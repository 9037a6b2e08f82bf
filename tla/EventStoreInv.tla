---------------------------- MODULE EventStoreInv ----------------------------
(***************************************************************************)
(* Why the journal can be trusted: what is known of the file, of the       *)
(* caches and of the events being written at each step, as an inductive    *)
(* invariant of module EventStore.                                         *)
(***************************************************************************)
EXTENDS EventStore

\* A sequence, whatever its elements are.
IsSeq(q) == Len(q) \in Nat /\ q = [i \in 1..Len(q) |-> q[i]]

Undisturbed == faults + crashes + outages + damages = 0
Undamaged   == damages = 0

Pieces(q) == IsSeq(q) /\ \A i \in 1..Len(q) : q[i].part \in {"head", "tail", "newline"}

FileShape == Pieces(file) /\ synced \in 0..Len(file) /\ IsSeq(acked)

StoreShape ==
    /\ cache = [s \in Stores |-> cache[s]]
    /\ event = [s \in Stores |-> event[s]]
    /\ pending = [s \in Stores |-> pending[s]]
    /\ \A s \in Stores : IsSeq(cache[s]) /\ Pieces(pending[s])

LockShape ==
    /\ holder \in Stores \union {NoStore}
    /\ pc \in [Stores -> Pcs]
    /\ \A s \in Stores : holder = s <=> pc[s] \in {"locked", "writing", "written"}

EventShape ==
    \A s \in Stores :
        /\ pending[s] # <<>> => pc[s] \in {"writing", "closing"}
        /\ event[s] # NoEvent <=> pc[s] \in {"writing", "written", "closing"}

ShapeInv ==
    /\ FileShape /\ StoreShape /\ LockShape /\ EventShape
    /\ {appends, faults, crashes, outages, damages} \subseteq Nat

\* A history that was verified, and the event that may follow one.
Chain(events) == Verifies(events) /\ \A k \in DOMAIN events : IsEvent(events[k])

Following(events, body) ==
    Event(Len(events) + 1, IF events = <<>> THEN NoHash ELSE Last(events).hash, body)

\* The event of an append follows what was verified under its lock, and nothing
\* of it is written before all of it is.
ChainInv ==
    \A s \in Stores :
        /\ Chain(cache[s])
        /\ pc[s] \in {"writing", "written"} => event[s] = Following(cache[s], s)
        /\ pc[s] = "writing" => pending[s] = LineOf(event[s])

\* The pieces of e are among the first n of f.
Holds(f, n, e) == \E i \in 1..n - 1 : f[i] = Opening(e) /\ f[i + 1] = Closing(e)

DurableInv ==
    Undamaged =>
        /\ \A k \in DOMAIN acked : Holds(file, synced, acked[k])
        /\ \A s \in Stores : pc[s] = "written" => Holds(file, Len(file), event[s])

\* The k-th line of f is the event e, or e and more.
Begins(f, k, e) ==
    /\ k \in DOMAIN Lines(f) /\ Len(Lines(f)[k]) >= 2
    /\ Lines(f)[k][1] = Opening(e) /\ Lines(f)[k][2] = Closing(e)

\* Nothing that is written to f makes it a journal any more.
Hopeless(line, k) ==
    \/ Len(line) >= 2 /\ (line[1].part # "head" \/ line[1].of.sequence # k)
    \/ Len(line) >= 3
Spoiled(f) == \E k \in DOMAIN Lines(f) : Hopeless(Lines(f)[k], k)

Recorded(f, events) == Spoiled(f) \/ \A k \in DOMAIN events : Begins(f, k, events[k])

\* What an instance verified, and what it has written on top of it, are the
\* first lines of the file, or nobody can read the file any more.
RecordInv ==
    Undamaged =>
        \A s \in Stores :
            /\ Recorded(file, cache[s])
            /\ pc[s] = "writing" =>
                    Spoiled(file) \/ Len(Lines(file)) >= Len(cache[s])
            /\ pc[s] = "written" => Recorded(file, Append(cache[s], event[s]))

\* Whoever has the lock and verified the file knows at least what others know.
AgreeInv ==
    Undamaged =>
        \A s, t \in Stores :
            /\ IsPrefix(cache[s], cache[t]) \/ IsPrefix(cache[t], cache[s])
            /\ pc[s] \in {"writing", "written"} => IsPrefix(cache[t], cache[s])

\* The file holds these events, each on a line of its own, and nothing else.
Clean(f, events) ==
    /\ Chain(events)
    /\ f = <<>> \/ Last(f) = Newline
    /\ Lines(f) = [k \in 1..Len(events) |-> <<Opening(events[k]), Closing(events[k])>>]

CleanInv ==
    Undisturbed =>
        /\ \A s \in Stores :
            /\ pc[s] # "closing"
            /\ pc[s] \in {"writing", "written"} => cache[s] = acked
            /\ pc[s] = "written" => Clean(file, Append(acked, event[s]))
        /\ (\A s \in Stores : pc[s] # "written") => Clean(file, acked)

IInv ==
    /\ ShapeInv
    /\ ChainInv /\ DurableInv /\ RecordInv /\ AgreeInv /\ CleanInv
=============================================================================

----------------------------- MODULE EventStore -----------------------------
(***************************************************************************)
(* The journal: a JSONL file shared by store instances in one or several   *)
(* processes (backend/app/services/event_store.py).                        *)
(*                                                                         *)
(* The file is a run of writes: the two halves of an event's JSON object   *)
(* and the newline after it, so that a write may be cut inside the object, *)
(* before the newline, or not at all.  An instance appends under an        *)
(* exclusive flock, after it re-read the file, verified the hash chain and *)
(* compared it with the events it verified before; a read does the same    *)
(* under a shared flock.  The events an instance verified are its cache.   *)
(*                                                                         *)
(* The digest of an event stands for itself: SHA-256 is taken to have no   *)
(* collisions.                                                             *)
(***************************************************************************)
EXTENDS Integers, Sequences, FiniteSets, SequencesExt

CONSTANTS
    Stores,         \* the store instances
    NoStore,        \* holds the flock when nobody does
    NoHash,         \* GENESIS_HASH
    MaxAppends, MaxFaults, MaxCrashes, MaxOutages, MaxDamages   \* bounds

ASSUME StoreAssumption ==
    /\ NoStore \notin Stores
    /\ {MaxAppends, MaxFaults, MaxCrashes, MaxOutages, MaxDamages} \subseteq Nat

VARIABLES
    file,       \* what the file holds, as the sequence of its pieces
    synced,     \* how much of it survives a power failure
    holder,     \* the instance with the exclusive flock
    pc,         \* [store -> where its append stands]
    cache,      \* [store -> the events it last verified]
    event,      \* [store -> the event its append is writing]
    pending,    \* [store -> the pieces of it that its file handle buffers]
    acked,      \* the events whose append returned
    appends, faults, crashes, outages, damages

vars == <<file, synced, holder, pc, cache, event, pending, acked,
          appends, faults, crashes, outages, damages>>
bounds == <<appends, faults, crashes, outages, damages>>

-----------------------------------------------------------------------------
(* Events, lines and the hash chain                                        *)

Digest(sequence, previous, body) ==
    [sequence |-> sequence, previous |-> previous, body |-> body]

Event(sequence, previous, body) ==
    [sequence |-> sequence, previous |-> previous, body |-> body,
     hash |-> Digest(sequence, previous, body)]

\* Stands where there is no event; the numbers of the events begin at 1.
NoEvent ==
    [sequence |-> 0, previous |-> NoHash, body |-> NoStore, hash |-> NoHash]

Opening(e) == [part |-> "head", of |-> e]
Closing(e) == [part |-> "tail", of |-> e]
Newline  == [part |-> "newline", of |-> NoEvent]
LineOf(e) == <<Opening(e), Closing(e), Newline>>

\* The n-th piece of f goes on with the line of the piece before it, or begins
\* another; a newline only ends one.
Continue(lines, f, n) ==
    IF f[n] = Newline THEN lines
    ELSE IF n > 1 /\ f[n - 1] # Newline
         THEN [lines EXCEPT ![Len(lines)] = Append(@, f[n])]
         ELSE Append(lines, <<f[n]>>)

\* The lines of a file that are not blank.
Lines(f) ==
    LET upTo[n \in 0..Len(f)] ==
            IF n = 0 THEN <<>> ELSE Continue(upTo[n - 1], f, n)
    IN  upTo[Len(f)]

\* A line is an event when it is one JSON object, with the fields of an event.
IsEvent(e) ==
    e = [sequence |-> e.sequence, previous |-> e.previous, body |-> e.body, hash |-> e.hash]

IsObject(line) ==
    /\ Len(line) = 2
    /\ line = <<Opening(line[1].of), Closing(line[1].of)>>
    /\ IsEvent(line[1].of)

\* (a slip) lines that do not parse are skipped too.
ObjectsTolerant(f) == SelectSeq(Lines(f), IsObject)

\* Only blank lines are skipped: any other line must be an event.
Objects(f) == Lines(f)
EventsOf(objects) == [k \in DOMAIN objects |-> objects[k][1].of]
Events(f) == EventsOf(Objects(f))

Verifies(events) ==
    \A k \in DOMAIN events :
        /\ events[k].sequence = k
        /\ events[k].previous = IF k = 1 THEN NoHash ELSE events[k - 1].hash
        /\ events[k].hash = Digest(k, events[k].previous, events[k].body)

\* (a slip) only a truncation is noticed.
KeepsLength(events, s) == Len(events) >= Len(cache[s])

\* The cached history is still there, event by event.
KeepsPrefix(events, s) ==
    /\ Len(events) >= Len(cache[s])
    /\ \A k \in DOMAIN cache[s] : events[k].hash = cache[s][k].hash

Accepts(s) ==
    LET objects == Objects(file) IN
    /\ \A k \in DOMAIN objects : IsObject(objects[k])
    /\ Verifies(EventsOf(objects))
    /\ KeepsPrefix(EventsOf(objects), s)

-----------------------------------------------------------------------------
Init ==
    /\ file = <<>>
    /\ synced = 0
    /\ holder = NoStore
    /\ pc = [s \in Stores |-> "down"]
    /\ cache = [s \in Stores |-> <<>>]
    /\ event = [s \in Stores |-> NoEvent]
    /\ pending = [s \in Stores |-> <<>>]
    /\ acked = <<>>
    /\ appends = 0 /\ faults = 0 /\ crashes = 0 /\ outages = 0 /\ damages = 0

Goto(s, label) == pc' = [pc EXCEPT ![s] = label]

Unlock == holder' = NoStore

\* A process starts, and refuses to over a journal that does not verify.
Open(s) ==
    /\ pc[s] = "down" /\ holder = NoStore
    /\ Accepts(s)
    /\ cache' = [cache EXCEPT ![s] = Events(file)]
    /\ Goto(s, "idle")
    /\ UNCHANGED <<file, synced, holder, event, pending, acked, bounds>>

\* all, query and verify: what is returned is the new cache, or they raise
\* (verify reports the chain invalid) and the cache stays.
Read(s) ==
    /\ pc[s] = "idle" /\ holder = NoStore
    /\ Accepts(s)
    /\ cache' = [cache EXCEPT ![s] = Events(file)]
    /\ UNCHANGED <<file, synced, holder, pc, event, pending, acked, bounds>>

BeginAppend(s) ==
    /\ pc[s] = "idle"
    /\ appends < MaxAppends
    /\ appends' = appends + 1
    /\ Goto(s, "waiting")
    /\ UNCHANGED <<file, synced, holder, cache, event, pending, acked,
                   faults, crashes, outages, damages>>

\* (a slip) each instance locks a file of its own.
LockAlone(s) ==
    /\ pc[s] = "waiting"
    /\ holder' = s
    /\ Goto(s, "locked")
    /\ UNCHANGED <<file, synced, cache, event, pending, acked, bounds>>

Lock(s) ==
    /\ pc[s] = "waiting" /\ holder = NoStore
    /\ holder' = s
    /\ Goto(s, "locked")
    /\ UNCHANGED <<file, synced, cache, event, pending, acked, bounds>>

\* (a slip) the event is chained to the head this instance remembers.
BuildOnCache(s) ==
    /\ pc[s] = "locked"
    /\ LET previous == IF cache[s] = <<>> THEN NoHash ELSE Last(cache[s]).hash
           new == Event(Len(cache[s]) + 1, previous, s)
       IN  /\ event' = [event EXCEPT ![s] = new]
           /\ pending' = [pending EXCEPT ![s] = LineOf(new)]
    /\ Goto(s, "writing")
    /\ UNCHANGED <<file, synced, holder, cache, acked, bounds>>

\* Under the lock the file is verified, and the event numbered and chained.
Build(s) ==
    /\ pc[s] = "locked"
    /\ Accepts(s)
    /\ LET events == Events(file)
           previous == IF events = <<>> THEN NoHash ELSE Last(events).hash
           new == Event(Len(events) + 1, previous, s)
       IN  /\ cache' = [cache EXCEPT ![s] = events]
           /\ event' = [event EXCEPT ![s] = new]
           /\ pending' = [pending EXCEPT ![s] = LineOf(new)]
    /\ Goto(s, "writing")
    /\ UNCHANGED <<file, synced, holder, acked, bounds>>

\* (a slip) the lock is not given up when verification raises.
RefuseHolding(s) ==
    /\ pc[s] = "locked"
    /\ ~Accepts(s)
    /\ Goto(s, "idle")
    /\ UNCHANGED <<file, synced, holder, cache, event, pending, acked, bounds>>

Refuse(s) ==
    /\ pc[s] = "locked"
    /\ ~Accepts(s)
    /\ Unlock
    /\ Goto(s, "idle")
    /\ UNCHANGED <<file, synced, cache, event, pending, acked, bounds>>

\* flush() hands the buffered line to the file.
Write(s) ==
    /\ pc[s] = "writing"
    /\ file' = file \o pending[s]
    /\ pending' = [pending EXCEPT ![s] = <<>>]
    /\ Goto(s, "written")
    /\ UNCHANGED <<synced, holder, cache, event, acked, bounds>>

\* flush() raises after a part of it, and the handle keeps the rest: the lock
\* is given up first, and the handle closed after it.
WriteFails(s) ==
    /\ pc[s] = "writing"
    /\ faults < MaxFaults
    /\ faults' = faults + 1
    /\ \E k \in 0..2 :
         /\ file' = file \o SubSeq(pending[s], 1, k)
         /\ pending' = [pending EXCEPT ![s] = SubSeq(@, k + 1, Len(@))]
    /\ Unlock
    /\ Goto(s, "closing")
    /\ UNCHANGED <<synced, cache, event, acked, appends, crashes, outages, damages>>

\* Closing the handle flushes what it buffers once more, with no lock held.
\* The append raises, whether or not this second flush succeeds.
CloseHandle(s) ==
    /\ pc[s] = "closing"
    /\ \E k \in 0..Len(pending[s]) : file' = file \o SubSeq(pending[s], 1, k)
    /\ pending' = [pending EXCEPT ![s] = <<>>]
    /\ event' = [event EXCEPT ![s] = NoEvent]
    /\ Goto(s, "idle")
    /\ UNCHANGED <<synced, holder, cache, acked, bounds>>

\* (a slip) the append returns without fsync.
AcknowledgeUnsynced(s) ==
    /\ pc[s] = "written"
    /\ cache' = [cache EXCEPT ![s] = Append(@, event[s])]
    /\ acked' = Append(acked, event[s])
    /\ event' = [event EXCEPT ![s] = NoEvent]
    /\ Unlock
    /\ Goto(s, "idle")
    /\ UNCHANGED <<file, synced, pending, bounds>>

\* fsync succeeds: the event enters the cache, and the append returns it.
Acknowledge(s) ==
    /\ pc[s] = "written"
    /\ synced' = Len(file)
    /\ cache' = [cache EXCEPT ![s] = Append(@, event[s])]
    /\ acked' = Append(acked, event[s])
    /\ event' = [event EXCEPT ![s] = NoEvent]
    /\ Unlock
    /\ Goto(s, "idle")
    /\ UNCHANGED <<file, pending, bounds>>

\* fsync raises: the line is in the file, and neither cached nor returned.
SyncFails(s) ==
    /\ pc[s] = "written"
    /\ faults < MaxFaults
    /\ faults' = faults + 1
    /\ event' = [event EXCEPT ![s] = NoEvent]
    /\ Unlock
    /\ Goto(s, "idle")
    /\ UNCHANGED <<file, synced, cache, pending, acked,
                   appends, crashes, outages, damages>>

-----------------------------------------------------------------------------
(* The world                                                               *)

\* A process dies: the kernel drops its lock, and a write in progress is cut.
Crash(s) ==
    /\ pc[s] # "down"
    /\ crashes < MaxCrashes
    /\ crashes' = crashes + 1
    /\ \E k \in 0..Len(pending[s]) : file' = file \o SubSeq(pending[s], 1, k)
    /\ holder' = IF holder = s THEN NoStore ELSE holder
    /\ cache' = [cache EXCEPT ![s] = <<>>]
    /\ event' = [event EXCEPT ![s] = NoEvent]
    /\ pending' = [pending EXCEPT ![s] = <<>>]
    /\ Goto(s, "down")
    /\ UNCHANGED <<synced, acked, appends, faults, outages, damages>>

\* The host dies: of what was not synced, any part may be lost.
Outage ==
    /\ outages < MaxOutages
    /\ outages' = outages + 1
    /\ \E n \in synced..Len(file) : file' = SubSeq(file, 1, n) /\ synced' = n
    /\ holder' = NoStore
    /\ cache' = [s \in Stores |-> <<>>]
    /\ event' = [s \in Stores |-> NoEvent]
    /\ pending' = [s \in Stores |-> <<>>]
    /\ pc' = [s \in Stores |-> "down"]
    /\ UNCHANGED <<acked, appends, faults, crashes, damages>>

\* Someone edits the last event, as it stands or with the hash recomputed, or
\* drops its line.
Damage ==
    /\ damages < MaxDamages
    /\ damages' = damages + 1
    /\ holder = NoStore
    /\ \E s \in Stores : Accepts(s)
    /\ Len(file) >= 3 /\ Last(file) = Newline
    /\ LET kept == SubSeq(file, 1, Len(file) - 3)
           e == file[Len(file) - 1].of
       IN  file' \in {kept, kept \o LineOf([e EXCEPT !.body = NoStore]),
                      kept \o LineOf(Event(e.sequence, e.previous, NoStore))}
    /\ synced' = Len(file')
    /\ UNCHANGED <<holder, pc, cache, event, pending, acked,
                   appends, faults, crashes, outages>>

\* Nothing is asked of the journal any more, or it lets nobody start.
Quiet ==
    /\ \A s \in Stores : \/ pc[s] = "idle" /\ appends = MaxAppends
                         \/ pc[s] = "down" /\ ~Accepts(s)
    /\ UNCHANGED vars

Step(s) ==
    \/ Lock(s) \/ Build(s) \/ Refuse(s) \/ Write(s) \/ WriteFails(s)
    \/ CloseHandle(s) \/ Acknowledge(s) \/ SyncFails(s)

Next ==
    \/ \E s \in Stores : Open(s) \/ Read(s) \/ BeginAppend(s) \/ Step(s) \/ Crash(s)
    \/ Outage \/ Damage \/ Quiet

Spec == Init /\ [][Next]_vars

\* A thread inside append runs on; flock wakes one of those that wait for it.
FairSpec == Spec /\ \A s \in Stores : WF_vars(Step(s))

-----------------------------------------------------------------------------
(* Properties                                                              *)

Pcs == {"down", "idle", "waiting", "locked", "writing", "written", "closing"}

TypeOK ==
    /\ \A i \in DOMAIN file : file[i].part \in {"head", "tail", "newline"}
    /\ synced \in 0..Len(file)
    /\ holder \in Stores \union {NoStore}
    /\ pc \in [Stores -> Pcs]
    /\ \A s \in Stores :
         /\ holder = s <=> pc[s] \in {"locked", "writing", "written"}
         /\ pending[s] # <<>> => pc[s] \in {"writing", "closing"}
         /\ event[s] # NoEvent <=> pc[s] \in {"writing", "written", "closing"}

\* An append that returned survives whatever happens next: process crashes,
\* power failures and the failing appends of others leave its bytes in place.
AckedDurable ==
    damages = 0 =>
        \A k \in DOMAIN acked :
            \E i \in 1..Len(file) - 1 :
                file[i] = Opening(acked[k]) /\ file[i + 1] = Closing(acked[k])

\* No read hides an acknowledged event: what an instance would be given now
\* holds every one of them, at its own sequence number.
ReadsComplete ==
    damages = 0 =>
        \A s \in Stores :
            holder = NoStore /\ Accepts(s) =>
                LET events == Events(file) IN
                \A k \in DOMAIN acked :
                    /\ acked[k].sequence <= Len(events)
                    /\ events[acked[k].sequence] = acked[k]

\* Two instances never hold different histories.
HistoriesAgree ==
    damages = 0 =>
        \A s, t \in Stores : IsPrefix(cache[s], cache[t]) \/ IsPrefix(cache[t], cache[s])

\* Without a failing write, a crash or an edit, the journal is readable whenever
\* its lock is free, and holds exactly what was acknowledged.
ReadableUndisturbed ==
    (faults + crashes + outages + damages = 0 /\ holder = NoStore) =>
        /\ \A k \in DOMAIN Objects(file) : IsObject(Objects(file)[k])
        /\ Verifies(Events(file))
        /\ Events(file) = acked

\* What an instance has verified it never sees changed, even by an edit that
\* recomputed the hashes: it fails closed instead.
HistoryNeverChanges ==
    [][\A s \in Stores : pc[s] # "down" /\ pc'[s] # "down" => IsPrefix(cache[s], cache'[s])]_vars

\* Every append returns or raises.
AppendsEnd == \A s \in Stores : pc[s] = "waiting" ~> pc[s] \in {"idle", "down"}

\* The comment on the exclusive lock promises that no two instances issue the
\* same sequence number, so no two records of the file should carry it.
SequencesUnique ==
    damages = 0 =>
        \A i, j \in DOMAIN file :
            (/\ file[i].part = "tail" /\ file[j].part = "tail"
             /\ file[i].of.sequence = file[j].of.sequence) => i = j

\* The store calls its file JSONL, one event per line: whatever an append wrote
\* and acknowledged must be a line of its own.
AckedOnOwnLine ==
    damages = 0 =>
        \A k \in DOMAIN acked :
            \E n \in DOMAIN Objects(file) :
                Objects(file)[n] = <<Opening(acked[k]), Closing(acked[k])>>
=============================================================================

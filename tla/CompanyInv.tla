----------------------------- MODULE CompanyInv -----------------------------
(***************************************************************************)
(* The inductive invariant of Company.                                     *)
(*                                                                         *)
(* Why a replay can agree although events are folded in in any order: an   *)
(* event that is folded in changes a wallet by its delta, and moves its    *)
(* agent from the status it records to another one, whatever the snapshot. *)
(* So a snapshot's balances, and who is in which status, are sums over the *)
(* set of events folded in, and do not depend on their order.              *)
(***************************************************************************)
EXTENDS Company

Snapshots == [Agents -> [status : Statuses, balance : Nat]]

(***************************************************************************)
(* Events                                                                  *)
(***************************************************************************)
SoundTransaction(ev) ==
    /\ {ev.before, ev.after} \subseteq Nat
    /\ ev.delta \in Int
    /\ ev.after = ev.before + ev.delta

\* A cycle puts agents to rest and wakes them up again, nothing else.
SoundStatus(ev) ==
    /\ {ev.before, ev.after} \subseteq Statuses
    /\ ev.task = NoTask =>
         ev.after = IF ev.before = "dormant" THEN "available" ELSE "dormant"

SoundEvent(ev) ==
    /\ ev.type \in EventTypes
    /\ ev.seq \in Nat \ {0}
    /\ ev.agent \in Agents
    /\ ev.type = "economy" => SoundTransaction(ev)
    /\ ev.type = "status"  => SoundStatus(ev)

\* Only what was awarded is reported as completed.
SoundCompletion(ev) ==
    ev.type = "status" /\ ev.task # NoTask =>
        \E x \in Awards(ev.agent) : x.task = ev.task

EventsSound ==
    /\ IsFiniteSet(built)
    /\ \A ev \in built : SoundEvent(ev) /\ SoundCompletion(ev)
    /\ applied \subseteq built
    /\ agents \in Snapshots

(***************************************************************************)
(* Occupation: an engineer is at most at one task, and only when it works, *)
(* unless it was put to rest at work or a completion was folded in twice.  *)
(***************************************************************************)
RestedAtWork(e) ==
    \E ev \in applied : /\ ev.type = "status" /\ ev.agent = e
                        /\ ev.before = "working" /\ ev.after = "dormant"

CompletedTwice(e) == \E x, y \in Completions(e) : x # y /\ x.task = y.task

Occupied(e) ==
    \/ RestedAtWork(e)
    \/ CompletedTwice(e)
    \/ agents[e].status = "working" /\ \A x, y \in Open(e) : x = y
    \/ Open(e) = {}

OccupationInv == \A e \in Engineers : Occupied(e)

(***************************************************************************)
(* What a snapshot measures, and what an event adds to it.                 *)
(***************************************************************************)
Measures == Agents \X ({"balance"} \union Statuses)

Unit(truth) == IF truth THEN 1 ELSE 0

Value(s, q) == IF q[2] = "balance" THEN s[q[1]].balance
               ELSE Unit(s[q[1]].status = q[2])

Leaves(ev) == IF ev.type = "award" THEN "available" ELSE ev.before
Enters(ev) == IF ev.type = "award" THEN "working" ELSE ev.after

Gain(ev, q) ==
    IF ev.agent # q[1] THEN 0
    ELSE IF q[2] = "balance" THEN IF ev.type = "economy" THEN ev.delta ELSE 0
    ELSE IF ev.type \in {"award", "status"}
         THEN Unit(Enters(ev) = q[2]) - Unit(Leaves(ev) = q[2])
         ELSE 0

Gained(events, q) == SumFunction([ev \in events |-> Gain(ev, q)])

Matches(s, events) ==
    \A q \in Measures : Value(s, q) = Value(InitialAgents, q) + Gained(events, q)

IInv ==
    /\ EventsSound
    /\ OccupationInv
    /\ Matches(agents, applied)
=============================================================================

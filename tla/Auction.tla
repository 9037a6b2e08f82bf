------------------------------ MODULE Auction ------------------------------
(***************************************************************************)
(* The implementation auction (run_auction in                              *)
(* backend/app/services/company.py): who of the engineers that bid gets    *)
(* the task.  It is a pure function of the task, the bids, a snapshot of   *)
(* the agents and the evidence on file.                                    *)
(*                                                                         *)
(*   task      [id, needs, budget, floor]                                  *)
(*   bid       [task, engineer, amount, credibility, refs], refs non-empty *)
(*   evidence  [reference -> [agent, score]]                               *)
(*   agents    [agent -> [status, balance]]                                *)
(*                                                                         *)
(* Scores, credibilities and thresholds are floats, which an auction only  *)
(* compares: they are numbered in their order, from 0.0 on.  What floats   *)
(* make of the mean of several scores, rounding included, is up to Mean.   *)
(***************************************************************************)
EXTENDS Integers, Sequences, FiniteSets, SequencesExt

CONSTANTS
    Roster,         \* PERSISTENT_AGENT_IDS, in their order
    Engineers,      \* ENGINEER_IDS
    Capabilities,   \* [agent -> the capabilities of its profile]
    Mean(_)         \* the rounded mean of [place in the bid -> score]

Agents   == ToSet(Roster)
Statuses == {"available", "working", "dormant"}

ASSUME RosterAssumption ==
    /\ Roster \in Seq(ToSet(Roster))
    /\ \A i, j \in DOMAIN Roster : Roster[i] = Roster[j] => i = j
    /\ Engineers \subseteq ToSet(Roster)
    /\ DOMAIN Capabilities = ToSet(Roster)

\* The order of engineer ids, which settles what nothing else does.
Position(e) == CHOOSE i \in DOMAIN Roster : Roster[i] = e

\* Exactly one bid from each engineer, or the auction is refused.
Complete(bids) ==
    /\ \A i, j \in DOMAIN bids : bids[i].engineer = bids[j].engineer => i = j
    /\ {bids[i].engineer : i \in DOMAIN bids} = Engineers

(***************************************************************************)
(* Assessment.  The evidence score is the mean over the references that    *)
(* are on file for the bidder itself, in the order in which it lists them. *)
(***************************************************************************)
OnFile(ref, evidence) == ref \in DOMAIN evidence

Own(bid, ref, evidence) ==
    OnFile(ref, evidence) /\ evidence[ref].agent = bid.engineer

\* Where in the bid those references stand.
Supporting(bid, evidence) ==
    {i \in DOMAIN bid.refs : Own(bid, bid.refs[i], evidence)}

ScoresAt(bid, places, evidence) == [i \in places |-> evidence[bid.refs[i]].score]

EvidenceScore(bid, evidence) ==
    LET own == Supporting(bid, evidence)
    IN  IF own = {} THEN 0 ELSE Mean(ScoresAt(bid, own, evidence))

\* (a slip) the claimed credibility is not held against the evidence.
EligibleAsClaimed(task, bid, agents, evidence) ==
    /\ bid.task = task.id
    /\ agents[bid.engineer].status = "available"
    /\ agents[bid.engineer].balance # 0
    /\ task.needs \subseteq Capabilities[bid.engineer]
    /\ bid.amount <= task.budget
    /\ bid.credibility >= task.floor

\* No reason against the bid was found.
Eligible(task, bid, agents, evidence) ==
    /\ bid.task = task.id
    /\ agents[bid.engineer].status = "available"
    /\ agents[bid.engineer].balance # 0
    /\ task.needs \subseteq Capabilities[bid.engineer]
    /\ bid.amount <= task.budget
    /\ bid.credibility >= task.floor
    /\ \A i \in DOMAIN bid.refs : Own(bid, bid.refs[i], evidence)
    /\ EvidenceScore(bid, evidence) >= bid.credibility

(***************************************************************************)
(* Selection: min() with the key (amount, -credibility, -score, id).       *)
(***************************************************************************)
Ahead(a, b, evidence) ==
    \/ a.amount < b.amount
    \/ /\ a.amount = b.amount
       /\ \/ a.credibility > b.credibility
          \/ /\ a.credibility = b.credibility
             /\ \/ EvidenceScore(a, evidence) > EvidenceScore(b, evidence)
                \/ /\ EvidenceScore(a, evidence) = EvidenceScore(b, evidence)
                   /\ Position(a.engineer) < Position(b.engineer)

EligibleBids(task, bids, agents, evidence) ==
    {b \in ToSet(bids) : Eligible(task, b, agents, evidence)}

\* An auction that is refused or finds no eligible bid raises: no winner.
Winners(task, bids, agents, evidence) ==
    LET fit == EligibleBids(task, bids, agents, evidence)
    IN {w \in fit : /\ Complete(bids)
                    /\ \A b \in fit \ {w} : Ahead(w, b, evidence)}
=============================================================================

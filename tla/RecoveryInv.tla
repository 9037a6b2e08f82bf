---------------------------- MODULE RecoveryInv ----------------------------
(***************************************************************************)
(* The inductive invariant of Recovery.                                    *)
(*                                                                         *)
(* Where a run stands is a fold over what a query returns of it.  All but  *)
(* the types therefore holds as long as queries return everything (Short); *)
(* past the limit the folds no longer see what is appended.                *)
(***************************************************************************)
EXTENDS Recovery

(***************************************************************************)
(* Types                                                                   *)
(***************************************************************************)
EventTypes ==
    PolicyMarks \union HealthEvents \union ReleaseEvents \union DOMAIN StatusOf
      \union {"policy.inherited", "ledger.transaction", "ledger.debit_skipped",
              "incident.analyzed", "benchmark.completed",
              "self_improvement.scheduled"}

Policies == Runs \X Nat
Events == [type : EventTypes, policy : Policies \union {NoPolicy},
           baseline : {0, FullCoverage}]
Operations == [step : Ops, run : Runs \union {NoRun}, debtor : 1..Len(Debtors),
               policy : Policies \union {NoPolicy}, baseline : {0, FullCoverage}]

\* A journal, and the event of it that the pulse looks at.
JournalTypes(journal, last) ==
    /\ journal \in [Runs -> Seq(Events)]
    /\ \A r \in Runs : \A k \in Marks(journal[r], PolicyMarks) :
          journal[r][k].policy \in Policies /\ journal[r][k].policy[1] = r
    /\ last \in [run : Runs \union {NoRun}, type : HealthEvents \union {"none"}]

TypeInv ==
    /\ JournalTypes(log, pulse)
    /\ balance \in [Accounts -> Nat]
    /\ op \in Operations
    /\ op.step # "none" => op.run \in Runs
    /\ op.step \in {"propose", "activate"} =>
          op.policy \in Policies /\ op.policy[1] = op.run
    /\ crashes \in 0..MaxCrashes

(***************************************************************************)
(* The operation under way                                                 *)
(***************************************************************************)
\* Queries return everything.
Short == \A r \in Runs : Len(log[r]) <= QueryLimit

OperationInv ==
    /\ op.step = "deliver" => StatusIn(log[op.run]) = "running"
    /\ op.step \in {"alert", "restore"} => StatusIn(log[op.run]) = "degraded"
    /\ op.step = "propose" =>
          op.policy = <<op.run, 1 + Count(log[op.run], "policy.proposed")>>
    /\ op.step = "activate" =>
          /\ OfKind(op.policy, "policy.approved") # {}
          /\ OfKind(op.policy, "policy.activated") = {}

(***************************************************************************)
(* What a run's events say of its incidents                                *)
(***************************************************************************)
IncidentInv(events) ==
    /\ StatusIn(events) \in {"completed", "recovered"} => VersionIn(events) = "stable"
    /\ StatusIn(events) = "degraded" => VersionIn(events) = "bad"
    /\ Count(events, "regression.injected")
         = Count(events, "rollback.completed")
             + IF StatusIn(events) = "degraded" THEN 1 ELSE 0

PulseInv(journal, last) ==
    /\ last.type \in {"fault.injected", "monitor.alert"} =>
          last.run \in Runs /\ StatusIn(journal[last.run]) = "degraded"
    /\ \A r \in Runs :
          StatusIn(journal[r]) = "degraded" /\ AlertedIn(journal[r]) /\ last.run = r
            => last.type \in {"fault.injected", "monitor.alert"}

(***************************************************************************)
(* And of the proposals that came from it: each event of a proposal has    *)
(* the one before it that its operation looked for, once.                  *)
(***************************************************************************)
OncePerPolicy(events, types) ==
    \A i, j \in Marks(events, types) : events[i].policy = events[j].policy => i = j

PolicyInv(r, events) ==
    /\ \A k \in Marks(events, {"policy.proposed"}) :
          \E n \in 1..Count(events, "policy.proposed") : events[k].policy = <<r, n>>
    /\ OncePerPolicy(events, {"policy.proposed"})
    /\ OncePerPolicy(events, Decisions)
    /\ OncePerPolicy(events, {"policy.activated"})
    /\ \A j \in Marks(events, Decisions) :
          \E i \in Marks(events, {"policy.proposed"}) :
             /\ i < j /\ events[i].policy = events[j].policy
             /\ events[j].type = "policy.approved" => FullCoverage > events[i].baseline
    /\ \A k \in Marks(events, {"policy.activated"}) :
          \E j \in Marks(events, {"policy.approved"}) :
             j < k /\ events[j].policy = events[k].policy

Histories(journal, last) ==
    /\ PulseInv(journal, last)
    /\ \A r \in Runs : IncidentInv(journal[r]) /\ PolicyInv(r, journal[r])

HistoryInv == Histories(log, pulse) /\ OperationInv

IInv == TypeInv /\ (Short => HistoryInv)
=============================================================================

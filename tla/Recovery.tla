------------------------------ MODULE Recovery ------------------------------
(***************************************************************************)
(* Incidents and what the company learns from them                         *)
(* (backend/app/services/orchestrator.py): a regression is injected into a *)
(* stable run, the run is rolled back to its known-good release, controls  *)
(* are proposed, and a human decides on them.                              *)
(*                                                                         *)
(* Nothing but the journal says where a run or a proposal stands, and a    *)
(* query for the events of a run returns the first QueryLimit of them.     *)
(* Each operation holds the run lock and appends its events one by one;    *)
(* the process may die between two of them, and no startup step finishes   *)
(* an operation that was cut short.                                        *)
(***************************************************************************)
EXTENDS Ledger, Sequences, FiniteSets, FiniteSetsExt, SequencesExt

CONSTANTS
    Runs, NoRun, NoPolicy,
    Liabilities,    \* [account -> credits it owes for an escaped regression]
    Balances,       \* [account -> credits] when the first run completes
    QueryLimit,
    MaxIncidents, MaxCrashes        \* bounds

Debtors == <<"engineer", "aegis", "sentinel", "shipwright">>
Accounts == ToSet(Debtors) \union {"incident-escrow"}

ASSUME RecoveryAssumption ==
    /\ NoRun \notin Runs
    /\ Liabilities \in [ToSet(Debtors) -> Nat \ {0}]
    /\ Balances \in [Accounts -> Nat]
    /\ {QueryLimit, MaxIncidents, MaxCrashes} \subseteq Nat

VARIABLES
    log,        \* [run -> the events of the journal that name it, in order]
    pulse,      \* the last event of the whole journal that the pulse looks at
    balance,    \* the ledger's sheet
    op,         \* what the holder of the run lock does next
    crashes

vars == <<log, pulse, balance, op, crashes>>

Ops == {"none", "deliver", "alert", "charge", "restore", "analyze", "benchmark",
        "propose", "activate", "schedule"}

OpAt(step, r, p) == [step |-> step, run |-> r, policy |-> p, debtor |-> 1, baseline |-> 0]
NoOp == OpAt("none", NoRun, NoPolicy)

\* The full score of the structural check: one control of each of four kinds.
FullCoverage == 4

-----------------------------------------------------------------------------
(* Read models: folds over the journal                                     *)

Event(type) == [type |-> type, policy |-> NoPolicy, baseline |-> 0]

About(type, p) == [Event(type) EXCEPT !.policy = p]

\* Where events of some types stand, and the type of the last of them.
Marks(events, types) == {k \in DOMAIN events : events[k].type \in types}
LastMark(events, types) == events[Max(Marks(events, types))].type

Count(events, type) == Cardinality(Marks(events, {type}))

\* What a query for one run returns.
View(r) == IF Len(log[r]) <= QueryLimit THEN log[r] ELSE SubSeq(log[r], 1, QueryLimit)

\* (a slip) a rollback counts as done when it starts.
StatusOfEager ==
    [type \in {"run.started", "run.completed", "run.failed", "regression.injected",
               "monitor.alert", "rollback.started", "rollback.completed"} |->
        CASE type = "run.started" -> "running"
          [] type = "run.completed" -> "completed"
          [] type = "run.failed" -> "failed"
          [] type \in {"rollback.started", "rollback.completed"} -> "recovered"
          [] OTHER -> "degraded"]

StatusOf ==
    [type \in {"run.started", "run.completed", "run.failed", "regression.injected",
               "monitor.alert", "rollback.started", "rollback.completed"} |->
        CASE type = "run.started" -> "running"
          [] type = "run.completed" -> "completed"
          [] type = "run.failed" -> "failed"
          [] type = "rollback.completed" -> "recovered"
          [] OTHER -> "degraded"]

StatusIn(events) ==
    IF Marks(events, DOMAIN StatusOf) = {} THEN "queued"
    ELSE StatusOf[LastMark(events, DOMAIN StatusOf)]

Status(r) == StatusIn(View(r))

(***************************************************************************)
(* The pulse: the last of these events, of whichever run, says how the     *)
(* sandbox is.  (No code emits a "fault.injected".)                        *)
(***************************************************************************)
\* (a slip) a rollback is not among them.
HealthEventsOfRuns ==
    {"fault.injected", "monitor.alert", "monitor.healthy", "run.completed"}

HealthEvents == {"fault.injected", "monitor.alert", "monitor.healthy",
                 "rollback.completed", "run.completed"}

PulseAfter(r, events) ==
    IF Marks(events, HealthEvents) = {} THEN pulse
    ELSE [run |-> r, type |-> LastMark(events, HealthEvents)]

PulseIsDegraded == pulse.type \in {"fault.injected", "monitor.alert"}

HasStableVersion(r) == Marks(View(r), {"deployment.succeeded"}) # {}

\* The release the run is on: a regression replaces the stable one, a rollback
\* restores it.
ReleaseEvents == {"deployment.succeeded", "regression.injected", "rollback.completed"}

VersionIn(events) ==
    IF Marks(events, ReleaseEvents) = {} THEN "none"
    ELSE IF LastMark(events, ReleaseEvents) = "regression.injected" THEN "bad"
    ELSE "stable"

CurrentVersion(r) == VersionIn(View(r))

\* (a slip) the proposals that were decided are counted.
NextAfterDecided(r) ==
    <<r, 1 + Count(View(r), "policy.approved") + Count(View(r), "policy.rejected")>>

\* The identifier of the next proposal of a run.
NextProposal(r) == <<r, 1 + Count(View(r), "policy.proposed")>>

PolicyMarks == {"policy.proposed", "policy.approved", "policy.rejected", "policy.activated"}

\* Where the events of a proposal stand: every one of them names the run that the
\* proposal came from.
HistoryOf(p) == {k \in Marks(log[p[1]], PolicyMarks) : log[p[1]][k].policy = p}
OfKind(p, type) == {k \in HistoryOf(p) : log[p[1]][k].type = type}

PoliciesWith(type) ==
    UNION {{log[r][k].policy : k \in Marks(log[r], {type})} : r \in Runs}

Proposals == PoliciesWith("policy.proposed")
ActivePolicies == PoliciesWith("policy.activated")

\* Where a proposal stands, and the last proposal recorded under its identifier:
\* policies() folds the whole journal.
PolicyStatus(p) == log[p[1]][Max(HistoryOf(p))].type
ProposalOf(p) == log[p[1]][Max(OfKind(p, "policy.proposed"))]

\* Every proposal carries a control of each kind.
ActiveCoverage == IF ActivePolicies = {} THEN 0 ELSE FullCoverage

-----------------------------------------------------------------------------
Init ==
    /\ log = [r \in Runs |-> <<>>]
    /\ pulse = [run |-> NoRun, type |-> "none"]
    /\ balance = Balances
    /\ op = NoOp
    /\ crashes = 0

LockFree == op.step = "none"
At(step) == op.step = step
Record(r, events) ==
    /\ log' = [log EXCEPT ![r] = @ \o events]
    /\ pulse' = PulseAfter(r, events)
NoRecord == UNCHANGED <<log, pulse>>
Then(step) == op' = [op EXCEPT !.step = step]
Return == op' = NoOp

\* A delivery takes the lock whether or not other runs are degraded, and
\* inherits the active controls.
StartDelivery(r) ==
    /\ LockFree
    /\ Status(r) = "queued"
    /\ Record(r, IF ActivePolicies = {} THEN <<Event("run.started")>>
                 ELSE <<Event("run.started"), Event("policy.inherited")>>)
    /\ op' = OpAt("deliver", r, NoPolicy)
    /\ UNCHANGED <<balance, crashes>>

\* It ends with a promoted release, or fails; see module Delivery.
EndDelivery ==
    /\ At("deliver")
    /\ \/ Record(op.run, <<Event("deployment.succeeded"), Event("monitor.healthy"),
                           Event("run.completed")>>)
       \/ Record(op.run, <<Event("run.failed")>>)
    /\ Return
    /\ UNCHANGED <<balance, crashes>>

InjectRegression(r) ==
    /\ LockFree
    /\ Status(r) \in {"completed", "recovered"}
    /\ HasStableVersion(r)
    /\ Count(log[r], "regression.injected") < MaxIncidents
    /\ Record(r, <<Event("regression.injected")>>)
    /\ op' = OpAt("alert", r, NoPolicy)
    /\ UNCHANGED <<balance, crashes>>

RaiseAlert ==
    /\ At("alert")
    /\ Record(op.run, <<Event("monitor.alert")>>)
    /\ Then("charge")
    /\ UNCHANGED <<balance, crashes>>

\* One debtor after the other pays what it owes, as far as its balance goes.
ChargeLiability ==
    /\ At("charge")
    /\ LET debtor == Debtors[op.debtor]
           charged == Charge(balance, debtor, Liabilities[debtor], TRUE)
       IN  /\ balance' = CappedDebit(balance, debtor, "incident-escrow",
                                     Liabilities[debtor], TRUE)
           /\ Record(op.run, <<Event(IF charged = 0 THEN "ledger.debit_skipped"
                                     ELSE "ledger.transaction")>>)
    /\ IF op.debtor = Len(Debtors) THEN Return
       ELSE op' = [op EXCEPT !.debtor = @ + 1]
    /\ UNCHANGED crashes

StartRollback(r) ==
    /\ LockFree
    /\ Status(r) = "degraded"
    /\ HasStableVersion(r)
    /\ Record(r, <<Event("rollback.started")>>)
    /\ op' = OpAt("restore", r, NoPolicy)
    /\ UNCHANGED <<balance, crashes>>

Restore ==
    /\ At("restore")
    /\ Record(op.run, <<Event("rollback.completed")>>)
    /\ Then("analyze")
    /\ UNCHANGED <<balance, crashes>>

Analyze ==
    /\ At("analyze")
    /\ Record(op.run, <<Event("incident.analyzed")>>)
    /\ Then("benchmark")
    /\ UNCHANGED <<balance, crashes>>

\* The identifier and the baseline of the proposal are read here, and recorded
\* with it one event later.
Benchmark ==
    /\ At("benchmark")
    /\ Record(op.run, <<Event("benchmark.completed")>>)
    /\ op' = [op EXCEPT !.step = "propose", !.policy = NextProposal(op.run),
                        !.baseline = ActiveCoverage]
    /\ UNCHANGED <<balance, crashes>>

Propose ==
    /\ At("propose")
    /\ Record(op.run, <<[About("policy.proposed", op.policy) EXCEPT !.baseline = op.baseline]>>)
    /\ Return
    /\ UNCHANGED <<balance, crashes>>

\* (a slip) an approval that was not followed by an activation is ignored.
UndecidedUntilActive(p) ==
    PolicyStatus(p) \notin {"policy.rejected", "policy.activated"}

Undecided(p) == PolicyStatus(p) = "policy.proposed"

\* (a slip) the candidate need not be better.
MatchesBaseline(p) == FullCoverage >= ProposalOf(p).baseline

\* The gate compares the candidate with the baseline the proposal recorded.
BeatsBaseline(p) == FullCoverage > ProposalOf(p).baseline

Approve(p) ==
    /\ LockFree
    /\ Undecided(p)
    /\ BeatsBaseline(p)
    /\ Record(p[1], <<About("policy.approved", p)>>)
    /\ op' = OpAt("activate", p[1], p)
    /\ UNCHANGED <<balance, crashes>>

Reject(p) ==
    /\ LockFree
    /\ Undecided(p)
    /\ Record(p[1], <<About("policy.rejected", p)>>)
    /\ UNCHANGED <<balance, op, crashes>>

Activate ==
    /\ At("activate")
    /\ Record(op.run, <<About("policy.activated", op.policy)>>)
    /\ Then("schedule")
    /\ UNCHANGED <<balance, crashes>>

Schedule ==
    /\ At("schedule")
    /\ Record(op.run, <<About("self_improvement.scheduled", op.policy)>>)
    /\ Return
    /\ UNCHANGED <<balance, crashes>>

\* The process dies and comes back: a delivery it cut short is closed as failed.
\* (An idle process loses nothing.)
Crash ==
    /\ ~LockFree
    /\ crashes < MaxCrashes
    /\ crashes' = crashes + 1
    /\ IF At("deliver") THEN Record(op.run, <<Event("run.failed")>>)
       ELSE NoRecord
    /\ Return
    /\ UNCHANGED balance

Continue ==
    \/ EndDelivery \/ RaiseAlert \/ ChargeLiability \/ Restore \/ Analyze
    \/ Benchmark \/ Propose \/ Activate \/ Schedule

Next ==
    \/ \E r \in Runs : StartDelivery(r) \/ InjectRegression(r) \/ StartRollback(r)
    \/ \E p \in Proposals : Approve(p) \/ Reject(p)
    \/ Continue
    \/ Crash

Spec == Init /\ [][Next]_vars

\* The thread that holds the run lock runs on.
FairSpec == Spec /\ WF_vars(Continue)

-----------------------------------------------------------------------------
(* Properties                                                              *)

TypeOK ==
    /\ DOMAIN log = Runs
    /\ \A r \in Runs : \A k \in DOMAIN log[r] :
         /\ log[r][k].baseline \in {0, FullCoverage}
         /\ log[r][k].type \in PolicyMarks => log[r][k].policy[1] = r
    /\ balance \in [Accounts -> Nat]
    /\ op.step \in Ops /\ op.debtor \in 1..Len(Debtors)
    /\ op.run \in Runs \union {NoRun}
    /\ crashes \in 0..MaxCrashes

\* A stable run is on its known-good release and answered all its incidents; a
\* degraded one is not, and has one to answer, wherever an injection or a
\* rollback was cut short.
StatusMatchesVersion ==
    \A r \in Runs :
        /\ Status(r) \in {"completed", "recovered"} => CurrentVersion(r) = "stable"
        /\ Status(r) = "degraded" => CurrentVersion(r) = "bad"
        /\ Count(log[r], "regression.injected")
             = Count(log[r], "rollback.completed")
                 + IF Status(r) = "degraded" THEN 1 ELSE 0

\* The alert of a run's last incident is in the journal.
AlarmEvents == {"regression.injected", "monitor.alert"}

AlertedIn(events) ==
    /\ Marks(events, AlarmEvents) # {}
    /\ LastMark(events, AlarmEvents) = "monitor.alert"

\* A degraded pulse points to a run that is degraded.  An operational one may
\* hide a degraded run, but only behind a later event of another run, or
\* because its alert was never recorded.
PulseTellsIncidents ==
    /\ PulseIsDegraded => Status(pulse.run) = "degraded"
    /\ \A r \in Runs :
          Status(r) = "degraded" /\ AlertedIn(log[r]) /\ pulse.run = r => PulseIsDegraded

\* A proposal is decided once, even when a crash cut its first decision short.
Decisions == {"policy.approved", "policy.rejected"}

OneDecision ==
    \A p \in Proposals :
        \A i, j \in HistoryOf(p) :
            log[p[1]][i].type \in Decisions /\ log[p[1]][j].type \in Decisions => i = j

\* No proposal is recorded under the identifier of another one.
ProposalsDistinct == \A p \in Proposals : Cardinality(OfKind(p, "policy.proposed")) = 1

\* Controls become active only after their own approval, which a human gave to
\* a proposal that had been measured better than its baseline.
ActivationIsApproved ==
    \A p \in ActivePolicies :
        /\ \E i, j, k \in HistoryOf(p) :
              /\ HistoryOf(p) = {i, j, k} /\ i < j /\ j < k
              /\ log[p[1]][i].type = "policy.proposed"
              /\ log[p[1]][j].type = "policy.approved"
              /\ log[p[1]][k].type = "policy.activated"
        /\ FullCoverage > ProposalOf(p).baseline

\* The architecture's drill refuses an approval unless the proposal covers more
\* than what is active when it is approved.
ApprovalBeatsActive ==
    [][\A p \in Proposals :
          OfKind(p, "policy.approved")' # OfKind(p, "policy.approved") =>
              FullCoverage > ActiveCoverage]_vars
=============================================================================

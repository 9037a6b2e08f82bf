------------------------------ MODULE Delivery ------------------------------
(***************************************************************************)
(* The delivery loop of one control-plane process                          *)
(* (backend/app/services/orchestrator.py).                                 *)
(*                                                                         *)
(* The journal is the only durable state: the run status, the ledger and   *)
(* the escrow of a run are all folds over it.  A delivery is one long      *)
(* method holding the process's run lock; it appends an event, moves       *)
(* credits or calls the coding runtime, one after the other, and the       *)
(* process can die, or the journal refuse an append, between any two of    *)
(* these.  At the next start every run that was started and not closed is  *)
(* closed as failed and its escrow goes back to atlas.                     *)
(*                                                                         *)
(* One action stands for one durable step of the method.  Audit-only       *)
(* events (memory.recalled, agent.released, memory.updated) are appended   *)
(* by the action of the milestone they belong to.                          *)
(***************************************************************************)
EXTENDS Ledger, FiniteSets

CONSTANTS
    Runs,           \* the objectives customers may submit (one run each)
    Engineers,      \* the bidders
    Genesis,        \* [account -> credits] after the company was bootstrapped
    Bids,           \* the amounts an engineer may bid
    CapableSets,    \* the sets of engineers an objective's wording can ask for
    Bounty, BidFee, Penalty,
    ReviewFee, VerifyFee, PromoteFee, AccountFee,
    MaxCrashes, MaxFaults, MaxRedeliveries,     \* bounds on the environment
    NoRun, NoAgent

Staff    == {"atlas", "aegis", "sentinel", "shipwright", "chronicle"}
Agents   == Staff \union Engineers
Accounts == Agents \union {"treasury", "escrow"}
Fees     == ReviewFee + VerifyFee + PromoteFee + AccountFee

ASSUME NamesAssumption ==
    /\ Engineers \cap (Staff \union {"treasury", "escrow"}) = {}
    /\ NoAgent \notin Engineers
    /\ NoRun \notin Runs
    /\ CapableSets \subseteq SUBSET Engineers

ASSUME CreditsAssumption ==
    /\ Genesis \in [Accounts -> Nat]
    /\ Genesis["escrow"] = 0
    /\ {Bounty, BidFee, Penalty, ReviewFee, VerifyFee, PromoteFee, AccountFee}
          \subseteq Nat \ {0}
    /\ Bids \subseteq Nat \ {0}
    /\ \A b \in Bids : b + Fees <= Bounty

ASSUME BoundsAssumption ==
    /\ IsFiniteSet(Runs) /\ IsFiniteSet(Engineers)
    /\ {MaxCrashes, MaxFaults, MaxRedeliveries} \subseteq Nat

VARIABLES
    (* what the journal says *)
    journal,     \* [run -> the types of the events it has]
    balance,     \* the ledger's balance sheet
    issued,      \* credits created by "issue" events since Genesis
    moved,       \* [run -> what its ledger events moved, by kind]
    version,     \* [run -> the release number it was promoted with, 0 if none]
    (* the process *)
    proc,        \* "serving", "down" or "recovering"
    tasks,       \* runs with a background task waiting for the run lock
    job,         \* what the holder of the run lock is doing
    (* the world, and what only an observer sees *)
    generated,   \* [run -> how often the coding runtime was invoked for it]
    stranded,    \* runs whose delivery raised in the process now alive
    crashes, faults, redeliveries

journalVars == <<journal, balance, issued, moved, version>>
envVars     == <<crashes, faults, redeliveries>>
vars == <<journalVars, proc, tasks, job, generated, stranded, envVars>>

EventTypes ==
    {"objective.created", "run.started", "planning.completed",
     "auction.opened", "auction.awarded", "runtime.invoked", "code.generated",
     "review.approved", "review.rejected", "review.unverified",
     "tests.passed", "tests.unverified", "deployment.started",
     "deployment.succeeded", "monitor.healthy", "changelog.written",
     "run.completed", "run.failed"}

Kinds == {"escrow", "payout", "refund", "penalty"}

Steps ==
    {"fund", "plan", "auction", "bid", "lock", "award", "generate", "capture",
     "review", "verify", "deploy", "promote", "monitor", "pay", "return",
     "write", "complete", "penalise", "settle", "reconcile"}

\* The local variables of the method that holds the run lock.
Jobs == [run : Runs \union {NoRun}, step : Steps \union {"idle"},
         winner : Engineers \union {NoAgent}, price : Bids \union {0},
         bidders : SUBSET Engineers, due : 1..5, release : Nat]

JobAt(r, step) == [run |-> r, step |-> step, winner |-> NoAgent, price |-> 0,
                   bidders |-> {}, due |-> 1, release |-> 0]
NoJob == JobAt(NoRun, "idle")

-----------------------------------------------------------------------------
(* Folds over the journal                                                  *)

Has(r, type) == type \in journal[r]
Created(r)   == Has(r, "objective.created")
Started(r)   == Has(r, "run.started")
Closed(r)    == Has(r, "run.completed") \/ Has(r, "run.failed")

\* (a slip) a completed run does not count as closed.
InterruptedIfNotFailed(r) == Started(r) /\ ~Has(r, "run.failed")

\* What startup reconciliation looks for.
Interrupted(r) == Started(r) /\ ~Closed(r)

\* The run's own balance on the shared escrow account.
RunEscrow(r) == moved[r]["escrow"] - moved[r]["payout"] - moved[r]["refund"]

\* DORMANT is a balance the participation fee would exhaust.
Dormant(e) == balance[e] <= BidFee

\* (a slip) releases of runs that failed after the promotion are not counted.
NextVersionOfCompleted ==
    1 + Cardinality({r \in Runs : Has(r, "run.completed")})

\* The release number counts the distinct versions promoted so far.
NextVersion ==
    1 + Cardinality({version[r] : r \in {q \in Runs : version[q] > 0}})

Init ==
    /\ journal = [r \in Runs |-> {}]
    /\ balance = Genesis
    /\ issued = 0
    /\ moved = [r \in Runs |-> [k \in Kinds |-> 0]]
    /\ version = [r \in Runs |-> 0]
    /\ proc = "serving"
    /\ tasks = {}
    /\ job = NoJob
    /\ generated = [r \in Runs |-> 0]
    /\ stranded = {}
    /\ crashes = 0 /\ faults = 0 /\ redeliveries = 0

-----------------------------------------------------------------------------
(* How a step of the lock holder changes the journal                       *)

At(step) == job.step = step

Goto(step) == job' = [job EXCEPT !.step = step]

Emit(r, types) == journal' = [journal EXCEPT ![r] = @ \union types]

\* A ledger posting of a run, recorded on the sheet and in the run's totals.
Post(r, kind, from, to, amount) ==
    /\ Covers(balance, from, amount)
    /\ balance' = Transfer(balance, from, to, amount)
    /\ moved' = [moved EXCEPT ![r][kind] = @ + amount]

\* What a step of the lock holder leaves alone, beyond what it names.
Untouched == UNCHANGED <<proc, tasks, stranded, envVars>>
NoPosting == UNCHANGED <<balance, issued, moved>>
NoEvent   == UNCHANGED <<journal, version>>

-----------------------------------------------------------------------------
(* Submitting and starting an objective                                    *)

\* Takes no lock: it interleaves with a delivery in progress.
CreateObjective(r) ==
    /\ proc = "serving"
    /\ journal[r] = {}
    /\ Emit(r, {"objective.created"})
    /\ tasks' = tasks \union {r}
    /\ UNCHANGED <<version, proc, job, generated, stranded, envVars>>
    /\ NoPosting

\* The record is on disk but the append raised (fsync): the request fails and
\* schedules nothing.
CreateObjectiveRaises(r) ==
    /\ proc = "serving"
    /\ journal[r] = {}
    /\ faults < MaxFaults
    /\ faults' = faults + 1
    /\ Emit(r, {"objective.created"})
    /\ UNCHANGED <<version, proc, tasks, job, generated, stranded, crashes, redeliveries>>
    /\ NoPosting

\* A caller hands an objective that was already started to the method again.
Redeliver(r) ==
    /\ proc = "serving"
    /\ Started(r) /\ r \notin tasks
    /\ redeliveries < MaxRedeliveries
    /\ redeliveries' = redeliveries + 1
    /\ tasks' = tasks \union {r}
    /\ UNCHANGED <<journalVars, proc, job, generated, stranded, crashes, faults>>

\* The run lock is free, and one of the waiting tasks takes it.
TakesLock(r) ==
    /\ proc = "serving"
    /\ At("idle")
    /\ r \in tasks
    /\ tasks' = tasks \ {r}
    /\ UNCHANGED <<proc, generated, envVars>>

\* (a slip) an interrupted run is executed from the start again.
ExecuteAgain(r) ==
    /\ TakesLock(r)
    /\ ~Closed(r)
    /\ Emit(r, {"run.started"})
    /\ job' = JobAt(r, "fund")
    /\ UNCHANGED <<version, stranded>>
    /\ NoPosting

ExecuteFresh(r) ==
    /\ TakesLock(r)
    /\ ~Started(r)
    /\ Emit(r, {"run.started"})
    /\ job' = JobAt(r, "fund")
    /\ UNCHANGED <<version, stranded>>
    /\ NoPosting

\* A started run is never resumed: it is closed as startup would close it.
ExecuteInterrupted(r) ==
    /\ TakesLock(r)
    /\ Interrupted(r)
    /\ job' = JobAt(r, "reconcile")
    /\ stranded' = stranded \ {r}
    /\ UNCHANGED journalVars

ExecuteClosed(r) ==
    /\ TakesLock(r)
    /\ Started(r) /\ Closed(r)
    /\ UNCHANGED <<journalVars, job, stranded>>

-----------------------------------------------------------------------------
(* The pipeline, in the order of _execute_pipeline                         *)

Fund ==
    /\ At("fund")
    /\ balance' = Issue(balance, "atlas", Bounty)
    /\ issued' = issued + Bounty
    /\ Goto("plan")
    /\ UNCHANGED <<moved, generated>> /\ NoEvent /\ Untouched

Plan ==
    /\ At("plan")
    /\ Emit(job.run, {"planning.completed"})
    /\ Goto("auction")
    /\ UNCHANGED <<version, generated>> /\ NoPosting /\ Untouched

\* The lowest bid of an awake engineer with the required capabilities wins.
\* Every engineer bids, and pays for it, whether eligible or not.
Auction ==
    /\ At("auction")
    /\ \E capable \in CapableSets, bid \in [Engineers -> Bids] :
         LET eligible == {e \in capable : ~Dormant(e)}
         IN  \E w \in eligible :
               /\ \A e \in eligible : bid[w] <= bid[e]
               /\ job' = [job EXCEPT !.step = "bid", !.bidders = Engineers,
                                     !.winner = w, !.price = bid[w]]
    /\ Emit(job.run, {"auction.opened"})
    /\ UNCHANGED <<version, generated>> /\ NoPosting /\ Untouched

\* AuctionError: the run fails, and nobody is to blame.
AuctionFails ==
    /\ At("auction")
    /\ \E capable \in CapableSets : \A e \in capable : Dormant(e)
    /\ Goto("settle")
    /\ UNCHANGED <<generated>> /\ NoEvent /\ NoPosting /\ Untouched

\* One engineer's bid and its fee, which an empty account is spared.
SubmitBid(e) ==
    /\ At("bid") /\ e \in job.bidders
    /\ balance' = CappedDebit(balance, e, "treasury", BidFee, FALSE)
    /\ job' = [job EXCEPT !.bidders = @ \ {e}]
    /\ UNCHANGED <<issued, moved, generated>> /\ NoEvent /\ Untouched

LockBounty ==
    /\ At("bid") /\ job.bidders = {}
    /\ Post(job.run, "escrow", "atlas", "escrow", Bounty)
    /\ Goto("award")
    /\ UNCHANGED <<issued, generated>> /\ NoEvent /\ Untouched

Award ==
    /\ At("award")
    /\ Emit(job.run, {"auction.awarded", "runtime.invoked"})
    /\ Goto("generate")
    /\ UNCHANGED <<version, generated>> /\ NoPosting /\ Untouched

\* The coding runtime runs, and returns a result or raises.
Generate ==
    /\ At("generate")
    /\ generated' = [generated EXCEPT ![job.run] = @ + 1]
    /\ \/ Goto("capture")
       \/ Goto("settle")
    /\ NoEvent /\ NoPosting /\ Untouched

Capture ==
    /\ At("capture")
    /\ Emit(job.run, {"code.generated"})
    /\ Goto("review")
    /\ UNCHANGED <<version, generated>> /\ NoPosting /\ Untouched

\* The reviewer approves with provenance the release gate accepts, or it
\* raises, or is not independent, or does not approve: then the winner pays.
ReviewApproves ==
    /\ At("review")
    /\ Emit(job.run, {"review.approved"})
    /\ Goto("verify")
    /\ UNCHANGED <<version, generated>> /\ NoPosting /\ Untouched

\* (a slip) a review that does not approve is recorded and not acted upon.
ReviewIgnored ==
    /\ At("review")
    /\ Emit(job.run, {"review.rejected"})
    /\ Goto("verify")
    /\ UNCHANGED <<version, generated>> /\ NoPosting /\ Untouched

ReviewBlocks ==
    /\ At("review")
    /\ \E types \in {{}, {"review.rejected"}, {"review.rejected", "review.unverified"}} :
         Emit(job.run, types)
    /\ Goto("penalise")
    /\ UNCHANGED <<version, generated>> /\ NoPosting /\ Untouched

\* Sentinel's own check outcomes decide, not what the engineer declared.
TestsPass ==
    /\ At("verify")
    /\ Emit(job.run, {"tests.passed"})
    /\ Goto("deploy")
    /\ UNCHANGED <<version, generated>> /\ NoPosting /\ Untouched

TestsUnverified ==
    /\ At("verify")
    /\ Emit(job.run, {"tests.unverified"})
    /\ Goto("penalise")
    /\ UNCHANGED <<version, generated>> /\ NoPosting /\ Untouched

\* The release number is read here and recorded one event later.
StartDeployment ==
    /\ At("deploy")
    /\ Emit(job.run, {"deployment.started"})
    /\ job' = [job EXCEPT !.step = "promote", !.release = NextVersion]
    /\ UNCHANGED <<version, generated>> /\ NoPosting /\ Untouched

Promote ==
    /\ At("promote")
    /\ Emit(job.run, {"deployment.succeeded"})
    /\ version' = [version EXCEPT ![job.run] = job.release]
    /\ Goto("monitor")
    /\ UNCHANGED generated /\ NoPosting /\ Untouched

Monitor ==
    /\ At("monitor")
    /\ Emit(job.run, {"monitor.healthy"})
    /\ Goto("pay")
    /\ UNCHANGED <<version, generated>> /\ NoPosting /\ Untouched

\* The five payouts, in the order they are appended.
Payee(j) == <<j.winner, "aegis", "sentinel", "shipwright", "chronicle">>[j.due]
Share(j) == <<j.price, ReviewFee, VerifyFee, PromoteFee, AccountFee>>[j.due]

\* (a slip) off by one at the last payee.
PayPastLast ==
    /\ At("pay")
    /\ Post(job.run, "payout", "escrow", Payee(job), Share(job))
    /\ job' = IF job.due > 5 THEN [job EXCEPT !.step = "return"]
              ELSE [job EXCEPT !.due = @ + 1]
    /\ UNCHANGED <<issued, generated>> /\ NoEvent /\ Untouched

Pay ==
    /\ At("pay")
    /\ Post(job.run, "payout", "escrow", Payee(job), Share(job))
    /\ job' = IF job.due = 5 THEN [job EXCEPT !.step = "return"]
              ELSE [job EXCEPT !.due = @ + 1]
    /\ UNCHANGED <<issued, generated>> /\ NoEvent /\ Untouched

\* (a slip) the bid fee is withheld as well.
RemainderLessFee(j) == Bounty - j.price - Fees - BidFee

\* What is left of the bounty, computed from the bid, not from the account.
Remainder(j) == Bounty - j.price - Fees

ReturnRemainder ==
    /\ At("return")
    /\ IF Remainder(job) = 0 THEN UNCHANGED <<balance, moved>>
       ELSE Post(job.run, "refund", "escrow", "atlas", Remainder(job))
    /\ Goto("write")
    /\ UNCHANGED <<issued, generated>> /\ NoEvent /\ Untouched

WriteChangelog ==
    /\ At("write")
    /\ Emit(job.run, {"changelog.written"})
    /\ Goto("complete")
    /\ UNCHANGED <<version, generated>> /\ NoPosting /\ Untouched

Complete ==
    /\ At("complete")
    /\ Emit(job.run, {"run.completed"})
    /\ job' = NoJob
    /\ UNCHANGED <<version, generated>> /\ NoPosting /\ Untouched

-----------------------------------------------------------------------------
(* A run that fails in the pipeline, and a run found interrupted           *)

\* The winner answers for evidence that failed, as far as its balance goes.
Penalise ==
    /\ At("penalise")
    /\ LET charged == Charge(balance, job.winner, Penalty, TRUE)
       IN  /\ balance' = CappedDebit(balance, job.winner, "treasury", Penalty, TRUE)
           /\ moved' = [moved EXCEPT ![job.run]["penalty"] = @ + charged]
    /\ Goto("settle")
    /\ UNCHANGED <<issued, generated>> /\ NoEvent /\ Untouched

\* (a slip) the refund's ledger event does not name its run.
RefundUnattributed(r) ==
    /\ RunEscrow(r) > 0
    /\ Covers(balance, "escrow", RunEscrow(r))
    /\ balance' = Transfer(balance, "escrow", "atlas", RunEscrow(r))
    /\ UNCHANGED <<issued, moved, generated, job>> /\ NoEvent /\ Untouched

\* Whatever the run still holds in escrow goes back to atlas.
RefundEscrow(r) ==
    /\ RunEscrow(r) > 0
    /\ Post(r, "refund", "escrow", "atlas", RunEscrow(r))
    /\ UNCHANGED <<issued, generated, job>> /\ NoEvent /\ Untouched

\* (a slip) a run is closed whether or not its escrow was returned.
CloseUnsettled(r) ==
    /\ Emit(r, {"run.failed"})
    /\ job' = NoJob
    /\ UNCHANGED <<version, generated>> /\ NoPosting /\ Untouched

CloseAsFailed(r) ==
    /\ RunEscrow(r) = 0
    /\ Emit(r, {"run.failed"})
    /\ job' = NoJob
    /\ UNCHANGED <<version, generated>> /\ NoPosting /\ Untouched

FailRefund == At("settle") /\ RefundEscrow(job.run)
FailClose  == At("settle") /\ CloseAsFailed(job.run)

ReconcileRefund == At("reconcile") /\ RefundEscrow(job.run)
ReconcileClose  == At("reconcile") /\ CloseAsFailed(job.run)

-----------------------------------------------------------------------------
(* Exceptions, crashes and restarts                                        *)

\* An append (or the ledger) raises outside the two guarded runtime calls.
\* The lock is released, nothing closes the run, the process lives on.
PipelineRaises ==
    /\ proc = "serving" /\ ~At("idle")
    /\ faults < MaxFaults
    /\ faults' = faults + 1
    /\ stranded' = stranded \union {job.run}
    /\ job' = NoJob
    /\ UNCHANGED <<journalVars, proc, tasks, generated, crashes, redeliveries>>

\* The same, before "run.started" is on disk: the task is spent, no run began.
ExecuteRaises(r) ==
    /\ proc = "serving" /\ At("idle") /\ r \in tasks
    /\ faults < MaxFaults
    /\ faults' = faults + 1
    /\ tasks' = tasks \ {r}
    /\ UNCHANGED <<journalVars, proc, job, generated, stranded, crashes, redeliveries>>

\* Background tasks live in memory only.
Crash ==
    /\ proc # "down"
    /\ crashes < MaxCrashes
    /\ crashes' = crashes + 1
    /\ proc' = "down"
    /\ tasks' = {} /\ job' = NoJob /\ stranded' = {}
    /\ UNCHANGED <<journalVars, generated, faults, redeliveries>>

\* The company was bootstrapped before, so bootstrapping appends nothing.
Restart ==
    /\ proc = "down"
    /\ proc' = "recovering"
    /\ UNCHANGED <<journalVars, tasks, job, generated, stranded, envVars>>

ReconcileNext(r) ==
    /\ proc = "recovering" /\ At("idle")
    /\ Interrupted(r)
    /\ job' = JobAt(r, "reconcile")
    /\ UNCHANGED <<journalVars, proc, tasks, generated, stranded, envVars>>

\* (a slip) requests are served before reconciliation is through.
ServeAtOnce ==
    /\ proc = "recovering" /\ At("idle")
    /\ proc' = "serving"
    /\ UNCHANGED <<journalVars, tasks, job, generated, stranded, envVars>>

FinishRecovery ==
    /\ proc = "recovering" /\ At("idle")
    /\ \A r \in Runs : ~Interrupted(r)
    /\ proc' = "serving"
    /\ UNCHANGED <<journalVars, tasks, job, generated, stranded, envVars>>

\* A server nobody has anything more to ask of.
Idle ==
    /\ proc = "serving" /\ At("idle") /\ tasks = {}
    /\ \A r \in Runs : Created(r)
    /\ UNCHANGED vars

-----------------------------------------------------------------------------
Pipeline ==
    \/ Fund \/ Plan \/ Auction \/ AuctionFails
    \/ \E e \in Engineers : SubmitBid(e)
    \/ LockBounty \/ Award \/ Generate \/ Capture
    \/ ReviewApproves \/ ReviewBlocks \/ TestsPass \/ TestsUnverified
    \/ StartDeployment \/ Promote \/ Monitor
    \/ Pay \/ ReturnRemainder \/ WriteChangelog \/ Complete
    \/ Penalise \/ FailRefund \/ FailClose
    \/ ReconcileRefund \/ ReconcileClose

Execute(r) == ExecuteFresh(r) \/ ExecuteInterrupted(r) \/ ExecuteClosed(r)

Startup == Restart \/ FinishRecovery \/ \E r \in Runs : ReconcileNext(r)

Environment ==
    \/ \E r \in Runs : \/ CreateObjective(r) \/ CreateObjectiveRaises(r)
                       \/ Redeliver(r) \/ ExecuteRaises(r)
    \/ PipelineRaises \/ Crash

Next == Pipeline \/ (\E r \in Runs : Execute(r)) \/ Startup \/ Environment \/ Idle

\* The thread that holds the lock runs on, a waiting task gets the lock once it
\* stays free, and the container restarts a process that died.
Fairness ==
    /\ WF_vars(Pipeline)
    /\ WF_vars(Startup)
    /\ \A r \in Runs : WF_vars(Execute(r))

Spec == Init /\ [][Next]_vars
FairSpec == Spec /\ Fairness

-----------------------------------------------------------------------------
(* Properties                                                              *)

TypeOK ==
    /\ journal \in [Runs -> SUBSET EventTypes]
    /\ balance \in [Accounts -> Int]
    /\ issued \in Nat
    /\ moved \in [Runs -> [Kinds -> Nat]]
    /\ version \in [Runs -> Nat]
    /\ proc \in {"serving", "down", "recovering"}
    /\ tasks \in SUBSET Runs
    /\ job \in Jobs
    /\ generated \in [Runs -> Nat]
    /\ stranded \in SUBSET Runs
    /\ crashes \in 0..MaxCrashes
    /\ faults \in 0..MaxFaults
    /\ redeliveries \in 0..MaxRedeliveries

NoOverdraft == \A a \in Accounts : balance[a] >= 0

\* No account is ever overdrawn and every credit was issued: however deliveries
\* are cut short, the sheet the ledger API reports stays conserved.
LedgerSound ==
    /\ NoOverdraft
    /\ Conserved(balance, SumFunction(Genesis) + issued)

\* The shared escrow account holds exactly what the runs' own escrows add up to,
\* so returning one run's escrow can never spend another's.
EscrowBacked ==
    balance["escrow"] = SumFunction([r \in Runs |-> RunEscrow(r)])

\* A run locks its bounty at most once, never pays or refunds more than it
\* locked, and has nothing left in escrow once it is closed, whichever of the
\* pipeline, its failure path and a later reconciliation closed it.
EscrowSettled ==
    \A r \in Runs :
        /\ moved[r]["escrow"] \in {0, Bounty}
        /\ RunEscrow(r) \in 0..Bounty
        /\ Closed(r) => RunEscrow(r) = 0

\* The coding runtime runs at most once for an objective, across restarts,
\* reconciliation and repeated delivery of the same task.
GeneratedOnce == \A r \in Runs : generated[r] <= 1

\* Escrow is paid out only on the evidence the release gate demands, and never
\* by a run whose winner was penalised.
PaidOnEvidence ==
    \A r \in Runs :
        moved[r]["payout"] > 0 =>
            /\ {"review.approved", "tests.passed", "deployment.succeeded",
                "monitor.healthy"} \subseteq journal[r]
            /\ moved[r]["penalty"] = 0

\* A completed run has its evidence, its account of the delivery and a paid-out
\* bounty, and was not also failed.
CompletedIsEarned ==
    \A r \in Runs :
        Has(r, "run.completed") =>
            /\ {"tests.passed", "monitor.healthy", "changelog.written"} \subseteq journal[r]
            /\ moved[r]["payout"] + moved[r]["refund"] = Bounty
            /\ ~Has(r, "run.failed")

\* While the process serves, a run that is open is the one being delivered, or
\* its delivery raised in this very process: a restart leaves none behind.
OpenRunsAccounted ==
    proc = "serving" =>
        \A r \in Runs : Interrupted(r) => r = job.run \/ r \in stranded

\* No two runs promote a release under the same version number.
ReleasesDistinct ==
    \A r, q \in Runs : version[r] > 0 /\ version[r] = version[q] => r = q

\* Delivery never appends to, posts for, or runs the coding runtime for a run
\* that is closed.
ClosedRunsStayClosed ==
    [][\A r \in Runs : Closed(r) =>
            /\ journal'[r] = journal[r] /\ moved'[r] = moved[r]
            /\ version'[r] = version[r] /\ generated'[r] = generated[r]]_vars

\* Once the last fault has happened, an objective whose task waits is delivered
\* to the end, and so is one whose run was started, unless its delivery raised
\* in a process that then never died.
RunsClose ==
    \A r \in Runs :
        /\ Started(r) ~> (Closed(r) \/ [](r \in stranded))
        /\ (r \in tasks /\ crashes = MaxCrashes /\ faults = MaxFaults)
              ~> (Closed(r) \/ [](r \in stranded))

\* What the customer sees of a run, folded from its events.
OutcomeOf(r) ==
    CASE Has(r, "run.completed") -> "completed"
      [] Has(r, "run.failed") /\ ~Has(r, "run.completed") -> "failed"
      [] Interrupted(r) -> "open"
      [] Created(r) /\ ~Started(r) /\ ~Closed(r) -> "accepted"
      [] OTHER -> "absent"

Contract == INSTANCE RunContract WITH
    outcome <- [r \in Runs |-> OutcomeOf(r)],
    vault   <- [r \in Runs |-> RunEscrow(r)],
    locked  <- [r \in Runs |-> moved[r]["escrow"] > 0]

\* Deliveries, with their crashes, retries and reconciliations, implement the
\* contract: everything in between is a stuttering step of it.
KeepsContract == Contract!Spec

\* reconcile_interrupted_runs says that it fails incomplete runs after a
\* restart: so no run created before the restart is still open after it.
RestartLeavesNoOpenRun ==
    [][proc = "recovering" /\ proc' = "serving" =>
            \A r \in Runs : Created(r) => Closed(r)]_vars
=============================================================================

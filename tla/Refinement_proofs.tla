-------------------------- MODULE Refinement_proofs --------------------------
(***************************************************************************)
(* The two refinements.                                                    *)
(*                                                                         *)
(* The delivery loop implements the customer's contract: each of its steps *)
(* is a step of RunContract for one run, or none at all.  And a service    *)
(* that starts over an empty journal implements the delivery loop: until   *)
(* the company is whole it does nothing that Delivery would see.           *)
(***************************************************************************)
EXTENDS Delivery_proofs, ServiceInv

(***************************************************************************)
(* The customer's contract                                                 *)
(***************************************************************************)
\* The step shows the customer of run r nothing new.
Hidden(r) ==
    /\ OutcomeOf(r)' = OutcomeOf(r)
    /\ RunEscrow(r)' = RunEscrow(r)
    /\ (moved[r]["escrow"] > 0)' = (moved[r]["escrow"] > 0)

\* Where a run stands, by its first and last events.
LEMMA OutcomeByEvents ==
    ASSUME NEW r
    PROVE  /\ Has(r, "run.completed") => OutcomeOf(r) = "completed"
           /\ Has(r, "run.failed") /\ ~Has(r, "run.completed") => OutcomeOf(r) = "failed"
           /\ Interrupted(r) => OutcomeOf(r) = "open"
           /\ Created(r) /\ ~Started(r) /\ ~Closed(r) => OutcomeOf(r) = "accepted"
           /\ ~Created(r) /\ ~Started(r) /\ ~Closed(r) => OutcomeOf(r) = "absent"
BY DEF OutcomeOf, Interrupted, Closed

\* A step that leaves a run's events and postings alone is hidden.
LEMMA QuietRun ==
    ASSUME NEW r, journal'[r] = journal[r], moved'[r] = moved[r]
    PROVE  Hidden(r)
BY DEF Hidden, OutcomeOf, RunEscrow, Has, Created, Started, Closed, Interrupted

\* If it is hidden for every run, the contract stutters.
LEMMA Stutters ==
    ASSUME \A r \in Runs : Hidden(r)
    PROVE  UNCHANGED Contract!contractVars
BY DEF Hidden, Contract!contractVars

LEMMA QuietStep ==
    ASSUME UNCHANGED <<journal, moved>>
    PROVE  UNCHANGED Contract!contractVars
BY Stutters, QuietRun

\* The milestones of the pipeline are hidden: they neither start nor end a run.
LEMMA MilestoneStutters ==
    ASSUME IInv, NEW r \in Runs,
           NEW types \in SUBSET (EventTypes \ {"objective.created", "run.started",
                                               "run.completed", "run.failed"}),
           Emit(r, types), UNCHANGED moved
    PROVE  UNCHANGED Contract!contractVars
<1> SUFFICES ASSUME NEW q \in Runs
             PROVE  Hidden(q)
  BY Stutters
<1>1. CASE q # r
  BY <1>1, QuietRun DEF Emit, IInv, TypeOK
<1>2. CASE q = r
  <2>1. journal'[q] = journal[q] \union types
    BY <1>2 DEF Emit, IInv, TypeOK
  <2> QED
    BY <2>1 DEF Hidden, OutcomeOf, RunEscrow, Has, Created, Started, Closed, Interrupted
<1> QED
  BY <1>1, <1>2

\* A run's first and last events are the steps of the contract that change
\* where it stands.
LEMMA EventShows ==
    ASSUME IInv, NEW r \in Runs, NEW type \in EventTypes, Emit(r, {type}),
           UNCHANGED moved, NEW from, NEW to,
           OutcomeOf(r) = from, OutcomeOf(r)' = to
    PROVE  Contract!Becomes(r, from, to)
<1>1. ASSUME NEW q \in Runs, q # r
      PROVE  Hidden(q)
  BY <1>1, QuietRun DEF Emit, IInv, TypeOK
<1>2. \A q \in Runs : RunEscrow(q)' = RunEscrow(q)
  BY DEF RunEscrow
<1>3. [q \in Runs |-> OutcomeOf(q)]'
        = [[q \in Runs |-> OutcomeOf(q)] EXCEPT ![r] = to]
  BY <1>1 DEF Hidden
<1> QED
  BY <1>2, <1>3 DEF Contract!Becomes

\* A payout or a refund leaves the vault with less, and with something sane.
LEMMA ReleaseShows ==
    ASSUME IInv, NEW r \in Runs, Interrupted(r), NEW kind \in {"payout", "refund"},
           NEW from, NEW to, NEW amount \in Nat, amount > 0,
           Post(r, kind, from, to, amount), RunEscrow(r) >= amount,
           UNCHANGED journal
    PROVE  Contract!Release(r)
<1>1. moved' = [moved EXCEPT ![r][kind] = @ + amount] /\ moved[r] \in [Kinds -> Nat]
  BY DEF Post, IInv, TypeOK
<1>2. RunEscrow(r) \in 0..Bounty /\ Bounty \in Nat
  BY CreditTypes DEF IInv, RunInv, EscrowOf
<1>3. RunEscrow(r)' = RunEscrow(r) - amount /\ moved'[r]["escrow"] = moved[r]["escrow"]
  BY <1>1 DEF RunEscrow, Kinds, IInv, TypeOK
<1>4. RunEscrow(r)' \in 0..Bounty /\ RunEscrow(r)' < RunEscrow(r)
  BY <1>2, <1>3
<1>5. ASSUME NEW q \in Runs, q # r
      PROVE  Hidden(q)
  BY <1>1, <1>5, QuietRun DEF IInv, TypeOK
<1>6. \A q \in Runs : OutcomeOf(q)' = OutcomeOf(q)
  BY DEF OutcomeOf, Has, Created, Started, Closed, Interrupted
<1>7. \A q \in Runs : (moved[q]["escrow"] > 0)' = (moved[q]["escrow"] > 0)
  BY <1>3, <1>5 DEF Hidden
<1>8. [q \in Runs |-> RunEscrow(q)]'
        = [[q \in Runs |-> RunEscrow(q)] EXCEPT ![r] = RunEscrow(r)']
  BY <1>5 DEF Hidden
<1>9. OutcomeOf(r) = "open"
  BY OutcomeByEvents
<1> QED
  BY <1>4, <1>6, <1>7, <1>8, <1>9 DEF Contract!Release

\* Closing a run as failed, which waits until its escrow is empty.
LEMMA CloseShows ==
    ASSUME IInv, job.step # "idle", CloseAsFailed(job.run)
    PROVE  Contract!Next
<1>1. PICK r \in Runs : r = job.run
  BY DEF IInv, LockInv
<1>2. Interrupted(r) /\ RunEscrow(r) = 0
  BY <1>1 DEF IInv, LockInv, CloseAsFailed
<1>3. OutcomeOf(r) = "open"
  BY <1>2, OutcomeByEvents
<1>4. journal'[r] = journal[r] \union {"run.failed"}
  BY <1>1 DEF CloseAsFailed, Emit, IInv, TypeOK
<1>5. "run.failed" \in journal'[r] /\ "run.completed" \notin journal'[r]
  BY <1>2, <1>4 DEF Has, Interrupted, Closed
<1>6. OutcomeOf(r)' = "failed"
  BY <1>5 DEF OutcomeOf, Has, Interrupted, Closed, Created, Started
<1>7. Contract!Becomes(r, "open", "failed")
  BY <1>1, <1>3, <1>6, EventShows DEF CloseAsFailed, NoPosting, EventTypes
<1> QED
  BY <1>2, <1>7 DEF Contract!Fail, Contract!Next

\* Returning what a run has left in escrow.
LEMMA RefundShows ==
    ASSUME IInv, job.step # "idle", RefundEscrow(job.run)
    PROVE  Contract!Next
<1>1. job.run \in Runs /\ Interrupted(job.run)
  BY DEF IInv, LockInv
<1>2. RunEscrow(job.run) \in Nat
  BY <1>1, CreditTypes DEF IInv, RunInv, EscrowOf
<1>3. Contract!Release(job.run)
  BY <1>1, <1>2, ReleaseShows DEF RefundEscrow, NoEvent
<1> QED
  BY <1>1, <1>3 DEF Contract!Next

\* The initial states map to the contract's.
LEMMA InitShows == Init => Contract!Init
<1> SUFFICES ASSUME Init PROVE Contract!Init
  OBVIOUS
<1>1. \A r \in Runs : moved[r]["escrow"] = 0 /\ RunEscrow(r) = 0
  BY DEF Init, RunEscrow, Kinds
<1>2. \A r \in Runs : OutcomeOf(r) = "absent"
  BY OutcomeByEvents DEF Init, Has, Created, Started, Closed
<1>3. \A r \in Runs : (moved[r]["escrow"] > 0) = FALSE
  BY <1>1
<1>4. [r \in Runs |-> moved[r]["escrow"] > 0] = [r \in Runs |-> FALSE]
  BY <1>3, Zenon
<1>5. [r \in Runs |-> RunEscrow(r)] = [r \in Runs |-> 0]
  BY <1>1
<1>6. [r \in Runs |-> OutcomeOf(r)] = [r \in Runs |-> "absent"]
  BY <1>2
<1> QED
  BY <1>4, <1>5, <1>6, Zenon DEF Contract!Init

\* Every step maps to a step of the contract or to a stutter.
LEMMA StepShows ==
    ASSUME IInv, [Next]_vars
    PROVE  [Contract!Next]_Contract!contractVars
<1> USE DEF Untouched, NoPosting, NoEvent, At, journalVars
<1>1. CASE Fund
  BY <1>1, QuietStep DEF Fund
<1>2. CASE Plan
  BY <1>2, MilestoneStutters DEF Plan, IInv, LockInv, EventTypes
<1>3. CASE Auction
  BY <1>3, MilestoneStutters DEF Auction, IInv, LockInv, EventTypes
<1>4. CASE AuctionFails
  BY <1>4, QuietStep DEF AuctionFails
<1>5. ASSUME NEW e \in Engineers, SubmitBid(e)
     PROVE  [Contract!Next]_Contract!contractVars
  BY <1>5, QuietStep DEF SubmitBid
<1>6. CASE LockBounty
  <2>r. PICK r \in Runs : r = job.run
    BY <1>6 DEF LockBounty, IInv, LockInv
  <2>1. /\ Interrupted(r) /\ moved[r]["escrow"] = 0 /\ moved[r]["payout"] = 0
        /\ moved[r]["refund"] = 0 /\ UNCHANGED journal
    BY <1>6, <2>r DEF LockBounty, IInv, LockInv, StageInv, BeforeLock
  <2>2. moved' = [moved EXCEPT ![r]["escrow"] = @ + Bounty] /\ moved[r] \in [Kinds -> Nat]
    BY <1>6, <2>r DEF LockBounty, Post, IInv, TypeOK
  <2>3. Bounty \in Nat /\ Bounty > 0
    BY CreditTypes
  <2>4. RunEscrow(r)' = Bounty /\ moved'[r]["escrow"] = Bounty
    BY <2>1, <2>2, <2>3 DEF RunEscrow, Kinds, IInv, TypeOK
  <2>5. \A q \in Runs : q # r => Hidden(q)
    BY <2>1, <2>2, QuietRun DEF IInv, TypeOK
  <2>6. \A q \in Runs : OutcomeOf(q)' = OutcomeOf(q)
    BY <2>1 DEF OutcomeOf, Has, Created, Started, Closed, Interrupted
  <2>7. OutcomeOf(r) = "open"
    BY <2>1, OutcomeByEvents
  <2>8. [q \in Runs |-> RunEscrow(q)]'
          = [[q \in Runs |-> RunEscrow(q)] EXCEPT ![r] = Bounty]
    BY <2>4, <2>5 DEF Hidden
  <2>9. [q \in Runs |-> moved[q]["escrow"] > 0]'
          = [[q \in Runs |-> moved[q]["escrow"] > 0] EXCEPT ![r] = TRUE]
    BY <2>3, <2>4, <2>5 DEF Hidden
  <2>10. ~[q \in Runs |-> moved[q]["escrow"] > 0][r]
    <3>1. (moved[r]["escrow"] > 0) = FALSE
      BY <2>1
    <3> QED
      BY <3>1, Zenon
  <2>11. [q \in Runs |-> OutcomeOf(q)]' = [q \in Runs |-> OutcomeOf(q)]
    BY <2>6
  <2>12. Contract!Lock(r)
    BY <2>7, <2>8, <2>9, <2>10, <2>11 DEF Contract!Lock
  <2> QED
    BY <2>12 DEF Contract!Next
<1>7. CASE Award
  BY <1>7, MilestoneStutters DEF Award, IInv, LockInv, EventTypes
<1>8. CASE Generate
  BY <1>8, QuietStep DEF Generate
<1>9. CASE Capture
  BY <1>9, MilestoneStutters DEF Capture, IInv, LockInv, EventTypes
<1>10. CASE ReviewApproves
  BY <1>10, MilestoneStutters DEF ReviewApproves, IInv, LockInv, EventTypes
<1>11. CASE ReviewBlocks
  <2>1. PICK types \in {{}, {"review.rejected"}, {"review.rejected", "review.unverified"}} :
          Emit(job.run, types)
    BY <1>11 DEF ReviewBlocks
  <2> QED
    BY <1>11, <2>1, MilestoneStutters DEF ReviewBlocks, IInv, LockInv, EventTypes
<1>12. CASE TestsPass
  BY <1>12, MilestoneStutters DEF TestsPass, IInv, LockInv, EventTypes
<1>13. CASE TestsUnverified
  BY <1>13, MilestoneStutters DEF TestsUnverified, IInv, LockInv, EventTypes
<1>14. CASE StartDeployment
  BY <1>14, MilestoneStutters DEF StartDeployment, IInv, LockInv, EventTypes
<1>15. CASE Promote
  BY <1>15, MilestoneStutters DEF Promote, IInv, LockInv, EventTypes
<1>16. CASE Monitor
  BY <1>16, MilestoneStutters DEF Monitor, IInv, LockInv, EventTypes
<1>17. CASE Pay
  <2>1. /\ job.run \in Runs /\ Interrupted(job.run) /\ StageInv
        /\ job.step = "pay" /\ job.due \in 1..5 /\ job.price \in Bids
    BY <1>17 DEF Pay, IInv, TypeOK, Jobs, LockInv, HasWinner, OnHealth, OnPromotion,
                 OnTests, OnApproval
  <2>2. Share(job) \in Nat /\ Share(job) > 0 /\ RunEscrow(job.run) >= Share(job)
    BY <2>1, CreditsAssumption DEF StageInv, PaidBefore, Share, Fees, RunEscrow
  <2>3. Contract!Release(job.run)
    BY <1>17, <2>1, <2>2, ReleaseShows DEF Pay
  <2> QED
    BY <2>1, <2>3 DEF Contract!Next
<1>18. CASE ReturnRemainder
  <2>1. CASE Remainder(job) = 0
    BY <1>18, <2>1, QuietStep DEF ReturnRemainder
  <2>2. CASE Remainder(job) # 0
    <3>1. /\ job.run \in Runs /\ Interrupted(job.run) /\ StageInv
          /\ job.step = "return" /\ job.price \in Bids
      BY <1>18 DEF ReturnRemainder, IInv, LockInv, HasWinner, OnHealth, OnPromotion,
                   OnTests, OnApproval
    <3>2. /\ moved[job.run]["escrow"] = Bounty /\ moved[job.run]["refund"] = 0
          /\ moved[job.run]["payout"] = job.price + Fees
      BY <3>1 DEF StageInv
    <3>3. Remainder(job) \in Nat /\ Remainder(job) > 0 /\ RunEscrow(job.run) = Remainder(job)
      BY <2>2, <3>1, <3>2, CreditTypes DEF Remainder, RunEscrow
    <3>4. Contract!Release(job.run)
      BY <1>18, <2>2, <3>1, <3>3, ReleaseShows DEF ReturnRemainder
    <3> QED
      BY <3>1, <3>4 DEF Contract!Next
  <2> QED
    BY <2>1, <2>2
<1>19. CASE WriteChangelog
  BY <1>19, MilestoneStutters DEF WriteChangelog, IInv, LockInv, EventTypes
<1>20. CASE Complete
  <2>1. PICK r \in Runs : r = job.run
    BY <1>20 DEF Complete, IInv, LockInv
  <2>2. Interrupted(r) /\ StageInv /\ job.step = "complete" /\ job.price \in Bids
    BY <1>20, <2>1 DEF Complete, IInv, LockInv, HasWinner, OnHealth, OnPromotion,
                       OnTests, OnApproval
  <2>3. /\ moved[r]["escrow"] = Bounty /\ moved[r]["payout"] = job.price + Fees
        /\ moved[r]["refund"] = Remainder(job)
    BY <2>1, <2>2 DEF StageInv
  <2>4. RunEscrow(r) = 0 /\ moved[r]["escrow"] > 0
    BY <2>2, <2>3, CreditTypes DEF Remainder, RunEscrow
  <2>5. OutcomeOf(r) = "open"
    BY <2>2, OutcomeByEvents
  <2>6. journal'[r] = journal[r] \union {"run.completed"}
    BY <1>20, <2>1 DEF Complete, Emit, IInv, TypeOK
  <2>7. OutcomeOf(r)' = "completed"
    BY <2>6 DEF OutcomeOf, Has, Interrupted, Closed, Created, Started
  <2>8. Contract!Becomes(r, "open", "completed")
    BY <1>20, <2>1, <2>5, <2>7, EventShows DEF Complete, EventTypes
  <2>9. Contract!Complete(r)
    BY <2>4, <2>8 DEF Contract!Complete
  <2> QED
    BY <2>9 DEF Contract!Next
<1>21. CASE Penalise
  <2> SUFFICES ASSUME NEW q \in Runs
               PROVE  Hidden(q)
    BY Stutters
  <2>1. /\ UNCHANGED journal /\ moved'[q]["escrow"] = moved[q]["escrow"]
        /\ moved'[q]["payout"] = moved[q]["payout"] /\ moved'[q]["refund"] = moved[q]["refund"]
    BY <1>21 DEF Penalise, IInv, TypeOK, Kinds
  <2> QED
    BY <2>1 DEF Hidden, OutcomeOf, RunEscrow, Has, Created, Started, Closed, Interrupted
<1>22. CASE FailRefund
  BY <1>22, RefundShows DEF FailRefund
<1>23. CASE FailClose
  BY <1>23, CloseShows DEF FailClose
<1>24. CASE ReconcileRefund
  BY <1>24, RefundShows DEF ReconcileRefund
<1>25. CASE ReconcileClose
  BY <1>25, CloseShows DEF ReconcileClose
<1>26. CASE PipelineRaises
  BY <1>26, QuietStep DEF PipelineRaises
<1>27. CASE Crash
  BY <1>27, QuietStep DEF Crash
<1>28. CASE Restart
  BY <1>28, QuietStep DEF Restart
<1>29. CASE FinishRecovery
  BY <1>29, QuietStep DEF FinishRecovery
<1>30. CASE Idle
  BY <1>30, QuietStep DEF Idle, vars
<1>31. ASSUME NEW r \in Runs, CreateObjective(r) \/ CreateObjectiveRaises(r)
     PROVE  [Contract!Next]_Contract!contractVars
  <2>1. journal[r] = {} /\ Emit(r, {"objective.created"}) /\ UNCHANGED moved
    BY <1>31 DEF CreateObjective, CreateObjectiveRaises
  <2>2. OutcomeOf(r) = "absent"
    BY <2>1, OutcomeByEvents DEF Has, Created, Started, Closed
  <2>3. journal'[r] = {"objective.created"}
    BY <2>1 DEF Emit, IInv, TypeOK
  <2>4. OutcomeOf(r)' = "accepted"
    BY <2>3 DEF OutcomeOf, Interrupted, Has, Created, Started, Closed
  <2>5. Contract!Accept(r)
    BY <2>1, <2>2, <2>4, EventShows DEF Contract!Accept, EventTypes
  <2> QED
    BY <2>5 DEF Contract!Next
<1>32. ASSUME NEW r \in Runs, Redeliver(r)
     PROVE  [Contract!Next]_Contract!contractVars
  BY <1>32, QuietStep DEF Redeliver
<1>33. ASSUME NEW r \in Runs, ExecuteFresh(r)
     PROVE  [Contract!Next]_Contract!contractVars
  <2>1. /\ r \in tasks /\ ~Started(r) /\ Emit(r, {"run.started"}) /\ UNCHANGED moved
        /\ Created(r) /\ ~Closed(r)
    BY <1>33 DEF ExecuteFresh, TakesLock, IInv, RunInv, History
  <2>2. OutcomeOf(r) = "accepted"
    BY <2>1, OutcomeByEvents
  <2>3. journal'[r] = journal[r] \union {"run.started"}
    BY <2>1 DEF Emit, IInv, TypeOK
  <2>4. OutcomeOf(r)' = "open"
    BY <2>1, <2>3 DEF OutcomeOf, Interrupted, Has, Created, Started, Closed
  <2>5. Contract!Open(r)
    BY <2>1, <2>2, <2>4, EventShows DEF Contract!Open, EventTypes
  <2> QED
    BY <2>5 DEF Contract!Next
<1>34. ASSUME NEW r \in Runs, ExecuteInterrupted(r)
     PROVE  [Contract!Next]_Contract!contractVars
  BY <1>34, QuietStep DEF ExecuteInterrupted
<1>35. ASSUME NEW r \in Runs, ExecuteClosed(r)
     PROVE  [Contract!Next]_Contract!contractVars
  BY <1>35, QuietStep DEF ExecuteClosed
<1>36. ASSUME NEW r \in Runs, ExecuteRaises(r)
     PROVE  [Contract!Next]_Contract!contractVars
  BY <1>36, QuietStep DEF ExecuteRaises
<1>37. ASSUME NEW r \in Runs, ReconcileNext(r)
     PROVE  [Contract!Next]_Contract!contractVars
  BY <1>37, QuietStep DEF ReconcileNext
<1>38. CASE UNCHANGED vars
  BY <1>38, QuietStep DEF vars
<1> HIDE DEF Untouched, NoPosting, NoEvent, At, journalVars
<1> QED
  BY <1>1, <1>2, <1>3, <1>4, <1>5, <1>6, <1>7, <1>8, <1>9, <1>10, <1>11,
     <1>12, <1>13, <1>14, <1>15, <1>16, <1>17, <1>18, <1>19, <1>20, <1>21,
     <1>22, <1>23, <1>24, <1>25, <1>26, <1>27, <1>28, <1>29, <1>30, <1>31,
     <1>32, <1>33, <1>34, <1>35, <1>36, <1>37, <1>38
  DEF Next, Pipeline, Execute, Startup, Environment

\* However it is interrupted, retried and reconciled, the delivery of every
\* objective keeps the contract: it is opened and its bounty locked at most
\* once, credits leave the vault only while it is open, and it ends once, with
\* the vault empty (execute_objective, reconcile_interrupted_runs).
THEOREM ContractKept == Spec => KeepsContract
<1>1. Init => Contract!Init
  BY InitShows
<1>2. IInv /\ [Next]_vars => [Contract!Next]_Contract!contractVars
  BY StepShows
<1> QED
  BY <1>1, <1>2, Invariance, PTL DEF Spec, KeepsContract, Contract!Spec

-----------------------------------------------------------------------------
(***************************************************************************)
(* The bootstrapping events                                                *)
(***************************************************************************)
LEMMA FactFields ==
    ASSUME NEW f \in BootFacts
    PROVE  /\ f.agent \in Agents
           /\ f.kind = "genesis" => f = GenesisFact(f.agent)
           /\ \A a \in Agents : f = GenesisFact(a) => f.kind = "genesis" /\ f.agent = a
<1>1. PICK b \in Agents : f \in FactsOf(b)
  BY DEF BootFacts
<1>2. \/ f = Fact("registered", b, 0)
      \/ f = GenesisFact(b)
      \/ \E i \in 1..Seeds : f = Fact("memory", b, i)
  BY <1>1 DEF FactsOf
<1> QED
  BY <1>2 DEF Fact, GenesisFact

LEMMA GenesisListed == \A a \in Agents : GenesisFact(a) \in BootFacts
BY DEF BootFacts, FactsOf

\* The sheet of a company that is whole.
LEMMA WholeSheet ==
    ASSUME Whole
    PROVE  BootSheet = Genesis
<1>1. Accounts = Agents \union {"treasury", "escrow"} /\ Genesis \in [Accounts -> Nat]
  BY CreditsAssumption DEF Accounts
<1>2. Genesis["treasury"] = 0 /\ Genesis["escrow"] = 0
  BY CreditsAssumption, ServiceAssumption
<1>3. \A a \in Agents : Known(GenesisFact(a))
  BY GenesisListed DEF Whole
<1> QED
  BY <1>1, <1>2, <1>3 DEF BootSheet

\* Agents exist, so a file without events does not hold a whole company.
LEMMA EmptyIsNotWhole == Empty => ~Whole
<1>1. "atlas" \in Agents
  BY DEF Agents, Staff
<1> QED
  BY <1>1, GenesisListed DEF Empty, Whole

(***************************************************************************)
(* The steps of the lock holder                                            *)
(***************************************************************************)
LEMMA RestShape ==
    /\ NoJob.step = "idle"
    /\ \A r, step : /\ JobAt(r, step).step = step /\ JobAt(r, step).run = r
                    /\ DOMAIN JobAt(r, step) = DOMAIN NoJob
BY DEF JobAt, NoJob

\* The run being delivered does not change under way, and once a delivery is
\* over its run is closed.
Advances ==
    /\ job.step # "idle"
    /\ UNCHANGED <<proc, tasks, stranded, crashes>>
    /\ DOMAIN job' = DOMAIN NoJob
    /\ journal' \in [Runs -> SUBSET EventTypes]
    /\ \A r \in Runs : /\ journal[r] \subseteq journal'[r]
                       /\ r # job.run => journal'[r] = journal[r]
    /\ IF job'.step = "idle"
       THEN \E type \in {"run.completed", "run.failed"} : type \in journal'[job.run]
       ELSE job'.run = job.run

\* It moves on and records types.
LEMMA MovesOn ==
    ASSUME journal \in [Runs -> SUBSET EventTypes], DOMAIN job = DOMAIN NoJob,
           job.step # "idle", NEW step, step # "idle",
           DOMAIN job' = DOMAIN job, job'.run = job.run, job'.step = step,
           NEW types \in SUBSET EventTypes, Emit(job.run, types) \/ UNCHANGED journal,
           Untouched
    PROVE  Advances
BY DEF Advances, Emit, Untouched, envVars

LEMMA GoesTo ==
    ASSUME DOMAIN job = DOMAIN NoJob, NEW step, Goto(step)
    PROVE  DOMAIN job' = DOMAIN job /\ job'.run = job.run /\ job'.step = step
BY DEF NoJob, JobAt, Goto

\* It closes its run.
LEMMA Closes ==
    ASSUME journal \in [Runs -> SUBSET EventTypes], job.step # "idle", job.run \in Runs,
           NEW type \in {"run.completed", "run.failed"}, Emit(job.run, {type}),
           job' = NoJob, Untouched
    PROVE  Advances
<1>1. journal' = [journal EXCEPT ![job.run] = @ \union {type}] /\ type \in EventTypes
  BY DEF Emit, EventTypes
<1>2. journal' \in [Runs -> SUBSET EventTypes] /\ type \in journal'[job.run]
  BY <1>1
<1> QED
  BY <1>1, <1>2, RestShape DEF Advances, Untouched, envVars

LEMMA PipelineAdvances ==
    ASSUME journal \in [Runs -> SUBSET EventTypes], DOMAIN job = DOMAIN NoJob,
           job.step # "idle" => job.run \in Runs, Pipeline
    PROVE  Advances
<1> USE DEF At, NoEvent
<1>e. {} \in SUBSET EventTypes
  OBVIOUS
<1>1. CASE Fund
  BY <1>1, <1>e, GoesTo, MovesOn DEF Fund
<1>2. CASE Plan
  BY <1>2, GoesTo, MovesOn DEF Plan, EventTypes
<1>3. CASE Auction
  <2>1. DOMAIN job' = DOMAIN job /\ job'.run = job.run /\ job'.step = "bid"
    BY <1>3 DEF Auction, NoJob, JobAt
  <2> QED
    BY <1>3, <2>1, MovesOn DEF Auction, EventTypes
<1>4. CASE AuctionFails
  BY <1>4, <1>e, GoesTo, MovesOn DEF AuctionFails
<1>5. ASSUME NEW e \in Engineers, SubmitBid(e)
      PROVE  Advances
  <2>1. DOMAIN job' = DOMAIN job /\ job'.run = job.run /\ job'.step = "bid"
    BY <1>5 DEF SubmitBid, NoJob, JobAt
  <2> QED
    BY <1>5, <1>e, <2>1, MovesOn DEF SubmitBid
<1>6. CASE LockBounty
  BY <1>6, <1>e, GoesTo, MovesOn DEF LockBounty
<1>7. CASE Award
  BY <1>7, GoesTo, MovesOn DEF Award, EventTypes
<1>8. CASE Generate
  BY <1>8, <1>e, GoesTo, MovesOn DEF Generate
<1>9. CASE Capture
  BY <1>9, GoesTo, MovesOn DEF Capture, EventTypes
<1>10. CASE ReviewApproves
  BY <1>10, GoesTo, MovesOn DEF ReviewApproves, EventTypes
<1>11. CASE ReviewBlocks
  <2>1. PICK types \in {{}, {"review.rejected"}, {"review.rejected", "review.unverified"}} :
          Emit(job.run, types)
    BY <1>11 DEF ReviewBlocks
  <2>2. types \in SUBSET EventTypes
    BY DEF EventTypes
  <2> QED
    BY <1>11, <2>1, <2>2, GoesTo, MovesOn DEF ReviewBlocks
<1>12. CASE TestsPass
  BY <1>12, GoesTo, MovesOn DEF TestsPass, EventTypes
<1>13. CASE TestsUnverified
  BY <1>13, GoesTo, MovesOn DEF TestsUnverified, EventTypes
<1>14. CASE StartDeployment
  <2>1. DOMAIN job' = DOMAIN job /\ job'.run = job.run /\ job'.step = "promote"
    BY <1>14 DEF StartDeployment, NoJob, JobAt
  <2> QED
    BY <1>14, <2>1, MovesOn DEF StartDeployment, EventTypes
<1>15. CASE Promote
  BY <1>15, GoesTo, MovesOn DEF Promote, EventTypes
<1>16. CASE Monitor
  BY <1>16, GoesTo, MovesOn DEF Monitor, EventTypes
<1>17. CASE Pay
  <2>1. PICK step \in {"pay", "return"} :
          DOMAIN job' = DOMAIN job /\ job'.run = job.run /\ job'.step = step
    BY <1>17 DEF Pay, NoJob, JobAt
  <2> QED
    BY <1>17, <1>e, <2>1, MovesOn DEF Pay
<1>18. CASE ReturnRemainder
  BY <1>18, <1>e, GoesTo, MovesOn DEF ReturnRemainder
<1>19. CASE WriteChangelog
  BY <1>19, GoesTo, MovesOn DEF WriteChangelog, EventTypes
<1>20. CASE Complete
  BY <1>20, Closes DEF Complete
<1>21. CASE Penalise
  BY <1>21, <1>e, GoesTo, MovesOn DEF Penalise
<1>22. ASSUME job.step # "idle", RefundEscrow(job.run)
       PROVE  Advances
  BY <1>22, <1>e, MovesOn DEF RefundEscrow
<1>23. ASSUME job.step # "idle", CloseAsFailed(job.run)
       PROVE  Advances
  BY <1>23, Closes DEF CloseAsFailed
<1> QED
  BY <1>1, <1>2, <1>3, <1>4, <1>5, <1>6, <1>7, <1>8, <1>9, <1>10, <1>11, <1>12, <1>13,
     <1>14, <1>15, <1>16, <1>17, <1>18, <1>19, <1>20, <1>21, <1>22, <1>23
  DEF Pipeline, FailRefund, FailClose, ReconcileRefund, ReconcileClose

(***************************************************************************)
(* The invariant                                                           *)
(***************************************************************************)
\* Whoever holds the run lock, or serves, belongs to a whole company.
LEMMA RunningIsWhole ==
    ASSUME SInv
    PROVE  /\ proc # "down" => Whole /\ phase = "up"
           /\ job.step # "idle" => Whole /\ job.run \in Runs /\ Started(job.run)
                                         /\ phase \in {"seed", "up"}
<1>1. \A r \in Runs : Started(r) => journal[r] # {}
  BY DEF Started, Has
<1> QED
  BY <1>1 DEF SInv, ProcessInv, WholeInv, Delivering

\* A step that leaves the bootstrapping alone, in a whole company.
LEMMA BootRests ==
    ASSUME SInv, UNCHANGED bootVars, Whole, UNCHANGED crashes,
           \A r \in Runs : Started(r) => Started(r)',
           balance' = balance \/ \E r \in Runs : Started(r)
    PROVE  ScanInv' /\ WholeInv' /\ SheetInv'
<1>1. UNCHANGED <<facts, phase, todo>>
  BY DEF bootVars
<1>2. Whole' /\ UNCHANGED Missing
  BY <1>1 DEF Whole, Known, Missing
<1>3. ScanInv' /\ WholeInv'
  BY <1>1, <1>2 DEF ScanInv, WholeInv, SInv
<1>4. SheetInv'
  <2>1. UNCHANGED BootSheet
    BY <1>1 DEF BootSheet, Known
  <2> QED
    BY <2>1 DEF SheetInv, SInv
<1> QED
  BY <1>3, <1>4

LEMMA PipelineKeeps ==
    ASSUME SInv, UNCHANGED bootVars, Pipeline
    PROVE  SInv'
<1>1. /\ journal \in [Runs -> SUBSET EventTypes] /\ DOMAIN job = DOMAIN NoJob
      /\ job.step # "idle" => job.run \in Runs
  BY DEF SInv, ServiceTypes, ProcessInv
<1>2. Advances
  BY <1>1, PipelineAdvances
<1>3. /\ Whole /\ job.run \in Runs /\ Started(job.run) /\ phase \in {"seed", "up"}
      /\ job.step # "idle"
  BY <1>2, RunningIsWhole DEF Advances
<1>4. \A r \in Runs : Started(r) => Started(r)'
  BY <1>2 DEF Advances, Started, Has
<1>5. ScanInv' /\ WholeInv' /\ SheetInv'
  BY <1>2, <1>3, <1>4, BootRests DEF Advances
<1>6. UNCHANGED <<facts, phase, seeding, proc, tasks, stranded, crashes>>
  BY <1>2 DEF Advances, bootVars
<1>7. ServiceTypes'
  BY <1>2, <1>6 DEF Advances, SInv, ServiceTypes
<1>8. ProcessInv'
  BY <1>2, <1>3, <1>4, <1>6 DEF Advances, SInv, ProcessInv
<1>9. SeedInv'
  BY <1>3, <1>6 DEF SInv, SeedInv
<1>10. FirstInv'
  <2> SUFFICES ASSUME crashes = 0, proc # "serving"
               PROVE  /\ stranded = {}
                      /\ proc = "recovering" => job'.step = "idle"
                      /\ \A r \in Runs : Interrupted(r)' => job'.run = r /\ job'.step # "idle"
    BY <1>6 DEF FirstInv
  <2>1. stranded = {} /\ proc # "recovering"
    BY <1>3 DEF SInv, FirstInv
  <2>2. ASSUME NEW r \in Runs, Interrupted(r)'
        PROVE  job'.run = r /\ job'.step # "idle"
    <3>1. CASE r # job.run
      <4>1. Interrupted(r)
        BY <1>2, <2>2, <3>1 DEF Advances, Interrupted, Started, Closed, Has
      <4> QED
        BY <3>1, <4>1 DEF SInv, FirstInv
    <3>2. CASE r = job.run
      BY <1>2, <2>2, <3>2 DEF Advances, Interrupted, Closed, Has
    <3> QED
      BY <3>1, <3>2
  <2> QED
    BY <2>1, <2>2
<1> QED
  BY <1>5, <1>7, <1>8, <1>9, <1>10 DEF SInv

\* A step of a process that is up and has no delivery under way, or leaves the
\* one it has alone or gives it up.
LEMMA RequestKeeps ==
    ASSUME SInv, UNCHANGED bootVars, proc # "down", proc' \in {proc, "serving"},
           UNCHANGED <<balance, crashes>>,
           journal' \in [Runs -> SUBSET EventTypes],
           \A r \in Runs : Started(r) => Started(r)',
           DOMAIN job' = DOMAIN NoJob,
           job'.step # "idle" => (job.run \in Runs /\ Started(job.run))',
           proc = "recovering" => FirstInv'
    PROVE  SInv'
<1>1. Whole /\ phase = "up" /\ UNCHANGED <<facts, phase, seeding>>
  BY RunningIsWhole DEF bootVars
<1>2. ScanInv' /\ WholeInv' /\ SheetInv'
  BY <1>1, BootRests
<1>3. ServiceTypes' /\ SeedInv'
  BY <1>1 DEF SInv, ServiceTypes, SeedInv
<1>4. ProcessInv'
  BY <1>1 DEF SInv, ProcessInv
<1>5. FirstInv'
  BY DEF FirstInv, SInv, ServiceTypes
<1> QED
  BY <1>2, <1>3, <1>4, <1>5 DEF SInv

\* An event of a run leaves the runs that were started so.
LEMMA EmitStarts ==
    ASSUME journal \in [Runs -> SUBSET EventTypes], NEW q \in Runs,
           NEW types \in SUBSET EventTypes, Emit(q, types)
    PROVE  /\ journal' \in [Runs -> SUBSET EventTypes]
           /\ \A r \in Runs : Started(r) => Started(r)'
           /\ "run.started" \in types => "run.started" \in journal'[q]
BY DEF Emit, Started, Has

LEMMA ExecuteKeeps ==
    ASSUME SInv, UNCHANGED bootVars, NEW r \in Runs, Execute(r)
    PROVE  SInv'
<1> USE DEF TakesLock, envVars, At
<1>1. journal \in [Runs -> SUBSET EventTypes] /\ DOMAIN job = DOMAIN NoJob
  BY DEF SInv, ServiceTypes
<1>2. CASE ExecuteFresh(r)
  <2>1. Emit(r, {"run.started"}) /\ job' = JobAt(r, "fund") /\ {"run.started"} \subseteq EventTypes
    BY <1>2 DEF ExecuteFresh, EventTypes
  <2>2. job'.run = r /\ DOMAIN job' = DOMAIN NoJob /\ Started(job.run)'
    BY <1>1, <2>1, EmitStarts, RestShape DEF Started, Has
  <2> QED
    BY <1>1, <1>2, <2>1, <2>2, EmitStarts, RequestKeeps DEF ExecuteFresh, NoPosting
<1>3. CASE ExecuteInterrupted(r)
  <2>1. UNCHANGED journalVars /\ job' = JobAt(r, "reconcile") /\ Started(r)
    BY <1>3 DEF ExecuteInterrupted, Interrupted
  <2>2. job'.run = r /\ DOMAIN job' = DOMAIN NoJob
    BY <2>1, RestShape
  <2> QED
    BY <1>1, <1>3, <2>1, <2>2, RequestKeeps
    DEF ExecuteInterrupted, journalVars, Started, Has
<1>4. CASE ExecuteClosed(r)
  BY <1>1, <1>4, RequestKeeps DEF ExecuteClosed, journalVars, Started, Has
<1> QED
  BY <1>2, <1>3, <1>4 DEF Execute

LEMMA ReconcilingKeeps ==
    ASSUME SInv, UNCHANGED bootVars, Reconciling
    PROVE  SInv'
<1> USE DEF envVars, At, journalVars
<1>1. journal \in [Runs -> SUBSET EventTypes] /\ DOMAIN job = DOMAIN NoJob
  BY DEF SInv, ServiceTypes
<1>2. CASE FinishRecovery
  <2>1. FirstInv'
    BY <1>2 DEF FinishRecovery, FirstInv
  <2> QED
    BY <1>1, <1>2, <2>1, RequestKeeps DEF FinishRecovery, Started, Has
<1>3. ASSUME NEW r \in Runs, ReconcileNext(r)
      PROVE  SInv'
  <2>1. crashes # 0
    BY <1>3 DEF ReconcileNext, SInv, FirstInv
  <2>2. job'.run = r /\ DOMAIN job' = DOMAIN NoJob /\ Started(r) /\ FirstInv'
    BY <1>3, <2>1, RestShape DEF ReconcileNext, Interrupted, FirstInv
  <2> QED
    BY <1>1, <1>3, <2>2, RequestKeeps DEF ReconcileNext, Started, Has
<1> QED
  BY <1>2, <1>3 DEF Reconciling

LEMMA CustomersKeep ==
    ASSUME SInv, UNCHANGED bootVars, Customers
    PROVE  SInv'
<1> USE DEF envVars, At, journalVars
<1>1. journal \in [Runs -> SUBSET EventTypes] /\ DOMAIN job = DOMAIN NoJob
  BY DEF SInv, ServiceTypes
<1>2. ASSUME NEW r \in Runs, CreateObjective(r) \/ CreateObjectiveRaises(r)
      PROVE  SInv'
  <2>1. /\ proc = "serving" /\ UNCHANGED <<proc, job, crashes, balance>>
        /\ Emit(r, {"objective.created"}) /\ {"objective.created"} \subseteq EventTypes
    BY <1>2 DEF CreateObjective, CreateObjectiveRaises, NoPosting, EventTypes
  <2>2. job.step # "idle" => job.run \in Runs /\ Started(job.run)
    BY RunningIsWhole
  <2>3. job'.step # "idle" => (job.run \in Runs /\ Started(job.run))'
    BY <1>1, <2>1, <2>2, EmitStarts DEF Started, Has
  <2> QED
    BY <1>1, <2>1, <2>3, EmitStarts, RequestKeeps
<1>3. ASSUME NEW r \in Runs, Redeliver(r) \/ ExecuteRaises(r)
      PROVE  SInv'
  BY <1>1, <1>3, RunningIsWhole, RequestKeeps DEF Redeliver, ExecuteRaises, Started, Has
<1>4. CASE PipelineRaises
  BY <1>1, <1>4, RestShape, RequestKeeps DEF PipelineRaises, Started, Has
<1> QED
  BY <1>2, <1>3, <1>4 DEF Customers

\* One bootstrapping event: its fact becomes known, and the sheet follows.
LEMMA BootstrapKnows ==
    ASSUME SInv, NEW f \in todo, phase = "boot",
           facts' = [facts EXCEPT ![f] = @ + 1],
           balance' = IF f.kind = "genesis"
                      THEN Issue(balance, f.agent, Genesis[f.agent])
                      ELSE balance,
           UNCHANGED journal
    PROVE  /\ f \in BootFacts /\ ~Known(f)
           /\ facts' \in [BootFacts -> {0, 1}]
           /\ \A g \in BootFacts : Known(g)' <=> Known(g) \/ g = f
           /\ SheetInv'
<1>1. f \in BootFacts /\ ~Known(f) /\ facts \in [BootFacts -> {0, 1}]
  BY DEF SInv, ScanInv, Missing, ServiceTypes
<1>2. facts[f] = 0
  BY <1>1 DEF Known
<1>3. facts' = [facts EXCEPT ![f] = 1]
  BY <1>2
<1>4. \A g \in BootFacts : Known(g)' <=> Known(g) \/ g = f
  BY <1>1, <1>3 DEF Known
<1>5. SheetInv'
  <2> SUFFICES ASSUME \A r \in Runs : ~Started(r)
               PROVE  balance' = BootSheet'
    BY DEF SheetInv, Started, Has
  <2>1. balance = BootSheet
    BY DEF SInv, SheetInv
  <2>2. Agents \subseteq Accounts /\ \A a \in Agents : Genesis[a] \in Nat
    BY CreditsAssumption DEF Accounts
  <2>3. \A a \in Agents :
          Known(GenesisFact(a))' <=> Known(GenesisFact(a)) \/ GenesisFact(a) = f
    BY <1>4, GenesisListed
  <2>4. CASE f.kind = "genesis"
    <3>1. f.agent \in Agents /\ f = GenesisFact(f.agent)
      BY <1>1, <2>4, FactFields
    <3>2. \A a \in Agents : GenesisFact(a) = f <=> a = f.agent
      BY <1>1, <3>1, FactFields
    <3>3. BootSheet[f.agent] = 0
      BY <1>1, <2>2, <3>1 DEF BootSheet
    <3>4. balance' = [BootSheet EXCEPT ![f.agent] = Genesis[f.agent]]
      <4>1. balance' = [BootSheet EXCEPT ![f.agent] = BootSheet[f.agent] + Genesis[f.agent]]
        BY <2>1, <2>4 DEF Issue
      <4>2. BootSheet[f.agent] + Genesis[f.agent] = Genesis[f.agent]
        BY <2>2, <3>1, <3>3
      <4> QED
        BY <4>1, <4>2
    <3> QED
      BY <2>2, <2>3, <3>1, <3>2, <3>4 DEF BootSheet
  <2>5. CASE f.kind # "genesis"
    <3>1. \A a \in Agents : Known(GenesisFact(a))' <=> Known(GenesisFact(a))
      BY <1>1, <2>3, <2>5, FactFields
    <3> QED
      BY <2>1, <2>5, <3>1 DEF BootSheet
  <2> QED
    BY <2>4, <2>5
<1> QED
  BY <1>1, <1>3, <1>4, <1>5

LEMMA BootstrapKeeps ==
    ASSUME SInv, Bootstrap
    PROVE  SInv'
<1>1. PICK f \in todo :
        /\ facts' = [facts EXCEPT ![f] = @ + 1]
        /\ balance' = IF f.kind = "genesis"
                      THEN Issue(balance, f.agent, Genesis[f.agent])
                      ELSE balance
        /\ todo' = todo \ {f}
  BY DEF Bootstrap
<1>2. /\ phase = "boot"
      /\ UNCHANGED <<journal, proc, tasks, job, stranded, crashes, phase, seeding>>
  BY DEF Bootstrap, envVars
<1>3. /\ f \in BootFacts /\ ~Known(f) /\ facts' \in [BootFacts -> {0, 1}]
      /\ \A g \in BootFacts : Known(g)' <=> Known(g) \/ g = f
      /\ SheetInv'
  BY <1>1, <1>2, BootstrapKnows
<1>4. ServiceTypes'
  BY <1>2, <1>3 DEF SInv, ServiceTypes
<1>5. ScanInv'
  BY <1>1, <1>2, <1>3 DEF SInv, ScanInv, Missing
<1>6. WholeInv'
  BY <1>2, <1>3 DEF SInv, WholeInv, Whole
<1>7. ProcessInv' /\ SeedInv' /\ FirstInv'
  BY <1>2 DEF SInv, ProcessInv, SeedInv, FirstInv, Started, Closed, Interrupted, Has
<1> QED
  BY <1>3, <1>4, <1>5, <1>6, <1>7 DEF SInv

LEMMA BootingKeeps ==
    ASSUME SInv, Booting
    PROVE  SInv'
<1> USE DEF journalVars, envVars, At
<1> DEFINE Same == UNCHANGED <<vars, facts>>
<1>types. journal \in [Runs -> SUBSET EventTypes] /\ SeedRun \in Runs
  BY ServiceAssumption DEF SInv, ServiceTypes
<1>same. ASSUME Same
         PROVE  /\ UNCHANGED <<journal, balance, proc, tasks, job, stranded, crashes, facts>>
                /\ SheetInv' /\ Whole' = Whole /\ UNCHANGED Missing
                /\ \A r \in Runs : /\ Started(r)' <=> Started(r)
                                   /\ Interrupted(r)' <=> Interrupted(r)
  <2>1. UNCHANGED <<journal, balance, proc, tasks, job, stranded, crashes, facts>>
    BY <1>same DEF vars
  <2>2. SheetInv'
    BY <2>1 DEF SInv, SheetInv, BootSheet, Known, Started, Has
  <2> QED
    BY <2>1, <2>2 DEF Whole, Known, Missing, Started, Interrupted, Closed, Has
<1>1. CASE Start
  <2>1. /\ phase = "off" /\ phase' = "boot" /\ todo' = Missing /\ Same
        /\ seeding' = (SeedDemo /\ Empty)
    BY <1>1 DEF Start
  <2>2. seeding' \in BOOLEAN /\ (seeding' => Empty)
    BY <2>1, Zenon
  <2>3. seeding' => crashes' = 0 /\ \A r \in Runs : journal'[r] = {}
    BY <1>same, <2>1, <2>2, EmptyIsNotWhole DEF Empty, SInv, ServiceTypes, WholeInv
  <2>4. ServiceTypes' /\ ScanInv' /\ WholeInv'
    BY <1>same, <2>1, <2>2 DEF SInv, ServiceTypes, ScanInv, WholeInv, Delivering
  <2>5. ProcessInv' /\ SeedInv' /\ FirstInv'
    BY <1>same, <2>1, <2>3 DEF SInv, ProcessInv, SeedInv, FirstInv
  <2> QED
    BY <1>same, <2>1, <2>4, <2>5 DEF SInv
<1>2. CASE Bootstrap
  BY <1>2, BootstrapKeeps
<1>3. CASE CreateSeed
  <2>1. /\ phase = "boot" /\ todo = {} /\ seeding /\ phase' = "seed created"
        /\ UNCHANGED <<proc, tasks, job, stranded, crashes, facts, todo, seeding, balance>>
        /\ Emit(SeedRun, {"objective.created"})
    BY <1>3 DEF CreateSeed, NoPosting
  <2>2. Whole /\ Whole'
    BY <2>1 DEF SInv, ScanInv, Missing, Whole, Known
  <2>3. /\ journal' \in [Runs -> SUBSET EventTypes]
        /\ \A r \in Runs : ~Started(r) /\ ~Started(r)'
    BY <1>types, <2>1 DEF Emit, EventTypes, Started, Has, SInv, SeedInv
  <2>4. ServiceTypes' /\ ScanInv' /\ WholeInv'
    BY <2>1, <2>2, <2>3 DEF SInv, ServiceTypes, ScanInv, WholeInv, Delivering
  <2>5. SheetInv'
    BY <2>1, <2>3 DEF SInv, SheetInv, BootSheet, Known
  <2>6. ProcessInv' /\ SeedInv' /\ FirstInv'
    BY <1>types, <2>1, <2>3 DEF SInv, ProcessInv, SeedInv, FirstInv, Interrupted
  <2> QED
    BY <2>4, <2>5, <2>6 DEF SInv
<1>4. CASE StartSeed
  <2>1. /\ phase = "seed created" /\ phase' = "seed"
        /\ UNCHANGED <<proc, tasks, stranded, crashes, facts, todo, seeding>>
        /\ Emit(SeedRun, {"run.started"}) /\ job' = JobAt(SeedRun, "fund")
    BY <1>4 DEF StartSeed
  <2>2. Whole /\ Whole'
    BY <2>1 DEF SInv, WholeInv, Delivering, Whole, Known
  <2>3. /\ journal' \in [Runs -> SUBSET EventTypes]
        /\ Started(SeedRun)'
        /\ \A r \in Runs : r # SeedRun => journal'[r] = journal[r]
    BY <1>types, <2>1 DEF Emit, EventTypes, Started, Has
  <2>4. job'.run = SeedRun /\ job'.step = "fund" /\ DOMAIN job' = DOMAIN NoJob
    BY <2>1, RestShape
  <2>5. ServiceTypes' /\ ScanInv' /\ WholeInv'
    BY <2>1, <2>2, <2>3, <2>4 DEF SInv, ServiceTypes, ScanInv, WholeInv, Delivering
  <2>6. SheetInv'
    BY <1>types, <2>3 DEF SheetInv
  <2>7. Started(job.run)'
    BY <2>3, <2>4 DEF Started, Has
  <2>8. ProcessInv' /\ SeedInv'
    BY <1>types, <2>1, <2>4, <2>7 DEF SInv, ProcessInv, SeedInv
  <2>9. FirstInv'
    BY <2>1, <2>3, <2>4
    DEF SInv, FirstInv, ProcessInv, Interrupted, Started, Closed, Has
  <2> QED
    BY <2>5, <2>6, <2>8, <2>9 DEF SInv
<1>5. CASE FinishSeed
  BY <1>5, <1>same
  DEF FinishSeed, SInv, ServiceTypes, ScanInv, WholeInv, ProcessInv, SeedInv, FirstInv,
      Delivering
<1>6. CASE Booted
  <2>1. /\ phase = "boot" /\ todo = {} /\ ~seeding /\ phase' = "up" /\ proc' = "recovering"
        /\ UNCHANGED <<journal, balance, tasks, job, stranded, crashes, facts, todo, seeding>>
    BY <1>6 DEF Booted, Restart
  <2>2. Whole /\ Whole'
    BY <2>1 DEF SInv, ScanInv, Missing, Whole, Known
  <2>3. SheetInv'
    BY <2>1 DEF SInv, SheetInv, BootSheet, Known, Started, Has
  <2>4. \A r \in Runs : /\ Started(r)' <=> Started(r)
                        /\ Interrupted(r)' <=> Interrupted(r)
    BY <2>1 DEF Started, Interrupted, Closed, Has
  <2>5. ServiceTypes' /\ ScanInv' /\ WholeInv'
    BY <2>1, <2>2 DEF SInv, ServiceTypes, ScanInv, WholeInv, Delivering
  <2>6. ProcessInv' /\ SeedInv' /\ FirstInv'
    BY <2>1, <2>4 DEF SInv, ProcessInv, SeedInv, FirstInv
  <2> QED
    BY <2>3, <2>5, <2>6 DEF SInv
<1> QED
  BY <1>1, <1>2, <1>3, <1>4, <1>5, <1>6 DEF Booting

LEMMA CrashesKeep ==
    ASSUME SInv, BootCrash \/ ServiceCrash
    PROVE  SInv'
<1> USE DEF journalVars, envVars
<1>1. CASE BootCrash
  <2>1. /\ phase = "boot" /\ phase' = "off" /\ todo' = {} /\ seeding' = FALSE
        /\ UNCHANGED <<journal, balance, proc, tasks, job, stranded, crashes, facts>>
    BY <1>1 DEF BootCrash, vars
  <2>2. SheetInv' /\ Whole' = Whole
    BY <2>1 DEF SInv, SheetInv, BootSheet, Whole, Known, Started, Has
  <2>3. ServiceTypes' /\ ScanInv' /\ WholeInv'
    BY <2>1, <2>2 DEF SInv, ServiceTypes, ScanInv, WholeInv, Delivering
  <2>4. ProcessInv' /\ SeedInv' /\ FirstInv'
    BY <2>1 DEF SInv, ProcessInv, SeedInv, FirstInv, Interrupted, Started, Closed, Has
  <2> QED
    BY <2>2, <2>3, <2>4 DEF SInv
<1>2. CASE ServiceCrash
  <2>1. /\ phase' = "off" /\ todo' = {} /\ seeding' = FALSE /\ crashes' = crashes + 1
        /\ proc' = "down" /\ tasks' = {} /\ job' = NoJob
        /\ UNCHANGED <<journal, balance, facts>> /\ Whole
    BY <1>2 DEF ServiceCrash, SInv, WholeInv, Delivering
  <2>2. SheetInv' /\ Whole'
    BY <2>1 DEF SInv, SheetInv, BootSheet, Whole, Known, Started, Has
  <2>3. crashes' \in Nat /\ crashes' # 0
    BY <2>1 DEF SInv, ServiceTypes
  <2>4. ServiceTypes' /\ ScanInv' /\ WholeInv'
    BY <2>1, <2>2, <2>3 DEF SInv, ServiceTypes, ScanInv, WholeInv, Delivering
  <2>5. ProcessInv' /\ SeedInv' /\ FirstInv'
    BY <2>1, <2>3, RestShape DEF ProcessInv, SeedInv, FirstInv
  <2> QED
    BY <2>2, <2>4, <2>5 DEF SInv
<1> QED
  BY <1>1, <1>2

LEMMA ServiceStarts == ServiceInit => SInv
<1> SUFFICES ASSUME ServiceInit
             PROVE  SInv
  OBVIOUS
<1>1. ServiceTypes
  BY DEF ServiceInit, ServiceTypes
<1>s. ScanInv /\ WholeInv
  BY DEF ServiceInit, ScanInv, WholeInv, Delivering
<1>2. SheetInv
  <2>1. \A a \in Agents : ~Known(GenesisFact(a))
    BY GenesisListed DEF ServiceInit, Known
  <2>2. BootSheet = [a \in Accounts |-> 0]
    BY <2>1 DEF BootSheet
  <2> QED
    BY <2>2 DEF ServiceInit, SheetInv
<1>3. ProcessInv /\ SeedInv /\ FirstInv
  BY RestShape DEF ServiceInit, ProcessInv, SeedInv, FirstInv, Interrupted, Started, Has
<1> QED
  BY <1>1, <1>s, <1>2, <1>3 DEF SInv

LEMMA ServiceStep ==
    ASSUME SInv, [ServiceNext]_svars
    PROVE  SInv'
<1>1. CASE Booting
  BY <1>1, BootingKeeps
<1>2. CASE BootCrash \/ ServiceCrash
  BY <1>2, CrashesKeep
<1>3. CASE Quiet \/ UNCHANGED svars
  <2>1. UNCHANGED <<journal, balance, proc, tasks, job, stranded, crashes,
                    facts, phase, todo, seeding>>
    BY <1>3 DEF Quiet, svars, vars, bootVars, journalVars, envVars
  <2>2. ServiceTypes' /\ ScanInv' /\ WholeInv' /\ SheetInv'
    BY <2>1 DEF SInv, ServiceTypes, ScanInv, Missing, WholeInv, Whole, SheetInv,
                BootSheet, Known, Started, Has
  <2>3. ProcessInv' /\ SeedInv' /\ FirstInv'
    BY <2>1 DEF SInv, ProcessInv, SeedInv, FirstInv, Interrupted, Started, Closed, Has
  <2> QED
    BY <2>2, <2>3 DEF SInv
<1>4. CASE Pipeline /\ UNCHANGED bootVars
  BY <1>4, PipelineKeeps
<1>5. CASE (\E r \in Runs : Execute(r)) /\ UNCHANGED bootVars
  BY <1>5, ExecuteKeeps
<1>6. CASE Reconciling /\ UNCHANGED bootVars
  BY <1>6, ReconcilingKeeps
<1>7. CASE Customers /\ UNCHANGED bootVars
  BY <1>7, CustomersKeep
<1> QED
  BY <1>1, <1>2, <1>3, <1>4, <1>5, <1>6, <1>7 DEF ServiceNext

\* However often a start is cut short, what it finds missing is what is missing.
THEOREM ServiceInvariance == ServiceSpec => []SInv
BY ServiceStarts, ServiceStep, PTL DEF ServiceSpec

\* A company delivers, reconciles and serves only when each of its bootstrapping
\* events is in the journal, and there once; until a run is started its sheet is
\* the genesis sheet (lifespan, _bootstrap_company).
THEOREM WholeWhenServing == ServiceSpec => []ServesWhole
<1>1. ASSUME SInv
      PROVE  ServesWhole
  <2> SUFFICES ASSUME phase \in Delivering
               PROVE  /\ \A f \in BootFacts : facts[f] = 1
                      /\ (\A r \in Runs : ~Started(r)) => balance = Genesis
    BY DEF ServesWhole, Delivering
  <2>1. Whole
    BY <1>1 DEF SInv, WholeInv
  <2> QED
    BY <1>1, <2>1, WholeSheet DEF SInv, ServiceTypes, Whole, Known, SheetInv
<1> QED
  BY <1>1, ServiceInvariance, PTL

(***************************************************************************)
(* What a started service does is what Delivery describes                  *)
(***************************************************************************)
\* What Delivery takes for its sheet, its process and its tasks.
SheetBar == IF Whole THEN balance ELSE Genesis
ProcBar  == IF crashes = 0 THEN "serving" ELSE proc
TasksBar == IF phase = "seed created" THEN tasks \union {SeedRun} ELSE tasks

\* In a whole company that is not about to begin its demonstration the sheet and
\* the tasks are what they seem, and the process is unless it is the first.
AsItSeems ==
    /\ SheetBar = balance /\ SheetBar' = balance'
    /\ TasksBar = tasks /\ TasksBar' = tasks'
    /\ ProcBar' = ProcBar

\* Each step of the lock holder is the same step of Delivery.
LEMMA PipelineMaps ==
    ASSUME Pipeline, AsItSeems
    PROVE  AsDelivery!Pipeline
<1> USE DEF AsItSeems, SheetBar, ProcBar, TasksBar, envVars,
            At, Goto, Emit, Post, Covers, Transfer, Untouched, NoPosting, NoEvent,
            AsDelivery!At, AsDelivery!Goto, AsDelivery!Emit, AsDelivery!Post,
            AsDelivery!Covers, AsDelivery!Transfer, AsDelivery!envVars,
            AsDelivery!Untouched, AsDelivery!NoPosting, AsDelivery!NoEvent
<1>1. Fund => AsDelivery!Fund
  BY DEF Fund, Issue, AsDelivery!Fund, AsDelivery!Issue
<1>2. Plan => AsDelivery!Plan
  BY DEF Plan, AsDelivery!Plan
<1>3. ASSUME Auction
      PROVE  AsDelivery!Auction
  <2>1. \A e \in Engineers : AsDelivery!Dormant(e) <=> Dormant(e)
    BY DEF Dormant, AsDelivery!Dormant
  <2>2. \A capable \in CapableSets :
          {e \in capable : ~AsDelivery!Dormant(e)} = {e \in capable : ~Dormant(e)}
    BY <2>1, NamesAssumption
  <2> QED
    BY <1>3, <2>2, Zenon DEF Auction, AsDelivery!Auction
<1>4. AuctionFails => AsDelivery!AuctionFails
  BY DEF AuctionFails, Dormant, AsDelivery!AuctionFails, AsDelivery!Dormant
<1>5. ASSUME NEW e \in Engineers, SubmitBid(e)
      PROVE  AsDelivery!SubmitBid(e)
  BY <1>5 DEF SubmitBid, CappedDebit, Charge, AsDelivery!SubmitBid, AsDelivery!CappedDebit, AsDelivery!Charge
<1>6. LockBounty => AsDelivery!LockBounty
  BY DEF LockBounty, AsDelivery!LockBounty
<1>7. Award => AsDelivery!Award
  BY DEF Award, AsDelivery!Award
<1>8. Generate => AsDelivery!Generate
  BY DEF Generate, AsDelivery!Generate
<1>9. Capture => AsDelivery!Capture
  BY DEF Capture, AsDelivery!Capture
<1>10. ReviewApproves => AsDelivery!ReviewApproves
  BY DEF ReviewApproves, AsDelivery!ReviewApproves
<1>11. ReviewBlocks => AsDelivery!ReviewBlocks
  BY DEF ReviewBlocks, AsDelivery!ReviewBlocks
<1>12. TestsPass => AsDelivery!TestsPass
  BY DEF TestsPass, AsDelivery!TestsPass
<1>13. TestsUnverified => AsDelivery!TestsUnverified
  BY DEF TestsUnverified, AsDelivery!TestsUnverified
<1>14. ASSUME StartDeployment
       PROVE  AsDelivery!StartDeployment
  <2>1. AsDelivery!NextVersion = NextVersion
    BY Zenon DEF NextVersion, AsDelivery!NextVersion, Cardinality, AsDelivery!Cardinality
  <2> QED
    BY <1>14, <2>1 DEF StartDeployment, AsDelivery!StartDeployment
<1>15. Promote => AsDelivery!Promote
  BY DEF Promote, AsDelivery!Promote
<1>16. Monitor => AsDelivery!Monitor
  BY DEF Monitor, AsDelivery!Monitor
<1>17. Pay => AsDelivery!Pay
  BY DEF Pay, Payee, Share, AsDelivery!Pay, AsDelivery!Payee, AsDelivery!Share
<1>18. ReturnRemainder => AsDelivery!ReturnRemainder
  BY DEF ReturnRemainder, Remainder, Fees, AsDelivery!ReturnRemainder, AsDelivery!Remainder, AsDelivery!Fees
<1>19. WriteChangelog => AsDelivery!WriteChangelog
  BY DEF WriteChangelog, AsDelivery!WriteChangelog
<1>20. Complete => AsDelivery!Complete
  BY DEF Complete, NoJob, JobAt, AsDelivery!Complete, AsDelivery!NoJob, AsDelivery!JobAt
<1>21. Penalise => AsDelivery!Penalise
  BY DEF Penalise, CappedDebit, Charge, AsDelivery!Penalise, AsDelivery!CappedDebit, AsDelivery!Charge
<1>22. FailRefund => AsDelivery!FailRefund
  BY DEF FailRefund, RefundEscrow, RunEscrow, AsDelivery!FailRefund, AsDelivery!RefundEscrow, AsDelivery!RunEscrow
<1>23. FailClose => AsDelivery!FailClose
  BY DEF FailClose, CloseAsFailed, RunEscrow, NoJob, JobAt, AsDelivery!FailClose, AsDelivery!CloseAsFailed, AsDelivery!RunEscrow, AsDelivery!NoJob, AsDelivery!JobAt
<1>24. ReconcileRefund => AsDelivery!ReconcileRefund
  BY DEF ReconcileRefund, RefundEscrow, RunEscrow, AsDelivery!ReconcileRefund, AsDelivery!RefundEscrow, AsDelivery!RunEscrow
<1>25. ReconcileClose => AsDelivery!ReconcileClose
  BY DEF ReconcileClose, CloseAsFailed, RunEscrow, NoJob, JobAt, AsDelivery!ReconcileClose, AsDelivery!CloseAsFailed, AsDelivery!RunEscrow, AsDelivery!NoJob, AsDelivery!JobAt
<1> QED
  BY <1>1, <1>2, <1>3, <1>4, <1>5, <1>6, <1>7, <1>8, <1>9, <1>10, <1>11, <1>12, <1>13, <1>14, <1>15, <1>16, <1>17, <1>18, <1>19, <1>20, <1>21, <1>22, <1>23, <1>24, <1>25 DEF Pipeline, AsDelivery!Pipeline

\* So is each step that takes a task, and each request.
LEMMA RequestMaps ==
    ASSUME AsItSeems, proc = "serving", NEW r \in Runs
    PROVE  /\ Execute(r) => AsDelivery!Execute(r)
           /\ CreateObjective(r) => AsDelivery!CreateObjective(r)
           /\ CreateObjectiveRaises(r) => AsDelivery!CreateObjectiveRaises(r)
           /\ Redeliver(r) => AsDelivery!Redeliver(r)
           /\ ExecuteRaises(r) => AsDelivery!ExecuteRaises(r)
           /\ PipelineRaises => AsDelivery!PipelineRaises
<1> USE DEF AsItSeems, SheetBar, ProcBar, TasksBar, envVars, journalVars,
            At, Emit, NoPosting, JobAt, NoJob, Has, Created, Started, Closed, Interrupted,
            AsDelivery!At, AsDelivery!Emit, AsDelivery!envVars, AsDelivery!journalVars,
            AsDelivery!NoPosting, AsDelivery!JobAt, AsDelivery!NoJob, AsDelivery!Has,
            AsDelivery!Created, AsDelivery!Started, AsDelivery!Closed,
            AsDelivery!Interrupted
<1>0. ProcBar = "serving"
  OBVIOUS
<1>1. TakesLock(r) => AsDelivery!TakesLock(r)
  BY DEF TakesLock, AsDelivery!TakesLock
<1>2. ExecuteFresh(r) => AsDelivery!ExecuteFresh(r)
  BY <1>1 DEF ExecuteFresh, AsDelivery!ExecuteFresh
<1>3. ExecuteInterrupted(r) => AsDelivery!ExecuteInterrupted(r)
  BY <1>1 DEF ExecuteInterrupted, AsDelivery!ExecuteInterrupted
<1>4. ExecuteClosed(r) => AsDelivery!ExecuteClosed(r)
  BY <1>1 DEF ExecuteClosed, AsDelivery!ExecuteClosed
<1>5. CreateObjective(r) => AsDelivery!CreateObjective(r)
  BY DEF CreateObjective, AsDelivery!CreateObjective
<1>6. CreateObjectiveRaises(r) => AsDelivery!CreateObjectiveRaises(r)
  BY DEF CreateObjectiveRaises, AsDelivery!CreateObjectiveRaises
<1>7. Redeliver(r) => AsDelivery!Redeliver(r)
  BY DEF Redeliver, AsDelivery!Redeliver
<1>8. ExecuteRaises(r) => AsDelivery!ExecuteRaises(r)
  BY DEF ExecuteRaises, AsDelivery!ExecuteRaises
<1>9. PipelineRaises => AsDelivery!PipelineRaises
  BY DEF PipelineRaises, AsDelivery!PipelineRaises
<1> QED
  BY <1>2, <1>3, <1>4, <1>5, <1>6, <1>7, <1>8, <1>9 DEF Execute, AsDelivery!Execute

\* A whole company stays one.
LEMMA StaysAsItSeems ==
    ASSUME Whole, phase # "seed created", UNCHANGED <<facts, phase>>,
           UNCHANGED ProcBar
    PROVE  AsItSeems
<1>1. Whole'
  BY DEF Whole, Known
<1> QED
  BY <1>1 DEF AsItSeems, SheetBar, TasksBar

LEMMA DeliveryMaps ==
    ASSUME SInv, UNCHANGED bootVars,
           Pipeline \/ (\E r \in Runs : Execute(r)) \/ Reconciling \/ Customers
    PROVE  [AsDelivery!Next]_AsDelivery!vars
<1> USE DEF envVars
<1>0. UNCHANGED <<facts, phase>>
  BY DEF bootVars
<1>1. CASE Pipeline
  <2>1. Advances
    BY <1>1, PipelineAdvances DEF SInv, ServiceTypes, ProcessInv
  <2>2. Whole /\ phase # "seed created" /\ UNCHANGED ProcBar
    BY <2>1, RunningIsWhole DEF Advances, ProcBar
  <2> QED
    BY <1>0, <1>1, <2>2, StaysAsItSeems, PipelineMaps DEF AsDelivery!Next
<1>2. ASSUME NEW r \in Runs, Execute(r)
      PROVE  AsDelivery!Next
  <2>1. proc = "serving" /\ UNCHANGED <<proc, crashes>>
    BY <1>2 DEF Execute, ExecuteFresh, ExecuteInterrupted, ExecuteClosed, TakesLock
  <2>2. AsItSeems
    BY <1>0, <2>1, RunningIsWhole, StaysAsItSeems DEF ProcBar
  <2> QED
    BY <1>2, <2>1, <2>2, RequestMaps DEF AsDelivery!Next
<1>3. CASE Customers
  <2>1. \/ \E r \in Runs : \/ CreateObjective(r) \/ CreateObjectiveRaises(r)
                           \/ Redeliver(r) \/ ExecuteRaises(r)
        \/ PipelineRaises
    BY <1>3 DEF Customers
  <2>2. proc = "serving" /\ UNCHANGED <<proc, crashes>>
    BY <2>1 DEF CreateObjective, CreateObjectiveRaises, Redeliver, ExecuteRaises, PipelineRaises
  <2>3. AsItSeems
    BY <1>0, <2>2, RunningIsWhole, StaysAsItSeems DEF ProcBar
  <2>4. AsDelivery!Environment
    BY <2>1, <2>2, <2>3, RequestMaps, ServiceAssumption DEF AsDelivery!Environment
  <2> QED
    BY <2>4 DEF AsDelivery!Next
<1>4. CASE Reconciling
  <2>1. proc = "recovering" /\ Whole /\ phase # "seed created"
    BY <1>4, RunningIsWhole DEF Reconciling, FinishRecovery, ReconcileNext
  <2>2. UNCHANGED <<journalVars, tasks, generated, stranded, envVars>>
    BY <1>4 DEF Reconciling, FinishRecovery, ReconcileNext
  <2>3. SheetBar = balance /\ SheetBar' = balance' /\ TasksBar = tasks /\ TasksBar' = tasks'
    BY <1>0, <2>1 DEF SheetBar, TasksBar, Whole, Known
  <2>4. CASE crashes = 0
    <3>1. FinishRecovery
      BY <1>4, <2>1, <2>4 DEF Reconciling, ReconcileNext, SInv, FirstInv
    <3> QED
      BY <2>2, <2>3, <2>4, <3>1
      DEF FinishRecovery, SheetBar, TasksBar, journalVars, AsDelivery!vars,
          AsDelivery!journalVars, AsDelivery!envVars
  <2>5. CASE crashes # 0
    <3> USE DEF SheetBar, TasksBar, At, JobAt, Has, Started, Closed, Interrupted, journalVars,
                AsDelivery!At, AsDelivery!JobAt, AsDelivery!Has, AsDelivery!Started,
                AsDelivery!Closed, AsDelivery!Interrupted, AsDelivery!journalVars,
                AsDelivery!envVars
    <3>1. FinishRecovery => AsDelivery!FinishRecovery
      BY <2>2, <2>3, <2>5 DEF FinishRecovery, AsDelivery!FinishRecovery
    <3>2. ASSUME NEW r \in Runs, ReconcileNext(r)
          PROVE  AsDelivery!ReconcileNext(r)
      BY <2>2, <2>3, <2>5, <3>2 DEF ReconcileNext, AsDelivery!ReconcileNext
    <3> QED
      BY <1>4, <3>1, <3>2 DEF Reconciling, AsDelivery!Startup, AsDelivery!Next
  <2> QED
    BY <2>4, <2>5
<1> QED
  BY <1>1, <1>2, <1>3, <1>4

\* A start is not seen, but for the demonstration it delivers and for the restart
\* of a service that has died.
LEMMA BootingMaps ==
    ASSUME SInv, SInv', Booting
    PROVE  [AsDelivery!Next]_AsDelivery!vars
<1> USE DEF journalVars, envVars, At, AsDelivery!journalVars, AsDelivery!envVars,
            AsDelivery!vars, AsDelivery!At
<1>hidden. ASSUME UNCHANGED <<journal, issued, moved, version, job, generated, stranded,
                              envVars>>,
                  SheetBar' = SheetBar, ProcBar' = ProcBar, TasksBar' = TasksBar
           PROVE  UNCHANGED AsDelivery!vars
  BY <1>hidden DEF SheetBar, ProcBar, TasksBar
<1>1. CASE Start \/ FinishSeed
  <2>1. UNCHANGED <<vars, facts>> /\ {phase, phase'} \cap {"seed created"} = {}
    BY <1>1 DEF Start, FinishSeed
  <2>2. SheetBar' = SheetBar /\ ProcBar' = ProcBar /\ TasksBar' = TasksBar
    BY <2>1 DEF SheetBar, ProcBar, TasksBar, Whole, Known, vars
  <2> QED
    BY <1>hidden, <2>1, <2>2 DEF vars
<1>2. CASE Bootstrap
  <2>1. /\ phase = "boot" /\ phase' = "boot" /\ todo # {}
        /\ UNCHANGED <<journal, issued, moved, version, proc, tasks, job, generated,
                       stranded, envVars>>
    BY <1>2 DEF Bootstrap
  <2>2. ~Whole
    BY <2>1 DEF SInv, ScanInv, Missing, Whole
  <2>3. Whole' => balance' = Genesis
    <3> SUFFICES ASSUME Whole'
                 PROVE  balance' = Genesis
      OBVIOUS
    <3>1. (\A r \in Runs : ~Started(r))'
      BY <2>1, <2>2 DEF SInv, WholeInv, Started, Has
    <3>2. balance' = BootSheet'
      BY <3>1 DEF SInv, SheetInv
    <3>3. \A a \in Agents : Known(GenesisFact(a))'
      BY GenesisListed DEF Whole
    <3>4. /\ Accounts = Agents \union {"treasury", "escrow"} /\ Genesis \in [Accounts -> Nat]
          /\ Genesis["treasury"] = 0 /\ Genesis["escrow"] = 0
      BY CreditsAssumption, ServiceAssumption DEF Accounts
    <3> QED
      BY <3>2, <3>3, <3>4 DEF BootSheet
  <2>4. SheetBar' = SheetBar
    BY <2>2, <2>3 DEF SheetBar
  <2> QED
    BY <1>hidden, <2>1, <2>4 DEF ProcBar, TasksBar
<1>3. CASE CreateSeed
  <2>1. /\ phase = "boot" /\ todo = {} /\ seeding /\ phase' = "seed created"
        /\ Emit(SeedRun, {"objective.created"})
        /\ UNCHANGED <<version, proc, tasks, job, generated, stranded, envVars, facts,
                       balance, issued, moved>>
    BY <1>3 DEF CreateSeed, NoPosting
  <2>2. journal[SeedRun] = {} /\ crashes = 0 /\ SeedRun \in Runs
    BY <2>1, ServiceAssumption DEF SInv, SeedInv
  <2>3. SheetBar' = SheetBar
    BY <2>1 DEF SheetBar, Whole, Known
  <2>4. ProcBar = "serving" /\ ProcBar' = ProcBar /\ TasksBar' = TasksBar \union {SeedRun}
    BY <2>1, <2>2 DEF ProcBar, TasksBar
  <2>5. AsDelivery!CreateObjective(SeedRun)
    BY <2>1, <2>2, <2>3, <2>4
    DEF AsDelivery!CreateObjective, AsDelivery!Emit, AsDelivery!NoPosting, Emit,
        SheetBar, ProcBar, TasksBar
  <2> QED
    BY <2>2, <2>5 DEF AsDelivery!Next, AsDelivery!Environment
<1>4. CASE StartSeed
  <2>1. /\ phase = "seed created" /\ phase' = "seed"
        /\ Emit(SeedRun, {"run.started"}) /\ job' = JobAt(SeedRun, "fund")
        /\ UNCHANGED <<version, proc, tasks, generated, stranded, envVars, facts,
                       balance, issued, moved>>
    BY <1>4 DEF StartSeed, NoPosting
  <2>2. /\ ~Started(SeedRun) /\ crashes = 0 /\ SeedRun \in Runs /\ tasks = {}
        /\ job.step = "idle"
    BY <2>1, ServiceAssumption DEF SInv, SeedInv, ProcessInv
  <2>3. SheetBar' = SheetBar
    BY <2>1 DEF SheetBar, Whole, Known
  <2>4. /\ ProcBar = "serving" /\ ProcBar' = ProcBar
        /\ TasksBar = {SeedRun} /\ TasksBar' = {}
    BY <2>1, <2>2 DEF ProcBar, TasksBar
  <2>5. AsDelivery!TakesLock(SeedRun)
    BY <2>1, <2>2, <2>4 DEF AsDelivery!TakesLock, ProcBar, TasksBar
  <2>6. AsDelivery!ExecuteFresh(SeedRun)
    BY <2>1, <2>2, <2>3, <2>5
    DEF AsDelivery!ExecuteFresh, AsDelivery!Emit, AsDelivery!NoPosting, AsDelivery!JobAt,
        AsDelivery!Started, AsDelivery!Has, Emit, JobAt, Started, Has, SheetBar
  <2> QED
    BY <2>2, <2>6 DEF AsDelivery!Next, AsDelivery!Execute
<1>5. CASE Booted
  <2>1. /\ phase = "boot" /\ phase' = "up" /\ proc = "down" /\ proc' = "recovering"
        /\ UNCHANGED <<journalVars, tasks, job, generated, stranded, envVars, facts>>
    BY <1>5 DEF Booted, Restart
  <2>2. SheetBar' = SheetBar /\ TasksBar' = TasksBar
    BY <2>1 DEF SheetBar, TasksBar, Whole, Known
  <2>3. CASE crashes = 0
    BY <1>hidden, <2>1, <2>2, <2>3 DEF ProcBar
  <2>4. CASE crashes # 0
    <3>1. AsDelivery!Restart
      BY <2>1, <2>2, <2>4 DEF AsDelivery!Restart, SheetBar, TasksBar
    <3> QED
      BY <3>1 DEF AsDelivery!Next, AsDelivery!Startup
  <2> QED
    BY <2>3, <2>4
<1> QED
  BY <1>1, <1>2, <1>3, <1>4, <1>5 DEF Booting

LEMMA CrashesMap ==
    ASSUME SInv, BootCrash \/ ServiceCrash
    PROVE  [AsDelivery!Next]_AsDelivery!vars
<1> USE DEF journalVars, envVars, AsDelivery!journalVars, AsDelivery!envVars,
            AsDelivery!vars
<1>1. CASE BootCrash
  <2>1. phase = "boot" /\ phase' = "off" /\ UNCHANGED <<vars, facts>>
    BY <1>1 DEF BootCrash
  <2> QED
    BY <2>1 DEF vars, Whole, Known
<1>2. CASE ServiceCrash
  <2>1. /\ phase \in Delivering /\ phase' = "off" /\ proc' = "down"
        /\ crashes < MaxCrashes /\ crashes' = crashes + 1
        /\ tasks' = {} /\ job' = NoJob /\ stranded' = {}
        /\ UNCHANGED <<journalVars, generated, faults, redeliveries, facts>>
    BY <1>2 DEF ServiceCrash, Delivering
  <2>2. crashes \in Nat /\ (crashes # 0 => proc # "down")
    BY <2>1 DEF SInv, ServiceTypes, SeedInv, ProcessInv, Delivering
  <2>3. ProcBar # "down" /\ ProcBar' = "down" /\ TasksBar' = {}
    BY <2>1, <2>2 DEF ProcBar, TasksBar
  <2>4. SheetBar' = SheetBar
    BY <2>1 DEF SheetBar, Whole, Known
  <2>5. AsDelivery!Crash
    BY <2>1, <2>3, <2>4
    DEF AsDelivery!Crash, AsDelivery!NoJob, AsDelivery!JobAt, NoJob, JobAt,
        SheetBar, ProcBar, TasksBar
  <2> QED
    BY <2>5 DEF AsDelivery!Next, AsDelivery!Environment
<1> QED
  BY <1>1, <1>2

LEMMA ServiceMaps ==
    ASSUME SInv, SInv', [ServiceNext]_svars
    PROVE  [AsDelivery!Next]_AsDelivery!vars
<1>1. CASE Booting
  BY <1>1, BootingMaps
<1>2. CASE BootCrash \/ ServiceCrash
  BY <1>2, CrashesMap
<1>3. CASE Quiet \/ UNCHANGED svars
  <2>1. UNCHANGED <<vars, facts, phase>>
    BY <1>3 DEF Quiet, svars, bootVars
  <2> QED
    BY <2>1 DEF vars, journalVars, envVars, Whole, Known, AsDelivery!vars,
                AsDelivery!journalVars, AsDelivery!envVars
<1>4. CASE /\ Pipeline \/ (\E r \in Runs : Execute(r)) \/ Reconciling \/ Customers
           /\ UNCHANGED bootVars
  BY <1>4, DeliveryMaps
<1> QED
  BY <1>1, <1>2, <1>3, <1>4 DEF ServiceNext

\* The new file is Delivery's initial state.
LEMMA ServiceInitMaps == ServiceInit => AsDelivery!Init
<1> SUFFICES ASSUME ServiceInit
             PROVE  AsDelivery!Init
  OBVIOUS
<1>1. Empty /\ ~Whole
  <2>1. Empty
    BY DEF ServiceInit, Empty, Known
  <2> QED
    BY <2>1, EmptyIsNotWhole
<1> QED
  BY <1>1 DEF ServiceInit, NoJob, JobAt, Kinds, AsDelivery!Init, AsDelivery!NoJob,
              AsDelivery!JobAt, AsDelivery!Kinds

\* Whatever a service does from an empty journal on, with starts cut short, a
\* demonstration and deaths, Delivery does from a bootstrapped company on
\* (lifespan, bootstrap_seeded_run, reconcile_interrupted_runs).
THEOREM ServiceDelivers == ServiceSpec => BootsIntoDelivery
<1>1. ServiceInit => AsDelivery!Init
  BY ServiceInitMaps
<1>2. SInv /\ SInv' /\ [ServiceNext]_svars => [AsDelivery!Next]_AsDelivery!vars
  BY ServiceMaps
<1> QED
  BY <1>1, <1>2, ServiceInvariance, PTL DEF ServiceSpec, BootsIntoDelivery, AsDelivery!Spec
=============================================================================

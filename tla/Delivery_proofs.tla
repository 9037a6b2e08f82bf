-------------------------- MODULE Delivery_proofs --------------------------
(***************************************************************************)
(* What the delivery loop keeps for every set of objectives and engineers, *)
(* every bounty, fee and penalty, and any number of crashes and faults.    *)
(***************************************************************************)
EXTENDS DeliveryInv, Ledger_proofs, FiniteSetTheorems, TLAPS

(***************************************************************************)
(* Every value of the delivery loop keeps its type and no account is ever  *)
(* overdrawn.                                                              *)
(***************************************************************************)
\* The numbers in use, of which there are finitely many.
Promoted == {version[r] : r \in {q \in Runs : version[q] > 0}}

LEMMA PromotedFinite ==
    ASSUME TypeOK
    PROVE  /\ IsFiniteSet(Promoted)
           /\ NextVersion = 1 + Cardinality(Promoted) /\ Cardinality(Promoted) \in Nat
<1> DEFINE runs    == {q \in Runs : version[q] > 0}
           release == [r \in runs |-> version[r]]
<1>1. IsFiniteSet(runs)
  BY BoundsAssumption, FS_Subset
<1>2. release \in Surjection(runs, Promoted)
  BY DEF Surjection, Promoted
<1>3. IsFiniteSet(Promoted)
  <2> HIDE DEF runs, release
  <2> QED
    BY <1>1, <1>2, FS_Surjection
<1> QED
  BY <1>3, FS_CardinalityType DEF NextVersion, Promoted

LEMMA NextVersionType ==
    ASSUME TypeOK
    PROVE  NextVersion \in Nat
BY PromotedFinite

\* The constants are credits, and what the pipeline computes from them is too.
LEMMA CreditTypes ==
    /\ Bounty \in Nat \ {0} /\ BidFee \in Nat /\ Penalty \in Nat /\ Fees \in Nat
    /\ \A b \in Bids : b \in Nat \ {0} /\ Bounty - b - Fees \in Nat
    /\ {"atlas", "treasury", "escrow", "aegis", "sentinel", "shipwright", "chronicle"}
          \subseteq Accounts
    /\ Engineers \subseteq Accounts
    /\ \A e \in Engineers : e \notin {"treasury", "escrow"}
BY NamesAssumption, CreditsAssumption DEF Fees, Accounts, Agents, Staff

\* A posting of a run keeps the sheet a sheet, solvent, and the totals natural.
LEMMA PostType ==
    ASSUME TypeOK, NoOverdraft, NEW r \in Runs, NEW kind \in Kinds,
           NEW from \in Accounts, NEW to \in Accounts, NEW amount \in Nat,
           Post(r, kind, from, to, amount)
    PROVE  /\ balance' \in [Accounts -> Int]
           /\ NoOverdraft'
           /\ moved' \in [Runs -> [Kinds -> Nat]]
<1>1. Solvent(balance, Accounts) /\ balance \in [Accounts -> Int]
  BY DEF NoOverdraft, Solvent, TypeOK
<1>2. /\ balance' = Transfer(balance, from, to, amount)
      /\ Covers(balance, from, amount)
  BY DEF Post
<1>3. balance' \in [Accounts -> Int]
  BY <1>1, <1>2, TransferType
<1>4. Solvent(balance', Accounts)
  BY <1>1, <1>2, TransferSolvent
<1>5. moved' \in [Runs -> [Kinds -> Nat]]
  BY DEF Post, TypeOK
<1> QED
  BY <1>3, <1>4, <1>5 DEF NoOverdraft, Solvent

\* Every value keeps its type and no posting overdraws an account: a capped
\* debit charges at most what is there, any other posting checks its source.
LEMMA TypeStep ==
    ASSUME TypeOK, NoOverdraft, LockInv, \A r \in Runs : RunEscrow(r) \in Nat,
           [Next]_vars
    PROVE  TypeOK' /\ NoOverdraft'
<1> USE DEF TypeOK, Jobs, Untouched, NoPosting, NoEvent, Emit, Goto, At, JobAt, NoJob,
            journalVars, envVars
<1>run. job.step # "idle" => job.run \in Runs
  BY DEF LockInv
<1>winner. job.step \in {"penalise", "pay", "return"} =>
               job.winner \in Engineers /\ job.price \in Bids
  BY DEF LockInv, HasWinner, Unpaid, OnHealth, OnPromotion, OnTests, OnApproval
<1>sheet. balance \in [Accounts -> Int] /\ Solvent(balance, Accounts)
  BY DEF NoOverdraft, Solvent
<1>1. CASE Fund
  <2>1. balance' \in [Accounts -> Int] /\ Solvent(balance', Accounts)
    BY <1>1, <1>sheet, CreditTypes, IssueSolvent DEF Fund
  <2>2. issued' \in Nat
    BY <1>1, CreditTypes DEF Fund
  <2> QED
    BY <1>1, <2>1, <2>2 DEF Fund, Steps, NoOverdraft, Solvent
<1>2. CASE Plan
  BY <1>2, <1>run DEF Plan, Steps, EventTypes, NoOverdraft
<1>3. CASE Auction
  <2>1. PICK bid \in [Engineers -> Bids], w \in Engineers :
          job' = [job EXCEPT !.step = "bid", !.bidders = Engineers,
                             !.winner = w, !.price = bid[w]]
    BY <1>3, NamesAssumption DEF Auction
  <2>2. job' \in Jobs
    BY <2>1 DEF Steps
  <2> QED
    BY <1>3, <1>run, <2>2 DEF Auction, EventTypes, NoOverdraft
<1>4. CASE AuctionFails
  BY <1>4, <1>run DEF AuctionFails, Steps, EventTypes, NoOverdraft
<1>5. ASSUME NEW e \in Engineers, SubmitBid(e)
     PROVE  TypeOK' /\ NoOverdraft'
  <2>1. balance' \in [Accounts -> Int] /\ Solvent(balance', Accounts)
    BY <1>5, <1>sheet, CreditTypes, CappedDebitSolvent DEF SubmitBid
  <2> QED
    BY <1>5, <2>1 DEF SubmitBid, NoOverdraft, Solvent
<1>6. CASE LockBounty
  <2>1. job.run \in Runs
    BY <1>6, <1>run DEF LockBounty
  <2>2. Post(job.run, "escrow", "atlas", "escrow", Bounty)
    BY <1>6 DEF LockBounty
  <2>3. balance' \in [Accounts -> Int] /\ NoOverdraft' /\ moved' \in [Runs -> [Kinds -> Nat]]
    BY <2>1, <2>2, CreditTypes, PostType DEF Kinds
  <2>4. job' \in Jobs
    BY <1>6 DEF LockBounty, Steps
  <2> QED
    BY <1>6, <2>3, <2>4 DEF LockBounty
<1>7. CASE Award
  BY <1>7, <1>run DEF Award, Steps, EventTypes, NoOverdraft
<1>8. CASE Generate
  <2>1. PICK step \in Steps : job' = [job EXCEPT !.step = step]
    <3>1. {"capture", "settle"} \subseteq Steps
      BY DEF Steps
    <3> QED
      BY <1>8, <3>1 DEF Generate
  <2>2. job' \in Jobs
    BY <2>1
  <2>3. generated' \in [Runs -> Nat]
    BY <1>8, <1>run DEF Generate
  <2> QED
    BY <1>8, <2>2, <2>3 DEF Generate, NoOverdraft
<1>9. CASE Capture
  BY <1>9, <1>run DEF Capture, Steps, EventTypes, NoOverdraft
<1>10. CASE ReviewApproves
  BY <1>10, <1>run DEF ReviewApproves, Steps, EventTypes, NoOverdraft
<1>11. CASE ReviewBlocks
  <2>1. PICK types \in SUBSET EventTypes : Emit(job.run, types)
    BY <1>11 DEF ReviewBlocks, EventTypes
  <2>2. journal' \in [Runs -> SUBSET EventTypes]
    BY <1>11, <1>run, <2>1 DEF ReviewBlocks
  <2> QED
    BY <1>11, <2>2 DEF ReviewBlocks, Steps, NoOverdraft
<1>12. CASE TestsPass
  BY <1>12, <1>run DEF TestsPass, Steps, EventTypes, NoOverdraft
<1>13. CASE TestsUnverified
  BY <1>13, <1>run DEF TestsUnverified, Steps, EventTypes, NoOverdraft
<1>14. CASE StartDeployment
  BY <1>14, <1>run, NextVersionType DEF StartDeployment, Steps, EventTypes, NoOverdraft
<1>15. CASE Promote
  BY <1>15, <1>run DEF Promote, Steps, EventTypes, NoOverdraft
<1>16. CASE Monitor
  BY <1>16, <1>run DEF Monitor, Steps, EventTypes, NoOverdraft
<1>17. CASE Pay
  <2>1. job.run \in Runs /\ Share(job) \in Nat /\ Payee(job) \in Accounts
    BY <1>17, <1>run, <1>winner, CreditTypes, CreditsAssumption DEF Pay, Share, Payee
  <2>2. Post(job.run, "payout", "escrow", Payee(job), Share(job))
    BY <1>17 DEF Pay
  <2>3. balance' \in [Accounts -> Int] /\ NoOverdraft' /\ moved' \in [Runs -> [Kinds -> Nat]]
    BY <2>1, <2>2, CreditTypes, PostType DEF Kinds
  <2>4. job' \in Jobs
    <3>1. CASE job.due = 5
      BY <1>17, <3>1 DEF Pay, Steps
    <3>2. CASE job.due # 5
      <4>1. job.due + 1 \in 1..5
        BY <3>2
      <4> QED
        BY <1>17, <3>2, <4>1 DEF Pay
    <3> QED
      BY <3>1, <3>2
  <2> QED
    BY <1>17, <2>3, <2>4 DEF Pay
<1>18. CASE ReturnRemainder
  <2>1. job.run \in Runs /\ Remainder(job) \in Nat
    BY <1>18, <1>run, <1>winner, CreditTypes DEF ReturnRemainder, Remainder
  <2>2. balance' \in [Accounts -> Int] /\ NoOverdraft' /\ moved' \in [Runs -> [Kinds -> Nat]]
    <3>1. CASE Remainder(job) = 0
      BY <1>18, <3>1 DEF ReturnRemainder, NoOverdraft
    <3>2. CASE Remainder(job) # 0
      <4>1. Post(job.run, "refund", "escrow", "atlas", Remainder(job))
        BY <1>18, <3>2 DEF ReturnRemainder
      <4> QED
        BY <2>1, <4>1, CreditTypes, PostType DEF Kinds
    <3> QED
      BY <3>1, <3>2
  <2> QED
    BY <1>18, <2>2 DEF ReturnRemainder, Steps
<1>19. CASE WriteChangelog
  BY <1>19, <1>run DEF WriteChangelog, Steps, EventTypes, NoOverdraft
<1>20. CASE Complete
  BY <1>20, <1>run DEF Complete, Steps, EventTypes, NoOverdraft
<1>21. CASE Penalise
  <2>1. job.winner \in Accounts /\ job.run \in Runs
    BY <1>21, <1>run, <1>winner, CreditTypes DEF Penalise
  <2>2. balance' \in [Accounts -> Int] /\ Solvent(balance', Accounts)
    <3>1. balance' = CappedDebit(balance, job.winner, "treasury", Penalty, TRUE)
      BY <1>21 DEF Penalise
    <3> QED
      BY <1>sheet, <2>1, <3>1, CreditTypes, CappedDebitSolvent
  <2>3. Charge(balance, job.winner, Penalty, TRUE) \in Nat
    <3>1. Charge(balance, job.winner, Penalty, TRUE) \in 0..Penalty
      BY <1>sheet, <2>1, CreditTypes, ChargeBounds
    <3>2. \A c \in 0..Penalty : c \in Nat
      BY CreditTypes
    <3> QED
      BY <3>1, <3>2
  <2>4. moved' \in [Runs -> [Kinds -> Nat]]
    <3> DEFINE charged == Charge(balance, job.winner, Penalty, TRUE)
    <3>1. moved' = [moved EXCEPT ![job.run]["penalty"] = @ + charged]
      BY <1>21 DEF Penalise
    <3>2. charged \in Nat
      BY <2>3
    <3> HIDE DEF charged
    <3> QED
      BY <2>1, <3>1, <3>2 DEF Kinds
  <2> QED
    BY <1>21, <2>2, <2>4 DEF Penalise, NoOverdraft, Solvent, Steps
<1>22. CASE FailRefund
  <2>1. job.run \in Runs /\ RunEscrow(job.run) \in Nat
    BY <1>22, <1>run DEF FailRefund
  <2>2. Post(job.run, "refund", "escrow", "atlas", RunEscrow(job.run))
    BY <1>22 DEF FailRefund, RefundEscrow
  <2>3. balance' \in [Accounts -> Int] /\ NoOverdraft' /\ moved' \in [Runs -> [Kinds -> Nat]]
    BY <2>1, <2>2, CreditTypes, PostType DEF Kinds
  <2>4. job' \in Jobs
    BY <1>22 DEF FailRefund, RefundEscrow, Steps
  <2> QED
    BY <1>22, <2>3, <2>4 DEF FailRefund, RefundEscrow
<1>23. CASE ReconcileRefund
  <2>1. job.run \in Runs /\ RunEscrow(job.run) \in Nat
    BY <1>23, <1>run DEF ReconcileRefund
  <2>2. Post(job.run, "refund", "escrow", "atlas", RunEscrow(job.run))
    BY <1>23 DEF ReconcileRefund, RefundEscrow
  <2>3. balance' \in [Accounts -> Int] /\ NoOverdraft' /\ moved' \in [Runs -> [Kinds -> Nat]]
    BY <2>1, <2>2, CreditTypes, PostType DEF Kinds
  <2>4. job' \in Jobs
    BY <1>23 DEF ReconcileRefund, RefundEscrow, Steps
  <2> QED
    BY <1>23, <2>3, <2>4 DEF ReconcileRefund, RefundEscrow
<1>24. CASE FailClose
  BY <1>24, <1>run DEF FailClose, Steps, EventTypes, NoOverdraft, CloseAsFailed
<1>25. CASE ReconcileClose
  BY <1>25, <1>run DEF ReconcileClose, Steps, EventTypes, NoOverdraft, CloseAsFailed
<1>26. CASE PipelineRaises
  BY <1>26, <1>run, BoundsAssumption DEF PipelineRaises, Steps, EventTypes, NoOverdraft
<1>27. CASE Crash
  BY <1>27, BoundsAssumption DEF Crash, Steps, EventTypes, NoOverdraft
<1>28. CASE Restart
  BY <1>28, <1>run DEF Restart, Steps, EventTypes, NoOverdraft
<1>29. CASE FinishRecovery
  BY <1>29, <1>run DEF FinishRecovery, Steps, EventTypes, NoOverdraft
<1>30. CASE Idle
  BY <1>30, <1>run DEF Idle, Steps, EventTypes, NoOverdraft, vars
<1>31. ASSUME NEW r \in Runs, CreateObjective(r)
     PROVE  TypeOK' /\ NoOverdraft'
  BY <1>31, BoundsAssumption DEF CreateObjective, EventTypes, Steps, NoOverdraft
<1>32. ASSUME NEW r \in Runs, CreateObjectiveRaises(r)
     PROVE  TypeOK' /\ NoOverdraft'
  BY <1>32, BoundsAssumption DEF CreateObjectiveRaises, EventTypes, Steps, NoOverdraft
<1>33. ASSUME NEW r \in Runs, Redeliver(r)
     PROVE  TypeOK' /\ NoOverdraft'
  BY <1>33, BoundsAssumption DEF Redeliver, EventTypes, Steps, NoOverdraft
<1>34. ASSUME NEW r \in Runs, ExecuteFresh(r)
     PROVE  TypeOK' /\ NoOverdraft'
  BY <1>34, BoundsAssumption DEF ExecuteFresh, TakesLock, EventTypes, Steps, NoOverdraft
<1>35. ASSUME NEW r \in Runs, ExecuteInterrupted(r)
     PROVE  TypeOK' /\ NoOverdraft'
  BY <1>35, BoundsAssumption DEF ExecuteInterrupted, TakesLock, EventTypes, Steps, NoOverdraft
<1>36. ASSUME NEW r \in Runs, ExecuteClosed(r)
     PROVE  TypeOK' /\ NoOverdraft'
  BY <1>36, BoundsAssumption DEF ExecuteClosed, TakesLock, EventTypes, Steps, NoOverdraft
<1>37. ASSUME NEW r \in Runs, ExecuteRaises(r)
     PROVE  TypeOK' /\ NoOverdraft'
  BY <1>37, BoundsAssumption DEF ExecuteRaises, EventTypes, Steps, NoOverdraft
<1>38. ASSUME NEW r \in Runs, ReconcileNext(r)
     PROVE  TypeOK' /\ NoOverdraft'
  BY <1>38, BoundsAssumption DEF ReconcileNext, EventTypes, Steps, NoOverdraft
<1>39. CASE UNCHANGED vars
  BY <1>39 DEF vars, NoOverdraft
<1> HIDE DEF TypeOK, Jobs, Untouched, NoPosting, NoEvent, Emit, Goto, At, JobAt, NoJob,
            journalVars, envVars
<1> QED
  BY <1>1, <1>2, <1>3, <1>4, <1>5, <1>6, <1>7, <1>8, <1>9, <1>10, <1>11,
     <1>12, <1>13, <1>14, <1>15, <1>16, <1>17, <1>18, <1>19, <1>20, <1>21,
     <1>22, <1>23, <1>24, <1>25, <1>26, <1>27, <1>28, <1>29, <1>30, <1>31,
     <1>32, <1>33, <1>34, <1>35, <1>36, <1>37, <1>38, <1>39
  DEF Next, Pipeline, Execute, Startup, Environment

-----------------------------------------------------------------------------
(***************************************************************************)
(* The lock, the credits and the evidence at each step.                    *)
(***************************************************************************)
\* Only a live run is ever delivered, and only while the process is up.
LEMMA LockStep ==
    ASSUME IInv, TypeOK', [Next]_vars
    PROVE  LockInv'
<1> USE NamesAssumption DEF IInv, TypeOK, LockInv, Untouched, NoPosting, NoEvent, Emit, Goto,
                            At, journalVars,
            JobAt, NoJob, Jobs, Has, Started, Closed, Interrupted,
            HasWinner, Unpaid, OnHealth,
            OnPromotion, OnTests, OnApproval, History, RunInv
<1>1. CASE Fund
  BY <1>1 DEF Fund
<1>2. CASE Plan
  BY <1>2 DEF Plan
<1>3. CASE Auction
  BY <1>3 DEF Auction
<1>4. CASE AuctionFails
  BY <1>4 DEF AuctionFails
<1>5. ASSUME NEW e \in Engineers, SubmitBid(e)
     PROVE  LockInv'
  BY <1>5 DEF SubmitBid
<1>6. CASE LockBounty
  BY <1>6 DEF LockBounty
<1>7. CASE Award
  BY <1>7 DEF Award
<1>8. CASE Generate
  <2>1. job'.step \in {"capture", "settle"} /\ job'.run = job.run
    BY <1>8 DEF Generate
  <2>2. job'.winner = job.winner /\ job'.price = job.price /\ journal' = journal
    BY <1>8 DEF Generate
  <2> QED
    BY <1>8, <2>1, <2>2 DEF Generate
<1>9. CASE Capture
  BY <1>9 DEF Capture
<1>10. CASE ReviewApproves
  BY <1>10 DEF ReviewApproves
<1>11. CASE ReviewBlocks
  BY <1>11 DEF ReviewBlocks
<1>12. CASE TestsPass
  BY <1>12 DEF TestsPass
<1>13. CASE TestsUnverified
  BY <1>13 DEF TestsUnverified
<1>14. CASE StartDeployment
  BY <1>14 DEF StartDeployment
<1>15. CASE Promote
  BY <1>15 DEF Promote
<1>16. CASE Monitor
  BY <1>16 DEF Monitor
<1>17. CASE Pay
  BY <1>17 DEF Pay
<1>18. CASE ReturnRemainder
  BY <1>18 DEF ReturnRemainder
<1>19. CASE WriteChangelog
  BY <1>19 DEF WriteChangelog
<1>20. CASE Complete
  BY <1>20 DEF Complete
<1>21. CASE Penalise
  BY <1>21 DEF Penalise
<1>22. CASE FailRefund
  BY <1>22 DEF FailRefund, RefundEscrow
<1>23. CASE FailClose
  BY <1>23 DEF FailClose, CloseAsFailed
<1>24. CASE ReconcileRefund
  BY <1>24 DEF ReconcileRefund, RefundEscrow
<1>25. CASE ReconcileClose
  BY <1>25 DEF ReconcileClose, CloseAsFailed
<1>26. CASE PipelineRaises
  BY <1>26 DEF PipelineRaises
<1>27. CASE Crash
  BY <1>27 DEF Crash
<1>28. CASE Restart
  BY <1>28 DEF Restart
<1>29. CASE FinishRecovery
  BY <1>29 DEF FinishRecovery
<1>30. CASE Idle
  BY <1>30 DEF Idle, vars
<1>31. ASSUME NEW r \in Runs, CreateObjective(r)
     PROVE  LockInv'
  BY <1>31 DEF CreateObjective
<1>32. ASSUME NEW r \in Runs, CreateObjectiveRaises(r)
     PROVE  LockInv'
  BY <1>32 DEF CreateObjectiveRaises
<1>33. ASSUME NEW r \in Runs, Redeliver(r)
     PROVE  LockInv'
  BY <1>33 DEF Redeliver
<1>34. ASSUME NEW r \in Runs, ExecuteFresh(r)
     PROVE  LockInv'
  BY <1>34 DEF ExecuteFresh, TakesLock
<1>35. ASSUME NEW r \in Runs, ExecuteInterrupted(r)
     PROVE  LockInv'
  BY <1>35 DEF ExecuteInterrupted, TakesLock
<1>36. ASSUME NEW r \in Runs, ExecuteClosed(r)
     PROVE  LockInv'
  BY <1>36 DEF ExecuteClosed, TakesLock
<1>37. ASSUME NEW r \in Runs, ExecuteRaises(r)
     PROVE  LockInv'
  BY <1>37 DEF ExecuteRaises
<1>38. ASSUME NEW r \in Runs, ReconcileNext(r)
     PROVE  LockInv'
  BY <1>38 DEF ReconcileNext
<1>39. CASE UNCHANGED vars
  BY <1>39 DEF vars
<1> HIDE NamesAssumption DEF IInv, TypeOK, LockInv, Untouched, NoPosting, NoEvent, Emit,
                             Goto, At, journalVars,
            JobAt, NoJob, Jobs, Has, Started, Closed, Interrupted,
            HasWinner, Unpaid, OnHealth,
            OnPromotion, OnTests, OnApproval, History, RunInv
<1> QED
  BY <1>1, <1>2, <1>3, <1>4, <1>5, <1>6, <1>7, <1>8, <1>9, <1>10, <1>11,
     <1>12, <1>13, <1>14, <1>15, <1>16, <1>17, <1>18, <1>19, <1>20, <1>21,
     <1>22, <1>23, <1>24, <1>25, <1>26, <1>27, <1>28, <1>29, <1>30, <1>31,
     <1>32, <1>33, <1>34, <1>35, <1>36, <1>37, <1>38, <1>39
  DEF Next, Pipeline, Execute, Startup, Environment

\* What a run has moved follows from the step that is due.
LEMMA StageStep ==
    ASSUME IInv, TypeOK', [Next]_vars
    PROVE  StageInv'
<1> USE CreditsAssumption DEF IInv, TypeOK, LockInv, StageInv, History, RunInv,
            Untouched, NoPosting, NoEvent, Emit, Goto, At, journalVars,
            JobAt, NoJob, Jobs, Has, Started, Closed, Interrupted,
            HasWinner, Unpaid, OnHealth,
            OnPromotion, OnTests, OnApproval, BeforeLock, Post, Kinds, RunEscrow, Fees,
            PaidBefore, Share, Remainder
<1>1. CASE Fund
  BY <1>1 DEF Fund
<1>2. CASE Plan
  BY <1>2 DEF Plan
<1>3. CASE Auction
  BY <1>3 DEF Auction
<1>4. CASE AuctionFails
  BY <1>4 DEF AuctionFails
<1>5. ASSUME NEW e \in Engineers, SubmitBid(e)
     PROVE  StageInv'
  BY <1>5 DEF SubmitBid
<1>6. CASE LockBounty
  BY <1>6 DEF LockBounty
<1>7. CASE Award
  BY <1>7 DEF Award
<1>8. CASE Generate
  BY <1>8 DEF Generate
<1>9. CASE Capture
  BY <1>9 DEF Capture
<1>10. CASE ReviewApproves
  BY <1>10 DEF ReviewApproves
<1>11. CASE ReviewBlocks
  BY <1>11 DEF ReviewBlocks
<1>12. CASE TestsPass
  BY <1>12 DEF TestsPass
<1>13. CASE TestsUnverified
  BY <1>13 DEF TestsUnverified
<1>14. CASE StartDeployment
  BY <1>14 DEF StartDeployment
<1>15. CASE Promote
  BY <1>15 DEF Promote
<1>16. CASE Monitor
  BY <1>16 DEF Monitor
<1>17. CASE Pay
  BY <1>17 DEF Pay
<1>18. CASE ReturnRemainder
  BY <1>18 DEF ReturnRemainder
<1>19. CASE WriteChangelog
  BY <1>19 DEF WriteChangelog
<1>20. CASE Complete
  BY <1>20 DEF Complete
<1>21. CASE Penalise
  BY <1>21 DEF Penalise
<1>22. CASE FailRefund
  BY <1>22 DEF FailRefund, RefundEscrow
<1>23. CASE FailClose
  BY <1>23 DEF FailClose, CloseAsFailed
<1>24. CASE ReconcileRefund
  BY <1>24 DEF ReconcileRefund, RefundEscrow
<1>25. CASE ReconcileClose
  BY <1>25 DEF ReconcileClose, CloseAsFailed
<1>26. CASE PipelineRaises
  BY <1>26 DEF PipelineRaises
<1>27. CASE Crash
  BY <1>27 DEF Crash
<1>28. CASE Restart
  BY <1>28 DEF Restart
<1>29. CASE FinishRecovery
  BY <1>29 DEF FinishRecovery
<1>30. CASE Idle
  BY <1>30 DEF Idle, vars
<1>31. ASSUME NEW r \in Runs, CreateObjective(r)
     PROVE  StageInv'
  BY <1>31 DEF CreateObjective
<1>32. ASSUME NEW r \in Runs, CreateObjectiveRaises(r)
     PROVE  StageInv'
  BY <1>32 DEF CreateObjectiveRaises
<1>33. ASSUME NEW r \in Runs, Redeliver(r)
     PROVE  StageInv'
  BY <1>33 DEF Redeliver
<1>34. ASSUME NEW r \in Runs, ExecuteFresh(r)
     PROVE  StageInv'
  BY <1>34 DEF ExecuteFresh, TakesLock
<1>35. ASSUME NEW r \in Runs, ExecuteInterrupted(r)
     PROVE  StageInv'
  BY <1>35 DEF ExecuteInterrupted, TakesLock
<1>36. ASSUME NEW r \in Runs, ExecuteClosed(r)
     PROVE  StageInv'
  BY <1>36 DEF ExecuteClosed, TakesLock
<1>37. ASSUME NEW r \in Runs, ExecuteRaises(r)
     PROVE  StageInv'
  BY <1>37 DEF ExecuteRaises
<1>38. ASSUME NEW r \in Runs, ReconcileNext(r)
     PROVE  StageInv'
  BY <1>38 DEF ReconcileNext
<1>39. CASE UNCHANGED vars
  BY <1>39 DEF vars
<1> HIDE CreditsAssumption DEF IInv, TypeOK, LockInv, StageInv, History, RunInv,
            Untouched, NoPosting, NoEvent, Emit, Goto, At, journalVars,
            JobAt, NoJob, Jobs, Has, Started, Closed, Interrupted,
            HasWinner, Unpaid, OnHealth,
            OnPromotion, OnTests, OnApproval, BeforeLock, Post, Kinds, RunEscrow, Fees,
            PaidBefore, Share, Remainder
<1> QED
  BY <1>1, <1>2, <1>3, <1>4, <1>5, <1>6, <1>7, <1>8, <1>9, <1>10, <1>11,
     <1>12, <1>13, <1>14, <1>15, <1>16, <1>17, <1>18, <1>19, <1>20, <1>21,
     <1>22, <1>23, <1>24, <1>25, <1>26, <1>27, <1>28, <1>29, <1>30, <1>31,
     <1>32, <1>33, <1>34, <1>35, <1>36, <1>37, <1>38, <1>39
  DEF Next, Pipeline, Execute, Startup, Environment

\* So does the evidence the journal holds of it.
LEMMA EvidenceStep ==
    ASSUME IInv, TypeOK', [Next]_vars
    PROVE  EvidenceInv'
<1> USE DEF IInv, TypeOK, LockInv, EvidenceInv, History, RunInv,
            Untouched, NoPosting, NoEvent, Emit, Goto, At, journalVars,
            JobAt, NoJob, Jobs, Has, Started, Closed, Interrupted,
            HasWinner, Unpaid, OnHealth,
            OnPromotion, OnTests, OnApproval, BeforeCall, BeforeLock
<1>1. CASE Fund
  BY <1>1 DEF Fund
<1>2. CASE Plan
  BY <1>2 DEF Plan
<1>3. CASE Auction
  BY <1>3 DEF Auction
<1>4. CASE AuctionFails
  BY <1>4 DEF AuctionFails
<1>5. ASSUME NEW e \in Engineers, SubmitBid(e)
     PROVE  EvidenceInv'
  BY <1>5 DEF SubmitBid
<1>6. CASE LockBounty
  BY <1>6 DEF LockBounty
<1>7. CASE Award
  BY <1>7 DEF Award
<1>8. CASE Generate
  BY <1>8 DEF Generate
<1>9. CASE Capture
  BY <1>9 DEF Capture
<1>10. CASE ReviewApproves
  BY <1>10 DEF ReviewApproves
<1>11. CASE ReviewBlocks
  BY <1>11 DEF ReviewBlocks
<1>12. CASE TestsPass
  BY <1>12 DEF TestsPass
<1>13. CASE TestsUnverified
  BY <1>13 DEF TestsUnverified
<1>14. CASE StartDeployment
  BY <1>14 DEF StartDeployment
<1>15. CASE Promote
  BY <1>15 DEF Promote
<1>16. CASE Monitor
  BY <1>16 DEF Monitor
<1>17. CASE Pay
  BY <1>17 DEF Pay
<1>18. CASE ReturnRemainder
  BY <1>18 DEF ReturnRemainder
<1>19. CASE WriteChangelog
  BY <1>19 DEF WriteChangelog
<1>20. CASE Complete
  BY <1>20 DEF Complete
<1>21. CASE Penalise
  BY <1>21 DEF Penalise
<1>22. CASE FailRefund
  BY <1>22 DEF FailRefund, RefundEscrow
<1>23. CASE FailClose
  BY <1>23 DEF FailClose, CloseAsFailed
<1>24. CASE ReconcileRefund
  BY <1>24 DEF ReconcileRefund, RefundEscrow
<1>25. CASE ReconcileClose
  BY <1>25 DEF ReconcileClose, CloseAsFailed
<1>26. CASE PipelineRaises
  BY <1>26 DEF PipelineRaises
<1>27. CASE Crash
  BY <1>27 DEF Crash
<1>28. CASE Restart
  BY <1>28 DEF Restart
<1>29. CASE FinishRecovery
  BY <1>29 DEF FinishRecovery
<1>30. CASE Idle
  BY <1>30 DEF Idle, vars
<1>31. ASSUME NEW r \in Runs, CreateObjective(r)
     PROVE  EvidenceInv'
  BY <1>31 DEF CreateObjective
<1>32. ASSUME NEW r \in Runs, CreateObjectiveRaises(r)
     PROVE  EvidenceInv'
  BY <1>32 DEF CreateObjectiveRaises
<1>33. ASSUME NEW r \in Runs, Redeliver(r)
     PROVE  EvidenceInv'
  BY <1>33 DEF Redeliver
<1>34. ASSUME NEW r \in Runs, ExecuteFresh(r)
     PROVE  EvidenceInv'
  BY <1>34 DEF ExecuteFresh, TakesLock
<1>35. ASSUME NEW r \in Runs, ExecuteInterrupted(r)
     PROVE  EvidenceInv'
  BY <1>35 DEF ExecuteInterrupted, TakesLock
<1>36. ASSUME NEW r \in Runs, ExecuteClosed(r)
     PROVE  EvidenceInv'
  BY <1>36 DEF ExecuteClosed, TakesLock
<1>37. ASSUME NEW r \in Runs, ExecuteRaises(r)
     PROVE  EvidenceInv'
  BY <1>37 DEF ExecuteRaises
<1>38. ASSUME NEW r \in Runs, ReconcileNext(r)
     PROVE  EvidenceInv'
  BY <1>38 DEF ReconcileNext
<1>39. CASE UNCHANGED vars
  BY <1>39 DEF vars
<1> HIDE DEF IInv, TypeOK, LockInv, EvidenceInv, History, RunInv,
            Untouched, NoPosting, NoEvent, Emit, Goto, At, journalVars,
            JobAt, NoJob, Jobs, Has, Started, Closed, Interrupted,
            HasWinner, Unpaid, OnHealth,
            OnPromotion, OnTests, OnApproval, BeforeCall, BeforeLock
<1> QED
  BY <1>1, <1>2, <1>3, <1>4, <1>5, <1>6, <1>7, <1>8, <1>9, <1>10, <1>11,
     <1>12, <1>13, <1>14, <1>15, <1>16, <1>17, <1>18, <1>19, <1>20, <1>21,
     <1>22, <1>23, <1>24, <1>25, <1>26, <1>27, <1>28, <1>29, <1>30, <1>31,
     <1>32, <1>33, <1>34, <1>35, <1>36, <1>37, <1>38, <1>39
  DEF Next, Pipeline, Execute, Startup, Environment

\* No open run is forgotten by a process that serves.
LEMMA OpenStep ==
    ASSUME IInv, TypeOK', [Next]_vars
    PROVE  OpenRunsAccounted'
<1> USE NamesAssumption DEF IInv, TypeOK, LockInv, OpenRunsAccounted, History, RunInv,
            Untouched, NoPosting, NoEvent, Emit, Goto, At, journalVars,
            JobAt, NoJob, Jobs, Has, Started, Closed, Interrupted
<1>1. CASE Fund
  BY <1>1 DEF Fund
<1>2. CASE Plan
  BY <1>2 DEF Plan
<1>3. CASE Auction
  BY <1>3 DEF Auction
<1>4. CASE AuctionFails
  BY <1>4 DEF AuctionFails
<1>5. ASSUME NEW e \in Engineers, SubmitBid(e)
     PROVE  OpenRunsAccounted'
  BY <1>5 DEF SubmitBid
<1>6. CASE LockBounty
  BY <1>6 DEF LockBounty
<1>7. CASE Award
  BY <1>7 DEF Award
<1>8. CASE Generate
  BY <1>8 DEF Generate
<1>9. CASE Capture
  BY <1>9 DEF Capture
<1>10. CASE ReviewApproves
  BY <1>10 DEF ReviewApproves
<1>11. CASE ReviewBlocks
  BY <1>11 DEF ReviewBlocks
<1>12. CASE TestsPass
  BY <1>12 DEF TestsPass
<1>13. CASE TestsUnverified
  BY <1>13 DEF TestsUnverified
<1>14. CASE StartDeployment
  BY <1>14 DEF StartDeployment
<1>15. CASE Promote
  BY <1>15 DEF Promote
<1>16. CASE Monitor
  BY <1>16 DEF Monitor
<1>17. CASE Pay
  BY <1>17 DEF Pay
<1>18. CASE ReturnRemainder
  BY <1>18 DEF ReturnRemainder
<1>19. CASE WriteChangelog
  BY <1>19 DEF WriteChangelog
<1>20. CASE Complete
  BY <1>20 DEF Complete
<1>21. CASE Penalise
  BY <1>21 DEF Penalise
<1>22. CASE FailRefund
  BY <1>22 DEF FailRefund, RefundEscrow
<1>23. CASE FailClose
  BY <1>23 DEF FailClose, CloseAsFailed
<1>24. CASE ReconcileRefund
  BY <1>24 DEF ReconcileRefund, RefundEscrow
<1>25. CASE ReconcileClose
  BY <1>25 DEF ReconcileClose, CloseAsFailed
<1>26. CASE PipelineRaises
  BY <1>26 DEF PipelineRaises
<1>27. CASE Crash
  BY <1>27 DEF Crash
<1>28. CASE Restart
  BY <1>28 DEF Restart
<1>29. CASE FinishRecovery
  BY <1>29 DEF FinishRecovery
<1>30. CASE Idle
  BY <1>30 DEF Idle, vars
<1>31. ASSUME NEW r \in Runs, CreateObjective(r)
     PROVE  OpenRunsAccounted'
  BY <1>31 DEF CreateObjective
<1>32. ASSUME NEW r \in Runs, CreateObjectiveRaises(r)
     PROVE  OpenRunsAccounted'
  BY <1>32 DEF CreateObjectiveRaises
<1>33. ASSUME NEW r \in Runs, Redeliver(r)
     PROVE  OpenRunsAccounted'
  BY <1>33 DEF Redeliver
<1>34. ASSUME NEW r \in Runs, ExecuteFresh(r)
     PROVE  OpenRunsAccounted'
  BY <1>34 DEF ExecuteFresh, TakesLock
<1>35. ASSUME NEW r \in Runs, ExecuteInterrupted(r)
     PROVE  OpenRunsAccounted'
  BY <1>35 DEF ExecuteInterrupted, TakesLock
<1>36. ASSUME NEW r \in Runs, ExecuteClosed(r)
     PROVE  OpenRunsAccounted'
  BY <1>36 DEF ExecuteClosed, TakesLock
<1>37. ASSUME NEW r \in Runs, ExecuteRaises(r)
     PROVE  OpenRunsAccounted'
  BY <1>37 DEF ExecuteRaises
<1>38. ASSUME NEW r \in Runs, ReconcileNext(r)
     PROVE  OpenRunsAccounted'
  BY <1>38 DEF ReconcileNext
<1>39. CASE UNCHANGED vars
  BY <1>39 DEF vars
<1> HIDE NamesAssumption DEF IInv, TypeOK, LockInv, OpenRunsAccounted, History, RunInv,
            Untouched, NoPosting, NoEvent, Emit, Goto, At, journalVars,
            JobAt, NoJob, Jobs, Has, Started, Closed, Interrupted
<1> QED
  BY <1>1, <1>2, <1>3, <1>4, <1>5, <1>6, <1>7, <1>8, <1>9, <1>10, <1>11,
     <1>12, <1>13, <1>14, <1>15, <1>16, <1>17, <1>18, <1>19, <1>20, <1>21,
     <1>22, <1>23, <1>24, <1>25, <1>26, <1>27, <1>28, <1>29, <1>30, <1>31,
     <1>32, <1>33, <1>34, <1>35, <1>36, <1>37, <1>38, <1>39
  DEF Next, Pipeline, Execute, Startup, Environment

\* A step that leaves a run's events, postings and invocations alone leaves
\* everything that is claimed of the run alone.
LEMMA UntouchedRun ==
    ASSUME IInv, NEW q \in Runs, journal'[q] = journal[q], moved'[q] = moved[q],
           generated'[q] = generated[q], q \in tasks' => q \in tasks \/ Created(q)
    PROVE  RunInv(q)'
BY DEF IInv, RunInv, History, EscrowOf, EvidenceOf, EarnedOf, RunEscrow, Has, Created,
       Started, Closed

\* Nor does a milestone of the pipeline disturb it: it neither starts nor ends
\* the run.
LEMMA MilestoneRuns ==
    ASSUME IInv, job.step # "idle",
           NEW types \in SUBSET (EventTypes \ {"objective.created", "run.started",
                                               "run.completed", "run.failed"}),
           Emit(job.run, types), UNCHANGED <<moved, generated, tasks>>
    PROVE  \A q \in Runs : RunInv(q)'
<1> SUFFICES ASSUME NEW q \in Runs
             PROVE  RunInv(q)'
  OBVIOUS
<1>1. CASE q # job.run
  BY <1>1, UntouchedRun DEF Emit, IInv, TypeOK, Created, Has
<1>2. CASE q = job.run
  <2>1. journal'[q] = journal[q] \union types
    BY <1>2 DEF Emit, IInv, TypeOK
  <2>2. Interrupted(q) /\ RunInv(q)
    BY <1>2 DEF IInv, LockInv
  <2> QED
    BY <2>1, <2>2 DEF RunInv, History, EscrowOf, EvidenceOf, EarnedOf, RunEscrow, Has,
                      Created, Started, Closed, Interrupted
<1> QED
  BY <1>1, <1>2

\* Returning what the run has left in escrow, which it may do at any time.
LEMMA RefundRuns ==
    ASSUME IInv, TypeOK', job.step # "idle", RunEscrow(job.run) > 0,
           Post(job.run, "refund", "escrow", "atlas", RunEscrow(job.run)),
           NoEvent, UNCHANGED <<generated, tasks>>
    PROVE  \A q \in Runs : RunInv(q)'
<1> SUFFICES ASSUME NEW q \in Runs
             PROVE  RunInv(q)'
  OBVIOUS
<1> USE DEF Post, NoEvent, IInv, TypeOK, Kinds
<1>1. CASE q # job.run
  BY <1>1, UntouchedRun
<1>2. CASE q = job.run
  <2>1. Interrupted(q) /\ RunInv(q)
    BY <1>2 DEF LockInv
  <2>2. /\ moved'[q]["escrow"] = moved[q]["escrow"]
        /\ moved'[q]["payout"] = moved[q]["payout"]
        /\ moved'[q]["refund"] = moved[q]["refund"] + RunEscrow(q)
        /\ moved'[q]["penalty"] = moved[q]["penalty"]
    BY <1>2 DEF RunEscrow
  <2>3. /\ moved[q]["escrow"] \in Nat /\ moved[q]["payout"] \in Nat
        /\ moved[q]["refund"] \in Nat
    OBVIOUS
  <2>4. Bounty \in Nat
    BY CreditTypes
  <2>5. RunEscrow(q)' = 0
    BY <2>2, <2>3 DEF RunEscrow
  <2> QED
    BY <1>2, <2>1, <2>2, <2>4, <2>5
       DEF RunInv, History, EscrowOf, EvidenceOf, EarnedOf, Has, Created,
           Started, Closed, Interrupted
<1> QED
  BY <1>1, <1>2

\* Closing a run as failed, which waits until its escrow is empty.
LEMMA CloseRuns ==
    ASSUME IInv, TypeOK', job.step # "idle", CloseAsFailed(job.run), Untouched
    PROVE  \A q \in Runs : RunInv(q)'
<1> SUFFICES ASSUME NEW q \in Runs
             PROVE  RunInv(q)'
  OBVIOUS
<1> USE DEF CloseAsFailed, NoPosting, Emit, Untouched, IInv, TypeOK
<1>1. CASE q # job.run
  BY <1>1, UntouchedRun
<1>2. CASE q = job.run
  <2>1. Interrupted(q) /\ RunInv(q)
    BY <1>2 DEF LockInv
  <2>2. journal'[q] = journal[q] \union {"run.failed"}
    BY <1>2
  <2> QED
    BY <1>2, <2>1, <2>2
       DEF RunInv, History, EscrowOf, EvidenceOf, EarnedOf, RunEscrow, Has, Created,
           Started, Closed, Interrupted
<1> QED
  BY <1>1, <1>2

\* What is claimed of every run survives every step.
LEMMA RunsStep ==
    ASSUME IInv, TypeOK', [Next]_vars
    PROVE  \A q \in Runs : RunInv(q)'
<1> USE DEF Untouched, NoPosting, NoEvent, Emit, At, journalVars, Has, Created, Started,
            Closed
<1>1. CASE Fund
  BY <1>1, UntouchedRun DEF Fund
<1>2. CASE Plan
  BY <1>2, MilestoneRuns DEF Plan, EventTypes
<1>3. CASE Auction
  BY <1>3, MilestoneRuns DEF Auction, EventTypes
<1>4. CASE AuctionFails
  BY <1>4, UntouchedRun DEF AuctionFails
<1>5. ASSUME NEW e \in Engineers, SubmitBid(e)
     PROVE  \A q \in Runs : RunInv(q)'
  BY <1>5, UntouchedRun DEF SubmitBid
<1>6. CASE LockBounty
  <2> SUFFICES ASSUME NEW q \in Runs
               PROVE  RunInv(q)'
    OBVIOUS
  <2>1. CASE q # job.run
    BY <1>6, <2>1, UntouchedRun DEF LockBounty, Post, IInv, TypeOK, Kinds
  <2>2. CASE q = job.run
    <3>1. Interrupted(q) /\ RunInv(q) /\ StageInv /\ LockInv
      BY <1>6, <2>2 DEF IInv, LockInv, LockBounty
    <3>2. /\ moved'[q] = [moved[q] EXCEPT !["escrow"] = @ + Bounty]
          /\ moved[q] \in [Kinds -> Nat]
      BY <1>6, <2>2 DEF LockBounty, Post, IInv, TypeOK
    <3> QED
      BY <1>6, <2>2, <3>1, <3>2, CreditTypes
         DEF LockBounty, StageInv, BeforeLock, RunInv, History, EscrowOf, EvidenceOf,
             EarnedOf, RunEscrow, Kinds, Interrupted
  <2> QED
    BY <2>1, <2>2
<1>7. CASE Award
  BY <1>7, MilestoneRuns DEF Award, EventTypes
<1>8. CASE Generate
  <2> SUFFICES ASSUME NEW q \in Runs
               PROVE  RunInv(q)'
    OBVIOUS
  <2>1. CASE q # job.run
    BY <1>8, <2>1, UntouchedRun DEF Generate, Post, IInv, TypeOK, Kinds
  <2>2. CASE q = job.run
    <3>1. Interrupted(q) /\ RunInv(q) /\ StageInv /\ LockInv
      BY <1>8, <2>2 DEF IInv, LockInv, Generate
    <3>2. generated'[q] = 1
      BY <1>8, <2>2 DEF Generate, IInv, TypeOK, EvidenceInv, BeforeCall, BeforeLock
    <3> QED
      BY <1>8, <2>2, <3>1, <3>2 DEF Generate, RunInv, History, EscrowOf, EvidenceOf,
                                    EarnedOf, RunEscrow, Interrupted
  <2> QED
    BY <2>1, <2>2
<1>9. CASE Capture
  BY <1>9, MilestoneRuns DEF Capture, EventTypes
<1>10. CASE ReviewApproves
  BY <1>10, MilestoneRuns DEF ReviewApproves, EventTypes
<1>11. CASE ReviewBlocks
  <2>1. PICK types \in {{}, {"review.rejected"}, {"review.rejected", "review.unverified"}} :
          Emit(job.run, types)
    BY <1>11 DEF ReviewBlocks
  <2> QED
    BY <1>11, <2>1, MilestoneRuns DEF ReviewBlocks, EventTypes
<1>12. CASE TestsPass
  BY <1>12, MilestoneRuns DEF TestsPass, EventTypes
<1>13. CASE TestsUnverified
  BY <1>13, MilestoneRuns DEF TestsUnverified, EventTypes
<1>14. CASE StartDeployment
  BY <1>14, MilestoneRuns DEF StartDeployment, EventTypes
<1>15. CASE Promote
  BY <1>15, MilestoneRuns DEF Promote, EventTypes
<1>16. CASE Monitor
  BY <1>16, MilestoneRuns DEF Monitor, EventTypes
<1>17. CASE Pay
  <2> SUFFICES ASSUME NEW q \in Runs
               PROVE  RunInv(q)'
    OBVIOUS
  <2>1. CASE q # job.run
    BY <1>17, <2>1, UntouchedRun DEF Pay, Post, IInv, TypeOK, Kinds
  <2>2. CASE q = job.run
    <3>1. Interrupted(q) /\ RunInv(q) /\ StageInv /\ LockInv
      BY <1>17, <2>2 DEF IInv, LockInv, Pay
    <3>2. /\ moved'[q] = [moved[q] EXCEPT !["payout"] = @ + Share(job)]
          /\ moved[q] \in [Kinds -> Nat]
      BY <1>17, <2>2 DEF Pay, Post, IInv, TypeOK
    <3>3. EvidenceInv /\ job.due \in 1..5 /\ job.price \in Bids
      BY <1>17 DEF IInv, TypeOK, Jobs, LockInv, Pay, HasWinner, OnHealth, OnPromotion,
                   OnTests, OnApproval
    <3>4. Share(job) \in Nat /\ moved[q]["payout"] + Share(job) <= Bounty
      BY <1>17, <2>2, <3>1, <3>3, CreditsAssumption
         DEF Pay, StageInv, PaidBefore, Share, Fees
    <3>5. job.step = "pay" /\ journal' = journal /\ generated' = generated /\ tasks' = tasks
      BY <1>17 DEF Pay
    <3> QED
      BY <2>2, <3>1, <3>2, <3>3, <3>4, <3>5, CreditTypes
         DEF StageInv, EvidenceInv, RunInv, History, EscrowOf, EvidenceOf, EarnedOf,
             RunEscrow, Kinds, Interrupted, OnHealth, OnPromotion, OnTests, OnApproval
  <2> QED
    BY <2>1, <2>2
<1>18. CASE ReturnRemainder
  <2>1. CASE Remainder(job) = 0
    BY <1>18, <2>1, UntouchedRun DEF ReturnRemainder
  <2>2. CASE Remainder(job) # 0
    <3>1. StageInv /\ job.run \in Runs /\ job.price \in Bids
      BY <1>18 DEF ReturnRemainder, IInv, LockInv, HasWinner, OnHealth, OnPromotion,
                  OnTests, OnApproval
    <3>2. Remainder(job) = RunEscrow(job.run)
      BY <1>18, <3>1, CreditsAssumption
         DEF ReturnRemainder, StageInv, Remainder, RunEscrow, Fees
    <3>3. RunEscrow(job.run) > 0
      BY <1>18, <2>2, <3>1, <3>2 DEF ReturnRemainder, IInv, LockInv, RunInv, EscrowOf
    <3> QED
      BY <1>18, <2>2, <3>2, <3>3, RefundRuns DEF ReturnRemainder
  <2> QED
    BY <2>1, <2>2
<1>19. CASE WriteChangelog
  BY <1>19, MilestoneRuns DEF WriteChangelog, EventTypes
<1>20. CASE Complete
  <2> SUFFICES ASSUME NEW q \in Runs
               PROVE  RunInv(q)'
    OBVIOUS
  <2>1. CASE q # job.run
    BY <1>20, <2>1, UntouchedRun DEF Complete, Post, IInv, TypeOK, Kinds
  <2>2. CASE q = job.run
    <3>1. Interrupted(q) /\ RunInv(q) /\ StageInv /\ LockInv
      BY <1>20, <2>2 DEF IInv, LockInv, Complete
    <3>2. journal'[q] = journal[q] \union {"run.completed"}
      BY <1>20, <2>2 DEF Complete, IInv, TypeOK
    <3>3. EvidenceInv /\ job.price \in Bids /\ moved[q] \in [Kinds -> Nat]
      BY <1>20, <2>2 DEF IInv, LockInv, TypeOK, Complete, HasWinner, OnHealth, OnPromotion,
                         OnTests, OnApproval
    <3>4. /\ moved[q]["escrow"] = Bounty /\ moved[q]["payout"] = job.price + Fees
          /\ moved[q]["refund"] = Bounty - job.price - Fees
      BY <1>20, <2>2, <3>1 DEF Complete, StageInv, Remainder
    <3>5. RunEscrow(q) = 0 /\ moved[q]["payout"] + moved[q]["refund"] = Bounty
      BY <3>3, <3>4, CreditTypes DEF RunEscrow
    <3> QED
      BY <1>20, <2>2, <3>1, <3>2, <3>3, <3>5
         DEF Complete, EvidenceInv, RunInv, History, EscrowOf, EvidenceOf, EarnedOf,
             RunEscrow, Interrupted, OnHealth, OnPromotion, OnTests, OnApproval
  <2> QED
    BY <2>1, <2>2
<1>21. CASE Penalise
  <2> SUFFICES ASSUME NEW q \in Runs
               PROVE  RunInv(q)'
    OBVIOUS
  <2>1. CASE q # job.run
    BY <1>21, <2>1, UntouchedRun DEF Penalise, Post, IInv, TypeOK, Kinds
  <2>2. CASE q = job.run
    <3>1. Interrupted(q) /\ RunInv(q) /\ StageInv /\ LockInv
      BY <1>21, <2>2 DEF IInv, LockInv, Penalise
    <3> DEFINE charged == Charge(balance, job.winner, Penalty, TRUE)
    <3>2. moved'[q] = [moved[q] EXCEPT !["penalty"] = @ + charged] /\ moved[q] \in [Kinds -> Nat]
      BY <1>21, <2>2 DEF Penalise, IInv, TypeOK
    <3> HIDE DEF charged
    <3>3. /\ moved'[q]["escrow"] = moved[q]["escrow"] /\ moved'[q]["payout"] = moved[q]["payout"]
          /\ moved'[q]["refund"] = moved[q]["refund"]
      BY <3>2 DEF Kinds
    <3>4. moved[q]["payout"] = 0
      BY <1>21, <2>2, <3>1 DEF Penalise, StageInv, Unpaid
    <3>5. journal' = journal /\ generated' = generated /\ tasks' = tasks
      BY <1>21 DEF Penalise
    <3> QED
      BY <2>2, <3>1, <3>3, <3>4, <3>5 DEF RunInv, History, EscrowOf, EvidenceOf, EarnedOf,
                                          RunEscrow, Interrupted
  <2> QED
    BY <2>1, <2>2
<1>22. CASE FailRefund
  BY <1>22, RefundRuns DEF FailRefund, RefundEscrow, Untouched
<1>23. CASE FailClose
  BY <1>23, CloseRuns DEF FailClose, CloseAsFailed, Untouched
<1>24. CASE ReconcileRefund
  BY <1>24, RefundRuns DEF ReconcileRefund, RefundEscrow, Untouched
<1>25. CASE ReconcileClose
  BY <1>25, CloseRuns DEF ReconcileClose, CloseAsFailed, Untouched
<1>26. CASE PipelineRaises
  BY <1>26, UntouchedRun DEF PipelineRaises
<1>27. CASE Crash
  BY <1>27, UntouchedRun DEF Crash
<1>28. CASE Restart
  BY <1>28, UntouchedRun DEF Restart
<1>29. CASE FinishRecovery
  BY <1>29, UntouchedRun DEF FinishRecovery
<1>30. CASE Idle
  BY <1>30, UntouchedRun DEF Idle, vars
<1>31. ASSUME NEW r \in Runs, CreateObjective(r)
     PROVE  \A q \in Runs : RunInv(q)'
  <2> SUFFICES ASSUME NEW q \in Runs
               PROVE  RunInv(q)'
    OBVIOUS
  <2>1. CASE q # r
    BY <1>31, <2>1, UntouchedRun DEF CreateObjective, Post, IInv, TypeOK, Kinds
  <2>2. CASE q = r
    <3>1. journal'[q] = journal[q] \union {"objective.created"} /\ RunInv(q)
      BY <1>31, <2>2 DEF CreateObjective, IInv, TypeOK
    <3> QED
      BY <1>31, <2>2, <3>1, CreditTypes DEF CreateObjective, RunInv, History, EscrowOf,
                                            EvidenceOf, EarnedOf, RunEscrow
  <2> QED
    BY <2>1, <2>2
<1>32. ASSUME NEW r \in Runs, CreateObjectiveRaises(r)
     PROVE  \A q \in Runs : RunInv(q)'
  <2> SUFFICES ASSUME NEW q \in Runs
               PROVE  RunInv(q)'
    OBVIOUS
  <2>1. CASE q # r
    BY <1>32, <2>1, UntouchedRun DEF CreateObjectiveRaises, Post, IInv, TypeOK, Kinds
  <2>2. CASE q = r
    <3>1. journal'[q] = journal[q] \union {"objective.created"} /\ RunInv(q)
      BY <1>32, <2>2 DEF CreateObjectiveRaises, IInv, TypeOK
    <3> QED
      BY <1>32, <2>2, <3>1, CreditTypes DEF CreateObjectiveRaises, RunInv, History, EscrowOf,
                                            EvidenceOf, EarnedOf, RunEscrow
  <2> QED
    BY <2>1, <2>2
<1>33. ASSUME NEW r \in Runs, Redeliver(r)
     PROVE  \A q \in Runs : RunInv(q)'
  BY <1>33, UntouchedRun DEF Redeliver, IInv, RunInv, History
<1>34. ASSUME NEW r \in Runs, ExecuteFresh(r)
     PROVE  \A q \in Runs : RunInv(q)'
  <2> SUFFICES ASSUME NEW q \in Runs
               PROVE  RunInv(q)'
    OBVIOUS
  <2>1. CASE q # r
    BY <1>34, <2>1, UntouchedRun DEF ExecuteFresh, TakesLock, Post, IInv, TypeOK, Kinds
  <2>2. CASE q = r
    <3>1. journal'[q] = journal[q] \union {"run.started"} /\ RunInv(q)
      BY <1>34, <2>2 DEF ExecuteFresh, TakesLock, IInv, TypeOK
    <3> QED
      BY <1>34, <2>2, <3>1, CreditTypes DEF ExecuteFresh, TakesLock, RunInv, History,
                                            EscrowOf, EvidenceOf, EarnedOf, RunEscrow
  <2> QED
    BY <2>1, <2>2
<1>35. ASSUME NEW r \in Runs, ExecuteInterrupted(r)
     PROVE  \A q \in Runs : RunInv(q)'
  BY <1>35, UntouchedRun DEF ExecuteInterrupted, TakesLock
<1>36. ASSUME NEW r \in Runs, ExecuteClosed(r)
     PROVE  \A q \in Runs : RunInv(q)'
  BY <1>36, UntouchedRun DEF ExecuteClosed, TakesLock
<1>37. ASSUME NEW r \in Runs, ExecuteRaises(r)
     PROVE  \A q \in Runs : RunInv(q)'
  BY <1>37, UntouchedRun DEF ExecuteRaises
<1>38. ASSUME NEW r \in Runs, ReconcileNext(r)
     PROVE  \A q \in Runs : RunInv(q)'
  BY <1>38, UntouchedRun DEF ReconcileNext
<1>39. CASE UNCHANGED vars
  BY <1>39, UntouchedRun DEF vars
<1> HIDE DEF Untouched, NoPosting, NoEvent, Emit, At, journalVars, Has, Created, Started,
            Closed
<1> QED
  BY <1>1, <1>2, <1>3, <1>4, <1>5, <1>6, <1>7, <1>8, <1>9, <1>10, <1>11,
     <1>12, <1>13, <1>14, <1>15, <1>16, <1>17, <1>18, <1>19, <1>20, <1>21,
     <1>22, <1>23, <1>24, <1>25, <1>26, <1>27, <1>28, <1>29, <1>30, <1>31,
     <1>32, <1>33, <1>34, <1>35, <1>36, <1>37, <1>38, <1>39
  DEF Next, Pipeline, Execute, Startup, Environment

-----------------------------------------------------------------------------
(* The invariant                                                           *)

\* It holds initially: nothing was submitted and nothing moved.
LEMMA InitInv ==
    ASSUME Init
    PROVE  IInv
<1>1. TypeOK
  <2>1. balance \in [Accounts -> Int] /\ job \in Jobs /\ journal \in [Runs -> SUBSET EventTypes]
    BY CreditsAssumption DEF Init, NoJob, JobAt, Jobs
  <2> QED
    BY <2>1, BoundsAssumption DEF Init, TypeOK, Kinds
<1>2. NoOverdraft
  BY CreditsAssumption DEF Init, NoOverdraft
<1>3. LockInv /\ StageInv /\ EvidenceInv /\ OpenRunsAccounted
  BY NamesAssumption
     DEF Init, NoJob, JobAt, LockInv, StageInv, EvidenceInv, OpenRunsAccounted, HasWinner,
         Unpaid, OnHealth, OnPromotion, OnTests, OnApproval, BeforeLock, BeforeCall,
         Interrupted, Started, Has
<1>4. \A r \in Runs : RunInv(r)
  BY CreditTypes
     DEF Init, RunInv, History, EscrowOf, EvidenceOf, EarnedOf, RunEscrow, Has, Created,
         Started, Closed, Kinds
<1> QED
  BY <1>1, <1>2, <1>3, <1>4 DEF IInv

\* Every step keeps it.
LEMMA InvStep ==
    ASSUME IInv, [Next]_vars
    PROVE  IInv'
<1>1. \A r \in Runs : RunEscrow(r) \in Nat
  BY CreditTypes DEF IInv, RunInv, EscrowOf
<1>2. TypeOK' /\ NoOverdraft'
  BY <1>1, TypeStep DEF IInv
<1>3. LockInv' /\ StageInv' /\ EvidenceInv' /\ OpenRunsAccounted'
  BY <1>2, LockStep, StageStep, EvidenceStep, OpenStep
<1>4. (\A r \in Runs : RunInv(r))'
  BY <1>2, RunsStep
<1> QED
  BY <1>2, <1>3, <1>4 DEF IInv

\* The invariant holds of every reachable state of the delivery loop.
THEOREM Invariance == Spec => []IInv
<1>1. Init => IInv
  BY InitInv
<1>2. IInv /\ [Next]_vars => IInv'
  BY InvStep
<1> QED
  BY <1>1, <1>2, PTL DEF Spec

-----------------------------------------------------------------------------
(* What follows from it                                                    *)

\* Every value keeps its type.
THEOREM TypeCorrect == Spec => []TypeOK
<1>1. IInv => TypeOK
  BY DEF IInv
<1> QED
  BY <1>1, Invariance, PTL

\* No account of the ledger is ever overdrawn, so the reducer that raises on an
\* overdraft never does.
THEOREM AccountsStaySolvent == Spec => []NoOverdraft
<1>1. IInv => NoOverdraft
  BY DEF IInv
<1> QED
  BY <1>1, Invariance, PTL

\* Every run locks its bounty at most once, never releases more than it locked,
\* and has nothing left in escrow once it is closed.
THEOREM EscrowIsSettled == Spec => []EscrowSettled
<1>1. IInv => EscrowSettled
  BY DEF IInv, RunInv, EscrowOf, EscrowSettled
<1> QED
  BY <1>1, Invariance, PTL

\* However often a run is delivered, interrupted and reconciled, the coding
\* runtime is invoked for it at most once.
THEOREM RuntimeRunsOnce == Spec => []GeneratedOnce
<1>1. IInv => GeneratedOnce
  BY DEF IInv, RunInv, GeneratedOnce
<1> QED
  BY <1>1, Invariance, PTL

\* Escrow is paid out on release evidence only, never by a penalised run.
THEOREM PaymentNeedsEvidence == Spec => []PaidOnEvidence
<1>1. IInv => PaidOnEvidence
  BY DEF IInv, RunInv, EvidenceOf, PaidOnEvidence
<1> QED
  BY <1>1, Invariance, PTL

\* A run that completed had its evidence and settled its whole bounty.
THEOREM CompletionIsEarned == Spec => []CompletedIsEarned
<1>1. IInv => CompletedIsEarned
  BY DEF IInv, RunInv, EarnedOf, CompletedIsEarned
<1> QED
  BY <1>1, Invariance, PTL

\* While the process serves, every open run is being delivered, or its
\* delivery raised in this very process.
THEOREM NoOpenRunForgotten == Spec => []OpenRunsAccounted
<1>1. IInv => OpenRunsAccounted
  BY DEF IInv
<1> QED
  BY <1>1, Invariance, PTL

\* No step of the delivery loop touches a closed run.
LEMMA ClosedStep ==
    ASSUME IInv, [Next]_vars, NEW q \in Runs, Closed(q)
    PROVE  /\ journal'[q] = journal[q] /\ moved'[q] = moved[q]
           /\ version'[q] = version[q] /\ generated'[q] = generated[q]
<1> DEFINE Untouched_q == /\ journal'[q] = journal[q] /\ moved'[q] = moved[q]
                          /\ version'[q] = version[q] /\ generated'[q] = generated[q]
<1> SUFFICES Untouched_q
  OBVIOUS
<1>open. job.step # "idle" => job.run # q
  BY DEF IInv, LockInv, Interrupted
<1>history. Started(q) /\ Created(q)
  BY DEF IInv, RunInv, History
<1> USE DEF Untouched, NoPosting, NoEvent, Emit, At, journalVars, Post, IInv, TypeOK, Kinds
<1>1. CASE Fund
  BY <1>1, <1>open DEF Fund
<1>2. CASE Plan
  BY <1>2, <1>open DEF Plan
<1>3. CASE Auction
  BY <1>3, <1>open DEF Auction
<1>4. CASE AuctionFails
  BY <1>4, <1>open DEF AuctionFails
<1>5. ASSUME NEW e \in Engineers, SubmitBid(e)
     PROVE  Untouched_q
  BY <1>5, <1>open DEF SubmitBid
<1>6. CASE LockBounty
  BY <1>6, <1>open DEF LockBounty
<1>7. CASE Award
  BY <1>7, <1>open DEF Award
<1>8. CASE Generate
  BY <1>8, <1>open DEF Generate
<1>9. CASE Capture
  BY <1>9, <1>open DEF Capture
<1>10. CASE ReviewApproves
  BY <1>10, <1>open DEF ReviewApproves
<1>11. CASE ReviewBlocks
  BY <1>11, <1>open DEF ReviewBlocks
<1>12. CASE TestsPass
  BY <1>12, <1>open DEF TestsPass
<1>13. CASE TestsUnverified
  BY <1>13, <1>open DEF TestsUnverified
<1>14. CASE StartDeployment
  BY <1>14, <1>open DEF StartDeployment
<1>15. CASE Promote
  BY <1>15, <1>open DEF Promote
<1>16. CASE Monitor
  BY <1>16, <1>open DEF Monitor
<1>17. CASE Pay
  BY <1>17, <1>open DEF Pay
<1>18. CASE ReturnRemainder
  BY <1>18, <1>open DEF ReturnRemainder
<1>19. CASE WriteChangelog
  BY <1>19, <1>open DEF WriteChangelog
<1>20. CASE Complete
  BY <1>20, <1>open DEF Complete
<1>21. CASE Penalise
  BY <1>21, <1>open DEF Penalise
<1>22. CASE FailRefund
  BY <1>22, <1>open DEF FailRefund, RefundEscrow
<1>23. CASE FailClose
  BY <1>23, <1>open DEF FailClose, CloseAsFailed
<1>24. CASE ReconcileRefund
  BY <1>24, <1>open DEF ReconcileRefund, RefundEscrow
<1>25. CASE ReconcileClose
  BY <1>25, <1>open DEF ReconcileClose, CloseAsFailed
<1>26. CASE PipelineRaises
  BY <1>26, <1>open DEF PipelineRaises
<1>27. CASE Crash
  BY <1>27, <1>open DEF Crash
<1>28. CASE Restart
  BY <1>28, <1>open DEF Restart
<1>29. CASE FinishRecovery
  BY <1>29, <1>open DEF FinishRecovery
<1>30. CASE Idle
  BY <1>30, <1>open DEF Idle, vars
<1>31. ASSUME NEW r \in Runs, CreateObjective(r)
     PROVE  Untouched_q
  BY <1>31, <1>history DEF CreateObjective, Has, Created, Started
<1>32. ASSUME NEW r \in Runs, CreateObjectiveRaises(r)
     PROVE  Untouched_q
  BY <1>32, <1>history DEF CreateObjectiveRaises, Has, Created, Started
<1>33. ASSUME NEW r \in Runs, Redeliver(r)
     PROVE  Untouched_q
  BY <1>33, <1>history DEF Redeliver, Has, Created, Started
<1>34. ASSUME NEW r \in Runs, ExecuteFresh(r)
     PROVE  Untouched_q
  BY <1>34, <1>history DEF ExecuteFresh, TakesLock, Has, Created, Started
<1>35. ASSUME NEW r \in Runs, ExecuteInterrupted(r)
     PROVE  Untouched_q
  BY <1>35, <1>history DEF ExecuteInterrupted, TakesLock, Has, Created, Started
<1>36. ASSUME NEW r \in Runs, ExecuteClosed(r)
     PROVE  Untouched_q
  BY <1>36, <1>history DEF ExecuteClosed, TakesLock, Has, Created, Started
<1>37. ASSUME NEW r \in Runs, ExecuteRaises(r)
     PROVE  Untouched_q
  BY <1>37, <1>history DEF ExecuteRaises, Has, Created, Started
<1>38. ASSUME NEW r \in Runs, ReconcileNext(r)
     PROVE  Untouched_q
  BY <1>38, <1>history DEF ReconcileNext, Has, Created, Started
<1>39. CASE UNCHANGED vars
  BY <1>39 DEF vars
<1> HIDE DEF Untouched_q, Untouched, NoPosting, NoEvent, Emit, At, journalVars, Post, IInv,
             TypeOK, Kinds
<1> QED
  BY <1>1, <1>2, <1>3, <1>4, <1>5, <1>6, <1>7, <1>8, <1>9, <1>10, <1>11,
     <1>12, <1>13, <1>14, <1>15, <1>16, <1>17, <1>18, <1>19, <1>20, <1>21,
     <1>22, <1>23, <1>24, <1>25, <1>26, <1>27, <1>28, <1>29, <1>30, <1>31,
     <1>32, <1>33, <1>34, <1>35, <1>36, <1>37, <1>38, <1>39
  DEF Next, Pipeline, Execute, Startup, Environment

\* A closed run is never appended to, posted for, promoted or generated again.
THEOREM ClosedStaysClosed == Spec => ClosedRunsStayClosed
<1>1. IInv /\ [Next]_vars =>
        [\A r \in Runs : Closed(r) =>
            /\ journal'[r] = journal[r] /\ moved'[r] = moved[r]
            /\ version'[r] = version[r] /\ generated'[r] = generated[r]]_vars
  BY ClosedStep
<1> QED
  BY <1>1, Invariance, PTL DEF Spec, ClosedRunsStayClosed

-----------------------------------------------------------------------------
(* Release numbers                                                         *)

\* Promoting a run that has no version yet, under the number it has read.
LEMMA PromotedStep ==
    ASSUME IInv, VersionInv, TypeOK', NEW p \in Runs, version[p] = 0,
           version' = [version EXCEPT ![p] = NextVersion]
    PROVE  /\ NextVersion' = NextVersion + 1
           /\ \A r \in Runs : version'[r] < NextVersion'
           /\ ReleasesDistinct'
<1>1. /\ IsFiniteSet(Promoted)
      /\ NextVersion = 1 + Cardinality(Promoted) /\ Cardinality(Promoted) \in Nat
  BY PromotedFinite DEF IInv
<1>2. NextVersion' = 1 + Cardinality(Promoted')
  BY PromotedFinite DEF NextVersion, Promoted
<1>n. NextVersion \in Nat /\ NextVersion > 0
  BY <1>1
<1>v. /\ version \in [Runs -> Nat]
      /\ \A r \in Runs : version'[r] = IF r = p THEN NextVersion ELSE version[r]
      /\ \A r \in Runs : version[r] < NextVersion
  BY DEF VersionInv, IInv, TypeOK
<1>3. Promoted' = Promoted \union {NextVersion}
  <2>1. \A n : n \in Promoted <=> \E r \in Runs : version[r] > 0 /\ n = version[r]
    BY DEF Promoted
  <2>2. \A n : n \in Promoted' <=> \E r \in Runs : version'[r] > 0 /\ n = version'[r]
    BY DEF Promoted
  <2>3. \A n : n \in Promoted' <=> n \in Promoted \/ n = NextVersion
    <3> HIDE DEF Promoted
    <3> QED
      BY <1>n, <1>v, <2>1, <2>2
  <2> QED
    BY <2>3
<1>4. NextVersion \notin Promoted
  BY <1>n, <1>v DEF Promoted
<1>5. Cardinality(Promoted') = Cardinality(Promoted) + 1
  BY <1>1, <1>3, <1>4, FS_AddElement
<1>6. NextVersion' = NextVersion + 1
  BY <1>1, <1>2, <1>5
<1>7. \A r \in Runs : version'[r] < NextVersion'
  BY <1>n, <1>v, <1>6
<1>8. ReleasesDistinct'
  BY <1>n, <1>v DEF ReleasesDistinct, VersionInv
<1> QED
  BY <1>6, <1>7, <1>8

\* A step that promotes nothing leaves the numbers alone.
LEMMA NumbersKept ==
    ASSUME VersionInv, UNCHANGED version
    PROVE  /\ NextVersion' = NextVersion
           /\ \A r \in Runs : version'[r] < NextVersion'
           /\ ReleasesDistinct'
BY DEF VersionInv, NextVersion, ReleasesDistinct

\* The numbers stay distinct, and the one that was read stays the next one.
LEMMA VersionStep ==
    ASSUME IInv, VersionInv, TypeOK', [Next]_vars
    PROVE  VersionInv'
<1> USE NumbersKept DEF IInv, TypeOK, LockInv, VersionInv, History, RunInv, Untouched,
            NoPosting, NoEvent, Emit, Goto, At, journalVars, JobAt, NoJob, Has, Started,
            Closed, Interrupted, BeforePromotion, BeforeCall, BeforeLock
<1>1. CASE Fund
  BY <1>1 DEF Fund
<1>2. CASE Plan
  BY <1>2 DEF Plan
<1>3. CASE Auction
  BY <1>3 DEF Auction
<1>4. CASE AuctionFails
  BY <1>4 DEF AuctionFails
<1>5. ASSUME NEW e \in Engineers, SubmitBid(e)
     PROVE  VersionInv'
  BY <1>5 DEF SubmitBid
<1>6. CASE LockBounty
  BY <1>6 DEF LockBounty
<1>7. CASE Award
  BY <1>7 DEF Award
<1>8. CASE Generate
  <2>1. job'.step \in {"capture", "settle"} /\ job'.run = job.run
    BY <1>8 DEF Generate, Jobs
  <2>2. journal' = journal /\ version' = version /\ At("generate")
    BY <1>8 DEF Generate
  <2> QED
    BY <2>1, <2>2
<1>9. CASE Capture
  BY <1>9 DEF Capture
<1>10. CASE ReviewApproves
  BY <1>10 DEF ReviewApproves
<1>11. CASE ReviewBlocks
  BY <1>11 DEF ReviewBlocks
<1>12. CASE TestsPass
  BY <1>12 DEF TestsPass
<1>13. CASE TestsUnverified
  BY <1>13 DEF TestsUnverified
<1>14. CASE StartDeployment
  BY <1>14 DEF StartDeployment
<1>15. CASE Promote
  <2>1. version[job.run] = 0 /\ version' = [version EXCEPT ![job.run] = NextVersion]
    BY <1>15 DEF Promote
  <2>2. \A r \in Runs : version'[r] < NextVersion'
    BY <1>15, <2>1, PromotedStep DEF Promote
  <2>3. ReleasesDistinct'
    BY <1>15, <2>1, PromotedStep DEF Promote
  <2> QED
    BY <1>15, <2>1, <2>2, <2>3 DEF Promote
<1>16. CASE Monitor
  BY <1>16 DEF Monitor
<1>17. CASE Pay
  BY <1>17 DEF Pay
<1>18. CASE ReturnRemainder
  BY <1>18 DEF ReturnRemainder
<1>19. CASE WriteChangelog
  BY <1>19 DEF WriteChangelog
<1>20. CASE Complete
  BY <1>20 DEF Complete
<1>21. CASE Penalise
  BY <1>21 DEF Penalise
<1>22. CASE FailRefund
  BY <1>22 DEF FailRefund, RefundEscrow
<1>23. CASE FailClose
  BY <1>23 DEF FailClose, CloseAsFailed
<1>24. CASE ReconcileRefund
  BY <1>24 DEF ReconcileRefund, RefundEscrow
<1>25. CASE ReconcileClose
  BY <1>25 DEF ReconcileClose, CloseAsFailed
<1>26. CASE PipelineRaises
  BY <1>26 DEF PipelineRaises
<1>27. CASE Crash
  BY <1>27 DEF Crash
<1>28. CASE Restart
  BY <1>28 DEF Restart
<1>29. CASE FinishRecovery
  BY <1>29 DEF FinishRecovery
<1>30. CASE Idle
  BY <1>30 DEF Idle, vars
<1>31. ASSUME NEW r \in Runs, CreateObjective(r)
     PROVE  VersionInv'
  BY <1>31 DEF CreateObjective
<1>32. ASSUME NEW r \in Runs, CreateObjectiveRaises(r)
     PROVE  VersionInv'
  BY <1>32 DEF CreateObjectiveRaises
<1>33. ASSUME NEW r \in Runs, Redeliver(r)
     PROVE  VersionInv'
  BY <1>33 DEF Redeliver
<1>34. ASSUME NEW r \in Runs, ExecuteFresh(r)
     PROVE  VersionInv'
  BY <1>34 DEF ExecuteFresh, TakesLock
<1>35. ASSUME NEW r \in Runs, ExecuteInterrupted(r)
     PROVE  VersionInv'
  BY <1>35 DEF ExecuteInterrupted, TakesLock
<1>36. ASSUME NEW r \in Runs, ExecuteClosed(r)
     PROVE  VersionInv'
  BY <1>36 DEF ExecuteClosed, TakesLock
<1>37. ASSUME NEW r \in Runs, ExecuteRaises(r)
     PROVE  VersionInv'
  BY <1>37 DEF ExecuteRaises
<1>38. ASSUME NEW r \in Runs, ReconcileNext(r)
     PROVE  VersionInv'
  BY <1>38 DEF ReconcileNext
<1>39. CASE UNCHANGED vars
  BY <1>39 DEF vars
<1> HIDE NumbersKept DEF IInv, TypeOK, LockInv, VersionInv, History, RunInv, Untouched,
            NoPosting, NoEvent, Emit, Goto, At, journalVars, JobAt, NoJob, Has, Started,
            Closed, Interrupted, BeforePromotion, BeforeCall, BeforeLock
<1> QED
  BY <1>1, <1>2, <1>3, <1>4, <1>5, <1>6, <1>7, <1>8, <1>9, <1>10, <1>11,
     <1>12, <1>13, <1>14, <1>15, <1>16, <1>17, <1>18, <1>19, <1>20, <1>21,
     <1>22, <1>23, <1>24, <1>25, <1>26, <1>27, <1>28, <1>29, <1>30, <1>31,
     <1>32, <1>33, <1>34, <1>35, <1>36, <1>37, <1>38, <1>39
  DEF Next, Pipeline, Execute, Startup, Environment

\* No two runs are promoted under the same number: it is read one event before
\* it is recorded, and nothing is promoted in between (_execute_pipeline, version_number).
THEOREM VersionsDistinct == Spec => []ReleasesDistinct
<1>1. Init => VersionInv
  <2> SUFFICES ASSUME Init PROVE VersionInv
    OBVIOUS
  <2>1. TypeOK
    BY InitInv DEF IInv
  <2>2. NextVersion \in Nat \ {0}
    BY <2>1, PromotedFinite
  <2> QED
    BY <2>2 DEF Init, VersionInv, ReleasesDistinct, NoJob, JobAt, BeforePromotion,
                BeforeCall, BeforeLock
<1>2. IInv /\ IInv' /\ VersionInv /\ [Next]_vars => VersionInv'
  BY VersionStep DEF IInv
<1>3. VersionInv => ReleasesDistinct
  BY DEF VersionInv
<1> QED
  BY <1>1, <1>2, <1>3, Invariance, PTL DEF Spec

-----------------------------------------------------------------------------
(* The sums                                                                *)

LEMMA AccountsFinite == IsFiniteSet(Accounts)
<1> DEFINE With(S, a) == S \union {a}
           Fixed == With(With(With(With(With(With(With({}, "atlas"), "aegis"), "sentinel"),
                         "shipwright"), "chronicle"), "treasury"), "escrow")
<1>1. \A S, a : IsFiniteSet(S) => IsFiniteSet(With(S, a))
  BY FS_AddElement
<1>2. Accounts = Engineers \union Fixed
  BY DEF Accounts, Agents, Staff
<1>3. IsFiniteSet(Fixed)
  <2> HIDE DEF With
  <2> QED
    BY <1>1, FS_EmptySet
<1> HIDE DEF Fixed
<1> QED
  BY <1>2, <1>3, BoundsAssumption, FS_Union

\* A step that moves the escrow of one run by as much as the escrow account.
LEMMA EscrowMoves ==
    ASSUME TypeOK, TypeOK', EscrowBacked, NEW r \in Runs, NEW delta \in Int,
           \A q \in Runs : RunEscrow(q)' = IF q = r THEN RunEscrow(q) + delta
                                           ELSE RunEscrow(q),
           balance'["escrow"] = balance["escrow"] + delta
    PROVE  EscrowBacked'
<1> DEFINE held == [q \in Runs |-> RunEscrow(q)]
<1>1. held \in [Runs -> Int] /\ held[r] + delta \in Int /\ held[r] \in Int
  BY DEF TypeOK, RunEscrow, Kinds
<1>2. held' = [held EXCEPT ![r] = held[r] + delta]
  OBVIOUS
<1>3. balance["escrow"] = SumFunction(held)
  BY DEF EscrowBacked
<1> HIDE DEF held
<1>4. /\ SumFunction(held) \in Int
      /\ SumFunction([held EXCEPT ![r] = held[r] + delta])
            = SumFunction(held) - held[r] + (held[r] + delta)
  BY <1>1, BoundsAssumption, SumUpdate
<1>5. balance'["escrow"] = SumFunction(held')
  BY <1>1, <1>2, <1>3, <1>4
<1> QED
  BY <1>5 DEF EscrowBacked, held

\* A step that moves neither.
LEMMA EscrowRests ==
    ASSUME EscrowBacked, \A q \in Runs : RunEscrow(q)' = RunEscrow(q),
           balance'["escrow"] = balance["escrow"]
    PROVE  EscrowBacked'
BY DEF EscrowBacked

\* A posting of a run keeps the sum, and both sides of the escrow together.
LEMMA PostSums ==
    ASSUME TypeOK, TypeOK', SumsInv, NEW r \in Runs,
           NEW kind \in {"escrow", "payout", "refund"},
           NEW from \in Accounts, NEW to \in Accounts, NEW amount \in Nat,
           IF kind = "escrow" THEN to = "escrow" /\ from # "escrow"
           ELSE from = "escrow" /\ to # "escrow",
           Post(r, kind, from, to, amount), UNCHANGED issued
    PROVE  SumsInv'
<1>1. balance' = Transfer(balance, from, to, amount)
  BY DEF Post
<1>sheet. balance \in [Accounts -> Int] /\ from # to /\ amount \in Int
  BY DEF TypeOK
<1>2. SumFunction(balance') = SumFunction(balance)
  BY <1>1, <1>sheet, AccountsFinite, TransferSum
<1>3. Conserved(balance, SumFunction(Genesis) + issued)'
  BY <1>2 DEF SumsInv, Conserved
<1> DEFINE delta == IF kind = "escrow" THEN amount ELSE 0 - amount
<1>4. balance'["escrow"] = balance["escrow"] + delta
  BY <1>1, <1>sheet, TransferValues
<1>5. moved' = [moved EXCEPT ![r][kind] = @ + amount]
  BY DEF Post
<1>6. \A q \in Runs : RunEscrow(q)' = IF q = r THEN RunEscrow(q) + delta
                                      ELSE RunEscrow(q)
  BY <1>5 DEF RunEscrow, TypeOK, Kinds
<1>7. delta \in Int
  OBVIOUS
<1> HIDE DEF delta
<1>8. EscrowBacked'
  BY <1>4, <1>6, <1>7, EscrowMoves DEF SumsInv
<1> QED
  BY <1>3, <1>8 DEF SumsInv

\* A step that touches neither the sheet nor the runs' totals.
LEMMA SumsRest ==
    ASSUME SumsInv, UNCHANGED <<balance, issued, moved>>
    PROVE  SumsInv'
BY DEF SumsInv, Conserved, EscrowBacked, RunEscrow

LEMMA RefundSums ==
    ASSUME IInv, TypeOK', SumsInv, job.step # "idle", RefundEscrow(job.run)
    PROVE  SumsInv'
<1>1. job.run \in Runs /\ RunEscrow(job.run) \in Nat
  BY DEF RefundEscrow, IInv, LockInv, RunInv, EscrowOf
<1>2. "escrow" \in Accounts /\ "atlas" \in Accounts
  BY CreditTypes
<1> QED
  BY <1>1, <1>2, PostSums DEF RefundEscrow, IInv

LEMMA SumsStep ==
    ASSUME IInv, TypeOK', SumsInv, [Next]_vars
    PROVE  SumsInv'
<1> USE DEF Untouched, NoPosting, NoEvent, At, journalVars
<1>types. TypeOK /\ LockInv
  BY DEF IInv
<1>1. CASE Fund
  <2>1. balance' = Issue(balance, "atlas", Bounty) /\ issued' = issued + Bounty
    BY <1>1 DEF Fund
  <2>2. "atlas" \in Accounts /\ Bounty \in Int
    BY CreditTypes
  <2>3. SumFunction(balance') = SumFunction(balance) + Bounty
    BY <1>types, <2>1, <2>2, AccountsFinite, IssueSum DEF TypeOK
  <2>4. SumFunction(Genesis) \in Int
    BY AccountsFinite, <2>2, CreditsAssumption, SumUpdate
  <2>5. Conserved(balance, SumFunction(Genesis) + issued)'
    BY <1>types, <2>1, <2>2, <2>3, <2>4 DEF SumsInv, Conserved, TypeOK
  <2>6. balance'["escrow"] = balance["escrow"]
    BY <1>types, <2>1 DEF Issue, TypeOK
  <2>7. EscrowBacked'
    BY <1>1, <2>6, EscrowRests DEF Fund, SumsInv, RunEscrow
  <2> QED
    BY <2>5, <2>7 DEF SumsInv
<1>debit. ASSUME NEW e \in Engineers, NEW amount \in Nat, NEW partial \in BOOLEAN,
                 balance' = CappedDebit(balance, e, "treasury", amount, partial),
                 \A q \in Runs : RunEscrow(q)' = RunEscrow(q), UNCHANGED issued
          PROVE  SumsInv'
  <2>1. /\ e \in Accounts /\ "treasury" \in Accounts /\ e # "treasury"
        /\ e # "escrow" /\ "escrow" \in Accounts
    BY CreditTypes
  <2>2. PICK charged \in Int : charged = Charge(balance, e, amount, partial)
    BY <1>types, <2>1 DEF Charge, TypeOK
  <2>3. balance' = Transfer(balance, e, "treasury", charged)
    BY <1>debit, <2>2 DEF CappedDebit
  <2>4. SumFunction(balance') = SumFunction(balance)
    BY <1>types, <2>1, <2>2, <2>3, AccountsFinite, TransferSum DEF TypeOK
  <2>sheet. balance \in [Accounts -> Int] /\ "escrow" \in Accounts \ {e, "treasury"}
    BY <1>types, <2>1 DEF TypeOK
  <2>5. balance'["escrow"] = balance["escrow"]
    BY <2>1, <2>3, <2>sheet DEF Transfer
  <2>6. EscrowBacked'
    BY <1>debit, <2>5, EscrowRests DEF SumsInv
  <2> QED
    BY <1>debit, <2>4, <2>6 DEF SumsInv, Conserved
<1>2. CASE Plan
  BY <1>2, SumsRest DEF Plan
<1>3. CASE Auction
  BY <1>3, SumsRest DEF Auction
<1>4. CASE AuctionFails
  BY <1>4, SumsRest DEF AuctionFails
<1>5. ASSUME NEW e \in Engineers, SubmitBid(e)
     PROVE  SumsInv'
  <2>1. BidFee \in Nat
    BY CreditTypes
  <2> QED
    BY <1>5, <2>1, <1>debit DEF SubmitBid, RunEscrow
<1>6. CASE LockBounty
  <2>1. job.run \in Runs /\ "escrow" \in Accounts /\ "atlas" \in Accounts /\ Bounty \in Nat
    BY <1>6, <1>types, CreditTypes DEF LockBounty, LockInv
  <2> QED
    BY <1>6, <1>types, <2>1, PostSums DEF LockBounty
<1>7. CASE Award
  BY <1>7, SumsRest DEF Award
<1>8. CASE Generate
  BY <1>8, SumsRest DEF Generate
<1>9. CASE Capture
  BY <1>9, SumsRest DEF Capture
<1>10. CASE ReviewApproves
  BY <1>10, SumsRest DEF ReviewApproves
<1>11. CASE ReviewBlocks
  BY <1>11, SumsRest DEF ReviewBlocks
<1>12. CASE TestsPass
  BY <1>12, SumsRest DEF TestsPass
<1>13. CASE TestsUnverified
  BY <1>13, SumsRest DEF TestsUnverified
<1>14. CASE StartDeployment
  BY <1>14, SumsRest DEF StartDeployment
<1>15. CASE Promote
  BY <1>15, SumsRest DEF Promote
<1>16. CASE Monitor
  BY <1>16, SumsRest DEF Monitor
<1>17. CASE Pay
  <2>1. /\ job.run \in Runs /\ job.due \in 1..5 /\ job.price \in Bids
        /\ job.winner \in Engineers
    BY <1>17, <1>types DEF Pay, TypeOK, Jobs, LockInv, HasWinner, OnHealth, OnPromotion,
                           OnTests, OnApproval
  <2>2. Payee(job) \in Accounts /\ Payee(job) # "escrow" /\ "escrow" \in Accounts
    BY <2>1, CreditTypes DEF Payee
  <2>3. Share(job) \in Nat
    <3>1. /\ job.price \in Nat /\ ReviewFee \in Nat /\ VerifyFee \in Nat
          /\ PromoteFee \in Nat /\ AccountFee \in Nat
      BY <2>1, CreditsAssumption
    <3> QED
      BY <2>1, <3>1 DEF Share
  <2> QED
    BY <1>17, <1>types, <2>1, <2>2, <2>3, PostSums DEF Pay
<1>18. CASE ReturnRemainder
  <2>1. CASE Remainder(job) = 0
    BY <1>18, <2>1, SumsRest DEF ReturnRemainder
  <2>2. CASE Remainder(job) # 0
    <3>1. job.run \in Runs /\ job.price \in Bids
      BY <1>18, <1>types DEF ReturnRemainder, LockInv, HasWinner, OnHealth, OnPromotion,
                             OnTests, OnApproval
    <3>2. Remainder(job) \in Nat /\ "escrow" \in Accounts /\ "atlas" \in Accounts
      BY <3>1, CreditTypes DEF Remainder
    <3> QED
      BY <1>18, <1>types, <2>2, <3>1, <3>2, PostSums DEF ReturnRemainder
  <2> QED
    BY <2>1, <2>2
<1>19. CASE WriteChangelog
  BY <1>19, SumsRest DEF WriteChangelog
<1>20. CASE Complete
  BY <1>20, SumsRest DEF Complete
<1>21. CASE Penalise
  <2>1. job.winner \in Engineers /\ Penalty \in Nat
    BY <1>21, <1>types, CreditTypes DEF Penalise, LockInv, HasWinner, Unpaid
  <2>2. \A q \in Runs : RunEscrow(q)' = RunEscrow(q)
    BY <1>21, <1>types DEF Penalise, RunEscrow, TypeOK, Kinds
  <2> QED
    BY <1>21, <2>1, <2>2, <1>debit DEF Penalise
<1>22. CASE FailRefund
  BY <1>22, RefundSums DEF FailRefund
<1>23. CASE FailClose
  BY <1>23, SumsRest DEF FailClose, CloseAsFailed
<1>24. CASE ReconcileRefund
  BY <1>24, RefundSums DEF ReconcileRefund
<1>25. CASE ReconcileClose
  BY <1>25, SumsRest DEF ReconcileClose, CloseAsFailed
<1>26. CASE PipelineRaises
  BY <1>26, SumsRest DEF PipelineRaises
<1>27. CASE Crash
  BY <1>27, SumsRest DEF Crash
<1>28. CASE Restart
  BY <1>28, SumsRest DEF Restart
<1>29. CASE FinishRecovery
  BY <1>29, SumsRest DEF FinishRecovery
<1>30. CASE Idle
  BY <1>30, SumsRest DEF Idle, vars
<1>31. ASSUME NEW r \in Runs, CreateObjective(r)
     PROVE  SumsInv'
  BY <1>31, SumsRest DEF CreateObjective
<1>32. ASSUME NEW r \in Runs, CreateObjectiveRaises(r)
     PROVE  SumsInv'
  BY <1>32, SumsRest DEF CreateObjectiveRaises
<1>33. ASSUME NEW r \in Runs, Redeliver(r)
     PROVE  SumsInv'
  BY <1>33, SumsRest DEF Redeliver
<1>34. ASSUME NEW r \in Runs, ExecuteFresh(r)
     PROVE  SumsInv'
  BY <1>34, SumsRest DEF ExecuteFresh, TakesLock
<1>35. ASSUME NEW r \in Runs, ExecuteInterrupted(r)
     PROVE  SumsInv'
  BY <1>35, SumsRest DEF ExecuteInterrupted, TakesLock
<1>36. ASSUME NEW r \in Runs, ExecuteClosed(r)
     PROVE  SumsInv'
  BY <1>36, SumsRest DEF ExecuteClosed, TakesLock
<1>37. ASSUME NEW r \in Runs, ExecuteRaises(r)
     PROVE  SumsInv'
  BY <1>37, SumsRest DEF ExecuteRaises
<1>38. ASSUME NEW r \in Runs, ReconcileNext(r)
     PROVE  SumsInv'
  BY <1>38, SumsRest DEF ReconcileNext
<1>39. CASE UNCHANGED vars
  BY <1>39, SumsRest DEF vars
<1> HIDE DEF Untouched, NoPosting, NoEvent, At, journalVars
<1> QED
  BY <1>1, <1>2, <1>3, <1>4, <1>5, <1>6, <1>7, <1>8, <1>9, <1>10, <1>11,
     <1>12, <1>13, <1>14, <1>15, <1>16, <1>17, <1>18, <1>19, <1>20, <1>21,
     <1>22, <1>23, <1>24, <1>25, <1>26, <1>27, <1>28, <1>29, <1>30, <1>31,
     <1>32, <1>33, <1>34, <1>35, <1>36, <1>37, <1>38, <1>39
  DEF Next, Pipeline, Execute, Startup, Environment

THEOREM SumsInvariance == Spec => []SumsInv
<1>1. Init => SumsInv
  <2> SUFFICES ASSUME Init PROVE SumsInv
    OBVIOUS
  <2>1. Genesis \in [Accounts -> Int] /\ "escrow" \in Accounts
    BY CreditsAssumption, CreditTypes
  <2>2. SumFunction(Genesis) \in Int
    BY <2>1, AccountsFinite, SumUpdate
  <2>3. [r \in Runs |-> RunEscrow(r)] = [r \in Runs |-> 0]
    BY DEF Init, RunEscrow, Kinds
  <2>4. SumFunction([r \in Runs |-> RunEscrow(r)]) = 0
    BY <2>3, BoundsAssumption, SumOfZeros
  <2> QED
    BY <2>2, <2>4, CreditsAssumption DEF Init, SumsInv, Conserved, EscrowBacked
<1>2. IInv /\ IInv' /\ SumsInv /\ [Next]_vars => SumsInv'
  BY SumsStep DEF IInv
<1> QED
  BY <1>1, <1>2, Invariance, PTL DEF Spec

\* However deliveries are cut short, the balances add up to what was issued and
\* none of them is negative (ledger, _ledger_event).
THEOREM LedgerStaysSound == Spec => []LedgerSound
<1>1. IInv /\ SumsInv => LedgerSound
  BY DEF IInv, SumsInv, LedgerSound
<1> QED
  BY <1>1, Invariance, SumsInvariance, PTL

\* The shared escrow account always holds what the runs' own escrows add up to.
THEOREM EscrowStaysBacked == Spec => []EscrowBacked
<1>1. SumsInv => EscrowBacked
  BY DEF SumsInv
<1> QED
  BY <1>1, SumsInvariance, PTL
=============================================================================

---------------------------- MODULE DeliveryInv ----------------------------
(***************************************************************************)
(* Why the delivery loop is correct: the inductive invariant from which    *)
(* the properties of module Delivery follow.  It says, for every step at   *)
(* which a delivery can be interrupted, what the run has moved and what    *)
(* the journal says of it by then.                                         *)
(***************************************************************************)
EXTENDS Delivery

\* The steps of the pipeline, by what the run has done when they are due.
BeforeLock  == {"fund", "plan", "auction", "bid"}
BeforeCall  == BeforeLock \union {"award", "generate"}
OnApproval  == {"verify", "deploy", "promote", "monitor", "pay", "return", "write", "complete"}
OnTests     == OnApproval \ {"verify"}
OnPromotion == OnTests \ {"deploy", "promote"}
OnHealth    == OnPromotion \ {"monitor"}
Unpaid      == {"award", "generate", "capture", "review", "verify", "deploy",
                "promote", "monitor", "penalise"}
HasWinner   == {"bid"} \union Unpaid \union OnHealth

\* What the payouts made so far add up to.
PaidBefore(j) ==
    CASE j.due = 1 -> 0
      [] j.due = 2 -> j.price
      [] j.due = 3 -> j.price + ReviewFee
      [] j.due = 4 -> j.price + ReviewFee + VerifyFee
      [] j.due = 5 -> j.price + ReviewFee + VerifyFee + PromoteFee

\* Who may hold the run lock, and on what kind of run.
LockInv ==
    /\ IF job.step = "idle" THEN job.run = NoRun
       ELSE job.run \in Runs /\ Interrupted(job.run)
    /\ proc = "down" => job.step = "idle" /\ tasks = {} /\ stranded = {}
    /\ proc = "recovering" =>
            job.step \in {"idle", "reconcile"} /\ tasks = {} /\ stranded = {}
    /\ job.step \in HasWinner => job.winner \in Engineers /\ job.price \in Bids

\* What the run being delivered has moved when a step is due.
StageInv ==
    LET m == moved[job.run] IN
    /\ job.step \in BeforeLock =>
            m["escrow"] = 0 /\ m["payout"] = 0 /\ m["refund"] = 0 /\ m["penalty"] = 0
    /\ job.step \in Unpaid =>
            m["escrow"] = Bounty /\ m["payout"] = 0 /\ m["refund"] = 0 /\ m["penalty"] = 0
    /\ job.step \in BeforeLock \union Unpaid => job.due = 1
    /\ job.step = "pay" =>
            /\ m["escrow"] = Bounty /\ m["refund"] = 0 /\ m["penalty"] = 0
            /\ m["payout"] = PaidBefore(job)
    /\ job.step \in {"return", "write", "complete"} =>
            /\ m["escrow"] = Bounty /\ m["penalty"] = 0
            /\ m["payout"] = job.price + Fees
            /\ m["refund"] = IF job.step = "return" THEN 0 ELSE Remainder(job)
    /\ job.step = "settle" => m["payout"] = 0

\* What the journal says of it by then.
EvidenceInv ==
    /\ job.step \in BeforeCall => generated[job.run] = 0
    /\ job.step \in OnApproval => Has(job.run, "review.approved")
    /\ job.step \in OnTests => Has(job.run, "tests.passed")
    /\ job.step \in OnPromotion => Has(job.run, "deployment.succeeded")
    /\ job.step \in OnHealth => Has(job.run, "monitor.healthy")
    /\ job.step = "complete" => Has(job.run, "changelog.written")

\* The order in which a run's first and last events appear, and that nothing
\* happens to a run before it is started.
History(r) ==
    /\ Started(r) \/ r \in tasks => Created(r)
    /\ Closed(r) => Started(r)
    /\ ~Started(r) =>
            /\ moved[r]["escrow"] = 0 /\ moved[r]["payout"] = 0
            /\ moved[r]["refund"] = 0 /\ moved[r]["penalty"] = 0
            /\ generated[r] = 0

\* The properties of module Delivery that speak of one run.
EscrowOf(r) ==
    /\ moved[r]["escrow"] \in {0, Bounty}
    /\ RunEscrow(r) \in 0..Bounty
    /\ Closed(r) => RunEscrow(r) = 0

EvidenceOf(r) ==
    moved[r]["payout"] > 0 =>
        /\ {"review.approved", "tests.passed", "deployment.succeeded",
            "monitor.healthy"} \subseteq journal[r]
        /\ moved[r]["penalty"] = 0

EarnedOf(r) ==
    Has(r, "run.completed") =>
        /\ {"tests.passed", "monitor.healthy", "changelog.written"} \subseteq journal[r]
        /\ moved[r]["payout"] + moved[r]["refund"] = Bounty
        /\ ~Has(r, "run.failed")

RunInv(r) ==
    History(r) /\ EscrowOf(r) /\ generated[r] <= 1 /\ EvidenceOf(r) /\ EarnedOf(r)

\* The versions promoted so far are the numbers below the next one, and that is
\* the number the run being promoted has read.
BeforePromotion ==
    BeforeCall \union {"capture", "review", "verify", "deploy", "promote"}

VersionInv ==
    /\ \A r \in Runs : version[r] > 0 => Started(r)
    /\ job.step \in BeforePromotion => version[job.run] = 0
    /\ job.step = "promote" => job.release = NextVersion
    /\ \A r \in Runs : version[r] < NextVersion
    /\ ReleasesDistinct

\* What the sheet adds up to, and what the runs hold of the escrow account.
SumsInv == Conserved(balance, SumFunction(Genesis) + issued) /\ EscrowBacked

IInv ==
    /\ TypeOK /\ NoOverdraft
    /\ LockInv /\ StageInv /\ EvidenceInv
    /\ \A r \in Runs : RunInv(r)
    /\ OpenRunsAccounted
=============================================================================

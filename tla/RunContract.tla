----------------------------- MODULE RunContract -----------------------------
(***************************************************************************)
(* What the control plane promises the customer of an objective, without   *)
(* the pipeline, the ledger, processes or failures: an accepted objective  *)
(* is opened at most once, its bounty is locked at most once and leaves    *)
(* the vault only while the run is open, and the run ends exactly once,    *)
(* completed or failed, with the vault empty.                              *)
(***************************************************************************)
EXTENDS Integers

CONSTANTS Runs, Bounty

VARIABLES outcome,  \* [run -> where it stands with the customer]
          vault,    \* [run -> credits locked for it]
          locked    \* [run -> whether its bounty was locked]

contractVars == <<outcome, vault, locked>>

Outcomes == {"absent", "accepted", "open", "completed", "failed"}

ContractTypeOK ==
    /\ outcome \in [Runs -> Outcomes]
    /\ vault \in [Runs -> 0..Bounty]
    /\ locked \in [Runs -> BOOLEAN]

Init ==
    /\ outcome = [r \in Runs |-> "absent"]
    /\ vault = [r \in Runs |-> 0]
    /\ locked = [r \in Runs |-> FALSE]

Becomes(r, from, to) ==
    /\ outcome[r] = from
    /\ outcome' = [outcome EXCEPT ![r] = to]
    /\ UNCHANGED <<vault, locked>>

Accept(r) == Becomes(r, "absent", "accepted")

Open(r) == Becomes(r, "accepted", "open")

Lock(r) ==
    /\ outcome[r] = "open" /\ ~locked[r]
    /\ locked' = [locked EXCEPT ![r] = TRUE]
    /\ vault' = [vault EXCEPT ![r] = Bounty]
    /\ UNCHANGED outcome

\* A payout or a refund.
Release(r) ==
    /\ outcome[r] = "open"
    /\ \E left \in 0..Bounty :
         /\ left < vault[r]
         /\ vault' = [vault EXCEPT ![r] = left]
    /\ UNCHANGED <<outcome, locked>>

\* Only a run whose bounty was locked and settled completes.
Complete(r) == locked[r] /\ vault[r] = 0 /\ Becomes(r, "open", "completed")

Fail(r) == vault[r] = 0 /\ Becomes(r, "open", "failed")

Next ==
    \E r \in Runs :
        Accept(r) \/ Open(r) \/ Lock(r) \/ Release(r) \/ Complete(r) \/ Fail(r)

Spec == Init /\ [][Next]_contractVars
=============================================================================

----------------------------- MODULE MCRecovery -----------------------------
(* Two runs, and debtors who can pay for one incident but not for two.     *)
EXTENDS Recovery, TLC

Symmetry == Permutations(Runs)

MCLiabilities ==
    [a \in ToSet(Debtors) |->
        CASE a = "engineer" -> 4 [] a = "aegis" -> 3 [] OTHER -> 2]
MCBalances ==
    [a \in Accounts |->
        CASE a = "engineer" -> 6 [] a = "aegis" -> 3 [] a = "incident-escrow" -> 0 [] OTHER -> 60]
=============================================================================

------------------------------- MODULE Ledger -------------------------------
(***************************************************************************)
(* The credit ledger that the orchestrator derives from the journal.       *)
(*                                                                         *)
(* A ledger.transaction event names a source and a destination account.    *)
(* The reducer (Orchestrator.ledger) folds the events into one balance per *)
(* account; here a balance sheet is that fold's value, a function from     *)
(* accounts to integers, and the operators below are the effect of one     *)
(* more event on it.                                                       *)
(***************************************************************************)
EXTENDS Integers, Functions

\* Every posting that names a source is refused when it would overdraw it.
Covers(sheet, account, amount) == amount <= sheet[account]

\* "issue" events have a destination only: they create credits.
Issue(sheet, to, amount) == [sheet EXCEPT ![to] = @ + amount]

Transfer(sheet, from, to, amount) ==
    [sheet EXCEPT ![from] = @ - amount, ![to] = @ + amount]

\* (a slip) the cap is forgotten.
ChargeUncapped(sheet, from, amount, allowPartial) == amount

\* A capped debit takes what it may: all of the amount, what is left of the
\* account when a part is allowed, or nothing at all.
Charge(sheet, from, amount, allowPartial) ==
    IF Covers(sheet, from, amount) THEN amount
    ELSE IF allowPartial THEN sheet[from] ELSE 0

CappedDebit(sheet, from, to, amount, allowPartial) ==
    Transfer(sheet, from, to, Charge(sheet, from, amount, allowPartial))

\* What the ledger API reports as "conserved".
Conserved(sheet, issued) == SumFunction(sheet) = issued
=============================================================================

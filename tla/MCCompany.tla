---------------------------- MODULE MCCompany ----------------------------
(* Constants of the company run.                                           *)
EXTENDS Company

MCRoster    == <<"forge", "prism", "rivet", "aegis">>
MCEngineers == {"forge", "prism", "rivet"}
MCCapabilities ==
    [a \in ToSet(MCRoster) |->
        CASE a = "forge" -> {"implementation", "python"}
          [] a = "prism" -> {"implementation", "react"}
          [] a = "rivet" -> {"implementation", "containers"}
          [] a = "aegis" -> {"code-review"}]

\* Balances that one or two penalties use up.
MCSeed == [a \in ToSet(MCRoster) |-> IF a = "forge" THEN 8 ELSE 20]

Rejected == [kind |-> "penalty", amount |-> 8, agents |-> {"forge"}]
Delivered == [kind |-> "reward", amount |-> 8, agents |-> {"forge"}]
MCRules == {Rejected, Delivered}
MCEscape == [engineer |-> [kind |-> "penalty", amount |-> 12, agents |-> {"forge"}],
             reviewer |-> [kind |-> "penalty", amount |-> 15, agents |-> {"aegis"}]]

MCTasks == {[id |-> "t1", needs |-> {"implementation"}, budget |-> 30, floor |-> 65],
            [id |-> "t2", needs |-> {"python"}, budget |-> 30, floor |-> 65]}

\* Floats whose mean of several scores comes out below the exact one.
MCMean(scores) ==
    LET n == Cardinality(DOMAIN scores)
    IN  (SumFunction(scores) - IF n = 1 THEN 0 ELSE 1) \div n

\* Together "proof prism" and "early prism" come to 80, less the rounding; with
\* "late prism" they come to more than 86, but for the rounding.
MCEvidence ==
    [r \in {"proof forge", "proof prism", "proof rivet", "early prism", "late prism"} |->
        CASE r = "proof forge" -> [agent |-> "forge", score |-> 86]
          [] r = "proof prism" -> [agent |-> "prism", score |-> 96]
          [] r = "early prism" -> [agent |-> "prism", score |-> 64]
          [] r = "late prism" -> [agent |-> "prism", score |-> 77]
          [] r = "proof rivet" -> [agent |-> "rivet", score |-> 86]]

Bid(e, amount, credibility, refs) ==
    [task |-> "t1", engineer |-> e, amount |-> amount,
     credibility |-> credibility, refs |-> refs]

BidsOf(e) ==
    CASE e = "forge" -> {Bid(e, 12, 80, <<"proof forge">>),
                         Bid(e, 9, 90, <<"proof forge">>),
                         Bid(e, 9, 80, <<"proof prism">>),
                         [Bid(e, 12, 80, <<"proof forge">>) EXCEPT !.task = "t2"]}
      [] e = "prism" -> {Bid(e, 12, 80, <<"proof prism">>),
                         Bid(e, 12, 80, <<"proof prism", "early prism">>),
                         Bid(e, 12, 80, <<"proof prism", "late prism">>),
                         Bid(e, 9, 60, <<"proof prism">>)}
      [] e = "rivet" -> {Bid(e, 12, 80, <<"proof rivet">>),
                         Bid(e, 12, 85, <<"proof rivet">>),
                         Bid(e, 9, 70, <<"lost proof">>),
                         Bid(e, 31, 80, <<"proof rivet">>)}

MCBooks ==
    {<<f, p, r>> : f \in BidsOf("forge"), p \in BidsOf("prism"), r \in BidsOf("rivet")}
      \union {<<f, p>> : f \in BidsOf("forge"), p \in BidsOf("prism")}
      \union {<<f, f, r>> : f \in BidsOf("forge"), r \in BidsOf("rivet")}
=============================================================================

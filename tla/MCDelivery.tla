----------------------------- MODULE MCDelivery -----------------------------
(* Two objectives, three engineers at the end of their credits.            *)
EXTENDS Delivery

MCEngineers == {"forge", "prism", "rivet"}
MCGenesis ==
    [a \in Accounts |->
        CASE a = "forge" -> 3 [] a = "prism" -> 2 [] a = "rivet" -> 0
          [] a \in {"treasury", "escrow"} -> 0 [] OTHER -> 60]
MCBids == {18, 24}
MCCapableSets == {{"forge"}, {"prism"}, {"rivet"}, MCEngineers}

\* For the run about restarts: one engineer is dormant from the start.
LiveEngineers == {"forge", "prism"}
LiveGenesis ==
    [a \in Accounts |->
        CASE a = "forge" -> 3 [] a = "prism" -> 0
          [] a \in {"treasury", "escrow"} -> 0 [] OTHER -> 60]
LiveBids == {20}
LiveCapableSets == {{"forge"}, {"prism"}}
=============================================================================

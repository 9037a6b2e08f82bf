----------------------------- MODULE MCService -----------------------------
(* A demonstration and one customer's objective, with two engineers.       *)
EXTENDS Service

MCEngineers == {"forge", "prism"}
MCProfiles  == <<"atlas", "forge", "prism", "aegis", "sentinel", "shipwright",
                 "chronicle">>
MCGenesis ==
    [a \in Accounts |->
        CASE a = "forge" -> 3 [] a = "prism" -> 1
          [] a \in {"treasury", "escrow"} -> 0 [] OTHER -> 60]
MCBids == {20}
MCCapableSets == {{"forge"}, {"prism"}}
=============================================================================

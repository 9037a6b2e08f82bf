------------------------------ MODULE GatesInv ------------------------------
(***************************************************************************)
(* Why the gates hold: what each step of _execute_pipeline has established *)
(* by the time it is reached, as an inductive invariant of module Gates.   *)
(***************************************************************************)
EXTENDS Gates

Generated == {"review", "gate", "select", "check", "decide", "released"}
Reviewed  == Generated \ {"review"}
PastGate  == Reviewed \ {"gate"}
Suited    == {"check", "decide", "released"}

\* A verdict other than "unknown" was read from a message.
StreamInv ==
    stream.verdict # "unknown" =>
        [type |-> "message", value |-> stream.verdict] \in stream.seen

\* What the parser demands of a stream it accepts.
Sound(events) ==
    /\ events \subseteq StreamEvents
    /\ [type |-> "turn.completed", value |-> None] \in events
    /\ \A ev \in events : /\ ev.type \notin {"error", "garbage"}
                          /\ ev.type = "model" => ev.value = Model

\* What each adapter can have returned.
ImplInv ==
    step \in Generated =>
        /\ adapter = "deterministic" => impl = FixtureResult
        /\ adapter = "codex" =>
            /\ impl.provenance = "live"
            /\ impl.writes = applies
            /\ Sound(printed.implement)

ReviewInv ==
    /\ step \in Reviewed /\ adapter = "deterministic" => review.provenance = "fixture"
    /\ step \in Reviewed /\ adapter = "codex" =>
        /\ Sound(printed.review)
        /\ review.verdict = "approved" =>
            [type |-> "message", value |-> "approved"] \in printed.review
        /\ ~review.edited =>
            [type |-> "file_change", value |-> None] \notin printed.review

GateInv == step \in PastGate => ReviewGate /\ review.verdict = "approved"

\* The suites that ran and those still due are the ones the change calls for;
\* if anything was misconfigured there is an outcome, and none of them passed.
Called ==
    /\ "outside" \notin impl.diff
    /\ ToSet(due) \union DOMAIN outcomes = SuitesFor(impl.diff)
Refused ==
    /\ DOMAIN outcomes # {}
    /\ \A s \in DOMAIN outcomes : outcomes[s] = "not_run"

SuiteInv ==
    /\ step \notin Suited => due = <<>> /\ DOMAIN outcomes = {}
    /\ step = "check" => impl.provenance = "live" /\ LiveChangePresent /\ Called
    /\ step \in {"decide", "released"} /\ impl.provenance = "live" /\ LiveChangePresent =>
            due = <<>> /\ (Called \/ Refused)
    /\ step = "released" => TestsVerified

IInv ==
    /\ TypeOK
    /\ StreamInv /\ ImplInv /\ ReviewInv /\ GateInv /\ SuiteInv
=============================================================================

------------------------------- MODULE Gates -------------------------------
(***************************************************************************)
(* What stands between a coding runtime and the promotion of a change:     *)
(* the stream of a Codex child is parsed, a second child reviews, the      *)
(* review gate compares the two results, and Sentinel runs the suites the  *)
(* changed paths call for (backend/app/services/runtime.py and the gates   *)
(* of orchestrator.py).  Delivery takes the outcomes of these gates as     *)
(* choices; here they are derived.                                         *)
(*                                                                         *)
(* A child is free to print anything, stop anywhere and exit as it likes.  *)
(* A runtime adapter other than the two of the repository returns any      *)
(* result of the right shape.                                              *)
(***************************************************************************)
EXTENDS Naturals, Sequences, SequencesExt, FiniteSets

CONSTANTS
    Threads,        \* thread identifiers
    Model,          \* the model the operator requests
    OtherModel,     \* another one a stream may name
    Diffs,          \* the sets of files a write invocation may change
    MaxStream,      \* bound: different events one child prints
    None

ASSUME GatesAssumption ==
    /\ Model # OtherModel
    /\ None \notin Threads \union {Model, OtherModel}
    /\ Diffs \subseteq SUBSET {"backend", "frontend", "docs"}
    /\ MaxStream \in Nat

Adapters == {"codex", "deterministic", "other"}

\* Changed files, by what Sentinel tells apart; "outside" leaves the worktree.
Paths  == {"backend", "frontend", "docs", "outside"}
Suites == {"backend-pytest", "frontend-vitest"}
Verdicts == {"approved", "changes_requested", "unknown"}

\* What a line of the stream can be to the parser.  A final message carries the
\* verdict _parse_review reads from it.
StreamEvents ==
    [type : {"thread.started"}, value : Threads]
        \union [type : {"model"}, value : {Model, OtherModel}]
        \union [type : {"message"}, value : Verdicts]
        \union [type : {"turn.completed", "error", "file_change", "garbage"},
                value : {None}]

Results ==
    [provenance : {"live", "fixture"}, runtime : {"codex", "deterministic"},
     thread : Threads \union {None}, model : {Model, OtherModel, None},
     writes : BOOLEAN,      \* write_mode
     diff : SUBSET Paths,   \* name_only, empty if there is no diff
     edited : BOOLEAN,      \* a diff or a file change was reported
     declared : BOOLEAN,    \* it declares tests
     verdict : Verdicts]

NoResult == [provenance |-> "fixture", runtime |-> "deterministic", thread |-> None,
             model |-> None, writes |-> FALSE, diff |-> {}, edited |-> FALSE,
             declared |-> FALSE, verdict |-> "unknown"]

Nothing == [seen |-> {}, thread |-> None, verdict |-> "unknown"]

Steps == {"implement", "review", "gate", "select", "check", "decide",
          "released", "failed"}

VARIABLES
    adapter,    \* which runtime was built
    applies,    \* apply_changes
    step,       \* where _execute_pipeline stands
    stream,     \* what the parser keeps of what the child has printed
    remembered, \* _implementation_threads[run_id]
    impl,       \* the implementation's result
    review,     \* the review's result
    due,        \* suites still to run
    outcomes,   \* [suite -> its status], of those assessed
    printed     \* for an observer: the streams that were accepted

vars == <<adapter, applies, step, stream, remembered, impl, review, due,
          outcomes, printed>>

config == <<adapter, applies>>
checks == <<due, outcomes>>

Init ==
    /\ adapter \in Adapters
    /\ applies \in BOOLEAN
    /\ step = "implement"
    /\ stream = Nothing
    /\ remembered = None
    /\ impl = NoResult
    /\ review = NoResult
    /\ due = <<>>
    /\ outcomes = <<>>
    /\ printed = [implement |-> {}, review |-> {}]

-----------------------------------------------------------------------------
(* The stream of a child                                                   *)

\* (a slip) a thread id is taken off any event that carries one.
ReadAnyThread(ev) ==
    [seen |-> stream.seen \union {ev}, thread |-> ev.value,
     verdict |-> IF ev.type = "message" THEN ev.value ELSE stream.verdict]

\* The loop of _parse_jsonl: the last thread and the last message count, all
\* else is remembered once seen.
Read(ev) ==
    [seen |-> stream.seen \union {ev},
     thread |-> IF ev.type = "thread.started" THEN ev.value ELSE stream.thread,
     verdict |-> IF ev.type = "message" THEN ev.value ELSE stream.verdict]

Has(type, s) == \E ev \in s.seen : ev.type = type
ModelsOf(s)  == {ev.value : ev \in {x \in s.seen : x.type = "model"}}

\* (a slip) a turn that completed is not failed by an error next to it.
ParsesUnlessFailed(s) ==
    /\ s.seen # {}
    /\ ~Has("garbage", s)
    /\ Has("error", s) => Has("turn.completed", s)
    /\ s.thread # None
    /\ Has("turn.completed", s)
    /\ Cardinality(ModelsOf(s)) <= 1

\* _parse_jsonl returns; otherwise it raises.
Parses(s) ==
    /\ s.seen # {}
    /\ ~Has("garbage", s)
    /\ ~Has("error", s)
    /\ s.thread # None
    /\ Has("turn.completed", s)
    /\ Cardinality(ModelsOf(s)) <= 1

\* _invoke returns: the stream does not name another model than the one that
\* was requested either.  (The exit status is zero; ChildFails has the others.)
Accepted(s) ==
    /\ Parses(s)
    /\ ModelsOf(s) \subseteq {Model}

CodexResult(s, writes, diff) ==
    [provenance |-> "live", runtime |-> "codex", thread |-> s.thread,
     model |-> Model, writes |-> writes, diff |-> diff,
     edited |-> writes \/ Has("file_change", s),
     declared |-> FALSE, verdict |-> s.verdict]

FixtureResult ==
    [NoResult EXCEPT !.declared = TRUE, !.verdict = "approved"]

OtherResults ==
    [provenance : {"live", "fixture"}, runtime : {"codex", "deterministic"},
     thread : Threads \union {None}, model : {None}, writes : BOOLEAN,
     diff : Diffs \union {{}, {"outside"}}, edited : BOOLEAN, declared : BOOLEAN,
     verdict : Verdicts]

Goto(next) == step' = next /\ stream' = Nothing

Fail ==
    /\ Goto("failed")
    /\ impl' = NoResult /\ review' = NoResult
    /\ due' = <<>> /\ outcomes' = <<>>
    /\ printed' = [implement |-> {}, review |-> {}]
    /\ UNCHANGED <<config, remembered>>

ChildPrints ==
    /\ adapter = "codex" /\ step \in {"implement", "review"}
    /\ \E ev \in StreamEvents : stream' = Read(ev)
    /\ Cardinality(stream'.seen) <= MaxStream
    /\ UNCHANGED <<config, step, remembered, impl, review, checks, printed>>

\* It exits with an error, or its stream is not accepted, or its time is up.
ChildFails ==
    /\ adapter = "codex" /\ step \in {"implement", "review"}
    /\ Fail

-----------------------------------------------------------------------------
(* generate                                                                *)

CodexGenerates ==
    /\ adapter = "codex" /\ step = "implement"
    /\ Accepted(stream)
    /\ \E diff \in Diffs \union {{}} :
          /\ applies \/ diff = {}
          /\ impl' = CodexResult(stream, applies, diff)
    /\ remembered' = stream.thread
    /\ printed' = [printed EXCEPT !.implement = stream.seen]
    /\ Goto("review")
    /\ UNCHANGED <<config, review, checks>>

DeterministicGenerates ==
    /\ adapter = "deterministic" /\ step = "implement"
    /\ impl' = FixtureResult
    /\ Goto("review")
    /\ UNCHANGED <<config, remembered, review, checks, printed>>

\* Anything with a name and the two methods; this one calls itself codex and
\* requests no reviewer model.
OtherGenerates ==
    /\ adapter = "other" /\ step = "implement"
    /\ \E diff \in Diffs \union {{}, {"outside"}} :
          impl' \in {r \in OtherResults : r.diff = diff /\ ~r.edited /\ r.verdict = "unknown"}
    /\ Goto("review")
    /\ UNCHANGED <<config, remembered, review, checks, printed>>

-----------------------------------------------------------------------------
(* review                                                                  *)

\* A thread the adapter remembers as the implementation's raises, and stays
\* remembered; the check of the gate comes on top of it.
CodexReviews ==
    /\ adapter = "codex" /\ step = "review"
    /\ Accepted(stream)
    /\ remembered # None => stream.thread # remembered
    /\ review' = CodexResult(stream, FALSE, {})
    /\ remembered' = None
    /\ printed' = [printed EXCEPT !.review = stream.seen]
    /\ Goto("gate")
    /\ UNCHANGED <<config, impl, checks>>

DeterministicReviews ==
    /\ adapter = "deterministic" /\ step = "review"
    /\ review' = FixtureResult
    /\ Goto("gate")
    /\ UNCHANGED <<config, remembered, impl, checks, printed>>

OtherReviews ==
    /\ adapter = "other" /\ step = "review"
    /\ review' \in {r \in OtherResults : r.diff = {} /\ ~r.declared}
    /\ Goto("gate")
    /\ UNCHANGED <<config, remembered, impl, checks, printed>>

-----------------------------------------------------------------------------
(* _review_gate                                                            *)

RuntimeName == IF adapter = "deterministic" THEN "deterministic" ELSE "codex"

FixtureEligible ==
    /\ impl.runtime = "deterministic" /\ RuntimeName = "deterministic"
    /\ review.provenance = "fixture" /\ review.runtime = "deterministic"

LiveEligible ==
    /\ impl.runtime = RuntimeName
    /\ impl.thread # None
    /\ review.provenance = "live"
    /\ review.runtime = impl.runtime
    /\ review.thread # None
    /\ review.thread # impl.thread
    /\ ~review.writes
    /\ review.diff = {} /\ ~review.edited
    /\ adapter # "other" => review.model = Model

ReviewGate ==
    IF impl.provenance = "fixture" THEN FixtureEligible ELSE LiveEligible

ReviewPasses ==
    /\ step = "gate"
    /\ ReviewGate /\ review.verdict = "approved"
    /\ Goto("select")
    /\ UNCHANGED <<config, remembered, impl, review, checks, printed>>

ReviewBlocks ==
    /\ step = "gate"
    /\ ~ReviewGate \/ review.verdict # "approved"
    /\ Fail

-----------------------------------------------------------------------------
(* _sentinel_checks                                                        *)

\* (a slip) whether the runtime was allowed to write is not asked.
AnyLiveChange == impl.diff # {}

LiveChangePresent == impl.writes /\ impl.diff # {}

\* (a slip) files outside the two packages call for no suite.
SuitesForPackages(diff) ==
    {s \in Suites : \/ s = "backend-pytest" /\ "backend" \in diff
                    \/ s = "frontend-vitest" /\ "frontend" \in diff}

SuitesFor(diff) ==
    {s \in Suites : \/ /\ s = "backend-pytest"
                       /\ \/ diff \ {"frontend"} # {}
                          \/ "frontend" \notin diff
                    \/ s = "frontend-vitest" /\ "frontend" \in diff}

\* The specs that are appended, the backend's first.
InOrder(suites) ==
    (IF "backend-pytest" \in suites THEN <<"backend-pytest">> ELSE <<>>)
        \o (IF "frontend-vitest" \in suites THEN <<"frontend-vitest">> ELSE <<>>)

NotRun(suites) == [s \in suites |-> "not_run"]

\* No checks for a fixture, and none without a live change.
SelectNothing ==
    /\ step = "select"
    /\ impl.provenance = "fixture" \/ ~LiveChangePresent
    /\ Goto("decide")
    /\ UNCHANGED <<config, remembered, impl, review, checks, printed>>

\* The worktree is not there, a path leaves it, or a suite that is called for
\* has no project to run in: then nothing runs.
SelectMisconfigured ==
    /\ step = "select"
    /\ impl.provenance = "live" /\ LiveChangePresent
    /\ \/ outcomes' = NotRun({"sentinel-configuration"})
       \/ /\ "outside" \notin impl.diff
          /\ \E missing \in (SUBSET SuitesFor(impl.diff)) \ {{}} :
                outcomes' = NotRun(missing)
    /\ Goto("decide")
    /\ UNCHANGED <<config, remembered, impl, review, due, printed>>

SelectSuites ==
    /\ step = "select"
    /\ impl.provenance = "live" /\ LiveChangePresent
    /\ "outside" \notin impl.diff
    /\ due' = InOrder(SuitesFor(impl.diff))
    /\ Goto("check")
    /\ UNCHANGED <<config, remembered, impl, review, outcomes, printed>>

\* Every suite runs, whatever the one before it said.
RunSuite ==
    /\ step = "check"
    /\ due # <<>>
    /\ \E status \in {"passed", "failed", "timed_out", "not_run"} :
          outcomes' = [s \in DOMAIN outcomes \union {Head(due)} |->
                         IF s = Head(due) THEN status ELSE outcomes[s]]
    /\ due' = Tail(due)
    /\ UNCHANGED <<config, step, stream, remembered, impl, review, printed>>

SuitesDone ==
    /\ step = "check"
    /\ due = <<>>
    /\ Goto("decide")
    /\ UNCHANGED <<config, remembered, impl, review, checks, printed>>

TestsVerified ==
    IF impl.provenance = "fixture"
    THEN impl.declared
    ELSE /\ LiveChangePresent
         /\ DOMAIN outcomes # {}
         /\ \A s \in DOMAIN outcomes : outcomes[s] = "passed"

Release ==
    /\ step = "decide"
    /\ TestsVerified
    /\ Goto("released")
    /\ UNCHANGED <<config, remembered, impl, review, checks, printed>>

TestsUnverified ==
    /\ step = "decide"
    /\ ~TestsVerified
    /\ Fail

Next ==
    \/ ChildPrints \/ ChildFails
    \/ CodexGenerates \/ DeterministicGenerates \/ OtherGenerates
    \/ CodexReviews \/ DeterministicReviews \/ OtherReviews
    \/ ReviewPasses \/ ReviewBlocks
    \/ SelectNothing \/ SelectMisconfigured \/ SelectSuites
    \/ RunSuite \/ SuitesDone
    \/ Release \/ TestsUnverified

Spec == Init /\ [][Next]_vars

-----------------------------------------------------------------------------
(* Properties                                                              *)

TypeOK ==
    /\ adapter \in Adapters /\ applies \in BOOLEAN /\ step \in Steps
    /\ stream \in [seen : SUBSET StreamEvents, thread : Threads \union {None},
                   verdict : Verdicts]
    /\ remembered \in Threads \union {None}
    /\ impl \in Results /\ review \in Results
    /\ due \in Seq(Suites)
    /\ DOMAIN outcomes \subseteq Suites \union {"sentinel-configuration"}
    /\ {outcomes[s] : s \in DOMAIN outcomes}
          \subseteq {"passed", "failed", "timed_out", "not_run"}

LiveRelease == step = "released" /\ impl.provenance = "live"

\* Independence.  A live change is released only after a review in a thread of
\* its own approved it and wrote nothing; with Codex, both children completed
\* their turns, printed no error and nothing unreadable, and named no model but
\* the one requested, whatever else they printed and in whatever order.
\* No adapter but the deterministic runtime can pass its work off as a fixture.
ReleaseIndependent ==
    /\ step = "released" => /\ adapter = "deterministic" <=> impl.provenance = "fixture"
                            /\ review.provenance = impl.provenance
    /\ LiveRelease =>
        /\ {impl.thread, review.thread} \subseteq Threads
        /\ impl.thread # review.thread
        /\ review.provenance = "live" /\ review.verdict = "approved"
        /\ ~review.writes /\ ~review.edited
        /\ adapter = "codex" =>
            /\ \A events \in {printed.implement, printed.review} :
                /\ [type |-> "turn.completed", value |-> None] \in events
                /\ \A ev \in events : /\ ev.type \notin {"error", "garbage"}
                                      /\ ev.type = "model" => ev.value = Model
            /\ [type |-> "message", value |-> "approved"] \in printed.review
            /\ [type |-> "file_change", value |-> None] \notin printed.review

\* Evidence.  A live change is released only from a runtime that was allowed to
\* write, when it changed something, and the suite of every file it changed
\* ran and passed; files outside the two packages count for the backend's.
ReleaseTested ==
    LiveRelease =>
        /\ impl.writes
        /\ adapter = "codex" => applies
        /\ impl.diff # {} /\ "outside" \notin impl.diff
        /\ \A path \in impl.diff :
              LET suite == IF path = "frontend" THEN "frontend-vitest"
                           ELSE "backend-pytest"
              IN suite \in DOMAIN outcomes /\ outcomes[suite] = "passed"
        /\ \A s \in DOMAIN outcomes : outcomes[s] = "passed"
=============================================================================

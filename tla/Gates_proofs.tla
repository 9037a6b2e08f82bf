---------------------------- MODULE Gates_proofs ----------------------------
(***************************************************************************)
(* What the gates keep for every set of threads, every pair of models, any *)
(* files a child may change and streams of any length.                     *)
(***************************************************************************)
EXTENDS GatesInv, SequenceTheorems, TLAPS

\* The first suite that is due, and those after it, are the ones due.
LEMMA SuitesInTurn ==
    ASSUME NEW S, NEW q \in Seq(S), q # <<>>
    PROVE  /\ Head(q) \in S
           /\ Tail(q) \in Seq(S)
           /\ ToSet(q) = {Head(q)} \union ToSet(Tail(q))
<1>1. Head(q) \in S /\ Tail(q) \in Seq(S)
  OBVIOUS
<1>2. Len(q) \in Nat \ {0} /\ Len(Tail(q)) = Len(q) - 1
  OBVIOUS
<1>3. \A i \in 1..Len(Tail(q)) : Tail(q)[i] = q[i + 1]
  OBVIOUS
<1>4. ToSet(Tail(q)) \subseteq ToSet(q)
  BY <1>2, <1>3 DEF ToSet
<1>5. Head(q) \in ToSet(q)
  BY <1>2 DEF ToSet
<1>6. ASSUME NEW i \in DOMAIN q
      PROVE  q[i] = Head(q) \/ q[i] \in ToSet(Tail(q))
  <2>1. CASE i = 1
    BY <2>1
  <2>2. CASE i # 1
    <3>1. i - 1 \in 1..Len(Tail(q)) /\ Tail(q)[i - 1] = q[i]
      BY <1>2, <1>3, <1>6, <2>2
    <3> QED
      BY <3>1 DEF ToSet
  <2> QED
    BY <2>1, <2>2
<1> QED
  BY <1>1, <1>4, <1>5, <1>6 DEF ToSet

\* Two sequences of one element, one after the other.
LEMMA PairAppended ==
    ASSUME NEW S, NEW a \in Seq(S), NEW b \in Seq(S), Len(a) = 1, Len(b) = 1
    PROVE  /\ a \o b \in Seq(S)
           /\ Len(a \o b) = 2
           /\ (a \o b)[1] = a[1]
           /\ (a \o b)[2] = b[1]
<1> DEFINE c == a \o b
<1>1. /\ c \in Seq(S)
      /\ Len(c) = Len(a) + Len(b)
      /\ \A i \in 1 .. Len(a) + Len(b) :
            c[i] = IF i <= Len(a) THEN a[i] ELSE b[i - Len(a)]
  BY ConcatProperties, Zenon
<1> HIDE DEF c
<1>2. Len(a) + Len(b) = 2
  OBVIOUS
<1>3. \A i \in 1..2 : c[i] = IF i <= 1 THEN a[i] ELSE b[i - 1]
  BY <1>1, <1>2
<1>4. Len(c) = 2 /\ c[1] = a[1] /\ c[2] = b[1]
  BY <1>1, <1>2, <1>3
<1> QED
  BY <1>1, <1>4 DEF c

\* The specs that are appended are the suites the change calls for, once each.
LEMMA SuitesAppended ==
    ASSUME NEW suites \in SUBSET Suites
    PROVE  /\ InOrder(suites) \in Seq(Suites)
           /\ ToSet(InOrder(suites)) = suites
<1>1. "backend-pytest" \in Suites /\ "frontend-vitest" \in Suites
  BY DEF Suites
<1>2. CASE "backend-pytest" \in suites /\ "frontend-vitest" \in suites
  <2> DEFINE a == <<"backend-pytest">>
             b == <<"frontend-vitest">>
  <2>1. InOrder(suites) = a \o b
    BY <1>2 DEF InOrder
  <2>2. a \in Seq(Suites) /\ b \in Seq(Suites) /\ Len(a) = 1 /\ Len(b) = 1
    BY <1>1
  <2>3. a[1] = "backend-pytest" /\ b[1] = "frontend-vitest"
    OBVIOUS
  <2> HIDE DEF a, b
  <2>4. /\ a \o b \in Seq(Suites) /\ Len(a \o b) = 2
        /\ (a \o b)[1] = a[1] /\ (a \o b)[2] = b[1]
    BY <2>2, PairAppended
  <2>5. ToSet(a \o b) = {a[1], b[1]}
    BY <2>4 DEF ToSet
  <2> QED
    BY <2>1, <2>3, <2>4, <2>5, <1>2 DEF Suites
<1>3. CASE "backend-pytest" \in suites /\ "frontend-vitest" \notin suites
  <2> DEFINE q == <<"backend-pytest">>
  <2>1. InOrder(suites) = q
    BY <1>3 DEF InOrder
  <2>2. q \in Seq(Suites)
    BY <1>1
  <2>3. ToSet(q) = {q[1]}
    BY DEF ToSet
  <2> QED
    BY <2>1, <2>2, <2>3, <1>3 DEF Suites
<1>4. CASE "backend-pytest" \notin suites /\ "frontend-vitest" \in suites
  <2> DEFINE q == <<"frontend-vitest">>
  <2>1. InOrder(suites) = q
    BY <1>4 DEF InOrder
  <2>2. q \in Seq(Suites)
    BY <1>1
  <2>3. ToSet(q) = {q[1]}
    BY DEF ToSet
  <2> QED
    BY <2>1, <2>2, <2>3, <1>4 DEF Suites
<1>5. CASE suites = {}
  <2>1. InOrder(suites) = <<>>
    BY <1>5 DEF InOrder
  <2> QED
    BY <2>1, <1>5 DEF ToSet
<1> QED
  BY <1>2, <1>3, <1>4, <1>5 DEF Suites

-----------------------------------------------------------------------------
(* Types                                                                   *)

LEMMA StreamTypes ==
    ASSUME TypeOK, NEW ev \in StreamEvents
    PROVE  Read(ev) \in [seen : SUBSET StreamEvents, thread : Threads \union {None},
                         verdict : Verdicts]
<1>1. ev.type = "thread.started" => ev.value \in Threads
  BY DEF StreamEvents
<1>2. ev.type = "message" => ev.value \in Verdicts
  BY DEF StreamEvents
<1> QED
  BY <1>1, <1>2 DEF Read, TypeOK

LEMMA NothingHasType ==
    Nothing \in [seen : SUBSET StreamEvents, thread : Threads \union {None},
                 verdict : Verdicts]
BY DEF Nothing, Verdicts

LEMMA FixtureHasType == NoResult \in Results /\ FixtureResult \in Results
BY DEF NoResult, FixtureResult, Results, Verdicts

LEMMA CodexHasType ==
    ASSUME TypeOK, NEW writes \in BOOLEAN, NEW diff \in SUBSET Paths
    PROVE  CodexResult(stream, writes, diff) \in Results
BY DEF CodexResult, Results, TypeOK, Has

LEMMA OthersHaveType == OtherResults \subseteq Results
BY GatesAssumption DEF OtherResults, Results, Paths

LEMMA TypeStep ==
    ASSUME TypeOK, [Next]_vars
    PROVE  TypeOK'
<1> USE NothingHasType, FixtureHasType, OthersHaveType
    DEF TypeOK, Goto, config, checks, Steps, Adapters
<1>1. CASE ChildPrints
  <2>1. stream' \in [seen : SUBSET StreamEvents, thread : Threads \union {None},
                     verdict : Verdicts]
    BY <1>1, StreamTypes DEF ChildPrints
  <2> QED
    BY <1>1, <2>1 DEF ChildPrints
<1>2. CASE Fail
  BY <1>2 DEF Fail
<1>3. CASE ChildFails
  BY <1>2, <1>3 DEF ChildFails
<1>4. CASE CodexGenerates
  <2>1. PICK diff \in Diffs \union {{}} : impl' = CodexResult(stream, applies, diff)
    BY <1>4 DEF CodexGenerates
  <2>2. diff \in SUBSET Paths
    BY GatesAssumption DEF Paths
  <2>3. impl' \in Results
    BY <2>1, <2>2, CodexHasType
  <2> QED
    BY <1>4, <2>3 DEF CodexGenerates
<1>5. CASE DeterministicGenerates
  BY <1>5 DEF DeterministicGenerates
<1>6. CASE OtherGenerates
  <2>1. impl' \in Results
    BY <1>6 DEF OtherGenerates
  <2> QED
    BY <1>6, <2>1 DEF OtherGenerates
<1>7. CASE CodexReviews
  <2>1. review' \in Results
    BY <1>7, CodexHasType DEF CodexReviews
  <2> QED
    BY <1>7, <2>1 DEF CodexReviews
<1>8. CASE DeterministicReviews
  BY <1>8 DEF DeterministicReviews
<1>9. CASE OtherReviews
  <2>1. review' \in Results
    BY <1>9 DEF OtherReviews
  <2> QED
    BY <1>9, <2>1 DEF OtherReviews
<1>10. CASE ReviewPasses
  BY <1>10 DEF ReviewPasses
<1>11. CASE ReviewBlocks
  BY <1>2, <1>11 DEF ReviewBlocks
<1>12. CASE SelectNothing
  BY <1>12 DEF SelectNothing
<1>13. CASE SelectMisconfigured
  <2>1. PICK names \in SUBSET (Suites \union {"sentinel-configuration"}) :
            outcomes' = NotRun(names)
    BY <1>13 DEF SelectMisconfigured, SuitesFor
  <2> QED
    BY <1>13, <2>1 DEF SelectMisconfigured, NotRun
<1>14. CASE SelectSuites
  <2>1. due' \in Seq(Suites)
    BY <1>14, SuitesAppended DEF SelectSuites, SuitesFor
  <2> QED
    BY <1>14, <2>1 DEF SelectSuites
<1>15. CASE RunSuite
  <2>1. Head(due) \in Suites /\ due' \in Seq(Suites)
    BY <1>15, SuitesInTurn DEF RunSuite
  <2>2. PICK status \in {"passed", "failed", "timed_out", "not_run"} :
            outcomes' = [s \in DOMAIN outcomes \union {Head(due)} |->
                           IF s = Head(due) THEN status ELSE outcomes[s]]
    BY <1>15 DEF RunSuite
  <2>3. \A s \in DOMAIN outcomes' : 
            outcomes'[s] \in {"passed", "failed", "timed_out", "not_run"}
    BY <2>2
  <2> QED
    BY <1>15, <2>1, <2>2, <2>3 DEF RunSuite
<1>16. CASE SuitesDone
  BY <1>16 DEF SuitesDone
<1>17. CASE Release
  BY <1>17 DEF Release
<1>18. CASE TestsUnverified
  BY <1>2, <1>18 DEF TestsUnverified
<1>19. CASE UNCHANGED vars
  BY <1>19 DEF vars
<1> HIDE DEF TypeOK
<1> QED
  BY <1>1, <1>3, <1>4, <1>5, <1>6, <1>7, <1>8, <1>9, <1>10, <1>11, <1>12, <1>13,
     <1>14, <1>15, <1>16, <1>17, <1>18, <1>19 DEF Next

-----------------------------------------------------------------------------
(* The steps of the inductive invariant                                    *)

\* A stream the parser accepts completed its turn, printed no error and named
\* no model but the one requested.
LEMMA AcceptedIsSound ==
    ASSUME TypeOK, Accepted(stream)
    PROVE  Sound(stream.seen)
<1>1. stream.seen \subseteq StreamEvents
  BY DEF TypeOK
<1>2. PICK turn \in stream.seen : turn.type = "turn.completed"
  BY DEF Accepted, Parses, Has
<1>3. turn = [type |-> "turn.completed", value |-> None]
  BY <1>1, <1>2 DEF StreamEvents
<1>4. \A ev \in stream.seen : ev.type \notin {"error", "garbage"}
  BY DEF Accepted, Parses, Has
<1>5. \A ev \in stream.seen : ev.type = "model" => ev.value = Model
  BY DEF Accepted, ModelsOf
<1> QED
  BY <1>1, <1>2, <1>3, <1>4, <1>5 DEF Sound

\* The verdict the parser keeps was printed.
LEMMA StreamStep ==
    ASSUME IInv, TypeOK', [Next]_vars
    PROVE  StreamInv'
<1> USE DEF IInv, TypeOK, StreamInv, Nothing, Goto, config, checks
<1>1. CASE ChildPrints
  <2>1. PICK ev \in StreamEvents : stream' = Read(ev)
    BY <1>1 DEF ChildPrints
  <2>2. ev.type = "message" => ev = [type |-> "message", value |-> ev.value]
    BY DEF StreamEvents
  <2> QED
    BY <2>1, <2>2 DEF Read
<1>2. CASE ChildFails
  BY <1>2 DEF ChildFails, Fail
<1>3. CASE CodexGenerates
  BY <1>3 DEF CodexGenerates
<1>4. CASE DeterministicGenerates
  BY <1>4 DEF DeterministicGenerates
<1>5. CASE OtherGenerates
  BY <1>5 DEF OtherGenerates
<1>6. CASE CodexReviews
  BY <1>6 DEF CodexReviews
<1>7. CASE DeterministicReviews
  BY <1>7 DEF DeterministicReviews
<1>8. CASE OtherReviews
  BY <1>8 DEF OtherReviews
<1>9. CASE ReviewPasses
  BY <1>9 DEF ReviewPasses
<1>10. CASE ReviewBlocks
  BY <1>10 DEF ReviewBlocks, Fail
<1>11. CASE SelectNothing
  BY <1>11 DEF SelectNothing
<1>12. CASE SelectMisconfigured
  BY <1>12 DEF SelectMisconfigured
<1>13. CASE SelectSuites
  BY <1>13 DEF SelectSuites
<1>14. CASE RunSuite
  BY <1>14 DEF RunSuite
<1>15. CASE SuitesDone
  BY <1>15 DEF SuitesDone
<1>16. CASE Release
  BY <1>16 DEF Release
<1>17. CASE TestsUnverified
  BY <1>17 DEF TestsUnverified, Fail
<1>18. CASE UNCHANGED vars
  BY <1>18 DEF vars
<1> HIDE DEF IInv, TypeOK, StreamInv
<1> QED
  BY <1>1, <1>2, <1>3, <1>4, <1>5, <1>6, <1>7, <1>8, <1>9, <1>10, <1>11,
     <1>12, <1>13, <1>14, <1>15, <1>16, <1>17, <1>18 DEF Next

\* What generate returned, by adapter.
LEMMA ImplStep ==
    ASSUME IInv, TypeOK', [Next]_vars
    PROVE  ImplInv'
<1> USE DEF IInv, TypeOK, ImplInv, Generated, Goto, config, checks
<1>1. CASE ChildPrints
  BY <1>1 DEF ChildPrints
<1>2. CASE ChildFails
  BY <1>2 DEF ChildFails, Fail
<1>3. CASE CodexGenerates
  <2>1. Sound(stream.seen)
    BY <1>3, AcceptedIsSound DEF CodexGenerates
  <2>2. printed'.implement = stream.seen
    BY <1>3 DEF CodexGenerates
  <2>3. impl'.provenance = "live" /\ impl'.writes = applies
    BY <1>3 DEF CodexGenerates, CodexResult
  <2> QED
    BY <1>3, <2>1, <2>2, <2>3 DEF CodexGenerates, Sound
<1>4. CASE DeterministicGenerates
  BY <1>4 DEF DeterministicGenerates
<1>5. CASE OtherGenerates
  BY <1>5 DEF OtherGenerates
<1>6. CASE CodexReviews
  <2>1. printed'.implement = printed.implement
    BY <1>6 DEF CodexReviews
  <2> QED
    BY <1>6, <2>1 DEF CodexReviews, Sound
<1>7. CASE DeterministicReviews
  BY <1>7 DEF DeterministicReviews
<1>8. CASE OtherReviews
  BY <1>8 DEF OtherReviews
<1>9. CASE ReviewPasses
  BY <1>9 DEF ReviewPasses
<1>10. CASE ReviewBlocks
  BY <1>10 DEF ReviewBlocks, Fail
<1>11. CASE SelectNothing
  BY <1>11 DEF SelectNothing
<1>12. CASE SelectMisconfigured
  BY <1>12 DEF SelectMisconfigured
<1>13. CASE SelectSuites
  BY <1>13 DEF SelectSuites
<1>14. CASE RunSuite
  BY <1>14 DEF RunSuite
<1>15. CASE SuitesDone
  BY <1>15 DEF SuitesDone
<1>16. CASE Release
  BY <1>16 DEF Release
<1>17. CASE TestsUnverified
  BY <1>17 DEF TestsUnverified, Fail
<1>18. CASE UNCHANGED vars
  BY <1>18 DEF vars
<1> HIDE DEF IInv, TypeOK, ImplInv
<1> QED
  BY <1>1, <1>2, <1>3, <1>4, <1>5, <1>6, <1>7, <1>8, <1>9, <1>10, <1>11,
     <1>12, <1>13, <1>14, <1>15, <1>16, <1>17, <1>18 DEF Next

\* What review returned, by adapter.
LEMMA ReviewStep ==
    ASSUME IInv, TypeOK', [Next]_vars
    PROVE  ReviewInv'
<1> USE DEF IInv, TypeOK, ReviewInv, Generated, Reviewed, Goto, config, checks
<1>1. CASE ChildPrints
  BY <1>1 DEF ChildPrints
<1>2. CASE ChildFails
  BY <1>2 DEF ChildFails, Fail
<1>3. CASE CodexGenerates
  BY <1>3 DEF CodexGenerates
<1>4. CASE DeterministicGenerates
  BY <1>4 DEF DeterministicGenerates
<1>5. CASE OtherGenerates
  BY <1>5 DEF OtherGenerates
<1>6. CASE CodexReviews
  <2>1. Sound(stream.seen)
    BY <1>6, AcceptedIsSound DEF CodexReviews
  <2>2. printed'.review = stream.seen
    BY <1>6 DEF CodexReviews
  <2>3. /\ review'.verdict = stream.verdict
        /\ Has("file_change", stream) => review'.edited
    BY <1>6 DEF CodexReviews, CodexResult
  <2>4. review'.verdict = "approved" =>
            [type |-> "message", value |-> "approved"] \in stream.seen
    BY <2>3 DEF StreamInv
  <2>5. ~review'.edited => [type |-> "file_change", value |-> None] \notin stream.seen
    BY <2>3 DEF Has
  <2> QED
    BY <1>6, <2>1, <2>2, <2>4, <2>5 DEF CodexReviews, Sound
<1>7. CASE DeterministicReviews
  BY <1>7 DEF DeterministicReviews, FixtureResult, NoResult
<1>8. CASE OtherReviews
  BY <1>8 DEF OtherReviews
<1>9. CASE ReviewPasses
  BY <1>9 DEF ReviewPasses
<1>10. CASE ReviewBlocks
  BY <1>10 DEF ReviewBlocks, Fail
<1>11. CASE SelectNothing
  BY <1>11 DEF SelectNothing
<1>12. CASE SelectMisconfigured
  BY <1>12 DEF SelectMisconfigured
<1>13. CASE SelectSuites
  BY <1>13 DEF SelectSuites
<1>14. CASE RunSuite
  BY <1>14 DEF RunSuite
<1>15. CASE SuitesDone
  BY <1>15 DEF SuitesDone
<1>16. CASE Release
  BY <1>16 DEF Release
<1>17. CASE TestsUnverified
  BY <1>17 DEF TestsUnverified, Fail
<1>18. CASE UNCHANGED vars
  BY <1>18 DEF vars
<1> HIDE DEF IInv, TypeOK, ReviewInv
<1> QED
  BY <1>1, <1>2, <1>3, <1>4, <1>5, <1>6, <1>7, <1>8, <1>9, <1>10, <1>11,
     <1>12, <1>13, <1>14, <1>15, <1>16, <1>17, <1>18 DEF Next

\* Past the gate, the two results are the ones it compared.
LEMMA GateStep ==
    ASSUME IInv, TypeOK', [Next]_vars
    PROVE  GateInv'
<1> USE DEF IInv, GateInv, ReviewGate, FixtureEligible, LiveEligible, RuntimeName, Generated, Reviewed, PastGate, Goto, config, checks
<1>1. CASE ChildPrints
  BY <1>1 DEF ChildPrints
<1>2. CASE ChildFails
  BY <1>2 DEF ChildFails, Fail
<1>3. CASE CodexGenerates
  BY <1>3 DEF CodexGenerates
<1>4. CASE DeterministicGenerates
  BY <1>4 DEF DeterministicGenerates
<1>5. CASE OtherGenerates
  BY <1>5 DEF OtherGenerates
<1>6. CASE CodexReviews
  BY <1>6 DEF CodexReviews
<1>7. CASE DeterministicReviews
  BY <1>7 DEF DeterministicReviews
<1>8. CASE OtherReviews
  BY <1>8 DEF OtherReviews
<1>9. CASE ReviewPasses
  BY <1>9 DEF ReviewPasses
<1>10. CASE ReviewBlocks
  BY <1>10 DEF ReviewBlocks, Fail
<1>11. CASE SelectNothing
  BY <1>11 DEF SelectNothing
<1>12. CASE SelectMisconfigured
  BY <1>12 DEF SelectMisconfigured
<1>13. CASE SelectSuites
  BY <1>13 DEF SelectSuites
<1>14. CASE RunSuite
  BY <1>14 DEF RunSuite
<1>15. CASE SuitesDone
  BY <1>15 DEF SuitesDone
<1>16. CASE Release
  BY <1>16 DEF Release
<1>17. CASE TestsUnverified
  BY <1>17 DEF TestsUnverified, Fail
<1>18. CASE UNCHANGED vars
  BY <1>18 DEF vars
<1> HIDE DEF IInv, GateInv
<1> QED
  BY <1>1, <1>2, <1>3, <1>4, <1>5, <1>6, <1>7, <1>8, <1>9, <1>10, <1>11,
     <1>12, <1>13, <1>14, <1>15, <1>16, <1>17, <1>18 DEF Next

\* The suites are the ones called for, until all have run.
LEMMA SuiteStep ==
    ASSUME IInv, TypeOK', [Next]_vars
    PROVE  SuiteInv'
<1> USE DEF IInv, TypeOK, SuiteInv, Suited, LiveChangePresent, TestsVerified, Goto, config, checks
<1>1. CASE ChildPrints
  BY <1>1 DEF ChildPrints
<1>2. CASE ChildFails
  BY <1>2 DEF ChildFails, Fail
<1>3. CASE CodexGenerates
  BY <1>3 DEF CodexGenerates
<1>4. CASE DeterministicGenerates
  BY <1>4 DEF DeterministicGenerates
<1>5. CASE OtherGenerates
  BY <1>5 DEF OtherGenerates
<1>6. CASE CodexReviews
  BY <1>6 DEF CodexReviews
<1>7. CASE DeterministicReviews
  BY <1>7 DEF DeterministicReviews
<1>8. CASE OtherReviews
  BY <1>8 DEF OtherReviews
<1>9. CASE ReviewPasses
  BY <1>9 DEF ReviewPasses
<1>10. CASE ReviewBlocks
  BY <1>10 DEF ReviewBlocks, Fail
<1>11. CASE SelectNothing
  BY <1>11 DEF SelectNothing
<1>12. CASE SelectMisconfigured
  <2>1. PICK names \in (SUBSET (Suites \union {"sentinel-configuration"})) \ {{}} :
            outcomes' = NotRun(names)
    BY <1>12 DEF SelectMisconfigured, SuitesFor
  <2>2. Refused'
    BY <2>1 DEF NotRun, Refused
  <2> QED
    BY <1>12, <2>2 DEF SelectMisconfigured
<1>13. CASE SelectSuites
  <2>1. ToSet(due') = SuitesFor(impl.diff)
    BY <1>13, SuitesAppended DEF SelectSuites, SuitesFor
  <2>2. Called'
    BY <1>13, <2>1 DEF SelectSuites, Called
  <2> QED
    BY <1>13, <2>2 DEF SelectSuites
<1>14. CASE RunSuite
  <2>1. ToSet(due) = {Head(due)} \union ToSet(due')
    BY <1>14, SuitesInTurn DEF RunSuite
  <2>2. DOMAIN outcomes' = DOMAIN outcomes \union {Head(due)}
    BY <1>14 DEF RunSuite
  <2>3. Called'
    BY <1>14, <2>1, <2>2 DEF RunSuite, Called
  <2> QED
    BY <1>14, <2>3 DEF RunSuite
<1>15. CASE SuitesDone
  BY <1>15 DEF SuitesDone, Called
<1>16. CASE Release
  BY <1>16 DEF Release, Called, Refused
<1>17. CASE TestsUnverified
  BY <1>17 DEF TestsUnverified, Fail
<1>18. CASE UNCHANGED vars
  BY <1>18 DEF vars, Called, Refused
<1> HIDE DEF IInv, TypeOK, SuiteInv
<1> QED
  BY <1>1, <1>2, <1>3, <1>4, <1>5, <1>6, <1>7, <1>8, <1>9, <1>10, <1>11,
     <1>12, <1>13, <1>14, <1>15, <1>16, <1>17, <1>18 DEF Next

-----------------------------------------------------------------------------
(* The theorems                                                            *)

THEOREM Invariance == Spec => []IInv
<1>1. Init => IInv
  <2> SUFFICES ASSUME Init PROVE IInv
    OBVIOUS
  <2>1. TypeOK
    BY NothingHasType, FixtureHasType DEF Init, TypeOK, Steps
  <2> QED
    BY <2>1 DEF Init, IInv, StreamInv, ImplInv, ReviewInv, GateInv, SuiteInv, Nothing,
                Generated, Reviewed, PastGate, Suited
<1>2. IInv /\ [Next]_vars => IInv'
  <2> SUFFICES ASSUME IInv, [Next]_vars PROVE IInv'
    OBVIOUS
  <2>1. TypeOK'
    BY TypeStep DEF IInv
  <2> QED
    BY <2>1, StreamStep, ImplStep, ReviewStep, GateStep, SuiteStep DEF IInv
<1> QED
  BY <1>1, <1>2, PTL DEF Spec

\* Every result, stream and list of suites has the shape its consumers expect.
THEOREM TypeCorrect == Spec => []TypeOK
<1>1. IInv => TypeOK
  BY DEF IInv
<1> QED
  BY <1>1, Invariance, PTL

\* Whatever the children print and in whatever order, a live change is released
\* only on the approval of an independent review that wrote nothing, and only
\* the deterministic runtime's work counts as a fixture (_review_gate).
THEOREM ReleasedIndependently == Spec => []ReleaseIndependent
<1>1. IInv => ReleaseIndependent
  <2> SUFFICES ASSUME IInv, step = "released" PROVE ReleaseIndependent
    BY DEF ReleaseIndependent, LiveRelease
  <2>1. ReviewGate /\ review.verdict = "approved"
    BY DEF IInv, GateInv, PastGate, Reviewed, Generated
  <2>2. adapter = "deterministic" <=> impl.provenance = "fixture"
    BY <2>1 DEF IInv, ImplInv, Generated, FixtureResult, NoResult, ReviewGate,
                FixtureEligible, RuntimeName
  <2>3. review.provenance = impl.provenance
    BY <2>1 DEF IInv, TypeOK, Results, ReviewGate, FixtureEligible, LiveEligible
  <2>4. ASSUME impl.provenance = "live"
        PROVE  /\ {impl.thread, review.thread} \subseteq Threads
               /\ impl.thread # review.thread
               /\ review.provenance = "live"
               /\ ~review.writes /\ ~review.edited
    BY <2>1, <2>4 DEF IInv, TypeOK, Results, ReviewGate, LiveEligible
  <2>5. ASSUME adapter = "codex"
        PROVE  /\ Sound(printed.implement) /\ Sound(printed.review)
               /\ [type |-> "message", value |-> "approved"] \in printed.review
               /\ ~review.edited =>
                    [type |-> "file_change", value |-> None] \notin printed.review
    BY <2>1, <2>5 DEF IInv, ImplInv, ReviewInv, Generated, Reviewed
  <2> QED
    BY <2>1, <2>2, <2>3, <2>4, <2>5 DEF ReleaseIndependent, LiveRelease, Sound
<1> QED
  BY <1>1, Invariance, PTL

\* A live change is released only when the suite of every file it changed ran
\* and passed, and none that was reported did anything else (_sentinel_checks,
\* _tests_verified).
THEOREM ReleasedTested == Spec => []ReleaseTested
<1>1. IInv => ReleaseTested
  <2> SUFFICES ASSUME IInv, step = "released", impl.provenance = "live"
               PROVE  ReleaseTested
    BY DEF ReleaseTested, LiveRelease
  <2>1. /\ LiveChangePresent /\ DOMAIN outcomes # {}
        /\ \A s \in DOMAIN outcomes : outcomes[s] = "passed"
    BY DEF IInv, SuiteInv, TestsVerified
  <2>2. Called /\ due = <<>>
    BY <2>1 DEF IInv, SuiteInv, Refused
  <2>3. "outside" \notin impl.diff /\ DOMAIN outcomes = SuitesFor(impl.diff)
    BY <2>2 DEF Called, ToSet
  <2>4. adapter = "codex" => applies
    BY <2>1 DEF IInv, ImplInv, Generated, LiveChangePresent
  <2>5. impl.diff \subseteq {"backend", "frontend", "docs"}
    BY <2>3 DEF IInv, TypeOK, Results, Paths
  <2>6. ASSUME NEW path \in impl.diff
        PROVE  (IF path = "frontend" THEN "frontend-vitest" ELSE "backend-pytest")
                  \in SuitesFor(impl.diff)
    BY <2>5 DEF SuitesFor, Suites
  <2> QED
    BY <2>1, <2>3, <2>4, <2>6 DEF ReleaseTested, LiveChangePresent
<1> QED
  BY <1>1, Invariance, PTL
=============================================================================

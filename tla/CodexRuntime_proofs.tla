------------------------ MODULE CodexRuntime_proofs ------------------------
(***************************************************************************)
(* What an invocation keeps for every set of paths, every first commit and *)
(* any number of invocations, failing commands and writes of others.       *)
(***************************************************************************)
EXTENDS CodexInv, SequenceTheorems, TLAPS

LEMMA ContentsKnown ==
    /\ Absent \in Contents /\ Original \in Contents
    /\ Absent # Original
BY RuntimeAssumption DEF Absent, Original, Contents

LEMMA Signed ==
    ASSUME TypeOK, NEW author \in {"agent", "stray", "human"}
    PROVE  By(author) \in Contents
BY RuntimeAssumption DEF By, Era, Contents, TypeOK

LEMMA BaseTree ==
    ASSUME TypeOK, commits # <<>>
    PROVE  /\ Base \in Trees /\ HeadTree \in Trees
           /\ base \in 1..Len(commits) /\ Len(commits) \in Nat
BY DEF TypeOK, Base, HeadTree

-----------------------------------------------------------------------------
(* Types                                                                   *)

GitShape ==
    /\ commits \in Seq(Trees) /\ commits # <<>>
    /\ index \in Trees /\ work \in Trees

\* History only grows.
Grown ==
    /\ DOMAIN commits \subseteq DOMAIN commits'
    /\ \A k \in DOMAIN commits : commits'[k] = commits[k]
    /\ Len(commits) <= Len(commits')

LEMMA CommitGrows ==
    ASSUME GitShape, NEW tree \in Trees, commits' = Append(commits, tree)
    PROVE  /\ commits' \in Seq(Trees) /\ commits' # <<>> /\ Grown
           /\ Len(commits') = Len(commits) + 1
           /\ HeadTree' = tree
BY DEF GitShape, Grown, HeadTree

LEMMA SameCommits ==
    ASSUME GitShape, commits' = commits
    PROVE  Grown
BY DEF GitShape, Grown

LEMMA PartsOfRestoring ==
    ASSUME TypeOK, commits # <<>>, NEW paths \in SUBSET Paths,
           RestorePaths(paths) \/ UnlinkPaths(paths)
    PROVE  index' \in Trees /\ work' \in Trees /\ commits' = commits
BY BaseTree, ContentsKnown DEF TypeOK, RestorePaths, UnlinkPaths, Base, Trees

LEMMA PartlyTypes ==
    ASSUME TypeOK, commits # <<>>, Partly
    PROVE  index' \in Trees /\ work' \in Trees /\ commits' = commits
<1> names \subseteq Paths /\ index \in Trees /\ work \in Trees
  BY DEF TypeOK
<1>1. CASE pc = "restore"
  BY <1>1, PartsOfRestoring DEF Partly
<1>2. CASE pc = "unlink"
  BY <1>2, PartsOfRestoring DEF Partly
<1>3. CASE pc # "restore" /\ pc # "unlink"
  BY <1>3 DEF Partly, git
<1> QED
  BY <1>1, <1>2, <1>3

LEMMA GitStep ==
    ASSUME ShapeInv, [Next]_vars
    PROVE  GitShape' /\ Grown
<1> DEFINE Goal == GitShape' /\ Grown
<1> SUFFICES Goal
  OBVIOUS
<1>a. GitShape /\ TypeOK /\ commits # <<>> /\ names \subseteq Paths
  BY DEF ShapeInv, TypeOK, GitShape
<1>b. ASSUME UNCHANGED git PROVE Goal
  BY <1>a, <1>b, SameCommits DEF git, GitShape
<1>c. ASSUME commits' = commits, index' \in Trees, work' \in Trees PROVE Goal
  BY <1>a, <1>c, SameCommits DEF GitShape
<1>d. ASSUME NEW tree \in Trees, commits' = Append(commits, tree),
             index' \in Trees, work' \in Trees
      PROVE  Goal
  BY <1>a, <1>d, CommitGrows DEF GitShape
<1>e. ASSUME NEW p \in Paths, NEW tree \in Trees, NEW c \in Contents
      PROVE  [tree EXCEPT ![p] = c] \in Trees
  BY DEF Trees
<1>f. index \in Trees /\ work \in Trees /\ HeadTree \in Trees
  BY <1>a, BaseTree DEF TypeOK
<1>g. ASSUME NEW p \in Paths
      PROVE  index[p] \in Contents /\ work[p] \in Contents /\ HeadTree[p] \in Contents
  BY <1>f DEF Trees
<1> HIDE DEF Goal
<1>1. CASE Begin
  BY <1>1, <1>b DEF Begin
<1>2. CASE ReadHead
  BY <1>2, <1>b DEF ReadHead
<1>3. CASE RefuseDirty
  BY <1>3, <1>b DEF RefuseDirty
<1>4. CASE AcceptClean
  BY <1>4, <1>b DEF AcceptClean
<1>5. CASE ChildTimesOut
  BY <1>5, <1>b DEF ChildTimesOut
<1>6. CASE CompareHead
  BY <1>6, <1>b DEF CompareHead
<1>7. CASE ListNames
  BY <1>7, <1>b DEF ListNames
<1>8. CASE ReadChange
  BY <1>8, <1>b DEF ReadChange
<1>9. CASE ReadVanished
  BY <1>9, <1>b DEF ReadVanished
<1>10. CASE CheckHead
  BY <1>10, <1>b DEF CheckHead
<1>11. CASE ListTracked
  BY <1>11, <1>b DEF ListTracked
<1>12. CASE Restore
  BY <1>12, <1>a, <1>c, PartsOfRestoring DEF Restore
<1>13. CASE ListUntracked
  BY <1>13, <1>b DEF ListUntracked
<1>14. CASE Unlink
  BY <1>14, <1>a, <1>c, PartsOfRestoring DEF Unlink
<1>15. CASE CheckStatus
  BY <1>15, <1>b DEF CheckStatus
<1>16. CASE ChildSucceeds
  BY <1>16, <1>b DEF ChildSucceeds
<1>17. CASE ChildFails
  BY <1>17, <1>b DEF ChildFails
<1>18. CASE ChildCommits
  BY <1>18, <1>d, <1>f DEF ChildCommits
<1>19. CASE GitFails
  BY <1>19, <1>a, <1>c, PartlyTypes DEF GitFails
<1>20. CASE GitTimesOut
  BY <1>20, <1>a, <1>c, PartlyTypes DEF GitTimesOut
<1>21. CASE Crash
  BY <1>21, <1>a, <1>c, PartlyTypes DEF Crash
<1>22. CASE HumanCommits
  BY <1>22, <1>d, <1>f DEF HumanCommits
<1>23. ASSUME NEW p \in Paths, ChildWrites(p) PROVE Goal
  <2>1. By("agent") \in Contents /\ Absent \in Contents
    BY <1>a, Signed, ContentsKnown
  <2> QED
    BY <1>23, <2>1, <1>c, <1>e, <1>f, <1>g DEF ChildWrites
<1>24. ASSUME NEW p \in Paths, ChildStages(p) PROVE Goal
  <2>1. Absent \in Contents
    BY ContentsKnown
  <2> QED
    BY <1>24, <2>1, <1>c, <1>e, <1>f, <1>g DEF ChildStages
<1>25. ASSUME NEW p \in Paths, StrayWrites(p) PROVE Goal
  <2>1. By("stray") \in Contents /\ Absent \in Contents
    BY <1>a, Signed, ContentsKnown
  <2> QED
    BY <1>25, <2>1, <1>c, <1>e, <1>f, <1>g DEF StrayWrites
<1>26. ASSUME NEW p \in Paths, HumanEdits(p) PROVE Goal
  <2>1. By("human") \in Contents /\ Absent \in Contents
    BY <1>a, Signed, ContentsKnown
  <2> QED
    BY <1>26, <2>1, <1>c, <1>e, <1>f, <1>g DEF HumanEdits
<1>27. CASE UNCHANGED vars
  BY <1>27, <1>b DEF vars
<1> QED
  BY <1>1, <1>2, <1>3, <1>4, <1>5, <1>6, <1>7, <1>8, <1>9, <1>10, <1>11, <1>12, <1>13, <1>14, <1>15, <1>16, <1>17, <1>18, <1>19, <1>20, <1>21, <1>22, <1>23, <1>24, <1>25, <1>26, <1>27 DEF Next, Runtime, World, Quiet

CallShape ==
    /\ pc \in {"idle", "head", "status"} \union InProgress
    /\ names \subseteq Paths
    /\ outcome \in {"none", "refused", "success", "failed", "loud", "lost"}
    /\ (outcome = "none") = (pc # "idle" \/ round = 0)
    /\ happened \subseteq {"staged", "committed", "foreign", "fault"}
    /\ round \in 0..MaxInvocations
    /\ pc # "idle" => round > 0
    /\ stray \in BOOLEAN /\ mishaps \in Nat

LEMMA ShapeParts == ShapeInv <=> GitShape /\ CallShape /\ base \in DOMAIN commits
BY Zenon DEF ShapeInv, TypeOK, GitShape, CallShape

LEMMA BaseStep ==
    ASSUME ShapeInv, [Next]_vars
    PROVE  /\ base' \in DOMAIN commits'
           /\ ~ReadHead => base' = base /\ commits'[base'] = commits[base]
<1>1. Grown /\ GitShape /\ base \in DOMAIN commits
  BY GitStep, ShapeParts
<1>2. CASE ReadHead
  <2> Len(commits) \in DOMAIN commits
    BY <1>1 DEF GitShape
  <2> QED
    BY <1>1, <1>2 DEF Grown, ReadHead
<1>3. CASE ~ReadHead
  <2>1. base' = base
    BY <1>3 DEF Next, Runtime, World, Quiet, Begin, RefuseDirty, AcceptClean, ChildTimesOut, CompareHead, ListNames, ReadChange, ReadVanished, CheckHead, ListTracked, Restore, ListUntracked, Unlink, CheckStatus, ChildSucceeds, ChildFails, ChildCommits, GitFails, GitTimesOut, Crash, HumanCommits, ChildWrites, ChildStages, StrayWrites, HumanEdits, Goto, End, Listed, Note, vars, call
  <2> QED
    BY <1>1, <2>1 DEF Grown
<1> QED
  BY <1>2, <1>3

LEMMA CallStep ==
    ASSUME CallShape, [Next]_vars
    PROVE  CallShape'
<1> USE RuntimeAssumption DEF Mishap
<1>1. CASE Begin
  BY <1>1 DEF Begin, env, CallShape, InProgress, Cleaning
<1>2. CASE ReadHead
  BY <1>2 DEF ReadHead, env, CallShape, InProgress, Cleaning
<1>3. CASE RefuseDirty
  BY <1>3 DEF RefuseDirty, End, env, CallShape, InProgress, Cleaning
<1>4. CASE AcceptClean
  BY <1>4 DEF AcceptClean, Goto, env, CallShape, InProgress, Cleaning
<1>5. CASE ChildTimesOut
  BY <1>5 DEF ChildTimesOut, Goto, env, CallShape, InProgress, Cleaning
<1>6. CASE CompareHead
  BY <1>6 DEF CompareHead, Goto, env, CallShape, InProgress, Cleaning
<1>7. CASE ListNames
  BY <1>7 DEF ListNames, Listed, env, CallShape, InProgress, Cleaning, DiffNames, Others
<1>8. CASE ReadChange
  BY <1>8 DEF ReadChange, env, CallShape, InProgress, Cleaning
<1>9. CASE ReadVanished
  BY <1>9 DEF ReadVanished, Listed, env, CallShape, InProgress, Cleaning
<1>10. CASE CheckHead
  <2>1. CASE Goto("tracked")
    BY <1>10, <2>1 DEF CheckHead, Goto, env, CallShape, InProgress, Cleaning
  <2>2. CASE End("loud")
    BY <1>10, <2>2 DEF CheckHead, End, env, CallShape, InProgress, Cleaning
  <2> QED
    BY <1>10, <2>1, <2>2 DEF CheckHead
<1>11. CASE ListTracked
  BY <1>11 DEF ListTracked, Listed, env, CallShape, InProgress, Cleaning, DiffNames
<1>12. CASE Restore
  BY <1>12 DEF Restore, Listed, env, CallShape, InProgress, Cleaning
<1>13. CASE ListUntracked
  BY <1>13 DEF ListUntracked, Listed, env, CallShape, InProgress, Cleaning, Others
<1>14. CASE Unlink
  BY <1>14 DEF Unlink, Listed, env, CallShape, InProgress, Cleaning
<1>15. CASE CheckStatus
  BY <1>15 DEF CheckStatus, End, env, CallShape, InProgress, Cleaning
<1>16. CASE ChildSucceeds
  BY <1>16 DEF ChildSucceeds, Goto, env, CallShape, InProgress, Cleaning
<1>17. CASE ChildFails
  BY <1>17 DEF ChildFails, Goto, env, CallShape, InProgress, Cleaning
<1>18. CASE ChildCommits
  BY <1>18 DEF ChildCommits, Note, env, CallShape, InProgress, Cleaning
<1>19. CASE GitFails
  BY <1>19 DEF GitFails, env, CallShape, InProgress, Cleaning
<1>20. CASE GitTimesOut
  BY <1>20 DEF GitTimesOut, End, env, CallShape, InProgress, Cleaning
<1>21. CASE Crash
  <2>1. stray' \in BOOLEAN
    BY <1>21 DEF Crash, CallShape
  <2> QED
    BY <1>21, <2>1 DEF Crash, End, CallShape, InProgress, Cleaning
<1>22. CASE HumanCommits
  BY <1>22 DEF HumanCommits, Note, env, CallShape, InProgress, Cleaning
<1>23. ASSUME NEW p \in Paths, ChildWrites(p) PROVE CallShape'
  BY <1>23 DEF ChildWrites, call, env, CallShape, InProgress, Cleaning
<1>24. ASSUME NEW p \in Paths, ChildStages(p) PROVE CallShape'
  BY <1>24 DEF ChildStages, Note, env, CallShape, InProgress, Cleaning
<1>25. ASSUME NEW p \in Paths, StrayWrites(p) PROVE CallShape'
  BY <1>25 DEF StrayWrites, Note, env, CallShape, InProgress, Cleaning
<1>26. ASSUME NEW p \in Paths, HumanEdits(p) PROVE CallShape'
  BY <1>26 DEF HumanEdits, Note, env, CallShape, InProgress, Cleaning
<1>27. CASE UNCHANGED vars
  BY <1>27 DEF vars, git, call, env, CallShape, InProgress, Cleaning
<1> QED
  BY <1>1, <1>2, <1>3, <1>4, <1>5, <1>6, <1>7, <1>8, <1>9, <1>10, <1>11, <1>12, <1>13, <1>14, <1>15, <1>16, <1>17, <1>18, <1>19, <1>20, <1>21, <1>22, <1>23, <1>24, <1>25, <1>26, <1>27 DEF Next, Runtime, World, Quiet

LEMMA ShapeStep ==
    ASSUME ShapeInv, [Next]_vars
    PROVE  ShapeInv'
<1>1. GitShape' /\ CallShape' /\ base' \in DOMAIN commits'
  BY GitStep, CallStep, BaseStep, ShapeParts
<1> QED
  BY <1>1, Zenon DEF ShapeInv, TypeOK, GitShape, CallShape

LEMMA Standing ==
    ASSUME ShapeInv
    PROVE  /\ base \in 1..Len(commits) /\ Len(commits) \in Nat
           /\ Base \in Trees /\ HeadTree \in Trees
           /\ index \in Trees /\ work \in Trees
           /\ NothingMoved => HeadTree = Base
           /\ pc \in InProgress => Era = round /\ round > 0
           /\ names \subseteq Paths
<1>1. TypeOK /\ commits # <<>> /\ (pc # "idle" => round > 0)
  BY DEF ShapeInv
<1>2. pc \in InProgress => pc # "idle"
  BY DEF InProgress, Cleaning
<1> QED
  BY <1>1, <1>2, BaseTree DEF TypeOK, HeadTree, Base, NothingMoved, Era

\* The baseline of an invocation is what it recorded.
LEMMA BaseStays ==
    ASSUME ShapeInv, [Next]_vars, base' = base
    PROVE  Base' = Base
<1> Grown /\ base \in DOMAIN commits
  BY GitStep, ShapeParts
<1> QED
  BY DEF Grown, Base

\* Everything but a commit leaves HEAD where it is, and a commit moves it on.
LEMMA HeadMoves ==
    ASSUME ShapeInv, [Next]_vars
    PROVE  /\ ~ChildCommits /\ ~HumanCommits => commits' = commits
           /\ ChildCommits \/ HumanCommits => Len(commits') = Len(commits) + 1
<1>a. GitShape /\ TypeOK /\ commits # <<>> /\ HeadTree \in Trees
  BY ShapeParts, Standing DEF ShapeInv
<1>1. CASE ChildCommits
  BY <1>a, <1>1, CommitGrows DEF ChildCommits, TypeOK
<1>2. CASE HumanCommits
  BY <1>a, <1>2, CommitGrows DEF HumanCommits, TypeOK
<1>3. CASE ~ChildCommits /\ ~HumanCommits
  <2>1. CASE Partly
    BY <1>a, <2>1, PartlyTypes, <1>3
  <2>2. CASE ~Partly
    BY <1>3, <2>2 DEF Next, Runtime, World, Quiet, git, vars, RestorePaths, UnlinkPaths,
        Begin, ReadHead, RefuseDirty, AcceptClean, ChildTimesOut, CompareHead, ListNames, ReadChange, ReadVanished, CheckHead, ListTracked, Restore, ListUntracked, Unlink, CheckStatus, ChildSucceeds, ChildFails, GitFails, GitTimesOut, Crash, ChildWrites, ChildStages, StrayWrites, HumanEdits
  <2> QED
    BY <1>3, <2>1, <2>2
<1> QED
  BY <1>1, <1>2, <1>3

-----------------------------------------------------------------------------
(* The inductive invariant                                                 *)

LEMMA HeadStep ==
    ASSUME ShapeInv, HeadInv, [Next]_vars
    PROVE  HeadInv'
<1>a. /\ base \in 1..Len(commits) /\ Len(commits) \in Nat
      /\ base' \in 1..Len(commits')
  <2> GitShape' /\ base' \in DOMAIN commits'
    BY GitStep, BaseStep
  <2> QED
    BY Standing DEF GitShape
<1>b. /\ ~ChildCommits /\ ~HumanCommits => commits' = commits
      /\ ChildCommits \/ HumanCommits => Len(commits') = Len(commits) + 1
  BY HeadMoves
<1>c. Partly => commits' = commits
  BY PartlyTypes DEF ShapeInv
<1>1. CASE Begin
  BY <1>1 DEF Begin, git, call, HeadInv, NothingMoved, Undisturbed, InProgress, Cleaning
<1>2. CASE ReadHead
  BY <1>2 DEF ReadHead, git, call, HeadInv, NothingMoved, Undisturbed, InProgress, Cleaning
<1>3. CASE RefuseDirty
  BY <1>3 DEF RefuseDirty, End, git, call, HeadInv, NothingMoved, Undisturbed, InProgress, Cleaning
<1>4. CASE AcceptClean
  BY <1>4 DEF AcceptClean, Goto, git, call, HeadInv, NothingMoved, Undisturbed, InProgress, Cleaning
<1>5. CASE ChildTimesOut
  BY <1>5 DEF ChildTimesOut, Goto, git, call, HeadInv, NothingMoved, Undisturbed, InProgress, Cleaning
<1>6. CASE CompareHead
  BY <1>6 DEF CompareHead, Goto, git, call, HeadInv, NothingMoved, Undisturbed, InProgress, Cleaning
<1>7. CASE ListNames
  BY <1>7 DEF ListNames, Listed, git, call, HeadInv, NothingMoved, Undisturbed, InProgress, Cleaning
<1>8. CASE ReadChange
  BY <1>8 DEF ReadChange, git, call, HeadInv, NothingMoved, Undisturbed, InProgress, Cleaning
<1>9. CASE ReadVanished
  BY <1>9 DEF ReadVanished, Listed, git, call, HeadInv, NothingMoved, Undisturbed, InProgress, Cleaning
<1>10. CASE CheckHead
  BY <1>10 DEF CheckHead, End, Goto, git, call, HeadInv, NothingMoved, Undisturbed, InProgress, Cleaning
<1>11. CASE ListTracked
  BY <1>11 DEF ListTracked, Listed, git, call, HeadInv, NothingMoved, Undisturbed, InProgress, Cleaning
<1>12. CASE Restore
  BY <1>12 DEF Restore, RestorePaths, Listed, git, call, HeadInv, NothingMoved, Undisturbed, InProgress, Cleaning
<1>13. CASE ListUntracked
  BY <1>13 DEF ListUntracked, Listed, git, call, HeadInv, NothingMoved, Undisturbed, InProgress, Cleaning
<1>14. CASE Unlink
  BY <1>14 DEF Unlink, UnlinkPaths, Listed, git, call, HeadInv, NothingMoved, Undisturbed, InProgress, Cleaning
<1>15. CASE CheckStatus
  BY <1>15 DEF CheckStatus, End, git, call, HeadInv, NothingMoved, Undisturbed, InProgress, Cleaning
<1>16. CASE ChildSucceeds
  BY <1>16 DEF ChildSucceeds, Goto, git, call, HeadInv, NothingMoved, Undisturbed, InProgress, Cleaning
<1>17. CASE ChildFails
  BY <1>17 DEF ChildFails, Goto, git, call, HeadInv, NothingMoved, Undisturbed, InProgress, Cleaning
<1>18. CASE ChildCommits
  BY <1>18, <1>a, <1>b DEF ChildCommits, Note, git, call, HeadInv, NothingMoved, Undisturbed, InProgress, Cleaning
<1>19. CASE GitFails
  BY <1>19, <1>a, <1>c DEF GitFails, git, call, HeadInv, NothingMoved, Undisturbed, InProgress, Cleaning
<1>20. CASE GitTimesOut
  BY <1>20, <1>a, <1>c DEF GitTimesOut, End, git, call, HeadInv, NothingMoved, Undisturbed, InProgress, Cleaning
<1>21. CASE Crash
  BY <1>21, <1>a, <1>c DEF Crash, End, git, call, HeadInv, NothingMoved, Undisturbed, InProgress, Cleaning
<1>22. CASE HumanCommits
  BY <1>22, <1>a, <1>b DEF HumanCommits, Note, git, call, HeadInv, NothingMoved, Undisturbed, InProgress, Cleaning
<1>23. ASSUME NEW p \in Paths, ChildWrites(p) PROVE HeadInv'
  BY <1>23 DEF ChildWrites, call, git, call, HeadInv, NothingMoved, Undisturbed, InProgress, Cleaning
<1>24. ASSUME NEW p \in Paths, ChildStages(p) PROVE HeadInv'
  BY <1>24 DEF ChildStages, Note, git, call, HeadInv, NothingMoved, Undisturbed, InProgress, Cleaning
<1>25. ASSUME NEW p \in Paths, StrayWrites(p) PROVE HeadInv'
  BY <1>25 DEF StrayWrites, Note, git, call, HeadInv, NothingMoved, Undisturbed, InProgress, Cleaning
<1>26. ASSUME NEW p \in Paths, HumanEdits(p) PROVE HeadInv'
  BY <1>26 DEF HumanEdits, Note, git, call, HeadInv, NothingMoved, Undisturbed, InProgress, Cleaning
<1>27. CASE UNCHANGED vars
  BY <1>27 DEF vars, git, call, env, HeadInv, NothingMoved, Undisturbed, InProgress, Cleaning
<1> QED
  BY <1>1, <1>2, <1>3, <1>4, <1>5, <1>6, <1>7, <1>8, <1>9, <1>10, <1>11, <1>12, <1>13, <1>14, <1>15, <1>16, <1>17, <1>18, <1>19, <1>20, <1>21, <1>22, <1>23, <1>24, <1>25, <1>26, <1>27 DEF Next, Runtime, World, Quiet

LEMMA IndexStep ==
    ASSUME ShapeInv, HeadInv, IndexInv, [Next]_vars
    PROVE  IndexInv'
<1>a. /\ Base \in Trees /\ HeadTree \in Trees /\ index \in Trees /\ work \in Trees
      /\ NothingMoved => HeadTree = Base
      /\ pc \in InProgress => Era = round /\ round > 0
      /\ names \subseteq Paths
  BY Standing
<1>b. base' = base => Base' = Base
  BY BaseStays
<1>1. CASE Begin
  BY <1>1 DEF Begin, git, call, IndexInv, Unstaged, Undisturbed, InProgress, Cleaning
<1>2. CASE ReadHead
  BY <1>2 DEF ReadHead, git, call, IndexInv, Unstaged, Undisturbed, InProgress, Cleaning
<1>3. CASE RefuseDirty
  BY <1>3, <1>b DEF RefuseDirty, End, git, call, IndexInv, Unstaged, Undisturbed, InProgress, Cleaning
<1>4. CASE AcceptClean
  <2>1. \A p \in Paths : index[p] = HeadTree[p]
    BY <1>4 DEF AcceptClean, StatusEntries
  <2>2. index = HeadTree
    BY <1>a, <2>1 DEF Trees
  <2>3. Undisturbed => HeadTree = Base
    BY <1>4, <1>a DEF AcceptClean, HeadInv
  <2> QED
    BY <1>4, <1>b, <2>2, <2>3 DEF AcceptClean, Goto, git, IndexInv, Unstaged, Undisturbed
<1>5. CASE ChildTimesOut
  BY <1>5, <1>b DEF ChildTimesOut, Goto, git, call, IndexInv, Unstaged, Undisturbed, InProgress, Cleaning
<1>6. CASE CompareHead
  BY <1>6, <1>b DEF CompareHead, Goto, git, call, IndexInv, Unstaged, Undisturbed, InProgress, Cleaning
<1>7. CASE ListNames
  BY <1>7, <1>b DEF ListNames, Listed, git, call, IndexInv, Unstaged, Undisturbed, InProgress, Cleaning
<1>8. CASE ReadChange
  BY <1>8, <1>b DEF ReadChange, git, call, IndexInv, Unstaged, Undisturbed, InProgress, Cleaning
<1>9. CASE ReadVanished
  BY <1>9, <1>b DEF ReadVanished, Listed, git, call, IndexInv, Unstaged, Undisturbed, InProgress, Cleaning
<1>10. CASE CheckHead
  BY <1>10, <1>b DEF CheckHead, End, Goto, git, call, IndexInv, Unstaged, Undisturbed, InProgress, Cleaning
<1>11. CASE ListTracked
  BY <1>11, <1>b DEF ListTracked, Listed, git, call, IndexInv, Unstaged, Undisturbed, InProgress, Cleaning
<1>12. CASE Restore
  <2>1. Base' = Base /\ happened' = happened /\ pc \in InProgress
    BY <1>12, <1>b DEF Restore, Listed, InProgress, Cleaning
  <2>2. Unstaged => index' = Base
    <3> SUFFICES ASSUME Unstaged PROVE index' = Base
      OBVIOUS
    <3>1. index = Base
      BY <2>1 DEF IndexInv
    <3>2. index' = [p \in Paths |-> IF p \in names THEN Base[p] ELSE index[p]]
      BY <1>12 DEF Restore, RestorePaths, Base
    <3> QED
      BY <1>a, <3>1, <3>2 DEF Trees
  <2> QED
    BY <2>1, <2>2 DEF IndexInv, Unstaged, Undisturbed
<1>13. CASE ListUntracked
  BY <1>13, <1>b DEF ListUntracked, Listed, git, call, IndexInv, Unstaged, Undisturbed, InProgress, Cleaning
<1>14. CASE Unlink
  BY <1>14, <1>b DEF Unlink, UnlinkPaths, Listed, IndexInv, Unstaged, Undisturbed, InProgress, Cleaning
<1>15. CASE CheckStatus
  BY <1>15, <1>b DEF CheckStatus, End, git, call, IndexInv, Unstaged, Undisturbed, InProgress, Cleaning
<1>16. CASE ChildSucceeds
  BY <1>16, <1>b DEF ChildSucceeds, Goto, git, call, IndexInv, Unstaged, Undisturbed, InProgress, Cleaning
<1>17. CASE ChildFails
  BY <1>17, <1>b DEF ChildFails, Goto, git, call, IndexInv, Unstaged, Undisturbed, InProgress, Cleaning
<1>18. CASE ChildCommits
  BY <1>18, <1>b DEF ChildCommits, Note, git, call, IndexInv, Unstaged, Undisturbed, InProgress, Cleaning
<1>19. CASE GitFails
  BY <1>19, <1>b DEF GitFails, Partly, git, IndexInv, Unstaged, Undisturbed, InProgress, Cleaning
<1>20. CASE GitTimesOut
  BY <1>20, <1>b DEF GitTimesOut, End, Partly, git, IndexInv, Unstaged, Undisturbed, InProgress, Cleaning
<1>21. CASE Crash
  BY <1>21, <1>b DEF Crash, End, Partly, git, IndexInv, Unstaged, Undisturbed, InProgress, Cleaning
<1>22. CASE HumanCommits
  BY <1>22, <1>b DEF HumanCommits, Note, git, call, IndexInv, Unstaged, Undisturbed, InProgress, Cleaning
<1>23. ASSUME NEW p \in Paths, ChildWrites(p) PROVE IndexInv'
  BY <1>23, <1>b DEF ChildWrites, call, git, call, IndexInv, Unstaged, Undisturbed, InProgress, Cleaning
<1>24. ASSUME NEW p \in Paths, ChildStages(p) PROVE IndexInv'
  BY <1>24, <1>b DEF ChildStages, Note, git, call, IndexInv, Unstaged, Undisturbed, InProgress, Cleaning
<1>25. ASSUME NEW p \in Paths, StrayWrites(p) PROVE IndexInv'
  BY <1>25, <1>b DEF StrayWrites, Note, git, call, IndexInv, Unstaged, Undisturbed, InProgress, Cleaning
<1>26. ASSUME NEW p \in Paths, HumanEdits(p) PROVE IndexInv'
  BY <1>26, <1>b DEF HumanEdits, Note, git, call, IndexInv, Unstaged, Undisturbed, InProgress, Cleaning
<1>27. CASE UNCHANGED vars
  BY <1>27, <1>b DEF vars, git, call, env, IndexInv, Unstaged, Undisturbed, InProgress, Cleaning
<1> QED
  BY <1>1, <1>2, <1>3, <1>4, <1>5, <1>6, <1>7, <1>8, <1>9, <1>10, <1>11, <1>12, <1>13, <1>14, <1>15, <1>16, <1>17, <1>18, <1>19, <1>20, <1>21, <1>22, <1>23, <1>24, <1>25, <1>26, <1>27 DEF Next, Runtime, World, Quiet

LEMMA FreshStep ==
    ASSUME ShapeInv, FreshInv, [Next]_vars
    PROVE  FreshInv'
<1>a. /\ Base \in Trees /\ HeadTree \in Trees /\ index \in Trees /\ work \in Trees
      /\ NothingMoved => HeadTree = Base
      /\ pc \in InProgress => Era = round /\ round > 0
      /\ names \subseteq Paths
  BY Standing
<1>b. base' = base => Base' = Base
  BY BaseStays
<1>1. CASE Begin
  BY <1>1 DEF Begin, git, call, FreshInv, Fresh, NothingMoved
<1>2. CASE ReadHead
  BY <1>2 DEF ReadHead, git, call, FreshInv, Fresh, NothingMoved
<1>3. CASE RefuseDirty
  BY <1>3, <1>b DEF RefuseDirty, End, git, call, FreshInv, Fresh, NothingMoved
<1>4. CASE AcceptClean
  <2>1. \A p \in Paths : work[p] = HeadTree[p]
    BY <1>4 DEF AcceptClean, StatusEntries
  <2>2. NothingMoved => \A p \in Paths : work[p] = Base[p]
    BY <1>a, <2>1
  <2> QED
    BY <1>4, <1>b, <2>2 DEF AcceptClean, Goto, git, call, FreshInv, Fresh, NothingMoved
<1>5. CASE ChildTimesOut
  BY <1>5, <1>b DEF ChildTimesOut, Goto, git, call, FreshInv, Fresh, NothingMoved
<1>6. CASE CompareHead
  BY <1>6, <1>b DEF CompareHead, Goto, git, call, FreshInv, Fresh, NothingMoved
<1>7. CASE ListNames
  BY <1>7, <1>b DEF ListNames, Listed, git, call, FreshInv, Fresh, NothingMoved
<1>8. CASE ReadChange
  BY <1>8, <1>b DEF ReadChange, git, call, FreshInv, Fresh, NothingMoved
<1>9. CASE ReadVanished
  BY <1>9, <1>b DEF ReadVanished, Listed, git, call, FreshInv, Fresh, NothingMoved
<1>10. CASE CheckHead
  BY <1>10, <1>b DEF CheckHead, End, Goto, git, call, FreshInv, Fresh, NothingMoved
<1>11. CASE ListTracked
  BY <1>11, <1>b DEF ListTracked, Listed, git, call, FreshInv, Fresh, NothingMoved
<1>12. CASE Restore
  BY <1>12 DEF Restore, Listed, FreshInv, Fresh, NothingMoved
<1>13. CASE ListUntracked
  BY <1>13, <1>b DEF ListUntracked, Listed, git, call, FreshInv, Fresh, NothingMoved
<1>14. CASE Unlink
  BY <1>14 DEF Unlink, Listed, FreshInv, Fresh, NothingMoved
<1>15. CASE CheckStatus
  BY <1>15, <1>b DEF CheckStatus, End, git, call, FreshInv, Fresh, NothingMoved
<1>16. CASE ChildSucceeds
  BY <1>16, <1>b DEF ChildSucceeds, Goto, git, call, FreshInv, Fresh, NothingMoved
<1>17. CASE ChildFails
  BY <1>17, <1>b DEF ChildFails, Goto, git, call, FreshInv, Fresh, NothingMoved
<1>18. CASE ChildCommits
  <2>1. /\ Len(commits') = Len(commits) + 1
        /\ base \in 1..Len(commits) /\ Len(commits) \in Nat
    BY <1>18, HeadMoves, Standing
  <2> QED
    BY <1>18, <2>1 DEF ChildCommits, Note, FreshInv, Fresh, NothingMoved
<1>19. CASE GitFails
  BY <1>19, <1>b DEF GitFails, git, FreshInv, Fresh, NothingMoved, InProgress, Cleaning
<1>20. CASE GitTimesOut
  BY <1>20, <1>b DEF GitTimesOut, End, git, FreshInv, Fresh, NothingMoved, InProgress, Cleaning
<1>21. CASE Crash
  BY <1>21, <1>b DEF Crash, End, git, FreshInv, Fresh, NothingMoved, InProgress, Cleaning
<1>22. CASE HumanCommits
  <2>1. /\ Len(commits') = Len(commits) + 1
        /\ base \in 1..Len(commits) /\ Len(commits) \in Nat
    BY <1>22, HeadMoves, Standing
  <2> QED
    BY <1>22, <1>b, <2>1 DEF HumanCommits, Note, FreshInv, Fresh, NothingMoved
<1>23. ASSUME NEW p \in Paths, ChildWrites(p) PROVE FreshInv'
  <2>1. Base' = Base /\ pc = "running" /\ UNCHANGED <<pc, round, commits, base>>
    BY <1>23, <1>b DEF ChildWrites, call
  <2>2. PICK c \in {By("agent"), Absent, HeadTree[p]} : work' = [work EXCEPT ![p] = c]
    BY <1>23 DEF ChildWrites
  <2>3. ASSUME NothingMoved
        PROVE  c \in {Absent, Base[p]} \/ c.era = round
    BY <1>a, <2>1, <2>3 DEF By, InProgress
  <2>4. ASSUME NothingMoved, NEW q \in Paths
        PROVE  Fresh(q)'
    <3>1. Fresh(q)
      BY <2>1, <2>4 DEF FreshInv
    <3>2. work'[q] = IF q = p THEN c ELSE work[q]
      BY <1>a, <2>2 DEF Trees
    <3> QED
      BY <2>1, <2>3, <2>4, <3>1, <3>2 DEF Fresh
  <2> QED
    BY <2>1, <2>4 DEF FreshInv, NothingMoved
<1>24. ASSUME NEW p \in Paths, ChildStages(p) PROVE FreshInv'
  BY <1>24, <1>b DEF ChildStages, Note, git, call, FreshInv, Fresh, NothingMoved
<1>25. ASSUME NEW p \in Paths, StrayWrites(p) PROVE FreshInv'
  <2>1. Base' = Base /\ UNCHANGED <<pc, round, commits, base>>
    BY <1>25, <1>b DEF StrayWrites, Note
  <2>2. PICK c \in {By("stray"), Absent} : work' = [work EXCEPT ![p] = c]
    BY <1>25 DEF StrayWrites
  <2>3. ASSUME pc \in {"names", "read", "running", "diff"}
        PROVE  c = Absent \/ c.era = round
    BY <1>a, <2>1, <2>3 DEF By, InProgress
  <2>4. ASSUME pc \in {"names", "read", "running", "diff"}, NEW q \in Paths, Fresh(q)
        PROVE  Fresh(q)'
    <3>1. work'[q] = IF q = p THEN c ELSE work[q]
      BY <1>a, <2>2 DEF Trees
    <3> QED
      BY <2>1, <2>3, <2>4, <3>1 DEF Fresh
  <2> QED
    BY <2>1, <2>4 DEF FreshInv, NothingMoved
<1>26. ASSUME NEW p \in Paths, HumanEdits(p) PROVE FreshInv'
  <2>1. Base' = Base /\ UNCHANGED <<pc, round, commits, base>>
    BY <1>26, <1>b DEF HumanEdits, Note
  <2>2. PICK c \in {By("human"), Absent} : work' = [work EXCEPT ![p] = c]
    BY <1>26 DEF HumanEdits
  <2>3. ASSUME pc \in {"names", "read", "running", "diff"}
        PROVE  c = Absent \/ c.era = round
    BY <1>a, <2>1, <2>3 DEF By, InProgress
  <2>4. ASSUME pc \in {"names", "read", "running", "diff"}, NEW q \in Paths, Fresh(q)
        PROVE  Fresh(q)'
    <3>1. work'[q] = IF q = p THEN c ELSE work[q]
      BY <1>a, <2>2 DEF Trees
    <3> QED
      BY <2>1, <2>3, <2>4, <3>1 DEF Fresh
  <2> QED
    BY <2>1, <2>4 DEF FreshInv, NothingMoved
<1>27. CASE UNCHANGED vars
  BY <1>27, <1>b DEF vars, git, call, env, FreshInv, Fresh, NothingMoved
<1> QED
  BY <1>1, <1>2, <1>3, <1>4, <1>5, <1>6, <1>7, <1>8, <1>9, <1>10, <1>11, <1>12, <1>13, <1>14, <1>15, <1>16, <1>17, <1>18, <1>19, <1>20, <1>21, <1>22, <1>23, <1>24, <1>25, <1>26, <1>27 DEF Next, Runtime, World, Quiet

LEMMA TheirsStep ==
    ASSUME ShapeInv, TheirsInv, [Next]_vars
    PROVE  TheirsInv'
<1>a. /\ Base \in Trees /\ HeadTree \in Trees /\ index \in Trees /\ work \in Trees
      /\ NothingMoved => HeadTree = Base
      /\ pc \in InProgress => Era = round /\ round > 0
      /\ names \subseteq Paths
  BY Standing
<1>b. base' = base => Base' = Base
  BY BaseStays
<1>1. CASE Begin
  BY <1>1 DEF Begin, git, call, TheirsInv, Theirs, NothingMoved
<1>2. CASE ReadHead
  BY <1>2 DEF ReadHead, git, call, TheirsInv, Theirs, NothingMoved
<1>3. CASE RefuseDirty
  BY <1>3, <1>b DEF RefuseDirty, End, git, call, TheirsInv, Theirs, NothingMoved
<1>4. CASE AcceptClean
  <2>1. \A p \in Paths : work[p] = HeadTree[p]
    BY <1>4 DEF AcceptClean, StatusEntries
  <2>2. NothingMoved => \A p \in Paths : work[p] = Base[p]
    BY <1>a, <2>1
  <2> QED
    BY <1>4, <1>b, <2>2 DEF AcceptClean, Goto, git, call, TheirsInv, Theirs, NothingMoved
<1>5. CASE ChildTimesOut
  BY <1>5, <1>b DEF ChildTimesOut, Goto, git, call, TheirsInv, Theirs, NothingMoved
<1>6. CASE CompareHead
  BY <1>6, <1>b DEF CompareHead, Goto, git, call, TheirsInv, Theirs, NothingMoved
<1>7. CASE ListNames
  BY <1>7, <1>b DEF ListNames, Listed, git, call, TheirsInv, Theirs, NothingMoved
<1>8. CASE ReadChange
  BY <1>8, <1>b DEF ReadChange, git, call, TheirsInv, Theirs, NothingMoved
<1>9. CASE ReadVanished
  BY <1>9, <1>b DEF ReadVanished, Listed, git, call, TheirsInv, Theirs, NothingMoved
<1>10. CASE CheckHead
  <2>1. CASE Goto("tracked")
    BY <1>10, <1>b, <2>1 DEF CheckHead, Goto, End, git, TheirsInv, Theirs, NothingMoved
  <2>2. CASE End("loud")
    BY <1>10, <2>2 DEF CheckHead, End, TheirsInv, Theirs, NothingMoved
  <2> QED
    BY <1>10, <2>1, <2>2 DEF CheckHead
<1>11. CASE ListTracked
  <2>1. Base' = Base /\ UNCHANGED <<commits, index, work>> /\ pc' = "restore" /\ names' = DiffNames(base)
    BY <1>11, <1>b DEF ListTracked, Listed, git
  <2>2. ASSUME NEW p \in Paths, Theirs(p)
        PROVE  work[p] = Base[p] /\ (index[p] = Absent => p \in names')
    <3>1. work[p] = Base[p]
      BY <1>11, <2>2 DEF ListTracked, TheirsInv
    <3>2. Base[p] # Absent
      BY <2>2, <3>1 DEF Theirs, Absent
    <3> QED
      BY <2>1, <3>1, <3>2 DEF DiffNames, Seen, Base
  <2> QED
    BY <2>1, <2>2 DEF TheirsInv, Theirs
<1>12. CASE Restore
  <2>1. Base' = Base /\ pc' = "untracked" /\ names \subseteq Paths
    BY <1>12, <1>a, <1>b DEF Restore, Listed
  <2>2. /\ index' = [p \in Paths |-> IF p \in names THEN Base[p] ELSE index[p]]
        /\ work' = [p \in Paths |-> IF p \in names THEN Base[p] ELSE work[p]]
    BY <1>12 DEF Restore, RestorePaths, Base
  <2>3. ASSUME NEW p \in Paths, Theirs(p)'
        PROVE  index'[p] # Absent
    <3>1. work'[p] # Absent
      BY <2>3 DEF Theirs, Absent
    <3>2. CASE p \in names
      BY <2>2, <3>1, <3>2
    <3>3. CASE p \notin names
      BY <1>12, <2>2, <2>3, <3>3 DEF Theirs, TheirsInv, Restore
    <3> QED
      BY <3>2, <3>3
  <2> QED
    BY <2>1, <2>3 DEF TheirsInv
<1>13. CASE ListUntracked
  <2>1. pc' = "unlink" /\ names' = Others /\ UNCHANGED <<index, work>>
    BY <1>13 DEF ListUntracked, Listed, git
  <2>2. \A p \in Others : ~Theirs(p)
    BY <1>13 DEF ListUntracked, Others, TheirsInv
  <2> QED
    BY <2>1, <2>2 DEF TheirsInv, Theirs
<1>14. CASE Unlink
  BY <1>14 DEF Unlink, Listed, TheirsInv
<1>15. CASE CheckStatus
  BY <1>15, <1>b DEF CheckStatus, End, git, call, TheirsInv, Theirs, NothingMoved
<1>16. CASE ChildSucceeds
  BY <1>16, <1>b DEF ChildSucceeds, Goto, git, call, TheirsInv, Theirs, NothingMoved
<1>17. CASE ChildFails
  BY <1>17, <1>b DEF ChildFails, Goto, git, call, TheirsInv, Theirs, NothingMoved
<1>18. CASE ChildCommits
  <2>1. /\ Len(commits') = Len(commits) + 1
        /\ base \in 1..Len(commits) /\ Len(commits) \in Nat
    BY <1>18, HeadMoves, Standing
  <2>2. ~NothingMoved' /\ Base' = Base /\ UNCHANGED <<work, pc, names>>
    BY <1>18, <1>b, <2>1 DEF ChildCommits, Note, NothingMoved
  <2> QED
    BY <1>18, <1>a, <2>2 DEF ChildCommits, TheirsInv, Theirs
<1>19. CASE GitFails
  BY <1>19, <1>b DEF GitFails, Partly, git, TheirsInv, Theirs, NothingMoved, InProgress, Cleaning
<1>20. CASE GitTimesOut
  BY <1>20, <1>b DEF GitTimesOut, End, Partly, git, TheirsInv, Theirs, NothingMoved, InProgress, Cleaning
<1>21. CASE Crash
  BY <1>21, <1>b DEF Crash, End, Partly, git, TheirsInv, Theirs, NothingMoved, InProgress, Cleaning
<1>22. CASE HumanCommits
  <2>1. /\ Len(commits') = Len(commits) + 1
        /\ base \in 1..Len(commits) /\ Len(commits) \in Nat
    BY <1>22, HeadMoves, Standing
  <2>2. ~NothingMoved' /\ Base' = Base /\ UNCHANGED <<work, pc, names>>
    BY <1>22, <1>b, <2>1 DEF HumanCommits, Note, NothingMoved
  <2>3. index' = work
    BY <1>22 DEF HumanCommits
  <2>4. \A p \in Paths : Theirs(p) => work[p] # Absent
    BY DEF Theirs, Absent
  <2> QED
    BY <1>a, <2>2, <2>3, <2>4 DEF TheirsInv, Theirs
<1>23. ASSUME NEW p \in Paths, ChildWrites(p) PROVE TheirsInv'
  <2>1. Base' = Base /\ pc = "running" /\ UNCHANGED <<pc, round, commits, base>>
    BY <1>23, <1>b DEF ChildWrites, call
  <2>2. PICK c \in {By("agent"), Absent, HeadTree[p]} : work' = [work EXCEPT ![p] = c]
    BY <1>23 DEF ChildWrites
  <2>3. ASSUME NothingMoved
        PROVE  c = Base[p] \/ c.by # "human"
    BY <1>a, <2>1, <2>3 DEF By, Absent
  <2>4. ASSUME NothingMoved, NEW q \in Paths, Theirs(q)'
        PROVE  work'[q] = Base[q]
    <3>1. work'[q] = IF q = p THEN c ELSE work[q]
      BY <1>a, <2>2 DEF Trees
    <3> QED
      BY <2>1, <2>3, <2>4, <3>1 DEF Theirs, TheirsInv
  <2> QED
    BY <2>1, <2>4 DEF TheirsInv, NothingMoved
<1>24. ASSUME NEW p \in Paths, ChildStages(p) PROVE TheirsInv'
  BY <1>24, <1>b DEF ChildStages, Note, git, call, TheirsInv, Theirs, NothingMoved
<1>25. ASSUME NEW p \in Paths, StrayWrites(p) PROVE TheirsInv'
  <2>1. Base' = Base /\ UNCHANGED <<pc, names, index, commits, base>>
    BY <1>25, <1>b DEF StrayWrites, Note
  <2>2. PICK c \in {By("stray"), Absent} : work' = [work EXCEPT ![p] = c]
    BY <1>25 DEF StrayWrites
  <2>3. ASSUME pc \in InProgress
        PROVE  c.by # "human" \/ c.era # 0
    BY <1>a, <2>3 DEF By, Absent
  <2>4. ASSUME pc \in InProgress, NEW q \in Paths, Theirs(q)'
        PROVE  Theirs(q) /\ work'[q] = work[q]
    <3>1. work'[q] = IF q = p THEN c ELSE work[q]
      BY <1>a, <2>2 DEF Trees
    <3> QED
      BY <2>3, <2>4, <3>1 DEF Theirs
  <2>5. pc \notin InProgress => TheirsInv'
    BY <2>1 DEF TheirsInv, InProgress, Cleaning
  <2>6. pc \in {"running", "diff", "names", "read", "clean"} /\ NothingMoved =>
            \A q \in Paths : Theirs(q) => work[q] = Base[q]
    BY DEF TheirsInv
  <2>7. ASSUME pc \in InProgress PROVE TheirsInv'
    BY <1>a, <2>1, <2>4, <2>7 DEF TheirsInv, NothingMoved
  <2> QED
    BY <2>5, <2>7
<1>26. ASSUME NEW p \in Paths, HumanEdits(p) PROVE TheirsInv'
  <2>1. Base' = Base /\ UNCHANGED <<pc, names, index, commits, base>>
    BY <1>26, <1>b DEF HumanEdits, Note
  <2>2. PICK c \in {By("human"), Absent} : work' = [work EXCEPT ![p] = c]
    BY <1>26 DEF HumanEdits
  <2>3. ASSUME pc \in InProgress
        PROVE  c.by # "human" \/ c.era # 0
    BY <1>a, <2>3 DEF By, Absent
  <2>4. ASSUME pc \in InProgress, NEW q \in Paths, Theirs(q)'
        PROVE  Theirs(q) /\ work'[q] = work[q]
    <3>1. work'[q] = IF q = p THEN c ELSE work[q]
      BY <1>a, <2>2 DEF Trees
    <3> QED
      BY <2>3, <2>4, <3>1 DEF Theirs
  <2>5. pc \notin InProgress => TheirsInv'
    BY <2>1 DEF TheirsInv, InProgress, Cleaning
  <2>6. pc \in {"running", "diff", "names", "read", "clean"} /\ NothingMoved =>
            \A q \in Paths : Theirs(q) => work[q] = Base[q]
    BY DEF TheirsInv
  <2>7. ASSUME pc \in InProgress PROVE TheirsInv'
    BY <1>a, <2>1, <2>4, <2>7 DEF TheirsInv, NothingMoved
  <2> QED
    BY <2>5, <2>7
<1>27. CASE UNCHANGED vars
  BY <1>27, <1>b DEF vars, git, call, env, TheirsInv, Theirs, NothingMoved
<1> QED
  BY <1>1, <1>2, <1>3, <1>4, <1>5, <1>6, <1>7, <1>8, <1>9, <1>10, <1>11, <1>12, <1>13, <1>14, <1>15, <1>16, <1>17, <1>18, <1>19, <1>20, <1>21, <1>22, <1>23, <1>24, <1>25, <1>26, <1>27 DEF Next, Runtime, World, Quiet

LEMMA ListStep ==
    ASSUME ShapeInv, HeadInv, IndexInv, ListInv, [Next]_vars
    PROVE  ListInv'
<1>a. /\ Base \in Trees /\ HeadTree \in Trees /\ index \in Trees /\ work \in Trees
      /\ NothingMoved => HeadTree = Base
      /\ pc \in InProgress => Era = round /\ round > 0
      /\ names \subseteq Paths
  BY Standing
<1>b. base' = base => Base' = Base
  BY BaseStays
<1>c. ASSUME UNCHANGED <<git, base>>
      PROVE  DiffNames(base)' = DiffNames(base) /\ Others' = Others
  BY <1>c DEF git, DiffNames, Seen, Others
<1>1. CASE Begin
  BY <1>1 DEF Begin, ListInv
<1>2. CASE ReadHead
  BY <1>2 DEF ReadHead, ListInv
<1>3. CASE RefuseDirty
  BY <1>3 DEF RefuseDirty, End, ListInv
<1>4. CASE AcceptClean
  BY <1>4 DEF AcceptClean, Goto, ListInv
<1>5. CASE ChildTimesOut
  BY <1>5 DEF ChildTimesOut, Goto, ListInv
<1>6. CASE CompareHead
  BY <1>6 DEF CompareHead, Goto, ListInv
<1>7. CASE ListNames
  <2>1. DiffNames(base)' = DiffNames(base) /\ Others' = Others
    BY <1>7, <1>c DEF ListNames, Listed
  <2> QED
    BY <1>7, <2>1 DEF ListNames, Listed, ListInv
<1>8. CASE ReadChange
  BY <1>8 DEF ReadChange, ListInv
<1>9. CASE ReadVanished
  BY <1>9 DEF ReadVanished, Listed, ListInv
<1>10. CASE CheckHead
  BY <1>10 DEF CheckHead, End, Goto, ListInv, End
<1>11. CASE ListTracked
  <2>1. DiffNames(base)' = DiffNames(base)
    BY <1>11, <1>c DEF ListTracked, Listed
  <2> QED
    BY <1>11, <2>1 DEF ListTracked, Listed, ListInv
<1>12. CASE Restore
  <2>1. Base' = Base /\ pc' = "untracked" /\ happened' = happened /\ pc = "restore"
    BY <1>12, <1>b DEF Restore, Listed
  <2>2. /\ index' = [p \in Paths |-> IF p \in names THEN Base[p] ELSE index[p]]
        /\ work' = [p \in Paths |-> IF p \in names THEN Base[p] ELSE work[p]]
    BY <1>12 DEF Restore, RestorePaths, Base
  <2>3. ASSUME happened = {} PROVE DiffNames(base)' = {}
    <3>1. index = Base /\ names = DiffNames(base)
      BY <2>1, <2>3 DEF IndexInv, ListInv, Unstaged, Undisturbed, InProgress, Cleaning
    <3>2. \A p \in Paths : index'[p] = Base[p]
      BY <1>a, <2>2, <3>1 DEF Trees
    <3>3. \A p \in Paths : Base[p] # Absent => work'[p] = Base[p]
      BY <2>2, <3>1 DEF DiffNames, Seen, Base
    <3> QED
      BY <2>1, <3>2, <3>3 DEF DiffNames, Seen, Base
  <2> QED
    BY <2>1, <2>3 DEF ListInv
<1>13. CASE ListUntracked
  <2>1. DiffNames(base)' = DiffNames(base) /\ Others' = Others
    BY <1>13, <1>c DEF ListUntracked, Listed
  <2> QED
    BY <1>13, <2>1 DEF ListUntracked, Listed, ListInv
<1>14. CASE Unlink
  <2>1. Base' = Base /\ pc' = "check" /\ happened' = happened /\ pc = "unlink"
    BY <1>14, <1>b DEF Unlink, Listed
  <2>2. work' = [p \in Paths |-> IF p \in names THEN Absent ELSE work[p]]
    BY <1>14 DEF Unlink, UnlinkPaths
  <2>3. ASSUME happened = {} PROVE work' = Base
    <3>1. index = Base /\ names = Others /\ DiffNames(base) = {}
      BY <2>1, <2>3 DEF IndexInv, ListInv, Unstaged, Undisturbed, InProgress, Cleaning
    <3>2. \A p \in Paths : Base[p] = Absent => work'[p] = Absent
      BY <2>2, <3>1 DEF Others
    <3>3. \A p \in Paths : Base[p] # Absent => work'[p] = Base[p]
      BY <2>2, <3>1 DEF Others, DiffNames, Seen, Base
    <3>4. \A p \in Paths : work'[p] = Base[p]
      BY <3>2, <3>3
    <3> QED
      BY <1>a, <2>2, <3>4 DEF Trees
  <2> QED
    BY <2>1, <2>3 DEF ListInv
<1>15. CASE CheckStatus
  BY <1>15 DEF CheckStatus, End, ListInv
<1>16. CASE ChildSucceeds
  BY <1>16 DEF ChildSucceeds, Goto, ListInv
<1>17. CASE ChildFails
  BY <1>17 DEF ChildFails, Goto, ListInv
<1>18. CASE ChildCommits
  <2>1. happened' # {} /\ pc' = pc
    BY <1>18 DEF ChildCommits, Note
  <2>2. pc = "read" => "foreign" \in happened'
    BY <1>18 DEF ChildCommits, Note
  <2> QED
    BY <2>1, <2>2 DEF ListInv
<1>19. CASE GitFails
  BY <1>19 DEF GitFails, ListInv, InProgress, Cleaning
<1>20. CASE GitTimesOut
  BY <1>20 DEF GitTimesOut, End, ListInv
<1>21. CASE Crash
  BY <1>21 DEF Crash, End, ListInv
<1>22. CASE HumanCommits
  <2>1. happened' # {} /\ pc' = pc
    BY <1>22 DEF HumanCommits, Note
  <2>2. pc = "read" => "foreign" \in happened'
    BY <1>22 DEF HumanCommits, Note
  <2> QED
    BY <2>1, <2>2 DEF ListInv
<1>23. ASSUME NEW p \in Paths, ChildWrites(p) PROVE ListInv'
  BY <1>23 DEF ChildWrites, call, ListInv
<1>24. ASSUME NEW p \in Paths, ChildStages(p) PROVE ListInv'
  <2>1. happened' # {} /\ pc' = pc
    BY <1>24 DEF ChildStages, Note
  <2>2. pc = "read" => "foreign" \in happened'
    BY <1>24 DEF ChildStages, Note
  <2> QED
    BY <2>1, <2>2 DEF ListInv
<1>25. ASSUME NEW p \in Paths, StrayWrites(p) PROVE ListInv'
  <2>1. happened' # {} /\ pc' = pc
    BY <1>25 DEF StrayWrites, Note
  <2>2. pc = "read" => "foreign" \in happened'
    BY <1>25 DEF StrayWrites, Note
  <2> QED
    BY <2>1, <2>2 DEF ListInv
<1>26. ASSUME NEW p \in Paths, HumanEdits(p) PROVE ListInv'
  <2>1. happened' # {} /\ pc' = pc
    BY <1>26 DEF HumanEdits, Note
  <2>2. pc = "read" => "foreign" \in happened'
    BY <1>26 DEF HumanEdits, Note
  <2> QED
    BY <2>1, <2>2 DEF ListInv
<1>27. CASE UNCHANGED vars
  <2>1. UNCHANGED <<git, base>> /\ UNCHANGED <<pc, names, work, happened, commits>>
    BY <1>27 DEF vars, call, git
  <2>2. Base' = Base /\ DiffNames(base)' = DiffNames(base) /\ Others' = Others
    BY <1>b, <1>c, <2>1
  <2> QED
    BY <2>1, <2>2 DEF ListInv
<1> QED
  BY <1>1, <1>2, <1>3, <1>4, <1>5, <1>6, <1>7, <1>8, <1>9, <1>10, <1>11, <1>12, <1>13, <1>14, <1>15, <1>16, <1>17, <1>18, <1>19, <1>20, <1>21, <1>22, <1>23, <1>24, <1>25, <1>26, <1>27 DEF Next, Runtime, World, Quiet

LEMMA EvidenceStep ==
    ASSUME ShapeInv, HeadInv, FreshInv, EvidenceFresh, [Next]_vars
    PROVE  EvidenceFresh'
<1>a. /\ Base \in Trees /\ HeadTree \in Trees /\ index \in Trees /\ work \in Trees
      /\ NothingMoved => HeadTree = Base
      /\ pc \in InProgress => Era = round /\ round > 0
      /\ names \subseteq Paths
  BY Standing
<1>b. base' = base => Base' = Base
  BY BaseStays
<1>c. pc # "idle" => outcome = "none"
  BY DEF ShapeInv, TypeOK
<1>1. CASE Begin
  BY <1>1, <1>c DEF Begin, call, EvidenceFresh
<1>2. CASE ReadHead
  BY <1>2, <1>c DEF ReadHead, call, EvidenceFresh
<1>3. CASE RefuseDirty
  BY <1>3, <1>c DEF RefuseDirty, End, call, EvidenceFresh
<1>4. CASE AcceptClean
  BY <1>4, <1>c DEF AcceptClean, Goto, call, EvidenceFresh
<1>5. CASE ChildTimesOut
  BY <1>5, <1>c DEF ChildTimesOut, Goto, call, EvidenceFresh
<1>6. CASE CompareHead
  BY <1>6, <1>c DEF CompareHead, Goto, call, EvidenceFresh
<1>7. CASE ListNames
  BY <1>7, <1>c DEF ListNames, Listed, call, EvidenceFresh
<1>8. CASE ReadChange
  <2>1. evidence' = [p \in names |-> Content(p)] /\ UNCHANGED <<base, commits, happened, round>>
    BY <1>8 DEF ReadChange, git
  <2>2. \A p \in names : Fresh(p)
    BY <1>8, <1>a DEF ReadChange, FreshInv
  <2>3. \A p \in names : evidence'[p] \in {Absent, Base[p]} \/ evidence'[p].era = round
    BY <2>1, <2>2 DEF Content, Seen, Fresh
  <2>4. "committed" \notin happened
    BY <1>8 DEF ReadChange, HeadInv
  <2> QED
    BY <2>1, <2>3, <2>4 DEF EvidenceFresh, Base
<1>9. CASE ReadVanished
  BY <1>9, <1>c DEF ReadVanished, Listed, call, EvidenceFresh
<1>10. CASE CheckHead
  BY <1>10, <1>c DEF CheckHead, End, Goto, call, EvidenceFresh
<1>11. CASE ListTracked
  BY <1>11, <1>c DEF ListTracked, Listed, call, EvidenceFresh
<1>12. CASE Restore
  BY <1>12, <1>c DEF Restore, Listed, call, EvidenceFresh
<1>13. CASE ListUntracked
  BY <1>13, <1>c DEF ListUntracked, Listed, call, EvidenceFresh
<1>14. CASE Unlink
  BY <1>14, <1>c DEF Unlink, Listed, call, EvidenceFresh
<1>15. CASE CheckStatus
  BY <1>15, <1>c DEF CheckStatus, End, call, EvidenceFresh
<1>16. CASE ChildSucceeds
  BY <1>16, <1>c DEF ChildSucceeds, Goto, call, EvidenceFresh
<1>17. CASE ChildFails
  BY <1>17, <1>c DEF ChildFails, Goto, call, EvidenceFresh
<1>18. CASE ChildCommits
  BY <1>18, <1>c DEF ChildCommits, Note, call, EvidenceFresh
<1>19. CASE GitFails
  BY <1>19, <1>c DEF GitFails, EvidenceFresh, InProgress, Cleaning
<1>20. CASE GitTimesOut
  BY <1>20, <1>c DEF GitTimesOut, End, EvidenceFresh, InProgress, Cleaning
<1>21. CASE Crash
  BY <1>21, <1>c DEF Crash, End, call, EvidenceFresh
<1>22. CASE HumanCommits
  BY <1>22, <1>b DEF HumanCommits, Note, EvidenceFresh, Base
<1>23. ASSUME NEW p \in Paths, ChildWrites(p) PROVE EvidenceFresh'
  BY <1>23, <1>c DEF ChildWrites, call, call, EvidenceFresh
<1>24. ASSUME NEW p \in Paths, ChildStages(p) PROVE EvidenceFresh'
  BY <1>24, <1>c DEF ChildStages, Note, call, EvidenceFresh
<1>25. ASSUME NEW p \in Paths, StrayWrites(p) PROVE EvidenceFresh'
  BY <1>25, <1>b DEF StrayWrites, Note, EvidenceFresh, Base
<1>26. ASSUME NEW p \in Paths, HumanEdits(p) PROVE EvidenceFresh'
  BY <1>26, <1>b DEF HumanEdits, Note, EvidenceFresh, Base
<1>27. CASE UNCHANGED vars
  BY <1>27, <1>b DEF vars, git, call, env, EvidenceFresh, Base
<1> QED
  BY <1>1, <1>2, <1>3, <1>4, <1>5, <1>6, <1>7, <1>8, <1>9, <1>10, <1>11, <1>12, <1>13, <1>14, <1>15, <1>16, <1>17, <1>18, <1>19, <1>20, <1>21, <1>22, <1>23, <1>24, <1>25, <1>26, <1>27 DEF Next, Runtime, World, Quiet

LEMMA LoudStep ==
    ASSUME ShapeInv, HeadInv, IndexInv, ListInv, LoudOnlyIfNeeded, [Next]_vars
    PROVE  LoudOnlyIfNeeded'
<1>a. /\ Base \in Trees /\ HeadTree \in Trees /\ index \in Trees /\ work \in Trees
      /\ NothingMoved => HeadTree = Base
      /\ pc \in InProgress => Era = round /\ round > 0
      /\ names \subseteq Paths
  BY Standing
<1>b. base' = base => Base' = Base
  BY BaseStays
<1>c. pc # "idle" => outcome = "none"
  BY DEF ShapeInv, TypeOK
<1>1. CASE Begin
  BY <1>1, <1>c DEF Begin, call, LoudOnlyIfNeeded
<1>2. CASE ReadHead
  BY <1>2, <1>c DEF ReadHead, call, LoudOnlyIfNeeded
<1>3. CASE RefuseDirty
  BY <1>3, <1>c DEF RefuseDirty, End, call, LoudOnlyIfNeeded
<1>4. CASE AcceptClean
  BY <1>4, <1>c DEF AcceptClean, Goto, call, LoudOnlyIfNeeded
<1>5. CASE ChildTimesOut
  BY <1>5, <1>c DEF ChildTimesOut, Goto, call, LoudOnlyIfNeeded
<1>6. CASE CompareHead
  BY <1>6, <1>c DEF CompareHead, Goto, call, LoudOnlyIfNeeded
<1>7. CASE ListNames
  BY <1>7, <1>c DEF ListNames, Listed, call, LoudOnlyIfNeeded
<1>8. CASE ReadChange
  BY <1>8, <1>c DEF ReadChange, call, LoudOnlyIfNeeded
<1>9. CASE ReadVanished
  BY <1>9, <1>c DEF ReadVanished, Listed, call, LoudOnlyIfNeeded
<1>10. CASE CheckHead
  BY <1>10, <1>c DEF CheckHead, Goto, End, HeadInv, Undisturbed, NothingMoved, LoudOnlyIfNeeded, InProgress, Cleaning
<1>11. CASE ListTracked
  BY <1>11, <1>c DEF ListTracked, Listed, call, LoudOnlyIfNeeded
<1>12. CASE Restore
  BY <1>12, <1>c DEF Restore, Listed, call, LoudOnlyIfNeeded
<1>13. CASE ListUntracked
  BY <1>13, <1>c DEF ListUntracked, Listed, call, LoudOnlyIfNeeded
<1>14. CASE Unlink
  BY <1>14, <1>c DEF Unlink, Listed, call, LoudOnlyIfNeeded
<1>15. CASE CheckStatus
  <2>1. ASSUME happened = {} PROVE StatusEntries = {}
    <3>1. index = Base /\ work = Base /\ NothingMoved
      BY <1>15, <2>1 DEF CheckStatus, HeadInv, IndexInv, ListInv, Unstaged, Undisturbed, InProgress, Cleaning
    <3> QED
      BY <1>a, <3>1 DEF StatusEntries
  <2> QED
    BY <1>15, <2>1, <1>c DEF CheckStatus, End, LoudOnlyIfNeeded
<1>16. CASE ChildSucceeds
  BY <1>16, <1>c DEF ChildSucceeds, Goto, call, LoudOnlyIfNeeded
<1>17. CASE ChildFails
  BY <1>17, <1>c DEF ChildFails, Goto, call, LoudOnlyIfNeeded
<1>18. CASE ChildCommits
  BY <1>18, <1>c DEF ChildCommits, Note, call, LoudOnlyIfNeeded
<1>19. CASE GitFails
  BY <1>19, <1>c DEF GitFails, call, LoudOnlyIfNeeded, InProgress, Cleaning
<1>20. CASE GitTimesOut
  BY <1>20, <1>c DEF GitTimesOut, End, call, LoudOnlyIfNeeded, InProgress, Cleaning
<1>21. CASE Crash
  BY <1>21, <1>c DEF Crash, End, call, LoudOnlyIfNeeded
<1>22. CASE HumanCommits
  BY <1>22, <1>c DEF HumanCommits, Note, call, LoudOnlyIfNeeded
<1>23. ASSUME NEW p \in Paths, ChildWrites(p) PROVE LoudOnlyIfNeeded'
  BY <1>23, <1>c DEF ChildWrites, call, call, LoudOnlyIfNeeded
<1>24. ASSUME NEW p \in Paths, ChildStages(p) PROVE LoudOnlyIfNeeded'
  BY <1>24, <1>c DEF ChildStages, Note, call, LoudOnlyIfNeeded
<1>25. ASSUME NEW p \in Paths, StrayWrites(p) PROVE LoudOnlyIfNeeded'
  BY <1>25, <1>c DEF StrayWrites, Note, call, LoudOnlyIfNeeded
<1>26. ASSUME NEW p \in Paths, HumanEdits(p) PROVE LoudOnlyIfNeeded'
  BY <1>26, <1>c DEF HumanEdits, Note, call, LoudOnlyIfNeeded
<1>27. CASE UNCHANGED vars
  BY <1>27, <1>b DEF vars, git, call, env, LoudOnlyIfNeeded
<1> QED
  BY <1>1, <1>2, <1>3, <1>4, <1>5, <1>6, <1>7, <1>8, <1>9, <1>10, <1>11, <1>12, <1>13, <1>14, <1>15, <1>16, <1>17, <1>18, <1>19, <1>20, <1>21, <1>22, <1>23, <1>24, <1>25, <1>26, <1>27 DEF Next, Runtime, World, Quiet

-----------------------------------------------------------------------------
\* Each step of the runtime, of the child, and of those who write beside it keeps
\* the inductive invariant of CodexInv.
THEOREM Invariance == Spec => []IInv
<1>1. Init => IInv
  <2> SUFFICES ASSUME Init PROVE IInv
    OBVIOUS
  <2>1. commits[1] \in Trees /\ commits \in Seq(Trees) /\ Len(commits) = 1
    BY ContentsKnown DEF Init, Trees
  <2>2. ShapeInv
    <3>1. /\ commits # <<>> /\ index \in Trees /\ work \in Trees
          /\ base \in DOMAIN commits
      BY <2>1 DEF Init
    <3>2. (outcome = "none") = TRUE /\ (pc # "idle" \/ round = 0) = TRUE
      BY DEF Init
    <3>3. round \in 0..MaxInvocations /\ mishaps \in Nat
      BY RuntimeAssumption DEF Init
    <3>4. pc = "idle" /\ names = {} /\ outcome = "none" /\ happened = {} /\ stray \in BOOLEAN
      BY DEF Init
    <3>5. CallShape
      BY <3>2, <3>3, <3>4, Zenon DEF CallShape
    <3> QED
      BY <2>1, <3>1, <3>5, ShapeParts DEF GitShape
  <2> QED
    BY <2>2 DEF Init, IInv, HeadInv, IndexInv, FreshInv, TheirsInv, ListInv,
        EvidenceFresh, LoudOnlyIfNeeded, InProgress, Cleaning
<1>2. IInv /\ [Next]_vars => IInv'
  BY ShapeStep, HeadStep, IndexStep, FreshStep, TheirsStep, ListStep, EvidenceStep,
     LoudStep DEF IInv
<1> QED
  BY <1>1, <1>2, PTL DEF Spec

\* Every variable stays in its range, and the baseline is a commit of the history.
THEOREM TypeCorrect == Spec => []TypeOK
BY Invariance, PTL DEF IInv, ShapeInv

\* What an invocation of _write_invocation reports was written after its own
\* baseline and was not committed.
THEOREM ReportsFreshEvidence == Spec => []EvidenceFresh
BY Invariance, PTL DEF IInv

\* The restoration calls for a human only if somebody else wrote, the child did
\* more than write files, or a command failed.
THEOREM AsksOnlyIfNeeded == Spec => []LoudOnlyIfNeeded
BY Invariance, PTL DEF IInv

\* Restoring and unlinking, even when they are cut short, leave what a human
\* wrote before the baseline as it is.
LEMMA RestoringKeeps ==
    ASSUME IInv, [Next]_vars, pc \in {"restore", "unlink"}, pc' # pc,
           NEW p \in Paths, Theirs(p)
    PROVE  work'[p] = work[p]
<1>a. /\ Base \in Trees /\ work \in Trees /\ names \subseteq Paths
  BY Standing DEF IInv
<1>b. TheirsInv
  BY DEF IInv
<1>1. ASSUME pc = "restore", NEW done \in SUBSET names, RestorePaths(done)
      PROVE  work'[p] = work[p]
  BY <1>a, <1>b, <1>1 DEF RestorePaths, TheirsInv, Base
<1>2. ASSUME pc = "unlink", NEW done \in SUBSET names, UnlinkPaths(done)
      PROVE  work'[p] = work[p]
  BY <1>a, <1>b, <1>2 DEF UnlinkPaths, TheirsInv
<1>3. CASE Partly
  BY <1>1, <1>2, <1>3 DEF Partly
<1>4. CASE Restore
  BY <1>1, <1>4 DEF Restore
<1>5. CASE Unlink
  BY <1>2, <1>5 DEF Unlink
<1>6. Restore \/ Unlink \/ Partly
  BY DEF Next, Runtime, World, Quiet, vars, call, Note, Begin, ReadHead, RefuseDirty, AcceptClean, ChildTimesOut, CompareHead, ListNames, ReadChange, ReadVanished, CheckHead, ListTracked, ListUntracked, CheckStatus, ChildSucceeds, ChildFails, ChildCommits, GitFails, GitTimesOut, Crash, HumanCommits, ChildWrites, ChildStages, StrayWrites, HumanEdits
<1> QED
  BY <1>3, <1>4, <1>5, <1>6

\* An invocation never removes what a human left uncommitted before its
\* baseline (_restore_clean_worktree).
THEOREM KeepsHumanWork == Spec => HumanWorkKept
<1>1. ASSUME IInv, [Next]_vars
      PROVE  [(pc \in {"restore", "unlink"}) /\ pc' # pc =>
                \A p \in Paths :
                  work[p].by = "human" /\ work[p].era = 0 /\ work[p] # HeadTree[p] =>
                    work'[p] = work[p]]_vars
  BY <1>1, RestoringKeeps DEF Theirs
<1> QED
  BY <1>1, Invariance, PTL DEF Spec, HumanWorkKept

\* What one reading of the worktree (_change_evidence) puts into the report.
LEMMA ChangeComplete ==
    ASSUME IInv, ReadChange, "foreign" \notin happened,
           NEW p \in Paths, work[p] # Base[p]
    PROVE  /\ p \in DOMAIN evidence'
           /\ "staged" \notin happened => evidence'[p] = work[p]
<1>1. pc = "read" /\ evidence' = [q \in names |-> Content(q)]
  BY DEF ReadChange
<1>2. names = DiffNames(base) \union Others
  BY <1>1 DEF IInv, ListInv
<1>3. p \in names
  BY <1>2 DEF DiffNames, Seen, Others, Base
<1>4. ASSUME "staged" \notin happened PROVE Content(p) = work[p]
  <2>1. index = Base
    BY <1>1, <1>4 DEF IInv, HeadInv, IndexInv, Unstaged, Undisturbed, InProgress
  <2> QED
    BY <2>1 DEF Content, DiffNames, Seen, Base
<1> QED
  BY <1>1, <1>3, <1>4

\* A reported change (_change_evidence) names every path that differs from the
\* baseline, whatever the child staged, with its content unless it staged.
THEOREM ReportsCompleteEvidence == Spec => EvidenceComplete
<1>1. ASSUME IInv
      PROVE  [ReadChange /\ "foreign" \notin happened =>
                \A p \in Paths : work[p] # commits[base][p] =>
                  /\ p \in DOMAIN evidence'
                  /\ "staged" \notin happened => evidence'[p] = work[p]]_vars
  BY <1>1, ChangeComplete DEF Base
<1> QED
  BY <1>1, Invariance, PTL DEF EvidenceComplete

=============================================================================

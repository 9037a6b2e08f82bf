---------------------------- MODULE CodexRuntime ----------------------------
(***************************************************************************)
(* Write invocations of the Codex CLI in a Git worktree                    *)
(* (backend/app/services/runtime.py).                                      *)
(*                                                                         *)
(* An invocation records HEAD, refuses a worktree that is not clean, lets  *)
(* the child process write until it exits or times out, and then either    *)
(* lists and reads the change as evidence or, on any exception, restores   *)
(* what Git can see.  Every Git command is a step of its own: others write *)
(* in between, the command may fail, and it may exceed its own time limit. *)
(* The process may die; what the child left behind stays, and a process it *)
(* started may go on writing after it was killed.                          *)
(*                                                                         *)
(* The content of a path is who wrote it and during which invocation.      *)
(***************************************************************************)
EXTENDS Integers, Sequences

CONSTANTS
    Paths,
    Tracked,        \* the paths the first commit has
    MaxInvocations, MaxMishaps      \* bounds

ASSUME RuntimeAssumption ==
    /\ Tracked \subseteq Paths
    /\ {MaxInvocations, MaxMishaps} \subseteq Nat

VARIABLES
    commits,    \* the trees of the history, the last one is HEAD's
    index, work,    \* [path -> content] in the index and in the worktree
    pc,         \* where the invocation stands
    base,       \* the number of the commit its baseline recorded
    names,      \* the paths that the last listing returned
    evidence,   \* [path -> content] of the change it reported
    outcome,    \* how the last invocation ended
    round,      \* the invocations so far
    happened,   \* what happened since the baseline, for an observer
    stray,      \* whether a process of a killed child may still write
    mishaps     \* failing or slow Git commands, crashes, and writes of others

git  == <<commits, index, work>>
call == <<pc, base, names, evidence, outcome, round, happened>>
env  == <<stray, mishaps>>
vars == <<git, call, env>>

Absent   == [by |-> "nobody", era |-> 0]
Original == [by |-> "history", era |-> 0]

\* Steps past the clean baseline, and those of the restoration.
Cleaning   == {"clean", "tracked", "restore", "untracked", "unlink", "check"}
InProgress == {"running", "diff", "names", "read"} \union Cleaning

Era == IF pc \in InProgress THEN round ELSE 0
By(author) == [by |-> author, era |-> Era]

-----------------------------------------------------------------------------
(* What Git commands say                                                   *)

HeadTree == commits[Len(commits)]

\* git status --porcelain --untracked-files=all
StatusEntries == {p \in Paths : index[p] # HeadTree[p] \/ work[p] # index[p]}

\* git diff <commit> reads the worktree through the index: of a path that the
\* index does not have it says that it was deleted.
Seen(p) == IF index[p] = Absent THEN Absent ELSE work[p]
DiffNames(commit) == {p \in Paths : Seen(p) # commits[commit][p]}

\* git ls-files --others
Others == {p \in Paths : index[p] = Absent /\ work[p] # Absent}

Init ==
    /\ commits = << [p \in Paths |-> IF p \in Tracked THEN Original ELSE Absent] >>
    /\ index = commits[1] /\ work = commits[1]
    /\ pc = "idle" /\ base = 1 /\ names = {} /\ evidence = <<>>
    /\ outcome = "none" /\ round = 0 /\ happened = {}
    /\ stray = FALSE
    /\ mishaps = 0

Mishap == mishaps < MaxMishaps /\ mishaps' = mishaps + 1

\* Effects on the variables of the call.
Goto(label) ==
    pc' = label /\ UNCHANGED <<base, names, evidence, outcome, round, happened>>

End(result) ==
    /\ pc' = "idle" /\ outcome' = result /\ names' = {}
    /\ UNCHANGED <<base, evidence, round, happened>>

Listed(paths, label) ==
    /\ names' = paths /\ pc' = label
    /\ UNCHANGED <<base, evidence, outcome, round, happened>>

-----------------------------------------------------------------------------
(* The invocation                                                          *)

Begin ==
    /\ pc = "idle" /\ round < MaxInvocations
    /\ pc' = "head" /\ round' = round + 1
    /\ happened' = {} /\ evidence' = <<>> /\ outcome' = "none"
    /\ UNCHANGED <<base, names, git, env>>

ReadHead ==
    /\ pc = "head"
    /\ pc' = "status" /\ base' = Len(commits)
    /\ UNCHANGED <<names, evidence, outcome, round, happened, git, env>>

\* Slip: the baseline is captured inside the try block.
RefuseRestoring ==
    /\ pc = "status" /\ StatusEntries # {}
    /\ Goto("clean")
    /\ UNCHANGED <<git, env>>

\* Slip: a refusal is not raised.
RefuseSilently ==
    /\ pc = "status" /\ StatusEntries # {}
    /\ Goto("idle")
    /\ UNCHANGED <<git, env>>

\* A refusal is raised before anything could need a restoration.
RefuseDirty ==
    /\ pc = "status" /\ StatusEntries # {}
    /\ End("refused")
    /\ UNCHANGED <<git, env>>

\* Slip: git status without --untracked-files=all.
AcceptUntracked ==
    /\ pc = "status" /\ StatusEntries \subseteq Others
    /\ Goto("running")
    /\ UNCHANGED <<git, env>>

AcceptClean ==
    /\ pc = "status" /\ StatusEntries = {}
    /\ Goto("running")
    /\ UNCHANGED <<git, env>>

\* The child exits with a stream that parses, or does not, or never exits.
ChildSucceeds == pc = "running" /\ Goto("diff") /\ UNCHANGED <<git, env>>
ChildFails    == pc = "running" /\ Goto("clean") /\ UNCHANGED <<git, env>>

\* Slip: subprocess.run without a timeout.
ChildRunsOn == pc = "running" /\ UNCHANGED vars

ChildTimesOut ==
    /\ pc = "running"
    /\ Goto("clean")
    /\ stray' \in {stray, TRUE}
    /\ UNCHANGED <<git, mishaps>>

CompareHead ==
    /\ pc = "diff"
    /\ Goto(IF Len(commits) = base THEN "names" ELSE "clean")
    /\ UNCHANGED <<git, env>>

\* Slip: untracked files are not listed.
ListDiffNames ==
    /\ pc = "names"
    /\ Listed(DiffNames(base), "read")
    /\ UNCHANGED <<git, env>>

ListNames ==
    /\ pc = "names"
    /\ Listed(DiffNames(base) \union Others, "read")
    /\ UNCHANGED <<git, env>>

\* Tracked changes are read as a diff, the other paths by opening them.
Readable(p) == p \in DiffNames(base) \/ work[p] # Absent
Content(p)  == IF p \in DiffNames(base) THEN Seen(p) ELSE work[p]

ReadChange ==
    /\ pc = "read" /\ \A p \in names : Readable(p)
    /\ evidence' = [p \in names |-> Content(p)]
    /\ pc' = "idle" /\ outcome' = "success" /\ names' = {}
    /\ UNCHANGED <<base, round, happened, git, env>>

ReadVanished ==
    /\ pc = "read" /\ \E p \in names : ~Readable(p)
    /\ Listed({}, "clean")
    /\ UNCHANGED <<git, env>>

-----------------------------------------------------------------------------
(* The restoration after a failed invocation                               *)

\* History is never rewritten: a moved HEAD is left to a human.
CheckHead ==
    /\ pc = "clean"
    /\ IF Len(commits) = base THEN Goto("tracked") ELSE End("loud")
    /\ UNCHANGED <<git, env>>

ListTracked ==
    /\ pc = "tracked"
    /\ Listed(DiffNames(base), "restore")
    /\ UNCHANGED <<git, env>>

\* git restore --source=<baseline> --staged --worktree
RestorePaths(paths) ==
    /\ index' = [p \in Paths |-> IF p \in paths THEN commits[base][p] ELSE index[p]]
    /\ work' = [p \in Paths |-> IF p \in paths THEN commits[base][p] ELSE work[p]]
    /\ UNCHANGED commits

Restore ==
    /\ pc = "restore"
    /\ RestorePaths(names)
    /\ Listed({}, "untracked")
    /\ UNCHANGED env

ListUntracked ==
    /\ pc = "untracked"
    /\ Listed(Others, "unlink")
    /\ UNCHANGED <<git, env>>

UnlinkPaths(paths) ==
    /\ work' = [p \in Paths |-> IF p \in paths THEN Absent ELSE work[p]]
    /\ UNCHANGED <<commits, index>>

\* Slip: only tracked changes are undone.
KeepUntracked == pc = "unlink" /\ Listed({}, "check") /\ UNCHANGED <<git, env>>

Unlink ==
    /\ pc = "unlink"
    /\ UnlinkPaths(names)
    /\ Listed({}, "check")
    /\ UNCHANGED env

\* A step that is cut short has done a part of its paths.
Partly ==
    CASE pc = "restore" -> \E done \in SUBSET names : RestorePaths(done)
      [] pc = "unlink"  -> \E done \in SUBSET names : UnlinkPaths(done)
      [] OTHER          -> UNCHANGED git

CheckStatus ==
    /\ pc = "check"
    /\ End(IF StatusEntries = {} THEN "failed" ELSE "loud")
    /\ UNCHANGED <<git, env>>

\* A Git command exits with an error, or a file cannot be removed.
GitFails ==
    /\ pc \in {"head", "status", "diff", "names", "read"} \union Cleaning
    /\ pc \in {"restore", "unlink"} => names # {}
    /\ Mishap
    /\ CASE pc \in {"head", "status"} -> pc' = "idle" /\ outcome' = "refused"
         [] pc \in {"diff", "names", "read"} -> pc' = "clean" /\ UNCHANGED outcome
         [] OTHER -> pc' = "idle" /\ outcome' = "loud"
    /\ happened' = happened \union {"fault"}
    /\ names' = {}
    /\ Partly
    /\ UNCHANGED <<base, evidence, round, stray>>

\* A Git command of the restoration exceeds its time limit: TimeoutExpired is
\* not among the exceptions it turns into "manual recovery is required".
GitTimesOut ==
    /\ pc \in Cleaning \ {"unlink"}
    /\ pc = "restore" => names # {}
    /\ Mishap
    /\ End("failed")
    /\ Partly
    /\ UNCHANGED stray

\* The process dies, and no later step restores anything.
Crash ==
    /\ pc # "idle"
    /\ Mishap
    /\ End("lost")
    /\ stray' \in IF pc = "running" THEN {stray, TRUE} ELSE {stray}
    /\ Partly

-----------------------------------------------------------------------------
(* The child, what survives of it, and the humans                          *)

Note(what) ==
    /\ happened' = happened \union {what}
    /\ UNCHANGED <<pc, base, names, evidence, outcome, round>>

\* It writes, deletes or puts back a file.
ChildWrites(p) ==
    /\ pc = "running"
    /\ work' \in {[work EXCEPT ![p] = c] : c \in {By("agent"), Absent, HeadTree[p]}}
    /\ UNCHANGED <<commits, index, call, env>>

\* git add, git rm --cached, git reset
ChildStages(p) ==
    /\ pc = "running"
    /\ index' \in {[index EXCEPT ![p] = c] : c \in {work[p], Absent, HeadTree[p]}}
    /\ Note("staged")
    /\ UNCHANGED <<commits, work, env>>

ChildCommits ==
    /\ pc = "running" /\ Len(commits) = base
    /\ Mishap
    /\ commits' = Append(commits, index)
    /\ Note("committed")
    /\ UNCHANGED <<index, work, stray>>

StrayWrites(p) ==
    /\ stray
    /\ Mishap
    /\ work' \in {[work EXCEPT ![p] = c] : c \in {By("stray"), Absent}}
    /\ Note("foreign")
    /\ UNCHANGED <<commits, index, stray>>

HumanEdits(p) ==
    /\ Mishap
    /\ work' \in {[work EXCEPT ![p] = c] : c \in {By("human"), Absent}}
    /\ Note("foreign")
    /\ UNCHANGED <<commits, index, stray>>

\* git commit -a, with the new files added
HumanCommits ==
    /\ StatusEntries # {}
    /\ Mishap
    /\ commits' = Append(commits, work) /\ index' = work
    /\ Note("foreign")
    /\ UNCHANGED <<work, stray>>

\* Nobody has anything to ask of the runtime any more.
Quiet == pc = "idle" /\ round = MaxInvocations /\ UNCHANGED vars

-----------------------------------------------------------------------------
Runtime ==
    \/ ReadHead \/ RefuseDirty \/ AcceptClean \/ ChildTimesOut
    \/ CompareHead \/ ListNames \/ ReadChange \/ ReadVanished
    \/ CheckHead \/ ListTracked \/ Restore \/ ListUntracked \/ Unlink \/ CheckStatus

World ==
    \/ ChildSucceeds \/ ChildFails \/ ChildCommits \/ GitFails \/ GitTimesOut
    \/ Crash \/ HumanCommits
    \/ \E p \in Paths : ChildWrites(p) \/ ChildStages(p) \/ StrayWrites(p) \/ HumanEdits(p)

Next == Begin \/ Runtime \/ World \/ Quiet

Spec == Init /\ [][Next]_vars

\* The runtime's thread runs on and its time limits expire; nothing is assumed
\* of the child.
FairSpec == Spec /\ WF_vars(Runtime)

-----------------------------------------------------------------------------
(* Properties                                                              *)

Contents == [by : {"nobody", "history", "agent", "stray", "human"}, era : 0..MaxInvocations]
Trees    == [Paths -> Contents]

TypeOK ==
    /\ commits \in Seq(Trees)
    /\ index \in Trees /\ work \in Trees
    /\ pc \in {"idle", "head", "status"} \union InProgress
    /\ base \in DOMAIN commits
    /\ names \subseteq Paths
    /\ outcome \in {"none", "refused", "success", "failed", "loud", "lost"}
    /\ (outcome = "none") = (pc # "idle" \/ round = 0)
    /\ happened \subseteq {"staged", "committed", "foreign", "fault"}
    /\ round \in 0..MaxInvocations

\* What a human left uncommitted before an invocation's baseline is never
\* removed by that invocation, nor by one after it.
HumanWorkKept ==
    [][(pc \in {"restore", "unlink"}) /\ pc' # pc =>
         \A p \in Paths :
            work[p].by = "human" /\ work[p].era = 0 /\ work[p] # HeadTree[p] =>
                work'[p] = work[p]]_vars

\* The restoration asks for a human only when it has to: if the child just wrote
\* files, nobody else did and no command failed, it restores them all.
LoudOnlyIfNeeded == outcome = "loud" => happened # {}

\* A reported change names every path whose content differs from the baseline,
\* whatever the child staged; and as long as it did not, it has their content.
EvidenceComplete ==
    [][ReadChange /\ "foreign" \notin happened =>
         \A p \in Paths : work[p] # commits[base][p] =>
            /\ p \in DOMAIN evidence'
            /\ "staged" \notin happened => evidence'[p] = work[p]]_vars

\* A dirty worktree is never folded into the evidence of a later invocation:
\* what one reports was written after its own baseline, and was not committed.
EvidenceFresh ==
    outcome = "success" =>
        /\ "committed" \notin happened
        /\ \A p \in DOMAIN evidence :
              evidence[p] \in {Absent, commits[base][p]} \/ evidence[p].era = round

\* Every invocation ends, whether or not its child does.
InvocationsEnd == pc # "idle" ~> pc = "idle"

\* The class promises that incomplete cleanup fails loudly and requires manual
\* recovery: an ordinary failure leaves a worktree as clean as it was.
RestoredOrLoud ==
    [][pc # "idle" /\ pc' = "idle" /\ outcome' = "failed" => StatusEntries = {}]_vars
=============================================================================

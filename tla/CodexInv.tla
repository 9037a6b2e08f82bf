------------------------------ MODULE CodexInv ------------------------------
(***************************************************************************)
(* Why an invocation may trust what it restores and reports: what is known *)
(* of the index, of the worktree and of the listed names at each step, as  *)
(* an inductive invariant of module CodexRuntime.                          *)
(***************************************************************************)
EXTENDS CodexRuntime

\* The trees of HEAD and of the baseline.
Base == commits[base]
NothingMoved == Len(commits) = base

\* Content that a human wrote while no invocation was past its baseline.
Theirs(p) == work[p].by = "human" /\ work[p].era = 0

ShapeInv ==
    /\ TypeOK
    /\ commits # <<>>
    /\ pc # "idle" => round > 0
    /\ stray \in BOOLEAN /\ mishaps \in Nat

\* Nobody committed since the baseline, or changed the index at all.
Undisturbed == "foreign" \notin happened /\ "committed" \notin happened
Unstaged    == Undisturbed /\ "staged" \notin happened

\* HEAD moves only if somebody commits, and a commit of the child ends the
\* invocation's chance to report anything.
HeadInv ==
    /\ pc \in {"status"} \union InProgress /\ Undisturbed => NothingMoved
    /\ pc \in {"names", "read"} => "committed" \notin happened
    /\ pc \in {"head", "status"} => happened \subseteq {"foreign", "fault"}
    /\ pc \in InProgress /\ "committed" \in happened => ~NothingMoved

\* The index is the baseline's until somebody stages or commits.
IndexInv == pc \in InProgress /\ Unstaged => index = Base

\* What the worktree holds beside the baseline was written since.
Fresh(p) == work[p] \in {Absent, Base[p]} \/ work[p].era = round
FreshInv ==
    (pc \in {"names", "read"} \/ (pc \in {"running", "diff"} /\ NothingMoved))
        => \A p \in Paths : Fresh(p)

\* A human's content from before the baseline is the baseline's.
TheirsInv ==
    /\ pc \in {"running", "diff", "names", "read", "clean"} /\ NothingMoved =>
            \A p \in Paths : Theirs(p) => work[p] = Base[p]
    /\ pc \in {"tracked", "restore"} => \A p \in Paths : Theirs(p) => work[p] = Base[p]
    /\ pc = "restore" =>
            \A p \in Paths : Theirs(p) /\ index[p] = Absent => p \in names
    /\ pc = "untracked" => \A p \in Paths : Theirs(p) => index[p] # Absent
    /\ pc = "unlink" => \A p \in names : ~Theirs(p)

\* What a listing returned is still so, if nothing happened since the baseline.
ListInv ==
    /\ pc = "read" /\ "foreign" \notin happened => names = DiffNames(base) \union Others
    /\ happened = {} =>
        /\ pc = "restore" => names = DiffNames(base)
        /\ pc \in {"untracked", "unlink"} => DiffNames(base) = {}
        /\ pc = "unlink" => names = Others
        /\ pc = "check" => work = Base

IInv ==
    /\ ShapeInv
    /\ HeadInv /\ IndexInv /\ FreshInv /\ TheirsInv /\ ListInv
    /\ EvidenceFresh /\ LoudOnlyIfNeeded
=============================================================================

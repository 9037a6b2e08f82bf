------------------------------ MODULE MCGates ------------------------------
(* Constants of the gates run.                                             *)
EXTENDS Gates, TLC

MCDiffs == {{"backend"}, {"frontend"}, {"docs"}, {"frontend", "docs"},
            {"backend", "frontend"}}
MCSymmetry == Permutations(Threads)
=============================================================================

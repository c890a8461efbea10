----------------------------- MODULE MCRunProgress ------------------------------
(***************************************************************************)
(* Small instances of RunProgress: two requests, so that the second can    *)
(* reuse the descriptor of the first; two addresses, so that a socket is   *)
(* closed behind the hooks while its request goes on; two descriptors, so  *)
(* that another thread can take one.                                       *)
(***************************************************************************)
EXTENDS RunProgress, TLC

CONSTANTS f1, f2

MCFirst == {1}
MCSecond == {2}
MCFds == {f1, f2}

Symmetry == Permutations(MCFds)

\* What the run does once the snapshot is taken is not followed, for it does the
\* same without one: the snapshot writes nothing the run reads.
UntilTaken == snap.at \notin {"done", "nothing"}
=================================================================================

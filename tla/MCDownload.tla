----------------------------- MODULE MCDownload -----------------------------
(* Download on two gets, for TLC.  Versions of the shared file differ in    *)
(* every block, so that a mixture of two versions is visible.               *)
EXTENDS Download, TLC

CONSTANTS a1, a2, b1

MCFiles == {<<a1, a2>>, <<b1>>}
MCOneFile == {<<a1, a2>>}

\* Gets and paths are interchangeable in Init, Next and the invariants.
Symmetry == Permutations(Gets) \cup Permutations(Paths)
=============================================================================

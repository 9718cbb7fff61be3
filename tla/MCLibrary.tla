----------------------------- MODULE MCLibrary -----------------------------
(***************************************************************************)
(* Model checking of Library: the second folder is in the first.           *)
(***************************************************************************)
EXTENDS Library, TLC

LastFolder == [d \in 1..Folders |-> Folders]

\* The .mp3 files are interchangeable.
Mp3Symmetry == Permutations(Mp3)
=============================================================================

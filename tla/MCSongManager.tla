--------------------------- MODULE MCSongManager ---------------------------
(***************************************************************************)
(* Model checking of SongManager. Three songs are the least for which the  *)
(* choice of the next song is a choice: one plays, two compete.            *)
(***************************************************************************)
EXTENDS SongManager, TLC

\* Users and speakers are interchangeable.
GuestSymmetry == Permutations(Speaker) \cup Permutations(User)
=============================================================================

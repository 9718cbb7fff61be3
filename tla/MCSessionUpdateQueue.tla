------------------------ MODULE MCSessionUpdateQueue ------------------------
(***************************************************************************)
(* Model checking of SessionUpdateQueue: two kinds of updates are enough   *)
(* for reordering between types, three channels for a closed channel in    *)
(* front of a live one with a third request arriving.                      *)
(***************************************************************************)
EXTENDS SessionUpdateQueue, TLC

\* Channels are interchangeable and no property is a liveness property.
Symmetry == Permutations(Channel)
=============================================================================

--------------------------- MODULE MCRaspberryPi ---------------------------
(***************************************************************************)
(* Model checking of RaspberryPi against a server that sends anything. Two *)
(* songs are enough for the globals to be about different songs; a third   *)
(* one is there so that the server can miss a file. Liveness is checked,   *)
(* hence there is no symmetry.                                             *)
(***************************************************************************)
EXTENDS RaspberryPi
=============================================================================

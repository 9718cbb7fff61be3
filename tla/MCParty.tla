------------------------------ MODULE MCParty ------------------------------
(***************************************************************************)
(* Model checking of Party.                                                *)
(***************************************************************************)
EXTENDS Party, TLC

\* Songs are interchangeable when TooShort is empty. Not used with liveness.
SongSymmetry == Permutations(Song)

\* The updates of the last step are in the mailbox already. Not used with
\* liveness.
PartyView ==
    <<db, activeSong, nextSong, timer, faults, sessions, handlers, ratings, speaker, link>>

\* What is said of server and speaker is said for as long as no reminder has
\* been overtaken, and a behaviour in which one is satisfies MusicGoesOnInTime:
\* nothing has to be looked at after that.
NotOvertaken == ~overtaken

\* A user rates or a transaction fails, not both.
RatingOrFailure == ~(ratings > 0 /\ failed)

\* Users have joined when the first song begins.
UsersAreThere == activeSong # NoSong => users = User
=============================================================================

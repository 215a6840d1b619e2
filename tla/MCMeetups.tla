------------------------------ MODULE MCMeetups ------------------------------
(***************************************************************************)
(* Small instances of Meetups for TLC.                                     *)
(***************************************************************************)
EXTENDS Meetups, TLC

\* Users, meetups, requests, handlers and nonces are interchangeable: no
\* definition tells two of them apart.  (Not used in runs with liveness.)
Symmetry ==
  Permutations(Users) \cup Permutations(Meetups) \cup Permutations(Requests)
    \cup Permutations(Handlers) \cup Permutations(Nonces)

\* Users may fill a meetup of two and still leave one outside.
TwoSeats == {2}
=============================================================================

----------------------------- MODULE MeetupBoard -----------------------------
(***************************************************************************)
(* What the meetup service promises, without statements, handlers, queue   *)
(* or crashes: a board of meetups.  A meetup is announced once with a      *)
(* number of seats and its host on the first one; a user takes a free seat *)
(* or gives one up, in one step each; a removed meetup never comes back.   *)
(***************************************************************************)
EXTENDS Integers, FiniteSets

CONSTANTS Users, Meetups, Headcounts

VARIABLES life,         \* "unborn", "live" or "gone"
          seats,        \* the number of seats, 0 unless live
          members       \* the users on the seats

vars == <<life, seats, members>>

Init ==
  /\ life = [m \in Meetups |-> "unborn"]
  /\ seats = [m \in Meetups |-> 0]
  /\ members = [m \in Meetups |-> {}]

Announce(m, u, n) ==
  /\ life[m] = "unborn"
  /\ life' = [life EXCEPT ![m] = "live"]
  /\ seats' = [seats EXCEPT ![m] = n]
  /\ members' = [members EXCEPT ![m] = {u}]

TakeSeat(m, u) ==
  /\ life[m] = "live"
  /\ u \notin members[m]
  /\ Cardinality(members[m]) < seats[m]
  /\ members' = [members EXCEPT ![m] = @ \cup {u}]
  /\ UNCHANGED <<life, seats>>

LeaveSeat(m, u) ==
  /\ u \in members[m]
  /\ members' = [members EXCEPT ![m] = @ \ {u}]
  /\ UNCHANGED <<life, seats>>

Remove(m) ==
  /\ life[m] = "live"
  /\ life' = [life EXCEPT ![m] = "gone"]
  /\ seats' = [seats EXCEPT ![m] = 0]
  /\ members' = [members EXCEPT ![m] = {}]

Next ==
  \E m \in Meetups :
    \/ \E u \in Users, n \in Headcounts : Announce(m, u, n)
    \/ \E u \in Users : TakeSeat(m, u) \/ LeaveSeat(m, u)
    \/ Remove(m)

Spec == Init /\ [][Next]_vars
=============================================================================

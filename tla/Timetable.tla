----------------------------- MODULE Timetable ------------------------------
(***************************************************************************)
(* What the timetable promises, whoever edits it and in whatever steps:    *)
(* bookings appear, move and disappear one at a time, and no two of them   *)
(* ever claim the same room or the same teacher at the same time.          *)
(***************************************************************************)
EXTENDS Integers

CONSTANTS
  Bookings,         \* identities of bookings
  Slots,            \* what a booking claims
  Sound(_),         \* a slot can be booked at all
  Clash(_, _)       \* two slots exclude each other

VARIABLE booked     \* booked[b]: the slot of each booking there is

Fits(b, s) == Sound(s) /\ \A c \in DOMAIN booked \ {b} : ~ Clash(booked[c], s)

Init == booked = [b \in {} |-> {}]

Book(b, s) ==
  /\ b \notin DOMAIN booked
  /\ Fits(b, s)
  /\ booked' = [c \in DOMAIN booked \cup {b} |-> IF c = b THEN s ELSE booked[c]]

Move(b, s) ==
  /\ b \in DOMAIN booked
  /\ Fits(b, s)
  /\ booked' = [booked EXCEPT ![b] = s]

Cancel(b) ==
  /\ b \in DOMAIN booked
  /\ booked' = [c \in DOMAIN booked \ {b} |-> booked[c]]

Next ==
  \E b \in Bookings :
    \/ \E s \in Slots : Book(b, s) \/ Move(b, s)
    \/ Cancel(b)

Spec == Init /\ [][Next]_booked
=============================================================================

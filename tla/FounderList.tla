------------------------------ MODULE FounderList ------------------------------
(***************************************************************************)
(* What the founders signup of apps/web/lib/founders/signup.ts promises,   *)
(* with every transaction a single step: people join a list under one      *)
(* e-mail and one number, and the seats 1..Seats go out in order.          *)
(***************************************************************************)
EXTENDS Naturals

CONSTANTS
    Requests,       \* form submissions; one that is accepted names its row
    Emails,         \* addresses, as citext compares them
    Email,          \* Email[r]: the address of submission r
    Whatsapp,       \* Whatsapp[r]: its number, normalised
    Seats,          \* FOUNDER_SEATS
    Absent          \* the seat of somebody who is not on the list

VARIABLES
    seatOf,         \* seatOf[r]: r's seat, 0 on the waitlist, or Absent
    erasures        \* rows that were deleted so far

vars == <<seatOf, erasures>>

OnList == {r \in Requests : seatOf[r] # Absent}

Same(r, q) == Email[r] = Email[q] \/ Whatsapp[r] = Whatsapp[q]

Held == {seatOf[r] : r \in OnList}

\* Seat s is the next to give out: the lowest free one, or 0 without one.
Lowest(s) ==
    IF s = 0 THEN 1..Seats \subseteq Held
             ELSE s \notin Held /\ \A t \in 1..Seats : t < s => t \in Held

Init ==
    /\ seatOf = [r \in Requests |-> Absent]
    /\ erasures = 0

\* A new person joins.  Once a row has been deleted the lowest seat is the
\* lowest of a moment ago, so then any free seat will do.
Join(r) ==
    /\ \A q \in OnList : ~Same(r, q)
    /\ \E s \in 0..Seats :
         /\ s = 0 \/ s \notin Held
         /\ erasures = 0 => Lowest(s)
         /\ seatOf' = [seatOf EXCEPT ![r] = s]
    /\ UNCHANGED erasures

\* A row is deleted (an LGPD erasure, a founder who gives the seat up).
Leave(r) ==
    /\ r \in OnList
    /\ seatOf' = [seatOf EXCEPT ![r] = Absent]
    /\ erasures' = erasures + 1

Next == \E r \in Requests : Join(r) \/ Leave(r)

Spec == Init /\ [][Next]_vars
=============================================================================

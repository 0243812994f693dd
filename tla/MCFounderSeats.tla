---------------------------- MODULE MCFounderSeats ----------------------------
(* Constants of the TLC runs of FounderSeats. *)
EXTENDS FounderSeats

CONSTANTS r1, r2, r3, r4, r5, e1, e2, e3, e4, w1, w2, w3, w4

MCRequests == {r1, r2, r3, r4, r5}
MCEmails == {e1, e2, e3, e4}
\* r3 is r1's number under another e-mail, r4 r1's e-mail with another number.
MCEmail == [r \in MCRequests |->
    CASE r = r1 -> e1 [] r = r2 -> e2 [] r = r3 -> e3 [] r = r4 -> e1 [] r = r5 -> e4]
MCWhatsapp == [r \in MCRequests |->
    CASE r = r1 -> w1 [] r = r2 -> w2 [] r = r3 -> w1 [] r = r4 -> w3 [] r = r5 -> w4]
=============================================================================

----------------------------- MODULE MCScreening -----------------------------
(* Constants of the TLC runs of Screening. *)
EXTENDS Screening

CONSTANTS v1, w1, w2

MCViewers == {v1}
MCRunners == {w1, w2}
MCRunner == {w1}
MCDocs == {1, 2}
MCVersions == {"old", "new"}

\* The errata replaces the first document and withdraws the second.
MCFirst == [d \in MCDocs |-> "old"]
MCAmended == [d \in MCDocs |-> IF d = 1 THEN "new" ELSE None]
MCLists == {MCFirst, MCAmended}
=============================================================================

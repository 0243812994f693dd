---------------------------- MODULE ScreeningMarkers ----------------------------
(***************************************************************************)
(* Screening with a memory of which lists a sync marker has named: what    *)
(* apps/web/lib/radar/screening.ts and worker/licitaqui/files.py say about *)
(* a missing marker is about the markers before it.                        *)
(***************************************************************************)
EXTENDS MCScreening

VARIABLES
    last,           \* the latest list a marker named
    superseded      \* the lists a later marker has replaced

HInit ==
    /\ Init
    /\ last = None
    /\ superseded = {}

\* Every step of Screening, and what a new marker says about the last one.
HNext ==
    /\ Next
    /\ IF marker' \in {marker, None}
         THEN UNCHANGED <<last, superseded>>
         ELSE /\ last' = marker'
              /\ superseded' = (superseded \cup ({last} \ {None})) \ {marker'}

HSpec == HInit /\ [][HNext]_<<vars, last, superseded>>

\* screening.ts on the missing marker: "The filter can therefore only ever hide
\* a row that is genuinely superseded" - a reading that a marker has already
\* retired is not served again.
RetiredReadingsStayRetired ==
    [][\A v \in Viewers : Answered(v) => shown'[v] \notin superseded]_<<vars, last, superseded>>
=============================================================================

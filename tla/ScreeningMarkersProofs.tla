------------------------ MODULE ScreeningMarkersProofs ------------------------
(***************************************************************************)
(* How far the sentence of screening.ts about a missing marker is wrong:   *)
(* the run ScreeningMarker has a retired reading served, and this module   *)
(* proves that nothing but the gap between mark_synced's two statements,   *)
(* and the sync that died in it, can do that.                              *)
(***************************************************************************)
EXTENDS ScreeningMarkers, ScreeningProofs

hvars == <<vars, last, superseded>>

\* The marker is the latest one ever set, unless it is missing, and it is missing
\* after a first sync only in the gap.
MarkerIsLatest ==
    /\ marker # None => last = marker
    /\ last \notin superseded
    /\ last = None => superseded = {}
    /\ last # None /\ marker = None => sync = "unmarked" \/ syncCrashes > 0

\* The history watches Screening and holds nothing of it up.
LEMMA HistoryIsScreening == HSpec => Spec
<1>1. HInit => Init
  BY DEF HInit
<1>2. [HNext]_hvars => [Next]_vars
  BY DEF HNext, hvars
<1> QED BY <1>1, <1>2, PTL DEF HSpec, Spec, hvars

\* Only the two statements of mark_synced write the marker, and only a crash and
\* the second of them leave the gap.
LEMMA MarkerMoves ==
    ASSUME [Next]_vars
    PROVE  \/ DeleteMarker \/ InsertMarker \/ CrashSync
           \/ UNCHANGED <<marker, syncCrashes>> /\ (sync = "unmarked" => sync' = "unmarked")
<1>1. CASE UNCHANGED tender
  BY <1>1 DEF tender
<1>2. CASE Publish \/ Sweep \/ SweepDies \/ Fetch \/ SkipFresh \/ UpsertFiles \/ PruneFiles
  BY <1>2 DEF Publish, Sweep, SweepDies, EnqueueSync, Fetch, SkipFresh, UpsertFiles, PruneFiles
<1>3. ASSUME NEW w \in Runners, Work(w) \/ Fail(w) \/ Crash(w)
      PROVE  UNCHANGED <<marker, syncCrashes>> /\ sync' \in {sync, EnqueueSync}
  BY <1>3 DEF Work, ReadFile, Claim, CacheHit, ReadList, RaiseNotReady, UseText, Download, NotServed,
     Record, LateHit, AskModel, Store, Fail, Crash, tender
<1>4. ASSUME NEW v \in Viewers, Spend(v) \/ Request(v) \/ Leave(v)
      PROVE  UNCHANGED tender
  BY <1>4 DEF Spend, Request, ReadScreening, EnqueueJob, Poll, Leave
<1>5. CASE RequeueStale \/ Overrun \/ UNCHANGED vars
  BY <1>5 DEF RequeueStale, Overrun, vars, tender
<1> QED BY <1>1, <1>2, <1>3, <1>4, <1>5 DEF Next, Sync, EnqueueSync

LEMMA MarkerIsLatestAlways == HSpec => []MarkerIsLatest
<1>1. HInit => MarkerIsLatest
  BY DEF HInit, Init, MarkerIsLatest
<1>2. TypeOK /\ MarkerIsLatest /\ [HNext]_hvars => MarkerIsLatest'
  <2> SUFFICES ASSUME TypeOK, MarkerIsLatest, [HNext]_hvars
               PROVE  MarkerIsLatest'
    OBVIOUS
  <2>1. [Next]_vars
    BY DEF HNext, hvars
  <2>2. CASE DeleteMarker
    <3>1. marker' = None /\ sync' = "unmarked"
      BY <2>2 DEF DeleteMarker
    <3>2. UNCHANGED <<last, superseded>>
      BY <3>1 DEF HNext, hvars
    <3> QED BY <3>1, <3>2 DEF MarkerIsLatest
  <2>3. CASE InsertMarker
    <3>1. marker' # None
      BY <2>3, ListTypes DEF InsertMarker, TypeOK
    <3>2. \/ last' = marker' /\ superseded' = (superseded \cup ({last} \ {None})) \ {marker'}
          \/ marker' = marker /\ UNCHANGED <<last, superseded>>
      BY <3>1 DEF HNext, hvars, vars
    <3> QED BY <3>1, <3>2 DEF MarkerIsLatest
  <2>4. CASE CrashSync
    <3>1. marker' = marker /\ syncCrashes' > 0
      BY <2>4 DEF CrashSync, TypeOK
    <3>2. UNCHANGED <<last, superseded>>
      BY <3>1 DEF HNext, hvars
    <3> QED BY <3>1, <3>2 DEF MarkerIsLatest
  <2>5. CASE UNCHANGED <<marker, syncCrashes>> /\ (sync = "unmarked" => sync' = "unmarked")
    <3>1. UNCHANGED <<last, superseded>>
      BY <2>5 DEF HNext, hvars
    <3> QED BY <2>5, <3>1 DEF MarkerIsLatest
  <2> QED BY <2>1, <2>2, <2>3, <2>4, <2>5, MarkerMoves
<1> QED BY <1>1, <1>2, HistoryIsScreening, TypeCorrect, PTL DEF HSpec, hvars

\* RetiredReadingsStayRetired holds of every answer given outside the gap:
\* with mark_synced in one transaction the filter would do what it says.
RetiredOnlyInTheGap ==
    [][\A v \in Viewers :
          Answered(v) /\ shown'[v] \in superseded => sync = "unmarked" \/ syncCrashes > 0]_hvars

\* A reading that a marker has retired is served only while the marker of a
\* re-sync is missing, whatever the order of syncs, errata, runs and requests.
THEOREM TheGapIsTheOnlyWay == HSpec => RetiredOnlyInTheGap
<1>1. TypeOK /\ MarkerIsLatest /\ [HNext]_hvars =>
        [\A v \in Viewers :
            Answered(v) /\ shown'[v] \in superseded => sync = "unmarked" \/ syncCrashes > 0]_hvars
  <2> SUFFICES ASSUME TypeOK, MarkerIsLatest, [HNext]_hvars,
                      NEW v \in Viewers, Answered(v), shown'[v] \in superseded
               PROVE  sync = "unmarked" \/ syncCrashes > 0
    OBVIOUS
  <2>1. [Next]_vars
    BY DEF HNext, hvars
  <2>2. shown'[v] = Current
    BY <2>1, AnswerIsCurrent
  <2>3. marker = None
    BY <2>2 DEF Current, MarkerIsLatest, Answered
  <2> QED BY <2>3 DEF MarkerIsLatest
<1> QED
  BY <1>1, HistoryIsScreening, MarkerIsLatestAlways, TypeCorrect, PTL
     DEF HSpec, hvars, RetiredOnlyInTheGap
=============================================================================

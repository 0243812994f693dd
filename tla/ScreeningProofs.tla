---------------------------- MODULE ScreeningProofs ----------------------------
(***************************************************************************)
(* What a triagem is read from and keyed by, that it stays, and which one  *)
(* is shown, for every set of viewers, runners, documents and lists.       *)
(* ServesTheFiledDocuments needs more than its premise: that with no sync  *)
(* under way the marker names the list on file, or the tender was never    *)
(* synced and nothing was stored.  ReadingMatchesItsKey needs what the     *)
(* rows of tender_files and the runs at work hold to be of the listed      *)
(* documents, from the download to the upsert.                             *)
(***************************************************************************)
EXTENDS Screening, TLAPS

\* A sync under way has a list, and once it has pruned it is the one on file.
SyncUnderWay ==
    /\ sync \notin {"idle", "queued"} => fetched \in Lists
    /\ sync \in {"upserted", "unmarked"} => listed = fetched

\* Runs that have a list of documents.
AtDocuments(w) == run[w] \in {"reading", "asked"}

\* Before the first upsert_files there is no marker, no reading and no run
\* with a list of documents: DocumentsNotReady stopped it.
NeverSynced == listed = Empty => marker = None /\ readings = {} /\ \A w \in Runners : ~AtDocuments(w)

\* The marker names the list on file unless a sync is between its statements
\* or one died there.
MarkerIsCurrent ==
    sync \in {"idle", "queued", "fetched"} /\ syncCrashes = 0 /\ listed # Empty => marker = listed

\* The newest analysis is a stored one.
NewestIsStored == newest # None => newest \in Usable

\* A run holds documents only while it is at them, its key is the digest of the
\* list they were chosen from, and the model is asked about all of them.
RunsAreTidy ==
    \A w \in Runners :
        /\ ~AtDocuments(w) => content[w] = Empty
        /\ record[w] # None => run[w] = "reading"
        /\ AtDocuments(w) => key[w] = docs[w]
        /\ run[w] = "asked" => Unread(w) = {}

\* Until a run is overtaken the texts on the rows are of the listed documents ...
RowsAreListed == ~overtaken => \A d \in Docs : text[d] # None => text[d] = listed[d]

\* ... and what the runs have read is of the documents chosen from their list.
RunsReadTheirList ==
    ~overtaken => \A w \in Runners : \A d \in Docs :
        content[w][d] # None => content[w][d] = Pages(docs[w])[d]

Documents == SyncUnderWay /\ NeverSynced /\ MarkerIsCurrent /\ RowsAreListed
Runs == RunsAreTidy /\ RunsReadTheirList
Readings == NewestIsStored /\ ReadingMatchesItsKey
IInv == TypeOK /\ Documents /\ Runs /\ Readings

\* The list before the first sync is one, and what a list is read from is.
LEMMA ListTypes ==
    /\ Empty \in Hashes
    /\ \A l \in Lists : l \in Hashes /\ l # Empty /\ l # None
    /\ \A l \in Hashes : l # None /\ Pages(l) \in Hashes
BY ScreeningAssumption DEF Empty, Hashes, Pages

\* Nothing is synced, stored or asked for at first.
LEMMA InitInv == Init => IInv
<1> USE ScreeningAssumption, ListTypes DEF Init, Queue!Init
<1>1. Init => TypeOK
  <2> SUFFICES ASSUME Init
               PROVE  TypeOK
    OBVIOUS
  <2>1. faults \in Nat /\ errata \in Nat /\ syncCrashes \in Nat /\ readings \subseteq Hashes \X Hashes
    OBVIOUS
  <2>2. sync \in {"idle", "queued", "fetched", "written", "upserted", "unmarked"}
    OBVIOUS
  <2>3. /\ run \in [Runners -> {"idle", "resolved", "reading", "asked"}]
        /\ key \in [Runners -> Hashes] /\ docs \in [Runners -> Hashes]
        /\ content \in [Runners -> Hashes] /\ record \in [Runners -> Docs \cup {None}]
        /\ ask \in [Viewers -> {"idle"} \cup Asking] /\ shown \in [Viewers -> Hashes \cup {None}]
    OBVIOUS
  <2>4. /\ published \in Lists /\ unswept \in BOOLEAN /\ newer \in BOOLEAN /\ stale \in BOOLEAN
        /\ overtaken \in BOOLEAN
    OBVIOUS
  <2>5. /\ listed \in Hashes /\ text \in Hashes /\ fetched \in Hashes /\ marker \in Hashes \cup {None}
        /\ newest \in Hashes \cup {None}
        /\ job \in {"none", "queued", "running"} /\ holders \subseteq Runners
    OBVIOUS
  <2> QED BY <2>1, <2>2, <2>3, <2>4, <2>5 DEF TypeOK
<1>2. Init => Documents
  BY DEF Documents, SyncUnderWay, NeverSynced, MarkerIsCurrent, RowsAreListed, AtDocuments, Empty
<1>3. Init => Runs
  BY DEF Runs, RunsAreTidy, RunsReadTheirList, AtDocuments, Empty
<1>4. Init => Readings
  BY DEF Readings, NewestIsStored, ReadingMatchesItsKey
<1> QED BY <1>1, <1>2, <1>3, <1>4 DEF IInv

\* A step that stores nothing leaves what is stored well named.
LEMMA SameReadings ==
    ASSUME Readings, UNCHANGED rows, overtaken => overtaken'
    PROVE  Readings'
BY DEF Readings, NewestIsStored, ReadingMatchesItsKey, Usable, rows

\* A step that leaves the runs alone leaves them tidy.
LEMMA SameRuns ==
    ASSUME Runs, UNCHANGED <<run, key, docs, content, record>>, overtaken => overtaken'
    PROVE  Runs'
BY DEF Runs, RunsAreTidy, RunsReadTheirList, AtDocuments, Unread

\* The text that survives a change of the list is of documents that are the same.
LEMMA InvalidatedIsListed ==
    ASSUME TypeOK, RowsAreListed, NEW l \in Hashes, listed' = l, text' = Invalidated(l),
           UNCHANGED overtaken
    PROVE  text' \in Hashes /\ RowsAreListed'
BY DEF TypeOK, RowsAreListed, Invalidated, Hashes

\* The steps of PNCP, the sweep and sync_files that leave the list alone.
LEMMA TenderInv ==
    ASSUME IInv,
           \/ Publish \/ Sweep \/ SweepDies \/ Fetch \/ SkipFresh
           \/ DeleteMarker \/ InsertMarker \/ CrashSync
    PROVE  IInv'
<1>1. UNCHANGED <<listed, texts, rows, worker, web>>
  BY DEF Publish, Sweep, SweepDies, Fetch, SkipFresh, DeleteMarker, InsertMarker, CrashSync
<1>2. Readings' /\ Runs'
  BY <1>1, SameReadings, SameRuns DEF IInv, texts, worker, reads
<1>3. RowsAreListed'
  BY <1>1 DEF IInv, Documents, RowsAreListed, texts
<1>4. (NeverSynced /\ marker' \in {marker, None}) => NeverSynced'
  BY <1>1 DEF NeverSynced, AtDocuments, rows, worker
<1>5. /\ faults \in Nat /\ syncCrashes \in Nat /\ errata \in Nat
      /\ published \in Lists /\ fetched \in Hashes /\ listed \in Hashes
      /\ SyncUnderWay /\ NeverSynced /\ MarkerIsCurrent
  BY DEF IInv, TypeOK, Documents
<1>6. IInv => /\ text \in Hashes /\ newest \in Hashes \cup {None} /\ readings \subseteq Hashes \X Hashes
              /\ overtaken \in BOOLEAN
  BY DEF IInv, TypeOK
<1>7. /\ published' \in Lists /\ errata' \in Nat /\ syncCrashes' \in Nat /\ fetched' \in Hashes
      /\ unswept' \in BOOLEAN /\ newer' \in BOOLEAN /\ stale' \in BOOLEAN
      /\ sync' \in {"idle", "queued", "fetched", "written", "upserted", "unmarked"}
      /\ marker' \in Hashes \cup {None}
      /\ SyncUnderWay' /\ NeverSynced' /\ MarkerIsCurrent'
  <2> USE <1>5, ListTypes DEF pncp, SyncUnderWay, MarkerIsCurrent
  <2>0. /\ unswept \in BOOLEAN /\ newer \in BOOLEAN /\ stale \in BOOLEAN
        /\ marker \in Hashes \cup {None}
        /\ sync \in {"idle", "queued", "fetched", "written", "upserted", "unmarked"}
    BY DEF IInv, TypeOK
  <2>1. CASE Publish
    BY <1>1, <1>4, <2>0, <2>1 DEF Publish
  <2>2. CASE Sweep
    BY <1>1, <1>4, <2>0, <2>2 DEF Sweep, EnqueueSync
  <2>3. CASE SweepDies
    BY <1>1, <1>4, <2>0, <2>3 DEF SweepDies
  <2>4. CASE Fetch
    BY <1>1, <1>4, <2>0, <2>4 DEF Fetch
  <2>5. CASE SkipFresh
    BY <1>1, <1>4, <2>0, <2>5 DEF SkipFresh
  <2>6. CASE DeleteMarker
    BY <1>1, <1>4, <2>0, <2>6 DEF DeleteMarker
  <2>7. CASE InsertMarker
    <3>1. marker' = listed' /\ listed' # Empty /\ fetched \in Lists
      BY <1>1, <2>7 DEF InsertMarker
    <3>2. NeverSynced'
      BY <3>1 DEF NeverSynced
    <3> QED BY <1>1, <2>0, <2>7, <3>1, <3>2 DEF InsertMarker
  <2>8. CASE CrashSync
    BY <1>1, <1>4, <2>0, <2>8 DEF CrashSync
  <2> QED BY <2>1, <2>2, <2>3, <2>4, <2>5, <2>6, <2>7, <2>8
<1>8. TypeOK'
  BY <1>1, <1>7 DEF IInv, TypeOK, texts, rows, worker, reads, web
<1> QED BY <1>2, <1>3, <1>7, <1>8 DEF IInv, Documents

\* The steps of upsert_files.
LEMMA UpsertInv == ASSUME IInv, UpsertFiles \/ PruneFiles PROVE IInv'
<1>1. UNCHANGED <<overtaken, rows, worker, web, pncp, stale, marker, fetched, syncCrashes>>
  BY DEF UpsertFiles, PruneFiles
<1>2. Readings' /\ Runs'
  BY <1>1, SameReadings, SameRuns DEF IInv, worker, reads
<1>3. TypeOK /\ fetched \in Lists /\ fetched \in Hashes /\ fetched # Empty
  BY ListTypes DEF IInv, Documents, SyncUnderWay, UpsertFiles, PruneFiles
<1>4. PICK l \in Hashes : l # Empty /\ listed' = l /\ text' = Invalidated(l) /\
                          (sync' = "upserted" => l = fetched)
  <2>1. CASE UpsertFiles
    <3>1. listed' \in Hashes
      BY <1>3, <2>1 DEF UpsertFiles, Hashes, TypeOK
    <3>2. PICK d \in Docs : fetched[d] # None
      BY <1>3 DEF Hashes, Empty
    <3>3. listed'[d] # Empty[d]
      BY <2>1, <3>2 DEF UpsertFiles, Empty
    <3> QED BY <2>1, <3>1, <3>3 DEF UpsertFiles
  <2>2. CASE PruneFiles
    BY <1>3, <2>2 DEF PruneFiles
  <2> QED BY <2>1, <2>2
<1>5. text' \in Hashes /\ RowsAreListed'
  BY <1>1, <1>3, <1>4, InvalidatedIsListed DEF IInv, Documents
<1>6. sync' \in {"written", "upserted"}
  BY DEF UpsertFiles, PruneFiles
<1>7. TypeOK'
  BY <1>1, <1>3, <1>4, <1>5, <1>6 DEF TypeOK, pncp, rows, worker, reads, web
<1>8. SyncUnderWay' /\ NeverSynced' /\ MarkerIsCurrent'
  BY <1>1, <1>3, <1>4, <1>6 DEF SyncUnderWay, NeverSynced, MarkerIsCurrent
<1> QED BY <1>2, <1>5, <1>7, <1>8 DEF IInv, Documents

\* The outcome of a run: who holds the row and whether it is queued again.
LEMMA OutcomeType ==
    ASSUME TypeOK, NEW w \in Runners, Queue!MarkDone(w) \/ Queue!MarkFailed(w) \/ Queue!Die({w})
    PROVE  job' \in {"none", "queued", "running"} /\ holders' \subseteq Runners
BY DEF TypeOK, AtWork, Queue!MarkDone, Queue!MarkFailed, Queue!Settle, Queue!Die

\* The end of a run leaves nothing of it behind.
LEMMA ReturnInv ==
    ASSUME IInv, NEW w \in Runners, Return(w), UNCHANGED texts
    PROVE  /\ run' \in [Runners -> {"idle", "resolved", "reading", "asked"}]
           /\ key' \in [Runners -> Hashes]
           /\ docs' \in [Runners -> Hashes]
           /\ content' \in [Runners -> Hashes]
           /\ record' \in [Runners -> Docs \cup {None}]
           /\ \A x \in Runners : AtDocuments(x)' => AtDocuments(x)
           /\ Runs'
<1>1. Empty \in Hashes /\ \A d \in Docs : Empty[d] = None
  BY ListTypes DEF Empty
<1>2. /\ run' \in [Runners -> {"idle", "resolved", "reading", "asked"}]
      /\ key' \in [Runners -> Hashes]
      /\ docs' \in [Runners -> Hashes]
      /\ content' \in [Runners -> Hashes]
      /\ record' \in [Runners -> Docs \cup {None}]
  BY <1>1 DEF IInv, TypeOK, Return
<1>3. \A x \in Runners : AtDocuments(x)' => AtDocuments(x)
  BY DEF IInv, TypeOK, Return, AtDocuments
<1>4. RunsAreTidy'
  BY <1>1 DEF IInv, TypeOK, Runs, RunsAreTidy, AtDocuments, Unread, Return
<1>5. RunsReadTheirList'
  BY <1>1 DEF IInv, TypeOK, Runs, RunsReadTheirList, Return, texts
<1> QED BY <1>2, <1>3, <1>4, <1>5 DEF Runs

\* A run that ends, however, and stores nothing.
LEMMA EndInv ==
    ASSUME IInv, NEW w \in Runners, Return(w), faults' \in Nat,
           job' \in {"none", "queued", "running"}, holders' \subseteq Runners,
           sync' \in {sync, EnqueueSync},
           UNCHANGED <<pncp, stale, listed, marker, fetched, syncCrashes, texts, rows, web>>
    PROVE  IInv'
<1>1. sync' = sync \/ (sync = "idle" /\ sync' = "queued")
  BY DEF EnqueueSync
<1>2. TypeOK'
  BY <1>1, ReturnInv DEF IInv, TypeOK, pncp, texts, rows, web
<1>3. Documents'
  BY <1>1, ReturnInv DEF IInv, Documents, SyncUnderWay, NeverSynced, MarkerIsCurrent,
     RowsAreListed, texts, rows
<1>4. Readings'
  BY SameReadings DEF IInv, texts
<1> QED BY <1>2, <1>3, <1>4, ReturnInv DEF IInv

\* The steps of a run that end it without a reading.
LEMMA StopInv ==
    ASSUME IInv, NEW w \in Runners,
           \/ CacheHit(w) \/ RaiseNotReady(w) \/ LateHit(w) \/ Fail(w) \/ Crash(w)
           \/ \E d \in Docs : NotServed(w, d)
    PROVE  IInv'
<1> USE DEF tender
<1>0. TypeOK /\ faults \in Nat /\ faults + 1 \in Nat
  BY DEF IInv, TypeOK
<1>1. CASE CacheHit(w)
  BY <1>0, <1>1, OutcomeType, EndInv DEF CacheHit
<1>2. CASE RaiseNotReady(w)
  BY <1>0, <1>2, OutcomeType, EndInv DEF RaiseNotReady
<1>3. CASE LateHit(w)
  BY <1>0, <1>3, OutcomeType, EndInv DEF LateHit
<1>4. CASE Fail(w)
  BY <1>0, <1>4, OutcomeType, EndInv DEF Fail
<1>5. CASE Crash(w)
  BY <1>0, <1>5, OutcomeType, EndInv DEF Crash
<1>6. ASSUME NEW d \in Docs, NotServed(w, d)
      PROVE  IInv'
  BY <1>0, <1>6, OutcomeType, EndInv DEF NotServed
<1> QED BY <1>1, <1>2, <1>3, <1>4, <1>5, <1>6

\* The claim, and the steps that take a run to its documents and to the model.
LEMMA AdvanceInv ==
    ASSUME IInv, NEW w \in Runners, Claim(w) \/ ReadList(w) \/ AskModel(w)
    PROVE  IInv'
<1>1. UNCHANGED <<content, record, faults, tender, texts, rows, web>>
  BY DEF Claim, ReadList, AskModel, reads
<1>2. Readings'
  BY <1>1, SameReadings DEF IInv, texts
<1>3. /\ run' \in [Runners -> {"idle", "resolved", "reading", "asked"}]
      /\ key' \in [Runners -> Hashes] /\ docs' \in [Runners -> Hashes]
      /\ job' \in {"none", "queued", "running"} /\ holders' \subseteq Runners
  BY DEF IInv, TypeOK, Claim, ReadList, AskModel, reads, Queue!Claim
<1>4. TypeOK'
  BY <1>1, <1>3 DEF IInv, TypeOK, tender, pncp, texts, rows, web
<1>5. listed = Empty => \A x \in Runners : AtDocuments(x)' => AtDocuments(x)
  BY DEF IInv, TypeOK, Documents, NeverSynced, NotReady, AtDocuments, Claim, ReadList, AskModel,
     HasRead
<1>6. Documents'
  BY <1>1, <1>5 DEF IInv, Documents, SyncUnderWay, NeverSynced, MarkerIsCurrent, RowsAreListed,
     tender, texts, rows
<1>7. CASE Claim(w)
  <2>1. RunsAreTidy'
    BY <1>1, <1>7 DEF Claim, IInv, TypeOK, Runs, RunsAreTidy, AtDocuments, Unread, reads
  <2>2. RunsReadTheirList'
    BY <1>1, <1>7 DEF Claim, IInv, Runs, RunsReadTheirList, texts, reads
  <2> QED BY <1>2, <1>4, <1>6, <2>1, <2>2 DEF IInv, Runs
<1>8. CASE ReadList(w)
  <2>1. RunsAreTidy'
    BY <1>1, <1>8 DEF ReadList, IInv, TypeOK, Runs, RunsAreTidy, AtDocuments, Unread
  <2>2. content[w] = Empty /\ \A d \in Docs : content[w][d] = None
    BY <1>8 DEF ReadList, IInv, Runs, RunsAreTidy, AtDocuments, Empty
  <2>3. RunsReadTheirList'
    BY <1>1, <1>8, <2>2 DEF ReadList, IInv, TypeOK, Runs, RunsReadTheirList, texts
  <2> QED BY <1>2, <1>4, <1>6, <2>1, <2>3 DEF IInv, Runs
<1>9. CASE AskModel(w)
  <2>1. RunsAreTidy'
    BY <1>1, <1>9 DEF AskModel, HasRead, IInv, TypeOK, Runs, RunsAreTidy, AtDocuments, Unread, reads
  <2>2. RunsReadTheirList'
    BY <1>1, <1>9 DEF AskModel, IInv, Runs, RunsReadTheirList, texts, reads
  <2> QED BY <1>2, <1>4, <1>6, <2>1, <2>2 DEF IInv, Runs
<1> QED BY <1>7, <1>8, <1>9

\* A document of a run is read: from its row, or from PNCP.
LEMMA DocumentInv ==
    ASSUME IInv, NEW w \in Runners, NEW d \in Docs, UseText(w, d) \/ Download(w, d)
    PROVE  IInv'
<1> DEFINE version == IF UseText(w, d) THEN text[d] ELSE published[d]
<1>1. /\ UNCHANGED <<job, holders, run, key, docs, faults, tender, text, rows, web>>
      /\ overtaken => overtaken'
      /\ overtaken' \in BOOLEAN
      /\ run[w] = "reading" /\ d \in Chosen(docs[w])
      /\ record' \in [Runners -> Docs \cup {None}]
      /\ \A x \in Runners : record'[x] # None => record[x] # None \/ x = w
  BY DEF UseText, Download, Due, Unread, IInv, TypeOK
<1>2. /\ content' = [content EXCEPT ![w][d] = version]
      /\ version \in Versions \cup {None}
      /\ ~overtaken' => ~overtaken /\ (version # None => version = docs[w][d])
  <2>1. CASE UseText(w, d)
    BY <2>1 DEF UseText, IInv, TypeOK, Hashes, Documents, RowsAreListed
  <2>2. CASE ~UseText(w, d) /\ Download(w, d)
    <3>1. version = published[d] /\ published \in Hashes
      BY <2>2, ListTypes DEF IInv, TypeOK
    <3>2. published[d] \in Versions \cup {None}
      BY <3>1 DEF Hashes
    <3> QED BY <2>2, <3>1, <3>2 DEF Download
  <2> QED BY <2>1, <2>2
<1> HIDE DEF version
<1>3. /\ content' \in [Runners -> Hashes]
      /\ content'[w] = [content[w] EXCEPT ![d] = version]
      /\ \A x \in Runners \ {w} : content'[x] = content[x]
  BY <1>2 DEF IInv, TypeOK, Hashes
<1>4. TypeOK'
  BY <1>1, <1>3 DEF IInv, TypeOK, tender, pncp, rows, web
<1>5. Documents' /\ Readings'
  BY <1>1, SameReadings DEF IInv, Documents, SyncUnderWay, NeverSynced, AtDocuments, MarkerIsCurrent,
     RowsAreListed, tender, rows
<1>6. RunsAreTidy'
  BY <1>1, <1>3 DEF IInv, Runs, RunsAreTidy, AtDocuments, Unread
<1>7. RunsReadTheirList'
  <2> SUFFICES ASSUME ~overtaken', NEW x \in Runners, NEW e \in Docs, content'[x][e] # None
               PROVE  content'[x][e] = Pages(docs[x])[e]
    BY <1>1 DEF RunsReadTheirList
  <2>1. CASE x = w /\ e = d
    BY <1>1, <1>2, <1>3, <2>1 DEF Pages, IInv, TypeOK, Hashes
  <2>2. CASE x # w \/ e # d
    BY <1>2, <1>3, <2>2 DEF IInv, TypeOK, Hashes, Runs, RunsReadTheirList
  <2> QED BY <2>1, <2>2
<1> QED BY <1>4, <1>5, <1>6, <1>7 DEF IInv, Runs

\* The text of a document is recorded on the row of its number.
LEMMA RecordInv == ASSUME IInv, NEW w \in Runners, Record(w) PROVE IInv'
<1>1. /\ UNCHANGED <<job, holders, run, key, docs, content, faults, tender, rows, web>>
      /\ overtaken => overtaken'
      /\ overtaken' \in BOOLEAN
      /\ record[w] \in Docs
      /\ record' \in [Runners -> Docs \cup {None}]
      /\ \A x \in Runners : record'[x] # None => record[x] # None
      /\ text' \in Hashes
  BY DEF Record, IInv, TypeOK, Hashes
<1>2. TypeOK'
  BY <1>1 DEF IInv, TypeOK, tender, pncp, rows, web
<1>3. Readings'
  BY <1>1, SameReadings DEF IInv
<1>4. RunsAreTidy' /\ RunsReadTheirList'
  BY <1>1 DEF IInv, Runs, RunsAreTidy, RunsReadTheirList, AtDocuments, Unread
<1>5. RowsAreListed'
  <2> SUFFICES ASSUME ~overtaken', NEW d \in Docs, text'[d] # None
               PROVE  text'[d] = listed[d]
    BY <1>1 DEF RowsAreListed, tender
  <2>1. ~overtaken /\ listed = docs[w]
    BY DEF Record
  <2>2. text[d] # None => text[d] = listed[d]
    BY <2>1 DEF IInv, Documents, RowsAreListed
  <2>3. content[w][d] # None => content[w][d] = listed[d]
    BY <2>1 DEF IInv, TypeOK, Runs, RunsReadTheirList, Pages
  <2>4. text'[d] \in {text[d], content[w][d]}
    BY <1>1 DEF Record, IInv, TypeOK, Hashes
  <2> QED BY <2>2, <2>3, <2>4
<1>6. Documents'
  BY <1>1, <1>5 DEF IInv, Documents, SyncUnderWay, NeverSynced, AtDocuments, MarkerIsCurrent, tender, rows
<1> QED BY <1>2, <1>3, <1>4, <1>6 DEF IInv, Runs

\* Storing a reading: unless the run was overtaken it was read from the documents
\* its key lists.
LEMMA StoreInv == ASSUME IInv, NEW w \in Runners, Store(w) PROVE IInv'
<1>1. /\ run[w] = "asked" /\ key[w] \in Hashes /\ content[w] \in Hashes
      /\ key[w] = docs[w] /\ listed # Empty
  BY DEF IInv, TypeOK, Documents, Runs, RunsAreTidy, NeverSynced, AtDocuments, Store
<1>2. ~overtaken => content[w] = Pages(key[w])
  <2> SUFFICES ASSUME ~overtaken
               PROVE  content[w] = Pages(key[w])
    OBVIOUS
  <2>1. Unread(w) = {}
    BY <1>1 DEF IInv, Runs, RunsAreTidy
  <2>2. \A d \in Docs : content[w][d] = Pages(docs[w])[d]
    <3> SUFFICES ASSUME NEW d \in Docs
                 PROVE  content[w][d] = Pages(docs[w])[d]
      OBVIOUS
    <3>1. CASE content[w][d] # None
      BY <3>1 DEF IInv, Runs, RunsReadTheirList
    <3>2. CASE content[w][d] = None
      BY <2>1, <3>2 DEF Unread, Pages, Chosen
    <3> QED BY <3>1, <3>2
  <2> QED BY <1>1, <2>2 DEF Hashes, Pages
<1>3. CASE Replaceable(key[w])
  <2>1. /\ readings' = {r \in readings : r[1] # key[w]} \cup {<<key[w], content[w]>>}
        /\ newest' = key[w]
        /\ Return(w) /\ UNCHANGED <<faults, tender, texts, web>>
        /\ job' \in {"none", "queued", "running"} /\ holders' \subseteq Runners
    BY <1>3, OutcomeType DEF Store, IInv
  <2>2. readings' \subseteq Hashes \X Hashes /\ newest' \in Hashes
    BY <1>1, <2>1 DEF IInv, TypeOK
  <2>3. TypeOK'
    BY <2>1, <2>2, ReturnInv DEF IInv, TypeOK, tender, pncp, texts, web
  <2>4. Documents'
    BY <1>1, <2>1, ReturnInv DEF IInv, Documents, SyncUnderWay, NeverSynced, MarkerIsCurrent,
       RowsAreListed, tender, texts
  <2>5. NewestIsStored'
    <3>1. <<key[w], content[w]>> \in readings' /\ <<key[w], content[w]>>[1] = key[w]
      BY <2>1
    <3> QED BY <2>1, <3>1 DEF NewestIsStored, Usable
  <2>6. ReadingMatchesItsKey'
    <3> SUFFICES ASSUME ~overtaken, NEW r \in readings'
                 PROVE  r[2] = Pages(r[1])
      BY <2>1 DEF ReadingMatchesItsKey, texts
    <3>1. CASE r \in readings
      BY <3>1 DEF IInv, Readings, ReadingMatchesItsKey
    <3>2. CASE r = <<key[w], content[w]>>
      BY <1>2, <3>2
    <3> QED BY <2>1, <3>1, <3>2
  <2> QED BY <2>1, <2>3, <2>4, <2>5, <2>6, ReturnInv DEF IInv, Readings
<1>4. CASE ~Replaceable(key[w])
  <2>1. job' \in {"none", "queued", "running"} /\ holders' \subseteq Runners
    BY OutcomeType DEF Store, IInv
  <2> QED BY <1>4, <2>1, EndInv DEF Store, IInv, TypeOK, tender
<1> QED BY <1>3, <1>4

\* What currentAnalysis returns is a stored analysis.
LEMMA CurrentIsStored == ASSUME IInv, Current # None PROVE Current \in Usable /\ Current \in Hashes
BY DEF IInv, TypeOK, Readings, Current, NewestIsStored, Usable

\* The viewer's steps touch no document.
LEMMA ViewerInv ==
    ASSUME IInv, NEW v \in Viewers, Spend(v) \/ Request(v) \/ Leave(v)
    PROVE  IInv'
<1>1. UNCHANGED <<tender, texts, rows, run, key, reads, faults>>
  BY DEF Spend, Request, ReadScreening, EnqueueJob, Poll, Leave, worker
<1>2. Documents' /\ Runs' /\ Readings'
  BY <1>1, SameRuns, SameReadings DEF IInv, Documents, SyncUnderWay, NeverSynced, MarkerIsCurrent,
     RowsAreListed, AtDocuments, tender, texts, rows, reads
<1>3. Current \in Hashes \cup {None}
  BY CurrentIsStored
<1>4. /\ job' \in {"none", "queued", "running"} /\ holders' \subseteq Runners
      /\ ask' \in [Viewers -> {"idle"} \cup Asking] /\ shown' \in [Viewers -> Hashes \cup {None}]
  BY <1>3 DEF IInv, TypeOK, Asking, Spend, Request, ReadScreening, EnqueueJob, Queue!Enqueue,
     Poll, Leave, worker
<1>5. TypeOK'
  BY <1>1, <1>4 DEF IInv, TypeOK, tender, pncp, texts, rows, reads
<1> QED BY <1>2, <1>5 DEF IInv

\* The stale sweep touches the job row only.
LEMMA SweepInv == ASSUME IInv, RequeueStale \/ Overrun PROVE IInv'
<1>1. /\ UNCHANGED <<tender, texts, rows, run, key, reads, web, holders>>
      /\ job' = "queued" /\ faults' \in Nat
  BY DEF RequeueStale, Overrun, Queue!RequeueStale, IInv, TypeOK
<1>2. Documents' /\ Runs' /\ Readings'
  BY <1>1, SameRuns, SameReadings DEF IInv, Documents, SyncUnderWay, NeverSynced, MarkerIsCurrent,
     RowsAreListed, AtDocuments, tender, texts, rows, reads
<1>3. TypeOK'
  BY <1>1 DEF IInv, TypeOK, tender, pncp, texts, rows, reads, web
<1> QED BY <1>2, <1>3 DEF IInv

\* The invariant is inductive.
LEMMA NextInv == IInv /\ [Next]_vars => IInv'
<1> SUFFICES ASSUME IInv, [Next]_vars
             PROVE  IInv'
  OBVIOUS
<1>1. CASE Publish \/ Sweep \/ SweepDies \/ Sync \/ CrashSync
  BY <1>1, TenderInv, UpsertInv DEF Sync
<1>2. ASSUME NEW w \in Runners, Work(w) \/ Fail(w) \/ Crash(w)
      PROVE  IInv'
  BY <1>2, StopInv, AdvanceInv, DocumentInv, RecordInv, StoreInv DEF Work, ReadFile
<1>3. CASE RequeueStale \/ Overrun
  BY <1>3, SweepInv
<1>4. CASE \E v \in Viewers : Spend(v) \/ Request(v) \/ Leave(v)
  BY <1>4, ViewerInv
<1>5. CASE UNCHANGED vars
  <2>1. UNCHANGED <<tender, texts, rows, worker, web>>
    BY <1>5 DEF vars, tender, pncp, texts, rows, worker, reads, web
  <2>2. Documents' /\ Runs' /\ Readings'
    BY <2>1, SameRuns, SameReadings DEF IInv, Documents, SyncUnderWay, NeverSynced, MarkerIsCurrent,
       RowsAreListed, AtDocuments, tender, texts, rows, worker, reads
  <2>3. TypeOK'
    BY <2>1 DEF IInv, TypeOK, tender, pncp, texts, rows, worker, reads, web
  <2> QED BY <2>2, <2>3 DEF IInv
<1> QED BY <1>1, <1>2, <1>3, <1>4, <1>5 DEF Next

\* The invariant holds in every reachable state.
THEOREM Invariance == Spec => []IInv
BY InitInv, NextInv, PTL DEF Spec

\* The rows and the variables of the runs and the requests keep their ranges.
THEOREM TypeCorrect == Spec => []TypeOK
BY Invariance, PTL DEF IInv

\* A stored reading is of the documents its files_hash lists, whichever runs
\* downloaded, recorded or found their texts, until an errata or its sync overtakes
\* a run at its documents.
THEOREM ReadingsMatchTheirKeys == Spec => []ReadingMatchesItsKey
BY Invariance, PTL DEF IInv, Readings

\* Every step of a run leaves the requests alone.
LEMMA RunsShowNothing ==
    ASSUME NEW w \in Runners, Work(w) \/ Fail(w) \/ Crash(w)
    PROVE  UNCHANGED shown
BY DEF Work, ReadFile, Claim, CacheHit, ReadList, RaiseNotReady, UseText, Download, NotServed, Record,
   LateHit, AskModel, Store, Fail, Crash, web

\* A step that answers a viewer is one of theirs and hands out Current.
LEMMA AnswerIsCurrent ==
    ASSUME TypeOK, [Next]_vars, NEW v \in Viewers, Answered(v)
    PROVE  shown'[v] = Current /\ Current # None
<1>1. CASE UNCHANGED shown
  BY <1>1 DEF Answered
<1>2. ASSUME NEW u \in Viewers, Spend(u) \/ Request(u) \/ Leave(u)
      PROVE  shown'[v] = Current /\ Current # None
  BY <1>2 DEF TypeOK, Answered, Spend, Request, ReadScreening, EnqueueJob, Poll, Leave
<1> QED
  BY <1>1, <1>2, RunsShowNothing DEF Next, Publish, Sweep, SweepDies, Sync, Fetch, SkipFresh,
     UpsertFiles, PruneFiles, DeleteMarker, InsertMarker, CrashSync, RequeueStale, Overrun, vars, web

\* Outside a sync, and until one dies half-way, viewers are given the reading
\* of the documents on file.
THEOREM FiledDocumentsAreServed == Spec => ServesTheFiledDocuments
<1>1. ASSUME IInv, [Next]_vars, NEW v \in Viewers, Answered(v),
             sync \in {"idle", "queued"}, syncCrashes = 0
      PROVE  shown'[v] = listed
  <2>1. shown'[v] = Current /\ Current # None /\ Current \in Usable
    BY <1>1, AnswerIsCurrent, CurrentIsStored DEF IInv
  <2>2. listed # Empty
    BY <1>1, <2>1 DEF IInv, Documents, NeverSynced, Usable
  <2>3. marker = listed
    BY <1>1, <2>2 DEF IInv, Documents, MarkerIsCurrent
  <2>4. marker # None
    BY <2>3, ListTypes, <1>1 DEF IInv, TypeOK
  <2> QED BY <2>1, <2>3, <2>4 DEF Current
<1>2. IInv /\ [Next]_vars =>
        [\A v \in Viewers :
           Answered(v) /\ sync \in {"idle", "queued"} /\ syncCrashes = 0 => shown'[v] = listed]_vars
  BY <1>1
<1> QED BY <1>2, Invariance, PTL DEF Spec, ServesTheFiledDocuments

\* No step removes or rewrites a stored reading, not even the second of two
\* runs that asked the model for the same documents.
THEOREM ReadingsArePermanent == Spec => ReadingsAreKept
<1>1. ASSUME NEW w \in Runners, Work(w) \/ Fail(w) \/ Crash(w)
      PROVE  readings \subseteq readings'
  <2>1. CASE Store(w)
    BY <2>1 DEF Store, Replaceable, rows, Usable
  <2> QED
    BY <1>1, <2>1 DEF Work, ReadFile, Claim, CacheHit, ReadList, RaiseNotReady, UseText, Download,
       NotServed, Record, LateHit, AskModel, Fail, Crash, rows
<1>2. ASSUME NEW v \in Viewers, Spend(v) \/ Request(v) \/ Leave(v)
      PROVE  UNCHANGED readings
  BY <1>2 DEF Spend, Request, ReadScreening, EnqueueJob, Poll, Leave, rows
<1>3. [Next]_vars => [readings \subseteq readings']_vars
  BY <1>1, <1>2 DEF Next, Publish, Sweep, SweepDies, Sync, Fetch, SkipFresh, UpsertFiles, PruneFiles,
     DeleteMarker, InsertMarker, CrashSync, RequeueStale, Overrun, vars, rows
<1> QED BY <1>3, PTL DEF Spec, ReadingsAreKept

-----------------------------------------------------------------------------
(* The queue under the screening. *)

\* The steps of PNCP, the sweep and sync_files leave the runs and the requests
\* alone.
LEMMA TenderStep ==
    ASSUME Publish \/ Sweep \/ SweepDies \/ Sync \/ CrashSync
    PROVE  UNCHANGED <<worker, web>>
BY DEF Publish, Sweep, SweepDies, Sync, Fetch, SkipFresh, UpsertFiles, PruneFiles, DeleteMarker,
   InsertMarker, CrashSync

\* What a run does to the row of its job, and to the count of faults.
LEMMA RunStep ==
    ASSUME TypeOK, NEW w \in Runners, Work(w)
    PROVE  /\ faults' = faults
           /\ \/ Queue!Claim(w) \/ Queue!MarkDone(w) \/ (Queue!MarkFailed(w) /\ run[w] # "idle")
              \/ UNCHANGED Queue!vars
<1>1. CASE ReadList(w) \/ AskModel(w)
  <2>1. \A v \in Runners : run'[v] # "idle" <=> run[v] # "idle"
    BY <1>1 DEF ReadList, AskModel, HasRead, TypeOK
  <2> QED BY <1>1, <2>1 DEF ReadList, AskModel, Queue!vars, AtWork
<1>2. CASE \E d \in Docs : UseText(w, d) \/ Download(w, d)
  BY <1>2 DEF UseText, Download, Queue!vars, AtWork
<1>3. CASE Record(w)
  BY <1>3 DEF Record, Queue!vars, AtWork
<1>4. CASE RaiseNotReady(w)
  BY <1>4 DEF RaiseNotReady
<1>5. CASE \E d \in Docs : NotServed(w, d)
  BY <1>5 DEF NotServed, Due
<1> QED
  BY <1>1, <1>2, <1>3, <1>4, <1>5 DEF Work, ReadFile, Claim, CacheHit, LateHit, Store

\* Every step is one the queue's contract allows, or leaves the job alone.
LEMMA QueueStep ==
    ASSUME TypeOK, [Next]_vars
    PROVE  Queue!Next \/ UNCHANGED Queue!vars
<1>1. CASE UNCHANGED <<job, holders, run>>
  BY <1>1 DEF Queue!vars, AtWork
<1>2. ASSUME NEW w \in Runners, Work(w) \/ Fail(w) \/ Crash(w)
      PROVE  Queue!Next \/ UNCHANGED Queue!vars
  BY <1>2, RunStep DEF Fail, Crash, Queue!Next
<1>3. CASE RequeueStale \/ Overrun
  BY <1>3 DEF RequeueStale, Overrun, Queue!Next
<1>4. ASSUME NEW v \in Viewers, EnqueueJob(v)
      PROVE  Queue!Next \/ UNCHANGED Queue!vars
  BY <1>4 DEF EnqueueJob, Queue!Next, Queue!vars, AtWork
<1>5. ASSUME NEW v \in Viewers, Spend(v) \/ ReadScreening(v) \/ Poll(v) \/ Leave(v)
      PROVE  UNCHANGED <<job, holders, run>>
  BY <1>5 DEF Spend, ReadScreening, Poll, Leave, worker
<1> QED
  BY <1>1, <1>2, <1>3, <1>4, <1>5, TenderStep DEF Next, Request, worker, vars

\* The screening uses its queue as JobQueue promises it: the runs of one tender
\* do nothing to the row that queue.py does not allow.
THEOREM KeepsToTheContract == Spec => Queue!Spec
<1>1. Init => Queue!Init
  BY DEF Init
<1>2. TypeOK /\ [Next]_vars => [Queue!Next]_(Queue!vars)
  BY QueueStep
<1> QED BY <1>1, <1>2, TypeCorrect, PTL DEF Spec, Queue!Spec

\* A run that holds the row is at work, and a settled row is in nobody's hands:
\* the late ones write by the id of their claim and find no row of theirs live.
HoldersAreAtWork == holders \subseteq AtWork /\ (job = "none" => holders = {})

\* As long as no run has failed, died or outlived the stale limit the runs at
\* work are one, and it holds the running row.
OneRunAtATime ==
    faults = 0 => /\ AtWork = holders
                  /\ \A v, w \in holders : v = w
                  /\ job # "running" => holders = {}
                  /\ job = "running" => holders # {}

\* Both hold whatever errata, syncs and requests come in between.
THEOREM TheRowIsHeldByRuns == Spec => []HoldersAreAtWork
<1>1. Init => HoldersAreAtWork
  BY DEF Init, Queue!Init, HoldersAreAtWork, AtWork
<1>2. HoldersAreAtWork /\ [Queue!Next]_(Queue!vars) => HoldersAreAtWork'
  BY DEF HoldersAreAtWork, Queue!Next, Queue!vars, Queue!Enqueue, Queue!RequeueStale, Queue!Claim,
     Queue!MarkDone, Queue!MarkFailed, Queue!Settle, Queue!Die
<1> QED BY <1>1, <1>2, KeepsToTheContract, PTL DEF Spec, Queue!Spec

\* Nobody's documents are read twice at a time, for whatever number of viewers
\* asks: the second run of a tender needs a fault of the first.
THEOREM OneRunWithoutFaults == Spec => []OneRunAtATime
<1>1. Init => OneRunAtATime
  BY DEF Init, Queue!Init, OneRunAtATime, AtWork
<1>2. TypeOK /\ OneRunAtATime /\ [Next]_vars => OneRunAtATime'
  <2> SUFFICES ASSUME TypeOK, OneRunAtATime, [Next]_vars, faults' = 0
               PROVE  OneRunAtATime'
    BY DEF OneRunAtATime
  <2>1. faults = 0
    <3>1. faults \in Nat
      BY DEF TypeOK
    <3>2. faults' = faults \/ faults' = faults + 1
      <4>1. ASSUME NEW v \in Viewers, Spend(v) \/ Request(v) \/ Leave(v)
            PROVE  faults' = faults
        BY <4>1 DEF Spend, Request, ReadScreening, EnqueueJob, Poll, Leave, worker
      <4> QED
        BY <4>1, RunStep, TenderStep DEF Next, Fail, Crash, RequeueStale, Overrun, vars, worker
    <3> QED BY <3>1, <3>2
  <2>2. ~Overrun /\ \A w \in Runners : ~Fail(w) /\ ~Crash(w)
    BY <2>1 DEF Overrun, Fail, Crash
  <2>3. CASE UNCHANGED Queue!vars
    BY <2>1, <2>3 DEF OneRunAtATime, Queue!vars
  <2>4. ASSUME NEW w \in Runners,
               Queue!Claim(w) \/ Queue!MarkDone(w) \/ (Queue!MarkFailed(w) /\ w \in holders)
        PROVE  OneRunAtATime'
    BY <2>1, <2>4 DEF OneRunAtATime, Queue!Claim, Queue!MarkDone, Queue!MarkFailed, Queue!Settle
  <2>5. ASSUME NEW w \in Runners, Work(w)
        PROVE  OneRunAtATime'
    <3>1. run[w] # "idle" => w \in holders
      BY <2>1 DEF OneRunAtATime, AtWork
    <3> QED BY <2>3, <2>4, <2>5, <3>1, RunStep
  <2>6. CASE RequeueStale
    BY <2>1, <2>6 DEF RequeueStale, Queue!RequeueStale, OneRunAtATime
  <2>7. ASSUME NEW v \in Viewers, EnqueueJob(v)
        PROVE  OneRunAtATime'
    <3>1. Queue!Enqueue \/ UNCHANGED Queue!vars
      BY <2>7 DEF EnqueueJob, Queue!vars, AtWork
    <3> QED BY <2>1, <2>3, <3>1 DEF Queue!Enqueue, OneRunAtATime
  <2>8. CASE UNCHANGED <<job, holders, run>>
    BY <2>3, <2>8 DEF Queue!vars, AtWork
  <2> QED
    BY <2>2, <2>5, <2>6, <2>7, <2>8, TenderStep DEF Next, Request, Spend, ReadScreening, Poll,
       Leave, worker, vars
<1> QED BY <1>1, <1>2, TypeCorrect, PTL DEF Spec
=============================================================================

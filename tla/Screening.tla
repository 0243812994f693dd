------------------------------ MODULE Screening ------------------------------
(***************************************************************************)
(* The triagem of one tender, from the request to the reading:             *)
(* requestScreening and readScreening of apps/web/lib/radar/screening.ts   *)
(* with the GET poll of its route, the ai_screening handler of             *)
(* worker/licitaqui/ai_screening.py with the documents it downloads        *)
(* (documents.py), and the sync_files job that replaces the tender's       *)
(* documents under them (sync_tenders.py, sync_files.py, files.py).        *)
(*                                                                         *)
(* A list of documents says for each document number which version of it   *)
(* is listed, if any, and is its own files_hash: the digest is of the list *)
(* as PNCP describes it, and a document that is replaced keeps its number  *)
(* and its address.  What a run has read, page by page, is such a list     *)
(* too.  Lists are compared, never ordered.  A usable ai_analyses row      *)
(* (`ok`, `no_text`) is named by its files_hash; prompts and extraction    *)
(* stay at one version, and PNCP always lists a document.  Every statement *)
(* commits alone.  The queue of the runs is the LiveJob that JobQueue      *)
(* implements.  Quotas are left out: see the README.                       *)
(***************************************************************************)
EXTENDS Naturals

CONSTANTS
    Viewers,        \* users and visitors whose quota lets them through
    Runners,        \* consumers an ai_screening run can be in
    Docs,           \* document numbers
    Versions,       \* versions of a document
    Wanted,         \* numbers of the Edital and the Termo de Referencia
    Lists,          \* the lists of documents the agency publishes
    First,          \* the one it publishes with the tender
    MaxErrata,      \* bound: how often it amends the tender
    MaxFaults,      \* bound: jobs that fail, die or outlive the stale limit
    None            \* no document, no marker, no reading

\* The digests of the lists a tender may have on file.
Hashes == [Docs -> Versions \cup {None}]

\* A tender that was never synced, and a run that has read nothing.
Empty == [d \in Docs |-> None]

ASSUME ScreeningAssumption ==
    /\ Docs \subseteq Nat
    /\ Lists \subseteq Hashes \ {Empty}
    /\ First \in Lists
    /\ MaxErrata \in Nat
    /\ MaxFaults \in Nat
    /\ None \notin Versions \cup Hashes

VARIABLES
    published,      \* the list PNCP answers with, and serves the documents of
    unswept,        \* whether the sweep has yet to see its last errata
    newer,          \* whether that errata is younger than the marker
    stale,          \* read_state: never fetched, 12 hours old, or the tender has changed
    listed,         \* tender_files: the list the collector holds
    text,           \* the version whose extracted text a row of tender_files carries
    marker,         \* the files_hash of the sync_files:<tender_id> event
    sync,           \* where the sync_files job is
    fetched,        \* the list it got from PNCP
    readings,       \* the usable analyses: <<files_hash, what it was read from>>
    newest,         \* the usable analysis with the latest created_at
    job,            \* the live ai_screening row of this tender
    holders,        \* runs whose claim is the live row
    run,            \* run[w]: where w's handler is
    key,            \* key[w]: the files_hash it goes by: resolve_files_hash's, then load_document's
    docs,           \* docs[w]: the list ensure_documents chose from
    content,        \* content[w]: the documents it has the text of, as they were served
    record,         \* record[w]: the one it has downloaded and is about to record
    ask,            \* ask[v]: where v's request is
    shown,          \* shown[v]: the reading v's latest request was answered with
    overtaken,      \* history: a run has touched a document of a list no longer current
    errata, faults, syncCrashes

pncp == <<published, unswept, newer, errata>>
tender == <<pncp, stale, listed, marker, sync, fetched, syncCrashes>>
texts == <<text, overtaken>>
rows == <<readings, newest>>
reads == <<docs, content, record>>
worker == <<job, holders, run, key, reads, faults>>
web == <<ask, shown>>
vars == <<published, unswept, newer, errata, stale, listed, marker, sync, fetched,
          syncCrashes, text, overtaken, readings, newest, job, holders, run, key,
          docs, content, record, faults, ask, shown>>

AtWork == {w \in Runners : run[w] # "idle"}

\* The queue, as far as the key of this tender goes.
Queue == INSTANCE LiveJob WITH Runs <- Runners, busy <- AtWork

\* The sweep that found the tender has enqueued its first sync_files, or died
\* before.
Init ==
    /\ published = First
    /\ unswept = FALSE
    /\ newer = FALSE
    /\ stale = TRUE
    /\ listed = Empty
    /\ text = Empty
    /\ marker = None
    /\ sync \in {"idle", "queued"}
    /\ fetched = Empty
    /\ readings = {}
    /\ newest = None
    /\ run = [w \in Runners |-> "idle"]
    /\ Queue!Init
    /\ key = [w \in Runners |-> Empty]
    /\ docs = [w \in Runners |-> Empty]
    /\ content = [w \in Runners |-> Empty]
    /\ record = [w \in Runners |-> None]
    /\ ask = [v \in Viewers |-> "idle"]
    /\ shown = [v \in Viewers |-> None]
    /\ overtaken = FALSE
    /\ faults = 0
    /\ errata = 0
    /\ syncCrashes = 0

----------------------------------------------------------------------------
(* The documents: PNCP, the sweep of changed tenders and sync_files. *)

\* The agency amends the tender: a document is replaced, added or withdrawn, or
\* they stay as they are.
Publish ==
    /\ errata < MaxErrata
    /\ errata' = errata + 1
    /\ published' \in Lists
    /\ unswept' = TRUE
    /\ newer' = TRUE
    /\ UNCHANGED <<stale, listed, marker, sync, fetched, syncCrashes, texts, rows, worker, web>>

\* Mutant of EnqueueSync: nothing is enqueued.
EnqueueSyncNever == sync

\* enqueue of a sync_files, deduped against the one that is queued or running.
EnqueueSync == IF sync = "idle" THEN "queued" ELSE sync

\* sync_open_tenders: the tender has changed, so its documents are asked for ...
Sweep ==
    /\ unswept
    /\ unswept' = FALSE
    /\ stale' = (stale \/ newer)
    /\ newer' = FALSE
    /\ sync' = EnqueueSync
    /\ UNCHANGED <<published, errata, listed, marker, fetched, syncCrashes,
                   texts, rows, worker, web>>

\* ... unless the sweep dies between the tender and the follow-up: its next run
\* finds nothing changed.
SweepDies ==
    /\ unswept
    /\ unswept' = FALSE
    /\ stale' = (stale \/ newer)
    /\ newer' = FALSE
    /\ UNCHANGED <<published, errata, listed, marker, sync, fetched, syncCrashes,
                   texts, rows, worker, web>>

\* The list is fetched, if only because 12 hours are over now.
Fetch ==
    /\ sync = "queued"
    /\ sync' = "fetched"
    /\ stale' = TRUE
    /\ fetched' = published
    /\ UNCHANGED <<pncp, listed, marker, syncCrashes, texts, rows, worker, web>>

\* The list is fresh.
SkipFresh ==
    /\ sync = "queued"
    /\ ~stale
    /\ sync' = "idle"
    /\ UNCHANGED <<pncp, stale, listed, marker, fetched, syncCrashes, texts, rows, worker, web>>

\* Mutant of Invalidated: the text survives the document.
InvalidatedNever(l) == text

\* The text that is left when the rows become those of l: of the documents that
\* are the same.
Invalidated(l) == [d \in Docs |-> IF l[d] = listed[d] THEN text[d] ELSE None]

\* upsert_files writes the documents it was given over those of their number ...
UpsertFiles ==
    /\ sync = "fetched"
    /\ listed' = [d \in Docs |-> IF fetched[d] # None THEN fetched[d] ELSE listed[d]]
    /\ text' = Invalidated(listed')
    /\ sync' = "written"
    /\ UNCHANGED <<pncp, stale, marker, fetched, syncCrashes, overtaken, rows, worker, web>>

\* ... and then deletes the others.
PruneFiles ==
    /\ sync = "written"
    /\ listed' = fetched
    /\ text' = Invalidated(fetched)
    /\ sync' = "upserted"
    /\ UNCHANGED <<pncp, stale, marker, fetched, syncCrashes, overtaken, rows, worker, web>>

\* mark_synced is two statements and no transaction.
DeleteMarker ==
    /\ sync = "upserted"
    /\ marker' = None
    /\ sync' = "unmarked"
    /\ UNCHANGED <<pncp, stale, listed, fetched, syncCrashes, texts, rows, worker, web>>

\* The marker is as young as its insert, whatever the list it names.
InsertMarker ==
    /\ sync = "unmarked"
    /\ marker' = fetched
    /\ newer' = FALSE
    /\ stale' = FALSE
    /\ sync' = "idle"
    /\ fetched' = Empty
    /\ UNCHANGED <<published, unswept, errata, listed, syncCrashes, texts, rows, worker, web>>

\* The consumer dies under the job, or PNCP fails it: it is run again, or has
\* failed for the last time, which is before anything is written.
CrashSync ==
    /\ sync # "idle"
    /\ faults + syncCrashes < MaxFaults
    /\ syncCrashes' = syncCrashes + 1
    /\ sync' \in {"queued"} \cup (IF sync = "queued" THEN {"idle"} ELSE {})
    /\ fetched' = Empty
    /\ UNCHANGED <<pncp, stale, listed, marker, texts, rows, worker, web>>

----------------------------------------------------------------------------
(* The web: POST and GET /api/tenders/:id/screening. *)

\* The hashes with a usable analysis.
Usable == {r[1] : r \in readings}

\* Mutant of Current: the newest analysis, whatever the marker says.
CurrentNewest == newest

\* currentAnalysis: the row of the marker's hash; the newest one without a
\* marker.
Current ==
    IF marker = None THEN newest
    ELSE IF marker \in Usable THEN marker
    ELSE None

Asking == {"spent", "missed", "polling"}

\* POST: spend lets the request through.
Spend(v) ==
    /\ ask[v] \in {"idle", "polling"}
    /\ ask' = [ask EXCEPT ![v] = "spent"]
    /\ shown' = [shown EXCEPT ![v] = None]
    /\ UNCHANGED <<tender, texts, rows, worker>>

\* POST: readScreening.
ReadScreening(v) ==
    /\ ask[v] = "spent"
    /\ ask' = [ask EXCEPT ![v] = IF Current = None THEN "missed" ELSE "idle"]
    /\ shown' = [shown EXCEPT ![v] = Current]
    /\ UNCHANGED <<tender, texts, rows, worker>>

\* POST: enqueueJob, deduped against the tender's live job.
EnqueueJob(v) ==
    /\ ask[v] = "missed"
    /\ ask' = [ask EXCEPT ![v] = "polling"]
    /\ UNCHANGED <<run, key, reads, faults, shown, tender, texts, rows>>
    /\ IF job = "none" THEN Queue!Enqueue ELSE UNCHANGED <<job, holders>>

\* GET: the poll is given the reading when there is one.
Poll(v) ==
    /\ ask[v] = "polling"
    /\ Current # None
    /\ shown' = [shown EXCEPT ![v] = Current]
    /\ ask' = [ask EXCEPT ![v] = "idle"]
    /\ UNCHANGED <<tender, texts, rows, worker>>

\* The function is killed, or the viewer leaves.
Leave(v) ==
    /\ ask[v] \in Asking
    /\ ask' = [ask EXCEPT ![v] = "idle"]
    /\ UNCHANGED <<shown, tender, texts, rows, worker>>

----------------------------------------------------------------------------
(* The worker: the ai_screening job. *)

\* A consumer claims the job and the handler resolves the current hash.
Claim(w) ==
    /\ run[w] = "idle"
    /\ run' = [run EXCEPT ![w] = "resolved"]
    /\ Queue!Claim(w)
    /\ key' = [key EXCEPT ![w] = listed]
    /\ UNCHANGED <<reads, faults, tender, texts, rows, web>>

\* The handler returns or dies, and its variables with it.
Return(w) ==
    /\ run' = [run EXCEPT ![w] = "idle"]
    /\ key' = [key EXCEPT ![w] = Empty]
    /\ docs' = [docs EXCEPT ![w] = Empty]
    /\ content' = [content EXCEPT ![w] = Empty]
    /\ record' = [record EXCEPT ![w] = None]

\* _cached_without_reading: the hit before anything is downloaded.
CacheHit(w) ==
    /\ run[w] = "resolved"
    /\ key[w] \in Usable
    /\ Return(w)
    /\ Queue!MarkDone(w)
    /\ UNCHANGED <<faults, tender, texts, rows, web>>

\* DocumentsNotReady: an empty list that was never fetched is no fact yet.
NotReady == listed = Empty /\ marker = None

\* ensure_documents reads the list once, for what to read and for its digest,
\* which load_document prefers over the resolved one.
ReadList(w) ==
    /\ run[w] = "resolved"
    /\ key[w] \notin Usable
    /\ ~NotReady
    /\ docs' = [docs EXCEPT ![w] = listed]
    /\ key' = [key EXCEPT ![w] = listed]
    /\ run' = [run EXCEPT ![w] = "reading"]
    /\ UNCHANGED <<job, holders, content, record, faults, tender, texts, rows, web>>

\* ensure_documents enqueues sync_files and raises.
RaiseNotReady(w) ==
    /\ run[w] = "resolved"
    /\ key[w] \notin Usable
    /\ NotReady
    /\ sync' = EnqueueSync
    /\ Return(w)
    /\ Queue!MarkFailed(w)
    /\ UNCHANGED <<pncp, stale, listed, marker, fetched, syncCrashes, faults, texts, rows, web>>

\* wanted_files: the Edital and the Termo de Referencia when the list has one,
\* every document otherwise.
Chosen(l) ==
    LET active == {d \in Docs : l[d] # None}
    IN  IF active \cap Wanted = {} THEN active ELSE active \cap Wanted

\* What a reading of the list l is to be read from.
Pages(l) == [d \in Docs |-> IF d \in Chosen(l) THEN l[d] ELSE None]

Unread(w) == {d \in Chosen(docs[w]) : content[w][d] = None}

\* read_file is called document by document, in the order of their numbers.
Due(w, d) ==
    /\ run[w] = "reading"
    /\ record[w] = None
    /\ d \in Unread(w)
    /\ \A e \in Unread(w) : d <= e

\* cached_text: the row, as it is now, carries a text.
UseText(w, d) ==
    /\ Due(w, d)
    /\ text[d] # None
    /\ content' = [content EXCEPT ![w][d] = text[d]]
    /\ overtaken' = (overtaken \/ listed # docs[w])
    /\ UNCHANGED <<job, holders, run, key, docs, record, faults, tender, text, rows, web>>

\* It carried none a moment ago, or the store has lost it: the document is
\* downloaded, from an address that its next version has too ...
Download(w, d) ==
    /\ Due(w, d)
    /\ published[d] # None
    /\ content' = [content EXCEPT ![w][d] = published[d]]
    /\ record' = [record EXCEPT ![w] = d]
    /\ overtaken' = (overtaken \/ published # docs[w])
    /\ UNCHANGED <<job, holders, run, key, docs, faults, tender, text, rows, web>>

\* ... and its text is recorded on the row of that number and address, if it is
\* still there.
Record(w) ==
    /\ record[w] # None
    /\ text' = IF listed[record[w]] = None THEN text
                ELSE [text EXCEPT ![record[w]] = content[w][record[w]]]
    /\ record' = [record EXCEPT ![w] = None]
    /\ overtaken' = (overtaken \/ listed # docs[w])
    /\ UNCHANGED <<job, holders, run, key, docs, content, faults, tender, rows, web>>

\* PNCP has withdrawn the document: a 404 fails the run.
NotServed(w, d) ==
    /\ Due(w, d)
    /\ published[d] = None
    /\ Return(w)
    /\ Queue!MarkFailed(w)
    /\ UNCHANGED <<faults, tender, texts, rows, web>>

\* Every chosen document is read.
HasRead(w) == run[w] = "reading" /\ record[w] = None /\ Unread(w) = {}

\* The second look in the cache, now with that hash ...
LateHit(w) ==
    /\ HasRead(w)
    /\ key[w] \in Usable
    /\ Return(w)
    /\ Queue!MarkDone(w)
    /\ UNCHANGED <<faults, tender, texts, rows, web>>

\* ... before the model is asked.
AskModel(w) ==
    /\ HasRead(w)
    /\ key[w] \notin Usable
    /\ run' = [run EXCEPT ![w] = "asked"]
    /\ UNCHANGED <<job, holders, key, reads, faults, tender, texts, rows, web>>

\* Mutant of Replaceable: on conflict do update without the where.
ReplaceableAlways(h) == h \in Hashes

\* The upsert's where: a usable row is kept.
Replaceable(h) == h \notin Usable

\* The answer, or the verdict that there is no text, is stored; mark_done
\* follows.
Store(w) ==
    /\ run[w] = "asked"
    /\ IF Replaceable(key[w])
         THEN /\ readings' = {r \in readings : r[1] # key[w]}
                              \cup {<<key[w], content[w]>>}
              /\ newest' = key[w]
         ELSE UNCHANGED rows
    /\ Return(w)
    /\ Queue!MarkDone(w)
    /\ UNCHANGED <<faults, tender, texts, web>>

\* The download, the circuit or the model fails: a `failed` row is no reading
\* and replaces none.
Fail(w) ==
    /\ run[w] \in {"reading", "asked"}
    /\ faults + syncCrashes < MaxFaults
    /\ faults' = faults + 1
    /\ Return(w)
    /\ Queue!MarkFailed(w)
    /\ UNCHANGED <<tender, texts, rows, web>>

\* The consumer dies; its row stays running ...
Crash(w) ==
    /\ faults + syncCrashes < MaxFaults
    /\ faults' = faults + 1
    /\ Return(w)
    /\ Queue!Die({w})
    /\ UNCHANGED <<tender, texts, rows, web>>

\* ... until requeue_stale.
RequeueStale ==
    /\ holders = {}
    /\ UNCHANGED <<run, key, reads, faults, tender, texts, rows, web>>
    /\ Queue!RequeueStale

\* requeue_stale takes the row from a run that is still at work.
Overrun ==
    /\ holders # {}
    /\ faults + syncCrashes < MaxFaults
    /\ faults' = faults + 1
    /\ UNCHANGED <<run, key, reads, tender, texts, rows, web>>
    /\ Queue!RequeueStale

Sync == Fetch \/ SkipFresh \/ UpsertFiles \/ PruneFiles \/ DeleteMarker \/ InsertMarker

ReadFile(w) ==
    \/ \E d \in Docs : UseText(w, d) \/ Download(w, d) \/ NotServed(w, d)
    \/ Record(w)

Work(w) ==
    \/ Claim(w)
    \/ CacheHit(w)
    \/ ReadList(w)
    \/ RaiseNotReady(w)
    \/ ReadFile(w)
    \/ LateHit(w)
    \/ AskModel(w)
    \/ Store(w)

Request(v) == ReadScreening(v) \/ EnqueueJob(v) \/ Poll(v)

Next ==
    \/ Publish
    \/ Sweep
    \/ SweepDies
    \/ Sync
    \/ CrashSync
    \/ \E w \in Runners : Work(w) \/ Fail(w) \/ Crash(w)
    \/ RequeueStale
    \/ Overrun
    \/ \E v \in Viewers : Spend(v) \/ Request(v) \/ Leave(v)

Spec == Init /\ [][Next]_vars

\* The worker runs its queue.
Consume == RequeueStale \/ \E w \in Runners : Work(w)

\* A request runs to its end and polls, and a viewer whose poll finds nothing
\* presses the button again.
Persist(v) == Request(v) \/ (ask[v] = "polling" /\ Spend(v))

\* The sweep sees a changed tender, and of the worker it is enough that it goes
\* on with the syncs and goes on with the runs.
Fairness ==
    /\ WF_vars(Sweep)
    /\ WF_vars(Sync)
    /\ WF_vars(Consume)
    /\ \A v \in Viewers : WF_vars(Persist(v))

FairSpec == Spec /\ Fairness

----------------------------------------------------------------------------
(* Properties. *)

\* The type invariant.
TypeOK ==
    /\ published \in Lists
    /\ unswept \in BOOLEAN
    /\ newer \in BOOLEAN
    /\ stale \in BOOLEAN
    /\ listed \in Hashes
    /\ text \in Hashes
    /\ marker \in Hashes \cup {None}
    /\ sync \in {"idle", "queued", "fetched", "written", "upserted", "unmarked"}
    /\ fetched \in Hashes
    /\ readings \subseteq Hashes \X Hashes
    /\ newest \in Hashes \cup {None}
    /\ job \in {"none", "queued", "running"}
    /\ holders \subseteq Runners
    /\ run \in [Runners -> {"idle", "resolved", "reading", "asked"}]
    /\ key \in [Runners -> Hashes]
    /\ docs \in [Runners -> Hashes]
    /\ content \in [Runners -> Hashes]
    /\ record \in [Runners -> Docs \cup {None}]
    /\ ask \in [Viewers -> {"idle"} \cup Asking]
    /\ shown \in [Viewers -> Hashes \cup {None}]
    /\ overtaken \in BOOLEAN
    /\ faults \in Nat
    /\ errata \in Nat
    /\ syncCrashes \in Nat

\* ai_screening.py: a row never "lies about which documents it read" - the text
\* behind a reading is that of the documents its files_hash lists, whichever runs
\* downloaded it, recorded it or found it on the rows, through errata, half-written
\* lists and syncs that die - unless an errata, or its sync, has overtaken a run
\* that was at its documents: the address of a document is that of its next
\* version.
ReadingMatchesItsKey == ~overtaken => \A r \in readings : r[2] = Pages(r[1])

\* This step answers v's request with a reading.
Answered(v) == shown[v] = None /\ shown'[v] # None

\* With no sync under way and none lost half-way, what a viewer is given is the
\* reading that is keyed by the documents on file, whatever order syncs, runs and
\* requests came in.
ServesTheFiledDocuments ==
    [][\A v \in Viewers :
          Answered(v) /\ sync \in {"idle", "queued"} /\ syncCrashes = 0
              => shown'[v] = listed]_vars

\* ai_screening.py: a stored reading "is never overwritten", by a retry, or by a
\* second run of the job that asked the model at the same time.
ReadingsAreKept == [][readings \subseteq readings']_vars

\* An errata is on PNCP, the list on file or its marker is an older one, and nobody
\* is going to fetch it: its sweep died, the sync was given up, or the errata came
\* while one was under way, which deduped the follow-up or made the marker look
\* younger than the errata.
PassedOver ==
    /\ sync = "idle"
    /\ ~unswept
    /\ listed # Empty
    /\ listed # published \/ marker \notin {None, listed}

\* Whoever asks, and presses the button again when nothing comes, is served or
\* leaves - through faults, syncs that were never enqueued or given up, and
\* errata that withdraw the documents under a run - unless an errata is passed
\* over.
EveryAskIsServed ==
    \A v \in Viewers : ask[v] \in Asking ~> ask[v] = "idle" \/ PassedOver

\* documents.py on RECORD_SQL: the text of a replaced document "must lose", or an
\* analysis is "of a document nobody is reading" - once the errata is on file, who
\* asks is given a reading of the documents as amended.
AmendedDocumentsAreRead ==
    [][\A v \in Viewers :
          Answered(v) /\ sync = "idle" /\ listed = published /\ marker = published
              => <<shown'[v], Pages(published)>> \in readings]_vars
=============================================================================

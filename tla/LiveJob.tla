------------------------------- MODULE LiveJob -------------------------------
(***************************************************************************)
(* What worker/licitaqui/queue.py promises whoever enqueues under one      *)
(* (kind, key): the row of that key that is queued or running, if there is *)
(* one, and the runs of its handler.  A run that claimed the live row      *)
(* holds it; once the row is settled by somebody else's outcome the run is *)
(* late, and may still write by the id of its claim.  JobQueue implements  *)
(* this for every key, and Screening is built on it.                       *)
(***************************************************************************)
CONSTANT
    Runs            \* the consumers a run of the handler can be in

VARIABLES
    job,            \* the key's live row: "none", "queued" or "running"
    holders,        \* runs whose claim is the live row
    busy            \* runs between their claim and their outcome

vars == <<job, holders, busy>>

Init ==
    /\ job = "none"
    /\ holders = {}
    /\ busy = {}

\* insert ... on conflict do nothing, where it inserts.
Enqueue ==
    /\ job = "none"
    /\ job' = "queued"
    /\ UNCHANGED <<holders, busy>>

Claim(r) ==
    /\ job = "queued"
    /\ r \notin busy
    /\ job' = "running"
    /\ holders' = holders \cup {r}
    /\ busy' = busy \cup {r}

\* Mutant of Settle: the row stays the key's live one.
SettleKept == job' = "done" /\ holders' = {}

\* The live row is settled, whoever else is at work on it.
Settle == job' = "none" /\ holders' = {}

\* mark_done, by the id of r's claim.
MarkDone(r) ==
    /\ r \in busy
    /\ busy' = busy \ {r}
    /\ \/ r \in holders /\ Settle
       \/ r \notin holders /\ UNCHANGED <<job, holders>>

\* mark_failed, by the id of r's claim: back to the queue or given up.  A row
\* that another run has settled is reopened, unless the key has a live one, and
\* the runs still at work on that row hold it again.
MarkFailed(r) ==
    /\ r \in busy
    /\ busy' = busy \ {r}
    /\ \/ r \in holders /\ Settle
       \/ r \in holders /\ job' = "queued" /\ holders' = holders \ {r}
       \/ r \notin holders /\ UNCHANGED <<job, holders>>
       \/ /\ r \notin holders
          /\ job = "none"
          /\ job' = "queued"
          /\ holders' \in SUBSET (busy \ {r})

\* The consumers of some runs die under the handler, and the row stays as it
\* is ...
Die(dead) ==
    /\ dead \subseteq busy
    /\ busy' = busy \ dead
    /\ holders' = holders \ dead
    /\ UNCHANGED job

\* ... until requeue_stale, which may also take it from a run at work.
RequeueStale ==
    /\ job = "running"
    /\ job' = "queued"
    /\ UNCHANGED <<holders, busy>>

Next ==
    \/ Enqueue
    \/ RequeueStale
    \/ \E r \in Runs : Claim(r) \/ MarkDone(r) \/ MarkFailed(r)
    \/ \E dead \in SUBSET Runs : Die(dead)

Spec == Init /\ [][Next]_vars
=============================================================================

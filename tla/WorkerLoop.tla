------------------------------ MODULE WorkerLoop ------------------------------
(***************************************************************************)
(* One worker process and the ways it is woken: WakeSignal and             *)
(* Consumer.run in worker/licitaqui/consumer.py, Scheduler.tick in         *)
(* scheduler.py, POST /wake in server.py, WorkerService.shutdown in        *)
(* service.py, and the web's enqueueJob and wakeWorker.                    *)
(*                                                                         *)
(* The queue is reduced to the state of each key's live row: which         *)
(* consumer gets a row, attempts and crashes are JobQueue's subject, and   *)
(* when anybody looks at the queue at all is this module's.                *)
(***************************************************************************)
EXTENDS Naturals

CONSTANTS
    Consumers,      \* consumer threads of the process, sharing one WakeSignal
    UserKeys,       \* keys a web request enqueues for somebody on screen
    RefreshKeys,    \* keys the web enqueues behind data it already served
    ScheduleKeys,   \* keys the scheduler's entries produce
    MaxInserts,     \* bound: rows that are ever inserted
    MaxFailures,    \* bound: drains that die on the database
    MaxLostPosts,   \* bound: POST /wake calls that never arrive
    MaxTickFailures \* bound: scheduler ticks that die between two inserts

ASSUME WorkerLoopAssumption ==
    /\ Consumers # {}
    /\ MaxInserts \in Nat
    /\ MaxFailures \in Nat
    /\ MaxLostPosts \in Nat
    /\ MaxTickFailures \in Nat

Keys == UserKeys \cup RefreshKeys \cup ScheduleKeys

VARIABLES
    row,            \* row[k]: the live row of key k, "none" when there is none
    retried,        \* keys whose live row has used up its retries
    event,          \* WakeSignal._event
    stop,           \* WorkerService.stop
    notifying,      \* shutdown is between stop.set() and wake.notify()
    pc,             \* pc[c]: where consumer c is in Consumer.run
    posts,          \* keys whose insert sent a POST /wake still on its way
    ticking,        \* keys the current scheduler tick has inserted
    notified,       \* history: keys inserted before a notify nobody forfeited
    ignored,        \* history: due rows a user's request was deduped against
    inserts, failures, lostPosts, tickFailures

queue == <<row, retried, inserts>>
signal == <<event, stop, notifying>>
web == <<posts, lostPosts>>
scheduler == <<ticking, tickFailures>>
history == <<notified, ignored>>
vars == <<row, retried, event, stop, notifying, pc, posts, ticking, notified,
          ignored, inserts, failures, lostPosts, tickFailures>>

Rows == {"none", "backoff", "queued", "running"}

\* Loop positions.  "drain" is before `with self.connect()`, "claim" before
\* the inner loop's stop check, "checked" between that check and the claim,
\* "drained" before the outer stop check, "pausing" between that check and
\* Event.wait, "waiting" blocked in Event.wait, "woken" between its return and
\* Event.clear.
Positions == {"top", "drain", "claim", "checked", "handling", "drained",
              "pausing", "waiting", "woken", "stopped"}

Init ==
    /\ row = [k \in Keys |-> "none"]
    /\ retried = {}
    /\ event = FALSE
    /\ stop = FALSE
    /\ notifying = FALSE
    /\ pc = [c \in Consumers |-> "top"]
    /\ posts = {}
    /\ ticking = {}
    /\ notified = {}
    /\ ignored = {}
    /\ inserts = 0
    /\ failures = 0
    /\ lostPosts = 0
    /\ tickFailures = 0

----------------------------------------------------------------------------
(* The signal and the rows. *)

\* Event.set: the flag, and every thread blocked in wait.
Notify ==
    /\ event' = TRUE
    /\ pc' = [c \in Consumers |-> IF pc[c] = "waiting" THEN "woken" ELSE pc[c]]

\* Mutant of Insert: a row in a state no statement knows.
InsertPending(k) ==
    /\ row[k] = "none"
    /\ inserts < MaxInserts
    /\ inserts' = inserts + 1
    /\ row' = [row EXCEPT ![k] = "pending"]
    /\ UNCHANGED retried

\* The insert of a key without a live row, due at once.
Insert(k) ==
    /\ row[k] = "none"
    /\ inserts < MaxInserts
    /\ inserts' = inserts + 1
    /\ row' = [row EXCEPT ![k] = "queued"]
    /\ UNCHANGED retried

DueKeys == {k \in Keys : row[k] = "queued"}

----------------------------------------------------------------------------
(* The web. *)

\* enqueueJob at PRIORITY_USER_WAITING that inserted a row: the POST is sent.
Request(k) ==
    /\ k \in UserKeys
    /\ Insert(k)
    /\ posts' = posts \cup {k}
    /\ UNCHANGED <<signal, pc, scheduler, history, failures, lostPosts>>

\* The same call on a key with a live row: deduped, and no POST.
DedupedRequest(k) ==
    /\ k \in UserKeys
    /\ row[k] # "none"
    /\ ignored' = ignored \cup ({k} \cap DueKeys)
    /\ UNCHANGED <<queue, signal, pc, web, scheduler, notified, failures>>

\* enqueueJob at PRIORITY_REFRESH: nobody is woken.
Refresh(k) ==
    /\ k \in RefreshKeys
    /\ Insert(k)
    /\ UNCHANGED <<signal, pc, web, scheduler, history, failures>>

\* The POST reaches on_wake.
DeliverPost(k) ==
    /\ k \in posts
    /\ posts' = posts \ {k}
    /\ Notify
    /\ notified' = notified \cup ({k} \cap DueKeys)
    /\ UNCHANGED <<queue, stop, notifying, scheduler, ignored, failures, lostPosts>>

\* postWake swallows every failure.
LosePost(k) ==
    /\ k \in posts
    /\ lostPosts < MaxLostPosts
    /\ lostPosts' = lostPosts + 1
    /\ posts' = posts \ {k}
    /\ UNCHANGED <<queue, signal, pc, scheduler, history, failures>>

----------------------------------------------------------------------------
(* The scheduler thread. *)

\* One entry of a tick that has come due.  stop is checked between ticks.
TickInsert(k) ==
    /\ stop => ticking # {}
    /\ k \in ScheduleKeys
    /\ Insert(k)
    /\ ticking' = ticking \cup {k}
    /\ UNCHANGED <<signal, pc, web, history, failures, tickFailures>>

\* The end of a tick that created something: on_enqueue, after the connection
\* has closed.
TickNotify ==
    /\ ticking # {}
    /\ ticking' = {}
    /\ Notify
    /\ notified' = notified \cup (ticking \cap DueKeys)
    /\ UNCHANGED <<queue, stop, notifying, web, ignored, failures, tickFailures>>

\* An enqueue of the tick raises: the rows before it stay, on_enqueue does not
\* run.
TickFail ==
    /\ ticking # {}
    /\ tickFailures < MaxTickFailures
    /\ tickFailures' = tickFailures + 1
    /\ ticking' = {}
    /\ UNCHANGED <<queue, signal, pc, web, history, failures>>

----------------------------------------------------------------------------
(* Consumer.run, one thread. *)

\* Consumer c moves on and touches neither the rows nor the signal.
Goto(c, from, to) ==
    /\ pc[c] = from
    /\ pc' = [pc EXCEPT ![c] = to]
    /\ UNCHANGED <<queue, signal, web, scheduler, history, failures>>

Top(c) == Goto(c, "top", IF stop THEN "stopped" ELSE "drain")

Connect(c) == Goto(c, "drain", "claim")

\* Mutant of CheckStop: `while True` around the claim.
CheckStopNever(c) == Goto(c, "claim", "checked")

CheckStop(c) == Goto(c, "claim", IF stop THEN "drained" ELSE "checked")

\* The drain raises: run logs it and falls through to the stop check and the
\* (shorter) wait.  What the wakes so far asked for is forfeited.
DrainFails(c) ==
    /\ pc[c] \in {"drain", "checked"}
    /\ failures < MaxFailures
    /\ failures' = failures + 1
    /\ pc' = [pc EXCEPT ![c] = "drained"]
    /\ notified' = {}
    /\ UNCHANGED <<queue, signal, web, scheduler, ignored>>

\* queue.claim returns a row.
ClaimRow(c, k) ==
    /\ pc[c] = "checked"
    /\ row[k] = "queued"
    /\ row' = [row EXCEPT ![k] = "running"]
    /\ pc' = [pc EXCEPT ![c] = "handling"]
    /\ notified' = notified \ {k}
    /\ ignored' = ignored \ {k}
    /\ UNCHANGED <<retried, inserts, signal, web, scheduler, failures>>

\* queue.claim returns None: the drain is over.
ClaimNone(c) == DueKeys = {} /\ Goto(c, "checked", "drained")

\* The handler is over: settled, or back in the queue with a backoff.  Which
\* running row is this consumer's is not tracked.
Finish(c, k) ==
    /\ pc[c] = "handling"
    /\ row[k] = "running"
    /\ \/ /\ row' = [row EXCEPT ![k] = "none"]
          /\ retried' = retried \ {k}
       \/ /\ k \notin retried
          /\ row' = [row EXCEPT ![k] = "backoff"]
          /\ retried' = retried \cup {k}
    /\ pc' = [pc EXCEPT ![c] = "claim"]
    /\ UNCHANGED <<inserts, signal, web, scheduler, history, failures>>

\* The stop check before the wait.
CheckStopAgain(c) == Goto(c, "drained", IF stop THEN "stopped" ELSE "pausing")

\* Mutant of Wait: a Condition, which remembers no notify.
WaitForNotify(c) == Goto(c, "pausing", "waiting")

\* Event.wait returns at once when the flag is up.
Wait(c) == Goto(c, "pausing", IF event THEN "woken" ELSE "waiting")

\* Mutant of Timeout: Event.wait without one.
TimeoutNever(c) == event /\ Goto(c, "waiting", "woken")

\* The poll interval, or the error pause, runs out.
Timeout(c) == Goto(c, "waiting", "woken")

\* Event.clear, after either return of Event.wait.
Clear(c) ==
    /\ pc[c] = "woken"
    /\ event' = FALSE
    /\ pc' = [pc EXCEPT ![c] = "top"]
    /\ UNCHANGED <<queue, stop, notifying, web, scheduler, history, failures>>

----------------------------------------------------------------------------
(* Time and the end of the process. *)

\* A backoff runs out: run_after passes, and nothing wakes anybody.
BecomeDue(k) ==
    /\ row[k] = "backoff"
    /\ row' = [row EXCEPT ![k] = "queued"]
    /\ UNCHANGED <<retried, inserts, signal, pc, web, scheduler, history, failures>>

\* WorkerService.shutdown: stop.set() ...
Shutdown ==
    /\ ~stop
    /\ stop' = TRUE
    /\ notifying' = TRUE
    /\ UNCHANGED <<queue, event, pc, web, scheduler, history, failures>>

\* ... then one wake.notify().
ShutdownNotify ==
    /\ notifying
    /\ notifying' = FALSE
    /\ Notify
    /\ UNCHANGED <<queue, stop, web, scheduler, history, failures>>

Step(c) ==
    \/ Top(c)
    \/ Connect(c)
    \/ CheckStop(c)
    \/ \E k \in Keys : ClaimRow(c, k) \/ Finish(c, k)
    \/ ClaimNone(c)
    \/ CheckStopAgain(c)
    \/ Wait(c)
    \/ Timeout(c)
    \/ Clear(c)

Next ==
    \/ \E k \in Keys : \/ Request(k)
                       \/ DedupedRequest(k)
                       \/ Refresh(k)
                       \/ DeliverPost(k)
                       \/ LosePost(k)
                       \/ TickInsert(k)
                       \/ BecomeDue(k)
    \/ TickNotify
    \/ TickFail
    \/ Shutdown
    \/ ShutdownNotify
    \/ \E c \in Consumers : Step(c) \/ DrainFails(c)

Spec == Init /\ [][Next]_vars

\* Threads run, handlers end, the poll interval and the backoffs run out.
\* Nothing forces a request, a POST to arrive, a tick to end or the process to
\* be told to stop; not even the notify of shutdown is relied on.
Fairness ==
    /\ \A c \in Consumers : WF_vars(Step(c))
    /\ \A k \in Keys : WF_vars(BecomeDue(k))

FairSpec == Spec /\ Fairness

----------------------------------------------------------------------------
(* Properties. *)

\* The type invariant.
TypeOK ==
    /\ row \in [Keys -> Rows]
    /\ retried \subseteq Keys
    /\ event \in BOOLEAN
    /\ notifying \in BOOLEAN
    /\ stop \in BOOLEAN
    /\ pc \in [Consumers -> Positions]
    /\ posts \subseteq UserKeys
    /\ ticking \subseteq ScheduleKeys
    /\ notified \subseteq Keys
    /\ ignored \subseteq Keys
    /\ inserts \in Nat
    /\ failures \in Nat
    /\ lostPosts \in Nat
    /\ tickFailures \in Nat

\* Positions from which a consumer comes to the claim without a wait.
AtWork == {"top", "drain", "claim", "checked", "handling", "woken"}

\* Some consumer will look at the queue without waiting for a poll: it is at
\* work, or about to meet a raised flag.
Awake ==
    \/ \E c \in Consumers : pc[c] \in AtWork
    \/ event /\ \E c \in Consumers : pc[c] \in {"drained", "pausing"}

\* A wake is never lost between wait and clear: a row inserted before a notify
\* that arrived is claimed without waiting for a poll, whichever consumer took
\* the signal and however the notify fell among their steps.
WakeIsNotLost == notified # {} => Awake \/ stop

\* The poll is the safety net under every lost wake: a due row does not stay in
\* the queue while the process runs, whatever was lost, failed or deduped.
DueRowIsClaimed == \A k \in Keys : row[k] = "queued" ~> (row[k] # "queued" \/ stop)

\* A shutdown ends every consumer, including one that went to sleep with its
\* stop check already behind it.
ShutdownEnds == stop ~> \A c \in Consumers : pc[c] = "stopped"

\* A consumer that has seen stop claims nothing more, and one that has not
\* claims at most the row it was about to claim: after stop no loop comes back
\* to the claim.
NoNewClaimsAfterStop ==
    [][\A c \in Consumers : stop /\ pc[c] # "checked" => pc'[c] \notin {"checked", "handling"}
                            \/ pc'[c] = pc[c]]_vars

\* enqueueJob's comment on deduped rows: "the consumer drains to empty before
\* sleeping - so whoever inserted that row already woke the worker".
DedupedRequestIsHeard == ignored # {} => Awake \/ stop \/ posts # {} \/ ticking # {}
=============================================================================

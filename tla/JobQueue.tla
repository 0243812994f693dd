------------------------------- MODULE JobQueue -------------------------------
(***************************************************************************)
(* The `jobs` table and the consumers that claim from it:                  *)
(* worker/licitaqui/queue.py, Consumer.drain and Consumer.execute in       *)
(* worker/licitaqui/consumer.py, and the web's enqueueJob.                 *)
(*                                                                         *)
(* A row is one id; each column the statements read or write is a variable *)
(* over the ids.  The two timestamps are kept as what the statements ask   *)
(* of them: `due` is run_after <= now(), `stale` is updated_at < now() -   *)
(* STALE_RUNNING_SECONDS.  The worker runs in autocommit, so every         *)
(* statement is one step, except the claim: its inner SELECT takes a row   *)
(* lock that other statements meet, so it is two.                          *)
(***************************************************************************)
EXTENDS Naturals

CONSTANTS
    Ids,            \* the ids the bigserial can hand out (a bound of the model)
    Keys,           \* the (kind, key) pairs of the dedupe index
    Consumers,      \* consumer threads, in one container or several
    Serves,         \* Serves[c]: the keys whose kind consumer c claims
    Priorities,     \* job priorities, 1 is a user on screen
    MaxAttempts,    \* config.MAX_ATTEMPTS
    MaxLosses,      \* bound: how many claims are lost to a crash
    MaxOverruns,    \* bound: how many handlers outlive the stale limit
    NoKey,          \* the key of an id that has no row
    NoId            \* the claim of an idle consumer

ASSUME JobQueueAssumption ==
    /\ Ids \subseteq Nat
    /\ NoId \notin Ids
    /\ NoKey \notin Keys
    /\ Serves \in [Consumers -> SUBSET Keys]
    /\ Priorities \subseteq Nat
    /\ MaxAttempts \in Nat \ {0}
    /\ MaxLosses \in Nat
    /\ MaxOverruns \in Nat

VARIABLES
    status,         \* status[i], "absent" until id i is inserted
    key,            \* key[i]: the row's (kind, key)
    priority,       \* priority[i]
    attempts,       \* attempts[i]: how often the row was claimed
    due,            \* due[i]: run_after <= now()
    stale,          \* stale[i]: not updated for STALE_RUNNING_SECONDS
    pc,             \* pc[c]: where consumer c is inside drain
    job,            \* job[c]: Job.id of its claim
    attempt,        \* attempt[c]: Job.attempts as the claim returned it
    losses,         \* claims lost so far
    overruns        \* handlers that outlived the stale limit so far

table == <<status, key, priority, attempts, due, stale>>
consumers == <<pc, job, attempt>>
faults == <<losses, overruns>>
vars == <<status, key, priority, attempts, due, stale, pc, job, attempt, losses, overruns>>

Live == {"queued", "running"}
Settled == {"done", "failed"}
Statuses == {"absent"} \cup Live \cup Settled
Phases == {"idle", "locking", "handling", "succeeded", "raised"}

\* A consumer between its claim and the end of execute.
Busy(c) == pc[c] \in {"handling", "succeeded", "raised"}

\* Mutant of Conflicts: an index over the queued rows only.
ConflictsWithQueued(k) == \E i \in Ids : status[i] = "queued" /\ key[i] = k

\* The predicate of the partial unique index jobs_dedupe.
Conflicts(k) == \E i \in Ids : status[i] \in Live /\ key[i] = k

\* Mutant of Locked: a SELECT without FOR UPDATE.
LockedNever(i) == i \in Ids /\ FALSE

\* The row lock of the claim's FOR UPDATE, held until the statement commits.
Locked(i) == \E c \in Consumers : pc[c] = "locking" /\ job[c] = i

\* The consumer that made the row's latest claim is still at work on it.
Owned(i) == \E c \in Consumers : Busy(c) /\ job[c] = i /\ attempt[c] = attempts[i]

Init ==
    /\ status = [i \in Ids |-> "absent"]
    /\ key = [i \in Ids |-> NoKey]
    /\ priority = [i \in Ids |-> 0]
    /\ attempts = [i \in Ids |-> 0]
    /\ due = [i \in Ids |-> FALSE]
    /\ stale = [i \in Ids |-> FALSE]
    /\ pc = [c \in Consumers |-> "idle"]
    /\ job = [c \in Consumers |-> NoId]
    /\ attempt = [c \in Consumers |-> 0]
    /\ losses = 0
    /\ overruns = 0

----------------------------------------------------------------------------
(* Producers: the web, the scheduler and the handlers' follow-ups. *)

\* Mutant of Unused: an insert that updates a settled row instead.
UnusedOrSettled == {i \in Ids : status[i] \notin Live}

\* The ids the sequence has not handed out yet.
Unused == {i \in Ids : \A j \in Ids : status[j] # "absent" => j < i}

\* One insert ... on conflict do nothing: a row for every key of the batch
\* that has no live row, on consecutive new ids.
Enqueue(batch, p, now) ==
    LET fresh == {k \in batch : ~Conflicts(k)}
    IN  /\ fresh # {}
        /\ \E id \in [fresh -> Unused] :
             /\ \A k, l \in fresh : id[k] = id[l] => k = l
             /\ \A k \in fresh, i \in Unused :
                  i < id[k] => \E l \in fresh : id[l] = i
             /\ LET new == {id[k] : k \in fresh}
                IN  /\ status' = [i \in Ids |-> IF i \in new THEN "queued" ELSE status[i]]
                    /\ key' = [i \in Ids |-> IF i \in new
                                               THEN CHOOSE k \in fresh : id[k] = i
                                               ELSE key[i]]
                    /\ priority' = [i \in Ids |-> IF i \in new THEN p ELSE priority[i]]
                    /\ due' = [i \in Ids |-> IF i \in new THEN now ELSE due[i]]
        /\ UNCHANGED <<attempts, stale, consumers, faults>>

----------------------------------------------------------------------------
(* A consumer: claim, run the handler, record the outcome. *)

Claimable(c) == {i \in Ids : status[i] = "queued" /\ due[i] /\ key[i] \in Serves[c]}

\* order by priority, id
Before(i, j) == priority[i] < priority[j] \/ (priority[i] = priority[j] /\ i <= j)

\* The claim's inner SELECT: the first due row nobody has locked.
SelectForUpdate(c) ==
    /\ pc[c] = "idle"
    /\ \E i \in Claimable(c) :
         /\ ~Locked(i)
         /\ \A j \in Claimable(c) : ~Locked(j) => Before(i, j)
         /\ job' = [job EXCEPT ![c] = i]
    /\ pc' = [pc EXCEPT ![c] = "locking"]
    /\ UNCHANGED <<table, attempt, faults>>

\* Mutant of NextAttempt: a claim that does not count itself.
NextAttemptSame(i) == IF attempts[i] = 0 THEN 1 ELSE attempts[i]

\* attempts = attempts + 1
NextAttempt(i) == attempts[i] + 1

\* The claim's UPDATE: the statement commits and the handler starts.
Claim(c) ==
    /\ pc[c] = "locking"
    /\ status' = [status EXCEPT ![job[c]] = "running"]
    /\ attempts' = [attempts EXCEPT ![job[c]] = NextAttempt(job[c])]
    /\ stale' = [stale EXCEPT ![job[c]] = FALSE]
    /\ attempt' = [attempt EXCEPT ![c] = NextAttempt(job[c])]
    /\ pc' = [pc EXCEPT ![c] = "handling"]
    /\ UNCHANGED <<key, priority, due, job, faults>>

\* The handler returns, or raises an Exception.
Handle(c) ==
    /\ pc[c] = "handling"
    /\ \E outcome \in {"succeeded", "raised"} : pc' = [pc EXCEPT ![c] = outcome]
    /\ UNCHANGED <<table, job, attempt, faults>>

\* Mutant of Release: the consumer is left where no loop takes it up.
ReleaseNowhere(c) ==
    /\ pc' = [pc EXCEPT ![c] = "released"]
    /\ job' = [job EXCEPT ![c] = NoId]
    /\ attempt' = [attempt EXCEPT ![c] = 0]

\* The consumer lets go of its claim.
Release(c) ==
    /\ pc' = [pc EXCEPT ![c] = "idle"]
    /\ job' = [job EXCEPT ![c] = NoId]
    /\ attempt' = [attempt EXCEPT ![c] = 0]

\* `where id = %s` and nothing else: the row may be another consumer's by now.
MarkDone(c) ==
    /\ pc[c] = "succeeded"
    /\ ~Locked(job[c])
    /\ status' = [status EXCEPT ![job[c]] = "done"]
    /\ stale' = [stale EXCEPT ![job[c]] = FALSE]
    /\ Release(c)
    /\ UNCHANGED <<key, priority, attempts, due, faults>>

\* Mutant of Spent: the last attempt is tried again.
SpentLate(n) == n > MaxAttempts

\* Mutant of Spent: one attempt short.
SpentEarly(n) == n >= MaxAttempts - 1

\* next_backoff: None once the attempt the claim returned was the last one.
Spent(n) == n >= MaxAttempts

\* Mutant of Collides: an index over the queued rows only.
CollidesWithQueued(i) == \E j \in Ids \ {i} : status[j] = "queued" /\ key[j] = key[i]

\* Putting the row back would make a second live row of its key.
Collides(i) == \E j \in Ids \ {i} : status[j] \in Live /\ key[j] = key[i]

MarkFailed(c) ==
    /\ pc[c] = "raised"
    /\ ~Locked(job[c])
    /\ \/ /\ Spent(attempt[c])
          /\ status' = [status EXCEPT ![job[c]] = "failed"]
          /\ due' = due
       \/ /\ ~Spent(attempt[c])
          /\ ~Collides(job[c])
          /\ status' = [status EXCEPT ![job[c]] = "queued"]
          /\ due' = [due EXCEPT ![job[c]] = FALSE]
    /\ stale' = [stale EXCEPT ![job[c]] = FALSE]
    /\ Release(c)
    /\ UNCHANGED <<key, priority, attempts, faults>>

\* mark_failed raises the unique violation out of execute's except clause:
\* the drain fails and the row stays as it was.
MarkFailedRefused(c) ==
    /\ pc[c] = "raised"
    /\ ~Locked(job[c])
    /\ ~Spent(attempt[c])
    /\ Collides(job[c])
    /\ Release(c)
    /\ UNCHANGED <<table, faults>>

----------------------------------------------------------------------------
(* Time, crashes and the stale sweep. *)

\* The container dies, or the connection drops under a statement.
Lose(c) ==
    /\ pc[c] # "idle"
    /\ losses < MaxLosses
    /\ losses' = losses + 1
    /\ Release(c)
    /\ UNCHANGED <<table, overruns>>

\* A backoff, or a run_after in the future, runs out.
BecomeDue(i) ==
    /\ status[i] = "queued"
    /\ ~due[i]
    /\ due' = [due EXCEPT ![i] = TRUE]
    /\ UNCHANGED <<status, key, priority, attempts, stale, consumers, faults>>

\* The stale limit passes over a row its consumer has abandoned.
BecomeStale(i) ==
    /\ status[i] = "running"
    /\ ~stale[i]
    /\ ~Owned(i)
    /\ stale' = [stale EXCEPT ![i] = TRUE]
    /\ UNCHANGED <<status, key, priority, attempts, due, consumers, faults>>

\* The stale limit passes while the handler is still running: nothing renews
\* updated_at during a job.
Overrun(i) ==
    /\ status[i] = "running"
    /\ ~stale[i]
    /\ Owned(i)
    /\ overruns < MaxOverruns
    /\ overruns' = overruns + 1
    /\ stale' = [stale EXCEPT ![i] = TRUE]
    /\ UNCHANGED <<status, key, priority, attempts, due, consumers, losses>>

\* Mutant of Abandoned: a sweep that leaves out the rows with no attempt left.
AbandonedUnspent(c) ==
    {i \in Ids : status[i] = "running" /\ stale[i] /\ key[i] \in Serves[c]
                   /\ attempts[i] < MaxAttempts}

\* The rows requeue_stale selects.
Abandoned(c) == {i \in Ids : status[i] = "running" /\ stale[i] /\ key[i] \in Serves[c]}

\* The sweep at the head of a drain: one UPDATE over every stale row.
RequeueStale(c) ==
    /\ pc[c] = "idle"
    /\ Abandoned(c) # {}
    /\ status' = [i \in Ids |-> IF i \in Abandoned(c) THEN "queued" ELSE status[i]]
    /\ stale' = [i \in Ids |-> IF i \in Abandoned(c) THEN FALSE ELSE stale[i]]
    /\ UNCHANGED <<key, priority, attempts, due, consumers, faults>>

Next ==
    \/ \E batch \in SUBSET Keys, p \in Priorities, now \in BOOLEAN : Enqueue(batch, p, now)
    \/ \E c \in Consumers :
         \/ SelectForUpdate(c)
         \/ Claim(c)
         \/ Handle(c)
         \/ MarkDone(c)
         \/ MarkFailed(c)
         \/ MarkFailedRefused(c)
         \/ Lose(c)
         \/ RequeueStale(c)
    \/ \E i \in Ids : BecomeDue(i) \/ BecomeStale(i) \/ Overrun(i)

Spec == Init /\ [][Next]_vars

\* Consumers keep looping, handlers end, time passes and each drain sweeps
\* once an hour.  Nothing makes a producer insert or a consumer crash.
Fairness ==
    /\ \A c \in Consumers :
         /\ WF_vars(SelectForUpdate(c))
         /\ WF_vars(Claim(c))
         /\ WF_vars(Handle(c))
         /\ WF_vars(MarkDone(c))
         /\ WF_vars(MarkFailed(c) \/ MarkFailedRefused(c))
         /\ WF_vars(RequeueStale(c))
    /\ \A i \in Ids : WF_vars(BecomeDue(i)) /\ WF_vars(BecomeStale(i))

FairSpec == Spec /\ Fairness

----------------------------------------------------------------------------
(* Properties. *)

\* The type invariant: every column and every consumer variable in its range.
TypeOK ==
    /\ status \in [Ids -> Statuses]
    /\ key \in [Ids -> Keys \cup {NoKey}]
    /\ priority \in [Ids -> Nat]
    /\ attempts \in [Ids -> Nat]
    /\ due \in [Ids -> BOOLEAN]
    /\ stale \in [Ids -> BOOLEAN]
    /\ pc \in [Consumers -> Phases]
    /\ job \in [Consumers -> Ids \cup {NoId}]
    /\ attempt \in [Consumers -> Nat]
    /\ losses \in Nat
    /\ overruns \in Nat

\* queue.py: "one live job per (kind, key)".  No sequence of enqueues, late
\* outcomes, retries and stale sweeps leaves two live rows with one key.
OneLiveJobPerKey ==
    \A i, j \in Ids :
        status[i] \in Live /\ status[j] \in Live /\ key[i] = key[j] => i = j

\* The attempt a claim returns tells the consumers of a row apart: after a sweep
\* two may be at work on it, but never two on the same attempt.
ClaimIsExclusive ==
    \A c, d \in Consumers :
        c # d /\ Busy(c) /\ Busy(d) /\ job[c] = job[d] => attempt[c] # attempt[d]

\* A key's handler runs in one consumer at a time as long as no handler has
\* outlived STALE_RUNNING_SECONDS (queue.py: "two consumers can never claim the
\* same job"): crashes and retries alone never put one key in two hands.
OneRunnerPerKey ==
    overruns = 0 =>
        \A c, d \in Consumers :
            c # d /\ Busy(c) /\ Busy(d) => key[job[c]] # key[job[d]]

\* mark_failed: a job is `failed` only after MAX_ATTEMPTS claims, whichever
\* consumer wrote it and however late.
FailedIsSpent == \A i \in Ids : status[i] = "failed" => attempts[i] >= MaxAttempts

\* A row settled on its first attempt stays as it is: only a row that a sweep
\* or a retry handed to a second attempt can be reopened by a late outcome.
FirstOutcomeStands ==
    [][\A i \in Ids :
         status[i] \in Settled /\ attempts[i] = 1 => status'[i] = status[i]]_vars

\* Every job that enters the queue is settled in the end, through backoffs,
\* crashes and overruns, for finitely many of the last two.
EveryJobSettles ==
    \A i \in Ids : status[i] \in Live ~> status[i] \in Settled

\* requeue_stale's docstring: "a job whose consumer keeps dying still reaches
\* `failed` after four attempts".  No row is claimed more often than that.
AttemptsWithinBudget == \A i \in Ids : attempts[i] <= MaxAttempts

\* What does hold of the budget: every claim beyond MAX_ATTEMPTS was paid for by
\* a claim that a crash lost or a handler that outlived the stale limit, whoever
\* failed, retried or swept the row in between.
ClaimsAreExplained == \A i \in Ids : attempts[i] <= MaxAttempts + losses + overruns

----------------------------------------------------------------------------
(* What the queue looks like to whoever enqueues under key k. *)

RowIs(k, s) == \E i \in Ids : key[i] = k /\ status[i] = s

LiveRow(k) ==
    IF RowIs(k, "running") THEN "running" ELSE IF RowIs(k, "queued") THEN "queued" ELSE "none"

AtWork(k) == {c \in Consumers : Busy(c) /\ key[job[c]] = k}

Holding(k) == {c \in AtWork(k) : status[job[c]] \in Live}

Contract(k) ==
    INSTANCE LiveJob WITH Runs <- Consumers, job <- LiveRow(k), holders <- Holding(k),
                          busy <- AtWork(k)

\* Whatever the rows and consumers of the other keys do, the rows of one key
\* behave as the one live job of LiveJob: a late outcome never settles, requeues
\* or releases somebody else's row of that key.
ImplementsLiveJob ==
    /\ \A k \in Keys : Contract(k)!Init
    /\ [][\A k \in Keys : Contract(k)!Next \/ UNCHANGED Contract(k)!vars]_vars
=============================================================================

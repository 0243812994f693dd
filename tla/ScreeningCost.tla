---------------------------- MODULE ScreeningCost ----------------------------
(***************************************************************************)
(* What a triagem costs: the monthly allowance of one user or visitor      *)
(* (spend and hasSpentOn of apps/web/lib/radar/quota.ts, called by the     *)
(* POST and GET of the screening route) and the job that is to make the    *)
(* reading that was paid for, whose call to OpenRouter goes through the    *)
(* circuit breaker that the worker's consumers share (breaker.py,          *)
(* ai_screening.py) with the jobs that title tenders (title_tender.py).    *)
(*                                                                         *)
(* A row of usage is <<tender, request>>: a request that has charged a     *)
(* tender sees its own row from then on and charges it once.  Only the     *)
(* rows of the current month are kept, as no statement counts an older     *)
(* one.  Time is the turn of the month, the cooldown of the circuit and    *)
(* the backoff of a job, each an action of its own.  Plans without a limit *)
(* refuse nothing and are left out; documents, errata and second runs of a *)
(* live job are the module Screening's.                                    *)
(***************************************************************************)
EXTENDS Naturals, FiniteSets

CONSTANTS
    Requests,     \* the spender's tabs and instances, one POST at a time each
    Tenders,      \* tenders they may ask about
    Cached,       \* those already read when the spender comes, for somebody else
    Consumers,    \* the worker's consumer threads
    Limit,        \* plan_limits.quantity of the spender's plan
    Threshold,    \* BREAKER_FAILURE_THRESHOLD
    MaxAttempts,  \* MAX_ATTEMPTS of a job
    MaxFaults,    \* bound: calls that fail, functions killed, restarts of the worker
    Title,        \* the work of a title_tender job
    None          \* no work, no tender

ASSUME ScreeningCostAssumption ==
    /\ IsFiniteSet(Requests)
    /\ Cached \subseteq Tenders
    /\ Limit \in Nat
    /\ Threshold \in Nat \ {0}
    /\ MaxAttempts \in Nat \ {0}
    /\ MaxFaults \in Nat
    /\ Title \notin Tenders
    /\ None \notin Tenders \cup {Title}

VARIABLES
    usage,     \* the spender's rows of usage, in the current period
    ask,       \* ask[r]: where the request is, or how it was answered
    about,     \* about[r]: the tender it is about
    counted,   \* counted[r]: what spend's `already` and `spent` have counted, and
               \* whether the month has turned since
    readings,  \* tenders with a usable analysis
    job,       \* job[t]: the live ai_screening row of t
    attempts,  \* attempts[t]: and its claims
    at,        \* at[c]: where consumer c's handler is
    work,      \* work[c]: what it works on
    failures, circuit, probing,  \* the breaker: _failures, _opened_at, _probing
    prober,    \* history: whose call has set _probing
    lost,      \* history: that call was a title's and has ended without a report
    faults

web == <<ask, about, counted>>
queue == <<job, attempts>>
threads == <<at, work>>
breaker == <<failures, circuit, probing, prober, lost>>
vars == <<usage, ask, about, counted, readings, job, attempts, at, work,
          failures, circuit, probing, prober, lost, faults>>

Nothing == [repeat |-> FALSE, room |-> FALSE, late |-> FALSE]

Init ==
    /\ usage = {}
    /\ ask = [r \in Requests |-> "idle"]
    /\ about = [r \in Requests |-> None]
    /\ counted = [r \in Requests |-> Nothing]
    /\ readings = Cached
    /\ job = [t \in Tenders |-> "none"]
    /\ attempts = [t \in Tenders |-> 0]
    /\ at = [c \in Consumers |-> "idle"]
    /\ work = [c \in Consumers |-> None]
    /\ failures = 0
    /\ circuit = "closed"
    /\ probing = FALSE
    /\ prober = None
    /\ lost = FALSE
    /\ faults = 0

----------------------------------------------------------------------------
(* The web: POST and GET of /api/tenders/:id/screening. *)

\* Mutant of Room: one more than the plan grants.
RoomForOneMore == Cardinality(usage) <= Limit

\* Mutant of Room: one less than the plan grants.
RoomForOneLess == Cardinality(usage) + 1 < Limit

\* spend's `spent`, over every row of the period.
Room == Cardinality(usage) < Limit

\* hasSpentOn, and spend's `already`.
HasSpentOn(t) == \E r \in Requests : <<t, r>> \in usage

Over == {"idle", "read"}

\* POST: readLimit, and the snapshot of spend's statement.
Count(r, t) ==
    /\ ask' = [ask EXCEPT ![r] = "counted"]
    /\ about' = [about EXCEPT ![r] = t]
    /\ counted' = [counted EXCEPT ![r] =
                      [repeat |-> HasSpentOn(t), room |-> Room, late |-> FALSE]]
    /\ UNCHANGED <<usage, readings, queue, threads, breaker, faults>>

Press(r) == ask[r] \in Over /\ \E t \in Tenders : Count(r, t)

PressAgain(r) == ask[r] = "waiting" /\ Count(r, about[r])

Charges(r) == ~counted[r].repeat /\ counted[r].room

\* Mutant of Allowed: whoever has paid is refused the second time.
AllowedOnce(r) == Charges(r)

\* The same tender twice is free.
Allowed(r) == Charges(r) \/ counted[r].repeat

\* POST: the insert of spend's statement, by what the same statement counted.
\* Its now() is the statement's start: a row of a month that is over counts no
\* more.
Spend(r) ==
    /\ ask[r] = "counted"
    /\ usage' = IF Charges(r) /\ ~counted[r].late THEN usage \cup {<<about[r], r>>} ELSE usage
    /\ IF Allowed(r)
         THEN ask' = [ask EXCEPT ![r] = "paid"] /\ UNCHANGED about
         ELSE ask' = [ask EXCEPT ![r] = "idle"] /\ about' = [about EXCEPT ![r] = None]
    /\ counted' = [counted EXCEPT ![r] = Nothing]
    /\ UNCHANGED <<readings, queue, threads, breaker, faults>>

Read(r) ==
    /\ ask' = [ask EXCEPT ![r] = "read"]
    /\ about' = [about EXCEPT ![r] = None]

\* POST: readScreening, or enqueueJob, deduped against the tender's live row.
Respond(r) ==
    /\ ask[r] = "paid"
    /\ IF about[r] \in readings
         THEN Read(r) /\ UNCHANGED queue
         ELSE /\ ask' = [ask EXCEPT ![r] = "waiting"]
              /\ UNCHANGED about
              /\ job' = [job EXCEPT ![about[r]] = IF @ = "none" THEN "queued" ELSE @]
              /\ UNCHANGED attempts
    /\ UNCHANGED <<usage, counted, readings, threads, breaker, faults>>

\* The function is killed after the charge; the viewer sees an error.
Kill(r) ==
    /\ ask[r] = "paid"
    /\ faults < MaxFaults
    /\ faults' = faults + 1
    /\ ask' = [ask EXCEPT ![r] = "waiting"]
    /\ UNCHANGED <<usage, about, counted, readings, queue, threads, breaker>>

\* GET: the poll serves whoever has paid, in this period.
Poll(r) ==
    /\ ask[r] = "waiting"
    /\ HasSpentOn(about[r])
    /\ about[r] \in readings
    /\ Read(r)
    /\ UNCHANGED <<usage, counted, readings, queue, threads, breaker, faults>>

\* periodStart: a new month, in Brasilia.
Rollover ==
    /\ usage' = {}
    /\ counted' = [r \in Requests |->
                     [counted[r] EXCEPT !.late = ask[r] = "counted"]]
    /\ UNCHANGED <<ask, about, readings, queue, threads, breaker, faults>>

----------------------------------------------------------------------------
(* The circuit breaker of OpenRouter, each method under its lock. *)

\* allow: a closed circuit lets every call through, a cooled one a single probe.
Admits == circuit = "closed" \/ (circuit = "cooled" /\ ~probing)

Allow(c) ==
    /\ Admits
    /\ probing' = (probing \/ circuit = "cooled")
    /\ prober' = IF circuit = "cooled" THEN c ELSE prober
    /\ UNCHANGED <<failures, circuit, lost>>

RecordSuccess ==
    /\ failures' = 0
    /\ circuit' = "closed"
    /\ probing' = FALSE
    /\ prober' = None
    /\ lost' = FALSE

\* Mutant of RecordFailure: the probe's slot is not given back.
RecordFailureProbing ==
    /\ failures' = failures + 1
    /\ circuit' = IF failures + 1 >= Threshold THEN "open" ELSE circuit
    /\ UNCHANGED <<probing, prober, lost>>

\* _opened_at is stamped again by every failure from the threshold on.
RecordFailure ==
    /\ failures' = failures + 1
    /\ circuit' = IF failures + 1 >= Threshold THEN "open" ELSE circuit
    /\ probing' = FALSE
    /\ prober' = None
    /\ lost' = FALSE

\* build_for of title_tender.py reports nothing of a title that comes back as
\* None, or not at all; the slot, if this call has it, stays taken.
Unreported(c) ==
    /\ lost' = (lost \/ prober = c)
    /\ UNCHANGED <<failures, circuit, probing, prober>>

\* reset_after seconds since _opened_at.
Cooldown ==
    /\ circuit = "open"
    /\ circuit' = "cooled"
    /\ UNCHANGED <<usage, web, readings, queue, threads, failures, probing, prober, lost, faults>>

----------------------------------------------------------------------------
(* The worker: ai_screening and title_tender. *)

Queued == {t \in Tenders : job[t] = "queued"}

\* A waiting user's job has priority 1 ...
ClaimScreening(c, t) ==
    /\ at[c] = "idle"
    /\ t \in Queued
    /\ job' = [job EXCEPT ![t] = "running"]
    /\ attempts' = [attempts EXCEPT ![t] = @ + 1]
    /\ at' = [at EXCEPT ![c] = "claimed"]
    /\ work' = [work EXCEPT ![c] = t]
    /\ UNCHANGED <<usage, web, readings, breaker, faults>>

\* ... and a title is claimed when none is due.  One that is refused a call goes
\* back to its queue, which is left out.
CallForTitle(c) ==
    /\ at[c] = "idle"
    /\ Queued = {}
    /\ Allow(c)
    /\ at' = [at EXCEPT ![c] = "calling"]
    /\ work' = [work EXCEPT ![c] = Title]
    /\ UNCHANGED <<usage, web, readings, queue, faults>>

Return(c) ==
    /\ at' = [at EXCEPT ![c] = "idle"]
    /\ work' = [work EXCEPT ![c] = None]

\* The tender has no live row any more; its next one starts at 0.
Settle(t) ==
    /\ job' = [job EXCEPT ![t] = "none"]
    /\ attempts' = [attempts EXCEPT ![t] = 0]

\* Mutant of GivesUp: only what was never claimed is given up.
GivesUpUnclaimed(t) == attempts[t] < 1

\* next_backoff: the budget is spent.
GivesUp(t) == attempts[t] >= MaxAttempts

\* mark_failed.
MarkFailed(t) ==
    \/ GivesUp(t) /\ Settle(t)
    \/ ~GivesUp(t) /\ job' = [job EXCEPT ![t] = "backoff"] /\ UNCHANGED attempts

\* breaker.allow() reserves a slot ...
Call(c) ==
    /\ at[c] = "claimed"
    /\ Allow(c)
    /\ at' = [at EXCEPT ![c] = "calling"]
    /\ UNCHANGED <<usage, web, readings, queue, work, faults>>

\* ... or CircuitOpen is raised, which costs the job an attempt.
RaiseCircuitOpen(c) ==
    /\ at[c] = "claimed"
    /\ ~Admits
    /\ MarkFailed(work[c])
    /\ Return(c)
    /\ UNCHANGED <<usage, web, readings, breaker, faults>>

\* OpenRouter answers: record_success, store and mark_done.
Store(c) ==
    /\ at[c] = "calling"
    /\ work[c] # Title
    /\ RecordSuccess
    /\ readings' = readings \cup {work[c]}
    /\ Settle(work[c])
    /\ Return(c)
    /\ UNCHANGED <<usage, web, faults>>

\* A title, or an answer that is rejected: build then returns the fallback, or
\* None where the tender has none.
WriteTitle(c) ==
    /\ at[c] = "calling"
    /\ work[c] = Title
    /\ RecordSuccess \/ Unreported(c)
    /\ Return(c)
    /\ UNCHANGED <<usage, web, readings, queue, faults>>

\* The call fails in transport, or the model answers badly, which is no fault of
\* the endpoint.
FailScreening(c) ==
    /\ at[c] = "calling"
    /\ work[c] # Title
    /\ faults < MaxFaults
    /\ faults' = faults + 1
    /\ RecordFailure \/ RecordSuccess
    /\ MarkFailed(work[c])
    /\ Return(c)
    /\ UNCHANGED <<usage, web, readings>>

\* An http error: the fallback again, or None.
FailTitle(c) ==
    /\ at[c] = "calling"
    /\ work[c] = Title
    /\ faults < MaxFaults
    /\ faults' = faults + 1
    /\ RecordFailure \/ Unreported(c)
    /\ Return(c)
    /\ UNCHANGED <<usage, web, readings, queue>>

\* build raises, on an answer it cannot take apart: nothing catches it before the
\* worker does.
RaiseTitle(c) ==
    /\ at[c] = "calling"
    /\ work[c] = Title
    /\ faults < MaxFaults
    /\ faults' = faults + 1
    /\ Unreported(c)
    /\ Return(c)
    /\ UNCHANGED <<usage, web, readings, queue>>

\* The provider answers with a rate limit: None, with a fallback or without.
RateLimitTitle(c) ==
    /\ at[c] = "calling"
    /\ work[c] = Title
    /\ Unreported(c)
    /\ Return(c)
    /\ UNCHANGED <<usage, web, readings, queue, faults>>

\* The backoff of a job is over.
BackoffEnds(t) ==
    /\ job[t] = "backoff"
    /\ job' = [job EXCEPT ![t] = "queued"]
    /\ UNCHANGED <<usage, web, readings, attempts, threads, breaker, faults>>

\* The process restarts: the breaker is memory, the rows stay running ...
Restart ==
    /\ faults < MaxFaults
    /\ faults' = faults + 1
    /\ at' = [c \in Consumers |-> "idle"]
    /\ work' = [c \in Consumers |-> None]
    /\ failures' = 0
    /\ circuit' = "closed"
    /\ probing' = FALSE
    /\ prober' = None
    /\ lost' = FALSE
    /\ UNCHANGED <<usage, web, readings, queue>>

\* ... until requeue_stale.
RequeueStale(t) ==
    /\ job[t] = "running"
    /\ \A c \in Consumers : work[c] # t
    /\ job' = [job EXCEPT ![t] = "queued"]
    /\ UNCHANGED <<usage, web, readings, attempts, threads, breaker, faults>>

Request(r) == PressAgain(r) \/ Spend(r) \/ Respond(r) \/ Poll(r)

Work(c) ==
    \/ \E t \in Tenders : ClaimScreening(c, t)
    \/ Call(c)
    \/ RaiseCircuitOpen(c)
    \/ Store(c)
    \/ WriteTitle(c)

Next ==
    \/ \E r \in Requests : Press(r) \/ Request(r) \/ Kill(r)
    \/ Rollover
    \/ Cooldown
    \/ \E c \in Consumers : Work(c) \/ CallForTitle(c) \/ FailScreening(c) \/ FailTitle(c)
                              \/ RaiseTitle(c) \/ RateLimitTitle(c)
    \/ \E t \in Tenders : BackoffEnds(t) \/ RequeueStale(t)
    \/ Restart

Spec == Init /\ [][Next]_vars

\* Requests and handlers run to their end, time passes, the stale sweep runs,
\* and a viewer who waits presses the button again.
Fairness ==
    /\ \A r \in Requests : WF_vars(Request(r))
    /\ \A c \in Consumers : WF_vars(Work(c))
    /\ WF_vars(\E t \in Tenders : BackoffEnds(t) \/ RequeueStale(t))
    /\ WF_vars(Cooldown)

FairSpec == Spec /\ Fairness

----------------------------------------------------------------------------
(* Properties. *)

\* The type invariant.  A job is claimed no oftener than its budget and the
\* restarts under it allow.
TypeOK ==
    /\ usage \subseteq Tenders \X Requests
    /\ ask \in [Requests -> Over \cup {"counted", "paid", "waiting"}]
    /\ about \in [Requests -> Tenders \cup {None}]
    /\ counted \in [Requests -> [repeat : BOOLEAN, room : BOOLEAN, late : BOOLEAN]]
    /\ readings \subseteq Tenders
    /\ job \in [Tenders -> {"none", "queued", "running", "backoff"}]
    /\ attempts \in [Tenders -> 0..(MaxAttempts + MaxFaults)]
    /\ at \in [Consumers -> {"idle", "claimed", "calling"}]
    /\ work \in [Consumers -> Tenders \cup {Title, None}]
    /\ failures \in Nat
    /\ circuit \in {"closed", "open", "cooled"}
    /\ probing \in BOOLEAN
    /\ prober \in Consumers \cup {None}
    /\ lost \in BOOLEAN
    /\ faults \in 0..MaxFaults

\* What one month can be charged: statements that overlap all count the rows
\* before any of them, so the limit gives way by one for each request beside the
\* first.  (quota.ts has it "hold under concurrency".)
Ceiling == IF Limit = 0 THEN 0 ELSE Limit - 1 + Cardinality(Requests)

\* However POSTs overlap, are killed and repeated, and whenever the month turns,
\* a month is charged no more than the ceiling, and nothing at limit 0.
OverspendIsBounded == Cardinality(usage) <= Ceiling

\* spend refuses nobody while the month it counted has units left.
RefusalIsEarned ==
    [][\A r \in Requests :
          ask[r] = "counted" /\ ask'[r] = "idle" /\ ~counted[r].late
              => Cardinality(usage) >= Limit]_vars

\* breaker.py: while the half-open slot is taken, the very call that took it is
\* under way and can still give it back - the breaker keeps no owner of the slot,
\* and calls from before the circuit opened report into it at any time - unless
\* that call was a title's that has ended without a report.
ProbeIsUnderWay == probing /\ ~lost => prober \in Consumers /\ at[prober] = "calling"

\* The slot is held by nobody: the probe was a title, and nothing was reported of
\* it.
Stuck == probing /\ \A c \in Consumers : at[c] # "calling"

\* Whoever has paid this month and waits is served, without a second charge,
\* through failed calls, an open circuit, jobs that gave up and restarts - unless
\* the month turns and the poll finds no row of the new one, or the probe's slot
\* is lost.
PaidIsRead ==
    \A r \in Requests :
        ask[r] = "waiting" /\ HasSpentOn(about[r])
            ~> \/ ask[r] = "read"
               \/ ask[r] = "waiting" /\ ~HasSpentOn(about[r])
               \/ Stuck

\* breaker.py: "after the cooldown one probe is allowed through, and its result
\* closes or reopens the circuit".
ProbeReports == probing ~> ~probing
=============================================================================

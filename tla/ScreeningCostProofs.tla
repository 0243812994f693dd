------------------------- MODULE ScreeningCostProofs -------------------------
(***************************************************************************)
(* The safety properties of ScreeningCost for every number of requests,    *)
(* tenders and consumers, every limit, threshold and attempt budget.       *)
(*                                                                         *)
(* A job's claims stay within the budget because one handler holds a row   *)
(* at a time (JobsAreHeld).  The ceiling on a month's charges is not       *)
(* inductive: a statement that has counted is as good as a row, so the     *)
(* invariant is about the rows and the pending statements together.        *)
(***************************************************************************)
EXTENDS ScreeningCost, FiniteSetTheorems, TLAPS

\* Every live claim is of a running row, of one handler; a claim beyond the
\* budget was of a handler that a restart has ended.
JobsAreHeld ==
    /\ \A c \in Consumers :
          /\ at[c] = "claimed" => work[c] \in Tenders
          /\ at[c] = "calling" => work[c] \in Tenders \cup {Title}
          /\ at[c] = "idle" => work[c] = None
          /\ work[c] \in Tenders => job[work[c]] = "running"
    /\ \A c, d \in Consumers : work[c] \in Tenders /\ work[c] = work[d] => c = d
    /\ \A t \in Tenders :
          /\ attempts[t] <= MaxAttempts + faults
          /\ (\A c \in Consumers : work[c] # t) => attempts[t] <= MaxAttempts - 1 + faults

\* A request under way is about a tender.
AskIsAbout ==
    \A r \in Requests : ask[r] \notin Over => about[r] \in Tenders

TInv == TypeOK /\ AskIsAbout /\ JobsAreHeld

\* The statements that have counted and will charge this month.
Pending == {r \in Requests : ask[r] = "counted" /\ Charges(r) /\ ~counted[r].late}

Budget ==
    /\ IsFiniteSet(usage)
    /\ Cardinality(usage) + Cardinality(Pending) <= Ceiling

\* Who counted a full month counted right, and the month stays full.
NoRoomIsFull ==
    \A r \in Requests :
        ask[r] = "counted" /\ ~counted[r].late /\ ~counted[r].room
            => Cardinality(usage) >= Limit

QInv == Budget /\ NoRoomIsFull

-----------------------------------------------------------------------------
\* Types and jobs.

LEMMA Constants ==
  /\ Limit \in Nat /\ Threshold \in Nat /\ MaxAttempts \in Nat /\ MaxAttempts >= 1
  /\ MaxFaults \in Nat /\ IsFiniteSet(Requests)
  /\ Title \notin Tenders /\ None \notin Tenders /\ None # Title /\ Cached \subseteq Tenders
<1>1. IsFiniteSet(Requests)
  BY Zenon, ScreeningCostAssumption DEF ScreeningCostAssumption
<1>2. /\ Limit \in Nat /\ Threshold \in Nat /\ MaxAttempts \in Nat /\ MaxAttempts >= 1
      /\ MaxFaults \in Nat
  BY ScreeningCostAssumption DEF ScreeningCostAssumption
<1>3. Title \notin Tenders /\ None \notin Tenders /\ None # Title /\ Cached \subseteq Tenders
  BY ScreeningCostAssumption DEF ScreeningCostAssumption
<1> QED
  BY <1>1, <1>2, <1>3

LEMMA InitTypes == Init => TInv
<1> SUFFICES ASSUME Init PROVE TInv
  OBVIOUS
<1>1. TypeOK
  <2>1. probing \in BOOLEAN /\ lost \in BOOLEAN
    BY Zenon DEF Init
  <2> QED
    BY <2>1, Constants DEF Init, TypeOK, Over, Nothing
<1>2. JobsAreHeld
  BY Constants DEF Init, JobsAreHeld
<1>3. AskIsAbout
  BY DEF Init, AskIsAbout, Over
<1> QED
  BY <1>1, <1>2, <1>3 DEF TInv

LEMMA CountTypes ==
  ASSUME TInv, NEW r \in Requests, NEW t \in Tenders, Count(r, t)
  PROVE  TInv'
<1> USE Constants DEF TInv
<1>1. TypeOK'
  BY DEF TypeOK, Count, HasSpentOn, Room, queue, threads, breaker
<1>2. JobsAreHeld'
  BY DEF JobsAreHeld, Count, queue, threads
<1>3. AskIsAbout'
  BY DEF AskIsAbout, TypeOK, Count
<1> QED
  BY <1>1, <1>2, <1>3

\* The web leaves the consumers' state alone but for a new queued row.
LEMMA WebTypes ==
  ASSUME TInv,
         (\E r \in Requests : Press(r) \/ Request(r) \/ Kill(r)) \/ Rollover
  PROVE  TInv'
<1> USE Constants DEF TInv
<1>1. ASSUME NEW r \in Requests, Press(r)
      PROVE  TInv'
  BY <1>1, CountTypes DEF Press
<1>2. ASSUME NEW r \in Requests, PressAgain(r)
      PROVE  TInv'
  <2>1. about[r] \in Tenders
    BY <1>2 DEF PressAgain, AskIsAbout, Over
  <2> QED
    BY <2>1, <1>2, CountTypes DEF PressAgain
<1>3. ASSUME NEW r \in Requests, Spend(r)
      PROVE  TInv'
  <2>1. about[r] \in Tenders
    BY <1>3 DEF Spend, AskIsAbout, Over
  <2>2. TypeOK'
    <3>1. usage' \subseteq Tenders \X Requests
      BY <1>3, <2>1 DEF TypeOK, Spend
    <3>2. /\ ask' \in [Requests -> Over \cup {"counted", "paid", "waiting"}]
          /\ about' \in [Requests -> Tenders \cup {None}]
          /\ counted' \in [Requests -> [repeat : BOOLEAN, room : BOOLEAN, late : BOOLEAN]]
      BY <1>3 DEF TypeOK, Spend, Nothing, Over
    <3> QED
      BY <1>3, <3>1, <3>2 DEF TypeOK, Spend, queue, threads, breaker
  <2>3. JobsAreHeld'
    BY <1>3 DEF JobsAreHeld, Spend, queue, threads
  <2>4. AskIsAbout'
    BY <1>3 DEF AskIsAbout, TypeOK, Spend, Over
  <2> QED
    BY <2>2, <2>3, <2>4
<1>4. ASSUME NEW r \in Requests, Respond(r)
      PROVE  TInv'
  <2>1. about[r] \in Tenders
    BY <1>4 DEF Respond, AskIsAbout, Over
  <2>2. TypeOK'
    BY <1>4, <2>1 DEF TypeOK, Respond, Read, Over, queue, threads, breaker
  <2>3. JobsAreHeld'
    BY <1>4, <2>1 DEF JobsAreHeld, TypeOK, Respond, Read, queue, threads
  <2>4. AskIsAbout'
    BY <1>4 DEF AskIsAbout, TypeOK, Respond, Read, Over
  <2> QED
    BY <2>2, <2>3, <2>4
<1>5. ASSUME NEW r \in Requests, Poll(r)
      PROVE  TInv'
  <2>1. TypeOK'
    BY <1>5 DEF TypeOK, Poll, Read, Over, queue, threads, breaker
  <2>2. JobsAreHeld'
    BY <1>5 DEF JobsAreHeld, Poll, queue, threads
  <2>3. AskIsAbout'
    BY <1>5 DEF AskIsAbout, TypeOK, Poll, Read, Over
  <2> QED
    BY <2>1, <2>2, <2>3
<1>6. ASSUME NEW r \in Requests, Kill(r)
      PROVE  TInv'
  <2>1. TypeOK'
    BY <1>6 DEF TypeOK, Kill, Over, queue, threads, breaker
  <2>2. JobsAreHeld'
    BY <1>6 DEF JobsAreHeld, TypeOK, Kill, queue, threads
  <2>3. AskIsAbout'
    BY <1>6 DEF AskIsAbout, TypeOK, Kill, Over
  <2> QED
    BY <2>1, <2>2, <2>3
<1>7. CASE Rollover
  <2>1. TypeOK'
    BY <1>7 DEF TypeOK, Rollover, queue, threads, breaker
  <2>2. JobsAreHeld'
    BY <1>7 DEF JobsAreHeld, Rollover, queue, threads
  <2>3. AskIsAbout'
    BY <1>7 DEF AskIsAbout, Rollover
  <2> QED
    BY <2>1, <2>2, <2>3
<1> QED
  BY <1>1, <1>2, <1>3, <1>4, <1>5, <1>6, <1>7 DEF Request

\* What mark_failed and mark_done leave behind, for a consumer that held a row.
LEMMA ReleaseTypes ==
  ASSUME TInv, NEW c \in Consumers, work[c] \in Tenders,
         MarkFailed(work[c]) \/ Settle(work[c]),
         Return(c), faults' \in Nat, faults' >= faults
  PROVE  /\ job' \in [Tenders -> {"none", "queued", "running", "backoff"}]
         /\ attempts' \in [Tenders -> 0..(MaxAttempts + MaxFaults)]
         /\ JobsAreHeld'
<1> USE Constants DEF TInv
<1> DEFINE t == work[c]
<1>1. /\ job' \in [Tenders -> {"none", "queued", "running", "backoff"}]
      /\ attempts' \in [Tenders -> 0..(MaxAttempts + MaxFaults)]
  BY DEF TypeOK, MarkFailed, Settle
<1>2. \A u \in Tenders \ {t} : job'[u] = job[u] /\ attempts'[u] = attempts[u]
  BY DEF TypeOK, MarkFailed, Settle
<1>3. attempts'[t] <= MaxAttempts - 1
  BY DEF TypeOK, MarkFailed, Settle, GivesUp
<1>4. /\ at'[c] = "idle" /\ work'[c] = None
      /\ \A d \in Consumers \ {c} : at'[d] = at[d] /\ work'[d] = work[d]
  BY DEF TypeOK, Return
<1>5. \A d \in Consumers \ {c} : work[d] # t
  BY DEF JobsAreHeld
<1>6. \A d \in Consumers :
          /\ at'[d] = "claimed" => work'[d] \in Tenders
          /\ at'[d] = "calling" => work'[d] \in Tenders \cup {Title}
          /\ at'[d] = "idle" => work'[d] = None
          /\ work'[d] \in Tenders => job'[work'[d]] = "running"
  BY <1>2, <1>4, <1>5 DEF JobsAreHeld
<1>7. \A d, e \in Consumers : work'[d] \in Tenders /\ work'[d] = work'[e] => d = e
  BY <1>4 DEF JobsAreHeld
<1>8. ASSUME NEW u \in Tenders
      PROVE  /\ attempts'[u] <= MaxAttempts + faults'
             /\ (\A d \in Consumers : work'[d] # u) =>
                    attempts'[u] <= MaxAttempts - 1 + faults'
  <2>1. faults \in Nat /\ attempts[u] \in Nat /\ attempts'[u] \in Nat
    BY <1>1 DEF TypeOK
  <2>2. CASE u = t
    BY <2>1, <2>2, <1>3
  <2>3. CASE u # t
    <3>1. attempts'[u] = attempts[u] /\ attempts[u] <= MaxAttempts + faults
      BY <2>3, <1>2 DEF JobsAreHeld
    <3>2. ASSUME \A d \in Consumers : work'[d] # u
          PROVE  \A d \in Consumers : work[d] # u
      BY <3>2, <2>3, <1>4
    <3>3. (\A d \in Consumers : work[d] # u) => attempts[u] <= MaxAttempts - 1 + faults
      BY DEF JobsAreHeld
    <3> QED
      BY <3>1, <3>2, <3>3, <2>1
  <2> QED
    BY <2>2, <2>3
<1>9. JobsAreHeld'
  BY <1>6, <1>7, <1>8 DEF JobsAreHeld
<1> QED
  BY <1>1, <1>9

\* What the breaker's two reports leave behind.
LEMMA RecordTypes ==
  ASSUME TypeOK, RecordSuccess \/ RecordFailure
  PROVE  /\ failures' \in Nat
         /\ circuit' \in {"closed", "open", "cooled"}
         /\ probing' \in BOOLEAN
         /\ prober' \in Consumers \cup {None}
         /\ lost' \in BOOLEAN
<1>1. failures' \in Nat /\ circuit' \in {"closed", "open", "cooled"}
  BY Constants DEF TypeOK, RecordSuccess, RecordFailure
<1>2. probing' \in BOOLEAN /\ lost' \in BOOLEAN
  BY Zenon DEF RecordSuccess, RecordFailure
<1>3. prober' \in Consumers \cup {None}
  BY Zenon DEF RecordSuccess, RecordFailure
<1> QED
  BY <1>1, <1>2, <1>3

\* What a title leaves behind that ends without a report.
LEMMA UnreportedTypes ==
  ASSUME TypeOK, NEW c \in Consumers, Unreported(c)
  PROVE  /\ failures' \in Nat
         /\ circuit' \in {"closed", "open", "cooled"}
         /\ probing' \in BOOLEAN
         /\ prober' \in Consumers \cup {None}
         /\ lost' \in BOOLEAN
<1>1. UNCHANGED <<failures, circuit, probing, prober>>
  BY Zenon DEF Unreported
<1>2. lost \in BOOLEAN /\ lost' = (lost \/ prober = c)
  BY Zenon DEF Unreported, TypeOK
<1>3. lost' \in BOOLEAN
  BY <1>2, Zenon
<1> QED
  BY <1>1, <1>3 DEF TypeOK

\* The steps of the worker.
LEMMA WorkerTypes ==
  ASSUME TInv,
         NEW c \in Consumers,
         \/ Work(c) \/ CallForTitle(c) \/ FailScreening(c) \/ FailTitle(c)
         \/ RaiseTitle(c) \/ RateLimitTitle(c)
  PROVE  TInv'
<1> USE Constants DEF TInv
<1>1. ASSUME NEW t \in Tenders, ClaimScreening(c, t)
      PROVE  TInv'
  <2>1. /\ job[t] = "queued" /\ at[c] = "idle" /\ work[c] = None
        /\ \A d \in Consumers : work[d] # t
    BY <1>1 DEF ClaimScreening, Queued, JobsAreHeld
  <2>2. attempts[t] <= MaxAttempts - 1 + faults /\ attempts[t] \in Nat /\ faults \in 0..MaxFaults
    BY <2>1 DEF JobsAreHeld, TypeOK
  <2>3. TypeOK'
    BY <1>1, <2>2 DEF TypeOK, ClaimScreening, web, breaker
  <2>4. JobsAreHeld'
    <3>1. \A d \in Consumers :
              /\ at'[d] = "claimed" => work'[d] \in Tenders
              /\ at'[d] = "calling" => work'[d] \in Tenders \cup {Title}
              /\ at'[d] = "idle" => work'[d] = None
              /\ work'[d] \in Tenders => job'[work'[d]] = "running"
      BY <1>1, <2>1 DEF JobsAreHeld, TypeOK, ClaimScreening
    <3>2. \A d, e \in Consumers : work'[d] \in Tenders /\ work'[d] = work'[e] => d = e
      BY <1>1, <2>1 DEF JobsAreHeld, TypeOK, ClaimScreening
    <3>3. ASSUME NEW u \in Tenders
          PROVE  /\ attempts'[u] <= MaxAttempts + faults'
                 /\ (\A d \in Consumers : work'[d] # u) =>
                        attempts'[u] <= MaxAttempts - 1 + faults'
      <4>1. CASE u = t
        BY <4>1, <1>1, <2>2 DEF ClaimScreening, TypeOK
      <4>2. CASE u # t
        <5>1. attempts'[u] = attempts[u] /\ faults' = faults
          BY <4>2, <1>1 DEF ClaimScreening, TypeOK
        <5>2. (\A d \in Consumers : work'[d] # u) => \A d \in Consumers : work[d] # u
          BY <1>1, <2>1 DEF ClaimScreening, TypeOK
        <5> QED
          BY <5>1, <5>2 DEF JobsAreHeld
      <4> QED
        BY <4>1, <4>2
    <3> QED
      BY <3>1, <3>2, <3>3 DEF JobsAreHeld
  <2>5. AskIsAbout'
    BY <1>1 DEF AskIsAbout, ClaimScreening, web
  <2> QED
    BY <2>3, <2>4, <2>5
<1>2. CASE CallForTitle(c)
  <2>1. TypeOK'
    BY <1>2 DEF TypeOK, CallForTitle, Allow, web, queue
  <2>2. JobsAreHeld'
    BY <1>2 DEF JobsAreHeld, TypeOK, CallForTitle, queue
  <2>3. AskIsAbout'
    BY <1>2 DEF AskIsAbout, CallForTitle, web
  <2> QED
    BY <2>1, <2>2, <2>3
<1>3. CASE Call(c)
  <2>1. TypeOK'
    BY <1>3 DEF TypeOK, Call, Allow, web, queue
  <2>2. JobsAreHeld'
    BY <1>3 DEF JobsAreHeld, TypeOK, Call, queue
  <2>3. AskIsAbout'
    BY <1>3 DEF AskIsAbout, Call, web
  <2> QED
    BY <2>1, <2>2, <2>3
<1>4. CASE RaiseCircuitOpen(c)
  <2>1. work[c] \in Tenders /\ faults \in Nat /\ faults' = faults
    BY <1>4 DEF RaiseCircuitOpen, JobsAreHeld, TypeOK
  <2>2. /\ job' \in [Tenders -> {"none", "queued", "running", "backoff"}]
        /\ attempts' \in [Tenders -> 0..(MaxAttempts + MaxFaults)]
        /\ JobsAreHeld'
    BY <1>4, <2>1, ReleaseTypes DEF RaiseCircuitOpen
  <2>3. TypeOK'
    BY <1>4, <2>2 DEF TypeOK, RaiseCircuitOpen, Return, web, breaker
  <2>4. AskIsAbout'
    BY <1>4 DEF AskIsAbout, RaiseCircuitOpen, web
  <2> QED
    BY <2>2, <2>3, <2>4
<1>5. CASE Store(c)
  <2>1. work[c] \in Tenders /\ faults \in Nat /\ faults' = faults
    BY <1>5 DEF Store, JobsAreHeld, TypeOK
  <2>2. /\ job' \in [Tenders -> {"none", "queued", "running", "backoff"}]
        /\ attempts' \in [Tenders -> 0..(MaxAttempts + MaxFaults)]
        /\ JobsAreHeld'
    BY <1>5, <2>1, ReleaseTypes DEF Store
  <2>3. TypeOK'
    BY <1>5, <2>1, <2>2 DEF TypeOK, Store, RecordSuccess, Return, web
  <2>4. AskIsAbout'
    BY <1>5 DEF AskIsAbout, Store, web
  <2> QED
    BY <2>2, <2>3, <2>4
<1>6. CASE FailScreening(c)
  <2>1. work[c] \in Tenders /\ faults \in Nat /\ faults' = faults + 1 /\ faults' \in 0..MaxFaults
    BY <1>6 DEF FailScreening, JobsAreHeld, TypeOK
  <2>2. /\ job' \in [Tenders -> {"none", "queued", "running", "backoff"}]
        /\ attempts' \in [Tenders -> 0..(MaxAttempts + MaxFaults)]
        /\ JobsAreHeld'
    BY <1>6, <2>1, ReleaseTypes DEF FailScreening
  <2>3. TypeOK'
    <3>1. /\ failures' \in Nat
          /\ circuit' \in {"closed", "open", "cooled"}
          /\ probing' \in BOOLEAN
          /\ prober' \in Consumers \cup {None}
          /\ lost' \in BOOLEAN
      BY <1>6, RecordTypes DEF FailScreening
    <3> QED
      BY <1>6, <2>1, <2>2, <3>1 DEF TypeOK, FailScreening, Return, web
  <2>4. AskIsAbout'
    BY <1>6 DEF AskIsAbout, FailScreening, web
  <2> QED
    BY <2>2, <2>3, <2>4
<1>7. CASE WriteTitle(c) \/ FailTitle(c) \/ RaiseTitle(c) \/ RateLimitTitle(c)
  <2>1. /\ Return(c) /\ work[c] = Title /\ UNCHANGED <<job, attempts, web, usage, readings>>
        /\ faults' \in 0..MaxFaults /\ faults' >= faults
    BY <1>7 DEF WriteTitle, FailTitle, RaiseTitle, RateLimitTitle, queue, TypeOK
  <2>2. /\ failures' \in Nat
        /\ circuit' \in {"closed", "open", "cooled"}
        /\ probing' \in BOOLEAN
        /\ prober' \in Consumers \cup {None}
        /\ lost' \in BOOLEAN
    <3>1. RecordSuccess \/ RecordFailure \/ Unreported(c)
      BY <1>7, Zenon DEF WriteTitle, FailTitle, RaiseTitle, RateLimitTitle
    <3> QED
      BY <3>1, RecordTypes, UnreportedTypes
  <2>3. TypeOK'
    BY <2>1, <2>2 DEF TypeOK, Return, web
  <2>4. JobsAreHeld'
    BY <2>1 DEF JobsAreHeld, TypeOK, Return
  <2>5. AskIsAbout'
    BY <2>1 DEF AskIsAbout, web
  <2> QED
    BY <2>3, <2>4, <2>5
<1> QED
  BY <1>1, <1>2, <1>3, <1>4, <1>5, <1>6, <1>7 DEF Work

\* The clock and the process.
LEMMA ClockTypes ==
  ASSUME TInv,
         Cooldown \/ Restart \/ \E t \in Tenders : BackoffEnds(t) \/ RequeueStale(t)
  PROVE  TInv'
<1> USE Constants DEF TInv
<1>1. CASE Cooldown
  <2>1. TypeOK'
    BY <1>1 DEF TypeOK, Cooldown, web, queue, threads
  <2>2. JobsAreHeld'
    BY <1>1 DEF JobsAreHeld, Cooldown, queue, threads
  <2>3. AskIsAbout'
    BY <1>1 DEF AskIsAbout, Cooldown, web
  <2> QED
    BY <2>1, <2>2, <2>3
<1>2. CASE Restart
  <2>1. TypeOK'
    <3>1. probing' \in BOOLEAN /\ lost' \in BOOLEAN /\ prober' \in Consumers \cup {None}
      BY <1>2, Zenon DEF Restart
    <3> QED
      BY <1>2, <3>1 DEF TypeOK, Restart, web, queue
  <2>2. JobsAreHeld'
    <3>1. faults' = faults + 1 /\ faults \in Nat /\ UNCHANGED <<job, attempts>>
      BY <1>2 DEF Restart, TypeOK, queue
    <3>2. \A c \in Consumers : at'[c] = "idle" /\ work'[c] = None
      BY <1>2 DEF Restart
    <3>3. \A t \in Tenders : attempts[t] \in Nat /\ attempts[t] <= MaxAttempts + faults
      BY DEF JobsAreHeld, TypeOK
    <3> QED
      BY <3>1, <3>2, <3>3 DEF JobsAreHeld
  <2>3. AskIsAbout'
    BY <1>2 DEF AskIsAbout, Restart, web
  <2> QED
    BY <2>1, <2>2, <2>3
<1>3. ASSUME NEW t \in Tenders, BackoffEnds(t) \/ RequeueStale(t)
      PROVE  TInv'
  <2>1. /\ job' = [job EXCEPT ![t] = "queued"]
        /\ \A c \in Consumers : work[c] # t
        /\ UNCHANGED <<usage, web, readings, attempts, threads, breaker, faults>>
    BY <1>3 DEF BackoffEnds, RequeueStale, JobsAreHeld
  <2>2. TypeOK'
    BY <2>1 DEF TypeOK, web, threads, breaker
  <2>3. JobsAreHeld'
    BY <2>1 DEF JobsAreHeld, TypeOK, threads
  <2>4. AskIsAbout'
    BY <2>1 DEF AskIsAbout, web
  <2> QED
    BY <2>2, <2>3, <2>4
<1> QED
  BY <1>1, <1>2, <1>3

LEMMA StepTypes == TInv /\ [Next]_vars => TInv'
<1> SUFFICES ASSUME TInv, [Next]_vars PROVE TInv'
  OBVIOUS
<1>1. CASE UNCHANGED vars
  BY <1>1 DEF vars, TInv, TypeOK, AskIsAbout, JobsAreHeld
<1>2. CASE Next
  BY <1>2, WebTypes, WorkerTypes, ClockTypes DEF Next
<1> QED
  BY <1>1, <1>2

LEMMA AlwaysTypes == Spec => []TInv
<1> QED
  BY InitTypes, StepTypes, PTL DEF Spec

\* Every state of the program is of its type, and no job is claimed oftener than
\* its budget and the faults under it allow.
THEOREM ScreeningCostTypes == Spec => []TypeOK
<1>1. TInv => TypeOK
  BY DEF TInv
<1> QED
  BY <1>1, AlwaysTypes, PTL

-----------------------------------------------------------------------------
\* The allowance.

LEMMA PendingIsFinite ==
  /\ IsFiniteSet(Pending) /\ Cardinality(Pending) \in Nat
  /\ Cardinality(Pending) <= Cardinality(Requests) /\ Cardinality(Requests) \in Nat
<1>1. Pending \subseteq Requests
  BY DEF Pending
<1> QED
  BY <1>1, Constants, FS_Subset, FS_CardinalityType

\* A step that leaves the rows and every counting request as they are.
LEMMA QuietStep ==
  ASSUME TypeOK, QInv, usage' = usage, counted' = counted,
         \A r \in Requests : ask'[r] = "counted" <=> ask[r] = "counted"
  PROVE  QInv'
<1>1. Pending' = Pending
  BY DEF Pending, Charges
<1>2. Budget'
  BY <1>1 DEF QInv, Budget, Ceiling
<1>3. NoRoomIsFull'
  BY DEF QInv, NoRoomIsFull
<1> QED
  BY <1>2, <1>3 DEF QInv

\* A statement that finds room finds less than the limit, and every request
\* beside it may be pending: together they are the ceiling.
LEMMA CountQuota ==
  ASSUME TypeOK, QInv, NEW r \in Requests, NEW t \in Tenders,
         ask[r] # "counted", Count(r, t)
  PROVE  QInv'
<1> USE Constants
<1>1. /\ counted'[r] = [repeat |-> HasSpentOn(t), room |-> Room, late |-> FALSE]
      /\ ask'[r] = "counted" /\ usage' = usage
      /\ \A q \in Requests \ {r} : ask'[q] = ask[q] /\ counted'[q] = counted[q]
  BY DEF Count, TypeOK
<1>2. counted'[r].room = Room /\ counted'[r].late = FALSE
  BY <1>1
<1>3. IsFiniteSet(usage) /\ Cardinality(usage) \in Nat
  BY FS_CardinalityType DEF QInv, Budget
<1>4. IsFiniteSet(Pending') /\ Cardinality(Pending') \in Nat
      /\ Cardinality(Pending') <= Cardinality(Requests) /\ Cardinality(Requests) \in Nat
  <2>1. Pending' \subseteq Requests
    BY DEF Pending
  <2> QED
    BY <2>1, FS_Subset, FS_CardinalityType
<1>5. Budget'
  <2>1. CASE Room
    <3>1. Cardinality(usage) < Limit
      BY <2>1 DEF Room
    <3>2. Cardinality(usage) + Cardinality(Pending') <= Limit - 1 + Cardinality(Requests)
      BY <3>1, <1>3, <1>4
    <3>3. Ceiling = Limit - 1 + Cardinality(Requests)
      BY <3>1, <1>3 DEF Ceiling
    <3> QED
      BY <3>2, <3>3, <1>1, <1>3 DEF Budget, Ceiling
  <2>2. CASE ~Room
    <3>1. Pending' = Pending
      BY <2>2, <1>1, <1>2 DEF Pending, Charges
    <3> QED
      BY <3>1, <1>1 DEF QInv, Budget, Ceiling
  <2> QED
    BY <2>1, <2>2
<1>6. NoRoomIsFull'
  <2>1. ~Room => Cardinality(usage) >= Limit
    BY <1>3 DEF Room
  <2>2. ASSUME NEW q \in Requests,
               ask'[q] = "counted", ~counted'[q].late, ~counted'[q].room
        PROVE  Cardinality(usage') >= Limit
    <3>1. CASE q = r
      BY <3>1, <2>2, <2>1, <1>1, <1>2
    <3>2. CASE q # r
      <4>1. ask[q] = "counted" /\ ~counted[q].late /\ ~counted[q].room
        BY <3>2, <2>2, <1>1
      <4> QED
        BY <4>1, <1>1 DEF QInv, NoRoomIsFull
    <3> QED
      BY <3>1, <3>2
  <2> QED
    BY <2>2 DEF NoRoomIsFull
<1> QED
  BY <1>5, <1>6 DEF QInv

\* A row that is charged was pending before.
LEMMA SpendQuota ==
  ASSUME TypeOK, QInv, NEW r \in Requests, Spend(r)
  PROVE  QInv'
<1> USE Constants
<1>1. /\ ask[r] = "counted" /\ ask'[r] # "counted"
      /\ \A q \in Requests \ {r} : ask'[q] = ask[q] /\ counted'[q] = counted[q]
  BY DEF Spend, TypeOK
<1>2. Pending' = Pending \ {r}
  BY <1>1 DEF Pending, Charges
<1>3. /\ IsFiniteSet(usage) /\ Cardinality(usage) \in Nat
      /\ IsFiniteSet(Pending) /\ Cardinality(Pending) \in Nat
  BY PendingIsFinite, FS_CardinalityType DEF QInv, Budget
<1>4. /\ Cardinality(Pending') = Cardinality(Pending) - (IF r \in Pending THEN 1 ELSE 0)
      /\ Cardinality(Pending') \in Nat
  BY <1>2, <1>3, FS_RemoveElement, FS_CardinalityType
<1>5. /\ IsFiniteSet(usage') /\ Cardinality(usage') \in Nat
      /\ Cardinality(usage) <= Cardinality(usage')
      /\ Cardinality(usage') <= Cardinality(usage) + (IF r \in Pending THEN 1 ELSE 0)
  <2>1. CASE r \in Pending
    <3>1. usage' = usage \cup {<<about[r], r>>}
      BY <2>1 DEF Spend, Pending
    <3> DEFINE row == <<about[r], r>>
    <3>2. /\ IsFiniteSet(usage \cup {row})
          /\ Cardinality(usage \cup {row})
               = IF row \in usage THEN Cardinality(usage) ELSE Cardinality(usage) + 1
      <4> HIDE DEF row
      <4> QED
        BY <1>3, FS_AddElement
    <3> QED
      BY <2>1, <3>1, <3>2, <1>3
  <2>2. CASE r \notin Pending
    <3>1. usage' = usage
      BY <2>2, <1>1 DEF Spend, Pending
    <3> QED
      BY <2>2, <3>1, <1>3
  <2> QED
    BY <2>1, <2>2
<1>6. Ceiling \in Int /\ Ceiling' = Ceiling
  BY PendingIsFinite DEF Ceiling
<1>7. Budget'
  <2>1. Cardinality(usage) + Cardinality(Pending) <= Ceiling
    BY DEF QInv, Budget
  <2>2. Cardinality(usage') + Cardinality(Pending') <= Ceiling
    BY <2>1, <1>3, <1>4, <1>5, <1>6
  <2> QED
    BY <2>2, <1>5, <1>6 DEF Budget
<1>8. NoRoomIsFull'
  <2> SUFFICES ASSUME NEW q \in Requests,
                      ask'[q] = "counted", ~counted'[q].late, ~counted'[q].room
               PROVE  Cardinality(usage') >= Limit
    BY DEF NoRoomIsFull
  <2>1. q # r /\ ask[q] = "counted" /\ ~counted[q].late /\ ~counted[q].room
    BY <1>1
  <2>2. Cardinality(usage) >= Limit
    BY <2>1 DEF QInv, NoRoomIsFull
  <2> QED
    BY <2>2, <1>3, <1>5
<1> QED
  BY <1>7, <1>8 DEF QInv

\* A new month has no rows, and nobody who counted the last one charges it.
LEMMA RolloverQuota ==
  ASSUME TypeOK, Rollover
  PROVE  QInv'
<1> USE Constants
<1>1. \A r \in Requests : ask'[r] = "counted" => counted'[r].late
  <2> SUFFICES ASSUME NEW r \in Requests, ask'[r] = "counted"
               PROVE  counted'[r].late
    OBVIOUS
  <2>1. ask[r] = "counted"
    BY DEF Rollover
  <2>2. counted'[r] = [counted[r] EXCEPT !.late = ask[r] = "counted"]
    BY Zenon DEF Rollover
  <2>3. counted[r] \in [repeat : BOOLEAN, room : BOOLEAN, late : BOOLEAN]
    BY DEF TypeOK
  <2>4. counted'[r].late = (ask[r] = "counted")
    BY <2>2, <2>3, Zenon
  <2> QED
    BY <2>1, <2>4, Zenon
<1>2. Pending' = {}
  BY <1>1 DEF Pending
<1>3. usage' = {} /\ IsFiniteSet(usage')
  BY FS_EmptySet DEF Rollover
<1>4. Cardinality(usage') + Cardinality(Pending') = 0
  BY <1>2, <1>3, FS_EmptySet
<1>5. Ceiling' \in Int /\ 0 <= Ceiling'
  BY PendingIsFinite DEF Ceiling
<1> QED
  BY <1>1, <1>3, <1>4, <1>5 DEF QInv, Budget, NoRoomIsFull

LEMMA InitQuota == Init => QInv
<1> SUFFICES ASSUME Init PROVE QInv
  OBVIOUS
<1> USE Constants
<1>1. Pending = {} /\ NoRoomIsFull
  BY DEF Init, Pending, NoRoomIsFull
<1>2. IsFiniteSet(usage) /\ Cardinality(usage) + Cardinality(Pending) = 0
  BY <1>1, FS_EmptySet DEF Init
<1>3. Ceiling \in Int /\ 0 <= Ceiling
  BY PendingIsFinite DEF Ceiling
<1> QED
  BY <1>1, <1>2, <1>3 DEF QInv, Budget

LEMMA StepQuota == TypeOK /\ AskIsAbout /\ QInv /\ [Next]_vars => QInv'
<1> SUFFICES ASSUME TypeOK, AskIsAbout, QInv, [Next]_vars PROVE QInv'
  OBVIOUS
<1>1. ASSUME NEW r \in Requests, Press(r)
      PROVE  QInv'
  BY <1>1, CountQuota DEF Press, Over
<1>2. ASSUME NEW r \in Requests, PressAgain(r)
      PROVE  QInv'
  <2>1. about[r] \in Tenders /\ ask[r] # "counted"
    BY <1>2 DEF PressAgain, AskIsAbout, Over
  <2> QED
    BY <2>1, <1>2, CountQuota DEF PressAgain
<1>3. ASSUME NEW r \in Requests, Spend(r)
      PROVE  QInv'
  BY <1>3, SpendQuota
<1>4. ASSUME NEW r \in Requests, Respond(r) \/ Poll(r) \/ Kill(r)
      PROVE  QInv'
  <2>1. usage' = usage /\ counted' = counted
    BY <1>4 DEF Respond, Poll, Kill
  <2>2. \A q \in Requests : ask'[q] = "counted" <=> ask[q] = "counted"
    BY <1>4 DEF Respond, Poll, Kill, Read, TypeOK
  <2> QED
    BY <2>1, <2>2, QuietStep
<1>5. CASE Rollover
  BY <1>5, RolloverQuota
<1>6. CASE \/ UNCHANGED vars \/ Cooldown \/ Restart
           \/ \E t \in Tenders : BackoffEnds(t) \/ RequeueStale(t)
           \/ \E c \in Consumers : Work(c) \/ CallForTitle(c) \/ FailScreening(c)
                                   \/ FailTitle(c) \/ RaiseTitle(c) \/ RateLimitTitle(c)
  <2>1. UNCHANGED <<usage, web>>
    BY <1>6 DEF vars, web, Cooldown, Restart, BackoffEnds, RequeueStale, Work,
         ClaimScreening, Call, RaiseCircuitOpen, Store, WriteTitle, CallForTitle,
         FailScreening, FailTitle, RaiseTitle, RateLimitTitle
  <2> QED
    BY <2>1, QuietStep DEF web
<1> QED
  BY <1>1, <1>2, <1>3, <1>4, <1>5, <1>6 DEF Next, Request

LEMMA AlwaysQuota == Spec => []QInv
<1>1. TInv => TypeOK /\ AskIsAbout
  BY DEF TInv
<1> QED
  BY <1>1, InitQuota, StepQuota, AlwaysTypes, PTL DEF Spec

\* quota.ts: whatever POSTs overlap, a month is charged at most the limit and one
\* unit for every request beside the first.
THEOREM MonthIsBounded == Spec => []OverspendIsBounded
<1>1. QInv => OverspendIsBounded
  <2> SUFFICES ASSUME QInv PROVE OverspendIsBounded
    OBVIOUS
  <2>1. Cardinality(usage) \in Nat /\ Cardinality(Pending) \in Nat /\ Ceiling \in Int
    BY PendingIsFinite, Constants, FS_CardinalityType DEF QInv, Budget, Ceiling
  <2> QED
    BY <2>1 DEF QInv, Budget, OverspendIsBounded
<1> QED
  BY <1>1, AlwaysQuota, PTL

\* quota.ts: nobody is refused while the month has units left.
THEOREM NobodyIsRefusedEarly == Spec => RefusalIsEarned
<1>1. TypeOK /\ QInv /\ [Next]_vars =>
        [\A r \in Requests :
           ask[r] = "counted" /\ ask'[r] = "idle" /\ ~counted[r].late
             => Cardinality(usage) >= Limit]_vars
  <2> SUFFICES ASSUME TypeOK, QInv, Next,
                      NEW r \in Requests,
                      ask[r] = "counted", ask'[r] = "idle", ~counted[r].late
               PROVE  Cardinality(usage) >= Limit
    OBVIOUS
  <2>1. Spend(r)
    <3>1. ASSUME NEW q \in Requests, NEW t \in Tenders, Count(q, t)
          PROVE  FALSE
      BY <3>1 DEF Count, TypeOK
    <3>2. ASSUME NEW q \in Requests, Spend(q)
          PROVE  Spend(r)
      BY <3>2 DEF Spend, TypeOK
    <3>3. ASSUME NEW q \in Requests, Respond(q) \/ Poll(q) \/ Kill(q)
          PROVE  FALSE
      BY <3>3 DEF Respond, Poll, Kill, Read, TypeOK
    <3>4. ASSUME NEW q \in Requests, PressAgain(q)
          PROVE  FALSE
      BY <3>4 DEF PressAgain, Count, TypeOK
    <3>5. ASSUME \/ Rollover \/ Cooldown \/ Restart
                 \/ \E t \in Tenders : BackoffEnds(t) \/ RequeueStale(t)
                 \/ \E c \in Consumers : Work(c) \/ CallForTitle(c) \/ FailScreening(c)
                                         \/ FailTitle(c) \/ RaiseTitle(c) \/ RateLimitTitle(c)
          PROVE  FALSE
      <4>1. ask' = ask
        BY <3>5 DEF web, Rollover, Cooldown, Restart, BackoffEnds, RequeueStale, Work,
             ClaimScreening, Call, RaiseCircuitOpen, Store, WriteTitle, CallForTitle,
             FailScreening, FailTitle, RaiseTitle, RateLimitTitle
      <4> QED
        BY <4>1
    <3> QED
      BY <3>1, <3>2, <3>3, <3>4, <3>5 DEF Next, Request, Press
  <2>2. ~Allowed(r)
    BY <2>1 DEF Spend, TypeOK
  <2>3. ~counted[r].room
    BY <2>2 DEF Allowed, Charges
  <2> QED
    BY <2>3 DEF QInv, NoRoomIsFull
<1>2. TInv => TypeOK
  BY DEF TInv
<1> QED
  BY <1>1, <1>2, AlwaysTypes, AlwaysQuota, PTL DEF Spec, RefusalIsEarned

-----------------------------------------------------------------------------
\* The probe.

\* A slot is given back by whoever reports, so the call that still has it is the
\* one that took it last: it cannot have ended but through Unreported.
LEMMA StepProbe == TypeOK /\ ProbeIsUnderWay /\ [Next]_vars => ProbeIsUnderWay'
<1> SUFFICES ASSUME TypeOK, ProbeIsUnderWay, [Next]_vars PROVE ProbeIsUnderWay'
  OBVIOUS
<1>1. ASSUME UNCHANGED <<probing, prober, lost, at>>
      PROVE  ProbeIsUnderWay'
  BY <1>1 DEF ProbeIsUnderWay
<1>2. CASE \/ UNCHANGED vars \/ Rollover \/ Cooldown
           \/ \E t \in Tenders : BackoffEnds(t) \/ RequeueStale(t)
           \/ \E r \in Requests : Press(r) \/ Request(r) \/ Kill(r)
  <2>1. UNCHANGED <<probing, prober, lost, at>>
    BY <1>2 DEF vars, breaker, threads, Rollover, Cooldown, BackoffEnds, RequeueStale,
         Press, Request, PressAgain, Count, Spend, Respond, Poll, Kill
  <2> QED
    BY <2>1, <1>1
<1>3. CASE Restart
  BY <1>3 DEF Restart, ProbeIsUnderWay
<1>4. ASSUME NEW c \in Consumers, Call(c) \/ CallForTitle(c)
      PROVE  ProbeIsUnderWay'
  <2>1. at'[c] = "calling" /\ \A d \in Consumers \ {c} : at'[d] = at[d]
    BY <1>4 DEF Call, CallForTitle, TypeOK
  <2>2. Allow(c)
    BY <1>4 DEF Call, CallForTitle
  <2>3. CASE circuit = "cooled"
    BY <2>1, <2>2, <2>3 DEF Allow, ProbeIsUnderWay
  <2>4. CASE circuit # "cooled"
    <3>1. lost' = lost /\ prober' = prober /\ (probing' => probing)
      BY <2>2, <2>4, Zenon DEF Allow
    <3> QED
      BY <2>1, <3>1 DEF ProbeIsUnderWay
  <2> QED
    BY <2>3, <2>4
<1>5. ASSUME NEW c \in Consumers,
             RaiseCircuitOpen(c) \/ \E t \in Tenders : ClaimScreening(c, t)
      PROVE  ProbeIsUnderWay'
  <2>1. /\ at[c] # "calling" /\ UNCHANGED <<probing, prober, lost>>
        /\ \A d \in Consumers \ {c} : at'[d] = at[d]
    BY <1>5 DEF RaiseCircuitOpen, ClaimScreening, Return, breaker, TypeOK
  <2> QED
    BY <2>1 DEF ProbeIsUnderWay
<1>6. ASSUME RecordSuccess \/ RecordFailure
      PROVE  ProbeIsUnderWay'
  <2>1. probing' = FALSE
    BY <1>6, Zenon DEF RecordSuccess, RecordFailure
  <2> QED
    BY <2>1 DEF ProbeIsUnderWay
<1>7. ASSUME NEW c \in Consumers, Unreported(c), Return(c)
      PROVE  ProbeIsUnderWay'
  <2>1. probing' = probing /\ prober' = prober /\ lost' = (lost \/ prober = c)
    BY <1>7, Zenon DEF Unreported
  <2>2. SUFFICES ASSUME probing, ~lost, prober # c
                 PROVE  prober \in Consumers /\ at'[prober] = "calling"
    BY <2>1, Zenon DEF ProbeIsUnderWay
  <2>3. prober \in Consumers /\ at[prober] = "calling"
    BY <2>2, Zenon DEF ProbeIsUnderWay
  <2> QED
    BY <1>7, <2>2, <2>3 DEF Return, TypeOK
<1>8. ASSUME NEW c \in Consumers,
             \/ Store(c) \/ WriteTitle(c) \/ FailScreening(c) \/ FailTitle(c)
             \/ RaiseTitle(c) \/ RateLimitTitle(c)
      PROVE  ProbeIsUnderWay'
  <2>1. RecordSuccess \/ RecordFailure \/ (Unreported(c) /\ Return(c))
    BY <1>8, Zenon DEF Store, WriteTitle, FailScreening, FailTitle, RaiseTitle, RateLimitTitle
  <2> QED
    BY <2>1, <1>6, <1>7
<1> QED
  BY <1>2, <1>3, <1>4, <1>5, <1>8 DEF Next, Work

\* breaker.py and its callers: the half-open slot is in the hands of the call that
\* took it, which is still to report, until a title has left with it without a
\* report - rate-limited, raised, or with no title and no fallback.
THEOREM SlotIsHeldByItsProbe == Spec => []ProbeIsUnderWay
<1>1. Init => ProbeIsUnderWay
  BY Zenon DEF Init, ProbeIsUnderWay
<1>2. TInv => TypeOK
  BY DEF TInv
<1> QED
  BY <1>1, <1>2, StepProbe, AlwaysTypes, PTL DEF Spec

-----------------------------------------------------------------------------
(* The queue under the jobs. *)

\* A job in its backoff is a queued row that is not due.
RowOf(t) == IF job[t] = "backoff" THEN "queued" ELSE job[t]

Handling(t) == {c \in Consumers : work[c] = t}

\* What queue.py promises about one tender's ai_screening row.
Contract(t) == INSTANCE LiveJob WITH
    Runs <- Consumers, job <- RowOf(t), holders <- Handling(t), busy <- Handling(t)

\* A step that leaves a tender's row and its handlers alone.
LEMMA OtherTender ==
  ASSUME NEW t \in Tenders, UNCHANGED RowOf(t),
         \A c \in Consumers : work'[c] = t <=> work[c] = t
  PROVE  UNCHANGED Contract(t)!vars
  BY DEF Contract!vars, Handling

\* mark_done and mark_failed, for the one consumer that holds the row.
LEMMA OutcomeStep ==
  ASSUME TInv, NEW t \in Tenders, NEW c \in Consumers, work[c] \in Tenders, Return(c),
         Settle(work[c]) \/ MarkFailed(work[c])
  PROVE  Contract(t)!Next \/ UNCHANGED Contract(t)!vars
<1>1. /\ job \in [Tenders -> {"none", "queued", "running", "backoff"}]
      /\ work'[c] = None /\ \A d \in Consumers \ {c} : work'[d] = work[d]
  BY DEF TInv, TypeOK, Return
<1>2. CASE work[c] # t
  BY <1>1, <1>2, OtherTender, Constants DEF Settle, MarkFailed, RowOf
<1>3. CASE work[c] = t
  <2>1. Handling(t) = {c} /\ Handling(t)' = {}
    BY <1>1, <1>3, Constants DEF TInv, JobsAreHeld, Handling
  <2>2. RowOf(t)' \in {"none", "queued"}
    BY <1>1, <1>3 DEF Settle, MarkFailed, RowOf
  <2>3. Contract(t)!MarkDone(c) \/ Contract(t)!MarkFailed(c)
    BY <2>1, <2>2 DEF Contract!MarkDone, Contract!MarkFailed, Contract!Settle
  <2> QED
    BY <2>3 DEF Contract!Next
<1> QED
  BY <1>2, <1>3

LEMMA StepContract ==
  ASSUME TInv, [Next]_vars, NEW t \in Tenders
  PROVE  Contract(t)!Next \/ UNCHANGED Contract(t)!vars
<1> USE Constants
<1>1. /\ job \in [Tenders -> {"none", "queued", "running", "backoff"}]
      /\ work \in [Consumers -> Tenders \cup {Title, None}]
      /\ \A c \in Consumers : at[c] = "idle" => work[c] = None
      /\ \A c \in Handling(t) : job[t] = "running"
  BY DEF TInv, TypeOK, JobsAreHeld, Handling
<1>2. CASE \E r \in Requests : Respond(r)
  <2>1. work' = work
    BY <1>2 DEF Respond, threads
  <2>2. RowOf(t)' = RowOf(t) \/ (RowOf(t) = "none" /\ RowOf(t)' = "queued")
    BY <1>1, <1>2 DEF Respond, Read, queue, RowOf
  <2> QED
    BY <2>1, <2>2, OtherTender DEF Contract!Next, Contract!Enqueue, Handling
<1>3. ASSUME NEW c \in Consumers, NEW u \in Tenders, ClaimScreening(c, u)
      PROVE  Contract(t)!Next \/ UNCHANGED Contract(t)!vars
  <2>1. /\ work[c] = None /\ work'[c] = u /\ \A d \in Consumers \ {c} : work'[d] = work[d]
        /\ job[u] = "queued" /\ job' = [job EXCEPT ![u] = "running"]
    BY <1>1, <1>3 DEF ClaimScreening, Queued
  <2>2. CASE u = t
    <3>1. Handling(t) = {} /\ Handling(t)' = {c}
      BY <1>1, <2>1, <2>2 DEF Handling
    <3>2. RowOf(t) = "queued" /\ RowOf(t)' = "running"
      BY <1>1, <2>1, <2>2 DEF RowOf
    <3>3. Contract(t)!Claim(c)
      BY <3>1, <3>2 DEF Contract!Claim
    <3> QED
      BY <3>3 DEF Contract!Next
  <2>3. CASE u # t
    BY <1>1, <2>1, <2>3, OtherTender DEF RowOf
  <2> QED
    BY <2>2, <2>3
<1>4. ASSUME NEW c \in Consumers, RaiseCircuitOpen(c) \/ Store(c) \/ FailScreening(c)
      PROVE  Contract(t)!Next \/ UNCHANGED Contract(t)!vars
  <2>1. work[c] \in Tenders
    BY <1>4 DEF TInv, JobsAreHeld, RaiseCircuitOpen, Store, FailScreening
  <2> QED
    BY <1>4, <2>1, OutcomeStep DEF RaiseCircuitOpen, Store, FailScreening
<1>5. ASSUME NEW c \in Consumers,
             \/ Call(c) \/ CallForTitle(c) \/ WriteTitle(c)
             \/ FailTitle(c) \/ RaiseTitle(c) \/ RateLimitTitle(c)
      PROVE  UNCHANGED Contract(t)!vars
  <2>1. \A d \in Consumers : work'[d] = t <=> work[d] = t
    BY <1>1, <1>5 DEF Call, CallForTitle, WriteTitle, FailTitle, RaiseTitle, RateLimitTitle, Return
  <2>2. job' = job
    BY <1>5 DEF Call, CallForTitle, WriteTitle, FailTitle, RaiseTitle, RateLimitTitle, queue
  <2> QED
    BY <2>1, <2>2, OtherTender DEF RowOf
<1>6. ASSUME NEW u \in Tenders, BackoffEnds(u) \/ RequeueStale(u)
      PROVE  Contract(t)!Next \/ UNCHANGED Contract(t)!vars
  <2>1. work' = work
    BY <1>6 DEF BackoffEnds, RequeueStale, threads
  <2>2. RowOf(t)' = RowOf(t) \/ (RowOf(t) = "running" /\ RowOf(t)' = "queued")
    BY <1>1, <1>6 DEF BackoffEnds, RequeueStale, RowOf
  <2> QED
    BY <2>1, <2>2, OtherTender DEF Contract!Next, Contract!RequeueStale, Handling
<1>7. CASE Restart
  <2>1. Handling(t)' = {} /\ RowOf(t)' = RowOf(t) /\ Handling(t) \in SUBSET Consumers
    BY <1>7 DEF Restart, Handling, RowOf, queue
  <2>2. Contract(t)!Die(Handling(t))
    BY <2>1 DEF Contract!Die
  <2> QED
    BY <2>1, <2>2 DEF Contract!Next
<1>8. ASSUME \/ UNCHANGED vars \/ Rollover \/ Cooldown
             \/ \E r \in Requests : Press(r) \/ PressAgain(r) \/ Spend(r) \/ Poll(r) \/ Kill(r)
      PROVE  UNCHANGED Contract(t)!vars
  <2>1. UNCHANGED <<job, work>>
    BY <1>8 DEF vars, Rollover, Cooldown, Press, PressAgain, Count, Spend, Poll, Kill, queue, threads
  <2> QED
    BY <2>1, OtherTender DEF RowOf
<1> QED
  BY <1>2, <1>3, <1>4, <1>5, <1>6, <1>7, <1>8 DEF Next, Request, Work

\* Nothing this module does to a tender's row is outside the contract that
\* JobQueue keeps and Screening is built on, a restart that ends every run at
\* once included.
THEOREM JobsKeepTheContract == ASSUME NEW t \in Tenders PROVE Spec => Contract(t)!Spec
<1>1. Init => Contract(t)!Init
  BY Constants DEF Init, Contract!Init, RowOf, Handling
<1>2. TInv /\ [Next]_vars => [Contract(t)!Next]_(Contract(t)!vars)
  BY StepContract
<1> QED
  BY <1>1, <1>2, AlwaysTypes, PTL DEF Spec, Contract!Spec
=============================================================================

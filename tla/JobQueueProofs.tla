--------------------------- MODULE JobQueueProofs ---------------------------
(***************************************************************************)
(* The safety properties of JobQueue for every set of ids, keys and        *)
(* consumers, every attempt budget and any number of crashes and overruns. *)
(*                                                                         *)
(* None of them is inductive alone.  What carries them is the relation     *)
(* between a consumer's copy of a job and the row: a copy never runs ahead *)
(* of the row (ClaimShape), and as long as no handler has outlived the     *)
(* stale limit it is exactly the row's latest claim (OnTime).              *)
(***************************************************************************)
EXTENDS JobQueue, FiniteSetTheorems, TLAPS

\* A consumer past its SELECT has a row: locked and queued, or claimed at
\* least once and no more often than the row says.
ClaimShape ==
    \A c \in Consumers :
        /\ pc[c] # "idle" => job[c] \in Ids
        /\ pc[c] = "locking" => status[job[c]] = "queued"
        /\ Busy(c) => /\ status[job[c]] # "absent"
                      /\ 1 <= attempt[c]
                      /\ attempt[c] <= attempts[job[c]]

\* FOR UPDATE SKIP LOCKED: one row, one locker.
LockIsExclusive ==
    \A c, d \in Consumers :
        pc[c] = "locking" /\ pc[d] = "locking" /\ job[c] = job[d] => c = d

\* Before the first overrun a busy consumer's copy is the row.
OnTime ==
    overruns = 0 =>
        \A c \in Consumers :
            Busy(c) => /\ status[job[c]] = "running"
                       /\ ~stale[job[c]]
                       /\ attempt[c] = attempts[job[c]]

\* A settled row that somebody is still at work on was claimed twice.
SettledUnderWork ==
    \A c \in Consumers :
        Busy(c) /\ status[job[c]] \in Settled => attempts[job[c]] >= 2

IInv ==
    /\ TypeOK
    /\ ClaimShape
    /\ LockIsExclusive
    /\ ClaimIsExclusive
    /\ OneLiveJobPerKey
    /\ FailedIsSpent
    /\ OnTime
    /\ SettledUnderWork

-----------------------------------------------------------------------------

\* The empty queue satisfies the invariant.
LEMMA InitInv == Init => IInv
  BY JobQueueAssumption DEF JobQueueAssumption, Init, IInv, TypeOK, ClaimShape, LockIsExclusive, ClaimIsExclusive,
         OneLiveJobPerKey, FailedIsSpent, OnTime, SettledUnderWork, Busy,
         Statuses, Live, Settled, Phases

\* What an insert does to the table, without the id assignment it chose.
LEMMA EnqueueRows ==
  ASSUME TypeOK, NEW batch \in SUBSET Keys, NEW p \in Priorities, NEW now \in BOOLEAN,
         Enqueue(batch, p, now)
  PROVE  /\ status' \in [Ids -> Statuses]
         /\ key' \in [Ids -> Keys \cup {NoKey}]
         /\ priority' \in [Ids -> Nat]
         /\ due' \in [Ids -> BOOLEAN]
         /\ \A i \in Ids : status[i] # "absent" =>
              status'[i] = status[i] /\ key'[i] = key[i]
         /\ \A i \in Ids : status'[i] # status[i] =>
              status[i] = "absent" /\ status'[i] = "queued" /\ ~Conflicts(key'[i])
         /\ \A i, j \in Ids :
              status'[i] # status[i] /\ status'[j] # status[j] /\ key'[i] = key'[j] => i = j
  <1> DEFINE fresh == {k \in batch : ~Conflicts(k)}
  <1>1. PICK id \in [fresh -> Unused] :
          /\ \A k, l \in fresh : id[k] = id[l] => k = l
          /\ LET new == {id[k] : k \in fresh}
             IN  /\ status' = [i \in Ids |-> IF i \in new THEN "queued" ELSE status[i]]
                 /\ key' = [i \in Ids |-> IF i \in new
                                            THEN CHOOSE k \in fresh : id[k] = i
                                            ELSE key[i]]
                 /\ priority' = [i \in Ids |-> IF i \in new THEN p ELSE priority[i]]
                 /\ due' = [i \in Ids |-> IF i \in new THEN now ELSE due[i]]
    BY DEF Enqueue
  <1> DEFINE new == {id[k] : k \in fresh}
             keyOf(i) == CHOOSE k \in fresh : id[k] = i
  <1>2. ASSUME NEW i \in new
        PROVE  i \in Ids /\ status[i] = "absent"
    <2>1. i \in Unused
      OBVIOUS
    <2>2. i \in Ids /\ (status[i] # "absent" => i < i)
      BY <2>1 DEF Unused
    <2>3. i \in Nat
      BY <2>2, JobQueueAssumption DEF JobQueueAssumption
    <2> QED
      BY <2>2, <2>3
  <1>3. \A i \in new : keyOf(i) \in fresh /\ id[keyOf(i)] = i
    OBVIOUS
  <1>4. \A i \in Ids : i \in new => status'[i] = "queued" /\ key'[i] = keyOf(i)
    BY <1>1
  <1>5. \A i \in Ids : i \notin new => status'[i] = status[i] /\ key'[i] = key[i]
    BY <1>1
  <1>6. /\ status' \in [Ids -> Statuses]
        /\ priority' \in [Ids -> Nat]
        /\ due' \in [Ids -> BOOLEAN]
    BY <1>1, JobQueueAssumption DEF JobQueueAssumption, TypeOK, Statuses, Live, Settled
  <1>7. key' \in [Ids -> Keys \cup {NoKey}]
    BY <1>1, <1>3 DEF TypeOK
  <1>8. \A i \in Ids : status[i] # "absent" => status'[i] = status[i] /\ key'[i] = key[i]
    BY <1>2, <1>5
  <1>9. ASSUME NEW i \in Ids, status'[i] # status[i]
        PROVE  i \in new /\ status[i] = "absent" /\ status'[i] = "queued" /\ ~Conflicts(key'[i])
    <2>1. i \in new
      BY <1>5, <1>9
    <2> QED
      BY <2>1, <1>2, <1>3, <1>4
  <1>10. ASSUME NEW i \in Ids, NEW j \in Ids, status'[i] # status[i], status'[j] # status[j],
                key'[i] = key'[j]
         PROVE  i = j
    BY <1>3, <1>4, <1>9, <1>10
  <1> QED
    BY <1>6, <1>7, <1>8, <1>9, <1>10

-----------------------------------------------------------------------------

\* An insert keeps IInv: its keys had no live row and its ids are new.
LEMMA EnqueueInv ==
  ASSUME IInv, NEW batch \in SUBSET Keys, NEW p \in Priorities, NEW now \in BOOLEAN,
         Enqueue(batch, p, now)
  PROVE  IInv'
  <1>1. /\ status' \in [Ids -> Statuses]
        /\ key' \in [Ids -> Keys \cup {NoKey}]
        /\ priority' \in [Ids -> Nat]
        /\ due' \in [Ids -> BOOLEAN]
        /\ \A i \in Ids : status[i] # "absent" =>
             status'[i] = status[i] /\ key'[i] = key[i]
        /\ \A i \in Ids : status'[i] # status[i] =>
             status[i] = "absent" /\ status'[i] = "queued" /\ ~Conflicts(key'[i])
        /\ \A i, j \in Ids :
             status'[i] # status[i] /\ status'[j] # status[j] /\ key'[i] = key'[j] => i = j
    BY EnqueueRows DEF IInv
  <1>2. UNCHANGED <<attempts, stale, pc, job, attempt, losses, overruns>>
    BY DEF Enqueue, consumers, faults
  <1>3. TypeOK'
    BY <1>1, <1>2 DEF IInv, TypeOK
  <1>4. ClaimShape'
    BY <1>1, <1>2 DEF IInv, TypeOK, ClaimShape, Busy
  <1>5. LockIsExclusive' /\ ClaimIsExclusive'
    BY <1>2 DEF IInv, LockIsExclusive, ClaimIsExclusive, Busy
  <1>6. OneLiveJobPerKey'
    <2> SUFFICES ASSUME NEW i \in Ids, NEW j \in Ids,
                        status'[i] \in Live, status'[j] \in Live, key'[i] = key'[j]
                 PROVE  i = j
      BY DEF OneLiveJobPerKey
    <2>1. CASE status'[i] # status[i] /\ status'[j] # status[j]
      BY <1>1, <2>1
    <2>2. CASE status'[i] # status[i] /\ status'[j] = status[j]
      BY <1>1, <2>2 DEF Conflicts, Live
    <2>3. CASE status'[i] = status[i] /\ status'[j] # status[j]
      BY <1>1, <2>3 DEF Conflicts, Live
    <2>4. CASE status'[i] = status[i] /\ status'[j] = status[j]
      BY <1>1, <2>4 DEF IInv, OneLiveJobPerKey, Live
    <2> QED
      BY <2>1, <2>2, <2>3, <2>4
  <1>7. FailedIsSpent'
    BY <1>1, <1>2 DEF IInv, FailedIsSpent
  <1>8. OnTime'
    BY <1>1, <1>2 DEF IInv, OnTime, ClaimShape, Busy
  <1>9. SettledUnderWork'
    BY <1>1, <1>2 DEF IInv, SettledUnderWork, ClaimShape, Busy, Settled
  <1> QED
    BY <1>3, <1>4, <1>5, <1>6, <1>7, <1>8, <1>9 DEF IInv

\* Locking a row keeps IInv: it was queued and nobody had it locked.
LEMMA SelectForUpdateInv ==
  ASSUME IInv, NEW c \in Consumers, SelectForUpdate(c)
  PROVE  IInv'
  <1> USE DEF IInv, SelectForUpdate, Claimable, table, faults
  <1>1. TypeOK'
    BY DEF TypeOK, Phases
  <1>2. ClaimShape'
    BY DEF TypeOK, ClaimShape, Busy
  <1>3. LockIsExclusive'
    BY DEF TypeOK, LockIsExclusive, Locked
  <1>4. ClaimIsExclusive' /\ OnTime' /\ SettledUnderWork'
    BY DEF TypeOK, ClaimIsExclusive, OnTime, SettledUnderWork, Busy
  <1>5. OneLiveJobPerKey' /\ FailedIsSpent'
    BY DEF OneLiveJobPerKey, FailedIsSpent
  <1> QED
    BY <1>1, <1>2, <1>3, <1>4, <1>5

\* The claim keeps IInv: its attempt is one nobody holds.
LEMMA ClaimInv ==
  ASSUME IInv, NEW c \in Consumers, Claim(c)
  PROVE  IInv'
  <1> USE DEF IInv, Claim, NextAttempt, faults
  <1>1. job[c] \in Ids /\ status[job[c]] = "queued"
    BY DEF ClaimShape
  <1>2. TypeOK'
    BY <1>1 DEF TypeOK, Phases, Statuses, Live
  <1>3. ClaimShape'
    BY <1>1 DEF TypeOK, ClaimShape, LockIsExclusive, Busy
  <1>4. LockIsExclusive'
    BY <1>1 DEF TypeOK, LockIsExclusive
  <1>5. ClaimIsExclusive'
    BY <1>1 DEF TypeOK, ClaimIsExclusive, ClaimShape, Busy
  <1>6. OneLiveJobPerKey'
    BY <1>1 DEF TypeOK, OneLiveJobPerKey, Live
  <1>7. FailedIsSpent'
    BY <1>1 DEF TypeOK, FailedIsSpent
  <1>8. OnTime'
    BY <1>1 DEF TypeOK, OnTime, ClaimShape, Busy
  <1>9. SettledUnderWork'
    BY <1>1 DEF TypeOK, SettledUnderWork, ClaimShape, Busy, Settled
  <1> QED
    BY <1>2, <1>3, <1>4, <1>5, <1>6, <1>7, <1>8, <1>9

\* The end of a handler touches no row.
LEMMA HandleInv ==
  ASSUME IInv, NEW c \in Consumers, Handle(c)
  PROVE  IInv'
  BY DEF IInv, Handle, table, faults, TypeOK, Phases, ClaimShape, LockIsExclusive,
         ClaimIsExclusive, OneLiveJobPerKey, FailedIsSpent, OnTime, SettledUnderWork, Busy

\* A late mark_done keeps IInv: it never makes a row live.
LEMMA MarkDoneInv ==
  ASSUME IInv, NEW c \in Consumers, MarkDone(c)
  PROVE  IInv'
  <1> USE DEF IInv, MarkDone, Release, faults
  <1>1. job[c] \in Ids /\ Busy(c)
    BY DEF ClaimShape, Busy
  <1>2. TypeOK'
    BY <1>1 DEF TypeOK, Phases, Statuses, Settled
  <1>3. ClaimShape'
    BY <1>1 DEF TypeOK, ClaimShape, Busy, Locked
  <1>4. LockIsExclusive' /\ ClaimIsExclusive'
    BY <1>1 DEF TypeOK, LockIsExclusive, ClaimIsExclusive, Busy
  <1>5. OneLiveJobPerKey'
    BY <1>1 DEF TypeOK, OneLiveJobPerKey, Live
  <1>6. FailedIsSpent'
    BY <1>1 DEF TypeOK, FailedIsSpent
  <1>7. OnTime'
    BY <1>1 DEF TypeOK, OnTime, ClaimIsExclusive, ClaimShape, Busy
  <1>8. SettledUnderWork'
    BY <1>1 DEF TypeOK, SettledUnderWork, ClaimIsExclusive, ClaimShape, Busy, Settled
  <1> QED
    BY <1>2, <1>3, <1>4, <1>5, <1>6, <1>7, <1>8

\* mark_failed keeps IInv: a row goes back only without a live namesake.
LEMMA MarkFailedInv ==
  ASSUME IInv, NEW c \in Consumers, MarkFailed(c)
  PROVE  IInv'
  <1> USE DEF IInv, MarkFailed, Release, faults
  <1>1. job[c] \in Ids /\ Busy(c)
    BY DEF ClaimShape, Busy
  <1>2. TypeOK'
    BY <1>1 DEF TypeOK, Phases, Statuses, Settled, Live
  <1>3. ClaimShape'
    BY <1>1 DEF TypeOK, ClaimShape, Busy, Locked
  <1>4. LockIsExclusive' /\ ClaimIsExclusive'
    BY <1>1 DEF TypeOK, LockIsExclusive, ClaimIsExclusive, Busy
  <1>5. OneLiveJobPerKey'
    BY <1>1 DEF TypeOK, OneLiveJobPerKey, Live, Collides
  <1>6. FailedIsSpent'
    BY <1>1, JobQueueAssumption
       DEF JobQueueAssumption, TypeOK, FailedIsSpent, Spent, ClaimShape
  <1>7. OnTime'
    BY <1>1 DEF TypeOK, OnTime, ClaimIsExclusive, ClaimShape, Busy
  <1>8. SettledUnderWork'
    BY <1>1 DEF TypeOK, SettledUnderWork, ClaimIsExclusive, ClaimShape, Busy, Settled
  <1> QED
    BY <1>2, <1>3, <1>4, <1>5, <1>6, <1>7, <1>8

\* A consumer that lets go of its claim and writes nothing keeps IInv.
LEMMA ReleaseInv ==
  ASSUME IInv, NEW c \in Consumers, Release(c), UNCHANGED table,
         losses' \in Nat, UNCHANGED overruns
  PROVE  IInv'
  BY DEF IInv, Release, table, TypeOK, Phases, ClaimShape, LockIsExclusive,
         ClaimIsExclusive, OneLiveJobPerKey, FailedIsSpent, OnTime, SettledUnderWork, Busy

\* The clock passing the stale limit over an abandoned row keeps IInv.
LEMMA BecomeStaleInv ==
  ASSUME IInv, NEW i \in Ids, BecomeStale(i)
  PROVE  IInv'
  <1> USE DEF IInv, BecomeStale, consumers, faults
  <1>1. OnTime'
    BY DEF TypeOK, OnTime, Owned, Busy
  <1> QED
    BY <1>1 DEF TypeOK, ClaimShape, LockIsExclusive, ClaimIsExclusive, OneLiveJobPerKey,
                FailedIsSpent, SettledUnderWork, Busy

\* A backoff that runs out and a handler that overruns keep IInv.
LEMMA ClockInv ==
  ASSUME IInv, NEW i \in Ids, BecomeDue(i) \/ Overrun(i)
  PROVE  IInv'
  <1> USE DEF IInv, BecomeDue, Overrun, consumers, faults
  <1>1. TypeOK'
    <2>1. CASE BecomeDue(i)
      BY <2>1 DEF TypeOK
    <2>2. CASE Overrun(i)
      BY <2>2 DEF TypeOK
    <2> QED
      BY <2>1, <2>2
  <1>2. OnTime'
    BY DEF TypeOK, OnTime, Busy
  <1> QED
    BY <1>1, <1>2 DEF ClaimShape, LockIsExclusive, ClaimIsExclusive, OneLiveJobPerKey,
                      FailedIsSpent, SettledUnderWork, Busy

\* The sweep keeps IInv: a running row and a queued one are both live.
LEMMA RequeueStaleInv ==
  ASSUME IInv, NEW c \in Consumers, RequeueStale(c)
  PROVE  IInv'
  <1> USE DEF IInv, RequeueStale, Abandoned, consumers, faults
  <1>1. TypeOK'
    BY DEF TypeOK, Statuses, Live
  <1>2. ClaimShape' /\ SettledUnderWork' /\ FailedIsSpent'
    BY DEF TypeOK, ClaimShape, SettledUnderWork, FailedIsSpent, Busy, Settled
  <1>3. LockIsExclusive' /\ ClaimIsExclusive'
    BY DEF LockIsExclusive, ClaimIsExclusive, Busy
  <1>4. OneLiveJobPerKey'
    BY DEF TypeOK, OneLiveJobPerKey, Live
  <1>5. OnTime'
    BY DEF TypeOK, OnTime, ClaimShape, Busy
  <1> QED
    BY <1>1, <1>2, <1>3, <1>4, <1>5

-----------------------------------------------------------------------------

\* IInv is inductive: one case per action of Next.
THEOREM Inductive == IInv /\ [Next]_vars => IInv'
  <1> SUFFICES ASSUME IInv, [Next]_vars
               PROVE  IInv'
    OBVIOUS
  <1>1. ASSUME NEW batch \in SUBSET Keys, NEW p \in Priorities, NEW now \in BOOLEAN,
               Enqueue(batch, p, now)
        PROVE  IInv'
    BY <1>1, EnqueueInv
  <1>2. ASSUME NEW c \in Consumers, SelectForUpdate(c)
        PROVE  IInv'
    BY <1>2, SelectForUpdateInv
  <1>3. ASSUME NEW c \in Consumers, Claim(c)
        PROVE  IInv'
    BY <1>3, ClaimInv
  <1>4. ASSUME NEW c \in Consumers, Handle(c)
        PROVE  IInv'
    BY <1>4, HandleInv
  <1>5. ASSUME NEW c \in Consumers, MarkDone(c)
        PROVE  IInv'
    BY <1>5, MarkDoneInv
  <1>6. ASSUME NEW c \in Consumers, MarkFailed(c)
        PROVE  IInv'
    BY <1>6, MarkFailedInv
  <1>7. ASSUME NEW c \in Consumers, MarkFailedRefused(c)
        PROVE  IInv'
    BY <1>7, ReleaseInv DEF MarkFailedRefused, faults, IInv, TypeOK
  <1>8. ASSUME NEW c \in Consumers, Lose(c)
        PROVE  IInv'
    BY <1>8, ReleaseInv DEF Lose, IInv, TypeOK
  <1>9. ASSUME NEW c \in Consumers, RequeueStale(c)
        PROVE  IInv'
    BY <1>9, RequeueStaleInv
  <1>10. ASSUME NEW i \in Ids, BecomeDue(i) \/ BecomeStale(i) \/ Overrun(i)
         PROVE  IInv'
    BY <1>10, BecomeStaleInv, ClockInv
  <1>11. CASE UNCHANGED vars
    BY <1>11 DEF vars, IInv, TypeOK, ClaimShape, LockIsExclusive, ClaimIsExclusive,
                 OneLiveJobPerKey, FailedIsSpent, OnTime, SettledUnderWork, Busy
  <1> QED
    BY <1>1, <1>2, <1>3, <1>4, <1>5, <1>6, <1>7, <1>8, <1>9, <1>10, <1>11 DEF Next

\* The invariant holds in every reachable state.
THEOREM Invariance == Spec => []IInv
  <1>1. Init => IInv
    BY InitInv
  <1>2. IInv /\ [Next]_vars => IInv'
    BY Inductive
  <1> QED
    BY <1>1, <1>2, PTL DEF Spec

\* Every column and consumer variable stays in its range.
THEOREM TypeCorrect == Spec => []TypeOK
  BY Invariance, PTL DEF IInv

\* One live row per (kind, key), over every interleaving of enqueues, late
\* outcomes, retries and stale sweeps.
THEOREM QueueIsDeduplicated == Spec => []OneLiveJobPerKey
  BY Invariance, PTL DEF IInv

\* No two consumers hold the same attempt of the same row.
THEOREM ClaimsAreExclusive == Spec => []ClaimIsExclusive
  BY Invariance, PTL DEF IInv

\* A row is failed only after MaxAttempts claims.
THEOREM FailedMeansSpent == Spec => []FailedIsSpent
  BY Invariance, PTL DEF IInv

\* Until a handler outlives the stale limit, a key is in one consumer's hands:
\* OnTime makes two busy consumers of one key hold one live row and one
\* attempt of it, which ClaimIsExclusive forbids.
THEOREM SingleRunner == Spec => []OneRunnerPerKey
  <1>1. IInv => OneRunnerPerKey
    <2> SUFFICES ASSUME IInv, overruns = 0, NEW c \in Consumers, NEW d \in Consumers,
                        c # d, Busy(c), Busy(d), key[job[c]] = key[job[d]]
                 PROVE  FALSE
      BY DEF OneRunnerPerKey
    <2>1. job[c] \in Ids /\ job[d] \in Ids
      BY DEF IInv, ClaimShape, Busy
    <2>2. /\ status[job[c]] = "running" /\ attempt[c] = attempts[job[c]]
          /\ status[job[d]] = "running" /\ attempt[d] = attempts[job[d]]
      BY DEF IInv, OnTime
    <2>3. job[c] = job[d]
      BY <2>1, <2>2 DEF IInv, OneLiveJobPerKey, Live
    <2> QED
      BY <2>2, <2>3 DEF IInv, ClaimIsExclusive
  <1> QED
    BY <1>1, Invariance, PTL

\* A row settled on its first attempt is never reopened: whoever could still
\* write to it would be a second claim.
THEOREM FirstOutcomeIsFinal == Spec => FirstOutcomeStands
  <1>1. ASSUME IInv, [Next]_vars, NEW i \in Ids, status[i] \in Settled, attempts[i] = 1
        PROVE  status'[i] = status[i]
    <2>1. \A c \in Consumers : job[c] = i => ~Busy(c) /\ pc[c] # "locking"
      BY <1>1 DEF IInv, SettledUnderWork, ClaimShape, Settled
    <2>2. status[i] # "absent" /\ status[i] # "running"
      BY <1>1 DEF Settled
    <2>3. ASSUME NEW batch \in SUBSET Keys, NEW p \in Priorities, NEW now \in BOOLEAN,
                 Enqueue(batch, p, now)
          PROVE  status'[i] = status[i]
      BY <2>2, <2>3, <1>1, EnqueueRows DEF IInv
    <2>4. ASSUME NEW c \in Consumers, Claim(c) \/ MarkDone(c) \/ MarkFailed(c)
          PROVE  status'[i] = status[i]
      <3>1. job[c] # i
        BY <2>1, <2>4 DEF Claim, NextAttempt, MarkDone, MarkFailed, Busy
      <3> QED
        BY <3>1, <2>4, <1>1 DEF Claim, NextAttempt, MarkDone, MarkFailed, IInv, TypeOK
    <2>5. ASSUME NEW c \in Consumers,
                 SelectForUpdate(c) \/ Handle(c) \/ MarkFailedRefused(c) \/ Lose(c)
          PROVE  status'[i] = status[i]
      BY <2>5 DEF SelectForUpdate, Handle, MarkFailedRefused, Lose, table
    <2>6. ASSUME NEW c \in Consumers, RequeueStale(c)
          PROVE  status'[i] = status[i]
      BY <2>2, <2>6 DEF RequeueStale, Abandoned
    <2>7. ASSUME NEW j \in Ids, BecomeDue(j) \/ BecomeStale(j) \/ Overrun(j)
          PROVE  status'[i] = status[i]
      BY <2>7 DEF BecomeDue, BecomeStale, Overrun
    <2>8. CASE UNCHANGED vars
      BY <2>8 DEF vars
    <2> QED
      BY <1>1, <2>3, <2>4, <2>5, <2>6, <2>7, <2>8 DEF Next
  <1>2. IInv /\ [Next]_vars =>
          [\A i \in Ids : status[i] \in Settled /\ attempts[i] = 1 => status'[i] = status[i]]_vars
    BY <1>1
  <1> QED
    BY <1>2, Invariance, PTL DEF Spec, FirstOutcomeStands

-----------------------------------------------------------------------------
(* The budget of claims. *)

\* Attempts of row i that mark_failed may still answer with a retry: those below
\* the last that are yet to be claimed, or in the hands of a consumer.  A claim
\* moves one from the former to the latter, and an outcome spends it.
Retries(i) ==
    {n \in 1..(MaxAttempts - 1) :
        n > attempts[i] \/ \E c \in Consumers : Busy(c) /\ job[c] = i /\ attempt[c] = n}

\* Row i will be claimed again, or for the first time, whatever happens to the
\* consumers at work: nobody has the outcome of its latest claim in hand.
ToBeClaimed(i) ==
    \/ status[i] \in {"absent", "queued"}
    \/ status[i] = "running" /\ (stale[i] \/ ~Owned(i))

\* The claims row i has had, the one that is due and the retries still to be
\* given: only a lost claim or an overrun adds to the sum.
Within(i) ==
    attempts[i] + (IF ToBeClaimed(i) THEN 1 ELSE 0) + Cardinality(Retries(i))
        <= MaxAttempts + losses + overruns

Budget == \A i \in Ids : Within(i)

\* There are finitely many retries, MaxAttempts - 1 at most.
LEMMA RetriesAreFinite ==
  ASSUME NEW i \in Ids
  PROVE  IsFiniteSet(Retries(i)) /\ Cardinality(Retries(i)) \in 0..(MaxAttempts - 1)
  <1>1. 1 \in Int /\ MaxAttempts - 1 \in Nat
    BY JobQueueAssumption DEF JobQueueAssumption
  <1>2. IsFiniteSet(1..(MaxAttempts - 1)) /\ Cardinality(1..(MaxAttempts - 1)) = MaxAttempts - 1
    BY <1>1, FS_Interval
  <1>3. Retries(i) \subseteq 1..(MaxAttempts - 1)
    BY DEF Retries
  <1>4. IsFiniteSet(Retries(i)) /\ Cardinality(Retries(i)) <= MaxAttempts - 1
    BY <1>2, <1>3, FS_Subset
  <1> QED
    BY <1>1, <1>4, FS_CardinalityType

\* An empty queue has all its claims before it.
LEMMA InitBudget == Init => Budget
  <1> SUFFICES ASSUME Init, NEW i \in Ids
               PROVE  Within(i)
    BY DEF Budget
  <1>1. Cardinality(Retries(i)) \in 0..(MaxAttempts - 1)
    BY RetriesAreFinite
  <1> QED
    BY <1>1, JobQueueAssumption DEF JobQueueAssumption, Init, Within

\* Row i stays within its budget in a step that claims nothing and hands back no
\* retry, unless a loss or an overrun pays for the claim it makes due.
LEMMA WithinKept ==
  ASSUME TypeOK, TypeOK', NEW i \in Ids, Within(i),
         attempts'[i] = attempts[i],
         Retries(i)' \subseteq Retries(i),
         losses' + overruns' >= losses + overruns,
         ToBeClaimed(i)' => ToBeClaimed(i) \/ losses' + overruns' > losses + overruns
  PROVE  Within(i)'
  <1> DEFINE R == Retries(i)
             S == Retries(i)'
  <1>1. IsFiniteSet(R) /\ Cardinality(R) \in Nat
    BY RetriesAreFinite, JobQueueAssumption DEF JobQueueAssumption
  <1>2. S \in SUBSET R
    OBVIOUS
  <1> HIDE DEF R, S
  <1>3. IsFiniteSet(S) /\ Cardinality(S) <= Cardinality(R)
    BY <1>1, <1>2, FS_Subset
  <1>4. Cardinality(S) \in Nat
    BY <1>3, FS_CardinalityType
  <1>5. /\ attempts[i] \in Nat
        /\ losses \in Nat /\ overruns \in Nat /\ losses' \in Nat /\ overruns' \in Nat
        /\ MaxAttempts \in Nat
    BY JobQueueAssumption DEF JobQueueAssumption, TypeOK
  <1>6. attempts[i] + (IF ToBeClaimed(i) THEN 1 ELSE 0) + Cardinality(R)
          <= MaxAttempts + losses + overruns
    BY DEF Within, R
  <1>7. attempts'[i] + (IF ToBeClaimed(i)' THEN 1 ELSE 0) + Cardinality(S)
          <= MaxAttempts + losses' + overruns'
    BY <1>1, <1>3, <1>4, <1>5, <1>6
  <1> QED
    BY <1>7 DEF Within, S

\* A consumer that lets go of row i's claim hands back no retry.
LEMMA ReleaseRetries ==
  ASSUME NEW c \in Consumers, Release(c), TypeOK, UNCHANGED attempts, NEW i \in Ids
  PROVE  Retries(i)' \subseteq Retries(i)
  BY DEF Release, TypeOK, Retries, Busy

\* The claim turns the claim that was due into one that was made, and one of the
\* retries to come into one in hand.
LEMMA ClaimBudget ==
  ASSUME IInv, NEW c \in Consumers, Claim(c), NEW i \in Ids, Within(i)
  PROVE  Within(i)'
  <1> USE DEF Claim, NextAttempt, faults
  <1>1. job[c] \in Ids /\ status[job[c]] = "queued"
    BY DEF IInv, ClaimShape
  <1>2. \A d \in Consumers : Busy(d) => Busy(d)' /\ d # c
    BY DEF IInv, TypeOK, Busy
  <1>3. \A d \in Consumers : d # c => (Busy(d)' <=> Busy(d)) /\ attempt'[d] = attempt[d]
    BY DEF IInv, TypeOK, Busy
  <1>4. CASE i # job[c]
    <2>1. attempts'[i] = attempts[i] /\ status'[i] = status[i] /\ stale'[i] = stale[i]
      BY <1>1, <1>4 DEF IInv, TypeOK
    <2>2. Retries(i)' \subseteq Retries(i)
      BY <2>1, <1>3, <1>4 DEF Retries
    <2>3. Owned(i) => Owned(i)'
      BY <2>1, <1>2, <1>3 DEF Owned
    <2>4. ToBeClaimed(i)' => ToBeClaimed(i)
      BY <2>1, <2>3 DEF ToBeClaimed
    <2>5. TypeOK /\ TypeOK'
      BY ClaimInv DEF IInv
    <2>6. losses' + overruns' >= losses + overruns
      BY <2>5 DEF TypeOK
    <2> QED
      BY <2>1, <2>2, <2>4, <2>5, <2>6, WithinKept
  <1>5. CASE i = job[c]
    <2>1. /\ attempts[i] \in Nat /\ attempts'[i] = attempts[i] + 1
          /\ status'[i] = "running" /\ ~stale'[i]
          /\ attempt'[c] = attempts[i] + 1 /\ Busy(c)'
      BY <1>1, <1>5 DEF IInv, TypeOK, Busy
    <2>2. Owned(i)'
      BY <2>1, <1>5 DEF Owned
    <2>3. ToBeClaimed(i) /\ ~ToBeClaimed(i)'
      BY <2>1, <2>2, <1>1, <1>5 DEF ToBeClaimed
    <2>4. Retries(i)' = Retries(i)
      <3>1. ASSUME NEW n \in 1..(MaxAttempts - 1), n > attempts[i] + 1
            PROVE  n > attempts[i]
        BY <3>1, <2>1
      <3>2. ASSUME NEW n \in 1..(MaxAttempts - 1), n > attempts[i]
            PROVE  n > attempts[i] + 1 \/ n = attempts[i] + 1
        BY <3>2, <2>1
      <3> QED
        BY <3>1, <3>2, <2>1, <1>2, <1>3, <1>5 DEF Retries
    <2>5. Cardinality(Retries(i)) \in Nat
      BY RetriesAreFinite, JobQueueAssumption DEF JobQueueAssumption
    <2> QED
      BY <2>1, <2>3, <2>4, <2>5 DEF Within
  <1> QED
    BY <1>4, <1>5

\* A retry is spent: the number of the attempt is in nobody else's hands.
LEMMA MarkFailedBudget ==
  ASSUME IInv, NEW c \in Consumers, MarkFailed(c), NEW i \in Ids, Within(i)
  PROVE  Within(i)'
  <1>0. TypeOK' /\ job[c] \in Ids /\ Busy(c) /\ 1 <= attempt[c] /\ attempt[c] <= attempts[job[c]]
    BY MarkFailedInv DEF IInv, ClaimShape, Busy, MarkFailed
  <1>1. Retries(i)' \subseteq Retries(i)
    BY ReleaseRetries DEF MarkFailed, IInv
  <1>2. \A d \in Consumers :
          d # c => (Busy(d)' <=> Busy(d)) /\ attempt'[d] = attempt[d] /\ job'[d] = job[d]
    BY DEF MarkFailed, Release, IInv, TypeOK, Busy
  <1>3. UNCHANGED <<attempts, losses, overruns>>
    BY DEF MarkFailed, faults
  <1>4. losses' + overruns' >= losses + overruns
    BY <1>3 DEF IInv, TypeOK
  <1>5. CASE i # job[c]
    <2>1. status'[i] = status[i] /\ stale'[i] = stale[i]
      BY <1>5 DEF MarkFailed, IInv, TypeOK
    <2>2. Owned(i) => Owned(i)'
      BY <1>2, <1>3, <1>5 DEF Owned
    <2>3. ToBeClaimed(i)' => ToBeClaimed(i)
      BY <2>1, <2>2 DEF ToBeClaimed
    <2> QED
      BY <1>0, <1>1, <1>3, <1>4, <2>3, WithinKept DEF IInv
  <1>6. CASE i = job[c] /\ Spent(attempt[c])
    <2>1. ~ToBeClaimed(i)'
      BY <1>6 DEF MarkFailed, IInv, TypeOK, ToBeClaimed
    <2> QED
      BY <1>0, <1>1, <1>3, <1>4, <2>1, WithinKept DEF IInv
  <1>7. CASE i = job[c] /\ ~Spent(attempt[c])
    <2> DEFINE R == Retries(i)
               S == Retries(i)'
    <2>1. attempts[i] \in Nat /\ attempt[c] \in Nat /\ MaxAttempts \in Nat \ {0}
      BY JobQueueAssumption DEF JobQueueAssumption, IInv, TypeOK
    <2>2. attempt[c] \in 1..(MaxAttempts - 1)
      BY <1>0, <1>7, <2>1 DEF Spent
    <2>3. attempt[c] \in R
      BY <2>2, <1>0, <1>7 DEF Retries
    <2>4. attempt[c] \notin S
      <3>1. ~(attempt[c] > attempts'[i])
        BY <1>0, <1>3, <1>7, <2>1
      <3>2. ASSUME NEW d \in Consumers, Busy(d)', job'[d] = i, attempt'[d] = attempt[c]
            PROVE  FALSE
        <4>1. d # c
          BY <3>2 DEF MarkFailed, Release, IInv, TypeOK, Busy
        <4> QED
          BY <4>1, <3>2, <1>0, <1>2, <1>7 DEF IInv, ClaimIsExclusive
      <3> QED
        BY <3>1, <3>2 DEF Retries
    <2>5. IsFiniteSet(R) /\ Cardinality(R) \in Nat
      BY RetriesAreFinite, JobQueueAssumption DEF JobQueueAssumption
    <2>6. S \in SUBSET (R \ {attempt[c]})
      BY <1>1, <2>4
    <2> HIDE DEF R, S
    <2>7. /\ IsFiniteSet(R \ {attempt[c]})
          /\ Cardinality(R \ {attempt[c]}) = Cardinality(R) - 1
      BY <2>3, <2>5, FS_RemoveElement
    <2>8. IsFiniteSet(S) /\ Cardinality(S) <= Cardinality(R) - 1
      BY <2>6, <2>7, FS_Subset
    <2>9. Cardinality(S) \in Nat
      BY <2>8, FS_CardinalityType
    <2>10. attempts[i] + (IF ToBeClaimed(i) THEN 1 ELSE 0) + Cardinality(R)
             <= MaxAttempts + losses + overruns
      BY DEF Within, R
    <2>11. losses \in Nat /\ overruns \in Nat
      BY DEF IInv, TypeOK
    <2>12. attempts[i] + 1 + Cardinality(S) <= MaxAttempts + losses + overruns
      BY <2>1, <2>5, <2>8, <2>9, <2>10, <2>11
    <2>13. attempts'[i] + (IF ToBeClaimed(i)' THEN 1 ELSE 0) + Cardinality(S)
             <= MaxAttempts + losses' + overruns'
      BY <2>1, <2>9, <2>11, <2>12, <1>3
    <2> QED
      BY <2>13 DEF Within, S
  <1> QED
    BY <1>5, <1>6, <1>7

\* What a consumer that is not of row i does, the clock and the sweep keep row
\* i's budget; and so do the outcomes that are no retry.
LEMMA OthersBudget ==
  ASSUME IInv, IInv', NEW i \in Ids, Within(i),
         \/ \E batch \in SUBSET Keys, p \in Priorities, now \in BOOLEAN : Enqueue(batch, p, now)
         \/ \E c \in Consumers : SelectForUpdate(c) \/ Handle(c) \/ RequeueStale(c)
         \/ \E j \in Ids : BecomeDue(j) \/ BecomeStale(j) \/ Overrun(j)
         \/ UNCHANGED vars
  PROVE  Within(i)'
  <1>1. \A d \in Consumers :
          (Busy(d)' <=> Busy(d)) /\ (Busy(d) => attempt'[d] = attempt[d] /\ job'[d] = job[d])
    <2>1. CASE \E c \in Consumers : SelectForUpdate(c)
      BY <2>1 DEF SelectForUpdate, IInv, TypeOK, Busy
    <2>2. CASE \E c \in Consumers : Handle(c)
      BY <2>2 DEF Handle, IInv, TypeOK, Busy
    <2>3. CASE UNCHANGED <<pc, job, attempt>>
      BY <2>3 DEF Busy
    <2> QED
      BY <2>1, <2>2, <2>3 DEF Enqueue, RequeueStale, BecomeDue, BecomeStale, Overrun, consumers, vars
  <1>2. UNCHANGED <<attempts, losses>>
    BY DEF Enqueue, SelectForUpdate, Handle, RequeueStale, BecomeDue, BecomeStale, Overrun,
           table, faults, vars
  <1>3. Retries(i)' \subseteq Retries(i)
    BY <1>1, <1>2 DEF Retries
  <1>4. Owned(i)' <=> Owned(i)
    BY <1>1, <1>2 DEF Owned
  <1>5. TypeOK /\ TypeOK'
    BY DEF IInv
  <1>6. CASE UNCHANGED overruns /\ (ToBeClaimed(i)' => ToBeClaimed(i))
    <2>1. losses' + overruns' >= losses + overruns
      BY <1>2, <1>5, <1>6 DEF TypeOK
    <2> QED
      BY <1>2, <1>3, <1>5, <1>6, <2>1, WithinKept
  <1>7. ASSUME NEW batch \in SUBSET Keys, NEW p \in Priorities, NEW now \in BOOLEAN,
               Enqueue(batch, p, now)
        PROVE  UNCHANGED overruns /\ (ToBeClaimed(i)' => ToBeClaimed(i))
    <2>1. UNCHANGED <<overruns, stale>>
      BY <1>7 DEF Enqueue, faults
    <2>2. status'[i] = status[i] \/ status[i] = "absent"
      BY <1>5, <1>7, EnqueueRows
    <2> QED
      BY <2>1, <2>2, <1>4 DEF ToBeClaimed
  <1>8. ASSUME NEW c \in Consumers, SelectForUpdate(c) \/ Handle(c)
        PROVE  UNCHANGED overruns /\ (ToBeClaimed(i)' => ToBeClaimed(i))
    BY <1>4, <1>8 DEF SelectForUpdate, Handle, ToBeClaimed, table, faults
  <1>9. ASSUME NEW c \in Consumers, RequeueStale(c)
        PROVE  UNCHANGED overruns /\ (ToBeClaimed(i)' => ToBeClaimed(i))
    BY <1>4, <1>9 DEF RequeueStale, Abandoned, ToBeClaimed, faults
  <1>10. ASSUME NEW j \in Ids, BecomeDue(j) \/ BecomeStale(j)
         PROVE  UNCHANGED overruns /\ (ToBeClaimed(i)' => ToBeClaimed(i))
    <2>1. CASE BecomeDue(j)
      BY <1>4, <2>1 DEF BecomeDue, ToBeClaimed, faults
    <2>2. CASE BecomeStale(j)
      BY <1>4, <1>5, <2>2 DEF BecomeStale, ToBeClaimed, faults, TypeOK
    <2> QED
      BY <1>10, <2>1, <2>2
  <1>11. ASSUME NEW j \in Ids, Overrun(j)
         PROVE  Within(i)'
    <2>1. losses' + overruns' > losses + overruns /\ losses' + overruns' >= losses + overruns
      BY <1>2, <1>5, <1>11 DEF Overrun, TypeOK
    <2> QED
      BY <1>2, <1>3, <1>5, <2>1, WithinKept
  <1>12. UNCHANGED vars => UNCHANGED overruns /\ (ToBeClaimed(i)' => ToBeClaimed(i))
    BY <1>4 DEF vars, ToBeClaimed
  <1> QED
    BY <1>6, <1>7, <1>8, <1>9, <1>10, <1>11, <1>12

\* An outcome that settles the row, one that is refused, and a crash.
LEMMA EndBudget ==
  ASSUME IInv, IInv', NEW c \in Consumers, NEW i \in Ids, Within(i),
         MarkDone(c) \/ MarkFailedRefused(c) \/ Lose(c)
  PROVE  Within(i)'
  <1>1. Release(c) /\ UNCHANGED <<attempts, overruns>>
    BY DEF MarkDone, MarkFailedRefused, Lose, table, faults
  <1>2. TypeOK /\ TypeOK'
    BY DEF IInv
  <1>3. Retries(i)' \subseteq Retries(i)
    BY <1>1, <1>2, ReleaseRetries
  <1>4. \A d \in Consumers :
          d # c => (Busy(d)' <=> Busy(d)) /\ attempt'[d] = attempt[d] /\ job'[d] = job[d]
    BY <1>1, <1>2 DEF Release, TypeOK, Busy
  <1>5. job[c] # i /\ Owned(i) => Owned(i)'
    BY <1>1, <1>4 DEF Owned
  <1>6. CASE Lose(c)
    <2>1. losses' + overruns' > losses + overruns /\ losses' + overruns' >= losses + overruns
      BY <1>1, <1>2, <1>6 DEF Lose, TypeOK
    <2> QED
      BY <1>1, <1>2, <1>3, <2>1, WithinKept
  <1>7. CASE MarkDone(c)
    <2>1. (status'[i] = status[i] /\ stale'[i] = stale[i] /\ job[c] # i) \/ status'[i] = "done"
      BY <1>2, <1>7 DEF MarkDone, TypeOK
    <2>2. ToBeClaimed(i)' => ToBeClaimed(i)
      BY <2>1, <1>5 DEF ToBeClaimed
    <2>3. losses' + overruns' >= losses + overruns
      BY <1>2, <1>7 DEF MarkDone, faults, TypeOK
    <2> QED
      BY <1>1, <1>2, <1>3, <2>2, <2>3, WithinKept
  <1>8. CASE MarkFailedRefused(c)
    <2>1. UNCHANGED <<status, stale, key>>
      BY <1>8 DEF MarkFailedRefused, table
    <2>2. job[c] = i => status[i] \notin Live /\ status[i] # "absent"
      BY <1>8 DEF MarkFailedRefused, Collides, IInv, OneLiveJobPerKey, ClaimShape, Busy
    <2>3. ToBeClaimed(i)' => ToBeClaimed(i)
      BY <2>1, <2>2, <1>5 DEF ToBeClaimed, Live
    <2>4. losses' + overruns' >= losses + overruns
      BY <1>2, <1>8 DEF MarkFailedRefused, faults, TypeOK
    <2> QED
      BY <1>1, <1>2, <1>3, <2>3, <2>4, WithinKept
  <1> QED
    BY <1>6, <1>7, <1>8

\* Every row keeps within its budget.
THEOREM BudgetInvariance == Spec => []Budget
  <1>1. IInv /\ Budget /\ [Next]_vars => Budget'
    <2> SUFFICES ASSUME IInv, Budget, [Next]_vars, NEW i \in Ids
                 PROVE  Within(i)'
      BY DEF Budget
    <2>1. IInv' /\ Within(i)
      BY Inductive DEF Budget
    <2>2. ASSUME NEW c \in Consumers, Claim(c)
          PROVE  Within(i)'
      BY <2>1, <2>2, ClaimBudget
    <2>3. ASSUME NEW c \in Consumers, MarkFailed(c)
          PROVE  Within(i)'
      BY <2>1, <2>3, MarkFailedBudget
    <2>4. ASSUME NEW c \in Consumers, MarkDone(c) \/ MarkFailedRefused(c) \/ Lose(c)
          PROVE  Within(i)'
      BY <2>1, <2>4, EndBudget
    <2>5. CASE \/ \E batch \in SUBSET Keys, p \in Priorities, now \in BOOLEAN :
                    Enqueue(batch, p, now)
               \/ \E c \in Consumers : SelectForUpdate(c) \/ Handle(c) \/ RequeueStale(c)
               \/ \E j \in Ids : BecomeDue(j) \/ BecomeStale(j) \/ Overrun(j)
               \/ UNCHANGED vars
      BY <2>1, <2>5, OthersBudget
    <2> QED
      BY <2>2, <2>3, <2>4, <2>5 DEF Next
  <1> QED
    BY <1>1, InitBudget, Invariance, PTL DEF Spec

\* Every claim beyond MAX_ATTEMPTS was paid for by a lost claim or by a handler
\* that outlived the stale limit: no order of failures, retries, refused retries,
\* late outcomes and sweeps makes one more.
THEOREM ClaimsAreAccountedFor == Spec => []ClaimsAreExplained
  <1>1. IInv /\ Budget => ClaimsAreExplained
    <2> SUFFICES ASSUME IInv, Budget, NEW i \in Ids
                 PROVE  attempts[i] <= MaxAttempts + losses + overruns
      BY DEF ClaimsAreExplained
    <2>1. Cardinality(Retries(i)) \in Nat
      BY RetriesAreFinite, JobQueueAssumption DEF JobQueueAssumption
    <2> QED
      BY <2>1, JobQueueAssumption DEF JobQueueAssumption, IInv, TypeOK, Budget, Within
  <1> QED
    BY <1>1, Invariance, BudgetInvariance, PTL

\* What requeue_stale's docstring says of the budget is true of a queue where no
\* consumer dies and no handler outlives the stale limit, and only there (the run
\* JobQueueAttempts).
THEOREM BudgetHoldsWithoutFaults ==
  Spec => [](losses = 0 /\ overruns = 0 => AttemptsWithinBudget)
  <1>1. ClaimsAreExplained => (losses = 0 /\ overruns = 0 => AttemptsWithinBudget)
    <2> SUFFICES ASSUME ClaimsAreExplained, losses = 0, overruns = 0, NEW i \in Ids
                 PROVE  attempts[i] <= MaxAttempts
      BY DEF AttemptsWithinBudget
    <2>1. attempts[i] <= MaxAttempts + losses + overruns
      BY DEF ClaimsAreExplained
    <2>2. MaxAttempts + 0 + 0 = MaxAttempts
      BY JobQueueAssumption DEF JobQueueAssumption
    <2> QED
      BY <2>1, <2>2
  <1> QED
    BY <1>1, ClaimsAreAccountedFor, PTL

=============================================================================

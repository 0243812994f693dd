---------------------------- MODULE LiveJobProofs ----------------------------
(***************************************************************************)
(* The queue keeps the contract of LiveJob for every key: whatever the     *)
(* other keys' rows do, each statement on a key's rows is one step of the  *)
(* abstract job or leaves it alone.  The argument is OneLiveJobPerKey: a   *)
(* write by id meets the live row or a settled one, never another live     *)
(* row, so its effect on the key is known from the writer's own row.       *)
(***************************************************************************)
EXTENDS JobQueueProofs

\* The live row of a key is what the index lets it be: that one row, or none.
LEMMA LiveRowFacts ==
  IInv => \A k \in Keys :
    /\ \A i \in Ids : key[i] = k /\ status[i] \in Live => LiveRow(k) = status[i]
    /\ (\A i \in Ids : key[i] = k => status[i] \notin Live) => LiveRow(k) = "none"
  BY DEF IInv, OneLiveJobPerKey, LiveRow, RowIs, Live

\* The same of the state after a step.
LEMMA NextLiveRowFacts ==
  ASSUME IInv'
  PROVE  \A k \in Keys :
    /\ \A i \in Ids : key'[i] = k /\ status'[i] \in Live => LiveRow(k)' = status'[i]
    /\ (\A i \in Ids : key'[i] = k => status'[i] \notin Live) => LiveRow(k)' = "none"
  BY DEF IInv, OneLiveJobPerKey, LiveRow, RowIs, Live

\* An abstract run is one of the consumers, and a holder is at work.
LEMMA WorkFacts ==
  ASSUME IInv, NEW k \in Keys
  PROVE  /\ AtWork(k) \subseteq Consumers
         /\ Holding(k) \subseteq AtWork(k)
         /\ \A c \in AtWork(k) : Busy(c) /\ job[c] \in Ids /\ key[job[c]] = k
                                    /\ status[job[c]] \in Live \cup Settled
  BY DEF IInv, TypeOK, ClaimShape, AtWork, Holding, Busy, Statuses

\* A step that leaves the key's rows and the consumers at work on them alone is
\* a stutter of its job.
LEMMA Stutter ==
  ASSUME NEW k \in Keys, IInv, IInv',
         \A i \in Ids : key[i] = k \/ key'[i] = k => key'[i] = key[i] /\ status'[i] = status[i],
         \A c \in Consumers : c \in AtWork(k)' <=> c \in AtWork(k),
         \A c \in AtWork(k) : job'[c] = job[c]
  PROVE  UNCHANGED Contract(k)!vars
  <1>1. AtWork(k)' = AtWork(k)
    BY DEF AtWork
  <1>2. Holding(k)' = Holding(k)
    BY <1>1, WorkFacts DEF Holding
  <1>3. LiveRow(k)' = LiveRow(k)
    BY DEF LiveRow, RowIs
  <1> QED
    BY <1>1, <1>2, <1>3 DEF Contract!vars

\* An insert for the key finds no live row and nobody holding one.
LEMMA EnqueueStep ==
  ASSUME NEW k \in Keys, IInv, IInv',
         NEW batch \in SUBSET Keys, NEW p \in Priorities, NEW now \in BOOLEAN,
         Enqueue(batch, p, now)
  PROVE  Contract(k)!Next \/ UNCHANGED Contract(k)!vars
  <1>1. /\ \A i \in Ids : status[i] # "absent" => status'[i] = status[i] /\ key'[i] = key[i]
        /\ \A i \in Ids : status'[i] # status[i] =>
             status[i] = "absent" /\ status'[i] = "queued" /\ ~Conflicts(key'[i])
    BY EnqueueRows DEF IInv
  <1>2. UNCHANGED <<pc, job, attempt>>
    BY DEF Enqueue, consumers
  <1>3. \A c \in Consumers : Busy(c) =>
          job[c] \in Ids /\ status'[job[c]] = status[job[c]] /\ key'[job[c]] = key[job[c]]
    BY <1>1 DEF IInv, ClaimShape, Busy
  <1>4. AtWork(k)' = AtWork(k)
    BY <1>2, <1>3 DEF AtWork, Busy
  <1>0. Holding(k)' = Holding(k)
    BY <1>2, <1>3, <1>4, WorkFacts DEF Holding
  <1>5. CASE \E i \in Ids : status'[i] # status[i] /\ key'[i] = k
    <2>1. PICK i \in Ids : status'[i] = "queued" /\ key'[i] = k /\ ~Conflicts(k)
      BY <1>1, <1>5
    <2>2. LiveRow(k) = "none"
      BY <2>1, LiveRowFacts DEF Conflicts
    <2>3. LiveRow(k)' = "queued"
      BY <2>1, NextLiveRowFacts DEF Live
    <2>4. Contract(k)!Enqueue
      BY <1>0, <1>4, <2>2, <2>3 DEF Contract!Enqueue
    <2> QED
      BY <2>4 DEF Contract!Next
  <1>6. CASE ~\E i \in Ids : status'[i] # status[i] /\ key'[i] = k
    <2>1. LiveRow(k)' = LiveRow(k)
      BY <1>1, <1>6 DEF LiveRow, RowIs
    <2> QED
      BY <1>0, <1>4, <2>1 DEF Contract!vars
  <1> QED
    BY <1>5, <1>6

\* The claim: the row was the queued one, and the consumer joins its holders.
LEMMA ClaimStep ==
  ASSUME NEW k \in Keys, IInv, IInv', NEW c \in Consumers, Claim(c)
  PROVE  Contract(k)!Next \/ UNCHANGED Contract(k)!vars
  <1>1. job[c] \in Ids /\ status[job[c]] = "queued" /\ UNCHANGED <<key, job>> /\ ~Busy(c)
    BY DEF Claim, IInv, ClaimShape, Busy
  <1>2. status'[job[c]] = "running" /\ \A i \in Ids \ {job[c]} : status'[i] = status[i]
    BY <1>1 DEF Claim, IInv, TypeOK
  <1>3. Busy(c)' /\ \A d \in Consumers \ {c} : Busy(d)' <=> Busy(d)
    BY DEF Claim, IInv, TypeOK, Busy
  <1>4. CASE key[job[c]] = k
    <2>1. LiveRow(k) = "queued" /\ LiveRow(k)' = "running"
      BY <1>1, <1>2, <1>4, LiveRowFacts, NextLiveRowFacts DEF Live
    <2>2. AtWork(k)' = AtWork(k) \cup {c} /\ c \notin AtWork(k)
      BY <1>1, <1>3, <1>4 DEF AtWork
    <2>3. \A d \in AtWork(k) : status'[job[d]] \in Live <=> status[job[d]] \in Live
      BY <1>1, <1>2, WorkFacts DEF Live
    <2>4. Holding(k)' = Holding(k) \cup {c}
      BY <1>1, <1>2, <2>2, <2>3 DEF Holding, Live
    <2>5. Contract(k)!Claim(c)
      BY <2>1, <2>2, <2>4 DEF Contract!Claim
    <2> QED
      BY <2>5 DEF Contract!Next
  <1>5. CASE key[job[c]] # k
    <2>1. \A i \in Ids : key[i] = k => status'[i] = status[i]
      BY <1>2, <1>5
    <2>2. \A d \in Consumers : d \in AtWork(k)' <=> d \in AtWork(k)
      BY <1>1, <1>3, <1>5 DEF AtWork
    <2> QED
      BY <1>1, <2>1, <2>2, Stutter
  <1> QED
    BY <1>4, <1>5

\* A consumer that lets go of its claim leaves the others of the key at work.
LEMMA ReleaseWork ==
  ASSUME NEW k \in Keys, IInv, NEW c \in Consumers, Release(c), UNCHANGED key
  PROVE  /\ AtWork(k)' = AtWork(k) \ {c}
         /\ \A d \in AtWork(k) \ {c} : job'[d] = job[d]
  BY DEF Release, IInv, TypeOK, AtWork, Busy

\* Without a write to the rows it is a run that dies, or nobody of the key.
LEMMA DieStep ==
  ASSUME NEW k \in Keys, IInv, IInv', NEW c \in Consumers, Release(c), UNCHANGED table
  PROVE  Contract(k)!Next \/ UNCHANGED Contract(k)!vars
  <1>1. UNCHANGED <<status, key>>
    BY DEF table
  <1>2. AtWork(k)' = AtWork(k) \ {c} /\ \A d \in AtWork(k) \ {c} : job'[d] = job[d]
    BY <1>1, ReleaseWork
  <1>3. Holding(k)' = Holding(k) \ {c}
    BY <1>1, <1>2 DEF Holding
  <1>4. LiveRow(k)' = LiveRow(k)
    BY <1>1 DEF LiveRow, RowIs
  <1>5. CASE c \in AtWork(k)
    <2>1. Contract(k)!Die({c})
      BY <1>2, <1>3, <1>4, <1>5, WorkFacts DEF Contract!Die
    <2> QED
      BY <2>1 DEF Contract!Next
  <1>6. CASE c \notin AtWork(k)
    BY <1>2, <1>3, <1>4, <1>6, WorkFacts DEF Contract!vars
  <1> QED
    BY <1>5, <1>6

\* An outcome that settles the writer's row: the live row with all its holders,
\* or a row that was settled before.
LEMMA SettleStep ==
  ASSUME NEW k \in Keys, IInv, IInv', NEW c \in Consumers, NEW s \in Settled,
         Busy(c), Release(c), UNCHANGED key, status' = [status EXCEPT ![job[c]] = s]
  PROVE  Contract(k)!Next \/ UNCHANGED Contract(k)!vars
  <1>1. job[c] \in Ids /\ status[job[c]] # "absent"
    BY DEF IInv, ClaimShape, Busy
  <1>2. status'[job[c]] = s /\ s \notin Live /\ \A i \in Ids \ {job[c]} : status'[i] = status[i]
    BY <1>1 DEF IInv, TypeOK, Live, Settled
  <1>3. AtWork(k)' = AtWork(k) \ {c} /\ \A d \in AtWork(k) \ {c} : job'[d] = job[d]
    BY ReleaseWork
  <1>4. CASE key[job[c]] = k /\ status[job[c]] \in Live
    <2>1. \A i \in Ids \ {job[c]} : key[i] = k => status[i] \notin Live
      BY <1>1, <1>4 DEF IInv, OneLiveJobPerKey
    <2>2. LiveRow(k)' = "none"
      BY <1>2, <2>1, NextLiveRowFacts
    <2>3. Holding(k)' = {}
      BY <1>2, <1>3, <2>1, WorkFacts DEF Holding
    <2>4. c \in Holding(k)
      BY <1>4 DEF Holding, AtWork
    <2>5. Contract(k)!MarkDone(c)
      BY <1>3, <2>2, <2>3, <2>4, WorkFacts DEF Contract!MarkDone, Contract!Settle
    <2> QED
      BY <2>5 DEF Contract!Next
  <1>5. CASE key[job[c]] = k /\ status[job[c]] \notin Live
    <2>1. \A i \in Ids : status'[i] # status[i] => status'[i] \notin Live /\ status[i] \notin Live
      BY <1>2, <1>5
    <2>2. LiveRow(k)' = LiveRow(k)
      BY <2>1 DEF LiveRow, RowIs, Live
    <2>3. Holding(k)' = Holding(k) \ {c}
      BY <1>3, <2>1, WorkFacts DEF Holding
    <2>4. c \in AtWork(k) /\ c \notin Holding(k)
      BY <1>5 DEF Holding, AtWork
    <2>5. Contract(k)!MarkDone(c)
      BY <1>3, <2>2, <2>3, <2>4 DEF Contract!MarkDone
    <2> QED
      BY <2>5 DEF Contract!Next
  <1>6. CASE key[job[c]] # k
    <2>1. c \notin AtWork(k)
      BY <1>6 DEF AtWork
    <2>2. \A i \in Ids : key[i] = k => status'[i] = status[i]
      BY <1>2, <1>6
    <2> QED
      BY <1>3, <2>1, <2>2, Stutter
  <1> QED
    BY <1>4, <1>5, <1>6

\* A retry: the writer's row goes back to the queue, or is reopened where the key
\* has no other live row.
LEMMA RetryStep ==
  ASSUME NEW k \in Keys, IInv, IInv', NEW c \in Consumers, Busy(c), Release(c), UNCHANGED key,
         ~Collides(job[c]), status' = [status EXCEPT ![job[c]] = "queued"]
  PROVE  Contract(k)!Next \/ UNCHANGED Contract(k)!vars
  <1>1. job[c] \in Ids /\ status[job[c]] # "absent"
    BY DEF IInv, ClaimShape, Busy
  <1>2. status'[job[c]] = "queued" /\ \A i \in Ids \ {job[c]} : status'[i] = status[i]
    BY <1>1 DEF IInv, TypeOK
  <1>3. AtWork(k)' = AtWork(k) \ {c} /\ \A d \in AtWork(k) \ {c} : job'[d] = job[d]
    BY ReleaseWork
  <1>4. CASE key[job[c]] = k
    <2>1. \A i \in Ids \ {job[c]} : key[i] = k => status[i] \notin Live
      BY <1>4 DEF Collides
    <2>2. LiveRow(k)' = "queued"
      BY <1>1, <1>2, <1>4, NextLiveRowFacts DEF Live
    <2>3. c \in AtWork(k)
      BY <1>4 DEF AtWork
    <2>4. CASE status[job[c]] \in Live
      <3>1. c \in Holding(k)
        BY <2>3, <2>4 DEF Holding
      <3>2. \A i \in Ids : status'[i] \in Live <=> status[i] \in Live
        BY <1>2, <2>4 DEF Live
      <3>3. Holding(k)' = Holding(k) \ {c}
        BY <1>3, <3>2, WorkFacts DEF Holding
      <3>4. Contract(k)!MarkFailed(c)
        BY <1>3, <2>2, <2>3, <3>1, <3>3 DEF Contract!MarkFailed
      <3> QED
        BY <3>4 DEF Contract!Next
    <2>5. CASE status[job[c]] \notin Live
      <3>1. LiveRow(k) = "none"
        BY <2>1, <2>5, LiveRowFacts
      <3>2. c \notin Holding(k)
        BY <2>5 DEF Holding
      <3>3. Holding(k)' \subseteq AtWork(k) \ {c}
        BY <1>3 DEF Holding
      <3>4. Contract(k)!MarkFailed(c)
        BY <1>3, <2>2, <2>3, <3>1, <3>2, <3>3 DEF Contract!MarkFailed
      <3> QED
        BY <3>4 DEF Contract!Next
    <2> QED
      BY <2>4, <2>5
  <1>5. CASE key[job[c]] # k
    <2>1. c \notin AtWork(k)
      BY <1>5 DEF AtWork
    <2>2. \A i \in Ids : key[i] = k => status'[i] = status[i]
      BY <1>2, <1>5
    <2> QED
      BY <1>3, <2>1, <2>2, Stutter
  <1> QED
    BY <1>4, <1>5

\* The sweep puts the key's running row back and takes it from nobody's hands.
LEMMA RequeueStep ==
  ASSUME NEW k \in Keys, IInv, IInv', NEW c \in Consumers, RequeueStale(c)
  PROVE  Contract(k)!Next \/ UNCHANGED Contract(k)!vars
  <1>1. UNCHANGED <<key, pc, job, attempt>>
    BY DEF RequeueStale, consumers
  <1>2. \A i \in Ids : status'[i] = IF i \in Abandoned(c) THEN "queued" ELSE status[i]
    BY DEF RequeueStale
  <1>3. \A i \in Abandoned(c) : i \in Ids /\ status[i] = "running"
    BY DEF Abandoned
  <1>4. AtWork(k)' = AtWork(k)
    BY <1>1 DEF AtWork, Busy
  <1>5. \A i \in Ids : status'[i] \in Live <=> status[i] \in Live
    BY <1>2, <1>3 DEF Live
  <1>6. Holding(k)' = Holding(k)
    BY <1>1, <1>4, <1>5, WorkFacts DEF Holding
  <1>7. CASE \E i \in Abandoned(c) : key[i] = k
    <2>1. LiveRow(k) = "running" /\ LiveRow(k)' = "queued"
      BY <1>1, <1>2, <1>3, <1>7, LiveRowFacts, NextLiveRowFacts DEF Live
    <2>2. Contract(k)!RequeueStale
      BY <1>4, <1>6, <2>1 DEF Contract!RequeueStale
    <2> QED
      BY <2>2 DEF Contract!Next
  <1>8. CASE ~\E i \in Abandoned(c) : key[i] = k
    <2>1. LiveRow(k)' = LiveRow(k)
      BY <1>1, <1>2, <1>8 DEF LiveRow, RowIs
    <2> QED
      BY <1>4, <1>6, <2>1 DEF Contract!vars
  <1> QED
    BY <1>7, <1>8

\* Steps that touch neither a status nor a consumer at work.
LEMMA QuietStep ==
  ASSUME NEW k \in Keys, IInv, IInv', UNCHANGED <<status, key>>,
         \/ \E c \in Consumers : SelectForUpdate(c) \/ Handle(c)
         \/ UNCHANGED <<pc, job, attempt>>
  PROVE  UNCHANGED Contract(k)!vars
  <1>1. \A d \in Consumers : (Busy(d)' <=> Busy(d)) /\ (Busy(d) => job'[d] = job[d])
    <2>1. CASE \E c \in Consumers : SelectForUpdate(c)
      BY <2>1 DEF SelectForUpdate, IInv, TypeOK, Busy
    <2>2. CASE \E c \in Consumers : Handle(c)
      BY <2>2 DEF Handle, IInv, TypeOK, Busy
    <2>3. CASE UNCHANGED <<pc, job, attempt>>
      BY <2>3 DEF Busy
    <2> QED
      BY <2>1, <2>2, <2>3
  <1>2. \A d \in Consumers : d \in AtWork(k)' <=> d \in AtWork(k)
    BY <1>1 DEF AtWork
  <1>3. \A d \in AtWork(k) : job'[d] = job[d]
    BY <1>1 DEF AtWork
  <1> QED
    BY <1>2, <1>3, Stutter

\* Every step of the queue is a step of the key's job, or leaves it as it is.
LEMMA StepSimulation ==
  ASSUME IInv, IInv', [Next]_vars, NEW k \in Keys
  PROVE  Contract(k)!Next \/ UNCHANGED Contract(k)!vars
  <1>1. ASSUME NEW batch \in SUBSET Keys, NEW p \in Priorities, NEW now \in BOOLEAN,
               Enqueue(batch, p, now)
        PROVE  Contract(k)!Next \/ UNCHANGED Contract(k)!vars
    BY <1>1, EnqueueStep
  <1>2. ASSUME NEW c \in Consumers, Claim(c)
        PROVE  Contract(k)!Next \/ UNCHANGED Contract(k)!vars
    BY <1>2, ClaimStep
  <1>3. ASSUME NEW c \in Consumers, MarkDone(c)
        PROVE  Contract(k)!Next \/ UNCHANGED Contract(k)!vars
    BY <1>3, SettleStep DEF MarkDone, Busy, Settled
  <1>4. ASSUME NEW c \in Consumers, MarkFailed(c)
        PROVE  Contract(k)!Next \/ UNCHANGED Contract(k)!vars
    <2>1. Busy(c) /\ Release(c) /\ UNCHANGED key
      BY <1>4 DEF MarkFailed, Busy
    <2>2. CASE status' = [status EXCEPT ![job[c]] = "failed"]
      BY <2>1, <2>2, SettleStep DEF Settled
    <2>3. CASE ~Collides(job[c]) /\ status' = [status EXCEPT ![job[c]] = "queued"]
      BY <2>1, <2>3, RetryStep
    <2> QED
      BY <1>4, <2>2, <2>3 DEF MarkFailed
  <1>5. ASSUME NEW c \in Consumers, MarkFailedRefused(c) \/ Lose(c)
        PROVE  Contract(k)!Next \/ UNCHANGED Contract(k)!vars
    BY <1>5, DieStep DEF MarkFailedRefused, Lose
  <1>6. ASSUME NEW c \in Consumers, RequeueStale(c)
        PROVE  Contract(k)!Next \/ UNCHANGED Contract(k)!vars
    BY <1>6, RequeueStep
  <1>7. ASSUME NEW c \in Consumers, SelectForUpdate(c) \/ Handle(c)
        PROVE  Contract(k)!Next \/ UNCHANGED Contract(k)!vars
    BY <1>7, QuietStep DEF SelectForUpdate, Handle, table
  <1>8. ASSUME NEW i \in Ids, BecomeDue(i) \/ BecomeStale(i) \/ Overrun(i)
        PROVE  Contract(k)!Next \/ UNCHANGED Contract(k)!vars
    BY <1>8, QuietStep DEF BecomeDue, BecomeStale, Overrun, consumers
  <1>9. CASE UNCHANGED vars
    BY <1>9, QuietStep DEF vars
  <1> QED
    BY <1>1, <1>2, <1>3, <1>4, <1>5, <1>6, <1>7, <1>8, <1>9 DEF Next

\* An empty queue has no job under any key.
LEMMA InitSimulation ==
  ASSUME Init, NEW k \in Keys
  PROVE  Contract(k)!Init
  BY DEF Init, Contract!Init, LiveRow, RowIs, Holding, AtWork, Busy, Live

\* For every key, any number of ids, consumers, attempts and crashes, the queue
\* behaves as the key's one live job.
THEOREM QueueImplementsLiveJob == ASSUME NEW k \in Keys PROVE Spec => Contract(k)!Spec
  <1>1. Init => Contract(k)!Init
    BY InitSimulation
  <1>2. IInv /\ IInv' /\ [Next]_vars => [Contract(k)!Next]_(Contract(k)!vars)
    BY StepSimulation
  <1> QED
    BY <1>1, <1>2, Invariance, PTL DEF Spec, Contract!Spec

\* The same as the property the run JobQueue checks.
THEOREM LateOutcomesStayInTheirRow == Spec => ImplementsLiveJob
  <1>1. Init => \A k \in Keys : Contract(k)!Init
    BY InitSimulation
  <1>2. IInv /\ IInv' /\ [Next]_vars =>
          [\A k \in Keys : Contract(k)!Next \/ UNCHANGED Contract(k)!vars]_vars
    BY StepSimulation
  <1> QED
    BY <1>1, <1>2, Invariance, PTL DEF Spec, ImplementsLiveJob
=============================================================================

--------------------------- MODULE WorkerLoopProofs ---------------------------
(***************************************************************************)
(* WakeIsNotLost for every set of consumers and keys.  It is not inductive *)
(* alone: ClaimNone may end the last awake consumer's drain, so one needs  *)
(* that a notified key is a due row, which ClaimNone cannot then overlook; *)
(* and a raised flag must have left nobody blocked in wait.                *)
(***************************************************************************)
EXTENDS WorkerLoop, TLAPS

\* Every key a wake still stands for is due in the queue.
NotifiedIsDue == notified \subseteq DueKeys

\* While the flag is up nobody is blocked in wait.
FlagWakes == event => \A c \in Consumers : pc[c] # "waiting"

\* A consumer ends on stop only.
StoppedOnStop == \A c \in Consumers : pc[c] = "stopped" => stop

IInv == TypeOK /\ NotifiedIsDue /\ FlagWakes /\ StoppedOnStop /\ WakeIsNotLost

\* The initial state has nothing in the queue and nobody notified.
LEMMA InitInv == Init => IInv
<1> SUFFICES ASSUME Init
             PROVE  IInv
  OBVIOUS
<1>1. TypeOK
  BY DEF Init, TypeOK, Rows, Positions
<1>2. NotifiedIsDue /\ FlagWakes /\ StoppedOnStop /\ WakeIsNotLost
  BY DEF Init, NotifiedIsDue, FlagWakes, StoppedOnStop, WakeIsNotLost
<1> QED BY <1>1, <1>2 DEF IInv

\* The moves that leave the process awake: to a position at work, or towards a
\* wait that the flag will end, or into one that no flag ends while another
\* consumer is at work.
KeepsAwake(from, to) ==
    \/ to \in AtWork
    \/ from = "drained" /\ to = "pausing"
    \/ from = "pausing" /\ to = "waiting"

\* Such a move leaves the process awake.
LEMMA GotoAwake ==
    ASSUME TypeOK, NEW c \in Consumers, NEW from, NEW to, Goto(c, from, to), Awake,
           KeepsAwake(from, to), to = "waiting" => ~event
    PROVE  Awake'
<1>1. pc[c] = from /\ pc'[c] = to /\ event' = event
      /\ \A d \in Consumers \ {c} : pc'[d] = pc[d]
  BY DEF TypeOK, Goto, signal
<1>2. CASE to \in AtWork
  BY <1>1, <1>2 DEF Awake
<1>3. CASE from = "drained" /\ to = "pausing"
  BY <1>1, <1>3 DEF Awake, AtWork
<1>4. CASE from = "pausing" /\ to = "waiting"
  BY <1>1, <1>4 DEF Awake, AtWork
<1> QED BY <1>2, <1>3, <1>4 DEF KeepsAwake

\* A move of one consumer keeps the invariant when it keeps the process awake,
\* a stop is under way, or there is nothing to be awake for.
LEMMA GotoInv ==
    ASSUME IInv, NEW c \in Consumers, NEW from, NEW to \in Positions, Goto(c, from, to),
           to = "waiting" => ~event,
           to = "stopped" => stop,
           stop \/ notified = {} \/ KeepsAwake(from, to)
    PROVE  IInv'
<1>1. TypeOK'
  BY DEF IInv, TypeOK, Goto, queue, signal, web, scheduler, history
<1>2. NotifiedIsDue'
  BY DEF IInv, NotifiedIsDue, DueKeys, Goto, queue, history
<1>3. FlagWakes' /\ StoppedOnStop'
  BY DEF IInv, TypeOK, FlagWakes, StoppedOnStop, Goto, signal
<1>4. WakeIsNotLost'
  <2>1. CASE stop
    BY <2>1 DEF WakeIsNotLost, Goto, signal
  <2>2. CASE notified = {}
    BY <2>2 DEF WakeIsNotLost, Goto, history
  <2>3. CASE ~stop /\ notified # {}
    <3>1. Awake
      BY <2>3 DEF IInv, WakeIsNotLost
    <3>2. Awake'
      BY <2>3, <3>1, GotoAwake DEF IInv
    <3> QED BY <3>2 DEF WakeIsNotLost
  <2> QED BY <2>1, <2>2, <2>3
<1> QED BY <1>1, <1>2, <1>3, <1>4 DEF IInv

\* A notify that stands for due rows keeps the invariant: every consumer that
\* has not stopped is at work or will meet the flag.
LEMMA NotifyInv ==
    ASSUME IInv, Notify, notified' \subseteq DueKeys, UNCHANGED <<queue, stop>>,
           notifying' \in BOOLEAN, posts' \subseteq UserKeys,
           ticking' \subseteq ScheduleKeys, UNCHANGED <<ignored, failures, lostPosts, tickFailures>>
    PROVE  IInv'
<1>1. pc' \in [Consumers -> Positions]
  BY DEF IInv, TypeOK, Notify, Positions
<1>2. TypeOK'
  BY <1>1 DEF IInv, TypeOK, Notify, queue, NotifiedIsDue, DueKeys
<1>3. NotifiedIsDue' /\ FlagWakes' /\ StoppedOnStop'
  BY DEF IInv, NotifiedIsDue, DueKeys, queue, FlagWakes, StoppedOnStop, Notify
<1>4. WakeIsNotLost'
  <2>1. PICK c \in Consumers : TRUE
    BY WorkerLoopAssumption
  <2>2. pc'[c] \in AtWork \cup {"drained", "pausing"} \/ stop'
    BY <1>1, <1>3 DEF FlagWakes, StoppedOnStop, Notify, Positions, AtWork
  <2> QED BY <2>2 DEF WakeIsNotLost, Awake, Notify
<1> QED BY <1>2, <1>3, <1>4 DEF IInv

\* An insert adds a due row and wakes nobody.
LEMMA InsertInv ==
    ASSUME IInv, NEW k \in Keys, Insert(k), UNCHANGED <<signal, pc, history, failures>>,
           posts' \subseteq UserKeys, ticking' \subseteq ScheduleKeys,
           UNCHANGED <<lostPosts, tickFailures>>
    PROVE  IInv'
<1>1. TypeOK'
  BY WorkerLoopAssumption DEF IInv, TypeOK, Insert, signal, history, Rows
<1>2. NotifiedIsDue'
  BY DEF IInv, TypeOK, NotifiedIsDue, DueKeys, Insert, history
<1>3. FlagWakes' /\ StoppedOnStop' /\ WakeIsNotLost'
  BY DEF IInv, FlagWakes, StoppedOnStop, WakeIsNotLost, Awake, signal, history
<1> QED BY <1>1, <1>2, <1>3 DEF IInv

\* A step that changes neither rows, consumers nor the signal.
LEMMA QuietInv ==
    ASSUME IInv, UNCHANGED <<queue, event, pc, notified, failures>>, stop => stop',
           stop' \in BOOLEAN, notifying' \in BOOLEAN, ignored' \subseteq Keys,
           posts' \subseteq UserKeys, ticking' \subseteq ScheduleKeys,
           lostPosts' \in Nat, tickFailures' \in Nat
    PROVE  IInv'
<1>1. TypeOK'
  BY DEF IInv, TypeOK, queue
<1>2. NotifiedIsDue' /\ FlagWakes' /\ StoppedOnStop' /\ WakeIsNotLost'
  BY DEF IInv, NotifiedIsDue, DueKeys, FlagWakes, StoppedOnStop, WakeIsNotLost, Awake, queue
<1> QED BY <1>1, <1>2 DEF IInv

\* The web's, the scheduler's and the clock's steps keep the invariant.
LEMMA KeyInv ==
    ASSUME IInv, NEW k \in Keys,
           \/ Request(k) \/ DedupedRequest(k) \/ Refresh(k) \/ DeliverPost(k)
           \/ LosePost(k) \/ TickInsert(k) \/ BecomeDue(k)
    PROVE  IInv'
<1>1. CASE Request(k)
  BY <1>1, InsertInv DEF Request, IInv, TypeOK, signal, history, scheduler
<1>2. CASE DedupedRequest(k)
  BY <1>2, QuietInv DEF DedupedRequest, IInv, TypeOK, signal, web, scheduler, DueKeys
<1>3. CASE Refresh(k)
  BY <1>3, InsertInv DEF Refresh, IInv, TypeOK, signal, history, scheduler, web
<1>4. CASE DeliverPost(k)
  BY <1>4, NotifyInv DEF DeliverPost, IInv, TypeOK, NotifiedIsDue, scheduler
<1>5. CASE LosePost(k)
  BY <1>5, QuietInv DEF LosePost, IInv, TypeOK, signal, history, scheduler
<1>6. CASE TickInsert(k)
  BY <1>6, InsertInv DEF TickInsert, IInv, TypeOK, signal, history, web
<1>7. CASE BecomeDue(k)
  <2>1. TypeOK'
    BY <1>7 DEF BecomeDue, IInv, TypeOK, Rows, signal, web, scheduler, history
  <2>2. NotifiedIsDue' /\ FlagWakes' /\ StoppedOnStop' /\ WakeIsNotLost'
    BY <1>7 DEF BecomeDue, IInv, TypeOK, NotifiedIsDue, DueKeys, FlagWakes, StoppedOnStop,
       WakeIsNotLost, Awake, signal, history
  <2> QED BY <2>1, <2>2 DEF IInv
<1> QED BY <1>1, <1>2, <1>3, <1>4, <1>5, <1>6, <1>7

\* A claim takes its key out of the notified ones and leaves its consumer at
\* work.
LEMMA ClaimInv ==
    ASSUME IInv, NEW c \in Consumers, NEW k \in Keys, ClaimRow(c, k)
    PROVE  IInv'
<1>1. TypeOK'
  BY DEF ClaimRow, IInv, TypeOK, Rows, Positions, signal, web, scheduler
<1>2. NotifiedIsDue'
  BY DEF ClaimRow, IInv, TypeOK, NotifiedIsDue, DueKeys
<1>3. pc'[c] = "handling" /\ FlagWakes' /\ StoppedOnStop'
  BY DEF ClaimRow, IInv, TypeOK, FlagWakes, StoppedOnStop, signal
<1> QED BY <1>1, <1>2, <1>3 DEF IInv, WakeIsNotLost, Awake, AtWork

\* The end of a handler leaves its consumer at work.
LEMMA FinishInv ==
    ASSUME IInv, NEW c \in Consumers, NEW k \in Keys, Finish(c, k)
    PROVE  IInv'
<1>1. row' \in [Keys -> Rows] /\ retried' \subseteq Keys
  BY DEF Finish, IInv, TypeOK, Rows
<1>2. TypeOK'
  BY <1>1 DEF Finish, IInv, TypeOK, Positions, signal, web, scheduler, history
<1>3. NotifiedIsDue'
  BY DEF Finish, IInv, TypeOK, NotifiedIsDue, DueKeys, history
<1>4. pc'[c] = "claim" /\ FlagWakes' /\ StoppedOnStop'
  BY DEF Finish, IInv, TypeOK, FlagWakes, StoppedOnStop, signal
<1> QED BY <1>2, <1>3, <1>4 DEF IInv, WakeIsNotLost, Awake, AtWork

\* Every step of one consumer keeps the invariant.
LEMMA StepInv ==
    ASSUME IInv, NEW c \in Consumers, Step(c)
    PROVE  IInv'
<1> USE DEF Positions, KeepsAwake, AtWork
<1>1. CASE Top(c)
  BY <1>1, GotoInv DEF Top
<1>2. CASE Connect(c)
  BY <1>2, GotoInv DEF Connect
<1>3. CASE CheckStop(c)
  BY <1>3, GotoInv DEF CheckStop
<1>4. CASE \E k \in Keys : ClaimRow(c, k) \/ Finish(c, k)
  BY <1>4, ClaimInv, FinishInv
<1>5. CASE ClaimNone(c)
  <2>1. notified = {}
    BY <1>5 DEF ClaimNone, IInv, NotifiedIsDue
  <2> QED BY <1>5, <2>1, GotoInv DEF ClaimNone
<1>6. CASE CheckStopAgain(c)
  BY <1>6, GotoInv DEF CheckStopAgain
<1>7. CASE Wait(c)
  BY <1>7, GotoInv DEF Wait
<1>8. CASE Timeout(c)
  BY <1>8, GotoInv DEF Timeout
<1>9. CASE Clear(c)
  <2>1. TypeOK'
    BY <1>9 DEF Clear, IInv, TypeOK, queue, web, scheduler, history
  <2>2. pc'[c] = "top" /\ FlagWakes' /\ StoppedOnStop'
    BY <1>9 DEF Clear, IInv, TypeOK, FlagWakes, StoppedOnStop
  <2>3. NotifiedIsDue'
    BY <1>9 DEF Clear, IInv, NotifiedIsDue, DueKeys, queue, history
  <2> QED BY <2>1, <2>2, <2>3 DEF IInv, WakeIsNotLost, Awake
<1> QED BY <1>1, <1>2, <1>3, <1>4, <1>5, <1>6, <1>7, <1>8, <1>9 DEF Step

\* A drain that fails forfeits what was notified.
LEMMA DrainFailsInv ==
    ASSUME IInv, NEW c \in Consumers, DrainFails(c)
    PROVE  IInv'
<1>1. TypeOK'
  BY DEF DrainFails, IInv, TypeOK, Positions, queue, signal, web, scheduler
<1>2. FlagWakes' /\ StoppedOnStop'
  BY DEF DrainFails, IInv, TypeOK, FlagWakes, StoppedOnStop, signal
<1> QED BY <1>1, <1>2 DEF DrainFails, IInv, NotifiedIsDue, WakeIsNotLost

\* The invariant is inductive.
LEMMA NextInv == IInv /\ [Next]_vars => IInv'
<1> SUFFICES ASSUME IInv, [Next]_vars
             PROVE  IInv'
  OBVIOUS
<1>1. CASE \E k \in Keys : \/ Request(k) \/ DedupedRequest(k) \/ Refresh(k)
                           \/ DeliverPost(k) \/ LosePost(k) \/ TickInsert(k) \/ BecomeDue(k)
  BY <1>1, KeyInv
<1>2. CASE TickNotify
  BY <1>2, NotifyInv DEF TickNotify, IInv, TypeOK, NotifiedIsDue, web
<1>3. CASE TickFail
  BY <1>3, QuietInv DEF TickFail, IInv, TypeOK, signal, history, web
<1>4. CASE Shutdown
  BY <1>4, QuietInv DEF Shutdown, IInv, TypeOK, history, web, scheduler
<1>5. CASE ShutdownNotify
  BY <1>5, NotifyInv DEF ShutdownNotify, IInv, TypeOK, NotifiedIsDue, history, web, scheduler
<1>6. CASE \E c \in Consumers : Step(c) \/ DrainFails(c)
  BY <1>6, StepInv, DrainFailsInv
<1>7. CASE UNCHANGED vars
  BY <1>7, QuietInv DEF vars, IInv, TypeOK, queue
<1> QED BY <1>1, <1>2, <1>3, <1>4, <1>5, <1>6, <1>7 DEF Next

\* Every reachable state satisfies the inductive invariant.
THEOREM Invariance == Spec => []IInv
BY InitInv, NextInv, PTL DEF Spec

\* The variables of the worker process stay in their ranges.
THEOREM TypeCorrect == Spec => []TypeOK
BY Invariance, PTL DEF IInv

\* A wake that arrived is answered without waiting for a poll: for every number
\* of consumers on one Event, however its set and clear fall among their steps.
THEOREM WakesAreHeard == Spec => []WakeIsNotLost
BY Invariance, PTL DEF IInv

\* A consumer that has seen stop never goes back to the queue, and another one
\* finishes at most the claim it had already decided on.
THEOREM StopIsFinal == Spec => NoNewClaimsAfterStop
<1>1. ASSUME IInv, [Next]_vars, NEW c \in Consumers, stop, pc[c] # "checked"
      PROVE  pc'[c] \notin {"checked", "handling"} \/ pc'[c] = pc[c]
  <2> USE <1>1 DEF IInv, TypeOK
  <2>1. CASE \E k \in Keys : \/ Request(k) \/ DedupedRequest(k) \/ Refresh(k)
                             \/ DeliverPost(k) \/ LosePost(k) \/ TickInsert(k) \/ BecomeDue(k)
    BY <2>1 DEF Request, DedupedRequest, Refresh, DeliverPost, LosePost, TickInsert,
       BecomeDue, Notify
  <2>2. CASE TickNotify \/ TickFail \/ Shutdown \/ ShutdownNotify
    BY <2>2 DEF TickNotify, TickFail, Shutdown, ShutdownNotify, Notify
  <2>3. ASSUME NEW d \in Consumers, Step(d) \/ DrainFails(d)
        PROVE  pc'[c] \notin {"checked", "handling"} \/ pc'[c] = pc[c]
    BY <2>3 DEF Step, Top, Connect, CheckStop, ClaimRow, Finish, ClaimNone, CheckStopAgain,
       Wait, Timeout, Clear, DrainFails, Goto
  <2>4. CASE UNCHANGED vars
    BY <2>4 DEF vars
  <2> QED BY <2>1, <2>2, <2>3, <2>4 DEF Next
<1>2. IInv /\ [Next]_vars =>
        [\A c \in Consumers : stop /\ pc[c] # "checked" => pc'[c] \notin {"checked", "handling"}
                                \/ pc'[c] = pc[c]]_vars
  BY <1>1
<1> QED BY <1>2, Invariance, PTL DEF Spec, NoNewClaimsAfterStop

-----------------------------------------------------------------------------
(* What a deduped request may rely on. *)

\* No POST, drain or tick has died on its way.
NothingLost == lostPosts = 0 /\ failures = 0 /\ tickFailures = 0

\* The keys whose live row is on its first run and was not inserted behind
\* data that was already served.
Fresh == Keys \ (retried \cup RefreshKeys)

\* Only a live row is retried, and only a retried one waits for a backoff.
RetriedIsLive ==
    \A k \in Keys : (row[k] = "backoff" => k \in retried) /\ (k \in retried => row[k] # "none")

\* A key leaves `ignored` with its claim.
IgnoredIsDue == ignored \subseteq DueKeys

\* Whoever inserted a fresh due row has notified, or is about to.
FreshAreAnnounced ==
    NothingLost => \A k \in DueKeys \cap Fresh : k \in posts \cup ticking \cup notified

FInv == RetriedIsLive /\ IgnoredIsDue /\ FreshAreAnnounced

\* What was lost stays lost.
LEMMA LostStaysLost ==
    ASSUME TypeOK, [Next]_vars, NothingLost'
    PROVE  NothingLost /\ UNCHANGED <<lostPosts, failures, tickFailures>>
<1>1. lostPosts \in Nat /\ failures \in Nat /\ tickFailures \in Nat
  BY DEF TypeOK
<1>2. /\ lostPosts' \in {lostPosts, lostPosts + 1}
      /\ failures' \in {failures, failures + 1}
      /\ tickFailures' \in {tickFailures, tickFailures + 1}
  BY DEF Next, Request, DedupedRequest, Refresh, DeliverPost, LosePost, TickInsert, BecomeDue,
     TickNotify, TickFail, Shutdown, ShutdownNotify, Step, DrainFails, Top, Connect, CheckStop,
     ClaimRow, Finish, ClaimNone, CheckStopAgain, Wait, Timeout, Clear, Goto, Insert, queue,
     web, scheduler, vars
<1> QED BY <1>1, <1>2 DEF NothingLost

\* The steps of the web, the scheduler and the clock, which insert the rows and
\* make them due.
LEMMA KeyAnnounces ==
    ASSUME IInv, FInv, NEW k \in Keys,
           \/ Request(k) \/ DedupedRequest(k) \/ Refresh(k) \/ DeliverPost(k)
           \/ LosePost(k) \/ TickInsert(k) \/ BecomeDue(k),
           NothingLost' => NothingLost /\ UNCHANGED <<lostPosts, failures, tickFailures>>
    PROVE  FInv'
<1> USE DEF FInv, DueKeys
<1>1. TypeOK /\ row \in [Keys -> Rows]
  BY DEF IInv, TypeOK
<1>2. RetriedIsLive' /\ IgnoredIsDue'
  BY <1>1 DEF RetriedIsLive, IgnoredIsDue, Request, DedupedRequest, Refresh, DeliverPost, LosePost,
     TickInsert, BecomeDue, Insert, queue, history
<1>3. FreshAreAnnounced'
  <2> SUFFICES ASSUME NothingLost', NEW l \in Keys, row'[l] = "queued", l \notin retried',
                      l \notin RefreshKeys
               PROVE  l \in posts' \cup ticking' \cup notified'
    BY DEF FreshAreAnnounced, Fresh
  <2>1. row[l] = "queued" /\ l \notin retried => l \in posts \cup ticking \cup notified
    BY DEF FreshAreAnnounced, Fresh
  <2>2. CASE Request(k) \/ Refresh(k) \/ TickInsert(k)
    BY <1>1, <2>1, <2>2 DEF Request, Refresh, TickInsert, Insert, web, scheduler, history
  <2>3. CASE DeliverPost(k)
    BY <2>1, <2>3 DEF DeliverPost, queue, scheduler
  <2>4. CASE DedupedRequest(k)
    BY <2>1, <2>4 DEF DedupedRequest, queue, web, scheduler
  <2>5. CASE BecomeDue(k)
    BY <1>1, <2>1, <2>5 DEF BecomeDue, RetriedIsLive, web, scheduler, history
  <2>6. ~LosePost(k)
    BY <1>1 DEF LosePost, TypeOK
  <2> QED BY <2>2, <2>3, <2>4, <2>5, <2>6
<1> QED BY <1>2, <1>3

\* A step that leaves the rows and what announces them alone, but for rows
\* taken out of the queue.
LEMMA OtherAnnounces ==
    ASSUME IInv, FInv,
           \/ TickNotify \/ TickFail \/ Shutdown \/ ShutdownNotify \/ UNCHANGED vars
           \/ \E c \in Consumers : Step(c) \/ DrainFails(c),
           NothingLost' => NothingLost /\ UNCHANGED <<lostPosts, failures, tickFailures>>
    PROVE  FInv'
<1> USE DEF FInv, DueKeys
<1>1. TypeOK /\ row \in [Keys -> Rows] /\ retried \subseteq Keys
  BY DEF IInv, TypeOK
<1>2. CASE TickNotify
  BY <1>2 DEF TickNotify, RetriedIsLive, IgnoredIsDue, FreshAreAnnounced, Fresh, queue, web
<1>3. CASE TickFail
  <2>1. ~NothingLost'
    BY <1>1, <1>3 DEF TickFail, TypeOK
  <2> QED
    BY <1>3, <2>1 DEF TickFail, RetriedIsLive, IgnoredIsDue, FreshAreAnnounced, queue, history
<1>4. ASSUME NEW c \in Consumers, DrainFails(c)
      PROVE  FInv'
  <2>1. ~NothingLost'
    BY <1>1, <1>4 DEF DrainFails, TypeOK
  <2> QED
    BY <1>4, <2>1 DEF DrainFails, RetriedIsLive, IgnoredIsDue, FreshAreAnnounced, queue
<1>5. ASSUME NEW c \in Consumers, NEW k \in Keys, ClaimRow(c, k)
      PROVE  FInv'
  BY <1>1, <1>5 DEF ClaimRow, RetriedIsLive, IgnoredIsDue, FreshAreAnnounced, Fresh, NothingLost,
     web, scheduler
<1>6. ASSUME NEW c \in Consumers, NEW k \in Keys, Finish(c, k)
      PROVE  FInv'
  <2>1. /\ row[k] = "running" /\ \A l \in Keys \ {k} : row'[l] = row[l]
        /\ \/ row'[k] = "none" /\ retried' = retried \ {k}
           \/ row'[k] = "backoff" /\ retried' = retried \cup {k}
    BY <1>1, <1>6 DEF Finish
  <2>2. UNCHANGED <<web, scheduler, history, failures>>
    BY <1>6 DEF Finish
  <2> QED
    BY <1>1, <2>1, <2>2 DEF RetriedIsLive, IgnoredIsDue, FreshAreAnnounced, Fresh, NothingLost,
       web, scheduler, history
<1>7. ASSUME UNCHANGED <<queue, web, scheduler, history, failures>>
      PROVE  FInv'
  BY <1>7 DEF RetriedIsLive, IgnoredIsDue, FreshAreAnnounced, Fresh, NothingLost, queue, web,
     scheduler, history
<1> QED
  BY <1>2, <1>3, <1>4, <1>5, <1>6, <1>7 DEF Step, Top, Connect, CheckStop, ClaimNone,
     CheckStopAgain, Wait, Timeout, Clear, Goto, Shutdown, ShutdownNotify, vars, queue, web,
     scheduler, history

LEMMA Announced == Spec => []FInv
<1>1. Init => FInv
  BY DEF Init, FInv, RetriedIsLive, IgnoredIsDue, FreshAreAnnounced, DueKeys
<1>2. IInv /\ FInv /\ [Next]_vars => FInv'
  <2> SUFFICES ASSUME IInv, FInv, [Next]_vars
               PROVE  FInv'
    OBVIOUS
  <2>1. NothingLost' => NothingLost /\ UNCHANGED <<lostPosts, failures, tickFailures>>
    BY LostStaysLost DEF IInv
  <2> QED BY <2>1, KeyAnnounces, OtherAnnounces DEF Next
<1> QED BY <1>1, <1>2, Invariance, PTL DEF Spec

\* Where DedupedRequestIsHeard holds: while nothing is lost, a request deduped
\* against a row on its first run can rely on whoever inserted that row.
FreshDedupeIsHeard ==
    NothingLost => \A k \in ignored \cap Fresh : Awake \/ stop \/ k \in posts \cup ticking

\* The comment of enqueueJob is right about every row but the retried and the
\* refreshed ones, for any number of consumers, requests and ticks.
THEOREM DedupeIsSafeOnFirstRuns == Spec => []FreshDedupeIsHeard
<1>1. IInv /\ FInv => FreshDedupeIsHeard
  BY DEF IInv, FInv, IgnoredIsDue, FreshAreAnnounced, FreshDedupeIsHeard, WakeIsNotLost
<1> QED BY <1>1, Invariance, Announced, PTL
=============================================================================

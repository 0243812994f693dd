---------------------------- MODULE BillingProofs ----------------------------
(***************************************************************************)
(* The safety properties of Billing for every number of subscriptions,     *)
(* charges, events and browser requests and every length of the cycle.     *)
(*                                                                         *)
(* PaidPlanIsPaid, ActiveIsPaid and OneLiveRow are inductive once the      *)
(* types are known; what takes work is that the dates exist: lastPaidDay   *)
(* and refreshNextCharge pick the greatest and the least of a set of       *)
(* dates, so both lemmas about them come first.                            *)
(***************************************************************************)
EXTENDS Billing, WellFoundedInduction, TLAPS

IInv == TypeOK /\ PaidPlanIsPaid /\ ActiveIsPaid /\ OneLiveRow

-----------------------------------------------------------------------------
\* Dates.

\* The relation of the library's well-founded induction is `<`.
LEMMA LessThan ==
  ASSUME NEW x \in Nat, NEW y \in Nat, x < y
  PROVE  <<x, y>> \in OpToRel(<, Nat)
<1>1. <<x, y>> \in Nat \X Nat /\ <<x, y>>[1] < <<x, y>>[2]
  OBVIOUS
<1> QED
  BY <1>1 DEF OpToRel

\* A set of naturals that is not empty has a least element.
LEMMA EarliestIsLeast ==
  ASSUME NEW D, D \subseteq Nat, D # {}
  PROVE  Earliest(D) \in D /\ \A d \in D : Earliest(D) <= d
<1>1. PICK x \in D : \A y \in D : ~ (<<y, x>> \in OpToRel(<, Nat))
  BY WFMin, NatLessThanWellFounded
<1>2. \A y \in D : x <= y
  <2> SUFFICES ASSUME NEW y \in D, y < x PROVE FALSE
    OBVIOUS
  <2> QED
    BY <1>1, LessThan
<1> QED
  BY <1>2 DEF Earliest

\* A set of integers with an upper bound has a greatest element.
LEMMA LatestIsGreatest ==
  ASSUME NEW D, D \subseteq Int, D # {}, NEW B \in Int, \A d \in D : d <= B
  PROVE  Latest(D) \in D /\ \A d \in D : d <= Latest(D)
<1> DEFINE T == {B - d : d \in D}
<1>1. T \subseteq Nat /\ T # {}
  <2>1. \A d \in D : B - d \in Nat
    OBVIOUS
  <2> QED
    BY <2>1
<1>2. PICK x \in T : \A y \in T : ~ (<<y, x>> \in OpToRel(<, Nat))
  BY <1>1, WFMin, NatLessThanWellFounded
<1>3. PICK m \in D : x = B - m
  BY <1>2
<1>4. \A d \in D : d <= m
  <2> SUFFICES ASSUME NEW d \in D PROVE d <= m
    OBVIOUS
  <2>1. B - d \in T /\ B - d \in Nat /\ x \in Nat
    BY <1>1
  <2>2. ~ (B - d < x)
    BY <2>1, <1>2, LessThan
  <2> QED
    BY <2>1, <2>2, <1>3
<1> QED
  BY <1>4 DEF Latest

\* The constants the arithmetic needs.
LEMMA Constants == Cycle \in Nat /\ 1 <= Cycle /\ LastDay \in Nat
  BY BillingAssumption DEF BillingAssumption

\* A charge is a charge of its own subscription.
LEMMA ChargesAreOf ==
  /\ \A c \in Charges : c[1] \in Subs /\ c \in ChargesOf(c[1])
  /\ \A s \in Subs : ChargesOf(s) \subseteq Charges
  /\ \A s \in Subs : \A c \in ChargesOf(s) : c[1] = s
  BY DEF Charges, ChargesOf

\* What lastPaidDay answers: a date on or after today, the end already
\* written and every month paid for, and one of the first two when there is
\* neither a paid month nor a next charge.
LEMMA LastPaidDayIs ==
  ASSUME TypeOK, NEW s \in Subs, NEW p \in [Charges -> Payments], NEW r \in Rows
  PROVE  /\ LastPaidDay(p, s, r) \in Dates
         /\ LastPaidDay(p, s, r) >= r.ends
         /\ LastPaidDay(p, s, r) >= today
         /\ \A c \in Entitled(p, s) : LastPaidDay(p, s, r) >= due[c] + Cycle - 1
         /\ Entitled(p, s) = {} /\ r.next = None =>
              LastPaidDay(p, s, r) = Latest({r.ends, today})
<1> DEFINE D == {r.ends, r.next - 1, today} \cup PaidPeriods(p, s)
           B == LastDay + 2 * Cycle
<1>1. r.ends \in Dates /\ r.next \in Dates /\ today \in Days
  BY DEF TypeOK, Rows
<1>2. \A c \in Entitled(p, s) : c \in Charges /\ due[c] \in None..(LastDay + Cycle)
  BY ChargesAreOf DEF Entitled, TypeOK
<1>3. D \subseteq Int /\ D # {} /\ B \in Int /\ \A d \in D : d <= B
  BY <1>1, <1>2, Constants DEF Dates, Days, PaidPeriods, None
<1>4. LastPaidDay(p, s, r) \in D /\ \A d \in D : d <= LastPaidDay(p, s, r)
  <2>1. Latest(D) \in D /\ \A d \in D : d <= Latest(D)
    BY <1>3, LatestIsGreatest
  <2> QED
    BY <2>1 DEF LastPaidDay
<1>5. LastPaidDay(p, s, r) \in Dates
  BY <1>1, <1>3, <1>4, Constants DEF Dates, Days, None
<1>6. \A c \in Entitled(p, s) : LastPaidDay(p, s, r) >= due[c] + Cycle - 1
  <2> SUFFICES ASSUME NEW c \in Entitled(p, s)
               PROVE  LastPaidDay(p, s, r) >= due[c] + Cycle - 1
    OBVIOUS
  <2>1. due[c] + Cycle - 1 \in D
    BY DEF PaidPeriods
  <2> QED
    BY <2>1, <1>3, <1>4, <1>5, <1>2, Constants DEF Dates, None
<1>7. ASSUME Entitled(p, s) = {}, r.next = None
      PROVE  LastPaidDay(p, s, r) = Latest({r.ends, today})
  <2>1. D = {r.ends, r.next - 1, today}
    BY <1>7 DEF PaidPeriods
  <2>2. r.next - 1 < today
    BY <1>7, <1>1 DEF None, Days
  <2>3. /\ {r.ends, today} \subseteq Int
        /\ \A d \in {r.ends, today} : d <= B
    BY <1>3
  <2>4. /\ Latest({r.ends, today}) \in {r.ends, today}
        /\ \A d \in {r.ends, today} : d <= Latest({r.ends, today})
    BY <2>3, <1>3, LatestIsGreatest
  <2>5. LastPaidDay(p, s, r) \in {r.ends, today}
    <3>1. LastPaidDay(p, s, r) >= today
      BY <1>4
    <3>2. LastPaidDay(p, s, r) \in {r.ends, r.next - 1, today}
      BY <1>4, <2>1
    <3> QED
      BY <3>1, <3>2, <2>2, <1>1 DEF Dates, Days, None
  <2>6. /\ LastPaidDay(p, s, r) <= Latest({r.ends, today})
        /\ Latest({r.ends, today}) <= LastPaidDay(p, s, r)
    BY <2>4, <2>5, <1>4
  <2>7. LastPaidDay(p, s, r) \in Int /\ Latest({r.ends, today}) \in Int
    BY <2>4, <2>5, <2>3
  <2> QED
    BY <2>6, <2>7
<1> QED
  BY <1>1, <1>3, <1>4, <1>5, <1>6, <1>7 DEF Dates, Days, None

\* A row that ended is cancelled, with the end lastPaidDay gives it.
LEMMA EndedIs ==
  ASSUME TypeOK, NEW s \in Subs, NEW p \in [Charges -> Payments], NEW r \in Rows
  PROVE  /\ Ended(p, s, r) \in Rows
         /\ Ended(p, s, r).status = "canceled"
         /\ Ended(p, s, r).ends = LastPaidDay(p, s, r)
  BY LastPaidDayIs DEF Ended, Rows, Live

\* Moving the next charge touches neither the status nor the end.
LEMMA RefreshedIs ==
  ASSUME TypeOK, NEW s \in Subs, NEW p \in [Charges -> Payments], NEW r \in Rows
  PROVE  /\ Refreshed(p, s, r) \in Rows
         /\ Refreshed(p, s, r).status = r.status
         /\ Refreshed(p, s, r).ends = r.ends
<1> DEFINE ahead == {due[c] : c \in Awaiting(p, s)} \cap {d \in Dates : d >= today}
<1>1. ahead # {} => Earliest(ahead) \in ahead
  <2>1. ahead \subseteq Nat
    BY Constants DEF Dates, None, TypeOK, Days
  <2> QED
    BY <2>1, EarliestIsLeast
<1>2. (IF ahead = {} THEN r.next ELSE Earliest(ahead)) \in Dates
  BY <1>1 DEF Rows
<1> QED
  BY <1>2 DEF Refreshed, Rows

-----------------------------------------------------------------------------
\* The invariant.

\* The account that never subscribed.
LEMMA InitInv == Init => IInv
<1> SUFFICES ASSUME Init PROVE IInv
  OBVIOUS
<1>1. TypeOK
  BY Constants DEF Init, TypeOK, Days, Dates, None, Rows, Payments, Live, Idle, NoSub
<1>2. LiveSubs = {} /\ plan = "basico" /\ \A s \in Subs : row[s].status = "none"
  BY DEF Init, LiveSubs, Live
<1> QED
  BY <1>1, <1>2 DEF IInv, PaidPlanIsPaid, ActiveIsPaid, OneLiveRow

\* What an event is about.
LEMMA EventsAre ==
  ASSUME NEW e \in Events
  PROVE  /\ e[2] \in Charges /\ e[2][1] \in Subs /\ e[2] \in ChargesOf(e[2][1])
  BY ChargesAreOf DEF Events

\* A step that leaves our tables alone keeps what is said of them.
LEMMA BooksAlone ==
  ASSUME IInv, UNCHANGED books, TypeOK'
  PROVE  IInv'
<1>1. row' = row /\ pay' = pay /\ plan' = plan
  BY DEF books
<1>2. LiveSubs' = LiveSubs /\ \A s \in Subs : Entitled(pay, s)' = Entitled(pay, s)
  BY <1>1 DEF LiveSubs, Entitled
<1> QED
  BY <1>1, <1>2 DEF IInv, PaidPlanIsPaid, ActiveIsPaid, OneLiveRow

\* Asaas and the calendar.
LEMMA ProviderStep ==
  ASSUME IInv, (\E s \in Subs : GenerateCharge(s)) \/ Tick
  PROVE  IInv'
<1>1. TypeOK
  BY DEF IInv
<1>2. CASE Tick
  <2>1. TypeOK'
    BY <1>1, <1>2, Constants DEF Tick, TypeOK, Days, provider, books, hooks
  <2> QED
    BY <1>2, <2>1, BooksAlone DEF Tick
<1>3. CASE \E s \in Subs : GenerateCharge(s)
  <2>1. PICK s \in Subs : GenerateCharge(s)
    BY <1>3
  <2>2. nextDue[s] \in Dates /\ nextDue[s] <= today + Cycle /\ today \in Days
    BY <1>1, <2>1 DEF GenerateCharge, TypeOK
  <2>3. /\ nextDue[s] \in None..(LastDay + Cycle)
        /\ nextDue[s] + Cycle \in Dates
    BY <2>2, Constants DEF Dates, Days, None
  <2>4. due' \in [Charges -> None..(LastDay + Cycle)] /\ nextDue' \in [Subs -> Dates]
    BY <1>1, <2>1, <2>3 DEF GenerateCharge, Bill, TypeOK
  <2>5. TypeOK'
    BY <1>1, <2>1, <2>4 DEF GenerateCharge, TypeOK, books, hooks
  <2> QED
    BY <2>1, <2>5, BooksAlone DEF GenerateCharge
<1> QED
  BY <1>2, <1>3

\* The steps of a request that write nothing of ours.
LEMMA RequestStep ==
  ASSUME IInv, NEW t \in Tabs,
         CheckoutFind(t) \/ CheckoutCreate(t) \/ CancelAtAsaas(t) \/ Die(t)
  PROVE  IInv'
<1>1. TypeOK
  BY DEF IInv
<1>2. None \in Dates /\ Readable \subseteq Subs
  BY Constants DEF Dates, None, Readable, LiveSubs
<1>3. CASE CheckoutFind(t)
  <2>1. TypeOK'
    BY <1>1, <1>2, <1>3 DEF CheckoutFind, Goto, TypeOK, provider, books, hooks
  <2> QED
    BY <1>3, <2>1, BooksAlone DEF CheckoutFind
<1>4. CASE CheckoutCreate(t)
  <2>1. PICK s \in Subs :
          /\ asaas' = [asaas EXCEPT ![s] = "live"]
          /\ due' = [due EXCEPT ![<<s, 1>>] = today]
          /\ nextDue' = [nextDue EXCEPT ![s] = today + Cycle]
          /\ Goto(t, "upserting", s, today + Cycle)
    BY <1>4 DEF CheckoutCreate
  <2>2. today \in None..(LastDay + Cycle) /\ today + Cycle \in Dates
    BY <1>1, Constants DEF TypeOK, Days, Dates, None
  <2>3. UNCHANGED <<today, books, hooks>>
    BY <1>4 DEF CheckoutCreate
  <2>4. TypeOK'
    BY <1>1, <2>1, <2>2, <2>3 DEF Goto, TypeOK, books, hooks
  <2> QED
    BY <2>3, <2>4, BooksAlone
<1>5. CASE CancelAtAsaas(t)
  <2>1. TypeOK'
    BY <1>1, <1>2, <1>5 DEF CancelAtAsaas, Goto, TypeOK, books, hooks
  <2> QED
    BY <1>5, <2>1, BooksAlone DEF CancelAtAsaas
<1>6. CASE Die(t)
  <2>1. TypeOK'
    BY <1>1, <1>2, <1>6 DEF Die, Goto, TypeOK, provider, books, hooks
  <2> QED
    BY <1>6, <2>1, BooksAlone DEF Die
<1> QED
  BY <1>3, <1>4, <1>5, <1>6

\* Rewriting one row and the payments of its charges: what the events and
\* the sync have in common.
LEMMA OneRowWritten ==
  ASSUME IInv, TypeOK', NEW s \in Subs, NEW r \in Rows,
         row' = [row EXCEPT ![s] = r],
         \A c \in Charges \ ChargesOf(s) : pay'[c] = pay[c],
         plan' = "pago" => \E c \in Charges : pay'[c].entitled,
         r.status \in {"active", "overdue"} => Entitled(pay', s) # {},
         r.status \in Live => LiveSubs \subseteq {s}
  PROVE  IInv'
<1>1. TypeOK /\ ActiveIsPaid /\ OneLiveRow
  BY DEF IInv
<1>2. row'[s] = r /\ \A o \in Subs \ {s} : row'[o] = row[o]
  BY <1>1 DEF TypeOK
<1>3. \A o \in Subs \ {s} : Entitled(pay', o) = Entitled(pay, o)
  BY ChargesAreOf DEF Entitled
<1>4. ActiveIsPaid'
  <2>1. \A o \in Subs : Entitled(pay, o)' = Entitled(pay', o)
    BY DEF Entitled
  <2> QED
    BY <1>1, <1>2, <1>3, <2>1 DEF ActiveIsPaid
<1>5. OneLiveRow'
  <2>1. LiveSubs' \subseteq LiveSubs \cup {s}
    BY <1>2 DEF LiveSubs
  <2>2. CASE r.status \in Live
    BY <2>1, <2>2 DEF OneLiveRow
  <2>3. CASE r.status \notin Live
    BY <1>1, <1>2, <2>3 DEF OneLiveRow, LiveSubs
  <2> QED
    BY <2>2, <2>3
<1>6. PaidPlanIsPaid'
  BY DEF PaidPlanIsPaid
<1> QED
  BY <1>4, <1>5, <1>6 DEF IInv

\* upsertSubscription.
LEMMA UpsertStep ==
  ASSUME IInv, NEW t \in Tabs, CheckoutUpsert(t)
  PROVE  IInv'
<1> DEFINE s == req[t].sub
<1>1. TypeOK /\ ActiveIsPaid /\ PaidPlanIsPaid
  BY DEF IInv
<1>2. UNCHANGED <<today, provider, pay, plan, hooks>> /\ Goto(t, "idle", NoSub, None)
  BY DEF CheckoutUpsert
<1>3. None \in Dates
  BY Constants DEF Dates, None
<1>4. req' \in [Tabs -> [at : {"idle", "creating", "upserting", "cancelling"},
                         sub : Subs \cup {NoSub}, next : Dates]]
  BY <1>1, <1>2, <1>3 DEF Goto, TypeOK
<1>5. CASE row' = row
  <2>1. TypeOK'
    BY <1>1, <1>2, <1>4, <1>5 DEF TypeOK, provider, hooks
  <2> QED
    BY <1>2, <1>5, <2>1, BooksAlone DEF books
<1>6. CASE row' # row
  <2> DEFINE r == [row[s] EXCEPT
                      !.status = IF @ \in {"active", "overdue"} THEN @ ELSE "pending",
                      !.next = req[t].next]
  <2>1. /\ ~OtherLive(s)
        /\ row' = [row EXCEPT ![s].status = IF @ \in {"active", "overdue"} THEN @ ELSE "pending",
                              ![s].next = req[t].next]
    BY <1>6 DEF CheckoutUpsert, Refused
  <2>2. s \in Subs
    BY <1>1, <1>6, <2>1 DEF TypeOK
  <2>3. row[s] \in Rows /\ req[t].next \in Dates
    BY <1>1, <2>2 DEF TypeOK
  <2>4. r \in Rows
    BY <2>3 DEF Rows, Live
  <2>5. row' = [row EXCEPT ![s] = r]
    BY <1>1, <2>1, <2>2, <2>3 DEF TypeOK, Rows
  <2>6. TypeOK'
    BY <1>1, <1>2, <1>4, <2>4, <2>5 DEF TypeOK, provider, hooks
  <2>7. r.status \in {"active", "overdue"} => r.status = row[s].status
    BY <2>3 DEF Rows
  <2>8. r.status \in {"active", "overdue"} => Entitled(pay', s) # {}
    BY <1>1, <1>2, <2>2, <2>7 DEF ActiveIsPaid
  <2>9. LiveSubs \subseteq {s}
    BY <2>1 DEF OtherLive
  <2>10. plan' = "pago" => \E c \in Charges : pay'[c].entitled
    BY <1>1, <1>2 DEF PaidPlanIsPaid
  <2> HIDE DEF r, s
  <2> QED
    BY <1>2, <2>2, <2>4, <2>5, <2>6, <2>8, <2>9, <2>10, OneRowWritten
<1> QED
  BY <1>5, <1>6

\* cancelSubscription: afterwards nothing is live.
LEMMA CancelWriteStep ==
  ASSUME IInv, NEW t \in Tabs, CancelWrite(t)
  PROVE  IInv'
<1>1. TypeOK /\ PaidPlanIsPaid
  BY DEF IInv
<1>2. UNCHANGED <<today, provider, pay, plan, hooks>> /\ Goto(t, "idle", NoSub, None)
  BY DEF CancelWrite
<1>3. None \in Dates
  BY Constants DEF Dates, None
<1>4. \A s \in Subs : Ended(pay, s, row[s]) \in Rows /\ Ended(pay, s, row[s]).status = "canceled"
  BY <1>1, EndedIs DEF TypeOK
<1>5. row' \in [Subs -> Rows] /\ \A s \in Subs : row'[s].status \notin Live
  BY <1>1, <1>4 DEF CancelWrite, TypeOK, LiveSubs, Live
<1>6. TypeOK'
  BY <1>1, <1>2, <1>3, <1>5 DEF Goto, TypeOK, provider, hooks
<1>7. ActiveIsPaid' /\ OneLiveRow'
  BY <1>5 DEF ActiveIsPaid, OneLiveRow, LiveSubs, Live
<1>8. PaidPlanIsPaid'
  BY <1>1, <1>2 DEF PaidPlanIsPaid
<1> QED
  BY <1>6, <1>7, <1>8 DEF IInv

\* SUBSCRIPTION_DELETED.
LEMMA EndStep ==
  ASSUME IInv, NEW s \in Subs, DeliverEnd(s)
  PROVE  IInv'
<1> DEFINE r == Ended(pay, s, row[s])
<1>1. TypeOK /\ PaidPlanIsPaid
  BY DEF IInv
<1>2. r \in Rows /\ r.status = "canceled"
  BY <1>1, EndedIs DEF TypeOK
<1>3. row' = [row EXCEPT ![s] = r] /\ UNCHANGED <<today, provider, pay, plan, syncing, req>>
  BY DEF DeliverEnd
<1>4. TypeOK'
  BY <1>1, <1>2, <1>3 DEF DeliverEnd, Store, EndEvents, TypeOK, provider
<1>5. plan' = "pago" => \E c \in Charges : pay'[c].entitled
  BY <1>1, <1>3 DEF PaidPlanIsPaid
<1> HIDE DEF r
<1> QED
  BY <1>2, <1>3, <1>4, <1>5, OneRowWritten DEF Live

\* The sync of the next charge.
LEMMA SyncStep ==
  ASSUME IInv, NEW s \in Subs, SyncNextCharge(s)
  PROVE  IInv'
<1>1. TypeOK /\ PaidPlanIsPaid /\ ActiveIsPaid
  BY DEF IInv
<1>2. UNCHANGED <<today, provider, pay, plan, seen, req>> /\ syncing' \subseteq Subs
  BY <1>1 DEF SyncNextCharge, TypeOK
<1>3. CASE row' = row
  <2>1. TypeOK'
    BY <1>1, <1>2, <1>3 DEF TypeOK, provider
  <2> QED
    BY <1>2, <1>3, <2>1, BooksAlone DEF books
<1>4. CASE row' # row
  <2> DEFINE r == [row[s] EXCEPT !.next = nextDue[s]]
  <2>1. s \in LiveSubs /\ row' = [row EXCEPT ![s].next = nextDue[s]]
    BY <1>4 DEF SyncNextCharge
  <2>2. row[s] \in Rows /\ nextDue[s] \in Dates
    BY <1>1 DEF TypeOK
  <2>3. r \in Rows /\ r.status = row[s].status
    BY <2>2 DEF Rows
  <2>4. row' = [row EXCEPT ![s] = r]
    BY <1>1, <2>1, <2>2 DEF TypeOK, Rows
  <2>5. TypeOK'
    BY <1>1, <1>2, <2>3, <2>4 DEF TypeOK, provider
  <2>6. LiveSubs \subseteq {s}
    BY <2>1 DEF IInv, OneLiveRow
  <2>7. r.status \in {"active", "overdue"} => Entitled(pay', s) # {}
    BY <1>1, <1>2, <2>3 DEF ActiveIsPaid
  <2>8. plan' = "pago" => \E c \in Charges : pay'[c].entitled
    BY <1>1, <1>2 DEF PaidPlanIsPaid
  <2> HIDE DEF r
  <2> QED
    BY <1>2, <2>3, <2>4, <2>5, <2>6, <2>7, <2>8, OneRowWritten
<1> QED
  BY <1>3, <1>4

\* The downgrade.
LEMMA ExpireStep ==
  ASSUME IInv, Expire
  PROVE  IInv'
<1>1. TypeOK'
  BY DEF IInv, Expire, TypeOK, provider, hooks
<1>2. plan' = "basico" /\ row' = row /\ pay' = pay
  BY DEF Expire
<1> QED
  BY <1>1, <1>2 DEF IInv, PaidPlanIsPaid, ActiveIsPaid, OneLiveRow, LiveSubs, Entitled

\* upsertPayment writes one payment and never its entitlement.
LEMMA RecordedIs ==
  ASSUME TypeOK, NEW c \in Charges, NEW status \in {"PENDING", "OVERDUE", "SETTLED", "REFUNDED"}
  PROVE  /\ Recorded(c, status) \in [Charges -> Payments]
         /\ \A d \in Charges \ {c} : Recorded(c, status)[d] = pay[d]
         /\ Recorded(c, status)[c].entitled = pay[c].entitled
  BY DEF Recorded, TypeOK, Payments

\* The same with the entitlement given or taken.
LEMMA ClaimedIs ==
  ASSUME TypeOK, NEW c \in Charges, NEW status \in {"PENDING", "OVERDUE", "SETTLED", "REFUNDED"},
         NEW b \in BOOLEAN
  PROVE  /\ Claimed(c, status, b) \in [Charges -> Payments]
         /\ \A d \in Charges \ {c} : Claimed(c, status, b)[d] = pay[d]
         /\ Claimed(c, status, b)[c].entitled = b
<1>1. /\ Recorded(c, status) \in [Charges -> Payments]
      /\ \A d \in Charges \ {c} : Recorded(c, status)[d] = pay[d]
  BY RecordedIs
<1> DEFINE q == Recorded(c, status)
<1>2. q[c] \in Payments /\ [q[c] EXCEPT !.entitled = b] \in Payments
      /\ [q[c] EXCEPT !.entitled = b].entitled = b
  BY <1>1 DEF Payments
<1>3. Claimed(c, status, b) = [q EXCEPT ![c] = [q[c] EXCEPT !.entitled = b]]
  BY DEF Claimed
<1> HIDE DEF q
<1> QED
  BY <1>1, <1>2, <1>3 DEF q

\* PAYMENT_CREATED, PAYMENT_OVERDUE.
LEMMA RecordStep ==
  ASSUME IInv, NEW e \in Events, DeliverRecord(e)
  PROVE  IInv'
<1> DEFINE s == e[2][1]
           c == e[2]
           r == Refreshed(pay', s, Overdue(e, row[s]))
<1>1. TypeOK /\ PaidPlanIsPaid /\ ActiveIsPaid /\ OneLiveRow
  BY DEF IInv
<1>2. s \in Subs /\ c \in ChargesOf(s) /\ c \in Charges
  BY EventsAre
<1>3. /\ row' = [row EXCEPT ![s] = r]
      /\ UNCHANGED <<today, provider, plan, syncing, req>>
      /\ seen' = seen \cup {e}
  BY DEF DeliverRecord, Known, Store
<1>4. /\ pay' \in [Charges -> Payments]
      /\ \A d \in Charges \ {c} : pay'[d] = pay[d]
      /\ pay'[c].entitled = pay[c].entitled
  BY <1>1, <1>2, RecordedIs DEF DeliverRecord
<1>5. Overdue(e, row[s]) \in Rows
  BY <1>1, <1>2 DEF Overdue, Rows, TypeOK, Live
<1>6. r \in Rows /\ r.status = Overdue(e, row[s]).status
  BY <1>1, <1>2, <1>4, <1>5, RefreshedIs
<1>7. /\ r.status \in {"active", "overdue"} => row[s].status \in {"active", "overdue"}
      /\ r.status \in Live => row[s].status \in Live
  BY <1>1, <1>2, <1>6 DEF Overdue, Live, TypeOK, Rows
<1>8. \A d \in Charges : pay'[d].entitled = pay[d].entitled
  BY <1>4
<1>9. Entitled(pay', s) = Entitled(pay, s)
  BY <1>2, <1>8, ChargesAreOf DEF Entitled
<1>10. TypeOK'
  BY <1>1, <1>3, <1>4, <1>6 DEF TypeOK, provider
<1>11. r.status \in {"active", "overdue"} => Entitled(pay', s) # {}
  BY <1>1, <1>2, <1>7, <1>9 DEF ActiveIsPaid
<1>12. r.status \in Live => LiveSubs \subseteq {s}
  BY <1>1, <1>2, <1>7 DEF OneLiveRow, LiveSubs
<1>13. plan' = "pago" => \E d \in Charges : pay'[d].entitled
  BY <1>1, <1>3, <1>8 DEF PaidPlanIsPaid
<1>14. \A d \in Charges \ ChargesOf(s) : pay'[d] = pay[d]
  BY <1>2, <1>4
<1> HIDE DEF r, s, c
<1> QED
  BY <1>2, <1>3, <1>6, <1>10, <1>11, <1>12, <1>13, <1>14, OneRowWritten

\* A refund: either another paid month of the subscription stands, or its row
\* ends and the plan goes with it.
LEMMA RevokeStep ==
  ASSUME IInv, NEW e \in Events, DeliverRevoke(e)
  PROVE  IInv'
<1> DEFINE s == e[2][1]
           c == e[2]
           cleared == ClearNextCharge(row[s])
           r == IF StillEntitled(pay', s) THEN Refreshed(pay', s, row[s])
                ELSE Refreshed(pay', s, Ended(pay', s, cleared))
<1>1. TypeOK /\ PaidPlanIsPaid /\ ActiveIsPaid /\ OneLiveRow
  BY DEF IInv
<1>2. s \in Subs /\ c \in ChargesOf(s) /\ c \in Charges
  BY EventsAre
<1>3. /\ pay' = Claimed(c, "REFUNDED", FALSE)
      /\ UNCHANGED <<today, provider, syncing, req>>
      /\ seen' = seen \cup {e}
  BY DEF DeliverRevoke, Known, Store
<1>4. /\ pay' \in [Charges -> Payments]
      /\ \A d \in Charges \ {c} : pay'[d] = pay[d]
  BY <1>1, <1>2, <1>3, ClaimedIs
<1>5. /\ row' = [row EXCEPT ![s] = r]
      /\ StillEntitled(pay', s) => plan' = plan
      /\ ~StillEntitled(pay', s) => plan' = "basico"
  BY <1>3 DEF DeliverRevoke, Downgraded
<1>6. row[s] \in Rows /\ cleared \in Rows
  BY <1>1, <1>2, Constants DEF TypeOK, ClearNextCharge, Rows, Dates, None
<1>7. /\ r \in Rows
      /\ StillEntitled(pay', s) => r.status = row[s].status
      /\ ~StillEntitled(pay', s) => r.status = "canceled"
  <2>1. CASE StillEntitled(pay', s)
    BY <1>1, <1>2, <1>4, <1>6, <2>1, RefreshedIs
  <2>2. CASE ~StillEntitled(pay', s)
    <3>1. Ended(pay', s, cleared) \in Rows /\ Ended(pay', s, cleared).status = "canceled"
      BY <1>1, <1>2, <1>4, <1>6, EndedIs
    <3> HIDE DEF cleared
    <3> QED
      BY <1>1, <1>2, <1>4, <2>2, <3>1, RefreshedIs
  <2> QED
    BY <2>1, <2>2
<1>8. plan' \in {"basico", "pago"}
  BY <1>1, <1>5 DEF TypeOK
<1>9. TypeOK'
  BY <1>1, <1>3, <1>4, <1>5, <1>7, <1>8 DEF TypeOK, provider
<1>10. r.status \in {"active", "overdue"} => Entitled(pay', s) # {}
  BY <1>7 DEF StillEntitled
<1>11. r.status \in Live => LiveSubs \subseteq {s}
  BY <1>1, <1>2, <1>7 DEF OneLiveRow, LiveSubs, Live
<1>12. plan' = "pago" => \E d \in Charges : pay'[d].entitled
  BY <1>2, <1>5, ChargesAreOf DEF StillEntitled, Entitled
<1>13. \A d \in Charges \ ChargesOf(s) : pay'[d] = pay[d]
  BY <1>2, <1>4
<1> HIDE DEF r, s, c
<1> QED
  BY <1>2, <1>5, <1>7, <1>9, <1>10, <1>11, <1>12, <1>13, OneRowWritten

\* A grant: the claim comes with the plan, and activates the only live row.
LEMMA GrantStep ==
  ASSUME IInv, NEW e \in Events, DeliverGrant(e)
  PROVE  IInv'
<1> DEFINE s == e[2][1]
           c == e[2]
           r == IF pay[c].entitled THEN row[s]
                ELSE IF Stale(s) THEN Refreshed(pay', s, row[s])
                ELSE Refreshed(pay', s, Activated(pay', s, row[s]))
<1>1. TypeOK /\ PaidPlanIsPaid /\ ActiveIsPaid /\ OneLiveRow
  BY DEF IInv
<1>2. s \in Subs /\ c \in ChargesOf(s) /\ c \in Charges
  BY EventsAre
<1>3. /\ pay' = Claimed(c, "SETTLED", TRUE)
      /\ UNCHANGED <<today, provider, req>>
      /\ seen' = seen \cup {e} /\ syncing' = syncing \cup {s}
  BY DEF DeliverGrant, Known, Store
<1>4. /\ pay' \in [Charges -> Payments]
      /\ \A d \in Charges \ {c} : pay'[d] = pay[d]
      /\ pay'[c].entitled
  BY <1>1, <1>2, <1>3, ClaimedIs
<1>5. row[s] \in Rows
  BY <1>1, <1>2 DEF TypeOK
<1>6. row' = [row EXCEPT ![s] = r] /\ plan' \in {plan, "pago"}
  BY <1>1, <1>2, <1>3 DEF DeliverGrant, TypeOK
<1>7. /\ r \in Rows
      /\ r.status \in {row[s].status, "active"}
      /\ r.status # row[s].status => ~Stale(s)
  <2>1. /\ Activated(pay', s, row[s]) \in Rows
        /\ Activated(pay', s, row[s]).status \in {row[s].status, "active"}
    <3>1. CASE row[s].status = "canceled"
      <4>1. /\ Ended(pay', s, row[s]) \in Rows
            /\ Ended(pay', s, row[s]).status = "canceled"
        BY <1>1, <1>2, <1>4, <1>5, EndedIs
      <4> QED
        BY <3>1, <4>1 DEF Activated
    <3>2. CASE row[s].status # "canceled"
      <4>1. None \in Dates
        BY Constants DEF Dates, None
      <4>2. Activated(pay', s, row[s]) = [row[s] EXCEPT !.status = "active", !.ends = None]
        BY <3>2 DEF Activated
      <4> QED
        BY <1>5, <4>1, <4>2 DEF Rows, Live
    <3> QED
      BY <3>1, <3>2
  <2>2. /\ Refreshed(pay', s, row[s]) \in Rows
        /\ Refreshed(pay', s, row[s]).status = row[s].status
    BY <1>1, <1>2, <1>4, <1>5, RefreshedIs
  <2>3. /\ Refreshed(pay', s, Activated(pay', s, row[s])) \in Rows
        /\ Refreshed(pay', s, Activated(pay', s, row[s])).status
              = Activated(pay', s, row[s]).status
    BY <1>1, <1>2, <1>4, <2>1, RefreshedIs
  <2> QED
    BY <1>5, <2>1, <2>2, <2>3
<1>8. plan' \in {"basico", "pago"}
  BY <1>1, <1>6 DEF TypeOK
<1>9. TypeOK'
  BY <1>1, <1>2, <1>3, <1>4, <1>6, <1>7, <1>8 DEF TypeOK, provider
<1>10. Entitled(pay', s) # {} /\ \E d \in Charges : pay'[d].entitled
  BY <1>2, <1>4 DEF Entitled
<1>11. r.status \in Live => LiveSubs \subseteq {s}
  BY <1>1, <1>2, <1>7 DEF OneLiveRow, LiveSubs, Stale, OtherLive
<1>12. \A d \in Charges \ ChargesOf(s) : pay'[d] = pay[d]
  BY <1>2, <1>4
<1> HIDE DEF r, s, c
<1> QED
  BY <1>2, <1>6, <1>7, <1>9, <1>10, <1>11, <1>12, OneRowWritten

LEMMA NextInv == IInv /\ [Next]_vars => IInv'
<1> SUFFICES ASSUME IInv, [Next]_vars PROVE IInv'
  OBVIOUS
<1>1. CASE UNCHANGED vars
  <2>1. TypeOK' /\ UNCHANGED books
    BY <1>1 DEF IInv, TypeOK, vars, books
  <2> QED
    BY <2>1, BooksAlone
<1>2. CASE Next
  BY <1>2, ProviderStep, RequestStep, UpsertStep, CancelWriteStep, EndStep, SyncStep,
     RecordStep, RevokeStep, GrantStep, ExpireStep DEF Next
<1> QED
  BY <1>1, <1>2

LEMMA Inductive == Spec => []IInv
  BY InitInv, NextInv, PTL DEF Spec

\* Every column of the billing tables holds a value it may hold.
THEOREM BillingTypes == Spec => []TypeOK
  BY Inductive, PTL DEF IInv

\* A paid plan always rests on a payment that still entitles somebody.
THEOREM PlanIsPaid == Spec => []PaidPlanIsPaid
  BY Inductive, PTL DEF IInv

\* An active or overdue subscription has a settled payment of its own.
THEOREM ActiveSubscriptionIsPaid == Spec => []ActiveIsPaid
  BY Inductive, PTL DEF IInv

\* No order of checkouts and webhooks gives an account two live rows.
THEOREM AtMostOneLiveRow == Spec => []OneLiveRow
  BY Inductive, PTL DEF IInv

-----------------------------------------------------------------------------
\* The ends of cancelled rows.

\* A step that leaves the rows alone moves no end.
LEMMA RowsAloneKept ==
  ASSUME TypeOK, row' = row
  PROVE  \A s \in Subs : KeepsPaidMonths(s)
<1>1. \A s \in Subs : row[s].ends \in Int
  BY DEF TypeOK, Rows, Dates, None
<1> QED
  BY <1>1 DEF KeepsPaidMonths

\* A step that writes one row keeps its paid months when what it writes is
\* not cancelled, or keeps status and end, or is an ended row.
LEMMA OneRowKept ==
  ASSUME TypeOK, NEW s \in Subs, NEW r \in Rows,
         pay' \in [Charges -> Payments],
         row' = [row EXCEPT ![s] = r],
         \/ r.status # "canceled"
         \/ r.status = row[s].status /\ r.ends = row[s].ends
         \/ \E q \in Rows : /\ q.ends = row[s].ends
                            /\ r.ends = Ended(pay', s, q).ends
  PROVE  \A o \in Subs : KeepsPaidMonths(o)
<1>1. row'[s] = r /\ \A o \in Subs \ {s} : row'[o] = row[o]
  BY DEF TypeOK
<1>2. \A o \in Subs : row[o].ends \in Int
  BY DEF TypeOK, Rows, Dates, None
<1>3. \A o \in Subs \ {s} : KeepsPaidMonths(o)
  BY <1>1, <1>2 DEF KeepsPaidMonths
<1>4. CASE r.status # "canceled"
  BY <1>1, <1>3, <1>4 DEF KeepsPaidMonths
<1>5. CASE r.status = row[s].status /\ r.ends = row[s].ends
  BY <1>1, <1>2, <1>3, <1>5 DEF KeepsPaidMonths
<1>6. CASE \E q \in Rows : q.ends = row[s].ends /\ r.ends = Ended(pay', s, q).ends
  <2>1. PICK q \in Rows : q.ends = row[s].ends /\ r.ends = Ended(pay', s, q).ends
    BY <1>6
  <2>2. r.ends = LastPaidDay(pay', s, q)
    BY <2>1, EndedIs
  <2>3. /\ r.ends >= row[s].ends
        /\ \A c \in Entitled(pay', s) : r.ends >= due[c] + Cycle - 1
    BY <2>1, <2>2, LastPaidDayIs
  <2>4. KeepsPaidMonths(s)
    BY <1>1, <2>3 DEF KeepsPaidMonths
  <2> QED
    BY <1>3, <2>4
<1> QED
  BY <1>4, <1>5, <1>6

LEMMA NextKeepsPaidMonths ==
  ASSUME IInv, TypeOK', [Next]_vars
  PROVE  \A s \in Subs : KeepsPaidMonths(s)
<1> USE DEF IInv
<1>1. TypeOK /\ pay' \in [Charges -> Payments]
  BY DEF TypeOK
<1>2. CASE row' = row
  BY <1>1, <1>2, RowsAloneKept
<1>3. ASSUME NEW t \in Tabs, CheckoutUpsert(t), row' # row
      PROVE  \A s \in Subs : KeepsPaidMonths(s)
  <2> DEFINE s == req[t].sub
  <2>1. row' = [row EXCEPT ![s].status = IF @ \in {"active", "overdue"} THEN @ ELSE "pending",
                           ![s].next = req[t].next]
    BY <1>3 DEF CheckoutUpsert
  <2>2. s \in Subs
    BY <1>1, <1>3, <2>1 DEF TypeOK
  <2>3. row'[s].status # "canceled" /\ row' = [row EXCEPT ![s] = row'[s]] /\ row'[s] \in Rows
    BY <1>1, <2>1, <2>2 DEF TypeOK, Rows
  <2> HIDE DEF s
  <2> QED
    BY <1>1, <2>2, <2>3, OneRowKept
<1>4. ASSUME NEW t \in Tabs, CancelWrite(t)
      PROVE  \A s \in Subs : KeepsPaidMonths(s)
  <2> SUFFICES ASSUME NEW s \in Subs PROVE KeepsPaidMonths(s)
    OBVIOUS
  <2>1. row'[s] = IF s \in LiveSubs THEN Ended(pay, s, row[s]) ELSE row[s]
    BY <1>4 DEF CancelWrite
  <2>2. row[s] \in Rows /\ row[s].ends \in Int /\ pay' = pay
    BY <1>1, <1>4 DEF TypeOK, Rows, Dates, None, CancelWrite
  <2>3. /\ Ended(pay, s, row[s]).ends >= row[s].ends
        /\ \A c \in Entitled(pay, s) : Ended(pay, s, row[s]).ends >= due[c] + Cycle - 1
    <3>1. row[s] \in Rows /\ pay \in [Charges -> Payments]
      BY <1>1 DEF TypeOK
    <3>2. Ended(pay, s, row[s]).ends = LastPaidDay(pay, s, row[s])
      BY <1>1, <3>1, EndedIs
    <3> QED
      BY <1>1, <3>1, <3>2, LastPaidDayIs
  <2> QED
    BY <2>1, <2>2, <2>3 DEF KeepsPaidMonths
<1>5. ASSUME NEW s \in Subs, DeliverEnd(s)
      PROVE  \A o \in Subs : KeepsPaidMonths(o)
  <2>1. row' = [row EXCEPT ![s] = Ended(pay', s, row[s])] /\ row[s] \in Rows
    BY <1>1, <1>5 DEF DeliverEnd, TypeOK
  <2>2. Ended(pay', s, row[s]) \in Rows
    BY <1>1, <2>1, EndedIs
  <2> QED
    BY <1>1, <2>1, <2>2, OneRowKept
<1>6. ASSUME NEW s \in Subs, SyncNextCharge(s), row' # row
      PROVE  \A o \in Subs : KeepsPaidMonths(o)
  <2>1. s \in LiveSubs /\ row' = [row EXCEPT ![s].next = nextDue[s]]
    BY <1>6 DEF SyncNextCharge
  <2>2. row'[s].status # "canceled" /\ row' = [row EXCEPT ![s] = row'[s]] /\ row'[s] \in Rows
    BY <1>1, <2>1 DEF TypeOK, Rows, LiveSubs, Live
  <2> QED
    BY <1>1, <2>2, OneRowKept
<1>7. ASSUME NEW e \in Events, DeliverRecord(e)
      PROVE  \A o \in Subs : KeepsPaidMonths(o)
  <2> DEFINE s == e[2][1]
             r == Refreshed(pay', s, Overdue(e, row[s]))
  <2>1. s \in Subs /\ row' = [row EXCEPT ![s] = r] /\ row[s] \in Rows
    BY <1>1, <1>7, EventsAre DEF DeliverRecord, TypeOK
  <2>2. /\ Overdue(e, row[s]) \in Rows
        /\ Overdue(e, row[s]).ends = row[s].ends
        /\ Overdue(e, row[s]).status \in {row[s].status, "overdue"}
    BY <2>1 DEF Overdue, Rows, Live
  <2>3. r \in Rows /\ r.ends = row[s].ends /\ r.status \in {row[s].status, "overdue"}
    BY <1>1, <2>1, <2>2, RefreshedIs
  <2> HIDE DEF r, s
  <2> QED
    BY <1>1, <2>1, <2>3, OneRowKept
<1>8. ASSUME NEW e \in Events, DeliverRevoke(e)
      PROVE  \A o \in Subs : KeepsPaidMonths(o)
  <2> DEFINE s == e[2][1]
             cleared == ClearNextCharge(row[s])
             ended == Ended(pay', s, cleared)
  <2>1. s \in Subs /\ row[s] \in Rows
    BY <1>1, EventsAre DEF TypeOK
  <2>2. cleared \in Rows /\ cleared.ends = row[s].ends
    BY <2>1, Constants DEF ClearNextCharge, Rows, Dates, None
  <2>3. ended \in Rows
    BY <1>1, <2>1, <2>2, EndedIs
  <2>4. /\ Refreshed(pay', s, row[s]) \in Rows
        /\ Refreshed(pay', s, row[s]).status = row[s].status
        /\ Refreshed(pay', s, row[s]).ends = row[s].ends
        /\ Refreshed(pay', s, ended) \in Rows
        /\ Refreshed(pay', s, ended).ends = ended.ends
    BY <1>1, <2>1, <2>3, RefreshedIs
  <2>5. \/ row' = [row EXCEPT ![s] = Refreshed(pay', s, row[s])]
        \/ row' = [row EXCEPT ![s] = Refreshed(pay', s, ended)]
    BY <1>8 DEF DeliverRevoke
  <2>6. CASE row' = [row EXCEPT ![s] = Refreshed(pay', s, row[s])]
    BY <1>1, <2>1, <2>4, <2>6, OneRowKept
  <2>7. CASE row' = [row EXCEPT ![s] = Refreshed(pay', s, ended)]
    <3> HIDE DEF s, cleared
    <3> QED
      BY <1>1, <2>1, <2>2, <2>4, <2>7, OneRowKept
  <2> QED
    BY <2>5, <2>6, <2>7
<1>9. ASSUME NEW e \in Events, DeliverGrant(e), row' # row
      PROVE  \A o \in Subs : KeepsPaidMonths(o)
  <2> DEFINE s == e[2][1]
             act == Activated(pay', s, row[s])
  <2>1. s \in Subs /\ row[s] \in Rows
    BY <1>1, EventsAre DEF TypeOK
  <2>2. CASE row' = [row EXCEPT ![s] = Refreshed(pay', s, row[s])]
    <3>1. /\ Refreshed(pay', s, row[s]) \in Rows
          /\ Refreshed(pay', s, row[s]).status = row[s].status
          /\ Refreshed(pay', s, row[s]).ends = row[s].ends
      BY <1>1, <2>1, RefreshedIs
    <3> QED
      BY <1>1, <2>1, <2>2, <3>1, OneRowKept
  <2>3. CASE row' = [row EXCEPT ![s] = Refreshed(pay', s, act)]
    <3>1. \/ act = Ended(pay', s, row[s])
          \/ act = [row[s] EXCEPT !.status = "active", !.ends = None]
      BY DEF Activated
    <3>2. act \in Rows
      <4>1. Ended(pay', s, row[s]) \in Rows
        BY <1>1, <2>1, EndedIs
      <4>2. [row[s] EXCEPT !.status = "active", !.ends = None] \in Rows
        <5>1. None \in Dates
          BY Constants DEF Dates, None
        <5> QED
          BY <2>1, <5>1 DEF Rows, Live
      <4> QED
        BY <3>1, <4>1, <4>2
    <3>3. \/ act.status # "canceled"
          \/ act.ends = Ended(pay', s, row[s]).ends
      BY <2>1, <3>1 DEF Rows
    <3>4. /\ Refreshed(pay', s, act) \in Rows
          /\ Refreshed(pay', s, act).status = act.status
          /\ Refreshed(pay', s, act).ends = act.ends
      BY <1>1, <2>1, <3>2, RefreshedIs
    <3> HIDE DEF s, act
    <3> QED
      BY <1>1, <2>1, <2>3, <3>3, <3>4, OneRowKept
  <2> QED
    BY <1>9, <2>2, <2>3 DEF DeliverGrant
<1>10. ASSUME \/ UNCHANGED vars \/ Tick \/ Expire \/ \E s \in Subs : GenerateCharge(s)
              \/ \E t \in Tabs : CheckoutFind(t) \/ CheckoutCreate(t) \/ CancelAtAsaas(t) \/ Die(t)
       PROVE  row' = row
  BY <1>10 DEF vars, Tick, Expire, GenerateCharge, CheckoutFind, CheckoutCreate,
               CancelAtAsaas, Die, books
<1> QED
  BY <1>2, <1>3, <1>4, <1>5, <1>6, <1>7, <1>8, <1>9, <1>10 DEF Next

\* Whatever ends a row honours every month paid for, and the end of a
\* cancelled row never moves back.
THEOREM EndsHonourPaidMonths == Spec => PaidMonthsAreKept
<1>1. IInv /\ IInv' /\ [Next]_vars => [\A s \in Subs : KeepsPaidMonths(s)]_vars
  BY NextKeepsPaidMonths DEF IInv
<1> QED
  BY <1>1, Inductive, PTL DEF Spec, PaidMonthsAreKept

\* A refund that takes the last paid month of a subscription ends its row
\* today, or on the day it was already told, and never later.
LEMMA NextEndsWithoutPromise ==
  ASSUME IInv, TypeOK', [Next]_vars
  PROVE  \A s \in Subs : EndsWithoutPromise(s)
<1>1. TypeOK /\ pay' \in [Charges -> Payments]
  BY DEF IInv, TypeOK
<1>2. CASE \A c \in Charges : pay[c].entitled => pay'[c].entitled
  <2>1. \A s \in Subs : Entitled(pay, s) \subseteq Entitled(pay', s)
    BY <1>2, ChargesAreOf DEF Entitled
  <2> QED
    BY <2>1 DEF EndsWithoutPromise
<1>3. ASSUME NEW e \in Events, DeliverRevoke(e)
      PROVE  \A s \in Subs : EndsWithoutPromise(s)
  <2> DEFINE s == e[2][1]
             c == e[2]
             cleared == ClearNextCharge(row[s])
             ended == Ended(pay', s, cleared)
  <2>1. s \in Subs /\ c \in Charges /\ c \in ChargesOf(s) /\ row[s] \in Rows
    BY <1>1, EventsAre DEF TypeOK
  <2>2. \A d \in Charges \ {c} : pay'[d] = pay[d]
    BY <1>1, <1>3, <2>1, ClaimedIs DEF DeliverRevoke
  <2>3. \A o \in Subs \ {s} : Entitled(pay', o) = Entitled(pay, o)
    BY <2>1, <2>2, ChargesAreOf DEF Entitled
  <2>4. ASSUME Entitled(pay', s) = {}
        PROVE  row'[s].ends = Latest({row[s].ends, today})
    <3>1. row' = [row EXCEPT ![s] = Refreshed(pay', s, ended)]
      BY <1>3, <2>4 DEF DeliverRevoke, StillEntitled
    <3>2. cleared \in Rows /\ cleared.ends = row[s].ends /\ cleared.next = None
      BY <2>1, Constants DEF ClearNextCharge, Rows, Dates, None
    <3>3. ended \in Rows /\ ended.ends = LastPaidDay(pay', s, cleared)
      BY <1>1, <2>1, <3>2, EndedIs
    <3>4. Refreshed(pay', s, ended).ends = ended.ends
      BY <1>1, <2>1, <3>3, RefreshedIs
    <3>5. LastPaidDay(pay', s, cleared) = Latest({row[s].ends, today})
      <4> HIDE DEF cleared
      <4>1. LastPaidDay(pay', s, cleared) = Latest({cleared.ends, today})
        BY <1>1, <2>1, <2>4, <3>2, LastPaidDayIs
      <4> QED
        BY <4>1, <3>2
    <3>6. row'[s] = Refreshed(pay', s, ended)
      BY <1>1, <2>1, <3>1 DEF TypeOK
    <3> HIDE DEF s, cleared, ended
    <3> QED
      BY <3>3, <3>4, <3>5, <3>6
  <2> HIDE DEF s
  <2> QED
    BY <2>3, <2>4 DEF EndsWithoutPromise
<1>4. ASSUME NEW e \in Events, DeliverRecord(e) \/ DeliverGrant(e)
      PROVE  \A c \in Charges : pay[c].entitled => pay'[c].entitled
  <2> DEFINE c == e[2]
  <2>1. c \in Charges
    BY EventsAre
  <2>2. CASE DeliverRecord(e)
    <3>1. pay' = Recorded(c, "PENDING") \/ pay' = Recorded(c, "OVERDUE")
      BY <2>2 DEF DeliverRecord
    <3>2. /\ \A d \in Charges \ {c} : pay'[d] = pay[d]
          /\ pay'[c].entitled = pay[c].entitled
      BY <1>1, <2>1, <3>1, RecordedIs
    <3> HIDE DEF c
    <3> QED
      BY <3>2
  <2>3. CASE DeliverGrant(e)
    <3>1. pay' = Claimed(c, "SETTLED", TRUE)
      BY <2>3 DEF DeliverGrant
    <3>2. /\ \A d \in Charges \ {c} : pay'[d] = pay[d]
          /\ pay'[c].entitled = TRUE
      BY <1>1, <2>1, <3>1, ClaimedIs
    <3> HIDE DEF c
    <3> QED
      BY <3>2
  <2> QED
    BY <1>4, <2>2, <2>3
<1>5. ASSUME \/ UNCHANGED vars \/ Tick \/ Expire
             \/ \E s \in Subs : GenerateCharge(s) \/ DeliverEnd(s) \/ SyncNextCharge(s)
             \/ \E t \in Tabs : \/ CheckoutFind(t) \/ CheckoutCreate(t) \/ CheckoutUpsert(t)
                                \/ CancelAtAsaas(t) \/ CancelWrite(t) \/ Die(t)
      PROVE  pay' = pay
  BY <1>5 DEF vars, Tick, Expire, GenerateCharge, DeliverEnd, SyncNextCharge, CheckoutFind,
              CheckoutCreate, CheckoutUpsert, CancelAtAsaas, CancelWrite, Die, books
<1> QED
  BY <1>2, <1>3, <1>4, <1>5 DEF Next

\* Losing the last paid month buys no further day.
THEOREM RefundPromisesNothing == Spec => RefundBuysNothing
<1>1. IInv /\ IInv' /\ [Next]_vars => [\A s \in Subs : EndsWithoutPromise(s)]_vars
  BY NextEndsWithoutPromise DEF IInv
<1> QED
  BY <1>1, Inductive, PTL DEF Spec, RefundBuysNothing

-----------------------------------------------------------------------------
(* What the nightly sweep finds. *)

\* A paid charge was generated, and belongs to a subscription we have a row of.
Accounted == \A c \in Charges : pay[c].entitled => due[c] # None /\ row[c[1]].status # "none"

\* A subscription Asaas does not know yet has no charges.
Unborn == \A s \in Subs : asaas[s] = "none" => \A c \in ChargesOf(s) : due[c] = None

\* The only row the account ever had.
Alone(s) == \A o \in Subs \ {s} : row[o].status = "none"

\* Its end honours the months that were paid for after the cancel, too: a late
\* boleto moves it, for there is no live row that would make it stale.
Honoured ==
    \A s \in Subs : Alone(s) /\ row[s].status = "canceled"
        => \A c \in Entitled(pay, s) : row[s].ends >= due[c] + Cycle - 1

Sweepable ==
    \E s \in Subs : row[s].status = "canceled" /\ row[s].ends < today /\ ~Replaced(s)

\* No step removes a row.
LEMMA RowsStay ==
  ASSUME TypeOK, TypeOK', [Next]_vars
  PROVE  \A s \in Subs : row[s].status # "none" => row'[s].status # "none"
<1>1. row \in [Subs -> Rows] /\ pay' \in [Charges -> Payments]
  BY DEF TypeOK
<1>2. CASE row' = row
  BY <1>2
<1>3. ASSUME NEW t \in Tabs, CheckoutUpsert(t) \/ CancelWrite(t)
      PROVE  \A s \in Subs : row[s].status # "none" => row'[s].status # "none"
  <2>1. CASE CheckoutUpsert(t)
    BY <1>1, <2>1 DEF CheckoutUpsert, Rows
  <2>2. CASE CancelWrite(t)
    <3>1. \A s \in Subs : Ended(pay, s, row[s]).status = "canceled"
      BY EndedIs DEF TypeOK
    <3> QED BY <2>2, <3>1 DEF CancelWrite
  <2> QED BY <1>3, <2>1, <2>2
<1>4. ASSUME NEW s \in Subs, DeliverEnd(s) \/ SyncNextCharge(s)
      PROVE  \A o \in Subs : row[o].status # "none" => row'[o].status # "none"
  <2>1. Ended(pay, s, row[s]).status = "canceled"
    BY EndedIs DEF TypeOK
  <2> QED BY <1>1, <1>4, <2>1 DEF DeliverEnd, SyncNextCharge, Rows
<1>5. ASSUME NEW e \in Events, DeliverRecord(e) \/ DeliverRevoke(e) \/ DeliverGrant(e)
      PROVE  \A o \in Subs : row[o].status # "none" => row'[o].status # "none"
  <2> DEFINE s == e[2][1]
             Kept(r) == r \in Rows /\ (row[s].status # "none" => r.status # "none")
  <2>1. s \in Subs /\ row[s] \in Rows /\ Kept(row[s])
    BY <1>1, EventsAre
  <2>2. ASSUME NEW r, Kept(r)
        PROVE  Kept(Refreshed(pay', s, r))
    BY <1>1, <2>1, <2>2, RefreshedIs
  <2>3. ASSUME NEW r \in Rows
        PROVE  Kept(Ended(pay', s, r))
    BY <1>1, <2>1, <2>3, EndedIs
  <2>4. Kept(Overdue(e, row[s])) /\ ClearNextCharge(row[s]) \in Rows
    BY <2>1, Constants DEF Overdue, ClearNextCharge, Rows, Live, Dates, None
  <2>5. Kept(Activated(pay', s, row[s]))
    <3>1. Kept([row[s] EXCEPT !.status = "active", !.ends = None])
      <4>1. None \in Dates
        BY Constants DEF Dates, None
      <4> QED BY <2>1, <4>1 DEF Rows, Live
    <3> HIDE DEF Kept
    <3> QED BY <2>1, <2>3, <3>1 DEF Activated
  <2>6. \E r : Kept(r) /\ row' = [row EXCEPT ![s] = r]
    <3>1. CASE DeliverRecord(e)
      <4>1. row' = [row EXCEPT ![s] = Refreshed(pay', s, Overdue(e, row[s]))]
        BY <1>1, <2>1, <3>1 DEF DeliverRecord
      <4> QED BY <2>2, <2>4, <4>1
    <3>2. CASE DeliverRevoke(e)
      <4> DEFINE ended == Ended(pay', s, ClearNextCharge(row[s]))
      <4>1. \/ row' = [row EXCEPT ![s] = Refreshed(pay', s, row[s])]
            \/ row' = [row EXCEPT ![s] = Refreshed(pay', s, ended)]
        BY <1>1, <2>1, <3>2 DEF DeliverRevoke
      <4> QED BY <2>1, <2>2, <2>3, <2>4, <4>1
    <3>3. CASE DeliverGrant(e)
      <4>1. \/ row' = row
            \/ row' = [row EXCEPT ![s] = Refreshed(pay', s, row[s])]
            \/ row' = [row EXCEPT ![s] = Refreshed(pay', s, Activated(pay', s, row[s]))]
        BY <1>1, <2>1, <3>3 DEF DeliverGrant
      <4>2. row = [row EXCEPT ![s] = row[s]]
        BY <1>1
      <4> QED BY <2>1, <2>2, <2>5, <4>1, <4>2
    <3> QED BY <1>5, <3>1, <3>2, <3>3
  <2> HIDE DEF s
  <2> QED BY <1>1, <2>1, <2>6
<1> QED
  BY <1>2, <1>3, <1>4, <1>5 DEF Next, GenerateCharge, CheckoutFind, CheckoutCreate,
     CancelAtAsaas, Die, Expire, Tick, books, vars

\* The date of a charge is written once.
LEMMA DueStays ==
  ASSUME TypeOK, Unborn, [Next]_vars
  PROVE  /\ \A c \in Charges : due[c] # None => due'[c] = due[c]
         /\ Unborn'
<1>1. /\ due \in [Charges -> None..(LastDay + Cycle)]
      /\ asaas \in [Subs -> {"none", "live", "gone"}]
  BY DEF TypeOK
<1>2. CASE UNCHANGED <<asaas, due>>
  BY <1>2 DEF Unborn
<1>3. ASSUME NEW s \in Subs, GenerateCharge(s)
      PROVE  (\A c \in Charges : due[c] # None => due'[c] = due[c]) /\ Unborn'
  <2>1. PICK k \in Unbilled(s) : due' = [due EXCEPT ![<<s, k>>] = nextDue[s]]
    BY <1>3 DEF GenerateCharge, Bill
  <2>2. due[<<s, k>>] = None /\ \A c \in Charges \ {<<s, k>>} : due'[c] = due[c]
    BY <1>1, <2>1 DEF Unbilled
  <2>3. asaas[s] = "live" /\ asaas' = asaas
    BY <1>3 DEF GenerateCharge
  <2>4. \A o \in Subs \ {s} : \A c \in ChargesOf(o) : due'[c] = due[c]
    BY <2>2, ChargesAreOf
  <2> QED BY <2>2, <2>3, <2>4 DEF Unborn
<1>4. ASSUME NEW t \in Tabs, CheckoutCreate(t)
      PROVE  (\A c \in Charges : due[c] # None => due'[c] = due[c]) /\ Unborn'
  <2>1. PICK s \in Subs : /\ asaas[s] = "none"
                          /\ asaas' = [asaas EXCEPT ![s] = "live"]
                          /\ due' = [due EXCEPT ![<<s, 1>>] = today]
    BY <1>4 DEF CheckoutCreate
  <2>2. \A c \in Charges \ {<<s, 1>>} : due'[c] = due[c]
    BY <1>1, <2>1
  <2>3. <<s, 1>> \in Charges => due[<<s, 1>>] = None
    BY <2>1, ChargesAreOf DEF Unborn
  <2>4. \A o \in Subs \ {s} : asaas'[o] = asaas[o] /\ \A c \in ChargesOf(o) : due'[c] = due[c]
    BY <1>1, <2>1, <2>2, ChargesAreOf
  <2>5. asaas'[s] = "live"
    BY <1>1, <2>1
  <2> QED BY <2>2, <2>3, <2>4, <2>5 DEF Unborn
<1>5. ASSUME NEW t \in Tabs, CancelAtAsaas(t)
      PROVE  (\A c \in Charges : due[c] # None => due'[c] = due[c]) /\ Unborn'
  BY <1>1, <1>5 DEF CancelAtAsaas, Unborn
<1> QED
  BY <1>2, <1>3, <1>4, <1>5 DEF Next, DeliverEnd, SyncNextCharge, CheckoutFind, CheckoutUpsert,
     CancelWrite, Die, DeliverRecord, DeliverRevoke, DeliverGrant, Expire, Tick, provider, vars

\* Only a grant entitles, and only by a charge we know.
LEMMA OnlyGrantsEntitle ==
  ASSUME TypeOK, [Next]_vars, NEW c \in Charges, pay'[c].entitled, ~pay[c].entitled
  PROVE  \E e \in Events : e[2] = c /\ DeliverGrant(e)
<1>1. pay' # pay
  OBVIOUS
<1>2. ASSUME NEW e \in Events, DeliverRecord(e) \/ DeliverRevoke(e)
      PROVE  FALSE
  <2>1. e[2] \in Charges
    BY EventsAre
  <2>2. CASE DeliverRecord(e)
    <3>1. pay' = Recorded(e[2], "PENDING") \/ pay' = Recorded(e[2], "OVERDUE")
      BY <2>2 DEF DeliverRecord
    <3>2. /\ \A d \in Charges \ {e[2]} : pay'[d] = pay[d]
          /\ pay'[e[2]].entitled = pay[e[2]].entitled
      BY <2>1, <3>1, RecordedIs
    <3> QED BY <3>2
  <2>3. CASE DeliverRevoke(e)
    <3>1. pay' = Claimed(e[2], "REFUNDED", FALSE)
      BY <2>3 DEF DeliverRevoke
    <3>2. /\ \A d \in Charges \ {e[2]} : pay'[d] = pay[d]
          /\ pay'[e[2]].entitled = FALSE
      BY <2>1, <3>1, ClaimedIs
    <3> QED BY <3>2
  <2> QED BY <1>2, <2>2, <2>3
<1>3. ASSUME NEW e \in Events, DeliverGrant(e)
      PROVE  e[2] = c
  <2>1. e[2] \in Charges /\ pay' = Claimed(e[2], "SETTLED", TRUE)
    BY <1>3, EventsAre DEF DeliverGrant
  <2>2. /\ \A d \in Charges \ {e[2]} : pay'[d] = pay[d]
        /\ pay'[e[2]].entitled = TRUE
    BY <2>1, ClaimedIs
  <2> QED BY <2>2
<1> QED
  BY <1>1, <1>2, <1>3 DEF Next, GenerateCharge, DeliverEnd, SyncNextCharge, CheckoutFind,
     CheckoutCreate, CheckoutUpsert, CancelAtAsaas, CancelWrite, Die, Expire, Tick, books, vars

LEMMA AccountedKept ==
  ASSUME TypeOK, TypeOK', Unborn, Accounted, [Next]_vars
  PROVE  /\ Accounted'
         /\ \A c \in Charges : pay'[c].entitled => due[c] # None /\ due'[c] = due[c]
<1>1. \A c \in Charges : pay'[c].entitled => due[c] # None /\ row[c[1]].status # "none"
  <2> SUFFICES ASSUME NEW c \in Charges, pay'[c].entitled, ~pay[c].entitled
               PROVE  due[c] # None /\ row[c[1]].status # "none"
    BY DEF Accounted
  <2>1. PICK e \in Events : e[2] = c /\ DeliverGrant(e)
    BY OnlyGrantsEntitle
  <2> QED BY <2>1 DEF DeliverGrant, Known
<1>2. \A c \in Charges : c[1] \in Subs
  BY ChargesAreOf
<1>3. \A c \in Charges : due[c] # None => due'[c] = due[c]
  BY DueStays
<1> QED
  BY <1>1, <1>2, <1>3, RowsStay DEF Accounted

\* The end of the only row keeps up with what is paid for it.
LEMMA HonouredKept ==
  ASSUME IInv, TypeOK', Unborn, Accounted, Honoured, [Next]_vars
  PROVE  Honoured'
<1>1. TypeOK /\ pay' \in [Charges -> Payments] /\ row \in [Subs -> Rows]
  BY DEF IInv, TypeOK
<1> SUFFICES ASSUME NEW s \in Subs, Alone(s)', row'[s].status = "canceled", NEW c \in Entitled(pay', s)
             PROVE  row'[s].ends >= due'[c] + Cycle - 1
  BY DEF Honoured, Entitled
<1>2. c \in ChargesOf(s) /\ c \in Charges /\ c[1] = s /\ pay'[c].entitled
  BY ChargesAreOf DEF Entitled
<1>3. due'[c] = due[c]
  BY <1>1, <1>2, AccountedKept
<1>4. Alone(s)
  BY <1>1, RowsStay DEF Alone
<1>5. KeepsPaidMonths(s)
  BY NextKeepsPaidMonths
<1>6. CASE row[s].status # "canceled" \/ row'[s].ends # row[s].ends
  BY <1>3, <1>5, <1>6 DEF KeepsPaidMonths
<1>7. CASE row[s].status = "canceled" /\ row'[s].ends = row[s].ends /\ pay[c].entitled
  <2>1. c \in Entitled(pay, s)
    BY <1>2, <1>7 DEF Entitled
  <2> QED BY <1>3, <1>4, <1>7, <2>1 DEF Honoured
<1>8. CASE row[s].status = "canceled" /\ ~pay[c].entitled
  <2>1. PICK e \in Events : e[2] = c /\ DeliverGrant(e)
    BY <1>1, <1>2, <1>8, OnlyGrantsEntitle
  <2>2. ~Stale(s)
    BY <1>4 DEF Stale, OtherLive, LiveSubs, Live, Alone
  <2>3. row' = [row EXCEPT ![s] = Refreshed(pay', s, Ended(pay', s, row[s]))]
    BY <1>2, <1>8, <2>1, <2>2 DEF DeliverGrant, Activated
  <2>4. row[s] \in Rows /\ Ended(pay', s, row[s]) \in Rows
    BY <1>1, EndedIs
  <2>5. row'[s].ends = LastPaidDay(pay', s, row[s])
    BY <1>1, <2>3, <2>4, EndedIs, RefreshedIs
  <2>6. LastPaidDay(pay', s, row[s]) >= due[c] + Cycle - 1
    BY <1>1, <2>4, LastPaidDayIs
  <2> QED BY <1>3, <2>5, <2>6
<1> QED BY <1>6, <1>7, <1>8

\* The three hold in every reachable state.
LEMMA SweepInvariance == Spec => [](Unborn /\ Accounted /\ Honoured)
<1>1. Init => Unborn /\ Accounted /\ Honoured
  BY ChargesAreOf DEF Init, Unborn, Accounted, Honoured
<1>2. IInv /\ IInv' /\ Unborn /\ Accounted /\ Honoured /\ [Next]_vars
        => (Unborn /\ Accounted /\ Honoured)'
  BY DueStays, AccountedKept, HonouredKept DEF IInv
<1> QED BY <1>1, <1>2, Inductive, PTL DEF Spec

\* An account that is over always has the row the sweep looks for: no refund,
\* late event or abandoned checkout hides a paid plan from expire_subscriptions.
THEOREM SweepFindsTheOver == Spec => [](Over => Sweepable)
<1>1. IInv /\ Accounted /\ Over => Sweepable
  <2> SUFFICES ASSUME IInv, Accounted, Over PROVE Sweepable
    OBVIOUS
  <2>1. PICK c \in Charges : pay[c].entitled
    BY DEF IInv, PaidPlanIsPaid, Over
  <2>2. c[1] \in Subs /\ row[c[1]].status # "none"
    BY <2>1, ChargesAreOf DEF Accounted
  <2>3. row[c[1]].status = "canceled"
    BY <2>2 DEF IInv, TypeOK, Rows, Over, LiveSubs
  <2> QED BY <2>2, <2>3 DEF Sweepable, Over, Replaced
<1> QED BY <1>1, Inductive, SweepInvariance, PTL

\* ExpirySparesPaidMonths holds of every account that never subscribed twice:
\* what takes a paid month (see the run BillingExpiry) needs a second row.
SparesTheOnlyRow ==
    (/\ plan = "pago" /\ plan' = "basico"
     /\ \A e \in seen' : e[1] # "REFUNDED"
     /\ \E s \in Subs : Alone(s))
        => \A c \in Charges : (pay[c].entitled /\ row[c[1]].status = "canceled")
                              => due[c] + Cycle - 1 < today

\* The nightly downgrade takes no paid day from an account with one
\* subscription, whenever its boletos are paid.
THEOREM ExpiryIsExactForOneRow == Spec => [][SparesTheOnlyRow]_vars
<1>1. IInv /\ Accounted /\ Honoured /\ [Next]_vars => [SparesTheOnlyRow]_vars
  <2> SUFFICES ASSUME IInv, Accounted, Honoured, [Next]_vars,
                      plan = "pago", plan' = "basico", \A e \in seen' : e[1] # "REFUNDED",
                      NEW s \in Subs, Alone(s),
                      NEW c \in Charges, pay[c].entitled, row[c[1]].status = "canceled"
               PROVE  due[c] + Cycle - 1 < today
    BY DEF SparesTheOnlyRow
  <2>1. c[1] = s /\ c \in Entitled(pay, s)
    BY ChargesAreOf DEF Alone, Entitled
  <2>2. \A e \in Events : ~DeliverRevoke(e)
    BY DEF DeliverRevoke, Known, Store
  <2>3. Expire
    BY <2>2 DEF Next, vars, GenerateCharge, DeliverEnd, SyncNextCharge, CheckoutFind, CheckoutCreate,
       CheckoutUpsert, CancelAtAsaas, CancelWrite, Die, DeliverRecord, DeliverGrant, Tick, books
  <2>4. row[s].ends < today
    BY <2>3 DEF Expire, Alone
  <2>5. row[s].ends >= due[c] + Cycle - 1
    BY <2>1 DEF Honoured
  <2>6. row[s].ends \in Int /\ today \in Int /\ due[c] \in Int /\ Cycle \in Int
    BY Constants DEF IInv, TypeOK, Rows, Dates, Days, None
  <2> QED BY <2>4, <2>5, <2>6
<1> QED BY <1>1, Inductive, SweepInvariance, PTL DEF Spec
=============================================================================

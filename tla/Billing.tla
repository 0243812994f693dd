-------------------------------- MODULE Billing --------------------------------
(***************************************************************************)
(* One account's paid plan: the checkout and the cancel button             *)
(* (lib/asaas/checkout.ts, subscription.ts, app/conta/plano/actions.ts),   *)
(* the Asaas webhook (lib/asaas/entitlement.ts) and the worker's nightly   *)
(* downgrade (worker/licitaqui/billing.py).                                *)
(*                                                                         *)
(* Every statement of these files is keyed by one user or by one of the    *)
(* user's subscriptions, so accounts do not interact and one is modelled.  *)
(* Asaas is another party: it generates charges, and its events arrive     *)
(* late, in any order and more than once.  Whether a charge is paid or     *)
(* refunded is visible only through them, so each charge may be the        *)
(* subject of any event, once: the redelivery of a stored id does nothing. *)
(* The webhook's transaction locks the subscription's row and is one step. *)
(***************************************************************************)
EXTENDS Integers, FiniteSets, Sequences

CONSTANTS
    MaxCharges,  \* bound: MaxCharges[s] charges of the s-th subscription that
                 \* Asaas ever creates for the account
    Tabs,        \* browser requests: a checkout or a cancel, one at a time
    Cycle,       \* days of a billing cycle, `cycle: 'MONTHLY'`
    LastDay,     \* bound: the last day of the calendar
    MaxEvents    \* bound: events the webhook ever stores

ASSUME BillingAssumption ==
    /\ Cycle \in Nat \ {0}
    /\ LastDay \in Nat
    /\ MaxCharges \in Seq(Nat \ {0})
    /\ MaxEvents \in Nat

None == -1       \* null, in a column that holds a date
NoSub == 0
Subs == DOMAIN MaxCharges

ChargesOf(s) == {s} \X (1..MaxCharges[s])
Charges == UNION {ChargesOf(s) : s \in Subs}
Days == 0..LastDay
Dates == None..(LastDay + 2 * Cycle)

Grants == {"CONFIRMED", "RECEIVED"}
Events == ({"CREATED", "OVERDUE", "REFUNDED"} \cup Grants) \X Charges
EndEvents == {"SUBSCRIPTION_DELETED"} \X Subs

VARIABLES
    today,       \* the day in Brasilia
    asaas,       \* asaas[s]: "none", "live" or "gone" at the provider
    nextDue,     \* the nextDueDate of the Asaas subscription
    due,         \* due[c]: due date of a charge Asaas generated, else None
    row,         \* row[s]: our subscriptions row, status "none" when absent
    pay,         \* pay[c]: our subscription_payments row of the charge
    plan,        \* users.plan
    seen,        \* ids in webhook_events
    syncing,     \* subscriptions whose sync of the next charge is under way
    req          \* req[t]: where the request of tab t is

provider == <<asaas, nextDue, due>>
books == <<row, pay, plan>>
hooks == <<seen, syncing>>
vars == <<today, asaas, nextDue, due, row, pay, plan, seen, syncing, req>>

Live == {"pending", "active", "overdue"}
Rows == [status : {"none", "canceled"} \cup Live, ends : Dates, next : Dates]
Payments == [status : {"none", "PENDING", "OVERDUE", "SETTLED", "REFUNDED"},
             entitled : BOOLEAN]
Idle == [at |-> "idle", sub |-> NoSub, next |-> None]

LiveSubs == {s \in Subs : row[s].status \in Live}
OtherLive(s) == LiveSubs \ {s} # {}

\* The rows readSubscription may answer with: a live one first, else a
\* cancelled one whose paid period has not run out.
Readable ==
    IF LiveSubs # {} THEN LiveSubs
    ELSE {s \in Subs : row[s].status = "canceled" /\ row[s].ends >= today}

Latest(dates) == CHOOSE d \in dates : \A e \in dates : e <= d
Earliest(dates) == CHOOSE d \in dates : \A e \in dates : d <= e

Entitled(p, s) == {c \in ChargesOf(s) : p[c].entitled}

\* Mutant of PaidPeriods: the two-line version without the paid months.
PaidPeriods_NextChargeOnly(p, s) == {}
PaidPeriods(p, s) == {due[c] + Cycle - 1 : c \in Entitled(p, s)}

\* lastPaidDay: `greatest` ignores nulls, and None is below every day.
LastPaidDay(p, s, r) ==
    Latest({r.ends, r.next - 1, today} \cup PaidPeriods(p, s))

Ended(p, s, r) ==
    [r EXCEPT !.status = "canceled", !.ends = LastPaidDay(p, s, r)]

\* refreshNextCharge: the earliest charge somebody still has to pay.
Awaiting(p, s) ==
    {c \in ChargesOf(s) : p[c].status \in {"PENDING", "OVERDUE"} /\ ~p[c].entitled}
Refreshed(p, s, r) ==
    LET ahead == {due[c] : c \in Awaiting(p, s)} \cap {d \in Dates : d >= today}
    IN  [r EXCEPT !.next = IF ahead = {} THEN r.next ELSE Earliest(ahead)]

Init ==
    /\ today = 0
    /\ asaas = [s \in Subs |-> "none"]
    /\ nextDue = [s \in Subs |-> None]
    /\ due = [c \in Charges |-> None]
    /\ row = [s \in Subs |-> [status |-> "none", ends |-> None, next |-> None]]
    /\ pay = [c \in Charges |-> [status |-> "none", entitled |-> FALSE]]
    /\ plan = "basico"
    /\ seen = {}
    /\ syncing = {}
    /\ req = [t \in Tabs |-> Idle]

----------------------------------------------------------------------------
\* Asaas.

\* Charges are generated in order, up to 40 days ahead, and generating one
\* advances the subscription a whole cycle.
Unbilled(s) == {k \in 1..MaxCharges[s] : due[<<s, k>>] = None}
Bill(s) ==
    \E k \in Unbilled(s) :
        /\ \A j \in Unbilled(s) : k <= j
        /\ due' = [due EXCEPT ![<<s, k>>] = nextDue[s]]
        /\ nextDue' = [nextDue EXCEPT ![s] = @ + Cycle]

GenerateCharge(s) ==
    /\ asaas[s] = "live"
    /\ nextDue[s] <= today + Cycle
    /\ Bill(s)
    /\ UNCHANGED <<today, asaas, books, hooks, req>>

----------------------------------------------------------------------------
\* startCheckout.

Goto(t, at, s, next) ==
    req' = [req EXCEPT ![t] = [at |-> at, sub |-> s, next |-> next]]

\* The row is read and Asaas is asked for a live subscription: what matters
\* of the first is only that a row read as active ends the request there.
CheckoutFind(t) ==
    /\ req[t].at = "idle"
    /\ \A s \in Readable : row[s].status # "active"
    /\ \/ \E s \in Subs : /\ asaas[s] = "live"
                          /\ Goto(t, "upserting", s, nextDue[s])
       \/ /\ \A s \in Subs : asaas[s] # "live"
          /\ Goto(t, "creating", NoSub, None)
    /\ UNCHANGED <<today, provider, books, hooks>>

\* The first charge is due today and is generated with the subscription,
\* whose nextDueDate comes back a cycle on.
CheckoutCreate(t) ==
    /\ req[t].at = "creating"
    /\ \E s \in Subs :
        /\ asaas[s] = "none"
        /\ \A o \in Subs : asaas[o] = "none" => s <= o
        /\ asaas' = [asaas EXCEPT ![s] = "live"]
        /\ due' = [due EXCEPT ![<<s, 1>>] = today]
        /\ nextDue' = [nextDue EXCEPT ![s] = today + Cycle]
        /\ Goto(t, "upserting", s, today + Cycle)
    /\ UNCHANGED <<today, books, hooks>>

\* Mutant of Refused: a partial index on the active rows.
Refused_ActiveIndex(s) == \E o \in Subs \ {s} : row[o].status = "active"
Refused(s) == OtherLive(s)

\* upsertSubscription: a row that was paid for never goes back to pending,
\* and subscriptions_one_live_per_user refuses a second live row.
CheckoutUpsert(t) ==
    /\ req[t].at = "upserting"
    /\ LET s == req[t].sub IN
       row' = IF Refused(s) THEN row
              ELSE [row EXCEPT ![s].status =
                        IF @ \in {"active", "overdue"} THEN @ ELSE "pending",
                    ![s].next = req[t].next]
    /\ Goto(t, "idle", NoSub, None)
    /\ UNCHANGED <<today, provider, pay, plan, hooks>>

----------------------------------------------------------------------------
\* confirmCancel: Asaas first, our rows second.  Dying in between is also what
\* an operator who inactivates the subscription in the Asaas console does.

CancelAtAsaas(t) ==
    /\ req[t].at = "idle"
    /\ \E s \in Readable :
        /\ asaas' = [asaas EXCEPT ![s] = "gone"]
        /\ Goto(t, "cancelling", s, None)
    /\ UNCHANGED <<today, nextDue, due, books, hooks>>

\* cancelSubscription ends the live rows of the user, whatever was read.
CancelWrite(t) ==
    /\ req[t].at = "cancelling"
    /\ row' = [s \in Subs |->
                  IF s \in LiveSubs THEN Ended(pay, s, row[s]) ELSE row[s]]
    /\ Goto(t, "idle", NoSub, None)
    /\ UNCHANGED <<today, provider, pay, plan, hooks>>

\* Asaas refuses a call, or the function is killed.
Die(t) ==
    /\ req[t].at # "idle"
    /\ Goto(t, "idle", NoSub, None)
    /\ UNCHANGED <<today, provider, books, hooks>>

----------------------------------------------------------------------------
\* POST /api/asaas/webhook: store the event, apply it, in one transaction.

\* upsertPayment: a settled charge keeps its status against a late event.
Recorded(c, status) ==
    [pay EXCEPT ![c].status = IF @ = "SETTLED" THEN @ ELSE status]

\* The same with entitled_at released (FALSE) or claimed (TRUE).
Claimed(c, status, claim) ==
    [Recorded(c, status) EXCEPT ![c].entitled = claim]

Store(e) ==
    /\ e \notin seen
    /\ Cardinality(seen) < MaxEvents
    /\ seen' = seen \cup {e}

\* An event of a subscription without a row is stored and never applied: for
\* the account it is one more event that does not arrive.
Known(e) == due[e[2]] # None /\ row[e[2][1]].status # "none" /\ Store(e)

DeliverEnd(s) ==
    /\ asaas[s] = "gone"
    /\ row[s].status # "none"
    /\ Store(<<"SUBSCRIPTION_DELETED", s>>)
    /\ row' = [row EXCEPT ![s] = Ended(pay, s, @)]
    /\ UNCHANGED <<today, provider, pay, plan, syncing, req>>

\* Mutant of Overdue: the suspension of terms 7, which nothing writes.
Overdue_Suspends(e, r) ==
    IF e[1] = "OVERDUE" /\ r.status = "active" THEN [r EXCEPT !.status = "suspended"] ELSE r
Overdue(e, r) ==
    IF e[1] = "OVERDUE" /\ r.status = "active" THEN [r EXCEPT !.status = "overdue"] ELSE r

DeliverRecord(e) ==
    LET s == e[2][1] IN
    /\ e[1] \in {"CREATED", "OVERDUE"}
    /\ e[1] = "OVERDUE" => due[e[2]] < today
    /\ Known(e)
    /\ pay' = Recorded(e[2], IF e[1] = "CREATED" THEN "PENDING" ELSE "OVERDUE")
    /\ row' = [row EXCEPT ![s] = Refreshed(pay', s, Overdue(e, @))]
    /\ UNCHANGED <<today, provider, plan, syncing, req>>

\* Mutant of StillEntitled: any settled payment of the account counts.
StillEntitled_AnySub(p, s) == \E o \in Subs : Entitled(p, o) # {}
StillEntitled(p, s) == Entitled(p, s) # {}

\* Mutant of ClearNextCharge: the column is left for ends_on to read.
ClearNextCharge_Kept(r) == r
ClearNextCharge(r) == [r EXCEPT !.next = None]

\* Mutant of Downgraded: a row that is no longer active keeps the plan.
Downgraded_ActiveOnly(s) == IF row[s].status = "active" THEN "basico" ELSE plan
Downgraded(s) == "basico"

DeliverRevoke(e) ==
    LET c == e[2]  s == e[2][1]
        left == Claimed(c, "REFUNDED", FALSE)
    IN
    /\ e[1] = "REFUNDED"
    /\ Known(e)
    /\ pay' = left
    /\ IF StillEntitled(left, s)
         THEN /\ row' = [row EXCEPT ![s] = Refreshed(left, s, @)]
              /\ UNCHANGED plan
         ELSE /\ row' = [row EXCEPT ![s] =
                            Refreshed(left, s, Ended(left, s, ClearNextCharge(@)))]
              /\ plan' = Downgraded(s)
    /\ UNCHANGED <<today, provider, syncing, req>>

\* A payment after a cancel buys a month; it does not undo the cancel.
Activated(p, s, r) ==
    IF r.status = "canceled" THEN Ended(p, s, r)
    ELSE [r EXCEPT !.status = "active", !.ends = None]

Stale(s) == OtherLive(s)

DeliverGrant(e) ==
    LET c == e[2]  s == e[2][1]
        settled == Claimed(c, "SETTLED", TRUE)
    IN
    /\ e[1] \in Grants
    /\ Known(e)
    /\ pay' = settled
    /\ syncing' = syncing \cup {s}
    /\ \/ /\ pay[c].entitled          \* already_entitled
          /\ UNCHANGED <<row, plan>>
       \/ /\ ~pay[c].entitled
          /\ Stale(s)                 \* stale_subscription
          /\ row' = [row EXCEPT ![s] = Refreshed(settled, s, @)]
          /\ UNCHANGED plan
       \/ /\ ~pay[c].entitled
          /\ ~Stale(s)
          /\ row' = [row EXCEPT ![s] = Refreshed(settled, s, Activated(settled, s, @))]
          /\ plan' = "pago"
    /\ UNCHANGED <<today, provider, req>>

----------------------------------------------------------------------------
\* syncNextChargeFromAsaas, after the commit of a grant and outside any
\* transaction.  The pre-check, the call and the write are one step: the write
\* is a compare and set that states the whole pre-check again, so it does what
\* it would have done at the time of the call or nothing.  A call that fails,
\* or a function that is killed, is a step never taken.
SyncNextCharge(s) ==
    /\ s \in syncing
    /\ syncing' = syncing \ {s}
    /\ row' = IF /\ s \in LiveSubs
                 /\ Awaiting(pay, s) = {}
                 /\ asaas[s] = "live"
                 /\ nextDue[s] >= today
              THEN [row EXCEPT ![s].next = nextDue[s]]
              ELSE row
    /\ UNCHANGED <<today, provider, pay, plan, seen, req>>

----------------------------------------------------------------------------
\* expire_subscriptions, and the calendar.

\* Mutant of Replaced: any other row of the account spares it.
Replaced_AnyRow(s) == \E o \in Subs \ {s} : row[o].status # "none"
Replaced(s) == LiveSubs # {}

Expire ==
    /\ plan # "basico"
    /\ \E s \in Subs :
        row[s].status = "canceled" /\ row[s].ends < today /\ ~Replaced(s)
    /\ plan' = "basico"
    /\ UNCHANGED <<today, provider, row, pay, hooks, req>>

Tick ==
    /\ today < LastDay
    /\ today' = today + 1
    /\ UNCHANGED <<provider, books, hooks, req>>

Next ==
    \/ \E s \in Subs : GenerateCharge(s) \/ DeliverEnd(s) \/ SyncNextCharge(s)
    \/ \E t \in Tabs : \/ CheckoutFind(t) \/ CheckoutCreate(t) \/ CheckoutUpsert(t)
                       \/ CancelAtAsaas(t) \/ CancelWrite(t) \/ Die(t)
    \/ \E e \in Events : DeliverRecord(e) \/ DeliverRevoke(e) \/ DeliverGrant(e)
    \/ Expire
    \/ Tick

\* The downgrade is a daily entry of the worker's scheduler.
Spec == Init /\ [][Next]_vars /\ WF_vars(Expire)

----------------------------------------------------------------------------
\* Properties.

\* Every column holds a value it may hold, every event is one Asaas sent.
TypeOK ==
    /\ today \in Days
    /\ asaas \in [Subs -> {"none", "live", "gone"}]
    /\ nextDue \in [Subs -> Dates]
    /\ due \in [Charges -> None..(LastDay + Cycle)]
    /\ row \in [Subs -> Rows]
    /\ pay \in [Charges -> Payments]
    /\ plan \in {"basico", "pago"}
    /\ seen \subseteq Events \cup EndEvents
    /\ syncing \subseteq Subs
    /\ req \in [Tabs -> [at : {"idle", "creating", "upserting", "cancelling"},
                         sub : Subs \cup {NoSub}, next : Dates]]

\* A paid plan always rests on a payment that still entitles somebody: no
\* order of grants, refunds, cancels and checkouts leaves it unpaid
\* (the module docstring of entitlement.ts).
PaidPlanIsPaid == plan = "pago" => \E c \in Charges : pay[c].entitled

\* A row the product shows as active or overdue has a settled payment of its
\* own, whichever refunds and late events arrived (entitlement.ts:253).
ActiveIsPaid ==
    \A s \in Subs : row[s].status \in {"active", "overdue"} => Entitled(pay, s) # {}

\* No grant, checkout or late boleto gives an account two live rows, which
\* subscriptions_one_live_per_user would refuse with a 23505 that Asaas
\* retries until it pauses the queue (entitlement.ts:319).
OneLiveRow == \A s, o \in LiveSubs : s = o

\* Whatever ends a row or moves its end sets it on or after the last day of
\* every month that was paid for, and no later event moves the end of a
\* cancelled row back (subscription.ts lastPaidDay).
KeepsPaidMonths(s) ==
    row'[s].status = "canceled" =>
        /\ row'[s].ends >= row[s].ends
        /\ row[s].status # "canceled" \/ row'[s].ends # row[s].ends =>
              \A c \in Entitled(pay', s) : row'[s].ends >= due[c] + Cycle - 1
PaidMonthsAreKept == [][\A s \in Subs : KeepsPaidMonths(s)]_vars

\* A refund that takes the last paid month of a subscription ends it today:
\* it promises no day that was not promised before (clearNextCharge).
EndsWithoutPromise(s) ==
    Entitled(pay, s) # {} /\ Entitled(pay', s) = {}
        => row'[s].ends = Latest({row[s].ends, today})
RefundBuysNothing == [][\A s \in Subs : EndsWithoutPromise(s)]_vars

\* An account whose every paid period has run out loses the paid plan, unless
\* it subscribes again first, however many nights the sweep missed.
Over == plan = "pago" /\ LiveSubs = {} /\ \A s \in Subs : row[s].ends < today
EndedPlanIsReclaimed == Over ~> ~Over

\* What billing.py:501 says of the downgrade, and terms 8 of a cancel: the
\* expiry of a row that was replaced does not end a period still paid for
\* (stated where nothing was ever refunded).
ExpirySparesPaidMonths ==
    [][(/\ plan = "pago" /\ plan' = "basico"
           /\ \A e \in seen' : e[1] # "REFUNDED")
          => \A c \in Charges : (pay[c].entitled /\ row[c[1]].status = "canceled")
                                => due[c] + Cycle - 1 < today]_vars
=============================================================================

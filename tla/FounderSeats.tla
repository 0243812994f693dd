----------------------------- MODULE FounderSeats -----------------------------
(***************************************************************************)
(* The founders signup transaction of apps/web/lib/founders/signup.ts, and *)
(* linkFounderSeat of apps/web/lib/auth/founder-seat.ts.                   *)
(*                                                                         *)
(* A row of founders_list is named by the submission that inserted it.  A  *)
(* signup is a READ COMMITTED transaction of three statements: the         *)
(* advisory lock, the insert built from CTEs, and for a repeat submission  *)
(* the lookup.  The insert is two steps, because its snapshot is taken     *)
(* before it runs.  Consent columns, events and templates are left out.    *)
(***************************************************************************)
EXTENDS Naturals, FiniteSets

CONSTANTS
    Requests,       \* form submissions; one that is accepted names its row
    Emails,         \* addresses, as citext compares them
    Email,          \* Email[r]: the address of submission r
    Whatsapp,       \* Whatsapp[r]: its number, normalised
    Seats,          \* FOUNDER_SEATS
    MaxErasures,    \* bound: rows deleted from founders_list
    MaxDrops,       \* bound: connections lost inside a transaction
    Nobody,         \* the holder of a free lock
    Absent          \* the seat of somebody who is not on the list

ASSUME FounderSeatsAssumption ==
    /\ IsFiniteSet(Requests)
    /\ Email \in [Requests -> Emails]
    /\ Seats \in Nat
    /\ MaxErasures \in Nat
    /\ MaxDrops \in Nat
    /\ Nobody \notin Requests
    /\ Absent \notin Nat

VARIABLES
    pc,             \* pc[r]: where submission r is in its transaction
    holder,         \* who holds pg_advisory_xact_lock(19537, 48)
    listed,         \* the committed rows of founders_list
    seat,           \* seat[r]: the seat r's row has, 0 for null
    place,          \* place[r]: the row's turn, the order of the identity ids
    turns,          \* ids handed out
    view,           \* view[r]: the rows in the snapshot of r's insert
    told,           \* told[r]: the position or the seat count r is answered
    welcomed,       \* rows whose send_whatsapp and send_email jobs committed
    account,        \* account[e]: users.founder_seat of e's account, 0 for null
    erasures,       \* rows deleted so far
    drops           \* connections lost so far

vars == <<pc, holder, listed, seat, place, turns, view, told, welcomed,
          account, erasures, drops>>

\* "selected" has its snapshot, "written" has inserted, "duplicate" has
\* inserted nothing, "found" has looked the existing row up; "violated" died on
\* the unique constraint of founders_list.seat.
Inside == {"locked", "selected", "written", "duplicate", "found"}
Ended == {"done", "failed", "violated"}

Same(r, q) == Email[r] = Email[q] \/ Whatsapp[r] = Whatsapp[q]

Init ==
    /\ pc = [r \in Requests |-> "new"]
    /\ holder = Nobody
    /\ listed = {}
    /\ seat = [r \in Requests |-> 0]
    /\ place = [r \in Requests |-> 0]
    /\ turns = 0
    /\ view = [r \in Requests |-> {}]
    /\ told = [r \in Requests |-> 0]
    /\ welcomed = {}
    /\ account = [e \in Emails |-> 0]
    /\ erasures = 0
    /\ drops = 0

----------------------------------------------------------------------------
(* One signup. *)

\* Mutant of Abort: a session lock, which a rollback does not release.
AbortLocked(r, how) ==
    /\ holder' = holder
    /\ pc' = [pc EXCEPT ![r] = how]
    /\ seat' = [seat EXCEPT ![r] = 0]
    /\ place' = [place EXCEPT ![r] = 0]
    /\ view' = [view EXCEPT ![r] = {}]
    /\ told' = [told EXCEPT ![r] = 0]
    /\ UNCHANGED <<listed, turns, welcomed, account, erasures>>

\* ROLLBACK or an error: nothing r wrote remains and the lock is released.
Abort(r, how) ==
    /\ holder' = Nobody
    /\ pc' = [pc EXCEPT ![r] = how]
    /\ seat' = [seat EXCEPT ![r] = 0]
    /\ place' = [place EXCEPT ![r] = 0]
    /\ view' = [view EXCEPT ![r] = {}]
    /\ told' = [told EXCEPT ![r] = 0]
    /\ UNCHANGED <<listed, turns, welcomed, account, erasures>>

\* Mutant of Acquirable: pg_try_advisory_xact_lock with its answer ignored.
AcquirableAlways == TRUE

\* Nobody holds the advisory lock.
Acquirable == holder = Nobody

\* select pg_advisory_xact_lock(...), a statement of its own.
Lock(r) ==
    /\ pc[r] = "new"
    /\ Acquirable
    /\ holder' = r
    /\ pc' = [pc EXCEPT ![r] = "locked"]
    /\ UNCHANGED <<listed, seat, place, turns, view, told, welcomed, account, erasures, drops>>

\* The insert statement starts: READ COMMITTED takes its snapshot now.
Select(r) ==
    /\ pc[r] = "locked"
    /\ view' = [view EXCEPT ![r] = listed]
    /\ pc' = [pc EXCEPT ![r] = "selected"]
    /\ UNCHANGED <<holder, listed, seat, place, turns, told, welcomed, account, erasures, drops>>

Held(rows) == {seat[q] : q \in rows}

\* Mutant of Lowest: any free seat.
LowestOrHigher(s, rows) ==
    IF s = 0 THEN 1..Seats \subseteq Held(rows) ELSE s \notin Held(rows)

\* min(g.seat) of the seats no row of the snapshot holds, or null.
Lowest(s, rows) ==
    IF s = 0 THEN 1..Seats \subseteq Held(rows)
             ELSE s \notin Held(rows) /\ \A t \in 1..Seats : t < s => t \in Held(rows)

\* Mutant of Registered: the e-mail alone.
RegisteredEmail(r) == \E q \in listed : Email[q] = Email[r]

\* The where not exists on the number reads the snapshot; on conflict (email)
\* reads the index.
Registered(r) ==
    \/ \E q \in view[r] : Whatsapp[q] = Whatsapp[r]
    \/ \E q \in listed : Email[q] = Email[r]

Waiting(rows) == {q \in rows : seat[q] = 0}

\* Mutant of Answer: without the new row.
AnswerWithout(r, s) ==
    IF s = 0 THEN Cardinality(Waiting(view[r])) ELSE Cardinality(view[r] \ Waiting(view[r]))

\* Mutant of Answer: those before the last one.
AnswerBefore(r, s) ==
    IF s = 0 THEN Cardinality(Waiting(view[r])) - 1
             ELSE Cardinality(view[r] \ Waiting(view[r])) - 1

\* The place in line, or how many seats are taken now.
Answer(r, s) ==
    IF s = 0 THEN Cardinality(Waiting(view[r])) + 1
             ELSE Cardinality(view[r] \ Waiting(view[r])) + 1

\* The row, with what the answer will say of it.
Insert(r, s) ==
    /\ seat' = [seat EXCEPT ![r] = s]
    /\ told' = [told EXCEPT ![r] = Answer(r, s)]
    /\ turns' = turns + 1
    /\ place' = [place EXCEPT ![r] = turns + 1]
    /\ pc' = [pc EXCEPT ![r] = "written"]
    /\ view' = [view EXCEPT ![r] = {}]
    /\ UNCHANGED <<holder, listed, welcomed, account, erasures>>

\* The insert runs.  The unique constraint on seat reads the index, not the
\* snapshot, and a row it refuses ends the transaction.
Write(r) ==
    /\ pc[r] = "selected"
    /\ ~Registered(r)
    /\ \E s \in 0..Seats :
         /\ Lowest(s, view[r])
         /\ IF s # 0 /\ s \in Held(listed) THEN Abort(r, "violated") ELSE Insert(r, s)
    /\ UNCHANGED drops

\* Either guard leaves new_founder empty.
WriteNothing(r) ==
    /\ pc[r] = "selected"
    /\ Registered(r)
    /\ pc' = [pc EXCEPT ![r] = "duplicate"]
    /\ view' = [view EXCEPT ![r] = {}]
    /\ UNCHANGED <<holder, listed, seat, place, turns, told, welcomed, account, erasures, drops>>

\* COMMIT: the row and its two jobs appear together and the lock is released.
Commit(r) ==
    /\ pc[r] = "written"
    /\ listed' = listed \cup {r}
    /\ welcomed' = welcomed \cup {r}
    /\ holder' = Nobody
    /\ pc' = [pc EXCEPT ![r] = "done"]
    /\ UNCHANGED <<seat, place, turns, view, told, account, erasures, drops>>

\* order by (l.email = ...) desc, l.id asc
Match(r, q) ==
    /\ q \in listed
    /\ Same(r, q)
    /\ \A p \in listed : Same(r, p) =>
         \/ Email[q] = Email[r] /\ Email[p] # Email[r]
         \/ (Email[q] = Email[r] <=> Email[p] = Email[r]) /\ place[q] <= place[p]

Rank(q) == Cardinality({p \in Waiting(listed) : place[p] <= place[q]})

\* duplicate: the lookup, on a snapshot of its own.
Lookup(r) ==
    /\ pc[r] = "duplicate"
    /\ \E q \in listed :
         /\ Match(r, q)
         /\ told' = [told EXCEPT ![r] = IF seat[q] = 0 THEN Rank(q) ELSE 0]
    /\ pc' = [pc EXCEPT ![r] = "found"]
    /\ UNCHANGED <<holder, listed, seat, place, turns, view, welcomed, account, erasures, drops>>

\* The row was erased between the two statements: the transaction throws.
LookupThrows(r) ==
    /\ pc[r] = "duplicate"
    /\ \A q \in listed : ~Same(r, q)
    /\ Abort(r, "failed")
    /\ UNCHANGED drops

CommitLookup(r) ==
    /\ pc[r] = "found"
    /\ holder' = Nobody
    /\ pc' = [pc EXCEPT ![r] = "done"]
    /\ UNCHANGED <<listed, seat, place, turns, view, told, welcomed, account, erasures, drops>>

\* The connection is lost: Postgres rolls back and releases the lock.
Drop(r) ==
    /\ pc[r] \in Inside
    /\ drops < MaxDrops
    /\ drops' = drops + 1
    /\ Abort(r, "failed")

----------------------------------------------------------------------------
(* Everybody else. *)

\* An operator deletes a row, and with it, or not, the account's seat.  No code
\* under src/ does; nothing makes it wait for the advisory lock either.
Erase(r) ==
    /\ r \in listed
    /\ erasures < MaxErasures
    /\ erasures' = erasures + 1
    /\ listed' = listed \ {r}
    /\ \/ account' = [account EXCEPT ![Email[r]] = 0]
       \/ account' = account
    /\ UNCHANGED <<pc, holder, seat, place, turns, view, told, welcomed, drops>>

\* Mutant of Linkable: without the not exists.
LinkableTaken(e, q) == account[e] = 0 /\ Email[q] = e /\ seat[q] # 0

\* Mutant of Linkable: without `founder_seat is null`.
LinkableAgain(e, q) ==
    Email[q] = e /\ seat[q] # 0 /\ \A x \in Emails : account[x] # seat[q]

\* The account has no seat yet, and nobody has the one of this row.
Linkable(e, q) ==
    /\ account[e] = 0
    /\ Email[q] = e
    /\ seat[q] # 0
    /\ \A x \in Emails : account[x] # seat[q]

\* linkFounderSeat, when an account is created and on every sign-in.
LinkFounderSeat(e) ==
    /\ \E q \in listed : Linkable(e, q) /\ account' = [account EXCEPT ![e] = seat[q]]
    /\ UNCHANGED <<pc, holder, listed, seat, place, turns, view, told, welcomed, erasures, drops>>

Signup(r) ==
    \/ Lock(r)
    \/ Select(r)
    \/ Write(r)
    \/ WriteNothing(r)
    \/ Commit(r)
    \/ Lookup(r)
    \/ LookupThrows(r)
    \/ CommitLookup(r)

Next ==
    \/ \E r \in Requests : Signup(r) \/ Drop(r) \/ Erase(r)
    \/ \E e \in Emails : LinkFounderSeat(e)

Spec == Init /\ [][Next]_vars

\* A transaction that holds the lock goes on.  Nobody has to submit the form.
FairSpec == Spec /\ \A r \in Requests : WF_vars(pc[r] \in Inside /\ Signup(r))

----------------------------------------------------------------------------
(* Properties. *)

\* The type invariant.
TypeOK ==
    /\ pc \in [Requests -> {"new"} \cup Inside \cup Ended]
    /\ holder \in Requests \cup {Nobody}
    /\ listed \subseteq Requests
    /\ seat \in [Requests -> 0..Seats]
    /\ place \in [Requests -> Nat]
    /\ turns \in Nat
    /\ view \in [Requests -> SUBSET Requests]
    /\ told \in [Requests -> Nat]
    /\ welcomed \subseteq Requests
    /\ account \in [Emails -> 0..Seats]
    /\ erasures \in Nat
    /\ drops \in Nat

\* signup.ts: "Why this cannot race" - the unique constraint is a backstop no
\* signup ever meets, whatever commits, deletions and lost connections fall
\* between the lock, the snapshot and the insert of the others.
BackstopIsIdle == \A r \in Requests : pc[r] # "violated"

\* founders_list.whatsapp has no unique constraint: the lock and the where not
\* exists alone keep one number on one row.
NumberIsListedOnce ==
    \A r, q \in listed : Whatsapp[r] = Whatsapp[q] => r = q

\* Without deletions the seats are handed out in order of arrival: nobody holds
\* a seat with a lower one free, and nobody waits while a seat is free.
SeatsFillInOrder ==
    erasures = 0 =>
        \A r \in listed : \A s \in 1..Seats :
            seat[r] = 0 \/ s < seat[r] => s \in Held(listed)

\* The position somebody on the waitlist was told only ever gets better; until
\* a row is deleted it is exact, and a repeat submission is told the same.
PositionHolds ==
    /\ \A r \in Waiting(listed) :
         /\ Rank(r) <= told[r]
         /\ erasures = 0 => Rank(r) = told[r]
    /\ \A r \in Requests, q \in Waiting(listed) :
         pc[r] = "found" /\ erasures = 0 /\ Match(r, q) => told[r] = told[q]

\* An account's seat, which prices its subscription, is one its own address
\* was welcomed to, and no other account has it, though seats are recycled.
AccountSeatIsItsOwn ==
    \A e \in Emails : account[e] # 0 =>
        /\ \E q \in welcomed : Email[q] = e /\ seat[q] = account[e]
        /\ \A f \in Emails \ {e} : account[f] # account[e]

\* founder-seat.ts: "a seat can never be reassigned or moved by signing in
\* again", even when its owner came back to the list with another one.
AccountSeatStays ==
    [][\A e \in Emails : account[e] # 0 =>
          account'[e] = account[e] \/ (account'[e] = 0 /\ erasures' > erasures)]_vars

\* signup.ts: "a dead instance cannot wedge the queue" - whoever holds the lock
\* lets go of it, through every error path.
LockIsReleased == \A r \in Requests : holder = r ~> holder # r

\* Every transaction is one step of FounderList, taken at its COMMIT.
List == INSTANCE FounderList WITH
    seatOf <- [r \in Requests |-> IF r \in listed THEN seat[r] ELSE Absent]

ImplementsFounderList == List!Spec
=============================================================================

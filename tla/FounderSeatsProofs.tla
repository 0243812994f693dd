-------------------------- MODULE FounderSeatsProofs --------------------------
(***************************************************************************)
(* The founders list for every set of submissions and every number of      *)
(* seats.  What makes the properties inductive is the lock: inside it, the *)
(* snapshot of the insert is still the list, less the rows deleted since,  *)
(* and the uncommitted row still fits it.                                  *)
(***************************************************************************)
EXTENDS FounderSeats, FiniteSetTheorems, TLAPS

\* The lock is held by the one submission inside its transaction.
LockInv == \A r \in Requests : pc[r] \in Inside <=> holder = r

\* Committed rows belong to finished submissions, and each was welcomed.
CommittedInv == listed \subseteq welcomed /\ \A r \in welcomed : pc[r] = "done"

\* A snapshot is behind the list by deletions only.
SnapshotInv ==
    \A r \in Requests : pc[r] = "selected" =>
        /\ listed \subseteq view[r]
        /\ erasures = 0 => view[r] = listed

\* The seat fits the list.
Fits(s) == s = 0 \/ s \notin Held(listed)

\* An uncommitted row still fits the list.
PendingInv ==
    \A r \in Requests : pc[r] = "written" =>
        /\ \A q \in listed : ~Same(r, q)
        /\ Fits(seat[r])
        /\ erasures = 0 => Lowest(seat[r], listed)

\* One row per person, one person per seat.
ListInv ==
    \A r, q \in listed :
        Same(r, q) \/ (seat[r] = seat[q] /\ seat[r] # 0) => r = q

IInv ==
    /\ TypeOK
    /\ LockInv
    /\ CommittedInv
    /\ SnapshotInv
    /\ PendingInv
    /\ ListInv
    /\ BackstopIsIdle
    /\ SeatsFillInOrder
    /\ AccountSeatIsItsOwn

----------------------------------------------------------------------------
(* The lock. *)

\* Two submissions are never inside their transactions together.
LEMMA OneInside ==
    ASSUME IInv, NEW r \in Requests, NEW q \in Requests, pc[r] \in Inside, pc[q] \in Inside
    PROVE  r = q
BY DEF IInv, LockInv

\* The initial state satisfies the invariant.
LEMMA InitInv == Init => IInv
<1> SUFFICES ASSUME Init
             PROVE  IInv
  OBVIOUS
<1>1. TypeOK
  BY FounderSeatsAssumption DEF Init, TypeOK
<1>2. LockInv /\ CommittedInv /\ SnapshotInv /\ PendingInv
  BY FounderSeatsAssumption DEF Init, LockInv, CommittedInv, SnapshotInv, PendingInv, Inside
<1>3. ListInv /\ BackstopIsIdle /\ SeatsFillInOrder /\ AccountSeatIsItsOwn
  BY DEF Init, ListInv, BackstopIsIdle, SeatsFillInOrder, AccountSeatIsItsOwn
<1> QED BY <1>1, <1>2, <1>3 DEF IInv

\* What counting the rows of a snapshot gives.
LEMMA Counts ==
    ASSUME NEW S \in SUBSET Requests
    PROVE  Cardinality(S) \in Nat
BY FounderSeatsAssumption, FS_Subset, FS_CardinalityType

----------------------------------------------------------------------------
(* The steps of a signup. *)

\* A step of one submission that commits nothing and does not touch accounts:
\* what it must show about itself for the invariant to hold after it.
LEMMA PrivateStep ==
    ASSUME IInv, NEW r \in Requests, r \notin welcomed,
           UNCHANGED <<listed, welcomed, account, erasures>>,
           TypeOK', LockInv',
           \A q \in Requests \ {r} : pc'[q] = pc[q] /\ view'[q] = view[q] /\ seat'[q] = seat[q],
           pc'[r] # "violated",
           pc'[r] = "selected" => view'[r] = listed,
           pc'[r] = "written" =>
               /\ \A q \in listed : ~Same(r, q)
               /\ seat'[r] = 0 \/ seat'[r] \notin Held(listed)
               /\ erasures = 0 => Lowest(seat'[r], listed)
    PROVE  IInv'
<1> USE DEF IInv
<1>1. listed \subseteq Requests \ {r} /\ welcomed \subseteq Requests \ {r}
  BY DEF TypeOK, CommittedInv
<1>2. \A q \in listed : seat'[q] = seat[q]
  BY <1>1
<1>3. \A q \in welcomed : seat'[q] = seat[q] /\ pc'[q] = pc[q]
  BY <1>1
<1>4. Held(listed)' = Held(listed)
  BY <1>2 DEF Held
<1>5. \A s : Lowest(s, listed)' <=> Lowest(s, listed)
  BY <1>4 DEF Lowest
<1>6. CommittedInv'
  BY <1>3 DEF CommittedInv
<1>7. SnapshotInv'
  BY DEF SnapshotInv
<1>8. PendingInv'
  <2> SUFFICES ASSUME NEW q \in Requests, pc'[q] = "written"
               PROVE  /\ \A p \in listed : ~Same(q, p)
                      /\ seat'[q] = 0 \/ seat'[q] \notin Held(listed)
                      /\ erasures = 0 => Lowest(seat'[q], listed)
    BY <1>4, <1>5 DEF PendingInv, Fits, Same, Lowest
  <2>1. CASE q = r
    BY <2>1
  <2>2. CASE q # r
    BY <2>2 DEF PendingInv, Fits
  <2> QED BY <2>1, <2>2
<1>9. ListInv'
  BY <1>2 DEF ListInv, Same
<1>10. BackstopIsIdle'
  BY DEF BackstopIsIdle
<1>11. SeatsFillInOrder'
  BY <1>2, <1>4 DEF SeatsFillInOrder
<1>12. AccountSeatIsItsOwn'
  BY <1>3 DEF AccountSeatIsItsOwn
<1> QED BY <1>6, <1>7, <1>8, <1>9, <1>10, <1>11, <1>12

\* A submission inside its transaction has no committed row.
LEMMA InsideUncommitted ==
    ASSUME IInv, NEW r \in Requests, pc[r] # "done"
    PROVE  r \notin welcomed
BY DEF IInv, CommittedInv

\* An abort leaves the invariant as it was, unless it is the constraint's.
LEMMA AbortInv ==
    ASSUME IInv, NEW r \in Requests, pc[r] \in Inside, Abort(r, "failed"), drops' \in Nat
    PROVE  IInv'
<1>1. r \notin welcomed
  BY InsideUncommitted DEF Inside
<1>2. TypeOK'
  BY FounderSeatsAssumption DEF IInv, TypeOK, Abort, Ended
<1>3. LockInv'
  BY FounderSeatsAssumption, OneInside DEF IInv, TypeOK, LockInv, Abort, Inside
<1> QED BY <1>1, <1>2, <1>3, PrivateStep DEF Abort, IInv, TypeOK

\* Taking the lock.
LEMMA LockStep == ASSUME IInv, NEW r \in Requests, Lock(r) PROVE IInv'
<1>1. r \notin welcomed
  BY InsideUncommitted DEF Lock, Acquirable
<1>2. TypeOK'
  BY DEF IInv, TypeOK, Lock, Acquirable, Inside
<1>3. LockInv'
  BY FounderSeatsAssumption DEF IInv, TypeOK, LockInv, Lock, Acquirable, Inside
<1> QED BY <1>1, <1>2, <1>3, PrivateStep DEF Lock, Acquirable, IInv, TypeOK

\* Taking the snapshot.
LEMMA SelectStep == ASSUME IInv, NEW r \in Requests, Select(r) PROVE IInv'
<1>1. r \notin welcomed
  BY InsideUncommitted DEF Select
<1>2. TypeOK'
  BY DEF IInv, TypeOK, Select, Inside
<1>3. LockInv'
  BY DEF IInv, TypeOK, LockInv, Select, Inside
<1> QED BY <1>1, <1>2, <1>3, PrivateStep DEF Select, IInv, TypeOK

\* The insert: the snapshot holds every listed row, so the seat it picked is
\* free, and the unique constraint has nothing to refuse.
LEMMA WriteStep == ASSUME IInv, NEW r \in Requests, Write(r) PROVE IInv'
<1> USE DEF IInv
<1>1. PICK s \in 0..Seats :
        /\ Lowest(s, view[r])
        /\ IF s # 0 /\ s \in Held(listed) THEN Abort(r, "violated") ELSE Insert(r, s)
  BY DEF Write
<1>2. pc[r] = "selected" /\ ~Registered(r) /\ drops' = drops
  BY DEF Write
<1>3. listed \subseteq view[r] /\ (erasures = 0 => view[r] = listed)
  BY <1>2 DEF SnapshotInv
<1>4. s = 0 \/ s \notin Held(listed)
  BY <1>1, <1>3 DEF Lowest, Held
<1>5. Insert(r, s)
  BY <1>1, <1>4
<1>6. r \notin welcomed
  BY <1>2, InsideUncommitted
<1>7. TypeOK'
  <2>1. view[r] \in SUBSET Requests /\ Waiting(view[r]) \in SUBSET Requests
    BY DEF TypeOK, Waiting
  <2>2. told' \in [Requests -> Nat]
    BY <1>5, <2>1, Counts DEF Insert, Answer, TypeOK
  <2> QED BY <1>2, <1>5, <2>2 DEF Insert, Answer, TypeOK, Inside
<1>8. LockInv'
  BY <1>2, <1>5 DEF TypeOK, LockInv, Insert, Inside
<1>9. \A q \in listed : ~Same(r, q)
  BY <1>2, <1>3 DEF Registered, Same
<1>10. seat'[r] = s /\ pc'[r] = "written"
  BY <1>5 DEF Insert, TypeOK
<1>11. erasures = 0 => Lowest(s, listed)
  BY <1>1, <1>3
<1>12. \A q \in Requests \ {r} : pc'[q] = pc[q] /\ view'[q] = view[q] /\ seat'[q] = seat[q]
  BY <1>5 DEF Insert, TypeOK
<1>13. UNCHANGED <<listed, welcomed, account, erasures>>
  BY <1>5 DEF Insert
<1> QED BY <1>4, <1>6, <1>7, <1>8, <1>9, <1>10, <1>11, <1>12, <1>13, PrivateStep

\* The statement that inserted nothing.
LEMMA WriteNothingStep == ASSUME IInv, NEW r \in Requests, WriteNothing(r) PROVE IInv'
<1>1. r \notin welcomed
  BY InsideUncommitted DEF WriteNothing
<1>2. TypeOK'
  BY DEF IInv, TypeOK, WriteNothing, Inside
<1>3. LockInv'
  BY DEF IInv, TypeOK, LockInv, WriteNothing, Inside
<1> QED BY <1>1, <1>2, <1>3, PrivateStep DEF WriteNothing, IInv, TypeOK

\* The lookup of the existing row.
LEMMA LookupStep == ASSUME IInv, NEW r \in Requests, Lookup(r) PROVE IInv'
<1>1. r \notin welcomed
  BY InsideUncommitted DEF Lookup
<1>2. \A q \in Requests : Rank(q) \in Nat
  BY Counts DEF Rank, Waiting, IInv, TypeOK
<1>3. TypeOK'
  BY <1>2 DEF IInv, TypeOK, Lookup, Inside
<1>4. LockInv'
  BY DEF IInv, TypeOK, LockInv, Lookup, Inside
<1> QED BY <1>1, <1>3, <1>4, PrivateStep DEF Lookup, IInv, TypeOK

\* The end of a repeat submission.
LEMMA CommitLookupStep == ASSUME IInv, NEW r \in Requests, CommitLookup(r) PROVE IInv'
<1>1. r \notin welcomed
  BY InsideUncommitted DEF CommitLookup
<1>2. TypeOK'
  BY DEF IInv, TypeOK, CommitLookup, Ended
<1>3. LockInv'
  BY FounderSeatsAssumption, OneInside DEF IInv, TypeOK, LockInv, CommitLookup, Inside
<1> QED BY <1>1, <1>2, <1>3, PrivateStep DEF CommitLookup, IInv, TypeOK

\* The commit of a new row, which fits the list as PendingInv says.
LEMMA CommitStep == ASSUME IInv, NEW r \in Requests, Commit(r) PROVE IInv'
<1> USE DEF IInv
<1>1. pc[r] = "written" /\ r \notin welcomed /\ r \notin listed
  BY InsideUncommitted DEF Commit, CommittedInv
<1>2. /\ \A q \in listed : ~Same(r, q)
      /\ Fits(seat[r])
      /\ erasures = 0 => Lowest(seat[r], listed)
  BY <1>1 DEF PendingInv
<1>3. TypeOK'
  BY DEF TypeOK, Commit, Ended
<1>4. LockInv'
  BY <1>1, FounderSeatsAssumption, OneInside DEF TypeOK, LockInv, Commit, Inside
<1>5. CommittedInv'
  BY DEF Commit, TypeOK, CommittedInv
<1>6. \A q \in Requests : pc'[q] \notin {"selected", "written"}
  BY <1>1, OneInside DEF Commit, TypeOK, Inside
<1>7. SnapshotInv' /\ PendingInv'
  BY <1>6 DEF SnapshotInv, PendingInv
<1>8. ListInv'
  BY <1>2, FounderSeatsAssumption DEF Commit, ListInv, Same, Fits, Held, TypeOK
<1>9. BackstopIsIdle'
  BY DEF Commit, TypeOK, BackstopIsIdle
<1>10. SeatsFillInOrder'
  <2> SUFFICES ASSUME erasures = 0, NEW q \in listed \cup {r}, NEW s \in 1..Seats,
                      seat[q] = 0 \/ s < seat[q]
               PROVE  s \in {seat[p] : p \in listed \cup {r}}
    BY DEF Commit, SeatsFillInOrder, Held
  <2>1. CASE q \in listed
    BY <2>1 DEF SeatsFillInOrder, Held
  <2>2. CASE q = r
    BY <2>2, <1>2 DEF Lowest, Held
  <2> QED BY <2>1, <2>2
<1>11. AccountSeatIsItsOwn'
  BY DEF Commit, AccountSeatIsItsOwn
<1> QED BY <1>3, <1>4, <1>5, <1>7, <1>8, <1>9, <1>10, <1>11

----------------------------------------------------------------------------
(* The other actions, and the theorems. *)

\* A deletion only takes a row away, and perhaps its account's seat.
LEMMA EraseStep == ASSUME IInv, NEW r \in Requests, Erase(r) PROVE IInv'
<1> USE DEF IInv
<1>1. TypeOK'
  BY FounderSeatsAssumption DEF TypeOK, Erase
<1>2. erasures' # 0
  BY DEF TypeOK, Erase
<1>3. Held(listed)' \subseteq Held(listed)
  BY DEF Held, Erase
<1>4. LockInv' /\ CommittedInv' /\ ListInv' /\ BackstopIsIdle' /\ SeatsFillInOrder'
  BY <1>2 DEF Erase, LockInv, CommittedInv, ListInv, Same, BackstopIsIdle, SeatsFillInOrder
<1>5. SnapshotInv' /\ PendingInv'
  BY <1>2, <1>3 DEF Erase, SnapshotInv, PendingInv, Fits, Same
<1>6. AccountSeatIsItsOwn'
  BY DEF Erase, AccountSeatIsItsOwn, TypeOK
<1> QED BY <1>1, <1>4, <1>5, <1>6

\* Linking an account copies a listed seat no account has.
LEMMA LinkStep == ASSUME IInv, NEW e \in Emails, LinkFounderSeat(e) PROVE IInv'
<1> USE DEF IInv
<1>1. TypeOK'
  BY DEF TypeOK, LinkFounderSeat, Linkable
<1>2. LockInv' /\ CommittedInv' /\ BackstopIsIdle'
  BY DEF LinkFounderSeat, Linkable, LockInv, CommittedInv, BackstopIsIdle
<1>3. SnapshotInv' /\ PendingInv' /\ ListInv' /\ SeatsFillInOrder'
  BY DEF LinkFounderSeat, Linkable, SnapshotInv, PendingInv, Fits, Lowest, Held, Same, ListInv,
     SeatsFillInOrder
<1>4. AccountSeatIsItsOwn'
  BY DEF LinkFounderSeat, Linkable, AccountSeatIsItsOwn, CommittedInv, TypeOK
<1> QED BY <1>1, <1>2, <1>3, <1>4

\* Every step of a signup, and the loss of its connection, keeps the invariant.
LEMMA SignupStep ==
    ASSUME IInv, NEW r \in Requests, Signup(r) \/ Drop(r)
    PROVE  IInv'
<1>1. CASE LookupThrows(r)
  BY <1>1, AbortInv DEF LookupThrows, Inside, IInv, TypeOK
<1>2. CASE Drop(r)
  BY <1>2, AbortInv DEF Drop, IInv, TypeOK
<1> QED
  BY <1>1, <1>2, LockStep, SelectStep, WriteStep, WriteNothingStep, CommitStep, LookupStep,
     CommitLookupStep DEF Signup

\* A step that changes nothing keeps the invariant.
LEMMA StutterStep == ASSUME IInv, UNCHANGED vars PROVE IInv'
<1> USE DEF IInv, vars
<1>1. TypeOK' /\ LockInv' /\ CommittedInv' /\ BackstopIsIdle' /\ AccountSeatIsItsOwn'
  BY DEF TypeOK, LockInv, CommittedInv, BackstopIsIdle, AccountSeatIsItsOwn
<1>2. SnapshotInv' /\ PendingInv' /\ ListInv' /\ SeatsFillInOrder'
  BY DEF SnapshotInv, PendingInv, Fits, Lowest, Held, Same, ListInv, SeatsFillInOrder
<1> QED BY <1>1, <1>2

\* The invariant holds in every reachable state.
THEOREM Invariance == Spec => []IInv
<1>1. IInv /\ [Next]_vars => IInv'
  BY SignupStep, EraseStep, LinkStep, StutterStep DEF Next
<1> QED BY <1>1, InitInv, PTL DEF Spec

\* The columns and the transaction state keep their ranges.
THEOREM TypeCorrect == Spec => []TypeOK
BY Invariance, PTL DEF IInv

\* No signup dies on the unique constraint of the seat: the lock alone keeps
\* every seat the insert picks free until its commit.
THEOREM TheLockSuffices == Spec => []BackstopIsIdle
BY Invariance, PTL DEF IInv

\* One number has one row, with no constraint to enforce it.
THEOREM OneRowPerNumber == Spec => []NumberIsListedOnce
<1>1. IInv => NumberIsListedOnce
  BY DEF IInv, ListInv, NumberIsListedOnce, Same
<1> QED BY <1>1, Invariance, PTL

\* Until a row is deleted, nobody waits while a seat is free and nobody holds a
\* seat above a free one.
THEOREM SeatsGoInOrder == Spec => []SeatsFillInOrder
BY Invariance, PTL DEF IInv

\* Accounts hold the seats their own addresses were given, one account each.
THEOREM AccountsKeepToTheirSeats == Spec => []AccountSeatIsItsOwn
BY Invariance, PTL DEF IInv

\* No sign-in moves an account's seat: only a deletion takes it away.
THEOREM SigningInMovesNothing == Spec => AccountSeatStays
<1>1. ASSUME IInv, [Next]_vars, NEW e \in Emails, account[e] # 0
      PROVE  account'[e] = account[e] \/ (account'[e] = 0 /\ erasures' > erasures)
  <2> USE <1>1 DEF IInv, TypeOK
  <2>1. ASSUME NEW r \in Requests, Signup(r) \/ Drop(r)
        PROVE  account' = account
    BY <2>1 DEF Signup, Drop, Abort, Insert, Lock, Select, Write, WriteNothing, Commit, Lookup,
       LookupThrows, CommitLookup
  <2>2. ASSUME NEW r \in Requests, Erase(r)
        PROVE  account'[e] = account[e] \/ (account'[e] = 0 /\ erasures' > erasures)
    BY <2>2, FounderSeatsAssumption DEF Erase
  <2>3. ASSUME NEW f \in Emails, LinkFounderSeat(f)
        PROVE  account'[e] = account[e]
    BY <2>3 DEF LinkFounderSeat, Linkable
  <2>4. CASE UNCHANGED vars
    BY <2>4 DEF vars
  <2> QED BY <2>1, <2>2, <2>3, <2>4 DEF Next
<1>2. IInv /\ [Next]_vars =>
        [\A e \in Emails : account[e] # 0 =>
            account'[e] = account[e] \/ (account'[e] = 0 /\ erasures' > erasures)]_vars
  BY <1>1
<1> QED BY <1>2, Invariance, PTL DEF Spec, AccountSeatStays

----------------------------------------------------------------------------
(* The position.  Ranks count rows of a list that changes, so the          *)
(* invariant is about what does not: a new row comes after every committed *)
(* one, and was told a place no better than the one it will have.          *)

\* Ids are handed out in order, and the row about to commit has the last one.
PlaceInv ==
    /\ \A q \in Requests : place[q] <= turns
    /\ \A q, p \in listed : place[q] = place[p] => q = p
    /\ \A r \in Requests : pc[r] = "written" => \A q \in listed : place[q] < place[r]

\* Who is told n has at most n - 1 others waiting in front, and exactly those
\* until a row is deleted.
Promised(n) ==
    /\ Cardinality(Waiting(listed)) + 1 <= n
    /\ erasures = 0 => Cardinality(Waiting(listed)) + 1 = n

\* An uncommitted row of the waitlist was told where it will stand.
PendingTold ==
    \A r \in Requests : pc[r] = "written" /\ seat[r] = 0 => Promised(told[r])

PInv == PlaceInv /\ PendingTold /\ PositionHolds

\* The rows up to q.
Ahead(q) == {p \in Waiting(listed) : place[p] <= place[q]}

\* The initial list is empty.
LEMMA InitPositions == Init => PInv
BY FounderSeatsAssumption DEF Init, PInv, PlaceInv, PendingTold, PositionHolds, Waiting

\* Sets of submissions are finite, and a smaller one has no more members.
LEMMA Fewer ==
    ASSUME NEW S \in SUBSET Requests, NEW T \in SUBSET S
    PROVE  /\ IsFiniteSet(S) /\ IsFiniteSet(T)
           /\ Cardinality(S) \in Nat /\ Cardinality(T) \in Nat
           /\ Cardinality(T) <= Cardinality(S)
<1>1. IsFiniteSet(S)
  BY FounderSeatsAssumption, FS_Subset
<1> QED BY <1>1, FS_Subset, FS_CardinalityType

\* What one submission writes of its own row moves nobody's rank.
LEMMA SameRanks ==
    ASSUME TypeOK, NEW r \in Requests, r \notin listed, UNCHANGED listed,
           \A q \in Requests \ {r} : seat'[q] = seat[q] /\ place'[q] = place[q]
    PROVE  /\ Waiting(listed)' = Waiting(listed)
           /\ \A q \in listed : Rank(q)' = Rank(q)
           /\ \A q \in listed : Match(r, q)' <=> Match(r, q)
<1>1. \A q \in listed : q \in Requests \ {r}
  BY DEF TypeOK
<1>2. Waiting(listed)' = Waiting(listed)
  BY <1>1 DEF Waiting
<1>3. \A q \in listed : Rank(q)' = Rank(q)
  <2> SUFFICES ASSUME NEW q \in listed
               PROVE  {p \in Waiting(listed) : place'[p] <= place'[q]} = Ahead(q)
    BY <1>2 DEF Rank, Ahead
  <2> QED BY <1>1 DEF Waiting, Ahead
<1>4. \A q \in listed : Match(r, q)' <=> Match(r, q)
  BY <1>1 DEF Match, Same
<1> QED BY <1>2, <1>3, <1>4

\* A match is the only one: no two rows have the same id.
LEMMA OneMatch ==
    ASSUME TypeOK, PlaceInv, NEW r \in Requests, NEW q, NEW p, Match(r, q), Match(r, p)
    PROVE  q = p
<1>1. q \in listed /\ p \in listed /\ place[q] \in Nat /\ place[p] \in Nat
  BY DEF Match, TypeOK
<1>2. place[q] = place[p]
  BY <1>1 DEF Match
<1> QED BY <1>1, <1>2 DEF PlaceInv

\* A step of one submission that commits nothing: what it must show about itself.
LEMMA PrivatePosition ==
    ASSUME IInv, PInv, NEW r \in Requests, r \notin listed,
           UNCHANGED <<listed, erasures>>, PlaceInv',
           \A q \in Requests \ {r} : /\ pc'[q] = pc[q] /\ seat'[q] = seat[q]
                                     /\ place'[q] = place[q] /\ told'[q] = told[q],
           pc'[r] = "written" /\ seat'[r] = 0 => Promised(told'[r]),
           pc'[r] = "found" /\ erasures = 0 =>
               \A q \in Waiting(listed) : Match(r, q) => told'[r] = told[q]
    PROVE  PInv'
<1> USE DEF IInv, PInv
<1>1. \A q \in listed : q \in Requests \ {r}
  BY DEF TypeOK
<1>2. /\ Waiting(listed)' = Waiting(listed)
      /\ \A q \in listed : Rank(q)' = Rank(q)
      /\ \A q \in listed : Match(r, q)' <=> Match(r, q)
  BY SameRanks
<1>3. PendingTold'
  <2> SUFFICES ASSUME NEW q \in Requests, pc'[q] = "written", seat'[q] = 0
               PROVE  Promised(told'[q])
    BY <1>2 DEF PendingTold, Promised
  <2>1. CASE q = r
    BY <2>1
  <2>2. CASE q # r
    BY <2>2 DEF PendingTold
  <2> QED BY <2>1, <2>2
<1>4. \A q \in Waiting(listed) : Rank(q)' <= told'[q] /\ (erasures = 0 => Rank(q)' = told'[q])
  BY <1>1, <1>2 DEF PositionHolds, Waiting
<1>5. ASSUME NEW p \in Requests, NEW q \in Waiting(listed),
             pc'[p] = "found", erasures = 0, Match(p, q)'
      PROVE  told'[p] = told'[q]
  <2>0. q \in listed
    BY DEF Waiting
  <2>1. CASE p = r
    BY <1>1, <1>2, <1>5, <2>0, <2>1
  <2>2. CASE p # r
    <3>1. Match(p, q)
      BY <1>1, <1>5, <2>0 DEF Match, Same
    <3>2. pc[p] = "found" /\ told'[p] = told[p] /\ told'[q] = told[q]
      BY <1>1, <1>5, <2>0, <2>2
    <3> QED BY <1>5, <3>1, <3>2 DEF PositionHolds
  <2> QED BY <2>1, <2>2
<1>6. PositionHolds'
  BY <1>2, <1>4, <1>5 DEF PositionHolds
<1> QED BY <1>3, <1>6

\* The steps that put no row in the list and tell nobody a position.
LEMMA QuietPosition ==
    ASSUME IInv, PInv, NEW r \in Requests,
           \/ Lock(r) \/ Select(r) \/ WriteNothing(r) \/ CommitLookup(r)
           \/ pc[r] \in Inside /\ Abort(r, "failed")
    PROVE  PInv'
<1> USE DEF IInv, PInv
<1>1. r \notin listed
  BY InsideUncommitted DEF Lock, Acquirable, Select, WriteNothing, CommitLookup, Inside, CommittedInv
<1>2. pc'[r] \notin {"written", "found"} /\ pc' = [pc EXCEPT ![r] = pc'[r]]
  BY DEF Lock, Acquirable, Select, WriteNothing, CommitLookup, Abort, TypeOK
<1>3. /\ UNCHANGED <<listed, erasures, turns>>
      /\ \A q \in Requests \ {r} : seat'[q] = seat[q] /\ place'[q] = place[q] /\ told'[q] = told[q]
      /\ place'[r] \in {0, place[r]}
  BY DEF Lock, Acquirable, Select, WriteNothing, CommitLookup, Abort, TypeOK
<1>4. \A q \in Requests \ {r} : pc'[q] = pc[q]
  BY <1>2 DEF TypeOK
<1>5. PlaceInv'
  BY <1>1, <1>2, <1>3, <1>4 DEF PlaceInv, TypeOK
<1> QED BY <1>1, <1>2, <1>3, <1>4, <1>5, PrivatePosition

\* The insert tells the place behind everybody of its snapshot, where nobody of
\* the list is missing.
LEMMA WritePosition == ASSUME IInv, PInv, NEW r \in Requests, Write(r) PROVE PInv'
<1> USE DEF IInv, PInv
<1>1. pc[r] = "selected" /\ r \notin listed
  BY InsideUncommitted DEF Write, CommittedInv
<1>2. listed \subseteq view[r] /\ (erasures = 0 => view[r] = listed)
  BY <1>1 DEF SnapshotInv
<1>3. PICK s \in 0..Seats : Insert(r, s)
  <2>1. PICK s \in 0..Seats :
          /\ Lowest(s, view[r])
          /\ IF s # 0 /\ s \in Held(listed) THEN Abort(r, "violated") ELSE Insert(r, s)
    BY DEF Write
  <2>2. s = 0 \/ s \notin Held(listed)
    BY <1>2, <2>1 DEF Lowest, Held
  <2> QED BY <2>1, <2>2
<1>4. /\ UNCHANGED <<listed, erasures>> /\ turns' = turns + 1
      /\ pc'[r] = "written" /\ seat'[r] = s /\ place'[r] = turns + 1 /\ told'[r] = Answer(r, s)
      /\ \A q \in Requests \ {r} : /\ pc'[q] = pc[q] /\ seat'[q] = seat[q]
                                   /\ place'[q] = place[q] /\ told'[q] = told[q]
  BY <1>3 DEF Insert, TypeOK
<1>5. PlaceInv'
  <2>1. \A q \in Requests : place'[q] <= turns'
    BY <1>4 DEF PlaceInv, TypeOK
  <2>2. \A q, p \in listed' : place'[q] = place'[p] => q = p
    BY <1>1, <1>4 DEF PlaceInv, TypeOK
  <2>3. ASSUME NEW p \in Requests, pc'[p] = "written"
        PROVE  \A q \in listed' : place'[q] < place'[p]
    <3>1. p = r
      BY <1>1, <1>4, <2>3, OneInside DEF Inside
    <3>2. \A q \in listed : place'[q] = place[q] /\ place[q] <= turns /\ place[q] \in Nat
      BY <1>1, <1>4 DEF PlaceInv, TypeOK
    <3> QED BY <1>4, <3>1, <3>2 DEF TypeOK
  <2> QED BY <2>1, <2>2, <2>3 DEF PlaceInv
<1>6. seat'[r] = 0 => Promised(told'[r])
  <2> SUFFICES ASSUME s = 0
               PROVE  Promised(Cardinality(Waiting(view[r])) + 1)
    BY <1>4 DEF Answer
  <2>1. /\ Waiting(view[r]) \in SUBSET Requests
        /\ Waiting(listed) \in SUBSET Waiting(view[r])
        /\ erasures = 0 => Waiting(listed) = Waiting(view[r])
    BY <1>2 DEF Waiting, TypeOK
  <2>2. /\ Cardinality(Waiting(view[r])) \in Nat /\ Cardinality(Waiting(listed)) \in Nat
        /\ Cardinality(Waiting(listed)) <= Cardinality(Waiting(view[r]))
    BY <2>1, Fewer
  <2> QED BY <2>1, <2>2 DEF Promised
<1> QED BY <1>1, <1>4, <1>5, <1>6, PrivatePosition

\* The lookup is told what the row was told, as it finds the only match.
LEMMA LookupPosition == ASSUME IInv, PInv, NEW r \in Requests, Lookup(r) PROVE PInv'
<1> USE DEF IInv, PInv
<1>1. pc[r] = "duplicate" /\ r \notin listed
  BY InsideUncommitted DEF Lookup, CommittedInv
<1>2. PICK q \in listed :
        Match(r, q) /\ told' = [told EXCEPT ![r] = IF seat[q] = 0 THEN Rank(q) ELSE 0]
  BY DEF Lookup
<1>3. /\ UNCHANGED <<listed, erasures, turns, seat, place>>
      /\ pc'[r] = "found" /\ \A p \in Requests \ {r} : pc'[p] = pc[p] /\ told'[p] = told[p]
  BY <1>2 DEF Lookup, TypeOK
<1>4. PlaceInv'
  BY <1>3 DEF PlaceInv
<1>5. ASSUME erasures = 0, NEW p \in Waiting(listed), Match(r, p)
      PROVE  told'[r] = told[p]
  <2>1. p = q
    BY <1>2, <1>5, OneMatch
  <2>2. seat[q] = 0 /\ Rank(q) = told[q]
    BY <1>5, <2>1 DEF Waiting, PositionHolds
  <2> QED BY <1>2, <2>1, <2>2 DEF TypeOK
<1> QED BY <1>1, <1>3, <1>4, <1>5, PrivatePosition

\* The new row goes to the end of the line: it moves nobody.
LEMMA CommitPosition == ASSUME IInv, PInv, NEW r \in Requests, Commit(r) PROVE PInv'
<1> USE DEF IInv, PInv
<1>1. pc[r] = "written" /\ r \notin listed /\ listed \subseteq Requests
  BY InsideUncommitted DEF Commit, CommittedInv, TypeOK
<1>2. listed' = listed \cup {r} /\ UNCHANGED <<seat, place, turns, told, erasures>>
  BY DEF Commit
<1>3. \A q \in Requests : pc'[q] \notin {"written", "found"}
  BY <1>1, OneInside DEF Commit, TypeOK, Inside
<1>4. place[r] \in Nat /\ \A q \in listed : place[q] < place[r] /\ place[q] \in Nat
  BY <1>1 DEF PlaceInv, TypeOK
<1>5. PlaceInv'
  BY <1>2, <1>3, <1>4 DEF PlaceInv
<1>6. PendingTold'
  BY <1>3 DEF PendingTold
<1>7. ASSUME NEW q \in listed, seat[q] = 0
      PROVE  Rank(q)' = Rank(q)
  <2>1. {p \in Waiting(listed \cup {r}) : place[p] <= place[q]} = Ahead(q)
    BY <1>4 DEF Waiting, Ahead
  <2> QED BY <1>2, <2>1 DEF Rank, Waiting, Ahead
<1>8. ASSUME seat[r] = 0
      PROVE  Rank(r)' = Cardinality(Waiting(listed)) + 1
  <2>1. {p \in Waiting(listed \cup {r}) : place[p] <= place[r]} = Waiting(listed) \cup {r}
    BY <1>4, <1>8 DEF Waiting
  <2>2. IsFiniteSet(Waiting(listed)) /\ r \notin Waiting(listed)
    BY <1>1, Fewer DEF Waiting
  <2>3. Cardinality(Waiting(listed) \cup {r}) = Cardinality(Waiting(listed)) + 1
    BY <2>2, FS_AddElement
  <2> QED BY <1>2, <2>1, <2>3 DEF Rank, Waiting
<1>9. ASSUME NEW q \in Waiting(listed)'
      PROVE  Rank(q)' <= told'[q] /\ (erasures' = 0 => Rank(q)' = told'[q])
  <2>1. CASE q = r
    BY <1>1, <1>2, <1>8, <1>9, <2>1 DEF PendingTold, Promised, Waiting
  <2>2. CASE q # r
    <3>1. q \in Waiting(listed)
      BY <1>2, <1>9, <2>2 DEF Waiting
    <3> QED BY <1>2, <1>7, <3>1 DEF PositionHolds, Waiting
  <2> QED BY <2>1, <2>2
<1>10. PositionHolds'
  BY <1>3, <1>9 DEF PositionHolds
<1> QED BY <1>5, <1>6, <1>10

\* A deletion moves everybody behind it one place up.
LEMMA ErasePosition == ASSUME IInv, PInv, NEW r \in Requests, Erase(r) PROVE PInv'
<1> USE DEF IInv, PInv
<1>1. /\ listed' = listed \ {r} /\ UNCHANGED <<pc, seat, place, turns, told>>
      /\ erasures' # 0
  BY DEF Erase, TypeOK
<1>2. Waiting(listed)' \in SUBSET Waiting(listed) /\ Waiting(listed) \in SUBSET Requests
  BY <1>1 DEF Waiting, TypeOK
<1>3. PlaceInv'
  BY <1>1 DEF PlaceInv
<1>4. PendingTold'
  <2>1. /\ Cardinality(Waiting(listed)) \in Nat /\ Cardinality(Waiting(listed)') \in Nat
        /\ Cardinality(Waiting(listed)') <= Cardinality(Waiting(listed))
    BY <1>2, Fewer
  <2>2. \A q \in Requests : told[q] \in Nat
    BY DEF TypeOK
  <2> QED BY <1>1, <2>1, <2>2 DEF PendingTold, Promised
<1>5. ASSUME NEW q \in Waiting(listed)'
      PROVE  Rank(q)' <= told'[q]
  <2>1. q \in Waiting(listed) /\ q \in Requests
    BY <1>2
  <2>2. Ahead(q)' \in SUBSET Ahead(q) /\ Ahead(q) \in SUBSET Requests
    BY <1>1, <1>2 DEF Ahead
  <2>3. /\ Cardinality(Ahead(q)) \in Nat /\ Cardinality(Ahead(q)') \in Nat
        /\ Cardinality(Ahead(q)') <= Cardinality(Ahead(q))
    BY <2>2, Fewer
  <2>4. Cardinality(Ahead(q)) <= told[q]
    BY <2>1 DEF PositionHolds, Rank, Ahead
  <2>5. Rank(q)' = Cardinality(Ahead(q)')
    BY DEF Rank, Ahead
  <2> QED BY <1>1, <2>1, <2>3, <2>4, <2>5 DEF TypeOK
<1>6. PositionHolds'
  BY <1>1, <1>5 DEF PositionHolds
<1> QED BY <1>3, <1>4, <1>6

\* A step that touches neither rows nor transactions moves nobody.
LEMMA StillPosition ==
    ASSUME PInv, UNCHANGED <<pc, listed, seat, place, turns, told, erasures>>
    PROVE  PInv'
BY DEF PInv, PlaceInv, PendingTold, Promised, PositionHolds, Waiting, Rank, Match

\* What somebody on the waitlist was told only gets better, and is exact until a
\* row is deleted, for every number of submissions.
THEOREM PositionsOnlyImprove == Spec => []PositionHolds
<1>1. ASSUME IInv, PInv, NEW r \in Requests, Signup(r) \/ Drop(r)
      PROVE  PInv'
  <2>1. CASE LookupThrows(r)
    BY <1>1, <2>1, QuietPosition DEF LookupThrows, Inside
  <2>2. CASE Drop(r)
    BY <1>1, <2>2, QuietPosition DEF Drop
  <2> QED BY <1>1, <2>1, <2>2, QuietPosition, WritePosition, LookupPosition, CommitPosition
          DEF Signup
<1>2. ASSUME IInv, PInv, NEW e \in Emails, LinkFounderSeat(e)
      PROVE  PInv'
  BY <1>2, StillPosition DEF LinkFounderSeat
<1>3. ASSUME PInv, UNCHANGED vars
      PROVE  PInv'
  BY <1>3, StillPosition DEF vars
<1>4. IInv /\ PInv /\ [Next]_vars => PInv'
  BY <1>1, <1>2, <1>3, ErasePosition DEF Next
<1>5. PInv => PositionHolds
  BY DEF PInv
<1> QED BY <1>4, <1>5, InitPositions, Invariance, PTL DEF Spec

----------------------------------------------------------------------------
(* The refinement of FounderList. *)

\* The seat of FounderList that a row stands for.
SeatOf == [r \in Requests |-> IF r \in listed THEN seat[r] ELSE Absent]

\* FounderList sees the rows and the seats of founders_list.
LEMMA SameList == TypeOK => List!OnList = listed /\ List!Held = Held(listed)
<1> SUFFICES ASSUME TypeOK
             PROVE  List!OnList = listed /\ List!Held = Held(listed)
  OBVIOUS
<1>1. \A r \in Requests : seat[r] # Absent
  BY FounderSeatsAssumption DEF TypeOK
<1>2. List!OnList = listed
  BY <1>1 DEF TypeOK, List!OnList
<1>3. List!Held = Held(listed)
  <2>1. \A r \in listed : SeatOf[r] = seat[r]
    BY DEF TypeOK, SeatOf
  <2> QED BY <1>2, <2>1 DEF List!Held, Held, SeatOf
<1> QED BY <1>2, <1>3

\* A step that leaves the list and its seats alone is a stutter.
LEMMA SameSeats ==
    ASSUME UNCHANGED <<listed, erasures>>, \A q \in listed : seat'[q] = seat[q]
    PROVE  UNCHANGED List!vars
BY DEF List!vars

\* Every transaction takes effect at its commit, as if nothing else had run:
\* the signup implements the atomic list.
THEOREM Implements == Spec => ImplementsFounderList
<1>1. Init => List!Init
  BY DEF Init, List!Init
<1>2. ASSUME IInv, [Next]_vars
      PROVE  [List!Next]_(List!vars)
  <2> USE <1>2 DEF IInv
  <2>1. ASSUME NEW r \in Requests, Signup(r) \/ Drop(r), ~Commit(r)
        PROVE  UNCHANGED List!vars
    <3>1. pc[r] # "done" => r \notin listed
      BY DEF CommittedInv
    <3>2. listed \subseteq Requests /\ UNCHANGED <<listed, erasures>>
      BY <2>1 DEF TypeOK, Signup, Drop, Abort, Insert, Lock, Select, Write, WriteNothing,
         Lookup, LookupThrows, CommitLookup
    <3>3. \A q \in Requests \ {r} : seat'[q] = seat[q]
      BY <2>1 DEF TypeOK, Signup, Drop, Abort, Insert, Lock, Select, Write, WriteNothing,
         Lookup, LookupThrows, CommitLookup
    <3>4. pc[r] # "done"
      BY <2>1 DEF Signup, Drop, Lock, Select, Write, WriteNothing, Lookup, LookupThrows,
         CommitLookup, Inside
    <3> QED BY <3>1, <3>2, <3>3, <3>4, SameSeats
  <2>2. ASSUME NEW r \in Requests, Commit(r)
        PROVE  List!Join(r)
    <3>1. r \notin listed /\ pc[r] = "written"
      BY <2>2 DEF CommittedInv, Commit
    <3>2. /\ \A q \in listed : ~Same(r, q)
          /\ seat[r] = 0 \/ seat[r] \notin Held(listed)
          /\ erasures = 0 => Lowest(seat[r], listed)
      BY <3>1 DEF PendingInv, Fits
    <3>3. /\ \A q \in List!OnList : ~List!Same(r, q)
          /\ seat[r] \in 0..Seats
          /\ seat[r] = 0 \/ seat[r] \notin List!Held
          /\ erasures = 0 => List!Lowest(seat[r])
      BY <3>2, SameList DEF TypeOK, Same, List!Same, Lowest, List!Lowest
    <3>4. SeatOf' = [SeatOf EXCEPT ![r] = seat[r]] /\ erasures' = erasures
      BY <2>2 DEF Commit, SeatOf, TypeOK
    <3> QED BY <3>3, <3>4 DEF List!Join, SeatOf
  <2>3. ASSUME NEW r \in Requests, Erase(r)
        PROVE  List!Leave(r)
    BY <2>3, SameList DEF Erase, List!Leave, TypeOK
  <2>4. ASSUME NEW e \in Emails, LinkFounderSeat(e)
        PROVE  UNCHANGED List!vars
    BY <2>4, SameSeats DEF LinkFounderSeat, Linkable
  <2>5. CASE UNCHANGED vars
    BY <2>5, SameSeats DEF vars
  <2> QED BY <2>1, <2>2, <2>3, <2>4, <2>5 DEF Next, List!Next
<1> QED BY <1>1, <1>2, Invariance, PTL DEF Spec, ImplementsFounderList, List!Spec
=============================================================================

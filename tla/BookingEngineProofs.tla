------------------------- MODULE BookingEngineProofs -------------------------
(* Proofs about BookingEngine, for all requests, users, seats and slots. *)
EXTENDS BookingEngine, TLAPS

USE DEF env, locks, rows

\* Every request has a key for its user and date.
LEMMA KeyType == TypeOK => \A q \in Requests : UserKey(want[q]) \in UserKeys
BY DEF UserKey, UserKeys, Claims, TypeOK

\* The initial states have their types.
LEMMA TypeInit == Init => TypeOK
BY DEF Init, TypeOK, Steps, Answers

\* No step leaves the types.
LEMMA TypeStep == TypeOK /\ [Next]_vars => TypeOK'
<1> SUFFICES ASSUME TypeOK, [Next]_vars PROVE TypeOK'
  OBVIOUS
<1> USE DEF TypeOK
<1>1. ASSUME NEW q \in Requests, Begin(q) \/ ReadSeat(q) \/ ReadUser(q) \/ Precheck(q) \/ Recheck(q)
      PROVE  TypeOK'
  BY <1>1 DEF Begin, ReadSeat, ReadUser, Precheck, Recheck, Goto, Return, Steps, Answers
<1>2. ASSUME NEW q \in Requests, LockUser(q) \/ UnlockUser(q) \/ LeftAtUserLock(q) PROVE TypeOK'
  <2>1. UserKey(want[q]) \in UserKeys
    BY KeyType DEF TypeOK
  <2> QED BY <1>2, <2>1 DEF LockUser, UnlockUser, LeftAtUserLock, Goto, Return, Steps, Answers
<1>3. ASSUME NEW q \in Requests, LockSeat(q) \/ UnlockSeat(q) \/ LeftAtSeatLock(q) PROVE TypeOK'
  <2>1. SeatKey(want[q]) \in SeatKeys
    BY DEF SeatKey, SeatKeys, Claims
  <2> QED BY <1>3, <2>1 DEF LockSeat, UnlockSeat, LeftAtSeatLock, Goto, Return, Steps, Answers
<1>4. ASSUME NEW q \in Requests, \/ Insert(q) \/ StatementFails(q)
                                 \/ HandlerDies(q) \/ LateInsert(q)
      PROVE  TypeOK'
  BY <1>4 DEF Insert, StatementFails, HandlerDies, LateInsert, Goto, Return, Steps, Answers
<1>5. ASSUME NEW k, UserLeaseEnds(k) \/ SeatLeaseEnds(k) PROVE TypeOK'
  BY <1>5 DEF UserLeaseEnds, SeatLeaseEnds
<1>6. CASE RedisToggles
  BY <1>6 DEF RedisToggles
<1>7. ASSUME NEW c \in Claims, Close(c) PROVE TypeOK'
  BY <1>7 DEF Close
<1>8. CASE \/ \E x \in Seats : SeatOut(x)
           \/ \E u \in Users : Ban(u)
           \/ \E t \in Slots : LeadTimeEnds(t)
  BY <1>8 DEF SeatOut, Ban, LeadTimeEnds
<1>9. CASE UNCHANGED vars
  BY <1>9 DEF vars
<1> QED
  BY <1>1, <1>2, <1>3, <1>4, <1>5, <1>6, <1>7, <1>8, <1>9 DEF Next, Step

\* The steps of requests, the keys and the table keep their types.
THEOREM TypeCorrect == Spec => []TypeOK
BY TypeInit, TypeStep, PTL DEF Spec

-------------------------------------------------------------------------------
(* The table is a SeatLedger. *)

\* Every step grants a claim nothing clashes with, gives one up, or leaves the
\* active rows alone.
LEMMA LedgerStep == TypeOK /\ [Next]_vars => [Ledger!LedgerNext]_active
<1> SUFFICES ASSUME TypeOK, [Next]_vars PROVE Ledger!LedgerNext \/ UNCHANGED active
  OBVIOUS
<1>1. ASSUME NEW q \in Requests, ~Refused(want[q]), active' = active \cup {want[q]}
      PROVE  Ledger!LedgerNext
  <2>1. want[q] \in Claims
    BY DEF TypeOK
  <2>2. \A b \in active : ~Ledger!Clash(b, want[q])
    BY <1>1 DEF Refused, SeatConflict, UserConflict, Overlap, Ledger!Clash, Ledger!Overlap
  <2> QED BY <1>1, <2>1, <2>2 DEF Ledger!LedgerNext, Ledger!Grant, Ledger!Claims, Claims
<1>2. ASSUME NEW q \in Requests, Insert(q) \/ LateInsert(q)
      PROVE  Ledger!LedgerNext \/ UNCHANGED active
  BY <1>1, <1>2 DEF Insert, LateInsert
<1>3. ASSUME NEW c \in Claims, Close(c) PROVE Ledger!LedgerNext
  BY <1>3 DEF Close, Ledger!LedgerNext, Ledger!Release, Ledger!Claims, Claims
<1>4. ASSUME NEW q \in Requests, \/ Begin(q) \/ ReadSeat(q) \/ ReadUser(q) \/ LockUser(q)
                                 \/ LockSeat(q) \/ Precheck(q) \/ Recheck(q) \/ UnlockSeat(q)
                                 \/ UnlockUser(q) \/ HandlerDies(q) \/ StatementFails(q)
                                 \/ LeftAtUserLock(q) \/ LeftAtSeatLock(q)
      PROVE  UNCHANGED active
  BY <1>4 DEF Begin, ReadSeat, ReadUser, LockUser, LockSeat, Precheck, Recheck, UnlockSeat,
              UnlockUser, HandlerDies, StatementFails, LeftAtUserLock, LeftAtSeatLock
<1>5. ASSUME NEW x, \/ UserLeaseEnds(x) \/ SeatLeaseEnds(x) \/ SeatOut(x) \/ Ban(x)
                    \/ LeadTimeEnds(x) \/ RedisToggles \/ UNCHANGED vars
      PROVE  UNCHANGED active
  BY <1>5 DEF UserLeaseEnds, SeatLeaseEnds, SeatOut, Ban, LeadTimeEnds, RedisToggles, vars
<1> QED
  BY <1>2, <1>3, <1>4, <1>5 DEF Next, Step

\* Whatever the locks, Redis and the handlers do, active rows never clash.
THEOREM LedgerImplemented == Spec => ImplementsLedger
<1>1. Init => Ledger!LedgerInit
  BY DEF Init, Ledger!LedgerInit
<1> QED
  BY <1>1, LedgerStep, TypeCorrect, PTL DEF Spec, ImplementsLedger, Ledger!LedgerSpec

\* No two active rows overlap on one seat or for one user, at any time: what the
\* ledger is for.
THEOREM NoDoubleBooking == Spec => []Ledger!Exclusive
<1>1. Init => Ledger!Exclusive
  BY DEF Init, Ledger!Exclusive
<1>2. Ledger!Exclusive /\ [Ledger!LedgerNext]_active => Ledger!Exclusive'
  <2> SUFFICES ASSUME Ledger!Exclusive, [Ledger!LedgerNext]_active
               PROVE  \A b, c \in active' : Ledger!Clash(b, c) => b = c
    BY DEF Ledger!Exclusive, Ledger!Clash, Ledger!Overlap
  <2>1. CASE active' \subseteq active
    BY <2>1 DEF Ledger!Exclusive
  <2>2. ASSUME NEW d, Ledger!Grant(d) PROVE \A b, c \in active' : Ledger!Clash(b, c) => b = c
    <3>1. \A b \in active : ~Ledger!Clash(b, d) /\ ~Ledger!Clash(d, b)
      BY <2>2 DEF Ledger!Grant, Ledger!Clash, Ledger!Overlap
    <3> QED BY <2>2, <3>1 DEF Ledger!Grant, Ledger!Exclusive
  <2> QED BY <2>1, <2>2 DEF Ledger!LedgerNext, Ledger!Release
<1> QED
  BY <1>1, <1>2, LedgerStep, TypeCorrect, PTL DEF Spec

-------------------------------------------------------------------------------
(* What the lock of the user is worth while Redis works. *)

\* Between its two calls a request that passed TryLock holds the key.
Holding(q) == pc[q] \in {"seatLock", "check", "insert", "recheck", "unlockSeat", "unlockUser"}

ShieldInv ==
    /\ TypeOK
    /\ redisUp
    /\ \A q \in Requests : Holding(q) => userLock[UserKey(want[q])] = q
    /\ UserConstraintIsBackstop

\* Claims of one user that overlap are of one day: they need the same key.
LEMMA SameKey ==
    ASSUME NEW b \in Claims, NEW c \in Claims, b.user = c.user, Overlap(b.slot, c.slot)
    PROVE  UserKey(b) = UserKey(c)
BY BookingAssumption DEF Overlap, UserKey, Claims

\* While Redis answers and no lease runs out under a live handler, the look at
\* the table suffices: the constraint on the user has nothing left to refuse but
\* rows whose INSERT was committed when its request had ended without an answer.
THEOREM UserShield ==
    ASSUME ~RedisFails, ~LeasesLapse
    PROVE  Spec => []UserConstraintIsBackstop
<1>1. Init => ShieldInv
  BY TypeInit DEF Init, ShieldInv, Holding, UserConstraintIsBackstop
<1>2. ShieldInv /\ [Next]_vars => ShieldInv'
  <2> SUFFICES ASSUME ShieldInv, [Next]_vars PROVE ShieldInv'
    OBVIOUS
  <2> DEFINE Kept == \A q \in Requests : Holding(q) => userLock[UserKey(want[q])] = q
  <2>0. TypeOK /\ TypeOK' /\ redisUp /\ Kept /\ UserConstraintIsBackstop
    BY TypeStep DEF ShieldInv
  <2> SUFFICES redisUp' /\ Kept' /\ UserConstraintIsBackstop'
    BY <2>0 DEF ShieldInv
  <2>1. redisUp'
    <3>1. ~RedisToggles
      BY DEF RedisToggles
    <3> QED
      BY <2>0, <3>1 DEF Next, Step, vars, Begin, ReadSeat, ReadUser, LockUser, LockSeat, Precheck,
         Insert, Recheck, UnlockSeat, UnlockUser, StatementFails, LeftAtUserLock, LeftAtSeatLock,
         HandlerDies, LateInsert, UserLeaseEnds, SeatLeaseEnds, Close, SeatOut, Ban, LeadTimeEnds
  <2>2. ASSUME NEW q \in Requests, LockUser(q) PROVE Kept' /\ UserConstraintIsBackstop'
    <3>1. \A r \in Requests : r # q => (Holding(r)' <=> Holding(r)) /\ (pc'[r] = "insert" <=> pc[r] = "insert")
      BY <2>0, <2>2 DEF LockUser, Goto, Return, Holding, TypeOK
    <3>2. pc'[q] # "insert" /\ UNCHANGED <<want, active, late>>
      BY <2>0, <2>2 DEF LockUser, Goto, Return, TypeOK
    <3>3. \/ ~Holding(q)' /\ UNCHANGED userLock
          \/ /\ userLock[UserKey(want[q])] = Free
             /\ userLock' = [userLock EXCEPT ![UserKey(want[q])] = q]
      BY <2>0, <2>2 DEF LockUser, Goto, Return, Holding, TypeOK
    <3>4. UserKey(want[q]) \in UserKeys /\ \A r \in Requests : UserKey(want[r])' = UserKey(want[r])
      BY <2>0, <3>2, KeyType DEF UserKey
    <3>5. ASSUME NEW r \in Requests, Holding(r)' PROVE userLock'[UserKey(want[r])] = r
      <4>1. CASE r = q
        BY <2>0, <3>3, <3>4, <3>5, <4>1 DEF TypeOK
      <4>2. CASE r # q
        <5>1. userLock[UserKey(want[r])] = r /\ r # Free
          BY <2>0, <3>1, <3>5, <4>2, FreeAssumption
        <5> QED BY <2>0, <3>3, <5>1, KeyType DEF TypeOK
      <4> QED BY <4>1, <4>2
    <3>6. Kept'
      BY <3>4, <3>5
    <3> QED BY <2>0, <3>1, <3>2, <3>6 DEF UserConstraintIsBackstop
  <2>3. ASSUME NEW q \in Requests, UnlockUser(q) PROVE Kept' /\ UserConstraintIsBackstop'
    <3>1. \A r \in Requests : r # q => (Holding(r)' <=> Holding(r)) /\ (pc'[r] = "insert" <=> pc[r] = "insert")
      BY <2>0, <2>3 DEF UnlockUser, Goto, Holding, TypeOK
    <3>2. pc'[q] = "done" /\ UNCHANGED <<want, active, late>>
      BY <2>0, <2>3 DEF UnlockUser, Goto, TypeOK
    <3>3. \/ UNCHANGED userLock
          \/ /\ userLock[UserKey(want[q])] = q
             /\ userLock' = [userLock EXCEPT ![UserKey(want[q])] = Free]
      BY <2>3 DEF UnlockUser
    <3>4. \A r \in Requests : UserKey(want[r])' = UserKey(want[r])
      BY <3>2 DEF UserKey
    <3>5. ASSUME NEW r \in Requests, Holding(r)' PROVE userLock'[UserKey(want[r])] = r
      <4>1. r # q
        BY <3>2, <3>5 DEF Holding
      <4>2. userLock[UserKey(want[r])] = r
        BY <2>0, <3>1, <3>5, <4>1
      <4> QED BY <2>0, <3>3, <4>1, <4>2, KeyType DEF TypeOK
    <3>6. Kept'
      BY <3>4, <3>5
    <3> QED BY <2>0, <3>1, <3>2, <3>6 DEF UserConstraintIsBackstop
  <2>4. ASSUME NEW k \in UserKeys, UserLeaseEnds(k) PROVE Kept' /\ UserConstraintIsBackstop'
    <3>1. UNCHANGED <<pc, want, active, late>> /\ userLock' = [userLock EXCEPT ![k] = Free]
      BY <2>4 DEF UserLeaseEnds
    <3>2. userLock[k] \in Requests => pc[userLock[k]] = "done"
      BY <2>4 DEF UserLeaseEnds, MayLapse
    <3>3. Kept'
      BY <2>0, <3>1, <3>2, FreeAssumption DEF Holding, UserKey, TypeOK
    <3> QED BY <2>0, <3>1, <3>3 DEF UserConstraintIsBackstop
  <2>5. ASSUME NEW q \in Requests, Insert(q) PROVE Kept' /\ UserConstraintIsBackstop'
    <3>1. /\ \A r \in Requests : r # q => (Holding(r)' <=> Holding(r)) /\ (pc'[r] = "insert" <=> pc[r] = "insert")
          /\ pc'[q] # "insert" /\ (Holding(q)' => Holding(q))
          /\ pc[q] = "insert" /\ UNCHANGED <<want, userLock, late>>
          /\ active' \subseteq active \cup {want[q]}
      BY <2>0, <2>5 DEF Insert, Goto, Return, Holding, TypeOK
    <3>2. Kept'
      BY <2>0, <3>1 DEF UserKey
    <3>3. ASSUME NEW r \in Requests, NEW b \in active', pc'[r] = "insert",
                 b.user = want[r].user, Overlap(b.slot, want[r].slot)
          PROVE  b \in late
      <4>1. r # q /\ pc[r] = "insert" /\ want[r] \in Claims /\ want[q] \in Claims
        BY <2>0, <3>1, <3>3 DEF TypeOK
      <4>2. b # want[q]
        <5>1. userLock[UserKey(want[r])] = r /\ userLock[UserKey(want[q])] = q
          BY <2>0, <3>1, <4>1 DEF Holding
        <5> QED BY <3>3, <4>1, <5>1, SameKey
      <4> QED BY <2>0, <3>1, <3>3, <4>1, <4>2 DEF UserConstraintIsBackstop
    <3> QED BY <3>1, <3>2, <3>3 DEF UserConstraintIsBackstop
  <2>6. ASSUME NEW q \in Requests, Precheck(q) PROVE Kept' /\ UserConstraintIsBackstop'
    <3>1. /\ \A r \in Requests : r # q => (Holding(r)' <=> Holding(r)) /\ (pc'[r] = "insert" <=> pc[r] = "insert")
          /\ Holding(q) /\ UNCHANGED <<want, userLock, active, late>>
      BY <2>0, <2>6 DEF Precheck, Goto, Return, Holding, TypeOK
    <3>2. Kept'
      BY <2>0, <3>1 DEF UserKey
    <3>3. pc'[q] = "insert" => ~UserConflict(want[q])
      BY <2>0, <2>6 DEF Precheck, Goto, Return, HasConflict, TypeOK
    <3> QED BY <2>0, <3>1, <3>2, <3>3 DEF UserConstraintIsBackstop, UserConflict
  <2>7. ASSUME NEW q \in Requests,
               \/ Begin(q) \/ ReadSeat(q) \/ ReadUser(q) \/ LockSeat(q) \/ LeftAtSeatLock(q)
               \/ Recheck(q) \/ UnlockSeat(q) \/ StatementFails(q) \/ HandlerDies(q)
        PROVE  Kept' /\ UserConstraintIsBackstop'
    <3>1. /\ \A r \in Requests : (Holding(r)' => Holding(r)) /\ (pc'[r] = "insert" => pc[r] = "insert")
          /\ UNCHANGED <<want, userLock, active, late>>
      BY <2>0, <2>7 DEF Begin, ReadSeat, ReadUser, LockSeat, LeftAtSeatLock, Recheck, UnlockSeat,
                        StatementFails, HandlerDies, Goto, Return, Holding, InFlight, TypeOK
    <3> QED BY <2>0, <3>1 DEF UserKey, UserConstraintIsBackstop
  <2>8. ASSUME NEW q \in Requests, LeftAtUserLock(q) PROVE Kept' /\ UserConstraintIsBackstop'
    <3>1. /\ \A r \in Requests : Holding(r)' => Holding(r) /\ userLock[UserKey(want[r])] = r
          /\ \A r \in Requests : pc'[r] = "insert" => pc[r] = "insert"
          /\ UNCHANGED <<want, active, late>>
      BY <2>0, <2>8 DEF LeftAtUserLock, Return, Holding, TypeOK
    <3>2. UNCHANGED userLock \/ \E k \in UserKeys : /\ userLock[k] = Free
                                                   /\ userLock' = [userLock EXCEPT ![k] = Orphan]
      BY <2>0, <2>8, KeyType DEF LeftAtUserLock
    <3>3. \A r \in Requests : Holding(r)' => userLock'[UserKey(want[r])] = r
      BY <2>0, <3>1, <3>2, KeyType, FreeAssumption DEF TypeOK
    <3> QED BY <2>0, <3>1, <3>3 DEF UserKey, UserConstraintIsBackstop
  <2>9. ASSUME \/ \E q \in Requests : LateInsert(q)
               \/ \E k \in SeatKeys : SeatLeaseEnds(k)
               \/ RedisToggles
               \/ \E c \in Claims : Close(c)
               \/ \E x \in Seats : SeatOut(x)
               \/ \E u \in Users : Ban(u)
               \/ \E t \in Slots : LeadTimeEnds(t)
               \/ UNCHANGED vars
        PROVE  Kept' /\ UserConstraintIsBackstop'
    <3>1. /\ UNCHANGED <<pc, want, userLock>>
          /\ \A b \in active' : (b \in active /\ (b \in late => b \in late')) \/ b \in late'
      BY <2>9 DEF LateInsert, SeatLeaseEnds, RedisToggles, Close, SeatOut, Ban, LeadTimeEnds, vars
    <3> QED BY <2>0, <3>1 DEF Holding, UserKey, UserConstraintIsBackstop
  <2> QED
    BY <2>1, <2>2, <2>3, <2>4, <2>5, <2>6, <2>7, <2>8, <2>9 DEF Next, Step
<1> QED
  BY <1>1, <1>2, PTL DEF Spec, ShieldInv

-------------------------------------------------------------------------------
(* The locks do not refuse everybody. *)

Early == {"new", "seat", "user", "userLock", "seatLock", "check", "insert", "recheck"}

\* A request that has booked or is broken off, and one that has come past its
\* locks: they never fall back.
Settled(q) == answer[q] \in {"booked"} \cup Broken
Serious(q) == pc[q] \in {"check", "insert", "recheck"} \/ answer[q] \in {"booked", "conflict"} \cup Broken

Unanswered == \A q \in Requests : pc[q] \in Early => answer[q] = "none"

\* A conflict is with a row, and somebody has put it there.
ConflictHasCause ==
    (active # {} \/ \E q \in Requests : pc[q] = "recheck" \/ answer[q] = "conflict")
      => \E q \in Requests : Settled(q)

\* The key of a seat is taken, even by nobody, only for a request that goes on.
SeatKeyHasCause ==
    (\E k \in SeatKeys : seatLock[k] # Free) => \E q \in Requests : Serious(q)

\* The key of a user too, or the request is about to try the key of its seat.
UserKeyHasCause ==
    ((\E k \in UserKeys : userLock[k] # Free) \/ \E q \in Requests : answer[q] = "busy")
      => \E q \in Requests : Serious(q) \/ pc[q] = "seatLock"

\* An INSERT nobody waits for is of a request that was broken off.
LateHasCause == \A q \in running : Settled(q)

WinInv == TypeOK /\ Unanswered /\ LateHasCause /\ ConflictHasCause /\ SeatKeyHasCause /\ UserKeyHasCause

\* No step takes back a booking or a request's way past its locks.
LEMMA NobodyFallsBack ==
    ASSUME WinInv, [Next]_vars
    PROVE  /\ Unanswered'
           /\ \A q \in Requests : Settled(q) => Settled(q)'
           /\ \A q \in Requests : Serious(q) => Serious(q)'
<1> USE DEF Unanswered, Settled, Serious, Early, Broken
<1>0. TypeOK /\ Unanswered
  BY DEF WinInv
<1>1. ASSUME NEW r \in Requests,
             Begin(r) \/ ReadSeat(r) \/ ReadUser(r) \/ LockUser(r) \/ LockSeat(r)
      PROVE  /\ Unanswered'
             /\ \A q \in Requests : (Settled(q) => Settled(q)') /\ (Serious(q) => Serious(q)')
  BY <1>0, <1>1 DEF Begin, ReadSeat, ReadUser, LockUser, LockSeat, Goto, Return, TypeOK
<1>2. ASSUME NEW r \in Requests,
             \/ Precheck(r) \/ Insert(r) \/ Recheck(r)
             \/ StatementFails(r) \/ LeftAtUserLock(r) \/ LeftAtSeatLock(r)
      PROVE  /\ Unanswered'
             /\ \A q \in Requests : (Settled(q) => Settled(q)') /\ (Serious(q) => Serious(q)')
  BY <1>0, <1>2 DEF Precheck, Insert, Recheck, StatementFails, LeftAtUserLock, LeftAtSeatLock,
                    Goto, Return, TypeOK
<1>3. ASSUME NEW r \in Requests, UnlockSeat(r) \/ UnlockUser(r) \/ HandlerDies(r)
      PROVE  /\ Unanswered'
             /\ \A q \in Requests : (Settled(q) => Settled(q)') /\ (Serious(q) => Serious(q)')
  BY <1>0, <1>3 DEF UnlockSeat, UnlockUser, HandlerDies, Goto, Return, TypeOK
<1>4. ASSUME \/ \E k \in UserKeys : UserLeaseEnds(k)
             \/ \E k \in SeatKeys : SeatLeaseEnds(k)
             \/ RedisToggles \/ UNCHANGED vars
             \/ \E c \in Claims : Close(c)
             \/ \E x \in Seats : SeatOut(x)
             \/ \E u \in Users : Ban(u)
             \/ \E t \in Slots : LeadTimeEnds(t)
             \/ \E r \in Requests : LateInsert(r)
      PROVE  UNCHANGED <<pc, answer>>
  BY <1>4 DEF LateInsert, UserLeaseEnds, SeatLeaseEnds, RedisToggles, vars, Close, SeatOut, Ban, LeadTimeEnds
<1> QED
  BY <1>0, <1>1, <1>2, <1>3, <1>4 DEF Next, Step

\* An INSERT is left to the server alone only by the steps that break a request off.
LEMMA LateStep == ASSUME WinInv, [Next]_vars PROVE LateHasCause'
<1>0. TypeOK /\ LateHasCause /\ \A q \in Requests : Settled(q) => Settled(q)'
  BY NobodyFallsBack DEF WinInv
<1>1. ASSUME NEW q \in Requests, StatementFails(q) \/ HandlerDies(q)
      PROVE  running' \subseteq running \cup {q} /\ Settled(q)'
  BY <1>0, <1>1 DEF StatementFails, HandlerDies, Return, Settled, Broken, TypeOK
<1>2. ASSUME NEW q \in Requests,
             \/ Begin(q) \/ ReadSeat(q) \/ ReadUser(q) \/ LockUser(q) \/ LockSeat(q) \/ Precheck(q)
             \/ Insert(q) \/ Recheck(q) \/ UnlockSeat(q) \/ UnlockUser(q)
             \/ LeftAtUserLock(q) \/ LeftAtSeatLock(q) \/ LateInsert(q)
      PROVE  running' \subseteq running
  BY <1>2 DEF Begin, ReadSeat, ReadUser, LockUser, LockSeat, Precheck, Insert, Recheck, UnlockSeat,
              UnlockUser, LeftAtUserLock, LeftAtSeatLock, LateInsert
<1>3. ASSUME NEW x, \/ UserLeaseEnds(x) \/ SeatLeaseEnds(x) \/ SeatOut(x) \/ Ban(x)
                    \/ LeadTimeEnds(x) \/ Close(x) \/ RedisToggles \/ UNCHANGED vars
      PROVE  running' \subseteq running
  BY <1>3 DEF UserLeaseEnds, SeatLeaseEnds, SeatOut, Ban, LeadTimeEnds, Close, RedisToggles, vars
<1> QED
  BY <1>0, <1>1, <1>2, <1>3 DEF LateHasCause, Next, Step, TypeOK

\* When all are over and none was broken off, a refusal means that somebody has booked:
\* behind every key that refuses there is a request that came further, and behind
\* every conflict a row.
THEOREM SomeoneWinsSafe == Spec => []SomeoneWins
<1>1. Init => WinInv
  BY TypeInit DEF Init, WinInv, Unanswered, LateHasCause, ConflictHasCause, SeatKeyHasCause, UserKeyHasCause
<1>2. WinInv /\ [Next]_vars => WinInv'
  <2> SUFFICES ASSUME WinInv, [Next]_vars
               PROVE  ConflictHasCause' /\ SeatKeyHasCause' /\ UserKeyHasCause'
    BY TypeStep, NobodyFallsBack, LateStep DEF WinInv
  <2>0. /\ TypeOK /\ Unanswered /\ LateHasCause /\ ConflictHasCause /\ SeatKeyHasCause /\ UserKeyHasCause
        /\ \A q \in Requests : Settled(q) => Settled(q)'
        /\ \A q \in Requests : Serious(q) => Serious(q)'
    BY NobodyFallsBack DEF WinInv
  <2>1. ASSUME NEW q \in Requests,
               \/ Begin(q) \/ ReadSeat(q) \/ ReadUser(q)
               \/ UnlockSeat(q) \/ UnlockUser(q) \/ HandlerDies(q) \/ StatementFails(q)
        PROVE  ConflictHasCause' /\ SeatKeyHasCause' /\ UserKeyHasCause'
    <3>1. /\ UNCHANGED active
          /\ \A k \in SeatKeys : seatLock'[k] # Free => seatLock[k] # Free
          /\ \A k \in UserKeys : userLock'[k] # Free => userLock[k] # Free
      <4>1. CASE UNCHANGED <<active, seatLock, userLock>>
        BY <4>1
      <4>2. CASE UnlockSeat(q)
        BY <2>0, <4>2 DEF UnlockSeat, TypeOK
      <4>3. CASE UnlockUser(q)
        BY <2>0, <4>3 DEF UnlockUser, TypeOK
      <4> QED BY <2>1, <4>1, <4>2, <4>3 DEF Begin, ReadSeat, ReadUser, HandlerDies, StatementFails
    <3>2. \A r \in Requests :
             /\ pc'[r] = "recheck" => pc[r] = "recheck"
             /\ answer'[r] \in {"conflict", "busy"} => answer'[r] = answer[r]
             /\ pc[r] = "seatLock" => pc'[r] = "seatLock" \/ Serious(r)'
      BY <2>0, <2>1 DEF Begin, ReadSeat, ReadUser, UnlockSeat, UnlockUser, HandlerDies,
                        StatementFails, Goto, Return, Serious, Broken, TypeOK
    <3> QED
      BY <2>0, <3>1, <3>2 DEF ConflictHasCause, SeatKeyHasCause, UserKeyHasCause
  <2>2. ASSUME NEW q \in Requests, LockUser(q) \/ LeftAtUserLock(q)
        PROVE  ConflictHasCause' /\ SeatKeyHasCause' /\ UserKeyHasCause'
    <3>1. /\ UNCHANGED <<active, seatLock>>
          /\ \A r \in Requests : /\ pc'[r] = "recheck" => pc[r] = "recheck"
                                 /\ answer'[r] = "conflict" => answer[r] = "conflict"
                                 /\ pc[r] = "seatLock" => pc'[r] = "seatLock"
      BY <2>0, <2>2 DEF LockUser, LeftAtUserLock, Goto, Return, TypeOK
    <3>2. pc'[q] = "seatLock" \/ Serious(q)' \/ \E k \in UserKeys : userLock[k] # Free
      BY <2>0, <2>2, KeyType DEF LockUser, LeftAtUserLock, Goto, Return, Serious, Broken, TypeOK
    <3> QED
      BY <2>0, <3>1, <3>2 DEF ConflictHasCause, SeatKeyHasCause, UserKeyHasCause
  <2>3. ASSUME NEW q \in Requests, LockSeat(q) \/ LeftAtSeatLock(q)
        PROVE  ConflictHasCause' /\ SeatKeyHasCause' /\ UserKeyHasCause'
    <3>1. /\ UNCHANGED <<active, userLock>>
          /\ \A r \in Requests : /\ pc'[r] = "recheck" => pc[r] = "recheck"
                                 /\ answer'[r] = "conflict" => answer[r] = "conflict"
      BY <2>0, <2>3 DEF LockSeat, LeftAtSeatLock, Goto, Return, TypeOK
    <3>2. Serious(q)' \/ \E k \in SeatKeys : seatLock[k] # Free
      <4>1. SeatKey(want[q]) \in SeatKeys
        BY <2>0 DEF SeatKey, SeatKeys, Claims, TypeOK
      <4> QED BY <2>0, <2>3, <4>1 DEF LockSeat, LeftAtSeatLock, Goto, Return, Serious, Broken, TypeOK
    <3>3. \E r \in Requests : Serious(r)'
      BY <2>0, <3>2 DEF SeatKeyHasCause
    <3> QED
      BY <2>0, <3>1, <3>3 DEF ConflictHasCause, SeatKeyHasCause, UserKeyHasCause
  <2>4. ASSUME NEW q \in Requests,
               Precheck(q) \/ Insert(q) \/ Recheck(q)
        PROVE  ConflictHasCause' /\ SeatKeyHasCause' /\ UserKeyHasCause'
    <3>1. UNCHANGED <<seatLock, userLock>>
      BY <2>4 DEF Precheck, Insert, Recheck
    <3>2. \A r \in Requests : /\ answer'[r] = "busy" => answer[r] = "busy"
                              /\ pc[r] = "seatLock" => pc'[r] = "seatLock"
      BY <2>0, <2>4 DEF Precheck, Insert, Recheck, Goto, Return, TypeOK
    <3>3. ConflictHasCause'
      <4>1. CASE Settled(q)'
        BY <4>1 DEF ConflictHasCause
      <4>2. CASE ~Settled(q)'
        <5>1. UNCHANGED active
          BY <2>0, <2>4, <4>2 DEF Precheck, Insert, Recheck, Goto, Return,
                                  Settled, Broken, TypeOK
        <5>2. \A r \in Requests : r # q => pc'[r] = pc[r] /\ answer'[r] = answer[r]
          BY <2>0, <2>4 DEF Precheck, Insert, Recheck, Goto, Return, TypeOK
        <5>3. pc'[q] = "recheck" \/ answer'[q] = "conflict"
                => active # {} \/ pc[q] = "recheck" \/ answer[q] = "conflict"
          BY <2>0, <2>4 DEF Precheck, Insert, Recheck, Goto, Return, HasConflict,
                            Refused, SeatConflict, UserConflict, TypeOK
        <5> QED BY <2>0, <5>1, <5>2, <5>3 DEF ConflictHasCause
      <4> QED BY <4>1, <4>2
    <3> QED
      BY <2>0, <3>1, <3>2, <3>3 DEF SeatKeyHasCause, UserKeyHasCause
  <2>5. ASSUME \/ \E k \in UserKeys : UserLeaseEnds(k)
               \/ \E k \in SeatKeys : SeatLeaseEnds(k)
               \/ RedisToggles \/ UNCHANGED vars
               \/ \E c \in Claims : Close(c)
               \/ \E x \in Seats : SeatOut(x)
               \/ \E u \in Users : Ban(u)
               \/ \E t \in Slots : LeadTimeEnds(t)
        PROVE  ConflictHasCause' /\ SeatKeyHasCause' /\ UserKeyHasCause'
    <3>1. /\ UNCHANGED <<pc, answer>>
          /\ active' \subseteq active
          /\ \A k \in SeatKeys : seatLock'[k] # Free => seatLock[k] # Free
          /\ \A k \in UserKeys : userLock'[k] # Free => userLock[k] # Free
      BY <2>0, <2>5 DEF UserLeaseEnds, SeatLeaseEnds, RedisToggles, vars, Close, SeatOut, Ban,
                        LeadTimeEnds, TypeOK
    <3> QED
      BY <2>0, <3>1 DEF ConflictHasCause, SeatKeyHasCause, UserKeyHasCause, Settled, Serious
  <2>6. ASSUME NEW q \in Requests, LateInsert(q)
        PROVE  ConflictHasCause' /\ SeatKeyHasCause' /\ UserKeyHasCause'
    <3>1. Settled(q)' /\ UNCHANGED <<pc, answer, seatLock, userLock>>
      BY <2>0, <2>6 DEF LateInsert, LateHasCause
    <3> QED BY <2>0, <3>1 DEF ConflictHasCause, SeatKeyHasCause, UserKeyHasCause
  <2> QED
    BY <2>1, <2>2, <2>3, <2>4, <2>5, <2>6 DEF Next, Step
<1>3. WinInv => SomeoneWins
  <2> SUFFICES ASSUME WinInv, \A q \in Requests : pc[q] = "done" /\ answer[q] \notin Broken,
                      \E q \in Requests : answer[q] \in {"busy", "conflict"}
               PROVE  \E q \in Requests : answer[q] = "booked"
    BY DEF SomeoneWins
  <2>1. \E q \in Requests : answer[q] \in {"booked", "conflict"}
    BY DEF WinInv, UserKeyHasCause, Serious
  <2> QED BY <2>1 DEF WinInv, ConflictHasCause, Settled
<1> QED
  BY <1>1, <1>2, <1>3, PTL DEF Spec

-------------------------------------------------------------------------------
(* Nobody comes back with a key. *)

\* A key that holds a request is the one it asked for, and the request is between
\* its TryLock and its Unlock, or died there.
Dead(q) == answer[q] = "gone"
HoldingSeat(q) == pc[q] \in {"check", "insert", "recheck", "unlockSeat"}
OwnUserKey == \A q \in Requests, k \in UserKeys :
                  userLock[k] = q => k = UserKey(want[q]) /\ (Holding(q) \/ Dead(q))
OwnSeatKey == \A q \in Requests, k \in SeatKeys :
                  seatLock[k] = q => k = SeatKey(want[q]) /\ (HoldingSeat(q) \/ Dead(q))

KeyInv ==
    /\ TypeOK /\ redisUp
    /\ \A q \in Requests : Dead(q) => pc[q] = "done"
    /\ OwnUserKey
    /\ OwnSeatKey

\* A step that moves one request and its keys keeps the keys in order when what
\* it leaves of them is right.
LEMMA KeysKept ==
    ASSUME KeyInv, TypeOK', NEW q \in Requests, redisUp', want' = want,
           \A r \in Requests \ {q} : pc'[r] = pc[r] /\ answer'[r] = answer[r],
           Dead(q)' => pc'[q] = "done",
           \A k \in UserKeys : userLock'[k] \in {userLock[k], q, Free, Orphan},
           \A k \in SeatKeys : seatLock'[k] \in {seatLock[k], q, Free, Orphan},
           \A k \in UserKeys : userLock'[k] = q => k = UserKey(want[q]) /\ (Holding(q)' \/ Dead(q)'),
           \A k \in SeatKeys : seatLock'[k] = q => k = SeatKey(want[q]) /\ (HoldingSeat(q)' \/ Dead(q)')
    PROVE  KeyInv'
<1>1. \A r \in Requests \ {q} : r # Free /\ r # Orphan
  BY FreeAssumption
<1>2. OwnUserKey'
  BY <1>1 DEF KeyInv, OwnUserKey, Dead, Holding, UserKey
<1>3. OwnSeatKey'
  BY <1>1 DEF KeyInv, OwnSeatKey, Dead, HoldingSeat, SeatKey
<1> QED BY <1>2, <1>3 DEF KeyInv, Dead

\* While Redis answers, every way out of the handler returns its keys.
THEOREM NothingLeftBehindSafe ==
    ASSUME ~RedisFails
    PROVE  Spec => []NothingLeftBehind
<1>1. Init => KeyInv
  BY TypeInit, FreeAssumption DEF Init, KeyInv, OwnUserKey, OwnSeatKey, Dead
<1>2. KeyInv /\ [Next]_vars => KeyInv'
  <2> SUFFICES ASSUME KeyInv, [Next]_vars PROVE KeyInv'
    OBVIOUS
  <2>0. /\ TypeOK /\ TypeOK' /\ redisUp /\ OwnUserKey /\ OwnSeatKey
        /\ \A q \in Requests : Dead(q) => pc[q] = "done"
        /\ \A q \in Requests : q # Free /\ q # Orphan
    BY TypeStep, FreeAssumption DEF KeyInv
  <2> DEFINE OnlyOne(q) == \A r \in Requests \ {q} : pc'[r] = pc[r] /\ answer'[r] = answer[r]
  <2>1. ASSUME NEW q \in Requests, Begin(q) \/ ReadSeat(q) \/ ReadUser(q) PROVE KeyInv'
    <3>1. UNCHANGED <<want, redisUp, userLock, seatLock>> /\ OnlyOne(q) /\ ~Dead(q)'
      BY <2>0, <2>1 DEF Begin, ReadSeat, ReadUser, Goto, Return, Dead, TypeOK
    <3>2. ~Holding(q) /\ ~HoldingSeat(q) /\ ~Dead(q)
      BY <2>0, <2>1 DEF Begin, ReadSeat, ReadUser, Holding, HoldingSeat, Dead
    <3> QED BY <2>0, <3>1, <3>2, KeysKept DEF OwnUserKey, OwnSeatKey
  <2>2. ASSUME NEW q \in Requests, LockUser(q) \/ LeftAtUserLock(q) PROVE KeyInv'
    <3>1. UNCHANGED <<want, seatLock, redisUp>> /\ OnlyOne(q) /\ ~Dead(q)'
      BY <2>0, <2>2 DEF LockUser, LeftAtUserLock, Goto, Return, Dead, TypeOK
    <3>2. ~Holding(q) /\ ~HoldingSeat(q) /\ ~Dead(q)
      BY <2>0, <2>2 DEF LockUser, LeftAtUserLock, Holding, HoldingSeat, Dead
    <3>3. \/ UNCHANGED userLock
          \/ userLock' = [userLock EXCEPT ![UserKey(want[q])] = Orphan]
          \/ userLock' = [userLock EXCEPT ![UserKey(want[q])] = q] /\ pc'[q] = "seatLock"
      BY <2>0, <2>2 DEF LockUser, LeftAtUserLock, Goto, TypeOK
    <3>4. \A k \in UserKeys : /\ userLock'[k] \in {userLock[k], q, Free, Orphan}
                              /\ userLock'[k] = q => k = UserKey(want[q]) /\ pc'[q] = "seatLock"
      BY <2>0, <3>2, <3>3 DEF OwnUserKey, TypeOK
    <3> QED BY <2>0, <3>1, <3>2, <3>4, KeysKept DEF Holding, OwnSeatKey
  <2>3. ASSUME NEW q \in Requests, LockSeat(q) \/ LeftAtSeatLock(q) PROVE KeyInv'
    <3>1. UNCHANGED <<want, userLock, redisUp>> /\ OnlyOne(q) /\ ~Dead(q)'
      BY <2>0, <2>3 DEF LockSeat, LeftAtSeatLock, Goto, Return, Dead, TypeOK
    <3>2. ~HoldingSeat(q) /\ ~Dead(q) /\ Holding(q)'
      BY <2>0, <2>3 DEF LockSeat, LeftAtSeatLock, Goto, Return, Holding, HoldingSeat, Dead, TypeOK
    <3>3. \/ UNCHANGED seatLock
          \/ seatLock' = [seatLock EXCEPT ![SeatKey(want[q])] = Orphan]
          \/ seatLock' = [seatLock EXCEPT ![SeatKey(want[q])] = q] /\ pc'[q] = "check"
      BY <2>0, <2>3 DEF LockSeat, LeftAtSeatLock, Goto, TypeOK
    <3>4. \A k \in SeatKeys : /\ seatLock'[k] \in {seatLock[k], q, Free, Orphan}
                              /\ seatLock'[k] = q => k = SeatKey(want[q]) /\ pc'[q] = "check"
      BY <2>0, <3>2, <3>3 DEF OwnSeatKey, TypeOK
    <3> QED BY <2>0, <3>1, <3>2, <3>4, KeysKept DEF HoldingSeat, OwnUserKey
  <2>4. ASSUME NEW q \in Requests, Precheck(q) \/ Insert(q) \/ Recheck(q) PROVE KeyInv'
    <3>1. UNCHANGED <<want, userLock, seatLock, redisUp>> /\ OnlyOne(q) /\ ~Dead(q)'
      BY <2>0, <2>4 DEF Precheck, Insert, Recheck, Goto, Return, Dead, TypeOK
    <3>2. Holding(q)' /\ HoldingSeat(q)'
      BY <2>0, <2>4 DEF Precheck, Insert, Recheck, Goto, Return, Holding, HoldingSeat, TypeOK
    <3> QED BY <2>0, <3>1, <3>2, KeysKept DEF OwnUserKey, OwnSeatKey
  <2>5. ASSUME NEW q \in Requests, StatementFails(q) PROVE KeyInv'
    <3>1. UNCHANGED <<want, userLock, seatLock, redisUp>> /\ OnlyOne(q) /\ ~Dead(q)' /\ ~Dead(q)
      BY <2>0, <2>5 DEF StatementFails, Return, Dead, TypeOK
    <3>2. (Holding(q) => Holding(q)') /\ (HoldingSeat(q) => HoldingSeat(q)')
      BY <2>0, <2>5 DEF StatementFails, Return, Holding, HoldingSeat, TypeOK
    <3> QED BY <2>0, <3>1, <3>2, KeysKept DEF OwnUserKey, OwnSeatKey
  <2>6. ASSUME NEW q \in Requests, UnlockSeat(q) PROVE KeyInv'
    <3>1. UNCHANGED <<want, userLock, redisUp>> /\ OnlyOne(q) /\ ~Dead(q)' /\ Holding(q)'
      BY <2>0, <2>6 DEF UnlockSeat, Goto, Dead, Holding, TypeOK
    <3>2. \A k \in SeatKeys : seatLock'[k] \in {seatLock[k], Free} /\ seatLock'[k] # q
      BY <2>0, <2>6 DEF UnlockSeat, OwnSeatKey, TypeOK
    <3> QED BY <2>0, <3>1, <3>2, KeysKept DEF OwnUserKey
  <2>7. ASSUME NEW q \in Requests, UnlockUser(q) PROVE KeyInv'
    <3>1. UNCHANGED <<want, seatLock, redisUp>> /\ OnlyOne(q) /\ ~Dead(q)'
      BY <2>0, <2>7 DEF UnlockUser, Goto, Dead, TypeOK
    <3>2. \A k \in UserKeys : userLock'[k] \in {userLock[k], Free} /\ userLock'[k] # q
      BY <2>0, <2>7 DEF UnlockUser, OwnUserKey, TypeOK
    <3>3. ~HoldingSeat(q) /\ ~Dead(q)
      BY <2>0, <2>7 DEF UnlockUser, HoldingSeat, Dead
    <3> QED BY <2>0, <3>1, <3>2, <3>3, KeysKept DEF OwnSeatKey
  <2>8. ASSUME NEW q \in Requests, HandlerDies(q) PROVE KeyInv'
    <3>1. UNCHANGED <<want, userLock, seatLock, redisUp>> /\ OnlyOne(q) /\ Dead(q)' /\ pc'[q] = "done"
      BY <2>0, <2>8 DEF HandlerDies, Return, Dead, TypeOK
    <3> QED BY <2>0, <3>1, KeysKept DEF OwnUserKey, OwnSeatKey
  <2>9. ASSUME \/ \E k \in UserKeys : UserLeaseEnds(k)
               \/ \E k \in SeatKeys : SeatLeaseEnds(k)
               \/ \E q \in Requests : LateInsert(q)
               \/ RedisToggles
               \/ \E c \in Claims : Close(c)
               \/ \E x \in Seats : SeatOut(x)
               \/ \E u \in Users : Ban(u)
               \/ \E t \in Slots : LeadTimeEnds(t)
               \/ UNCHANGED vars
        PROVE  KeyInv'
    <3>1. UNCHANGED <<pc, want, answer, redisUp>>
      BY <2>9 DEF UserLeaseEnds, SeatLeaseEnds, LateInsert, RedisToggles, Close, SeatOut, Ban,
                  LeadTimeEnds, vars
    <3>2. /\ \A k \in UserKeys : userLock'[k] \in {userLock[k], Free}
          /\ \A k \in SeatKeys : seatLock'[k] \in {seatLock[k], Free}
      BY <2>0, <2>9 DEF UserLeaseEnds, SeatLeaseEnds, LateInsert, RedisToggles, Close, SeatOut, Ban,
                        LeadTimeEnds, vars, TypeOK
    <3> QED BY <2>0, <3>1, <3>2 DEF KeyInv, OwnUserKey, OwnSeatKey, Dead, Holding, HoldingSeat,
                                    UserKey, SeatKey
  <2> QED
    BY <2>1, <2>2, <2>3, <2>4, <2>5, <2>6, <2>7, <2>8, <2>9 DEF Next, Step
<1>3. KeyInv => NothingLeftBehind
  BY DEF KeyInv, OwnUserKey, OwnSeatKey, Dead, Holding, HoldingSeat, NothingLeftBehind
<1> QED
  BY <1>1, <1>2, <1>3, PTL DEF Spec
===============================================================================

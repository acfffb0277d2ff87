---------------------- MODULE ReservationLifecycleProofs ----------------------
(* Proofs about ReservationLifecycle, for all reservations, slots, timings, *)
(* requests and schedulers, with and without faults, and about the timed    *)
(* TimelyScheduler that refines it.                                         *)
EXTENDS TimelyScheduler, TLAPS

\* What the conditional UPDATE of a request sets keeps its columns well typed.
LEMMA SetRowType ==
    ASSUME TypeOK, NEW op \in Ops, NEW r \in Res, NEW mark \in Nat \cup {Never},
           SetRow(op, r, mark)
    PROVE  /\ status' \in [Res -> Statuses]
           /\ checkinAt' \in [Res -> Nat \cup {Never}]
           /\ leaveAt' \in [Res -> Nat \cup {Never}]
<1>1. To[op] \in Statuses
  BY DEF Ops, To, Statuses, Active, Terminal
<1> QED
  BY <1>1 DEF TypeOK, SetRow

\* A request record in progress has the fields of one.
LEMMA RequestType ==
    ASSUME TypeOK, NEW w \in Workers, req[w] # Idle
    PROVE  /\ req[w].op \in Ops /\ req[w].res \in Res
           /\ req[w].mark \in Nat \cup {Never}
           /\ req[w].pc \in {"read", "write", "credit"}
BY DEF TypeOK, Requests

\* So has one that goes on.
LEMMA GotoType ==
    ASSUME TypeOK, NEW w \in Workers, req[w] # Idle,
           NEW pc \in {"read", "write", "credit"}, NEW mark \in Nat \cup {Never},
           Goto(w, pc, mark)
    PROVE  req' \in [Workers -> Requests]
<1>1. [pc |-> pc, op |-> req[w].op, res |-> req[w].res, mark |-> mark] \in Requests
  BY RequestType DEF Requests
<1> QED
  BY <1>1 DEF TypeOK, Goto

\* A change of credit is an integer appended to the log of its reservation.
LEMMA LogType ==
    ASSUME TypeOK, NEW r \in Res, NEW d \in Int, Log(r, d)
    PROVE  logs' \in [Res -> Seq(Int)]
<1>1. logs[r] \in Seq(Int)
  BY DEF TypeOK
<1>2. Append(logs[r], d) \in Seq(Int)
  BY <1>1
<1> QED
  BY <1>2 DEF TypeOK, Log

\* The first change of credit of a reservation is its only one.
LEMMA LogFirst ==
    ASSUME TypeOK, NEW r \in Res, NEW d \in Int, logs[r] = <<>>, Log(r, d)
    PROVE  logs'[r] = <<d>> /\ \A q \in Res : q # r => logs'[q] = logs[q]
<1>1. Append(<<>>, d) = <<d>>
  OBVIOUS
<1> QED
  BY <1>1 DEF TypeOK, Log

\* What a closed row calls for is a whole number.
LEMMA DueInt == \A r : Due(r) \in Int
BY DEF Due, CreditViolationDelta, CreditLateCancelDelta, CreditCompletionDelta

\* They have their types at the start.
LEMMA TypeInit == Init => TypeOK
BY TimingAssumption DEF Init, TypeOK, Statuses, Requests, Rounds, Idle, Waiting

\* The columns, the clock and what goroutines hold keep their types.
THEOREM TypeCorrect == Spec => []TypeOK
<1>1. Init => TypeOK
  BY TypeInit
<1>2. TypeOK /\ [Next]_vars => TypeOK'
  <2> SUFFICES ASSUME TypeOK, [Next]_vars PROVE TypeOK'
    OBVIOUS
  <2> USE DEF rows
  <2>1. CASE \E r \in Res : Book(r)
    BY <2>1 DEF Book, TypeOK, Statuses, Active
  <2>2. ASSUME NEW w \in Workers, NEW op \in Ops, NEW r \in Res, GetOwned(w, op, r)
        PROVE  TypeOK'
    <3>1. [pc |-> "read", op |-> op, res |-> r,
           mark |-> IF op = "return" THEN leaveAt[r] ELSE Never] \in Requests
      BY DEF TypeOK, Requests
    <3> QED BY <2>2, <3>1 DEF GetOwned, TypeOK
  <2>3. ASSUME NEW w \in Workers, LookAtClock(w) PROVE TypeOK'
    <3>1. req[w] # Idle
      BY <2>3 DEF LookAtClock, At
    <3>2. Finish(w) => req' \in [Workers -> Requests]
      BY DEF Finish, TypeOK, Requests
    <3>3. now \in Nat \cup {Never} /\ Never \in Nat \cup {Never}
      BY TimingAssumption DEF TypeOK
    <3> QED BY <2>3, <3>1, <3>2, <3>3, GotoType DEF LookAtClock, TypeOK
  <2>4. ASSUME NEW w \in Workers, UpdateStatus(w) PROVE TypeOK'
    <3>1. req[w] # Idle
      BY <2>4 DEF UpdateStatus, At
    <3>2. req' \in [Workers -> Requests]
      BY <2>4, <3>1, GotoType DEF UpdateStatus, Finish, TypeOK, Requests
    <3>3. \/ UNCHANGED <<status, checkinAt, leaveAt>>
          \/ SetRow(req[w].op, req[w].res, req[w].mark)
      BY <2>4 DEF UpdateStatus
    <3> QED BY <2>4, <3>1, <3>2, <3>3, RequestType, SetRowType DEF UpdateStatus, TypeOK
  <2>5. ASSUME NEW w \in Workers, OnComplete(w) \/ ApplyLateCancel(w) PROVE TypeOK'
    <3>1. req[w].res \in Res
      BY <2>5, RequestType DEF OnComplete, ApplyLateCancel, At
    <3>2. logs' \in [Res -> Seq(Int)]
      BY <2>5, <3>1, LogType DEF OnComplete, ApplyLateCancel, TypeOK,
         CreditCompletionDelta, CreditLateCancelDelta
    <3> QED BY <2>5, <3>2 DEF OnComplete, ApplyLateCancel, Finish, TypeOK, Requests
  <2>6. ASSUME NEW w \in Workers, RequestFails(w) PROVE TypeOK'
    <3>1. \/ UNCHANGED <<status, checkinAt, leaveAt>>
          \/ SetRow(req[w].op, req[w].res, req[w].mark)
      BY <2>6 DEF RequestFails
    <3> QED BY <2>6, <3>1, RequestType, SetRowType DEF RequestFails, Finish, TypeOK, Requests
  <2>7. ASSUME NEW s \in Schedulers,
               ExpireNoShows(s) \/ AutoCompleteTimeout(s) \/ EndTempLeaveTimeout(s)
        PROVE  TypeOK'
    <3>1. PICK from \in {"wait", "noShows", "timeUp"}, to \in {"noShows", "timeUp", "leaveOut"},
               S \in SUBSET Res, st \in Terminal : Scan(s, from, to, S, st)
      BY <2>7 DEF ExpireNoShows, AutoCompleteTimeout, EndTempLeaveTimeout, Terminal
    <3>2. PICK done \in SUBSET Res, seen \in SUBSET Res :
             /\ status' = [r \in Res |-> IF r \in done THEN st ELSE status[r]]
             /\ sch' = [sch EXCEPT ![s] = [pc |-> to, todo |-> seen]]
             /\ UNCHANGED <<now, checkinAt, leaveAt, logs, req>>
      BY <3>1 DEF Scan
    <3> QED BY <3>2 DEF TypeOK, Statuses, Rounds
  <2>8. ASSUME NEW s \in Schedulers, NEW r \in Res, Hook(s, r) \/ HookFails(s, r)
        PROVE  TypeOK'
    <3>1. logs' \in [Res -> Seq(Int)]
      BY <2>8, LogType DEF Hook, HookFails, TypeOK, CreditViolationDelta, CreditCompletionDelta
    <3>2. sch' \in [Schedulers -> Rounds]
      <4>1. sch[s] \in Rounds
        BY DEF TypeOK
      <4>2. [pc |-> sch[s].pc, todo |-> sch[s].todo \ {r}] \in Rounds
        BY <4>1 DEF Rounds
      <4> QED BY <2>8, <4>2 DEF Hook, HookFails, TypeOK
    <3> QED BY <2>8, <3>1, <3>2 DEF Hook, HookFails, TypeOK
  <2>9. ASSUME NEW s \in Schedulers, EndRound(s) PROVE TypeOK'
    BY <2>9 DEF EndRound, TypeOK, Rounds, Waiting
  <2>10. CASE Crash
    BY <2>10 DEF Crash, TypeOK, Requests, Rounds, Waiting
  <2>11. CASE Tick
    BY <2>11, TimingAssumption DEF Tick, TypeOK
  <2>12. CASE UNCHANGED vars
    BY <2>12 DEF vars, TypeOK
  <2> QED
    BY <2>1, <2>2, <2>3, <2>4, <2>5, <2>6, <2>7, <2>8, <2>9, <2>10, <2>11, <2>12
       DEF Next, RequestStep, RoundStep
<1> QED
  BY <1>1, <1>2, PTL DEF Spec

-------------------------------------------------------------------------------
(* Credit. CreditOnce alone is not inductive: it says nothing of the credit *)
(* that is still owed. OneOwes does, and the two together are.              *)

CreditInv == TypeOK /\ CreditOnce /\ OneOwes

\* A row that is not closed has no log and nobody owes one for it.
LEMMA OpenIsFree ==
    ASSUME CreditInv, NEW r \in Res, status[r] \notin Terminal
    PROVE  /\ logs[r] = <<>>
           /\ \A w \in Workers : ~Owes(w, r)
           /\ \A s \in Schedulers : r \notin sch[s].todo
<1>1. To["checkout"] \in Terminal /\ To["cancel"] \in Terminal
  BY DEF To, Ops, Terminal
<1> QED
  BY <1>1 DEF CreditInv, CreditOnce, OneOwes, Terminal

\* Closing rows without anything else.
LEMMA FromIsOpen ==
    ASSUME NEW op \in Ops, NEW st \in From[op]
    PROVE  st \notin Terminal /\ st # "none"
BY DEF From, Ops, Terminal

\* The inductive invariant behind CreditOnce: as long as the credit of a closed
\* row is not written one goroutine at most is about to write it.
THEOREM CreditInvariant == Spec => []CreditInv
<1>1. Init => CreditInv
  <2> SUFFICES ASSUME Init PROVE CreditOnce /\ OneOwes
    BY TypeInit DEF CreditInv
  <2> QED
    BY DEF Init, CreditOnce, OneOwes, Owes, At, Waiting
<1>2. CreditInv /\ TypeOK' /\ [Next]_vars => CreditInv'
  <2> SUFFICES ASSUME CreditInv, TypeOK', [Next]_vars PROVE CreditOnce' /\ OneOwes'
    BY DEF CreditInv
  <2> USE DEF rows
  <2>0. TypeOK /\ CreditOnce /\ OneOwes
    BY DEF CreditInv
  <2>1. ASSUME NEW r \in Res, Book(r) PROVE CreditOnce' /\ OneOwes'
    <3>1. status' = [status EXCEPT ![r] = "pending"] /\ UNCHANGED <<logs, req, sch>>
      BY <2>1 DEF Book
    <3>2. /\ logs[r] = <<>>
          /\ \A w \in Workers : ~Owes(w, r)
          /\ \A s \in Schedulers : r \notin sch[s].todo
      BY <2>1, OpenIsFree DEF Book, Terminal
    <3>3. CreditOnce'
      BY <2>0, <3>1, <3>2 DEF CreditOnce, Due, TypeOK
    <3>4. OneOwes'
      BY <2>0, <3>1, <3>2 DEF OneOwes, Owes, At, TypeOK
    <3> QED BY <3>3, <3>4
  <2>2. ASSUME NEW w \in Workers, NEW op \in Ops, NEW r \in Res, GetOwned(w, op, r)
        PROVE  CreditOnce' /\ OneOwes'
    <3>1. UNCHANGED <<status, logs, sch>>
      BY <2>2 DEF GetOwned
    <3>2. \A v \in Workers, q \in Res : Owes(v, q)' => Owes(v, q) /\ req'[v] = req[v]
      BY <2>0, <2>2 DEF GetOwned, Owes, At, TypeOK
    <3> QED BY <2>0, <3>1, <3>2 DEF CreditOnce, OneOwes, Due
  <2>3. ASSUME NEW w \in Workers, LookAtClock(w) PROVE CreditOnce' /\ OneOwes'
    <3>1. UNCHANGED <<status, logs, sch>>
      BY <2>3 DEF LookAtClock
    <3>2. \A v \in Workers, q \in Res : Owes(v, q)' => Owes(v, q) /\ req'[v] = req[v]
      BY <2>0, <2>3 DEF LookAtClock, Goto, Finish, Owes, At, TypeOK
    <3> QED BY <2>0, <3>1, <3>2 DEF CreditOnce, OneOwes, Due
  <2>4. ASSUME NEW w \in Workers, UpdateStatus(w) PROVE CreditOnce' /\ OneOwes'
    <3> DEFINE op == req[w].op  r == req[w].res
    <3>0. /\ req[w] # Idle /\ op \in Ops /\ r \in Res
          /\ \A q \in Res : ~Owes(w, q)
          /\ UNCHANGED <<logs, sch>>
      BY <2>0, <2>4, RequestType DEF UpdateStatus, At, Owes
    <3>1. CASE status[r] \in From[op]
      <4>1. /\ logs[r] = <<>>
            /\ \A v \in Workers : ~Owes(v, r)
            /\ \A s \in Schedulers : r \notin sch[s].todo
        BY <3>0, <3>1, FromIsOpen, OpenIsFree
      <4>2. status' = [status EXCEPT ![r] = To[op]]
        BY <2>4, <3>1 DEF UpdateStatus, SetRow
      <4>3. CreditOnce'
        BY <2>0, <3>0, <4>1, <4>2 DEF CreditOnce, Due, TypeOK
      <4>4. \A v \in Workers, q \in Res : Owes(v, q)' /\ v # w => Owes(v, q) /\ req'[v] = req[v]
        BY <2>0, <2>4 DEF UpdateStatus, Goto, Finish, Owes, At, TypeOK
      <4>5. \A q \in Res : Owes(w, q)' => q = r /\ op \in {"checkout", "cancel"} /\ req'[w].op = op
        BY <2>0, <2>4, <3>1 DEF UpdateStatus, Goto, Finish, Owes, At, TypeOK, Idle
      <4>6. \A q \in Res : q # r => status'[q] = status[q]
        BY <4>2 DEF TypeOK
      <4>7. status'[r] = To[op]
        BY <2>0, <3>0, <4>2 DEF TypeOK
      <4>8. OneOwes'
        BY <2>0, <3>0, <4>1, <4>4, <4>5, <4>6, <4>7 DEF OneOwes
      <4> QED BY <4>3, <4>8
    <3>2. CASE status[r] \notin From[op]
      <4>1. UNCHANGED status
        BY <2>4, <3>2 DEF UpdateStatus
      <4>2. \A v \in Workers, q \in Res : Owes(v, q)' => Owes(v, q) /\ req'[v] = req[v]
        BY <2>0, <2>4, <3>2 DEF UpdateStatus, Finish, Owes, At, TypeOK
      <4> QED BY <2>0, <3>0, <4>1, <4>2 DEF CreditOnce, OneOwes, Due
    <3> QED BY <3>1, <3>2
  <2>5. ASSUME NEW w \in Workers, OnComplete(w) \/ ApplyLateCancel(w)
        PROVE  CreditOnce' /\ OneOwes'
    <3> DEFINE r == req[w].res
    <3>0. /\ req[w] # Idle /\ r \in Res /\ Owes(w, r)
          /\ UNCHANGED <<status, sch>>
      BY <2>0, <2>5, RequestType DEF OnComplete, ApplyLateCancel, At, Owes
    <3>1. /\ logs[r] = <<>>
          /\ req[w].op \in {"checkout", "cancel"} /\ status[r] = To[req[w].op]
          /\ \A v \in Workers : Owes(v, r) => v = w
          /\ \A s \in Schedulers : r \notin sch[s].todo
      BY <2>0, <3>0 DEF OneOwes
    <3>2. status[r] \in Terminal
      BY <3>1 DEF To, Ops, Terminal
    <3>3. logs' = logs \/ Log(r, Due(r))
      BY <2>5, <3>1 DEF OnComplete, ApplyLateCancel, Due, To, Ops
    <3>4. /\ \A q \in Res : q # r => logs'[q] = logs[q]
          /\ logs'[r] \in {<<>>, <<Due(r)>>}
      <4>1. Due(r) \in Int
        BY DueInt
      <4>2. CASE logs' = logs
        BY <3>1, <4>2
      <4>3. CASE Log(r, Due(r))
        BY <2>0, <3>0, <3>1, <4>1, <4>3, LogFirst
      <4> QED BY <3>3, <4>2, <4>3
    <3>5. \A v \in Workers, q \in Res : Owes(v, q)' => v # w /\ Owes(v, q) /\ req'[v] = req[v]
      BY <2>0, <2>5 DEF OnComplete, ApplyLateCancel, Finish, Owes, At, TypeOK
    <3>6. CreditOnce'
      BY <2>0, <3>0, <3>2, <3>4 DEF CreditOnce, Due
    <3>7. OneOwes'
      BY <2>0, <3>0, <3>1, <3>4, <3>5 DEF OneOwes
    <3> QED BY <3>6, <3>7
  <2>6. ASSUME NEW w \in Workers, RequestFails(w) PROVE CreditOnce' /\ OneOwes'
    <3> DEFINE op == req[w].op  r == req[w].res
    <3>0. /\ req[w] # Idle /\ op \in Ops /\ r \in Res
          /\ UNCHANGED <<logs, sch>>
          /\ \A v \in Workers, q \in Res : Owes(v, q)' => Owes(v, q) /\ req'[v] = req[v]
      BY <2>0, <2>6, RequestType DEF RequestFails, Finish, At, Owes, TypeOK
    <3>1. CASE status[r] \in From[op] /\ SetRow(op, r, req[w].mark)
      <4>1. /\ logs[r] = <<>>
            /\ \A v \in Workers : ~Owes(v, r)
            /\ \A s \in Schedulers : r \notin sch[s].todo
        BY <3>0, <3>1, FromIsOpen, OpenIsFree
      <4>2. \A q \in Res : q # r => status'[q] = status[q]
        BY <2>0, <3>1 DEF SetRow, TypeOK
      <4> QED BY <2>0, <3>0, <4>1, <4>2 DEF CreditOnce, OneOwes, Due
    <3>2. CASE UNCHANGED status
      BY <2>0, <3>0, <3>2 DEF CreditOnce, OneOwes, Due
    <3> QED BY <2>6, <3>1, <3>2 DEF RequestFails
  <2>7. ASSUME NEW s \in Schedulers,
               ExpireNoShows(s) \/ AutoCompleteTimeout(s) \/ EndTempLeaveTimeout(s)
        PROVE  CreditOnce' /\ OneOwes'
    <3>1. PICK to \in {"noShows", "timeUp", "leaveOut"}, st \in {"violation", "completed"},
               done \in SUBSET Res, seen \in SUBSET Res :
             /\ \A r \in done : status[r] \in Active
             /\ (to = "noShows") <=> (st = "violation")
             /\ seen \subseteq done
             /\ sch[s].todo = {}
             /\ status' = [r \in Res |-> IF r \in done THEN st ELSE status[r]]
             /\ sch' = [sch EXCEPT ![s] = [pc |-> to, todo |-> seen]]
             /\ UNCHANGED <<logs, req>>
      <4>1. CASE ExpireNoShows(s)
        BY <4>1 DEF ExpireNoShows, Scan, NoShow, Active
      <4>2. CASE AutoCompleteTimeout(s)
        BY <4>2 DEF AutoCompleteTimeout, Scan, TimeUp, Active
      <4>3. CASE EndTempLeaveTimeout(s)
        BY <4>3 DEF EndTempLeaveTimeout, Scan, LeaveOut, Active
      <4> QED BY <2>7, <4>1, <4>2, <4>3
    <3>2. \A r \in done : /\ logs[r] = <<>>
                          /\ \A v \in Workers : ~Owes(v, r)
                          /\ \A t \in Schedulers : r \notin sch[t].todo
      BY <3>1, OpenIsFree DEF Active, Terminal
    <3>3. /\ sch'[s].todo = seen /\ sch'[s].pc = to
          /\ \A t \in Schedulers : t # s => sch'[t] = sch[t]
      BY <2>0, <3>1 DEF TypeOK
    <3>4. \A r \in Res : status'[r] = IF r \in done THEN st ELSE status[r]
      BY <3>1
    <3>5. \A v \in Workers, r \in Res : Owes(v, r)' <=> Owes(v, r)
      BY <3>1 DEF Owes, At
    <3>6. CreditOnce'
      BY <2>0, <3>1, <3>2, <3>4 DEF CreditOnce, Due
    <3>7. OneOwes'
      BY <2>0, <3>1, <3>2, <3>3, <3>4, <3>5 DEF OneOwes
    <3> QED BY <3>6, <3>7
  <2>8. ASSUME NEW s \in Schedulers, NEW r \in Res, Hook(s, r) \/ HookFails(s, r)
        PROVE  CreditOnce' /\ OneOwes'
    <3>0. r \in sch[s].todo /\ UNCHANGED <<status, req>>
      BY <2>8 DEF Hook, HookFails
    <3>1. /\ logs[r] = <<>>
          /\ status[r] = IF sch[s].pc = "noShows" THEN "violation" ELSE "completed"
          /\ \A t \in Schedulers : r \in sch[t].todo => t = s
          /\ \A v \in Workers : ~Owes(v, r)
      BY <2>0, <3>0 DEF OneOwes
    <3>2. logs' = logs \/ Log(r, Due(r))
      BY <2>8, <3>1 DEF Hook, HookFails, Due
    <3>3. /\ \A q \in Res : q # r => logs'[q] = logs[q]
          /\ logs'[r] \in {<<>>, <<Due(r)>>}
      <4>1. Due(r) \in Int
        BY DueInt
      <4>2. CASE logs' = logs
        BY <3>1, <4>2
      <4>3. CASE Log(r, Due(r))
        BY <2>0, <3>0, <3>1, <4>1, <4>3, LogFirst
      <4> QED BY <3>2, <4>2, <4>3
    <3>4. /\ sch'[s].todo = sch[s].todo \ {r} /\ sch'[s].pc = sch[s].pc
          /\ \A t \in Schedulers : t # s => sch'[t] = sch[t]
      BY <2>0, <2>8 DEF Hook, HookFails, TypeOK
    <3>5. \A v \in Workers, q \in Res : Owes(v, q)' <=> Owes(v, q)
      BY <3>0 DEF Owes, At
    <3>6. CreditOnce'
      BY <2>0, <3>0, <3>1, <3>3 DEF CreditOnce, Due, Terminal
    <3>7. OneOwes'
      BY <2>0, <3>0, <3>1, <3>3, <3>4, <3>5 DEF OneOwes
    <3> QED BY <3>6, <3>7
  <2>9. ASSUME NEW s \in Schedulers, EndRound(s) PROVE CreditOnce' /\ OneOwes'
    <3>1. UNCHANGED <<status, logs, req>>
      BY <2>9 DEF EndRound
    <3>2. \A t \in Schedulers, r \in Res : r \in sch'[t].todo => r \in sch[t].todo /\ sch'[t] = sch[t]
      BY <2>0, <2>9 DEF EndRound, Waiting, TypeOK
    <3>3. \A v \in Workers, r \in Res : Owes(v, r)' => Owes(v, r)
      BY <3>1 DEF Owes, At
    <3>4. \A t \in Schedulers, r \in Res : r \notin sch[t].todo => r \notin sch'[t].todo
      BY <3>2
    <3> QED BY <2>0, <3>1, <3>2, <3>3, <3>4 DEF CreditOnce, OneOwes, Due
  <2>10. CASE Crash
    <3>1. UNCHANGED <<status, logs>>
      BY <2>10 DEF Crash
    <3>2. \A v \in Workers, r \in Res : ~Owes(v, r)'
      BY <2>10 DEF Crash, Owes, At
    <3>3. \A t \in Schedulers, r \in Res : r \notin sch'[t].todo
      BY <2>10 DEF Crash, Waiting
    <3> QED BY <2>0, <3>1, <3>2, <3>3 DEF CreditOnce, OneOwes, Due
  <2>11. CASE Tick \/ UNCHANGED vars
    BY <2>0, <2>11 DEF Tick, vars, CreditOnce, OneOwes, Due, Owes, At
  <2> QED
    BY <2>1, <2>2, <2>3, <2>4, <2>5, <2>6, <2>7, <2>8, <2>9, <2>10, <2>11
       DEF Next, RequestStep, RoundStep
<1> QED
  BY <1>1, <1>2, TypeCorrect, PTL DEF Spec

\* Whatever races for a row, its owner is credited or charged once at most.
THEOREM CreditSafe == Spec => []CreditOnce
BY CreditInvariant, PTL DEF CreditInv

\* Checkout, Cancel and the hooks of all schedulers never owe one credit twice.
THEOREM OwedOnce == Spec => []OneOwes
BY CreditInvariant, PTL DEF CreditInv

-------------------------------------------------------------------------------
(* Attendance. Checkin looks at the clock before it writes: the instant that *)
(* a request carries to its UPDATE is inside the window.                     *)

AttendanceInv ==
    /\ TypeOK
    /\ Attendance
    /\ \A w \in Workers : At(w, "write") /\ req[w].op = "checkin"
                            => req[w].mark \in CheckinWindow(req[w].res)

\* What the UPDATE of a request sets keeps Attendance.
LEMMA SetRowAttendance ==
    ASSUME TypeOK, Attendance, NEW op \in Ops, NEW r \in Res, NEW mark \in Nat \cup {Never},
           op = "checkin" => mark \in CheckinWindow(r),
           status[r] \in From[op], SetRow(op, r, mark)
    PROVE  Attendance'
<1>1. /\ \A q \in Res : q # r => status'[q] = status[q] /\ checkinAt'[q] = checkinAt[q]
      /\ status'[r] = To[op]
      /\ checkinAt'[r] = IF op = "checkin" THEN mark ELSE checkinAt[r]
  BY DEF SetRow, TypeOK
<1>2. CASE op = "checkin"
  BY <1>1, <1>2 DEF Attendance, CheckinWindow, To, Ops
<1>3. CASE op = "cancel"
  BY <1>1, <1>3 DEF Attendance, CheckinWindow, From, To, Ops
<1>4. CASE op \in {"leave", "return", "checkout"}
  BY <1>1, <1>4 DEF Attendance, CheckinWindow, From, To, Ops
<1> QED
  BY <1>2, <1>3, <1>4 DEF Ops

\* Attendance, and that the instant a check-in carries from its look at the clock
\* to its UPDATE is inside the window: what makes Attendance inductive.
THEOREM AttendanceInvariant == Spec => []AttendanceInv
<1>1. Init => AttendanceInv
  BY TypeInit DEF Init, AttendanceInv, Attendance, At
<1>2. AttendanceInv /\ TypeOK' /\ [Next]_vars => AttendanceInv'
  <2> DEFINE Carried(w) == At(w, "write") /\ req[w].op = "checkin"
                             => req[w].mark \in CheckinWindow(req[w].res)
  <2> SUFFICES ASSUME AttendanceInv, TypeOK', [Next]_vars
               PROVE  Attendance' /\ \A w \in Workers : Carried(w)'
    BY DEF AttendanceInv
  <2> USE DEF rows
  <2>0. TypeOK /\ Attendance /\ \A w \in Workers : Carried(w)
    BY DEF AttendanceInv
  <2>1. ASSUME NEW r \in Res, Book(r) PROVE Attendance' /\ UNCHANGED req
    BY <2>0, <2>1 DEF Book, Attendance, CheckinWindow, TypeOK
  <2>2. ASSUME NEW w \in Workers, NEW op \in Ops, NEW r \in Res, GetOwned(w, op, r)
        PROVE  Attendance' /\ \A v \in Workers : Carried(v)'
    <3>1. Attendance'
      BY <2>0, <2>2 DEF GetOwned, Attendance, CheckinWindow
    <3>2. \A v \in Workers : At(v, "write")' => req'[v] = req[v]
      BY <2>0, <2>2 DEF GetOwned, At, TypeOK
    <3> QED BY <2>0, <3>1, <3>2 DEF At, CheckinWindow
  <2>3. ASSUME NEW w \in Workers, LookAtClock(w)
        PROVE  Attendance' /\ \A v \in Workers : Carried(v)'
    <3>1. Attendance'
      BY <2>0, <2>3 DEF LookAtClock, Attendance, CheckinWindow
    <3>2. \A v \in Workers : v # w => req'[v] = req[v]
      BY <2>0, <2>3 DEF LookAtClock, Goto, Finish, TypeOK
    <3>3. Carried(w)'
      BY <2>0, <2>3 DEF LookAtClock, Goto, Finish, Allowed, At, TypeOK, CheckinWindow, Idle
    <3> QED BY <2>0, <3>1, <3>2, <3>3 DEF At, CheckinWindow
  <2>4. ASSUME NEW w \in Workers, UpdateStatus(w) \/ RequestFails(w)
        PROVE  Attendance' /\ \A v \in Workers : Carried(v)'
    <3> DEFINE op == req[w].op  r == req[w].res
    <3>0. req[w] # Idle /\ op \in Ops /\ r \in Res /\ req[w].mark \in Nat \cup {Never}
      BY <2>0, <2>4, RequestType DEF UpdateStatus, RequestFails, At
    <3>1. \/ UNCHANGED <<status, checkinAt, leaveAt>>
          \/ At(w, "write") /\ status[r] \in From[op] /\ SetRow(op, r, req[w].mark)
      BY <2>4 DEF UpdateStatus, RequestFails
    <3>2. Attendance'
      BY <2>0, <3>0, <3>1, SetRowAttendance DEF Attendance, CheckinWindow
    <3>3. \A v \in Workers : At(v, "write")' => req'[v] = req[v]
      BY <2>0, <2>4 DEF UpdateStatus, RequestFails, Goto, Finish, At, TypeOK
    <3> QED BY <2>0, <3>2, <3>3 DEF At, CheckinWindow
  <2>5. ASSUME NEW w \in Workers, OnComplete(w) \/ ApplyLateCancel(w)
        PROVE  Attendance' /\ \A v \in Workers : Carried(v)'
    <3>1. Attendance'
      BY <2>0, <2>5 DEF OnComplete, ApplyLateCancel, Attendance, CheckinWindow
    <3>2. \A v \in Workers : At(v, "write")' => req'[v] = req[v]
      BY <2>0, <2>5 DEF OnComplete, ApplyLateCancel, Finish, At, TypeOK
    <3> QED BY <2>0, <3>1, <3>2 DEF At, CheckinWindow
  <2>6. ASSUME NEW s \in Schedulers, ExpireNoShows(s)
        PROVE  Attendance' /\ UNCHANGED req
    <3>1. PICK done \in SUBSET {r \in Res : NoShow(r)} :
             status' = [r \in Res |-> IF r \in done THEN "violation" ELSE status[r]]
      BY <2>6 DEF ExpireNoShows, Scan
    <3> QED BY <2>0, <2>6, <3>1 DEF ExpireNoShows, Scan, NoShow, Attendance, CheckinWindow
  <2>7. ASSUME NEW s \in Schedulers, AutoCompleteTimeout(s) \/ EndTempLeaveTimeout(s)
        PROVE  Attendance' /\ UNCHANGED req
    <3>1. PICK done \in SUBSET {r \in Res : status[r] \in {"checked_in", "temp_leave"}} :
             status' = [r \in Res |-> IF r \in done THEN "completed" ELSE status[r]]
      BY <2>7 DEF AutoCompleteTimeout, EndTempLeaveTimeout, Scan, TimeUp, LeaveOut
    <3>2. UNCHANGED <<checkinAt, req>>
      BY <2>7 DEF AutoCompleteTimeout, EndTempLeaveTimeout, Scan
    <3> QED BY <2>0, <3>1, <3>2 DEF Attendance, CheckinWindow
  <2>8. ASSUME NEW s \in Schedulers,
               EndRound(s) \/ \E r \in Res : Hook(s, r) \/ HookFails(s, r)
        PROVE  Attendance' /\ UNCHANGED req
    BY <2>0, <2>8 DEF EndRound, Hook, HookFails, Attendance, CheckinWindow
  <2>9. CASE Crash
    BY <2>0, <2>9 DEF Crash, Attendance, CheckinWindow, At
  <2>10. CASE Tick \/ UNCHANGED vars
    BY <2>0, <2>10 DEF Tick, vars, Attendance, CheckinWindow, At
  <2>11. UNCHANGED req => \A w \in Workers : Carried(w)'
    BY <2>0 DEF At, CheckinWindow
  <2> QED
    BY <2>1, <2>2, <2>3, <2>4, <2>5, <2>6, <2>7, <2>8, <2>9, <2>10, <2>11
       DEF Next, RequestStep, RoundStep
<1> QED
  BY <1>1, <1>2, TypeCorrect, PTL DEF Spec

\* Rows that were used were signed in within the window, no-shows never were.
THEOREM AttendanceSafe == Spec => []Attendance
BY AttendanceInvariant, PTL DEF AttendanceInv

-------------------------------------------------------------------------------
(* ReservationLifecycle implements ReservationOutcome: every step opens,     *)
(* closes or posts, or changes neither an outcome nor a log.                 *)

Outcome == [r \in Res |-> IF status[r] \in Active THEN "open" ELSE status[r]]

\* Writing what a closed row calls for is the Post of ReservationOutcome.
LEMMA LogIsPost ==
    ASSUME CreditInv, NEW r \in Res, status[r] \in Terminal, logs[r] = <<>>,
           Log(r, Due(r)), UNCHANGED status
    PROVE  Promise!Post(r)
<1>1. Outcome[r] = status[r] /\ status[r] \in Promise!Outcomes
  BY DEF Outcome, Active, Terminal, Promise!Outcomes
<1>2. Promise!Delta(status[r]) = Due(r)
  BY DEF Promise!Delta, Due, Promise!CreditViolationDelta, Promise!CreditLateCancelDelta,
         Promise!CreditCompletionDelta, CreditViolationDelta, CreditLateCancelDelta,
         CreditCompletionDelta
<1>3. Append(<<>>, Due(r)) = <<Due(r)>>
  BY DueInt
<1> QED
  BY <1>1, <1>2, <1>3 DEF Promise!Post, Log, Outcome, CreditInv, TypeOK

\* Setting the rows S, all of them open, to one final state is its Close.
LEMMA ScanIsClose ==
    ASSUME NEW S \in SUBSET Res, \A r \in S : status[r] \in Active, NEW st \in Terminal,
           status' = [r \in Res |-> IF r \in S THEN st ELSE status[r]], UNCHANGED logs
    PROVE  Promise!Close(S, st) \/ UNCHANGED <<Outcome, logs>>
<1>1. CASE S = {}
  BY <1>1 DEF Outcome
<1>2. CASE S # {}
  <2>1. \A r \in S : Outcome[r] = "open"
    BY DEF Outcome
  <2>2. Outcome' = [r \in Res |-> IF r \in S THEN st ELSE Outcome[r]]
    BY DEF Outcome, Active, Terminal
  <2> QED BY <1>2, <2>1, <2>2 DEF Promise!Close, Outcome
<1> QED
  BY <1>1, <1>2

\* The conditional UPDATE of a request closes one row, or none.
LEMMA SetRowIsClose ==
    ASSUME TypeOK, NEW op \in Ops, NEW r \in Res, NEW mark,
           status[r] \in From[op], SetRow(op, r, mark), UNCHANGED logs
    PROVE  (\E st \in Terminal : Promise!Close({r}, st)) \/ UNCHANGED <<Outcome, logs>>
<1>0. /\ status[r] \in Active
      /\ status' = [q \in Res |-> IF q \in {r} THEN To[op] ELSE status[q]]
  BY DEF From, Ops, Active, SetRow, TypeOK
<1>1. CASE op \in {"checkout", "cancel"}
  <2>1. To[op] \in Terminal
    BY <1>1 DEF To, Ops, Terminal
  <2> QED BY <1>0, <2>1, ScanIsClose
<1>2. CASE op \notin {"checkout", "cancel"}
  <2>1. To[op] \in Active
    BY <1>2 DEF To, Ops, Active
  <2> QED BY <1>0, <2>1 DEF Outcome
<1> QED
  BY <1>1, <1>2

\* Requests, rounds, faults and crashes keep the promise of ReservationOutcome:
\* one outcome that never changes, one change of credit that goes with it.
THEOREM Implementation == Spec => ImplementsOutcome
<1>1. Init => Promise!OutcomeInit
  BY DEF Init, Promise!OutcomeInit, Active
<1>2. CreditInv /\ [Next]_vars => [Promise!OutcomeNext]_<<Outcome, logs>>
  <2> SUFFICES ASSUME CreditInv, [Next]_vars
               PROVE  Promise!OutcomeNext \/ UNCHANGED <<Outcome, logs>>
    OBVIOUS
  <2> USE DEF rows
  <2>0. TypeOK /\ CreditOnce /\ OneOwes
    BY DEF CreditInv
  <2>1. \A S \in SUBSET Res, st \in Terminal : Promise!Close(S, st) => Promise!OutcomeNext
    BY DEF Promise!OutcomeNext, Promise!Outcomes, Terminal
  <2>2. \A r \in Res : Promise!Post(r) => Promise!OutcomeNext
    BY DEF Promise!OutcomeNext
  <2>3. ASSUME NEW r \in Res, Book(r) PROVE Promise!OutcomeNext
    <3>1. \A q \in {r} : Outcome[q] = "none"
      BY <2>3 DEF Book, Outcome, Active
    <3>2. Outcome' = [q \in Res |-> IF q \in {r} THEN "open" ELSE Outcome[q]]
      BY <2>0, <2>3 DEF Book, Outcome, Active, TypeOK
    <3>3. Promise!Open({r})
      BY <2>3, <3>1, <3>2 DEF Book, Promise!Open, Outcome
    <3> QED BY <3>3 DEF Promise!OutcomeNext
  <2>4. ASSUME NEW w \in Workers, UpdateStatus(w) \/ RequestFails(w)
        PROVE  Promise!OutcomeNext \/ UNCHANGED <<Outcome, logs>>
    <3> DEFINE op == req[w].op  r == req[w].res
    <3>0. req[w] # Idle /\ op \in Ops /\ r \in Res
      BY <2>0, <2>4, RequestType DEF UpdateStatus, RequestFails, At
    <3>1. UNCHANGED logs
      BY <2>4 DEF UpdateStatus, RequestFails
    <3>2. \/ UNCHANGED status
          \/ status[r] \in From[op] /\ SetRow(op, r, req[w].mark)
      BY <2>4 DEF UpdateStatus, RequestFails
    <3>3. CASE UNCHANGED status
      BY <3>1, <3>3 DEF Outcome
    <3>4. CASE status[r] \in From[op] /\ SetRow(op, r, req[w].mark)
      BY <2>0, <2>1, <3>0, <3>1, <3>4, SetRowIsClose
    <3> QED BY <3>2, <3>3, <3>4
  <2>5. ASSUME NEW w \in Workers, OnComplete(w) \/ ApplyLateCancel(w)
        PROVE  Promise!OutcomeNext \/ UNCHANGED <<Outcome, logs>>
    <3> DEFINE r == req[w].res
    <3>0. /\ r \in Res /\ Owes(w, r) /\ UNCHANGED status
      BY <2>0, <2>5, RequestType DEF OnComplete, ApplyLateCancel, At, Owes
    <3>1. /\ logs[r] = <<>>
          /\ req[w].op \in {"checkout", "cancel"} /\ status[r] = To[req[w].op]
      BY <2>0, <3>0 DEF OneOwes
    <3>2. status[r] \in Terminal
      BY <3>1 DEF To, Ops, Terminal
    <3>3. logs' = logs \/ Log(r, Due(r))
      BY <2>5, <3>1 DEF OnComplete, ApplyLateCancel, Due, To, Ops
    <3> QED BY <2>2, <3>0, <3>1, <3>2, <3>3, LogIsPost DEF Outcome
  <2>6. ASSUME NEW s \in Schedulers,
               ExpireNoShows(s) \/ AutoCompleteTimeout(s) \/ EndTempLeaveTimeout(s)
        PROVE  Promise!OutcomeNext \/ UNCHANGED <<Outcome, logs>>
    <3>1. PICK st \in Terminal, done \in SUBSET Res :
             /\ \A r \in done : status[r] \in Active
             /\ status' = [r \in Res |-> IF r \in done THEN st ELSE status[r]]
             /\ UNCHANGED logs
      <4>1. CASE ExpireNoShows(s)
        BY <4>1 DEF ExpireNoShows, Scan, NoShow, Active, Terminal
      <4>2. CASE AutoCompleteTimeout(s)
        BY <4>2 DEF AutoCompleteTimeout, Scan, TimeUp, Active, Terminal
      <4>3. CASE EndTempLeaveTimeout(s)
        BY <4>3 DEF EndTempLeaveTimeout, Scan, LeaveOut, Active, Terminal
      <4> QED BY <2>6, <4>1, <4>2, <4>3
    <3> QED BY <2>1, <3>1, ScanIsClose
  <2>7. ASSUME NEW s \in Schedulers, NEW r \in Res, Hook(s, r)
        PROVE  Promise!OutcomeNext
    <3>1. /\ logs[r] = <<>>
          /\ status[r] = IF sch[s].pc = "noShows" THEN "violation" ELSE "completed"
      BY <2>0, <2>7 DEF OneOwes, Hook
    <3>2. Log(r, Due(r)) /\ UNCHANGED status
      BY <2>7, <3>1 DEF Hook, Due
    <3> QED BY <2>2, <3>1, <3>2, LogIsPost DEF Terminal
  <2>8. ASSUME UNCHANGED <<status, logs>> PROVE UNCHANGED <<Outcome, logs>>
    BY <2>8 DEF Outcome
  <2>9. ASSUME NEW w \in Workers,
               LookAtClock(w) \/ \E op \in Ops, r \in Res : GetOwned(w, op, r)
        PROVE  UNCHANGED <<status, logs>>
    BY <2>9 DEF LookAtClock, GetOwned
  <2>10. ASSUME NEW s \in Schedulers, EndRound(s) \/ \E r \in Res : HookFails(s, r)
         PROVE  UNCHANGED <<status, logs>>
    BY <2>10 DEF EndRound, HookFails
  <2>11. ASSUME Crash \/ Tick \/ UNCHANGED vars PROVE UNCHANGED <<status, logs>>
    BY <2>11 DEF Crash, Tick, vars
  <2> QED
    BY <2>3, <2>4, <2>5, <2>6, <2>7, <2>8, <2>9, <2>10, <2>11 DEF Next, RequestStep, RoundStep
<1> QED
  BY <1>1, <1>2, CreditInvariant, PTL
     DEF Spec, ImplementsOutcome, Promise!OutcomeSpec, Promise!outcomeVars, Outcome

-------------------------------------------------------------------------------
(* TimelyScheduler. Its steps are steps of ReservationLifecycle, so what is *)
(* proved above holds of it as well.                                        *)

\* The rounds that begin in time are rounds, and the rest is unchanged.
THEOREM TimelyImplements == TimelySpec => Spec
<1>1. TimelyInit => Init
  BY DEF TimelyInit
<1>2. [TimelyNext]_timelyVars => [Next]_vars
  BY DEF TimelyNext, BeginRound, TimelyTick, Next, RoundStep, timelyVars
<1> QED
  BY <1>1, <1>2, PTL DEF TimelySpec, Spec

\* A later instant is not on an earlier day.
LEMMA DateMonotone ==
    ASSUME NEW a \in Nat, NEW b \in Nat, a <= b
    PROVE  Date(a) <= Date(b) /\ Date(a) \in Int
<1> DEFINE q == a \div DayLength  p == b \div DayLength
<1>0. DayLength \in Nat /\ DayLength > 0
  BY TimingAssumption
<1>1. /\ q \in Int /\ DayLength * q <= a
      /\ p \in Int /\ b < DayLength * (p + 1)
  BY <1>0
<1>2. q <= p
  <2> SUFFICES ASSUME p + 1 <= q PROVE FALSE
    BY <1>1
  <2>1. DayLength * (p + 1) <= DayLength * q
    BY <1>0, <1>1
  <2> QED BY <1>0, <1>1, <2>1
<1> QED
  BY <1>1, <1>2 DEF Date

\* lastRound is when the last round began, MaxGap ago at most, and the clock
\* stands still while a round runs.
LastRound ==
    /\ lastRound \in Nat /\ lastRound <= now /\ now <= lastRound + MaxGap
    /\ \A s \in Schedulers : sch[s].pc # "wait" => now = lastRound

\* What the last round left: the scan for no-shows has been made when it begins,
\* the one for slots that are over when it has gone past "noShows".
RoundDone ==
    \A r \in Res :
        /\ status[r] = "pending" => lastRound <= StartAt[r] + CheckinGrace
        /\ status[r] \in {"checked_in", "temp_leave"} =>
             \/ lastRound <= EndAt[r]
             \/ \E s \in Schedulers : sch[s].pc = "noShows"

ReleaseInv == TypeOK /\ LastRound /\ RoundDone /\ SeatReleasedInTime

\* The scans still see the rows they are late for, across one midnight.
LEMMA LateIsRecent ==
    ASSUME ReleaseInv, NEW r \in Res, status[r] \in Active
    PROVE  Recent(r)
<1>0. /\ now \in Nat /\ MaxGap \in Nat /\ CheckinGrace \in Nat
      /\ StartAt[r] \in Nat /\ EndAt[r] \in Nat
  BY ResAssumption, TimingAssumption, GapAssumption DEF ReleaseInv, LastRound, TypeOK
<1>1. now <= EndAt[r] + MaxGap
  BY <1>0, OutageAssumption DEF ReleaseInv, SeatReleasedInTime, Active
<1>2. Date(now) <= Date(EndAt[r] + MaxGap)
  BY <1>0, <1>1, DateMonotone
<1>3. Date(StartAt[r]) \in Int /\ Date(now) \in Int /\ Date(EndAt[r] + MaxGap) \in Int
  BY <1>0, DateMonotone
<1> QED
  BY <1>2, <1>3, OutageAssumption DEF Recent

\* A request leaves a row pending, or closed, or takes it into use from pending:
\* in time if the row was pending in time.
LEMMA RowsInTime ==
    ASSUME ReleaseInv, UNCHANGED <<now, lastRound>>,
           \A r \in Res : \/ status'[r] = status[r]
                          \/ status'[r] \notin Active
                          \/ status[r] \in Active /\ status'[r] # "pending",
           \A s \in Schedulers : (sch[s].pc = "noShows") <=> (sch'[s].pc = "noShows")
    PROVE  RoundDone' /\ SeatReleasedInTime'
<1>0. /\ now \in Nat /\ MaxGap \in Nat /\ CheckinGrace \in Nat /\ lastRound \in Nat
      /\ \A r \in Res : StartAt[r] \in Nat /\ EndAt[r] \in Nat
  BY ResAssumption, TimingAssumption, GapAssumption DEF ReleaseInv, LastRound, TypeOK
<1>1. \A r \in Res : StartAt[r] + CheckinGrace <= EndAt[r]
  BY OutageAssumption
<1>2. RoundDone'
  BY <1>0, <1>1 DEF ReleaseInv, RoundDone, Active
<1>3. SeatReleasedInTime'
  BY <1>0, <1>1 DEF ReleaseInv, SeatReleasedInTime, Active
<1> QED
  BY <1>2, <1>3

\* Whatever is in progress, one round per MaxGap closes in time what is overdue,
\* as long as no UPDATE of a scan fails: each scan sees all the rows it is late
\* for, and no request puts one back.
THEOREM ReleasedInTime == ~Faults => (TimelySpec => []SeatReleasedInTime)
<1> SUFFICES ASSUME ~Faults PROVE TimelySpec => []SeatReleasedInTime
  OBVIOUS
<1>1. TimelyInit /\ TypeOK => ReleaseInv
  BY ResAssumption, TimingAssumption, GapAssumption
     DEF TimelyInit, Init, ReleaseInv, LastRound, RoundDone, SeatReleasedInTime, Waiting
<1>2. ReleaseInv /\ TypeOK' /\ [TimelyNext]_timelyVars => ReleaseInv'
  <2> SUFFICES ASSUME ReleaseInv, TypeOK', [TimelyNext]_timelyVars
               PROVE  LastRound' /\ RoundDone' /\ SeatReleasedInTime'
    BY DEF ReleaseInv
  <2> USE DEF rows
  <2>0. /\ TypeOK /\ LastRound /\ RoundDone /\ SeatReleasedInTime
        /\ now \in Nat /\ MaxGap \in Nat /\ MaxGap > 0 /\ CheckinGrace \in Nat
        /\ lastRound \in Nat
        /\ \A r \in Res : StartAt[r] \in Nat /\ EndAt[r] \in Nat
    BY ResAssumption, TimingAssumption, GapAssumption DEF ReleaseInv, LastRound, TypeOK
  <2>1. ASSUME NEW s \in Schedulers, BeginRound(s)
        PROVE  LastRound' /\ RoundDone' /\ SeatReleasedInTime'
    <3>1. /\ status' = [r \in Res |-> IF NoShow(r) THEN "violation" ELSE status[r]]
          /\ \A t \in Schedulers : sch'[t].pc = IF t = s THEN "noShows" ELSE sch[t].pc
          /\ UNCHANGED now /\ lastRound' = now
      BY <2>0, <2>1 DEF BeginRound, ExpireNoShows, Scan, TypeOK
    <3>2. LastRound'
      BY <2>0, <3>1 DEF LastRound
    <3>3. \A r \in Res : status'[r] = "pending" => now <= StartAt[r] + CheckinGrace
      <4> SUFFICES ASSUME NEW r \in Res, status'[r] = "pending", now > StartAt[r] + CheckinGrace
                   PROVE  FALSE
        BY <2>0
      <4>1. status[r] = "pending" /\ ~NoShow(r)
        BY <3>1
      <4>2. Recent(r)
        BY <4>1, LateIsRecent DEF Active
      <4> QED BY <2>0, <4>1, <4>2 DEF NoShow
    <3>4. RoundDone'
      BY <3>1, <3>3 DEF RoundDone
    <3>5. SeatReleasedInTime'
      BY <2>0, <3>1 DEF SeatReleasedInTime
    <3> QED BY <3>2, <3>4, <3>5
  <2>2. CASE TimelyTick
    <3>1. /\ now' = now + 1 /\ now + 1 <= lastRound + MaxGap
          /\ \A s \in Schedulers : sch[s].pc = "wait"
          /\ UNCHANGED <<lastRound, status, sch>>
      BY <2>0, <2>2 DEF TimelyTick, Tick
    <3>2. \A r \in Res :
            /\ status[r] = "pending" => lastRound <= StartAt[r] + CheckinGrace
            /\ status[r] \in {"checked_in", "temp_leave"} => lastRound <= EndAt[r]
      BY <2>0, <3>1 DEF RoundDone
    <3> QED BY <2>0, <3>1, <3>2 DEF LastRound, RoundDone, SeatReleasedInTime
  <2>3. CASE /\ Next
             /\ now' = now
             /\ \A s \in Schedulers : ~(sch[s].pc = "wait" /\ sch'[s].pc = "noShows")
             /\ UNCHANGED lastRound
    <3>1. ASSUME NEW r \in Res, Book(r)
          PROVE  LastRound' /\ RoundDone' /\ SeatReleasedInTime'
      <4>1. /\ \A q \in Res : status'[q] = IF q = r THEN "pending" ELSE status[q]
            /\ now <= StartAt[r] /\ UNCHANGED <<now, lastRound, sch>>
        BY <2>0, <2>3, <3>1 DEF Book, TypeOK
      <4> QED BY <2>0, <4>1 DEF LastRound, RoundDone, SeatReleasedInTime
    <3>2. ASSUME NEW w \in Workers,
                 \/ RequestStep(w) \/ RequestFails(w)
                 \/ \E op \in Ops, r \in Res : GetOwned(w, op, r)
          PROVE  LastRound' /\ RoundDone' /\ SeatReleasedInTime'
      <4>1. UNCHANGED <<now, lastRound, sch>>
        BY <2>3, <3>2 DEF RequestStep, LookAtClock, UpdateStatus, OnComplete, ApplyLateCancel,
           RequestFails, GetOwned
      <4>2. \A r \in Res : \/ status'[r] = status[r]
                           \/ status'[r] \notin Active
                           \/ status[r] \in Active /\ status'[r] # "pending"
        <5>1. CASE UNCHANGED status
          BY <5>1
        <5>2. CASE UpdateStatus(w) \/ RequestFails(w)
          <6>1. req[w] # Idle /\ req[w].op \in Ops /\ req[w].res \in Res
            BY <2>0, <5>2, RequestType DEF UpdateStatus, RequestFails, At
          <6>2. \/ UNCHANGED status
                \/ /\ status[req[w].res] \in From[req[w].op]
                   /\ status' = [status EXCEPT ![req[w].res] = To[req[w].op]]
            BY <5>2 DEF UpdateStatus, RequestFails, SetRow
          <6>3. From[req[w].op] \subseteq Active /\ To[req[w].op] # "pending"
            BY <6>1 DEF From, To, Ops, Active
          <6> QED BY <2>0, <6>1, <6>2, <6>3 DEF TypeOK
        <5> QED BY <3>2, <5>1, <5>2
                DEF RequestStep, LookAtClock, OnComplete, ApplyLateCancel, GetOwned
      <4>3. LastRound'
        BY <2>0, <4>1 DEF LastRound
      <4> QED BY <4>1, <4>2, <4>3, RowsInTime
    <3>3. ASSUME NEW s \in Schedulers, AutoCompleteTimeout(s)
          PROVE  LastRound' /\ RoundDone' /\ SeatReleasedInTime'
      <4>1. /\ status' = [r \in Res |-> IF TimeUp(r) THEN "completed" ELSE status[r]]
            /\ \A t \in Schedulers : sch'[t].pc = IF t = s THEN "timeUp" ELSE sch[t].pc
            /\ UNCHANGED <<now, lastRound>> /\ now = lastRound
        BY <2>0, <2>3, <3>3 DEF AutoCompleteTimeout, Scan, TypeOK, LastRound
      <4>2. \A r \in Res : status'[r] \in {"checked_in", "temp_leave"} => lastRound <= EndAt[r]
        <5> SUFFICES ASSUME NEW r \in Res, status'[r] \in {"checked_in", "temp_leave"},
                            EndAt[r] < now
                     PROVE  FALSE
          BY <2>0, <4>1
        <5>1. status[r] \in {"checked_in", "temp_leave"} /\ ~TimeUp(r)
          BY <4>1
        <5>2. Recent(r)
          BY <5>1, LateIsRecent DEF Active
        <5> QED BY <5>1, <5>2 DEF TimeUp
      <4>3. \A r \in Res : status'[r] \in Active => status'[r] = status[r]
        BY <4>1 DEF Active
      <4> QED BY <2>0, <4>1, <4>2, <4>3 DEF LastRound, RoundDone, SeatReleasedInTime, Active
    <3>4. ASSUME NEW s \in Schedulers,
                 \/ EndTempLeaveTimeout(s) \/ EndRound(s)
                 \/ \E r \in Res : Hook(s, r) \/ HookFails(s, r)
          PROVE  LastRound' /\ RoundDone' /\ SeatReleasedInTime'
      <4>1. /\ UNCHANGED <<now, lastRound>>
            /\ \A t \in Schedulers :
                 /\ sch'[t].pc = "wait" \/ sch[t].pc # "wait"
                 /\ (sch[t].pc = "noShows") <=> (sch'[t].pc = "noShows")
        <5>1. CASE EndTempLeaveTimeout(s)
          BY <2>0, <2>3, <5>1 DEF EndTempLeaveTimeout, Scan, TypeOK
        <5>2. CASE EndRound(s)
          BY <2>0, <2>3, <5>2 DEF EndRound, Waiting, TypeOK
        <5>3. CASE \E r \in Res : Hook(s, r) \/ HookFails(s, r)
          <6>1. PICK T : sch' = [sch EXCEPT ![s] = [pc |-> sch[s].pc, todo |-> T]]
            BY <5>3 DEF Hook, HookFails
          <6>2. \A t \in Schedulers : sch'[t].pc = sch[t].pc
            BY <2>0, <6>1 DEF TypeOK
          <6> QED BY <2>3, <5>3, <6>2 DEF Hook, HookFails
        <5> QED BY <3>4, <5>1, <5>2, <5>3
      <4>2. \A r \in Res : status'[r] = status[r] \/ status'[r] \notin Active
        BY <2>0, <3>4 DEF EndTempLeaveTimeout, Scan, EndRound, Hook, HookFails, TypeOK, Active
      <4>3. LastRound'
        BY <2>0, <4>1 DEF LastRound
      <4> QED BY <4>1, <4>2, <4>3, RowsInTime
    <3>5. ASSUME NEW s \in Schedulers, ExpireNoShows(s) PROVE FALSE
      BY <2>0, <2>3, <3>5 DEF ExpireNoShows, Scan, TypeOK
    <3>6. ~Crash /\ ~Tick
      BY <2>0, <2>3 DEF Crash, Tick
    <3> QED BY <2>3, <3>1, <3>2, <3>3, <3>4, <3>5, <3>6 DEF Next, RoundStep
  <2>4. CASE UNCHANGED timelyVars
    BY <2>0, <2>4 DEF timelyVars, vars, LastRound, RoundDone, SeatReleasedInTime
  <2> QED
    BY <2>1, <2>2, <2>3, <2>4 DEF TimelyNext
<1>3. ReleaseInv => SeatReleasedInTime
  BY DEF ReleaseInv
<1>4. TimelySpec => []TypeOK
  BY TimelyImplements, TypeCorrect, PTL
<1> QED
  BY <1>1, <1>2, <1>3, <1>4, PTL DEF TimelySpec
===============================================================================

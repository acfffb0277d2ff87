-------------------------- MODULE CreditLedgerProofs --------------------------
(* Proofs about CreditLedger, for all users, scores, thresholds, amounts and *)
(* lengths of a ban.                                                         *)
EXTENDS CreditLedger, WellFoundedInduction, TLAPS

\* LEAST and GREATEST keep the score between 0 and the maximum.
LEMMA ClampRange == ASSUME NEW n \in Int PROVE Clamp(n) \in 0..MaxScore
BY CreditAssumption DEF Clamp

\* The deltas are whole numbers.
LEMMA DeltaInt == Deltas \subseteq Int
BY CreditAssumption
   DEF Deltas, CreditViolationDelta, CreditLateCancelDelta, CreditCompletionDelta

\* The date the transaction leaves is a date or NULL.
LEMMA NewBanType ==
    ASSUME TypeOK, NEW u \in Users, NEW delta, NEW n
    PROVE  NewBan(u, delta, n) \in Nat \cup {Null}
BY CreditAssumption DEF TypeOK, NewBan

\* What ApplyDelta does to each user: all of it to its own, nothing to others.
LEMMA ApplyDeltaEffect ==
    ASSUME TypeOK, NEW u \in Users, NEW delta \in Deltas, ApplyDelta(u, delta), NEW v \in Users
    PROVE  /\ score'[v] = IF v = u THEN Clamp(score[u] + delta) ELSE score[v]
           /\ bannedUntil'[v] = IF v = u THEN NewBan(u, delta, Clamp(score[u] + delta))
                                ELSE bannedUntil[v]
           /\ now' = now
BY DEF TypeOK, ApplyDelta

\* The columns keep their types and the score its range.
THEOREM TypeCorrect == Spec => []TypeOK
<1>1. Init => TypeOK
  BY CreditAssumption DEF Init, TypeOK
<1>2. TypeOK /\ [Next]_vars => TypeOK'
  <2> SUFFICES ASSUME TypeOK, [Next]_vars PROVE TypeOK'
    OBVIOUS
  <2>1. ASSUME NEW u \in Users, NEW delta \in Deltas, ApplyDelta(u, delta) PROVE TypeOK'
    <3> DEFINE n == Clamp(score[u] + delta)
    <3>1. n \in 0..MaxScore
      <4>1. score[u] + delta \in Int
        BY DeltaInt, CreditAssumption DEF TypeOK
      <4> QED BY <4>1, ClampRange
    <3>2. NewBan(u, delta, n) \in Nat \cup {Null}
      BY NewBanType
    <3>3. Append(logs[u], delta) \in Seq(Deltas)
      BY DEF TypeOK
    <3> HIDE DEF n
    <3>4. /\ score' = [score EXCEPT ![u] = n]
          /\ logs' = [logs EXCEPT ![u] = Append(@, delta)]
          /\ bannedUntil' = [bannedUntil EXCEPT ![u] = NewBan(u, delta, n)]
          /\ now' = now
      BY <2>1 DEF ApplyDelta, n
    <3> QED BY <3>1, <3>2, <3>3, <3>4 DEF TypeOK
  <2>2. CASE Tick
    BY <2>2, CreditAssumption DEF Tick, TypeOK
  <2>3. CASE UNCHANGED vars
    BY <2>3 DEF vars, TypeOK
  <2> QED BY <2>1, <2>2, <2>3 DEF Next
<1> QED
  BY <1>1, <1>2, PTL DEF Spec

\* No sequence of penalties and rewards leaves a low score without a ban date.
THEOREM LowScoreBanned == Spec => []LowScoreHasBan
<1>1. Init => LowScoreHasBan
  BY CreditAssumption DEF Init, LowScoreHasBan
<1>2. TypeOK /\ LowScoreHasBan /\ [Next]_vars => LowScoreHasBan'
  <2> SUFFICES ASSUME TypeOK, LowScoreHasBan, [Next]_vars PROVE LowScoreHasBan'
    OBVIOUS
  <2>1. ASSUME NEW u \in Users, NEW delta \in Deltas, ApplyDelta(u, delta)
        PROVE  LowScoreHasBan'
    <3> SUFFICES ASSUME NEW v \in Users, score'[v] < Threshold PROVE bannedUntil'[v] # Null
      BY DEF LowScoreHasBan
    <3>1. CASE v = u
      BY <2>1, <3>1, ApplyDeltaEffect, CreditAssumption DEF NewBan, Null, TypeOK
    <3>2. CASE v # u
      BY <2>1, <3>2, ApplyDeltaEffect DEF LowScoreHasBan
    <3> QED BY <3>1, <3>2
  <2>2. CASE Tick \/ UNCHANGED vars
    BY <2>2 DEF Tick, vars, LowScoreHasBan
  <2> QED BY <2>1, <2>2 DEF Next
<1> QED
  BY <1>1, <1>2, TypeCorrect, PTL DEF Spec

\* A running ban is neither lifted nor moved by any penalty or reward.
THEOREM BanIsFinal == Spec => BanStands
<1>1. TypeOK /\ [Next]_vars
        => [\A u \in Users : Banned(u) => bannedUntil'[u] = bannedUntil[u]]_vars
  <2> SUFFICES ASSUME TypeOK, Next, NEW v \in Users, Banned(v)
               PROVE  bannedUntil'[v] = bannedUntil[v]
    OBVIOUS
  <2>1. ASSUME NEW u \in Users, NEW delta \in Deltas, ApplyDelta(u, delta)
        PROVE  bannedUntil'[v] = bannedUntil[v]
    <3>1. bannedUntil[v] # Null /\ ~(bannedUntil[v] < now)
      BY DEF Banned, TypeOK, Null
    <3>2. CASE v = u
      BY <2>1, <3>1, <3>2, ApplyDeltaEffect DEF NewBan
    <3>3. CASE v # u
      BY <2>1, <3>3, ApplyDeltaEffect
    <3> QED BY <3>2, <3>3
  <2>2. CASE Tick
    BY <2>2 DEF Tick
  <2> QED BY <2>1, <2>2 DEF Next
<1> QED
  BY <1>1, TypeCorrect, PTL DEF Spec, BanStands

-------------------------------------------------------------------------------
(* The score and its log *)

\* Among the positions of a log, each set of positions has a last one.
LEMMA LastPosition ==
    ASSUME NEW n \in Nat, NEW s \in SUBSET (1..n), s # {}
    PROVE  Max(s) \in s /\ \A i \in s : i <= Max(s)
<1> DEFINE Above == {m \in Nat : \A i \in s : i <= m}
<1>1. Above \subseteq Nat /\ n \in Above
  OBVIOUS
<1>2. PICK m \in Above : \A k \in Above : ~(<<k, m>> \in OpToRel(<, Nat))
  <2> HIDE DEF Above
  <2> QED BY <1>1, NatLessThanWellFounded, WFMin
<1>3. \A k \in Above : ~(k < m)
  BY <1>2, <1>1 DEF OpToRel
<1>4. m \in s
  <2> SUFFICES ASSUME m \notin s PROVE FALSE
    OBVIOUS
  <2>1. PICK j \in s : TRUE
    OBVIOUS
  <2>2. m \in Nat /\ j <= m /\ j # m /\ j \in 1..n
    BY <2>1
  <2>3. m - 1 \in Above
    BY <2>2
  <2> QED BY <2>2, <2>3, <1>3
<1>5. \A i \in s : i <= m
  OBVIOUS
<1> HIDE DEF Above
<1>6. \E x \in s : \A i \in s : x >= i
  BY <1>4, <1>5
<1> QED BY <1>6 DEF Max

\* The fold behind ScoreMatchesLogs, as the library computes it: f gives for each
\* set of positions the score after the changes at those positions, in order.
IsReplay(f, log) ==
    f = [s \in SUBSET (DOMAIN log) |->
            IF s = {} THEN MaxScore
            ELSE Clamp(f[s \ {Max(s)}] + log[Max(s)])]

\* The score that the changes of a log explain.
Replay(log) == FoldLeft(LAMBDA n, delta : Clamp(n + delta), MaxScore, log)

\* There is exactly one such function, so that CHOOSE returns it.
Replayable(log) == \E f : IsReplay(f, log) /\ \A g : IsReplay(g, log) => g = f

\* The explained score is what that function gives for all positions of the log.
LEMMA ReplayIsLast == ASSUME NEW log, NEW f, IsReplay(f, log), \A g : IsReplay(g, log) => g = f
  PROVE Replay(log) = f[DOMAIN log]
<1>1. Replay(log) = (CHOOSE g : IsReplay(g, log))[DOMAIN log]
  BY DEF Replay, FoldLeft, MapThenFoldSet, IsReplay
<1>2. IsReplay(CHOOSE g : IsReplay(g, log), log)
  BY Zenon
<1>3. (CHOOSE g : IsReplay(g, log)) = f
  BY <1>2
<1> QED BY <1>1, <1>3

\* Without changes the explained score is that of a new account.
LEMMA ReplayEmpty == Replayable(<<>>) /\ Replay(<<>>) = MaxScore
<1> DEFINE f == [s \in SUBSET {} |-> MaxScore]
<1>0. DOMAIN <<>> = {}
  OBVIOUS
<1>1. IsReplay(f, <<>>)
  BY <1>0 DEF IsReplay
<1>2. ASSUME NEW g, IsReplay(g, <<>>) PROVE g = f
  BY <1>0, <1>2 DEF IsReplay
<1>3. f[DOMAIN <<>>] = MaxScore
  BY <1>0
<1> HIDE DEF f
<1>4. Replay(<<>>) = MaxScore
  BY <1>1, <1>2, <1>3, ReplayIsLast
<1> QED BY <1>1, <1>2, <1>4 DEF Replayable

\* One more change at the end of a log is one more clamped addition: the log of a
\* user explains its score after ApplyDelta if it did before.
LEMMA ReplayAppend ==
    ASSUME NEW log \in Seq(Deltas), NEW d \in Deltas, Replayable(log)
    PROVE  Replayable(Append(log, d)) /\ Replay(Append(log, d)) = Clamp(Replay(log) + d)
<1> DEFINE n == Len(log)
           more == Append(log, d)
<1>1. PICK f : IsReplay(f, log) /\ \A g : IsReplay(g, log) => g = f
  BY DEF Replayable
<1>2. /\ n \in Nat /\ DOMAIN log = 1..n /\ DOMAIN more = 1..n+1
      /\ \A i \in 1..n : more[i] = log[i]
      /\ more[n + 1] = d
  OBVIOUS
<1> HIDE DEF n, more
<1>3. ASSUME NEW s \in SUBSET (1..n+1), s # {}
      PROVE  /\ Max(s) \in s
             /\ n + 1 \in s => Max(s) = n + 1
             /\ n + 1 \notin s => s \in SUBSET (1..n)
             /\ s \ {n + 1} \in SUBSET (1..n)
  <2>0. n + 1 \in Nat
    BY <1>2
  <2>1. Max(s) \in s /\ \A i \in s : i <= Max(s)
    BY <2>0, <1>3, LastPosition
  <2>2. Max(s) \in 1..n+1
    BY <2>1
  <2>3. ASSUME NEW i \in s, i # n + 1 PROVE i \in 1..n
    BY <1>2, <2>3
  <2>4. n + 1 \in s => Max(s) = n + 1
    BY <1>2, <2>1, <2>2
  <2> QED BY <2>1, <2>3, <2>4
<1>4. ASSUME NEW g, IsReplay(g, more)
      PROVE  /\ IsReplay([s \in SUBSET (1..n) |-> g[s]], log)
             /\ \A s \in SUBSET (1..n+1) : n + 1 \in s => g[s] = Clamp(g[s \ {n+1}] + d)
  <2> DEFINE low == [s \in SUBSET (1..n) |-> g[s]]
  <2>1. g = [s \in SUBSET (1..n+1) |->
               IF s = {} THEN MaxScore ELSE Clamp(g[s \ {Max(s)}] + more[Max(s)])]
    BY <1>4, <1>2 DEF IsReplay
  <2>2. \A s \in SUBSET (1..n+1) :
          g[s] = IF s = {} THEN MaxScore ELSE Clamp(g[s \ {Max(s)}] + more[Max(s)])
    BY <2>1
  <2>3. ASSUME NEW s \in SUBSET (1..n)
        PROVE  low[s] = IF s = {} THEN MaxScore
                        ELSE Clamp(low[s \ {Max(s)}] + log[Max(s)])
    <3>0. 1..n \subseteq 1..n+1
      BY <1>2
    <3>1. s \in SUBSET (1..n+1) /\ s \ {Max(s)} \in SUBSET (1..n)
      BY <3>0, Zenon
    <3>2. s # {} => Max(s) \in 1..n
      BY <1>3, <3>1
    <3>3. low[s] = g[s] /\ low[s \ {Max(s)}] = g[s \ {Max(s)}]
      BY <3>1
    <3>4. s # {} => more[Max(s)] = log[Max(s)]
      BY <3>2, <1>2
    <3> HIDE DEF low
    <3> QED BY <2>2, <3>1, <3>3, <3>4
  <2>4. low = [s \in SUBSET (1..n) |-> low[s]]
    OBVIOUS
  <2>5. IsReplay(low, log)
    <3> HIDE DEF low
    <3> QED BY <2>3, <2>4, <1>2 DEF IsReplay
  <2>6. ASSUME NEW s \in SUBSET (1..n+1), n + 1 \in s
        PROVE  g[s] = Clamp(g[s \ {n+1}] + d)
    BY <2>2, <2>6, <1>2, <1>3
  <2> QED BY <2>5, <2>6
<1> DEFINE h == [s \in SUBSET (1..n+1) |->
                   IF n + 1 \in s THEN Clamp(f[s \ {n + 1}] + d) ELSE f[s]]
<1>5. IsReplay(h, more)
  <2>0. f = [s \in SUBSET (1..n) |->
               IF s = {} THEN MaxScore ELSE Clamp(f[s \ {Max(s)}] + log[Max(s)])]
    BY <1>1, <1>2 DEF IsReplay
  <2>1. \A s \in SUBSET (1..n) :
          f[s] = IF s = {} THEN MaxScore ELSE Clamp(f[s \ {Max(s)}] + log[Max(s)])
    BY <2>0
  <2>2. ASSUME NEW s \in SUBSET (1..n+1)
        PROVE  h[s] = IF s = {} THEN MaxScore
                      ELSE Clamp(h[s \ {Max(s)}] + more[Max(s)])
    <3>1. CASE s = {}
      BY <3>1, <2>1, <1>2
    <3>2. CASE n + 1 \in s
      <4>1. h[s] = Clamp(f[s \ {n + 1}] + d)
        BY <3>2
      <4>2. s \ {n + 1} \in SUBSET (1..n+1) /\ n + 1 \notin s \ {n + 1}
        OBVIOUS
      <4>3. h[s \ {n + 1}] = f[s \ {n + 1}]
        BY <4>2
      <4> HIDE DEF h
      <4> QED BY <4>1, <4>3, <3>2, <1>3, <1>2
    <3>3. CASE s # {} /\ n + 1 \notin s
      <4>1. s \in SUBSET (1..n) /\ Max(s) \in s
        BY <3>3, <1>3
      <4>2. s \ {Max(s)} \in SUBSET (1..n+1) /\ n + 1 \notin s \ {Max(s)}
        BY <4>1, <3>3
      <4>3. h[s] = f[s] /\ h[s \ {Max(s)}] = f[s \ {Max(s)}]
        BY <4>2, <3>3
      <4>4. Max(s) \in 1..n
        BY <4>1
      <4>5. more[Max(s)] = log[Max(s)]
        BY <4>4, <1>2
      <4> HIDE DEF h
      <4> QED BY <4>1, <4>3, <4>5, <3>3, <2>1
    <3> QED BY <3>1, <3>2, <3>3
  <2>3. h = [s \in SUBSET (1..n+1) |-> h[s]]
    OBVIOUS
  <2> HIDE DEF h
  <2> QED BY <2>2, <2>3, <1>2 DEF IsReplay
<1>6. ASSUME NEW g, IsReplay(g, more) PROVE g = h
  <2>1. [s \in SUBSET (1..n) |-> g[s]] = f
    BY <1>1, <1>4, <1>6
  <2>2. \A s \in SUBSET (1..n) : g[s] = f[s]
    BY <2>1
  <2>3. ASSUME NEW s \in SUBSET (1..n+1) PROVE g[s] = h[s]
    <3>1. CASE n + 1 \in s
      <4>1. s \ {n + 1} \in SUBSET (1..n)
        BY <1>3, <3>1
      <4> QED BY <4>1, <3>1, <2>2, <1>4, <1>6
    <3>2. CASE n + 1 \notin s
      <4>1. s \in SUBSET (1..n)
        BY <3>2, <1>2
      <4> QED BY <4>1, <3>2, <2>2
    <3> QED BY <3>1, <3>2
  <2>4. g = [s \in SUBSET (1..n+1) |-> g[s]]
    <3>1. g = [s \in SUBSET (1..n+1) |->
               IF s = {} THEN MaxScore ELSE Clamp(g[s \ {Max(s)}] + more[Max(s)])]
      BY <1>6, <1>2 DEF IsReplay
    <3> QED BY <3>1
  <2>5. h = [s \in SUBSET (1..n+1) |-> h[s]]
    OBVIOUS
  <2> HIDE DEF h
  <2> QED BY <2>3, <2>4, <2>5
<1>7. h[1..n+1] = Clamp(f[1..n] + d)
  <2>1. (1..n+1) \ {n + 1} = 1..n /\ n + 1 \in 1..n+1
    BY <1>2
  <2> QED BY <2>1
<1> HIDE DEF h
<1>8. Replay(log) = f[1..n] /\ Replay(more) = h[1..n+1]
  BY <1>1, <1>2, <1>5, <1>6, ReplayIsLast
<1>9. Replayable(more)
  BY <1>5, <1>6 DEF Replayable
<1> QED BY <1>7, <1>8, <1>9 DEF more

\* Every log replays to the score of its user, and every log can be replayed.
LogInv == \A u \in Users : score[u] = Replay(logs[u]) /\ Replayable(logs[u])

\* After any penalties and rewards, the score of every user is the one its rows
\* of credit_logs add up to, each addition clamped.
THEOREM ScoreIsExplained == Spec => []ScoreMatchesLogs
<1>1. Init => LogInv
  BY ReplayEmpty DEF Init, LogInv
<1>2. TypeOK /\ LogInv /\ [Next]_vars => LogInv'
  <2> SUFFICES ASSUME TypeOK, LogInv, [Next]_vars, NEW v \in Users
               PROVE  score'[v] = Replay(logs'[v]) /\ Replayable(logs'[v])
    BY DEF LogInv
  <2>1. ASSUME NEW u \in Users, NEW delta \in Deltas, ApplyDelta(u, delta)
        PROVE  score'[v] = Replay(logs'[v]) /\ Replayable(logs'[v])
    <3>1. logs[v] \in Seq(Deltas) /\ Replayable(logs[v]) /\ score[v] = Replay(logs[v])
      BY DEF TypeOK, LogInv
    <3>2. logs'[v] = IF v = u THEN Append(logs[u], delta) ELSE logs[v]
      BY <2>1 DEF ApplyDelta, TypeOK
    <3>3. score'[v] = IF v = u THEN Clamp(score[u] + delta) ELSE score[v]
      BY <2>1, ApplyDeltaEffect
    <3> QED BY <3>1, <3>2, <3>3, ReplayAppend
  <2>2. CASE Tick \/ UNCHANGED vars
    BY <2>2 DEF Tick, vars, LogInv
  <2> QED BY <2>1, <2>2 DEF Next
<1>3. LogInv => ScoreMatchesLogs
  BY DEF LogInv, ScoreMatchesLogs, Replay
<1> QED
  BY <1>1, <1>2, <1>3, TypeCorrect, PTL DEF Spec
===============================================================================

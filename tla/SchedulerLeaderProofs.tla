------------------------- MODULE SchedulerLeaderProofs -------------------------
(* Proofs about SchedulerLeader, for all instances, tokens, leases and periods *)
(* of renewal, whether or not Redis fails and goroutines stall.                *)
EXTENDS SchedulerLeader, TLAPS

\* A round in progress has the fields of one.
LEMMA RoundType ==
    ASSUME TypeOK, NEW i \in Instances, InRound(i)
    PROVE  /\ inst[i].token \in Tokens
           /\ inst[i].pc \in {"tried", "lead", "unlock"}
           /\ inst[i].renew \in {"off", "timer", "sent"}
           /\ inst[i].due \in 0..RenewEvery
          /\ inst[i].lag \in 0..TTL
BY DEF TypeOK, InRound, Rounds

\* A key that is there has a token and a lease.
LEMMA KeyType ==
    ASSUME TypeOK, key # NoKey
    PROVE  key.token \in Tokens /\ key.left \in 1..TTL
BY DEF TypeOK, Keys

\* A record of a round is not that of an instance that sleeps, and a key with a
\* lease is a key.
LEMMA NotAsleep ==
    ASSUME NEW pc, NEW t, NEW r, NEW d, NEW l, pc # "wait"
    PROVE  Round(pc, t, r, d, l) # Asleep
BY DEF Asleep, Round

\* The fields of a round.
LEMMA RoundIs ==
    ASSUME NEW pc \in {"tried", "lead", "unlock"}, NEW t \in Tokens, NEW r \in {"off", "timer", "sent"},
           NEW d \in 0..RenewEvery, NEW l \in 0..TTL
    PROVE  LET round == Round(pc, t, r, d, l) IN
           /\ round \in Rounds /\ round # Asleep
           /\ round.pc = pc /\ round.token = t /\ round.renew = r /\ round.due = d /\ round.lag = l
BY NotAsleep DEF Round, Rounds

\* A key that lives is not the missing one.
LEMMA IsKey ==
    ASSUME NEW t, NEW n \in Nat, n > 0
    PROVE  [token |-> t, left |-> n] # NoKey
BY DEF NoKey

\* An answer changes the renewal of the round that waits for it, if any.
LEMMA AnswerEffect ==
    ASSUME TypeOK, NEW t \in Tokens, NEW ok \in BOOLEAN, Answer(t, ok), NEW i \in Instances
    PROVE  /\ inst'[i] \in Rounds
           /\ InRound(i)' <=> InRound(i)
           /\ Tried(i)' <=> Tried(i)
           /\ InRound(i) => inst'[i].token = inst[i].token /\ inst'[i].pc = inst[i].pc
                              /\ inst'[i].due = inst[i].due
           /\ ~Leads(i) => inst'[i] = inst[i]
           /\ InRound(i) /\ inst'[i].renew = "timer"
                => \/ inst[i].renew = "timer" /\ inst'[i].lag = inst[i].lag
                   \/ ok /\ inst[i].token = t /\ inst'[i].lag = 0
<1> DEFINE ans == Round("lead", t, IF ok THEN "timer" ELSE "off", inst[i].due, 0)
<1>1. inst'[i] = IF Leads(i) /\ inst[i].token = t /\ inst[i].renew = "sent" THEN ans ELSE inst[i]
  BY DEF Answer
<1>2. CASE Leads(i) /\ inst[i].token = t /\ inst[i].renew = "sent"
  <2>1. inst[i].due \in 0..RenewEvery /\ InRound(i) /\ inst[i].pc = "lead" /\ 0 \in 0..TTL
    BY <1>2, RoundType, LeaseAssumption DEF Leads
  <2>2. /\ ans \in Rounds /\ ans # Asleep /\ ans.pc = "lead" /\ ans.token = t
        /\ ans.renew = (IF ok THEN "timer" ELSE "off") /\ ans.due = inst[i].due /\ ans.lag = 0
    BY <2>1, RoundIs
  <2> HIDE DEF ans
  <2> QED BY <1>1, <1>2, <2>1, <2>2 DEF InRound, Tried
<1>3. CASE ~(Leads(i) /\ inst[i].token = t /\ inst[i].renew = "sent")
  BY <1>1, <1>3 DEF TypeOK, InRound, Tried
<1> QED BY <1>2, <1>3

\* Time changes what is left until the next tick of a ticker, and how late an
\* answer to TryLock is, and nothing else.
LEMMA TimeEffect ==
    ASSUME TypeOK, TimePasses, NEW i \in Instances
    PROVE  /\ inst'[i] \in Rounds
           /\ InRound(i)' <=> InRound(i)
           /\ InRound(i) => inst'[i].token = inst[i].token /\ inst'[i].pc = inst[i].pc
           /\ Leads(i) => /\ inst'[i].renew = inst[i].renew
                          /\ inst'[i].due = IF inst[i].due > 0 THEN inst[i].due - 1 ELSE 0
                          /\ inst'[i].lag = inst[i].lag
           /\ Tried(i) => inst'[i].lag = IF inst[i].lag < TTL THEN inst[i].lag + 1 ELSE TTL
<1>1. inst'[i] = Later(inst[i])
  BY DEF TimePasses
<1>2. CASE Leads(i) /\ inst[i].due > 0
  <2> DEFINE r == Round("lead", inst[i].token, inst[i].renew, inst[i].due - 1, inst[i].lag)
  <2>1. /\ inst[i].due \in 0..RenewEvery /\ inst[i].token \in Tokens /\ inst[i].lag \in 0..TTL
        /\ inst[i].renew \in {"off", "timer", "sent"} /\ InRound(i) /\ inst[i].pc = "lead"
    BY <1>2, RoundType DEF Leads
  <2>2. inst[i].due - 1 \in 0..RenewEvery
    BY <1>2, <2>1, LeaseAssumption
  <2>3. inst'[i] = r
    BY <1>1, <1>2, <2>1 DEF Later, InRound
  <2>4. /\ r \in Rounds /\ r # Asleep /\ r.pc = "lead" /\ r.token = inst[i].token
        /\ r.renew = inst[i].renew /\ r.due = inst[i].due - 1 /\ r.lag = inst[i].lag
    BY <2>1, <2>2, RoundIs
  <2> HIDE DEF r
  <2> QED BY <1>2, <2>1, <2>3, <2>4 DEF InRound, Tried
<1>3. CASE Tried(i) /\ inst[i].lag < TTL
  <2> DEFINE r == Round("tried", inst[i].token, "off", 0, inst[i].lag + 1)
  <2>1. /\ inst[i].token \in Tokens /\ inst[i].lag \in 0..TTL /\ InRound(i) /\ inst[i].pc = "tried"
        /\ 0 \in 0..RenewEvery
    BY <1>3, RoundType, LeaseAssumption DEF Tried
  <2>2. inst[i].lag + 1 \in 0..TTL
    BY <1>3, <2>1, LeaseAssumption
  <2>3. inst'[i] = r
    BY <1>1, <1>3, <2>1 DEF Later, InRound
  <2>4. /\ r \in Rounds /\ r # Asleep /\ r.pc = "tried" /\ r.token = inst[i].token
        /\ r.renew = "off" /\ r.lag = inst[i].lag + 1
    BY <2>1, <2>2, RoundIs
  <2> HIDE DEF r
  <2> QED BY <1>3, <2>1, <2>3, <2>4 DEF InRound, Leads, Tried
<1>4. CASE ~(Leads(i) /\ inst[i].due > 0) /\ ~(Tried(i) /\ inst[i].lag < TTL)
  <2>1. inst'[i] = inst[i]
    BY <1>1, <1>4 DEF Later, InRound, Leads, Tried
  <2> QED BY <1>4, <2>1, RoundType, LeaseAssumption DEF TypeOK, InRound, Leads, Tried
<1> QED BY <1>2, <1>3, <1>4

\* What Redis and the instances hold keeps its type.
THEOREM TypeCorrect == Spec => []TypeOK
<1>1. Init => TypeOK
  BY DEF Init, TypeOK, Keys, Rounds
<1>2. TypeOK /\ [Next]_vars => TypeOK'
  <2> SUFFICES ASSUME TypeOK, [Next]_vars PROVE TypeOK'
    OBVIOUS
  <2> USE LeaseAssumption
  <2>0. 0 \in 0..RenewEvery /\ RenewEvery \in 0..RenewEvery /\ 0 \in 0..TTL
    OBVIOUS
  <2>1. ASSUME NEW i \in Instances, NEW r \in Rounds, inst' = [inst EXCEPT ![i] = r],
               key' \in Keys, UNCHANGED redisUp, flight' \subseteq Tokens
        PROVE  TypeOK'
    BY <2>1 DEF TypeOK
  <2>2. ASSUME NEW t \in Tokens PROVE [token |-> t, left |-> TTL] \in Keys
    BY DEF Keys
  <2>3. ASSUME NEW i \in Instances,
               \/ TryLock(i) \/ HearTryLock(i) \/ TryLockAgain(i) \/ TryLockFails(i)
               \/ SendRenew(i) \/ FinishTick(i) \/ Crash(i)
        PROVE  TypeOK'
    <3>1. CASE TryLock(i)
      <4>1. PICK t \in Tokens : /\ key' = [token |-> t, left |-> TTL]
                                /\ inst' = [inst EXCEPT ![i] = Round("tried", t, "off", 0, 0)]
        BY <3>1 DEF TryLock
      <4>2. Round("tried", t, "off", 0, 0) \in Rounds
        BY <2>0, RoundIs
      <4> QED BY <2>1, <2>2, <3>1, <4>1, <4>2 DEF TryLock, TypeOK
    <3>2. CASE HearTryLock(i)
      <4>1. inst[i].token \in Tokens /\ inst[i].lag \in 0..TTL
        BY <3>2, RoundType DEF HearTryLock, Tried
      <4>2. Round("lead", inst[i].token, "timer", RenewEvery, inst[i].lag) \in Rounds
        BY <2>0, <4>1, RoundIs
      <4>3. inst' = [inst EXCEPT ![i] = Round("lead", inst[i].token, "timer", RenewEvery, inst[i].lag)]
        BY <3>2 DEF HearTryLock
      <4> QED BY <2>1, <3>2, <4>2, <4>3 DEF HearTryLock, TypeOK
    <3>3. CASE TryLockAgain(i)
      <4>1. inst[i].token \in Tokens
        BY <3>3, RoundType DEF TryLockAgain, Tried
      <4>2. Round("tried", inst[i].token, "off", 0, 0) \in Rounds /\ Asleep \in Rounds
        BY <2>0, <4>1, RoundIs DEF Rounds
      <4>3. CASE key = NoKey
        <5>1. /\ inst' = [inst EXCEPT ![i] = Round("tried", inst[i].token, "off", 0, 0)]
              /\ key' = [token |-> inst[i].token, left |-> TTL]
          BY <3>3, <4>3 DEF TryLockAgain
        <5> QED BY <2>1, <2>2, <3>3, <4>1, <4>2, <5>1 DEF TryLockAgain, TypeOK
      <4>4. CASE key # NoKey
        BY <2>1, <3>3, <4>2, <4>4 DEF TryLockAgain, TypeOK
      <4> QED BY <4>3, <4>4
    <3>4. CASE TryLockFails(i) \/ Crash(i)
      BY <2>1, <3>4 DEF TryLockFails, Crash, TypeOK, Rounds
    <3>5. CASE SendRenew(i)
      <4>1. inst[i].token \in Tokens
        BY <3>5, RoundType DEF SendRenew, Leads
      <4>2. Round("lead", inst[i].token, "sent", RenewEvery, 0) \in Rounds
        BY <2>0, <4>1, RoundIs
      <4>3. inst' = [inst EXCEPT ![i] = Round("lead", inst[i].token, "sent", RenewEvery, 0)]
        BY <3>5 DEF SendRenew
      <4> QED BY <2>1, <3>5, <4>1, <4>2, <4>3 DEF SendRenew, TypeOK
    <3>6. CASE FinishTick(i)
      <4>1. inst[i].token \in Tokens
        BY <3>6, RoundType DEF FinishTick, Leads
      <4>2. Round("unlock", inst[i].token, "off", 0, 0) \in Rounds
        BY <2>0, <4>1, RoundIs
      <4>3. inst' = [inst EXCEPT ![i] = Round("unlock", inst[i].token, "off", 0, 0)]
        BY <3>6 DEF FinishTick
      <4> QED BY <2>1, <3>6, <4>2, <4>3 DEF FinishTick, TypeOK
    <3> QED BY <2>3, <3>1, <3>2, <3>3, <3>4, <3>5, <3>6
  <2>4. ASSUME NEW i \in Instances, Unlock(i) PROVE TypeOK'
    BY <2>4 DEF Unlock, TypeOK, Rounds, Keys
  <2>5. ASSUME NEW t \in Tokens, AbandonedTryLock(t) PROVE TypeOK'
    BY <2>2, <2>5 DEF AbandonedTryLock, TypeOK
  <2>6. ASSUME NEW t \in Tokens, DeliverRenew(t) \/ RenewFails(t) PROVE TypeOK'
    <3>1. /\ \E ok \in BOOLEAN : Answer(t, ok)
          /\ UNCHANGED redisUp /\ flight' = flight \ {t}
          /\ key' = key \/ key' = [token |-> t, left |-> TTL]
      BY <2>6 DEF DeliverRenew, RenewFails, KeyHolds
    <3>2. inst' \in [Instances -> Rounds]
      BY <3>1, AnswerEffect DEF Answer
    <3>3. key' \in Keys
      BY <3>1 DEF Keys, TypeOK
    <3> QED BY <3>1, <3>2, <3>3 DEF TypeOK
  <2>7. CASE RedisToggles
    BY <2>7 DEF RedisToggles, TypeOK
  <2>8. CASE TimePasses
    <3>1. inst' \in [Instances -> Rounds]
      BY <2>8, TimeEffect DEF TimePasses
    <3>2. key' \in Keys
      <4>1. CASE key = NoKey
        BY <2>8, <4>1 DEF TimePasses, NoKey, Keys
      <4>2. CASE key # NoKey
        BY <2>8, <4>2, KeyType DEF TimePasses, Keys
      <4> QED BY <4>1, <4>2
    <3> QED BY <2>8, <3>1, <3>2 DEF TimePasses, TypeOK
  <2>9. CASE UNCHANGED vars
    BY <2>9 DEF vars, TypeOK
  <2> QED
    BY <2>1, <2>2, <2>3, <2>4, <2>5, <2>6, <2>7, <2>8, <2>9 DEF Next
<1> QED
  BY <1>1, <1>2, PTL DEF Spec

-------------------------------------------------------------------------------
(* The lease. No two rounds have a token in common, so that the commands of   *)
(* one do nothing to the key of another, and a renewal in time leaves more of *)
(* the lease than there is until the next.                                    *)

Distinct ==
    \A i, j \in Instances : InRound(i) /\ InRound(j) /\ i # j => inst[i].token # inst[j].token

\* A round that waits for the answer to TryLock has the key until its lease ends.
TriedHasKey ==
    \A i \in Instances : Tried(i) /\ inst[i].lag < TTL =>
        KeyHolds(inst[i].token) /\ key.left >= TTL - inst[i].lag

LeaseInv == TypeOK /\ Distinct /\ TriedHasKey /\ RenewedHasKey

\* What LeaseInv says of one instance.
HasKey(j) ==
    /\ Tried(j) /\ inst[j].lag < TTL
         => KeyHolds(inst[j].token) /\ key.left >= TTL - inst[j].lag
    /\ Renewed(j)
         => KeyHolds(inst[j].token) /\ key.left >= inst[j].due + TTL - RenewEvery - inst[j].lag

LEMMA EachHasKey == (TriedHasKey /\ RenewedHasKey) <=> \A j \in Instances : HasKey(j)
BY DEF TriedHasKey, RenewedHasKey, HasKey

\* An instance that does not move has what it had when the key stays.
LEMMA Stays ==
    ASSUME NEW j \in Instances, HasKey(j), inst'[j] = inst[j],
           key' = key \/ ~(Renewed(j) \/ (Tried(j) /\ inst[j].lag < TTL))
    PROVE  HasKey(j)'
BY DEF HasKey, Tried, Renewed, Leads, InRound, KeyHolds

\* Steps of instance i that start no round and renew nothing: all others keep
\* what they have, and i is renewed only if it was.
LEMMA OneMoves ==
    ASSUME LeaseInv, NEW i \in Instances, UNCHANGED key,
           \A j \in Instances : j # i => inst'[j] = inst[j],
           HasKey(i)', InRound(i)' => InRound(i) /\ inst'[i].token = inst[i].token
    PROVE  Distinct' /\ TriedHasKey' /\ RenewedHasKey'
<1>1. Distinct'
  BY DEF LeaseInv, Distinct, InRound
<1>2. \A j \in Instances : j # i => HasKey(j)'
  BY Stays, EachHasKey DEF LeaseInv
<1>3. (TriedHasKey /\ RenewedHasKey)' <=> \A j \in Instances : HasKey(j)'
  BY DEF TriedHasKey, RenewedHasKey, HasKey
<1> QED BY <1>1, <1>2, <1>3

\* A step that sets a key that was missing: nobody had it, and i has it now.
LEMMA KeySet ==
    ASSUME LeaseInv, NEW i \in Instances, key = NoKey,
           \A j \in Instances : j # i => inst'[j] = inst[j],
           HasKey(i)',
           \A j \in Instances : j # i /\ InRound(j) /\ InRound(i)' => inst[j].token # inst'[i].token
    PROVE  Distinct' /\ TriedHasKey' /\ RenewedHasKey'
<1>1. Distinct'
  BY DEF LeaseInv, Distinct, InRound
<1>2. \A j \in Instances : ~(Renewed(j) \/ (Tried(j) /\ inst[j].lag < TTL))
  BY DEF LeaseInv, TriedHasKey, RenewedHasKey, KeyHolds
<1>3. \A j \in Instances : j # i => HasKey(j)'
  BY <1>2, Stays, EachHasKey DEF LeaseInv
<1>4. (TriedHasKey /\ RenewedHasKey)' <=> \A j \in Instances : HasKey(j)'
  BY DEF TriedHasKey, RenewedHasKey, HasKey
<1> QED BY <1>1, <1>3, <1>4

\* The inductive invariant: tokens are distinct, a round that waits for the
\* answer to TryLock has what is left of its lease, and a round renewed in time has
\* the key for longer than it needs until its next renewal.
THEOREM LeaseInvariant == Spec => []LeaseInv
<1>1. Init => Distinct /\ TriedHasKey /\ RenewedHasKey
  BY DEF Init, Distinct, TriedHasKey, RenewedHasKey, Tried, Renewed, Leads, InRound
<1>2. LeaseInv /\ TypeOK' /\ [Next]_vars => Distinct' /\ TriedHasKey' /\ RenewedHasKey'
  <2> SUFFICES ASSUME LeaseInv, TypeOK', [Next]_vars PROVE Distinct' /\ TriedHasKey' /\ RenewedHasKey'
    OBVIOUS
  <2> DEFINE Goal == Distinct' /\ TriedHasKey' /\ RenewedHasKey'
  <2> USE LeaseAssumption
  <2>0. /\ TypeOK /\ Distinct /\ TriedHasKey /\ RenewedHasKey
        /\ \A j \in Instances : HasKey(j)
        /\ 0 \in 0..RenewEvery /\ RenewEvery \in 0..RenewEvery /\ 0 \in 0..TTL
    BY EachHasKey DEF LeaseInv
  <2>1. (TriedHasKey /\ RenewedHasKey)' <=> \A j \in Instances : HasKey(j)'
    BY DEF TriedHasKey, RenewedHasKey, HasKey
  <2>2. ASSUME NEW i \in Instances, NEW t \in Tokens,
               key = NoKey, key' = [token |-> t, left |-> TTL],
               inst' = [inst EXCEPT ![i] = Round("tried", t, "off", 0, 0)],
               \A j \in Instances : j # i /\ InRound(j) => inst[j].token # t
        PROVE  Goal
    <3> DEFINE r == Round("tried", t, "off", 0, 0)
    <3>1. r # Asleep /\ r.pc = "tried" /\ r.token = t /\ r.lag = 0
      BY <2>0, RoundIs
    <3>2. inst'[i] = r /\ \A j \in Instances : j # i => inst'[j] = inst[j]
      BY <2>0, <2>2 DEF TypeOK
    <3> HIDE DEF r
    <3>3. key' # NoKey
      BY <2>2, IsKey
    <3>4. HasKey(i)'
      BY <2>2, <3>1, <3>2, <3>3 DEF HasKey, Renewed, Leads, KeyHolds
    <3> QED BY <2>2, <3>1, <3>2, <3>4, KeySet
  <2>3. ASSUME NEW i \in Instances, TryLock(i) PROVE Goal
    <3>1. PICK t \in Tokens :
            /\ key = NoKey /\ Fresh(t)
            /\ key' = [token |-> t, left |-> TTL]
            /\ inst' = [inst EXCEPT ![i] = Round("tried", t, "off", 0, 0)]
      BY <2>3 DEF TryLock
    <3> QED BY <2>2, <3>1 DEF Fresh
  <2>4. ASSUME NEW i \in Instances, HearTryLock(i) PROVE Goal
    <3> DEFINE r == Round("lead", inst[i].token, "timer", RenewEvery, inst[i].lag)
    <3>1. /\ InRound(i) /\ Tried(i) /\ UNCHANGED key /\ inst'[i] = r
          /\ \A j \in Instances : j # i => inst'[j] = inst[j]
          /\ inst[i].token \in Tokens /\ inst[i].lag \in 0..TTL
      BY <2>0, <2>4, RoundType DEF HearTryLock, Tried, TypeOK
    <3>2. r # Asleep /\ r.pc = "lead" /\ r.token = inst[i].token /\ r.due = RenewEvery /\ r.lag = inst[i].lag
      BY <2>0, <3>1, RoundIs
    <3> HIDE DEF r
    <3>3. ASSUME Renewed(i)' PROVE KeyHolds(inst[i].token) /\ key.left >= TTL - inst[i].lag
      <4>1. inst[i].lag < TTL
        BY <3>1, <3>2, <3>3 DEF Renewed
      <4> QED BY <2>0, <3>1, <4>1 DEF TriedHasKey
    <3>4. ~Tried(i)' /\ inst'[i].token = inst[i].token /\ inst'[i].due = RenewEvery /\ inst'[i].lag = inst[i].lag
      BY <3>1, <3>2 DEF Tried
    <3>5. ASSUME Renewed(i)'
          PROVE  KeyHolds(inst[i].token)' /\ key'.left >= inst'[i].due + TTL - RenewEvery - inst'[i].lag
      <4>1. KeyHolds(inst[i].token) /\ key.left >= TTL - inst[i].lag /\ key.left \in 1..TTL
        BY <2>0, <3>3, <3>5, KeyType DEF KeyHolds
      <4> QED BY <3>1, <3>4, <4>1 DEF KeyHolds
    <3>6. HasKey(i)'
      BY <3>4, <3>5 DEF HasKey
    <3>7. InRound(i)' => InRound(i) /\ inst'[i].token = inst[i].token
      BY <3>1, <3>4
    <3> QED BY <3>1, <3>6, <3>7, OneMoves
  <2>5. ASSUME NEW i \in Instances, inst'[i] = Asleep PROVE HasKey(i)'
    BY <2>5 DEF HasKey, Tried, Renewed, Leads, InRound
  <2>6. ASSUME NEW i \in Instances, TryLockAgain(i) PROVE Goal
    <3>1. InRound(i) /\ inst[i].token \in Tokens
      BY <2>0, <2>6, RoundType DEF TryLockAgain, Tried
    <3>2. CASE key = NoKey
      <4>1. /\ key' = [token |-> inst[i].token, left |-> TTL]
            /\ inst' = [inst EXCEPT ![i] = Round("tried", inst[i].token, "off", 0, 0)]
        BY <2>6, <3>2 DEF TryLockAgain
      <4>2. \A j \in Instances : j # i /\ InRound(j) => inst[j].token # inst[i].token
        BY <2>0, <3>1 DEF Distinct
      <4> QED BY <2>2, <3>1, <3>2, <4>1, <4>2
    <3>3. CASE key # NoKey
      <4>1. /\ UNCHANGED key /\ inst'[i] = Asleep
            /\ \A j \in Instances : j # i => inst'[j] = inst[j]
        BY <2>0, <2>6, <3>3 DEF TryLockAgain, TypeOK
      <4>2. ~InRound(i)'
        BY <4>1 DEF InRound
      <4> QED BY <2>5, <4>1, <4>2, OneMoves
    <3> QED BY <3>2, <3>3
  <2>7. ASSUME NEW t \in Tokens, AbandonedTryLock(t) PROVE Goal
    <3>1. UNCHANGED inst /\ key = NoKey
      BY <2>7 DEF AbandonedTryLock
    <3>2. \A j \in Instances : HasKey(j)'
      BY <2>0, <3>1, Stays DEF HasKey, KeyHolds
    <3> QED BY <2>0, <2>1, <3>1, <3>2 DEF Distinct, InRound
  <2>8. ASSUME NEW i \in Instances, SendRenew(i) PROVE Goal
    <3> DEFINE r == Round("lead", inst[i].token, "sent", RenewEvery, 0)
    <3>1. /\ InRound(i) /\ UNCHANGED key /\ inst'[i] = r /\ inst[i].token \in Tokens
          /\ \A j \in Instances : j # i => inst'[j] = inst[j]
      BY <2>0, <2>8, RoundType DEF SendRenew, Leads, TypeOK
    <3>2. r # Asleep /\ r.pc = "lead" /\ r.token = inst[i].token /\ r.renew = "sent"
      BY <2>0, <3>1, RoundIs
    <3> HIDE DEF r
    <3>3. HasKey(i)'
      BY <3>1, <3>2 DEF HasKey, Renewed, Tried
    <3> QED BY <3>1, <3>2, <3>3, OneMoves
  <2>9. ASSUME NEW i \in Instances, FinishTick(i) PROVE Goal
    <3> DEFINE r == Round("unlock", inst[i].token, "off", 0, 0)
    <3>1. /\ InRound(i) /\ UNCHANGED key /\ inst'[i] = r /\ inst[i].token \in Tokens
          /\ \A j \in Instances : j # i => inst'[j] = inst[j]
      BY <2>0, <2>9, RoundType DEF FinishTick, Leads, TypeOK
    <3>2. r # Asleep /\ r.pc = "unlock" /\ r.token = inst[i].token
      BY <2>0, <3>1, RoundIs
    <3> HIDE DEF r
    <3>3. HasKey(i)'
      BY <3>1, <3>2 DEF HasKey, Renewed, Tried, Leads
    <3> QED BY <3>1, <3>2, <3>3, OneMoves
  <2>10. ASSUME NEW i \in Instances, Unlock(i) PROVE Goal
    <3>1. /\ InRound(i)
          /\ key' = key \/ KeyHolds(inst[i].token)
          /\ inst'[i] = Asleep
          /\ \A j \in Instances : j # i => inst'[j] = inst[j]
      BY <2>0, <2>10 DEF Unlock, TypeOK
    <3>2. Distinct'
      BY <2>0, <3>1 DEF Distinct, InRound
    <3>3. ASSUME NEW j \in Instances, j # i PROVE HasKey(j)'
      <4>1. key' = key \/ ~(Renewed(j) \/ (Tried(j) /\ inst[j].lag < TTL))
        <5>1. ASSUME InRound(j) PROVE inst[i].token # inst[j].token
          BY <2>0, <3>1, <3>3, <5>1 DEF Distinct
        <5> QED BY <2>0, <3>1, <5>1 DEF HasKey, KeyHolds, Renewed, Tried, Leads
      <4> QED BY <2>0, <3>1, <3>3, <4>1, Stays
    <3> QED BY <2>5, <2>1, <3>1, <3>2, <3>3
  <2>11. ASSUME NEW i \in Instances, TryLockFails(i) \/ Crash(i) PROVE Goal
    <3>1. /\ UNCHANGED key /\ inst'[i] = Asleep
          /\ \A j \in Instances : j # i => inst'[j] = inst[j]
      BY <2>0, <2>11 DEF TryLockFails, Crash, TypeOK
    <3>2. ~InRound(i)'
      BY <3>1 DEF InRound
    <3> QED BY <2>5, <3>1, <3>2, OneMoves
  <2>12. ASSUME NEW t \in Tokens, NEW ok \in BOOLEAN, Answer(t, ok),
               \/ UNCHANGED key /\ ~ok
               \/ KeyHolds(t) /\ key' = [token |-> t, left |-> TTL]
        PROVE  Goal
    <3>1. Distinct'
      BY <2>0, <2>12, AnswerEffect DEF Distinct
    <3>0. key # NoKey => key.left \in 1..TTL
      BY <2>0, KeyType
    <3>2. ASSUME NEW j \in Instances, Renewed(j)'
          PROVE  KeyHolds(inst[j].token)' /\ key'.left >= inst'[j].due + TTL - RenewEvery - inst'[j].lag
      <4>1. /\ InRound(j) /\ Leads(j) /\ inst'[j].token = inst[j].token
            /\ inst'[j].due = inst[j].due /\ inst[j].due > 0 /\ inst[j].due \in 0..RenewEvery
            /\ inst'[j].lag \in 0..TTL
            /\ \/ inst[j].renew = "timer" /\ inst'[j].lag = inst[j].lag
               \/ ok /\ inst[j].token = t /\ inst'[j].lag = 0
        <5>1. InRound(j)' /\ Leads(j)' /\ inst'[j].renew = "timer" /\ inst'[j].due > 0
          BY <3>2 DEF Renewed, Leads
        <5>2. InRound(j) /\ inst'[j].token = inst[j].token /\ inst'[j].pc = inst[j].pc /\ inst'[j].due = inst[j].due
          BY <2>0, <2>12, <5>1, AnswerEffect
        <5>3. Leads(j) /\ inst[j].due \in 0..RenewEvery /\ inst'[j].lag \in 0..TTL
          BY <2>0, <5>1, <5>2, RoundType DEF Leads, TypeOK, InRound, Rounds
        <5> QED BY <2>0, <2>12, <5>1, <5>2, <5>3, AnswerEffect
      <4>2. inst[j].renew = "timer" /\ inst'[j].lag = inst[j].lag
              => KeyHolds(inst[j].token) /\ key.left >= inst[j].due + TTL - RenewEvery - inst[j].lag
        BY <2>0, <3>2, <4>1 DEF RenewedHasKey, Renewed
      <4>3. CASE UNCHANGED key /\ ~ok
        BY <4>1, <4>2, <4>3 DEF KeyHolds
      <4>4. CASE KeyHolds(t) /\ key' = [token |-> t, left |-> TTL]
        <5>1. inst[j].token = t
          BY <4>1, <4>2, <4>4 DEF KeyHolds
        <5>2. key' # NoKey
          BY <4>4, IsKey
        <5> QED BY <4>1, <4>4, <5>1, <5>2 DEF KeyHolds
      <4> QED BY <2>12, <4>3, <4>4
    <3>3. ASSUME NEW j \in Instances, Tried(j)', inst'[j].lag < TTL
          PROVE  KeyHolds(inst[j].token)' /\ key'.left >= TTL - inst'[j].lag
      <4>1. Tried(j) /\ inst'[j] = inst[j] /\ inst[j].lag \in 0..TTL
        BY <2>0, <2>12, <3>3, AnswerEffect, RoundType DEF Tried, Leads
      <4>2. KeyHolds(inst[j].token) /\ key.left >= TTL - inst[j].lag
        BY <2>0, <3>3, <4>1 DEF TriedHasKey
      <4>3. CASE UNCHANGED key
        BY <4>1, <4>2, <4>3 DEF KeyHolds
      <4>4. CASE KeyHolds(t) /\ key' = [token |-> t, left |-> TTL]
        <5>1. inst[j].token = t /\ key' # NoKey
          BY <4>2, <4>4, IsKey DEF KeyHolds
        <5> QED BY <4>1, <4>4, <5>1 DEF KeyHolds
      <4> QED BY <2>12, <4>3, <4>4
    <3> QED BY <3>1, <3>2, <3>3 DEF RenewedHasKey, TriedHasKey
  <2>13. ASSUME NEW t \in Tokens, DeliverRenew(t) PROVE Goal
    <3>1. KeyHolds(t) \in BOOLEAN
      BY DEF KeyHolds
    <3>2. /\ Answer(t, KeyHolds(t))
          /\ \/ UNCHANGED key /\ ~KeyHolds(t)
             \/ KeyHolds(t) /\ key' = [token |-> t, left |-> TTL]
      BY <2>13 DEF DeliverRenew
    <3> QED BY <2>12, <3>1, <3>2
  <2>14. ASSUME NEW t \in Tokens, RenewFails(t) PROVE Goal
    BY <2>12, <2>14 DEF RenewFails
  <2>15. CASE TimePasses
    <3>1. Distinct'
      BY <2>0, <2>15, TimeEffect DEF Distinct
    <3>2. ASSUME KeyHolds(key.token), key.left > 1
          PROVE  key' # NoKey /\ key'.token = key.token /\ key'.left = key.left - 1 /\ key.left \in 1..TTL
      <4>1. key.left \in 1..TTL
        BY <2>0, <3>2, KeyType DEF KeyHolds
      <4>2. key' = [token |-> key.token, left |-> key.left - 1]
        BY <2>15, <3>2, <4>1 DEF TimePasses
      <4> QED BY <3>2, <4>1, <4>2, IsKey
    <3>3. ASSUME NEW j \in Instances, Renewed(j)'
          PROVE  KeyHolds(inst[j].token)' /\ key'.left >= inst'[j].due + TTL - RenewEvery - inst'[j].lag
      <4>1. /\ Leads(j) /\ InRound(j) /\ inst[j].renew = "timer"
            /\ inst'[j].token = inst[j].token
            /\ inst'[j].due > 0
            /\ inst'[j].due = IF inst[j].due > 0 THEN inst[j].due - 1 ELSE 0
            /\ inst[j].due \in 0..RenewEvery
            /\ inst'[j].lag = inst[j].lag /\ inst[j].lag \in 0..TTL /\ inst[j].lag <= TTL - RenewEvery
        BY <2>0, <2>15, <3>3, TimeEffect, RoundType DEF Renewed, Leads
      <4>2. inst[j].due > 1 /\ inst'[j].due = inst[j].due - 1
        BY <4>1
      <4>3. KeyHolds(inst[j].token) /\ key.left >= inst[j].due + TTL - RenewEvery - inst[j].lag
        BY <2>0, <4>1, <4>2 DEF RenewedHasKey, Renewed
      <4>4. key.left \in 1..TTL /\ key.left > 1 /\ KeyHolds(key.token)
        BY <2>0, <4>1, <4>2, <4>3, KeyType DEF KeyHolds
      <4> QED BY <3>2, <4>1, <4>2, <4>3, <4>4 DEF KeyHolds
    <3>4. ASSUME NEW j \in Instances, Tried(j)', inst'[j].lag < TTL
          PROVE  KeyHolds(inst[j].token)' /\ key'.left >= TTL - inst'[j].lag
      <4>1. /\ Tried(j) /\ inst'[j].token = inst[j].token /\ inst[j].lag \in 0..TTL
            /\ inst'[j].lag = inst[j].lag + 1 /\ inst[j].lag < TTL - 1
        BY <2>0, <2>15, <3>4, TimeEffect, RoundType DEF Tried
      <4>2. KeyHolds(inst[j].token) /\ key.left >= TTL - inst[j].lag
        BY <2>0, <4>1 DEF TriedHasKey
      <4>3. key.left \in 1..TTL /\ key.left > 1 /\ KeyHolds(key.token)
        BY <2>0, <4>1, <4>2, KeyType DEF KeyHolds
      <4> QED BY <3>2, <4>1, <4>2, <4>3 DEF KeyHolds
    <3> QED BY <3>1, <3>3, <3>4 DEF RenewedHasKey, TriedHasKey
  <2>16. CASE RedisToggles \/ UNCHANGED vars
    BY <2>0, <2>16 DEF RedisToggles, vars, Distinct, TriedHasKey, RenewedHasKey, Tried, Renewed,
                       Leads, InRound, KeyHolds
  <2> QED
    BY <2>3, <2>4, <2>6, <2>7, <2>8, <2>9, <2>10, <2>11, <2>13, <2>14, <2>15, <2>16 DEF Next
<1> QED
  BY <1>1, <1>2, TypeCorrect, PTL DEF Spec, LeaseInv

\* Whatever fails and however late the answers, a round that heard of its key in
\* time and renews it in time has it, with enough of its lease left.
THEOREM RenewedKeepsKey == Spec => []RenewedHasKey
BY LeaseInvariant, PTL DEF LeaseInv

\* The lock does what it is for as long as commands are answered: two rounds that
\* heard of their key and renew it in time never run at once, whatever happens to
\* others. (One that heard of it later than its lease bears counts as no such round.)
THEOREM RenewedLeadsAlone ==
    Spec => [](\A i, j \in Instances : Renewed(i) /\ Renewed(j) => i = j)
<1>1. LeaseInv => \A i, j \in Instances : Renewed(i) /\ Renewed(j) => i = j
  BY DEF LeaseInv, RenewedHasKey, Distinct, KeyHolds, Renewed, Leads
<1> QED
  BY <1>1, LeaseInvariant, PTL

-------------------------------------------------------------------------------
(* Two rounds may overlap after a failed renewal. When Redis answers and       *)
(* nothing stalls, every round that is on has the key.                         *)

HasKeyNow(i) ==
    /\ Tried(i) => KeyHolds(inst[i].token) /\ key.left = TTL
    /\ Leads(i) => /\ KeyHolds(inst[i].token)
                   /\ inst[i].renew # "off"
                   /\ inst[i].renew = "timer" => key.left >= inst[i].due + TTL - RenewEvery

EveryLeaderHasKey == \A i \in Instances : HasKeyNow(i)

\* While Redis answers and nothing is slower than the lease at most one instance
\* leads, though instances crash and lose their keys with them.
THEOREM LeadsAlone ==
    ASSUME ~RedisFails, ~Stalls
    PROVE  Spec => []OneLeader
<1>1. Init => EveryLeaderHasKey
  BY DEF Init, EveryLeaderHasKey, HasKeyNow, Tried, Leads, InRound
<1>2. LeaseInv /\ EveryLeaderHasKey /\ [Next]_vars => EveryLeaderHasKey'
  <2> SUFFICES ASSUME LeaseInv, EveryLeaderHasKey, [Next]_vars, NEW j \in Instances
               PROVE  HasKeyNow(j)'
    BY DEF EveryLeaderHasKey
  <2>0. /\ TypeOK /\ Distinct /\ HasKeyNow(j) /\ \A i \in Instances : HasKeyNow(i)
        /\ 0 \in 0..RenewEvery /\ RenewEvery \in 0..RenewEvery /\ 0 \in 0..TTL
    BY LeaseAssumption DEF LeaseInv, EveryLeaderHasKey
  <2> USE LeaseAssumption
  <2>1. ASSUME inst'[j] = inst[j], UNCHANGED key PROVE HasKeyNow(j)'
    BY <2>0, <2>1 DEF HasKeyNow, Tried, Leads, InRound, KeyHolds
  <2>2. ASSUME inst'[j] = Asleep PROVE HasKeyNow(j)'
    BY <2>2 DEF HasKeyNow, Tried, Leads, InRound
  <2>3. ASSUME NEW i \in Instances, TryLock(i) PROVE HasKeyNow(j)'
    <3>1. PICK t \in Tokens :
            /\ key = NoKey /\ key' = [token |-> t, left |-> TTL]
            /\ inst' = [inst EXCEPT ![i] = Round("tried", t, "off", 0, 0)]
      BY <2>3 DEF TryLock
    <3> DEFINE r == Round("tried", t, "off", 0, 0)
    <3>2. r # Asleep /\ r.pc = "tried" /\ r.token = t
      BY <2>0, RoundIs
    <3>3. IF j = i THEN inst'[j] = r ELSE inst'[j] = inst[j]
      BY <2>0, <3>1 DEF TypeOK
    <3> HIDE DEF r
    <3>4. key' # NoKey
      BY <3>1, IsKey
    <3>5. CASE j = i
      BY <3>1, <3>2, <3>3, <3>4, <3>5 DEF HasKeyNow, Tried, Leads, KeyHolds
    <3>6. CASE j # i
      <4>1. ~Tried(j) /\ ~Leads(j)
        BY <2>0, <3>1 DEF HasKeyNow, KeyHolds
      <4> QED BY <3>3, <3>6, <4>1 DEF HasKeyNow, Tried, Leads, InRound
    <3> QED BY <3>5, <3>6
  <2>4. ASSUME NEW i \in Instances, HearTryLock(i) PROVE HasKeyNow(j)'
    <3> DEFINE r == Round("lead", inst[i].token, "timer", RenewEvery, inst[i].lag)
    <3>1. Tried(i) /\ UNCHANGED key /\ inst[i].token \in Tokens /\ inst[i].lag \in 0..TTL
      BY <2>0, <2>4, RoundType DEF HearTryLock, Tried
    <3>2. r # Asleep /\ r.pc = "lead" /\ r.token = inst[i].token /\ r.renew = "timer" /\ r.due = RenewEvery
      BY <2>0, <3>1, RoundIs
    <3>3. IF j = i THEN inst'[j] = r ELSE inst'[j] = inst[j]
      BY <2>0, <2>4 DEF HearTryLock, TypeOK
    <3> HIDE DEF r
    <3>4. CASE j = i
      BY <2>0, <3>1, <3>2, <3>3, <3>4 DEF HasKeyNow, Tried, Leads, KeyHolds
    <3> QED BY <2>1, <3>1, <3>3, <3>4
  <2>5. ASSUME NEW i \in Instances, SendRenew(i) PROVE HasKeyNow(j)'
    <3> DEFINE r == Round("lead", inst[i].token, "sent", RenewEvery, 0)
    <3>1. Leads(i) /\ UNCHANGED key /\ inst[i].token \in Tokens
      BY <2>0, <2>5, RoundType DEF SendRenew, Leads
    <3>2. r # Asleep /\ r.pc = "lead" /\ r.token = inst[i].token /\ r.renew = "sent"
      BY <2>0, <3>1, RoundIs
    <3>3. IF j = i THEN inst'[j] = r ELSE inst'[j] = inst[j]
      BY <2>0, <2>5 DEF SendRenew, TypeOK
    <3> HIDE DEF r
    <3>4. CASE j = i
      BY <2>0, <3>1, <3>2, <3>3, <3>4 DEF HasKeyNow, Tried, Leads, KeyHolds
    <3> QED BY <2>1, <3>1, <3>3, <3>4
  <2>6. ASSUME NEW i \in Instances, FinishTick(i) PROVE HasKeyNow(j)'
    <3> DEFINE r == Round("unlock", inst[i].token, "off", 0, 0)
    <3>1. UNCHANGED key /\ inst[i].token \in Tokens
      BY <2>0, <2>6, RoundType DEF FinishTick, Leads
    <3>2. r # Asleep /\ r.pc = "unlock"
      BY <2>0, <3>1, RoundIs
    <3>3. IF j = i THEN inst'[j] = r ELSE inst'[j] = inst[j]
      BY <2>0, <2>6 DEF FinishTick, TypeOK
    <3> HIDE DEF r
    <3>4. CASE j = i
      BY <3>2, <3>3, <3>4 DEF HasKeyNow, Tried, Leads
    <3> QED BY <2>1, <3>1, <3>3, <3>4
  <2>7. ASSUME NEW i \in Instances, Crash(i) PROVE HasKeyNow(j)'
    BY <2>0, <2>1, <2>2, <2>7 DEF Crash, TypeOK
  <2>8. ASSUME NEW i \in Instances, Unlock(i) PROVE HasKeyNow(j)'
    <3>1. /\ InRound(i) /\ (key' = key \/ KeyHolds(inst[i].token))
          /\ IF j = i THEN inst'[j] = Asleep ELSE inst'[j] = inst[j]
      BY <2>0, <2>8 DEF Unlock, TypeOK
    <3>2. CASE j # i /\ InRound(j) /\ (Tried(j) \/ Leads(j))
      <4>1. inst[i].token # inst[j].token
        BY <2>0, <3>1, <3>2 DEF Distinct
      <4>2. UNCHANGED key
        BY <2>0, <3>1, <3>2, <4>1 DEF HasKeyNow, KeyHolds
      <4> QED BY <2>1, <3>1, <3>2, <4>2
    <3>3. CASE j # i /\ ~(Tried(j) \/ Leads(j))
      BY <3>1, <3>3 DEF HasKeyNow, Tried, Leads, InRound
    <3> QED BY <2>2, <3>1, <3>2, <3>3 DEF Tried, Leads
  <2>9. ASSUME NEW t \in Tokens, DeliverRenew(t) PROVE HasKeyNow(j)'
    <3>0. KeyHolds(t) \in BOOLEAN /\ Answer(t, KeyHolds(t))
      BY <2>9 DEF DeliverRenew, KeyHolds
    <3>1. CASE KeyHolds(t)
      <4>1. key' = [token |-> t, left |-> TTL]
        BY <2>9, <3>1 DEF DeliverRenew
      <4>2. key' # NoKey
        BY <4>1, IsKey
      <4>3. Tried(j)' => Tried(j) /\ inst'[j] = inst[j]
        BY <2>0, <3>0, AnswerEffect DEF Tried, Leads
      <4>4. Leads(j)' => /\ Leads(j) /\ inst'[j].token = inst[j].token
                         /\ inst'[j].due = inst[j].due /\ inst[j].due \in 0..RenewEvery
        BY <2>0, <3>0, AnswerEffect, RoundType DEF Leads
      <4>5. Leads(j) => inst'[j].renew # "off"
        <5>1. inst'[j] = IF Leads(j) /\ inst[j].token = t /\ inst[j].renew = "sent"
                           THEN Round("lead", t, "timer", inst[j].due, 0) ELSE inst[j]
          BY <3>0, <3>1 DEF Answer
        <5> QED BY <2>0, <5>1 DEF HasKeyNow, Round
      <4> QED BY <2>0, <3>1, <4>1, <4>2, <4>3, <4>4, <4>5 DEF HasKeyNow, KeyHolds
    <3>2. CASE ~KeyHolds(t)
      <4>1. ~(Leads(j) /\ inst[j].token = t)
        BY <2>0, <3>2 DEF HasKeyNow
      <4>2. inst'[j] = inst[j] /\ UNCHANGED key
        BY <2>9, <3>2, <4>1 DEF DeliverRenew, Answer
      <4> QED BY <2>1, <4>2
    <3> QED BY <3>1, <3>2
  <2>10. CASE TimePasses
    <3>1. ~Tried(j) /\ ~Tried(j)'
      BY <2>0, <2>10, TimeEffect DEF TimePasses, OnTime, Tried
    <3>2. ASSUME Leads(j)'
          PROVE  /\ KeyHolds(inst[j].token)' /\ inst'[j].renew # "off"
                 /\ inst'[j].renew = "timer" => key'.left >= inst'[j].due + TTL - RenewEvery
      <4>1. /\ Leads(j) /\ inst'[j].token = inst[j].token /\ inst'[j].renew = inst[j].renew
            /\ inst'[j].due = IF inst[j].due > 0 THEN inst[j].due - 1 ELSE 0
        BY <2>0, <2>10, <3>2, TimeEffect DEF Leads
      <4>2. inst[j].renew = "timer" /\ inst[j].due > 0 /\ inst[j].due \in 0..RenewEvery
        BY <2>0, <2>10, <4>1, RoundType DEF HasKeyNow, TimePasses, OnTime, Leads
      <4>3. KeyHolds(inst[j].token) /\ key.left >= inst[j].due + TTL - RenewEvery
        BY <2>0, <4>1, <4>2 DEF HasKeyNow
      <4>4. key.left \in 1..TTL /\ key.left > 1
        BY <2>0, <4>2, <4>3, KeyType DEF KeyHolds
      <4>5. key' = [token |-> key.token, left |-> key.left - 1]
        BY <2>10, <4>4 DEF TimePasses
      <4>6. key' # NoKey
        BY <4>4, <4>5, IsKey
      <4> QED BY <4>1, <4>2, <4>3, <4>4, <4>5, <4>6 DEF KeyHolds
    <3> QED BY <3>1, <3>2 DEF HasKeyNow
  <2>11. CASE UNCHANGED vars
    BY <2>1, <2>11 DEF vars
  <2> QED
    BY <2>3, <2>4, <2>5, <2>6, <2>7, <2>8, <2>9, <2>10, <2>11
       DEF Next, TryLockAgain, TryLockFails, AbandonedTryLock, RenewFails, RedisToggles
<1>3. LeaseInv /\ EveryLeaderHasKey => OneLeader
  BY DEF LeaseInv, EveryLeaderHasKey, HasKeyNow, OneLeader, Distinct, KeyHolds, Leads
<1> QED
  BY <1>1, <1>2, <1>3, LeaseInvariant, PTL DEF Spec

\* Late renewals and late releases do nothing to the lease of another round.
THEOREM LeaseKept == Spec => LeaseIsPrivate
<1> DEFINE Gone == key # NoKey /\ key' = NoKey
                     => TimePasses \/ \E i \in Instances : Unlock(i) /\ inst[i].token = key.token
           Kept == key # NoKey /\ key' # NoKey /\ key' # key => key'.token = key.token
           New == key = NoKey /\ key' # NoKey
                    => \/ Fresh(key'.token)
                       \/ \E i \in Instances : Tried(i) /\ inst[i].token = key'.token
<1>1. TypeOK /\ [Next]_vars => [Gone /\ Kept /\ New]_vars
  <2> SUFFICES ASSUME TypeOK, Next PROVE Gone /\ Kept /\ New
    OBVIOUS
  <2> USE LeaseAssumption
  <2>1. ASSUME \/ \E i \in Instances : TryLock(i) \/ TryLockAgain(i)
               \/ \E t \in Tokens : AbandonedTryLock(t)
        PROVE  Gone /\ Kept /\ New
    BY <2>1 DEF TryLock, TryLockAgain, AbandonedTryLock
  <2>2. ASSUME NEW i \in Instances, Unlock(i) PROVE Gone /\ Kept /\ New
    BY <2>2 DEF Unlock, KeyHolds
  <2>3. ASSUME NEW t \in Tokens, DeliverRenew(t) PROVE Gone /\ Kept /\ New
    <3>1. [token |-> t, left |-> TTL] # NoKey
      BY IsKey
    <3> QED BY <2>3, <3>1 DEF DeliverRenew, KeyHolds
  <2>4. CASE TimePasses
    <3>1. CASE key = NoKey
      BY <2>4, <3>1 DEF TimePasses, NoKey
    <3>2. CASE key # NoKey
      BY <2>4, <3>2 DEF TimePasses
    <3> QED BY <3>1, <3>2
  <2>5. CASE UNCHANGED key
    BY <2>5
  <2> QED
    BY <2>1, <2>2, <2>3, <2>4, <2>5
       DEF Next, HearTryLock, TryLockFails, SendRenew, FinishTick, Crash, RenewFails, RedisToggles
<1> QED
  BY <1>1, TypeCorrect, PTL DEF Spec, LeaseIsPrivate
===============================================================================

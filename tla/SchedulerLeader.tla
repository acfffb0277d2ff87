--------------------------- MODULE SchedulerLeader ---------------------------
(***************************************************************************)
(* The lock of pkg/redissync as the scheduler uses it: several instances   *)
(* of the service, one key of Redis, a round per instance at a time. A     *)
(* round takes the key with a fresh token, starts the ticker of its        *)
(* renewals when the answer comes back, renews the lease from a goroutine  *)
(* of its own while Tick, PromoteTick and ExpireTick run, then stops the   *)
(* renewal and deletes the key if it is still its own.                     *)
(*                                                                         *)
(* A renewal is a command on its way to Redis (flight): it may arrive      *)
(* after the round that sent it is over. Time is relative: what is left of *)
(* the lease, how long until the next renewal, and how late the answer to  *)
(* TryLock was. (That the answer to a renewal may be late needs no such    *)
(* count: its ticker runs on from the sending.)                            *)
(***************************************************************************)
EXTENDS Integers, FiniteSets

CONSTANTS
    Instances,
    Tokens,         \* random values; one that is not in use is always at hand
    TTL,            \* of the lease
    RenewEvery,     \* period of the renewal
    RedisFails,     \* Redis may be out of reach, and answers get lost
    Stalls          \* goroutines and the network may be slower than the lease

ASSUME LeaseAssumption ==
    /\ TTL \in Nat /\ RenewEvery \in Nat
    /\ 0 < RenewEvery /\ RenewEvery < TTL
    /\ RedisFails \in BOOLEAN /\ Stalls \in BOOLEAN

VARIABLES
    redisUp,
    key,        \* what Redis holds: a token and what is left of its lease
    inst,       \* inst[i]: where the scheduler of i is in its round
    flight      \* tokens of the renewals on their way to Redis

vars == <<redisUp, key, inst, flight>>

NoKey == [left |-> 0]
Keys == {NoKey} \cup [token : Tokens, left : 1..TTL]

\* pc: "tried" (the key is set, its answer under way), "lead" or "unlock";
\* renew: "off", "timer" (waits for its ticker) or "sent" (waits for an answer);
\* due: time to the next tick of that ticker; lag: how long ago Redis had set the
\* key when the answer to TryLock came, 0 after a renewal.
Asleep == [pc |-> "wait"]
Round(pc, t, renew, due, lag) ==
    [pc |-> pc, token |-> t, renew |-> renew, due |-> due, lag |-> lag]
Rounds == {Asleep} \cup [pc : {"tried", "lead", "unlock"}, token : Tokens,
                         renew : {"off", "timer", "sent"}, due : 0..RenewEvery, lag : 0..TTL]

InRound(i) == inst[i] # Asleep
Tried(i) == InRound(i) /\ inst[i].pc = "tried"
Leads(i) == InRound(i) /\ inst[i].pc = "lead"
KeyHolds(t) == key # NoKey /\ key.token = t

Fresh(t) == /\ ~KeyHolds(t)
            /\ t \notin flight
            /\ \A i \in Instances : InRound(i) => inst[i].token # t

-------------------------------------------------------------------------------
\* Redis runs the SET NX EX of TryLock. A round that finds the key taken, or Redis
\* out of reach, is skipped and changes nothing.
TryLock(i) ==
    \E t \in Tokens :
        /\ inst[i] = Asleep /\ redisUp /\ key = NoKey /\ Fresh(t)
        /\ key' = [token |-> t, left |-> TTL]
        /\ inst' = [inst EXCEPT ![i] = Round("tried", t, "off", 0, 0)]
        /\ UNCHANGED <<redisUp, flight>>

\* The answer comes, however late, and the round begins: StartAutoRenew makes its
\* ticker now.
HearTryLock(i) ==
    /\ Tried(i)
    /\ inst' = [inst EXCEPT ![i] = Round("lead", @.token, "timer", RenewEvery, @.lag)]
    /\ UNCHANGED <<redisUp, key, flight>>

\* The answer is lost and the client of Redis sends the command again: it meets the
\* key it has set, so that TryLock fails and the key is nobody's, or sets it anew
\* when its lease is over.
TryLockAgain(i) ==
    /\ RedisFails
    /\ Tried(i) /\ redisUp
    /\ IF key = NoKey
         THEN /\ key' = [token |-> inst[i].token, left |-> TTL]
              /\ inst' = [inst EXCEPT ![i] = Round("tried", @.token, "off", 0, 0)]
         ELSE /\ inst' = [inst EXCEPT ![i] = Asleep]
              /\ UNCHANGED key
    /\ UNCHANGED <<redisUp, flight>>

\* No answer comes at all and TryLock returns an error: the round is skipped.
TryLockFails(i) ==
    /\ RedisFails
    /\ Tried(i)
    /\ inst' = [inst EXCEPT ![i] = Asleep]
    /\ UNCHANGED <<redisUp, key, flight>>

\* A TryLock that was given up earlier reaches Redis: the key is set for nobody.
AbandonedTryLock(t) ==
    /\ RedisFails
    /\ redisUp /\ key = NoKey /\ Fresh(t)
    /\ key' = [token |-> t, left |-> TTL]
    /\ UNCHANGED <<redisUp, inst, flight>>

\* StartAutoRenew: the ticker fires and Renew sends its script.
SendRenew(i) ==
    /\ Leads(i) /\ inst[i].renew = "timer" /\ inst[i].due = 0
    /\ inst' = [inst EXCEPT ![i] = Round("lead", @.token, "sent", RenewEvery, 0)]
    /\ flight' = flight \cup {inst[i].token}
    /\ UNCHANGED <<redisUp, key>>

\* The answer reaches the goroutine that sent the renewal, if it still runs.
\* One that failed is the last one of the round.
Answer(t, ok) ==
    inst' = [i \in Instances |->
               IF Leads(i) /\ inst[i].token = t /\ inst[i].renew = "sent"
                 THEN Round("lead", t, IF ok THEN "timer" ELSE "off", inst[i].due, 0)
                 ELSE inst[i]]

\* Mutant of DeliverRenew: it tells that the lease is longer and leaves it as it is.
DeliverRenewNoExpire(t) ==
    /\ t \in flight /\ redisUp
    /\ flight' = flight \ {t}
    /\ Answer(t, KeyHolds(t))
    /\ UNCHANGED <<redisUp, key>>

\* renewLuaScript: PEXPIRE if the key holds the token.
DeliverRenew(t) ==
    /\ t \in flight /\ redisUp
    /\ flight' = flight \ {t}
    /\ key' = IF KeyHolds(t) THEN [token |-> t, left |-> TTL] ELSE key
    /\ Answer(t, KeyHolds(t))
    /\ UNCHANGED redisUp

\* The renewal does not reach Redis, or its answer does not come back.
RenewFails(t) ==
    /\ RedisFails
    /\ t \in flight
    /\ flight' = flight \ {t}
    /\ Answer(t, FALSE)
    /\ UNCHANGED <<redisUp, key>>

\* Tick, PromoteTick and ExpireTick are done; the deferred stopRenew runs first.
FinishTick(i) ==
    /\ Leads(i)
    /\ inst' = [inst EXCEPT ![i] = Round("unlock", @.token, "off", 0, 0)]
    /\ UNCHANGED <<redisUp, key, flight>>

\* Mutant of Unlock: a plain DEL.
UnlockAny(i) ==
    /\ InRound(i) /\ inst[i].pc = "unlock"
    /\ key' = IF redisUp THEN NoKey ELSE key
    /\ inst' = [inst EXCEPT ![i] = Asleep]
    /\ UNCHANGED <<redisUp, flight>>

\* releaseLuaScript: DEL if the key holds the token. An error is dropped.
Unlock(i) ==
    /\ InRound(i) /\ inst[i].pc = "unlock"
    /\ key' = IF redisUp /\ KeyHolds(inst[i].token) THEN NoKey ELSE key
    /\ inst' = [inst EXCEPT ![i] = Asleep]
    /\ UNCHANGED <<redisUp, flight>>

\* The process stops; the key stays until its lease ends.
Crash(i) ==
    /\ InRound(i)
    /\ inst' = [inst EXCEPT ![i] = Asleep]
    /\ UNCHANGED <<redisUp, key, flight>>

RedisToggles ==
    /\ RedisFails
    /\ redisUp' = ~redisUp
    /\ UNCHANGED <<key, inst, flight>>

\* No command of a round is late: none waits to be sent, none to be answered.
OnTime ==
    \A i \in Instances :
        /\ ~Tried(i)
        /\ Leads(i) => /\ inst[i].renew # "sent"
                       /\ inst[i].renew = "timer" => inst[i].due > 0

\* A round a unit of time later.
Later(r) ==
    CASE r # Asleep /\ r.pc = "tried" /\ r.lag < TTL -> Round("tried", r.token, "off", 0, r.lag + 1)
      [] r # Asleep /\ r.pc = "lead" /\ r.due > 0 -> Round("lead", r.token, r.renew, r.due - 1, r.lag)
      [] OTHER -> r

\* Mutant of TimePasses: the key was set without EX.
TimePassesNoLease ==
    /\ Stalls \/ OnTime
    /\ inst' = [i \in Instances |-> Later(inst[i])]
    /\ UNCHANGED <<redisUp, key, flight>>

TimePasses ==
    /\ Stalls \/ OnTime
    /\ key' = IF key.left <= 1 THEN NoKey ELSE [token |-> key.token, left |-> key.left - 1]
    /\ inst' = [i \in Instances |-> Later(inst[i])]
    /\ UNCHANGED <<redisUp, flight>>

Init ==
    /\ redisUp = TRUE
    /\ key = NoKey
    /\ inst = [i \in Instances |-> Asleep]
    /\ flight = {}

Next ==
    \/ \E i \in Instances : \/ TryLock(i) \/ HearTryLock(i) \/ TryLockAgain(i) \/ TryLockFails(i)
                            \/ SendRenew(i) \/ FinishTick(i) \/ Unlock(i) \/ Crash(i)
    \/ \E t \in Tokens : AbandonedTryLock(t) \/ DeliverRenew(t) \/ RenewFails(t)
    \/ RedisToggles
    \/ TimePasses

Spec == Init /\ [][Next]_vars

\* The tickers of the instances keep firing and not every answer to TryLock is
\* lost, rounds and commands come to an end, and time passes, whatever happens in
\* between.
FairSpec ==
    /\ Spec
    /\ SF_vars(\E i \in Instances : TryLock(i)) /\ SF_vars(\E i \in Instances : HearTryLock(i))
    /\ \A i \in Instances : WF_vars(FinishTick(i)) /\ WF_vars(Unlock(i)) /\ WF_vars(SendRenew(i))
    /\ \A t \in Tokens : WF_vars(DeliverRenew(t))
    /\ SF_vars(TimePasses)

-------------------------------------------------------------------------------
(* Properties *)

\* What Redis and the instances hold.
TypeOK ==
    /\ redisUp \in BOOLEAN
    /\ key \in Keys
    /\ inst \in [Instances -> Rounds]
    /\ flight \subseteq Tokens

\* At most one instance runs a round.
OneLeader == \A i, j \in Instances : Leads(i) /\ Leads(j) => i = j

\* The weaker promise that holds whatever fails: a round whose last renewal
\* succeeded and whose next one is not late has the key, so that no two such
\* rounds run at a time. The lease outlives the ticker by what the ticker is
\* shorter than the lease, and the answer to TryLock may be late by no more than
\* that: a round that heard it later can run beside the next holder of the key
\* until its first renewal tells it so.
Renewed(i) == /\ Leads(i) /\ inst[i].renew = "timer" /\ inst[i].due > 0
              /\ inst[i].lag <= TTL - RenewEvery
RenewedHasKey ==
    \A i \in Instances : Renewed(i) =>
        KeyHolds(inst[i].token) /\ key.left >= inst[i].due + TTL - RenewEvery - inst[i].lag

\* However late a command arrives, it never touches the lease of another round:
\* only the passing of time takes a key from the round that set it, its lease is
\* extended only by its own renewal, and a key that is gone does not come back,
\* except to a TryLock that was sent again.
LeaseIsPrivate ==
    [][ /\ key # NoKey /\ key' = NoKey
             => TimePasses \/ \E i \in Instances : Unlock(i) /\ inst[i].token = key.token
        /\ key # NoKey /\ key' # NoKey /\ key' # key => key'.token = key.token
        /\ key = NoKey /\ key' # NoKey
             => \/ Fresh(key'.token)
                \/ \E i \in Instances : Tried(i) /\ inst[i].token = key'.token ]_vars

\* Once Redis is back for good, rounds are run again and again, whichever
\* instance crashes or stalls in the middle of one: neither the key it leaves
\* behind nor one that nobody knows of stops the others for ever.
RoundsGoOn == <>[]redisUp => []<>(\E i \in Instances : Leads(i))
===============================================================================

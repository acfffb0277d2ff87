----------------------------- MODULE SessionsProofs -----------------------------
(* Proofs about Sessions, for any accounts, clients, lives of a token and    *)
(* times of a call, whether Redis answers or not.                            *)
EXTENDS Sessions, FiniteSetTheorems, TLAPS

Calls == [op : Ops, age : 0..CallTime, user : Accounts, remaining : 1..TokenTTL]
BlackKeys == [token : [user : Accounts, left : 0..TokenTTL], left : 1..TokenTTL]

\* What the limiter does not touch, and what touches nothing but the limiter.
SessionOK ==
    /\ status \in [Accounts -> {"none", "active", "disabled"}]
    /\ off \in [Accounts -> 0..MaxOff]
    /\ tokens \subseteq Tokens /\ out \subseteq Tokens
    /\ blacklist \subseteq BlackKeys
    /\ call \in [Clients -> Calls \cup {NoCall}]

\* A login read its account while it was active: it was disabled later, if at all.
LoginsYoung ==
    \A c \in Clients : (Doing(c, "login") /\ status[call[c].user] = "disabled")
                            => off[call[c].user] <= call[c].age

Inv == SessionOK /\ LoginsYoung /\ OutStaysOut /\ DisabledLeaves

\* The bounds are natural numbers.
LEMMA BoundsNat ==
    /\ TokenTTL \in Nat \ {0} /\ CallTime \in Nat /\ MaxOff = TokenTTL + CallTime
    /\ MaxOff \in Nat
BY SessionAssumption DEF MaxOff

\* A client that does something has a call.
LEMMA DoingCall ==
    ASSUME SessionOK, NEW c \in Clients, NEW op \in Ops, Doing(c, op)
    PROVE  call[c] \in Calls
BY DEF SessionOK, Doing, NoCall, Ops

\* What is left of a token when it is logged out, and the key that is set for it.
LEMMA LeavingOK ==
    ASSUME SessionOK, NEW c \in Clients, Doing(c, "logout")
    PROVE  /\ Leaving(c) \in [user : Accounts, left : 0..TokenTTL]
           /\ Leaving(c).left <= call[c].remaining
           /\ [token |-> Leaving(c), left |-> call[c].remaining] \in BlackKeys
<1>1. call[c] \in Calls
  BY DoingCall DEF Ops
<1>2. /\ call[c].remaining \in 1..TokenTTL /\ call[c].age \in 0..CallTime
      /\ call[c].user \in Accounts
  BY <1>1 DEF Calls
<1>3. /\ Less(call[c].remaining, call[c].age) \in 0..TokenTTL
      /\ Less(call[c].remaining, call[c].age) <= call[c].remaining
  BY <1>2, BoundsNat DEF Less
<1> QED BY <1>2, <1>3 DEF Leaving, BlackKeys

\* A tick takes one off what a set of tokens has left.
LEMMA OlderTokens ==
    ASSUME NEW T \in SUBSET Tokens
    PROVE  /\ Older(T) \subseteq Tokens
           /\ \A t \in Older(T) : \E u \in T : u.left > 1 /\ t.user = u.user /\ t.left = u.left - 1
                                               /\ t = [u EXCEPT !.left = u.left - 1]
<1> SUFFICES ASSUME NEW t \in Older(T)
             PROVE  /\ t \in Tokens
                    /\ \E u \in T : u.left > 1 /\ t.user = u.user /\ t.left = u.left - 1
                                    /\ t = [u EXCEPT !.left = u.left - 1]
  OBVIOUS
<1>1. PICK u \in T : u.left > 1 /\ t = [u EXCEPT !.left = u.left - 1]
  BY DEF Older
<1>2. u \in Tokens
  OBVIOUS
<1>3. t.user = u.user /\ t.left = u.left - 1 /\ u.left \in 1..TokenTTL
  BY <1>1, <1>2 DEF Tokens
<1>4. t \in Tokens
  BY <1>1, <1>2, <1>3, BoundsNat DEF Tokens
<1> QED BY <1>1, <1>3, <1>4

\* The first state.
LEMMA InitInv == Init => Inv
BY BoundsNat, SessionAssumption
   DEF Init, Inv, SessionOK, LoginsYoung, OutStaysOut, DisabledLeaves, Doing, NoCall, MaxOff

\* A step that leaves the tokens, the keys and the accounts alone, and in which clients
\* begin or end a call.
LEMMA CallStep ==
    ASSUME Inv, UNCHANGED <<status, off, tokens, blacklist, out>>,
           call' \in [Clients -> Calls \cup {NoCall}],
           \A c \in Clients : \/ call'[c] = call[c] \/ call'[c] = NoCall
                              \/ call'[c].op # "login"
                              \/ status[call'[c].user] # "disabled"
    PROVE  Inv'
BY DEF Inv, SessionOK, LoginsYoung, OutStaysOut, DisabledLeaves, Doing, NoCall

\* Every step keeps the invariant.
LEMMA NextInv == Inv /\ [Next]_vars => Inv'
<1> SUFFICES ASSUME Inv, [Next]_vars PROVE Inv'
  OBVIOUS
<1>0. /\ status \in [Accounts -> {"none", "active", "disabled"}]
      /\ off \in [Accounts -> 0..MaxOff]
      /\ tokens \in SUBSET Tokens /\ out \in SUBSET Tokens
      /\ blacklist \subseteq BlackKeys
      /\ call \in [Clients -> Calls \cup {NoCall}]
  BY DEF Inv, SessionOK
<1>f. ASSUME NEW c \in Clients, Finish(c)
      PROVE  /\ call' \in [Clients -> Calls \cup {NoCall}]
             /\ call'[c] = NoCall /\ \A d \in Clients \ {c} : call'[d] = call[d]
  BY <1>0, <1>f DEF Finish
<1>s. ASSUME NEW c \in Clients, NEW op \in Ops, NEW a \in Accounts, NEW n \in 1..TokenTTL,
             Start(c, op, a, n)
      PROVE  /\ call' \in [Clients -> Calls \cup {NoCall}]
             /\ call'[c].op = op /\ call'[c].user = a /\ \A d \in Clients \ {c} : call'[d] = call[d]
  <2>1. [op |-> op, age |-> 0, user |-> a, remaining |-> n] \in Calls
    BY BoundsNat DEF Calls
  <2> QED BY <1>0, <1>s, <2>1 DEF Start
<1>1. ASSUME NEW c \in Clients, NEW a \in Accounts, RegisterLook(c, a) PROVE Inv'
  <2>1. TokenTTL \in 1..TokenTTL /\ "register" \in Ops
    BY BoundsNat DEF Ops
  <2> QED BY <1>1, <1>s, <2>1, CallStep DEF RegisterLook
<1>2. ASSUME NEW c \in Clients, NEW a \in Accounts, LoginRead(c, a) PROVE Inv'
  <2>1. TokenTTL \in 1..TokenTTL /\ "login" \in Ops
    BY BoundsNat DEF Ops
  <2> QED BY <1>2, <1>s, <2>1, CallStep DEF LoginRead
<1>3. ASSUME NEW c \in Clients, RegisterInsert(c) PROVE Inv'
  <2>1. /\ status' \in [Accounts -> {"none", "active", "disabled"}]
        /\ \A a \in Accounts : status'[a] = "disabled" => status[a] = "disabled"
    BY <1>0, <1>3 DEF RegisterInsert
  <2>2. UNCHANGED <<off, tokens, blacklist, out>> /\ Finish(c)
    BY <1>3 DEF RegisterInsert
  <2>3. SessionOK' /\ OutStaysOut'
    BY <1>0, <1>f, <2>1, <2>2 DEF Inv, SessionOK, OutStaysOut
  <2>4. DisabledLeaves'
    BY <1>0, <2>1, <2>2 DEF Inv, DisabledLeaves, Tokens
  <2>5. LoginsYoung'
    <3> SUFFICES ASSUME NEW d \in Clients, Doing(d, "login")', status'[call'[d].user] = "disabled"
                 PROVE  off[call[d].user] <= call[d].age /\ call'[d] = call[d]
      BY <2>2 DEF LoginsYoung
    <3>1. call'[d] = call[d] /\ Doing(d, "login")
      BY <1>f, <2>2 DEF Doing, NoCall
    <3>2. call[d].user \in Accounts
      BY <3>1, DoingCall DEF Inv, Ops, Calls
    <3> QED BY <2>1, <3>1, <3>2 DEF Inv, LoginsYoung
  <2> QED BY <2>3, <2>4, <2>5 DEF Inv
<1>4. ASSUME NEW c \in Clients, LoginRefused(c) PROVE Inv'
  <2>1. UNCHANGED sessionVars
    BY <1>4 DEF LoginRefused
  <2> QED BY <1>0, <2>1, CallStep DEF sessionVars
<1>5. ASSUME NEW c \in Clients, LoginIssue(c) PROVE Inv'
  <2> DEFINE t == [user |-> call[c].user, left |-> TokenTTL]
  <2>1. call[c] \in Calls /\ Doing(c, "login")
    BY <1>5, DoingCall DEF LoginIssue, Inv, Ops
  <2>2. call[c].user \in Accounts /\ call[c].age \in 0..CallTime /\ t \in Tokens
    BY <2>1, BoundsNat DEF Calls, Tokens
  <2>3. UNCHANGED <<status, off, blacklist, out>> /\ tokens' = tokens \cup {t} /\ Finish(c)
    BY <1>5 DEF LoginIssue
  <2>4. SessionOK' /\ OutStaysOut' /\ LoginsYoung'
    BY <1>0, <1>f, <2>2, <2>3 DEF Inv, SessionOK, OutStaysOut, LoginsYoung, Doing, NoCall
  <2>5. status[t.user] = "disabled" => off[t.user] + t.left <= TokenTTL + CallTime
    <3>1. off[call[c].user] \in Nat
      BY <1>0, <2>2, BoundsNat
    <3>2. status[call[c].user] = "disabled" => off[call[c].user] <= call[c].age
      BY <2>1 DEF Inv, LoginsYoung
    <3> QED BY <2>2, <3>1, <3>2, BoundsNat
  <2>6. DisabledLeaves'
    BY <2>3, <2>5 DEF Inv, DisabledLeaves
  <2> QED BY <2>4, <2>6 DEF Inv
<1>6. ASSUME NEW c \in Clients, NEW t \in tokens, LogoutRead(c, t) PROVE Inv'
  <2>1. t.user \in Accounts /\ t.left \in 1..TokenTTL /\ "logout" \in Ops
    BY <1>0 DEF Tokens, Ops
  <2> QED BY <1>6, <1>s, <2>1, CallStep DEF LogoutRead
<1>b. ASSUME NEW c \in Clients, Doing(c, "logout"), Finish(c), UNCHANGED <<status, off, tokens>>,
             out' \in {out, out \cup ({Leaving(c)} \cap tokens)},
             blacklist' = {key \in blacklist : key.token # Leaving(c)}
                              \cup {[token |-> Leaving(c), left |-> call[c].remaining]}
      PROVE  Inv'
  <2> DEFINE new == [token |-> Leaving(c), left |-> call[c].remaining]
  <2>1. new \in BlackKeys /\ Leaving(c).left <= call[c].remaining /\ new \in blacklist'
    BY <1>b, LeavingOK DEF Inv
  <2>2. SessionOK' /\ DisabledLeaves' /\ LoginsYoung'
    BY <1>0, <1>b, <1>f, <2>1 DEF Inv, SessionOK, DisabledLeaves, LoginsYoung, Doing, NoCall
  <2>3. ASSUME NEW t \in out' PROVE \E key \in blacklist' : key.token = t /\ key.left >= t.left
    <3>1. CASE t = Leaving(c)
      <4>1. new.token = t /\ new.left = call[c].remaining
        BY <3>1
      <4>2. Leaving(c).left \in 0..TokenTTL /\ call[c].remaining \in 1..TokenTTL
        BY <1>b, LeavingOK, DoingCall DEF Inv, Calls, Ops
      <4> QED BY <2>1, <3>1, <4>1, <4>2, BoundsNat
    <3>2. CASE t # Leaving(c)
      <4>1. t \in out
        BY <1>b, <3>2
      <4>2. PICK key \in blacklist : key.token = t /\ key.left >= t.left
        BY <4>1 DEF Inv, OutStaysOut
      <4> QED BY <1>b, <3>2, <4>2
    <3> QED BY <3>1, <3>2
  <2> QED BY <2>2, <2>3 DEF Inv, OutStaysOut
<1>7. ASSUME NEW c \in Clients, LogoutSet(c) PROVE Inv'
  BY <1>7, <1>b DEF LogoutSet
<1>8. ASSUME NEW c \in Clients, LogoutFails(c) PROVE Inv'
  <2>1. CASE blacklist' = blacklist
    BY <1>8, <1>f, <2>1, CallStep DEF LogoutFails
  <2>2. CASE blacklist' # blacklist
    BY <1>8, <1>b, <2>2 DEF LogoutFails
  <2> QED BY <2>1, <2>2
<1>9. ASSUME NEW a \in Accounts, SetUserStatus(a) PROVE Inv'
  <2>1. /\ status' \in [Accounts -> {"none", "active", "disabled"}]
        /\ off' \in [Accounts -> 0..MaxOff] /\ off'[a] = 0
        /\ \A b \in Accounts \ {a} : status'[b] = status[b] /\ off'[b] = off[b]
    BY <1>0, <1>9, BoundsNat DEF SetUserStatus
  <2>2. UNCHANGED <<tokens, blacklist, out, call>>
    BY <1>9 DEF SetUserStatus
  <2>3. SessionOK' /\ OutStaysOut'
    BY <1>0, <2>1, <2>2 DEF Inv, SessionOK, OutStaysOut
  <2>4. ASSUME NEW t \in tokens, status'[t.user] = "disabled"
        PROVE  off'[t.user] + t.left <= TokenTTL + CallTime
    <3>1. t.user \in Accounts /\ t.left \in 1..TokenTTL
      BY <1>0 DEF Tokens
    <3> QED BY <2>1, <2>4, <3>1, BoundsNat DEF Inv, DisabledLeaves
  <2>5. ASSUME NEW c \in Clients, Doing(c, "login"), status'[call[c].user] = "disabled"
        PROVE  off'[call[c].user] <= call[c].age
    <3>1. call[c].user \in Accounts /\ call[c].age \in 0..CallTime
      BY <2>5, DoingCall DEF Inv, Ops, Calls
    <3> QED BY <2>1, <2>5, <3>1, BoundsNat DEF Inv, LoginsYoung
  <2> QED BY <2>2, <2>3, <2>4, <2>5 DEF Inv, DisabledLeaves, LoginsYoung, Doing
<1>10. CASE RedisFails
  BY <1>0, <1>10, CallStep DEF RedisFails
<1>11. CASE Tick
  <2>1. \A c \in Clients : call'[c] \in Calls \cup {NoCall}
    <3> SUFFICES ASSUME NEW c \in Clients, call[c] # NoCall
                 PROVE  [call[c] EXCEPT !.age = @ + 1] \in Calls
      BY <1>11 DEF Tick
    <3>1. call[c] \in Calls /\ call[c].age < CallTime
      BY <1>0, <1>11 DEF Tick
    <3> QED BY <3>1, BoundsNat DEF Calls
  <2>2. call' \in [Clients -> Calls \cup {NoCall}]
    BY <1>11, <2>1 DEF Tick
  <2>3. /\ off' \in [Accounts -> 0..MaxOff]
        /\ \A a \in Accounts : off'[a] <= off[a] + 1
    BY <1>0, <1>11, BoundsNat DEF Tick
  <2>4. ASSUME NEW key \in blacklist, key.left > 1
        PROVE  [token |-> [key.token EXCEPT !.left = Less(@, 1)], left |-> key.left - 1] \in BlackKeys
    <3>1. /\ key.token \in [user : Accounts, left : 0..TokenTTL]
          /\ key.token.left \in 0..TokenTTL /\ key.left \in 1..TokenTTL
      BY <1>0 DEF BlackKeys
    <3>2. Less(key.token.left, 1) \in 0..TokenTTL /\ key.left - 1 \in 1..TokenTTL
      BY <2>4, <3>1, BoundsNat DEF Less
    <3>3. [key.token EXCEPT !.left = Less(@, 1)] \in [user : Accounts, left : 0..TokenTTL]
      BY <3>1, <3>2
    <3> QED BY <3>2, <3>3 DEF BlackKeys
  <2>5. blacklist' \subseteq BlackKeys
    BY <1>11, <2>4 DEF Tick
  <2>6. tokens' = Older(tokens) /\ out' = Older(out) /\ UNCHANGED status
    BY <1>11 DEF Tick
  <2>7. SessionOK'
    BY <1>0, <2>2, <2>3, <2>5, <2>6, OlderTokens DEF SessionOK
  <2>8. LoginsYoung'
    <3> SUFFICES ASSUME NEW c \in Clients, Doing(c, "login")', status[call'[c].user] = "disabled"
                 PROVE  off'[call'[c].user] <= call'[c].age
      BY <2>6 DEF LoginsYoung
    <3>1. call[c] # NoCall /\ call'[c] = [call[c] EXCEPT !.age = @ + 1]
      BY <1>11 DEF Tick, Doing, NoCall
    <3>2. call[c] \in Calls
      BY <1>0, <3>1
    <3>3. /\ call'[c].op = call[c].op /\ call'[c].user = call[c].user
          /\ call'[c].age = call[c].age + 1
          /\ call[c].user \in Accounts /\ call[c].age \in Nat
      BY <3>1, <3>2, BoundsNat DEF Calls
    <3>4. off[call[c].user] <= call[c].age
      BY <3>3 DEF Inv, LoginsYoung, Doing
    <3>5. off'[call[c].user] <= off[call[c].user] + 1
          /\ off[call[c].user] \in Int /\ off'[call[c].user] \in Int
      BY <1>0, <2>3, <3>3, BoundsNat
    <3> QED BY <3>3, <3>4, <3>5
  <2>9. DisabledLeaves'
    <3> SUFFICES ASSUME NEW t \in Older(tokens), status[t.user] = "disabled"
                 PROVE  off'[t.user] + t.left <= TokenTTL + CallTime
      BY <2>6 DEF DisabledLeaves
    <3>1. PICK u \in tokens : u.left > 1 /\ t.user = u.user /\ t.left = u.left - 1
      BY <1>0, OlderTokens
    <3>2. u.user \in Accounts /\ u.left \in 1..TokenTTL
      BY <1>0 DEF Tokens
    <3>3. off[u.user] + u.left <= TokenTTL + CallTime
      BY <3>1 DEF Inv, DisabledLeaves
    <3>4. off'[u.user] <= off[u.user] + 1 /\ off[u.user] \in Int /\ off'[u.user] \in Int
      BY <1>0, <2>3, <3>2, BoundsNat
    <3> QED BY <3>1, <3>2, <3>3, <3>4, BoundsNat
  <2>10. OutStaysOut'
    <3> SUFFICES ASSUME NEW t \in Older(out)
                 PROVE  \E key \in blacklist' : key.token = t /\ key.left >= t.left
      BY <2>6 DEF OutStaysOut
    <3>1. PICK u \in out : u.left > 1 /\ t.left = u.left - 1 /\ t = [u EXCEPT !.left = u.left - 1]
      BY <1>0, OlderTokens
    <3>2. u \in Tokens /\ u.left \in 1..TokenTTL
      BY <1>0 DEF Tokens
    <3>3. PICK key \in blacklist : key.token = u /\ key.left >= u.left
      BY DEF Inv, OutStaysOut
    <3>4. key.left \in 1..TokenTTL
      BY <1>0 DEF BlackKeys
    <3> DEFINE next == [token |-> [key.token EXCEPT !.left = Less(@, 1)], left |-> key.left - 1]
    <3>5. next \in blacklist'
      <4>1. key.left > 1
        BY <3>1, <3>2, <3>3, <3>4, BoundsNat
      <4> QED BY <1>11, <4>1 DEF Tick
    <3>6. Less(u.left, 1) = u.left - 1
      BY <3>1, <3>2, BoundsNat DEF Less
    <3>7. next.token = t /\ next.left = key.left - 1
      BY <3>1, <3>3, <3>6
    <3>8. key.left - 1 >= u.left - 1
      BY <3>2, <3>3, <3>4, BoundsNat
    <3> HIDE DEF next
    <3> QED BY <3>1, <3>5, <3>7, <3>8
  <2> QED BY <2>7, <2>8, <2>9, <2>10 DEF Inv
<1>12. CASE UNCHANGED vars
  BY <1>0, <1>12, CallStep DEF vars, sessionVars
<1> QED
  BY <1>1, <1>2, <1>3, <1>4, <1>5, <1>6, <1>7, <1>8, <1>9, <1>10, <1>11, <1>12 DEF Next

\* A session that was ended stays ended, with and without Redis, for the token's whole life.
THEOREM LogoutLasts == Spec => []OutStaysOut
<1>1. Inv => OutStaysOut
  BY DEF Inv
<1> QED
  BY <1>1, InitInv, NextInv, PTL DEF Spec

\* The sessions of a disabled account end within the life of a token and a login.
THEOREM DisabledEnd == Spec => []DisabledLeaves
<1>1. Inv => DisabledLeaves
  BY DEF Inv
<1> QED
  BY <1>1, InitInv, NextInv, PTL DEF Spec

-------------------------------------------------------------------------------
(* The limiter. *)

\* The requests counted by the counter that is there now: since it was set.
Mine(p) == counter.n > 0 /\ p.ago <= Window - counter.left

\* Two requests of the counter have different numbers, up to its count; so have two
\* of the counter before it, and no third counter reaches into the window.
CounterInv ==
    /\ LimitTypeOK
    /\ counter.n = 0 <=> counter.left = 0
    /\ counter.n = 0 => \A p \in passed : p.ago > 0
    /\ \A p \in passed : Mine(p) => p.nth <= counter.n
    /\ \A p, q \in passed : (Mine(p) <=> Mine(q)) /\ p.nth = q.nth => p = q

\* What INCR leaves in the key.
LEMMA IncrType ==
    ASSUME CounterInv
    PROVE  /\ Incr \in [n : 1..Limit + 1, left : 1..Window]
           /\ Incr.n <= Limit => Incr.n = counter.n + 1
           /\ counter.n <= Incr.n
           /\ counter.n > 0 => Incr.left = counter.left
           /\ counter.n = 0 => Incr.left = Window
BY LimitAssumption DEF CounterInv, LimitTypeOK, Incr, Counted

\* Counting alone: nothing passes.
LEMMA IncrInv ==
    ASSUME CounterInv, counter' = Incr, UNCHANGED passed
    PROVE  CounterInv'
<1>1. \A p \in passed : p.ago \in 0..Window - 1 /\ p.nth \in 1..Limit
  BY DEF CounterInv, LimitTypeOK
<1>2. \A p \in passed : Mine(p)' <=> Mine(p)
  <2>1. CASE counter.n = 0
    BY <1>1, <2>1, IncrType, LimitAssumption DEF CounterInv, Mine
  <2>2. CASE counter.n > 0
    BY <2>2, IncrType DEF Mine
  <2> QED BY <2>1, <2>2 DEF CounterInv, LimitTypeOK
<1>3. LimitTypeOK' /\ (counter.n = 0 <=> counter.left = 0)'
  BY IncrType, LimitAssumption DEF CounterInv, LimitTypeOK
<1>4. counter'.n > 0 /\ counter'.n >= counter.n /\ counter'.n \in Int /\ counter.n \in Int
  BY IncrType, LimitAssumption DEF CounterInv, LimitTypeOK
<1>5. \A p \in passed : Mine(p)' => p.nth <= counter'.n
  BY <1>1, <1>2, <1>4, LimitAssumption DEF CounterInv
<1>6. \A p, q \in passed : (Mine(p)' <=> Mine(q)') /\ p.nth = q.nth => p = q
  BY <1>2 DEF CounterInv
<1> QED
  BY <1>3, <1>4, <1>5, <1>6 DEF CounterInv, Mine

\* The request that passes has the next number of its counter.
LEMMA PassInv ==
    ASSUME CounterInv, Pass
    PROVE  CounterInv'
<1> DEFINE new == [ago |-> 0, nth |-> Incr.n]
<1>1. /\ counter' = Incr /\ counter'.n <= Limit /\ passed' = passed \cup {new}
      /\ Incr \in [n : 1..Limit + 1, left : 1..Window] /\ Incr.n = counter.n + 1
  BY IncrType DEF Pass
<1>2. \A p \in passed : p.ago \in 0..Window - 1 /\ p.nth \in 1..Limit
  BY DEF CounterInv, LimitTypeOK
<1>3. counter.n \in 0..Limit + 1 /\ counter.left \in 0..Window
  BY DEF CounterInv, LimitTypeOK
<1>4. \A p \in passed : (Mine(p)' <=> Mine(p)) /\ (Mine(p) => p.nth < counter'.n)
  <2>1. CASE counter.n = 0
    BY <1>1, <1>2, <2>1, IncrType, LimitAssumption DEF CounterInv, Mine
  <2>2. CASE counter.n > 0
    BY <1>1, <1>2, <1>3, <2>2, IncrType, LimitAssumption DEF CounterInv, Mine
  <2> QED BY <1>3, <2>1, <2>2
<1>5. /\ new.ago = 0 /\ new.nth = counter'.n
      /\ counter'.n > 0 /\ new.ago <= Window - counter'.left
  BY <1>1, LimitAssumption
<1>6. LimitTypeOK' /\ counter'.n > 0 /\ counter'.left > 0
  BY <1>1, LimitAssumption DEF CounterInv, LimitTypeOK
<1>7. \A p \in passed' : Mine(p)' => p.nth <= counter'.n
  BY <1>1, <1>2, <1>4, <1>5, LimitAssumption
<1>8. \A p, q \in passed' : (Mine(p)' <=> Mine(q)') /\ p.nth = q.nth => p = q
  <2> SUFFICES ASSUME NEW p \in passed', NEW q \in passed', Mine(p)' <=> Mine(q)', p.nth = q.nth
               PROVE  p = q
    OBVIOUS
  <2>1. CASE p \in passed /\ q \in passed
    BY <1>4, <2>1 DEF CounterInv
  <2>2. CASE p = new \/ q = new
    <3>1. Mine(p)' /\ Mine(q)' /\ p.nth = counter'.n
      BY <1>5, <2>2 DEF Mine
    <3>2. ASSUME NEW r \in passed, Mine(r)' PROVE r.nth # counter'.n
      <4>1. r.nth < counter'.n /\ r.nth \in Int /\ counter'.n \in Int
        BY <1>1, <1>2, <1>4, <3>2, LimitAssumption
      <4> QED BY <4>1
    <3> QED BY <1>1, <3>1, <3>2
  <2> QED BY <1>1, <2>1, <2>2
<1> QED
  BY <1>6, <1>7, <1>8 DEF CounterInv

\* A tick ages both the counter and the requests; when the counter goes, what it
\* let through is what is left of the one before.
LEMMA LimitTickInv ==
    ASSUME CounterInv, LimitTick
    PROVE  CounterInv'
<1>1. \A p \in passed : p \in [ago : 0..Window - 1, nth : 1..Limit]
  BY DEF CounterInv, LimitTypeOK
<1>2. counter \in [n : 0..Limit + 1, left : 0..Window]
  BY DEF CounterInv, LimitTypeOK
<1>3. ASSUME NEW p \in passed'
      PROVE  \E q \in passed : /\ q.ago < Window - 1 /\ p.ago = q.ago + 1 /\ p.nth = q.nth
                               /\ p \in [ago : 1..Window - 1, nth : 1..Limit]
  <2>1. PICK q \in passed : q.ago < Window - 1 /\ p = [q EXCEPT !.ago = q.ago + 1]
    BY DEF LimitTick
  <2>2. q \in [ago : 0..Window - 1, nth : 1..Limit]
    BY <1>1
  <2>3. /\ q.ago \in 0..Window - 1 /\ q.nth \in 1..Limit /\ p.ago = q.ago + 1 /\ p.nth = q.nth
        /\ p = [ago |-> q.ago + 1, nth |-> q.nth]
    BY <2>1, <2>2
  <2>4. q.ago + 1 \in 1..Window - 1
    BY <2>1, <2>3, LimitAssumption
  <2>5. p \in [ago : 1..Window - 1, nth : 1..Limit]
    BY <2>3, <2>4
  <2> QED BY <2>1, <2>3, <2>5
<1>4. \A p, q \in passed' : p.ago = q.ago /\ p.nth = q.nth => p = q
  BY <1>3
<1>5. CASE counter.left <= 1
  <2>1. counter' = NoKey
    BY <1>5 DEF LimitTick
  <2>2. \A q \in passed : Mine(q) <=> counter.n > 0
    BY <1>1, <1>2, <1>5, LimitAssumption DEF Mine
  <2>3. \A p, q \in passed' : p.nth = q.nth => p = q
    BY <1>3, <1>4, <2>2 DEF CounterInv
  <2> QED BY <1>3, <2>1, <2>3, LimitAssumption DEF CounterInv, LimitTypeOK, NoKey, Mine
<1>6. CASE counter.left > 1
  <2>1. /\ counter'.n = counter.n /\ counter'.left = counter.left - 1
        /\ counter' \in [n : 0..Limit + 1, left : 1..Window]
        /\ counter.n > 0
    BY <1>2, <1>6, LimitAssumption DEF LimitTick, CounterInv
  <2>2. ASSUME NEW p \in passed'
        PROVE  \E q \in passed : /\ p.ago = q.ago + 1 /\ p.nth = q.nth
                                 /\ (Mine(p)' <=> Mine(q))
    <3>1. PICK q \in passed : p.ago = q.ago + 1 /\ p.nth = q.nth
      BY <1>3
    <3>2. q.ago \in Int
      BY <1>1, LimitAssumption
    <3>3. Mine(p)' <=> Mine(q)
      BY <1>2, <2>1, <3>1, <3>2, LimitAssumption DEF Mine
    <3> QED BY <3>1, <3>3
  <2>3. \A p \in passed' : Mine(p)' => p.nth <= counter'.n
    BY <2>1, <2>2 DEF CounterInv
  <2>4. \A p, q \in passed' : (Mine(p)' <=> Mine(q)') /\ p.nth = q.nth => p = q
    <3> SUFFICES ASSUME NEW p \in passed', NEW q \in passed', Mine(p)' <=> Mine(q)', p.nth = q.nth
                 PROVE  p = q
      OBVIOUS
    <3>1. PICK u \in passed : p.ago = u.ago + 1 /\ p.nth = u.nth /\ (Mine(p)' <=> Mine(u))
      BY <2>2
    <3>2. PICK v \in passed : q.ago = v.ago + 1 /\ q.nth = v.nth /\ (Mine(q)' <=> Mine(v))
      BY <2>2
    <3>3. u = v
      BY <3>1, <3>2 DEF CounterInv
    <3> QED BY <1>4, <3>1, <3>2, <3>3
  <2>5. LimitTypeOK' /\ counter'.left > 0
    BY <1>3, <2>1, LimitAssumption DEF LimitTypeOK
  <2> QED BY <2>1, <2>3, <2>4, <2>5 DEF CounterInv
<1> QED
  BY <1>2, <1>5, <1>6, LimitAssumption

\* The invariant of the limiter, through the steps of Sessions that use it.
LEMMA CounterNext == CounterInv /\ [Next]_vars => CounterInv'
<1> SUFFICES ASSUME CounterInv, [Next]_vars PROVE CounterInv'
  OBVIOUS
<1>1. CASE UNCHANGED limitVars
  BY <1>1 DEF limitVars, CounterInv, LimitTypeOK, Mine
<1>2. ASSUME LetThrough \/ TurnAway PROVE CounterInv'
  BY <1>1, <1>2, PassInv, IncrInv DEF LetThrough, TurnAway, PassUnchecked, limitVars
<1>3. CASE Tick
  BY <1>3, LimitTickInv DEF Tick
<1>4. CASE \/ \E c \in Clients, a \in Accounts : RegisterLook(c, a) \/ LoginRead(c, a)
           \/ \E c \in Clients : RegisterInsert(c) \/ LoginRefused(c) \/ LoginIssue(c)
  BY <1>1, <1>2, <1>4 DEF RegisterLook, LoginRead, RegisterInsert, LoginRefused, LoginIssue
<1>5. CASE \/ \E c \in Clients : LogoutSet(c) \/ LogoutFails(c)
           \/ \E c \in Clients, t \in tokens : LogoutRead(c, t)
           \/ \E a \in Accounts : SetUserStatus(a)
           \/ RedisFails
           \/ UNCHANGED vars
  BY <1>1, <1>5 DEF LogoutSet, LogoutFails, LogoutRead, SetUserStatus, RedisFails, vars
<1> QED
  BY <1>3, <1>4, <1>5 DEF Next

\* Requests with different numbers are Limit at most.
LEMMA OneCounter ==
    ASSUME NEW S \in SUBSET [ago : 0..Window - 1, nth : 1..Limit],
           \A p, q \in S : p.nth = q.nth => p = q
    PROVE  IsFiniteSet(S) /\ Cardinality(S) <= Limit
<1> DEFINE number == [p \in S |-> p.nth]
<1>1. number \in Injection(S, 1..Limit)
  BY DEF Injection, IsInjective
<1>2. IsFiniteSet(1..Limit) /\ Cardinality(1..Limit) = Limit
  BY LimitAssumption, FS_Interval
<1> QED
  BY <1>1, <1>2, FS_Injection

\* Within one window's time two counters at most let requests through.
THEOREM AtMostTwiceSafe == Spec => []AtMostTwice
<1>1. Init => CounterInv
  BY LimitAssumption DEF Init, LimitInit, CounterInv, LimitTypeOK, NoKey
<1>2. CounterInv => AtMostTwice
  <2> SUFFICES ASSUME CounterInv PROVE Cardinality(passed) <= 2 * Limit
    BY DEF AtMostTwice
  <2> DEFINE now == {p \in passed : Mine(p)}  before == {p \in passed : ~Mine(p)}
  <2>1. passed \in SUBSET [ago : 0..Window - 1, nth : 1..Limit]
    BY DEF CounterInv, LimitTypeOK
  <2>2. IsFiniteSet(now) /\ Cardinality(now) <= Limit
    BY <2>1, OneCounter DEF CounterInv
  <2>3. IsFiniteSet(before) /\ Cardinality(before) <= Limit
    BY <2>1, OneCounter DEF CounterInv
  <2>4. passed = now \cup before /\ now \cap before = {}
    OBVIOUS
  <2> HIDE DEF now, before
  <2>5. Cardinality(passed) = Cardinality(now) + Cardinality(before) - Cardinality({})
    BY <2>2, <2>3, <2>4, FS_Union
  <2>6. Cardinality({}) = 0 /\ Cardinality(now) \in Nat /\ Cardinality(before) \in Nat
    BY <2>2, <2>3, FS_EmptySet, FS_CardinalityType
  <2> QED BY <2>2, <2>3, <2>5, <2>6, LimitAssumption
<1> QED
  BY <1>1, <1>2, CounterNext, PTL DEF Spec

\* Types and ranges hold in every state, those of the limiter too.
THEOREM TypeCorrect == Spec => []TypeOK
<1>1. Init => Inv /\ CounterInv /\ redis \in BOOLEAN
  BY InitInv, LimitAssumption DEF Init, LimitInit, CounterInv, LimitTypeOK, NoKey
<1>2. redis \in BOOLEAN /\ [Next]_vars => (redis \in BOOLEAN)'
  BY DEF Next, vars, sessionVars, RegisterLook, LoginRead, RegisterInsert, LoginRefused, LoginIssue, LogoutSet,
         LogoutFails, LogoutRead, SetUserStatus, RedisFails, Tick
<1>3. Inv /\ CounterInv /\ redis \in BOOLEAN => TypeOK
  BY DEF Inv, SessionOK, CounterInv, TypeOK, Calls, BlackKeys
<1> QED
  BY <1>1, <1>2, <1>3, NextInv, CounterNext, PTL DEF Spec
===============================================================================

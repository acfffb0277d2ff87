-------------------------------- MODULE Sessions --------------------------------
(***************************************************************************)
(* Accounts and sessions: service/auth.go behind middleware/auth.go, the   *)
(* limiter in front of the login, and the administrators who enable and    *)
(* disable accounts (handler/admin_user.go).                               *)
(*                                                                         *)
(* A session is a signed token and nothing is stored for it: it is valid   *)
(* until it expires, unless its hash is in the blacklist of Redis. Claims  *)
(* carry the account and times in whole seconds, so that two logins of an  *)
(* account in one second return the same token. A tick is a second here,   *)
(* and a token is its account and the ticks it has left.                   *)
(***************************************************************************)
EXTENDS RateLimit

CONSTANTS
    Accounts,
    NewAccounts,    \* names that are free at the start
    Clients,
    TokenTTL,
    CallTime        \* bound: ticks a call takes at most

ASSUME SessionAssumption ==
    /\ NewAccounts \subseteq Accounts
    /\ TokenTTL \in Nat \ {0} /\ CallTime \in Nat

VARIABLES
    status,     \* users.status; "none": no row
    off,        \* off[a]: ticks since a was disabled, as far as they matter
    tokens,     \* tokens that were issued and have not expired
    blacklist,  \* keys of Redis: a token and the ticks the key has left
    out,        \* tokens whose logout was answered with success (history)
    call,       \* call[c]: what client c waits for, and what its token had to live at the start
    redis       \* Redis answers

sessionVars == <<status, off, tokens, blacklist, out, call, redis>>
vars == <<sessionVars, limitVars>>

Ops == {"login", "logout", "register"}
Tokens == [user : Accounts, left : 1..TokenTTL]
NoCall == [op |-> "idle", age |-> 0, user |-> "nobody", remaining |-> 0]

MaxOff == TokenTTL + CallTime
Less(n, m) == IF n > m THEN n - m ELSE 0

\* ParseToken and IsTokenBlacklisted: without an answer of Redis it is let through.
Accepted(t) ==
    /\ t \in tokens
    /\ redis => \A key \in blacklist : key.token # t

Start(c, op, user, remaining) ==
    /\ call[c] = NoCall
    /\ call' = [call EXCEPT ![c] = [op |-> op, age |-> 0, user |-> user, remaining |-> remaining]]
Finish(c) == call' = [call EXCEPT ![c] = NoCall]
Doing(c, op) == call[c].op = op

\* The limiter lets the request through.
LetThrough == IF redis THEN Pass ELSE \E counts \in BOOLEAN : PassUnchecked(counts)

-------------------------------------------------------------------------------
(* Requests *)

\* Register: a name that is taken is refused at once.
RegisterLook(c, a) ==
    /\ status[a] = "none"
    /\ Start(c, "register", a, TokenTTL)
    /\ UNCHANGED <<status, off, tokens, blacklist, out, redis, limitVars>>

\* Create: the UNIQUE constraint refuses a name that was taken meanwhile.
RegisterInsert(c) ==
    /\ Doing(c, "register")
    /\ status' = [status EXCEPT ![call[c].user] = IF @ = "none" THEN "active" ELSE @]
    /\ Finish(c)
    /\ UNCHANGED <<off, tokens, blacklist, out, redis, limitVars>>

\* Mutant of LoginRead: the status is not looked at.
LoginReadAny(c, a) ==
    /\ status[a] # "none"
    /\ LetThrough
    /\ Start(c, "login", a, TokenTTL)
    /\ UNCHANGED <<status, off, tokens, blacklist, out, redis>>

\* GetByUsername and the checks on the row it read: password and status.
LoginRead(c, a) ==
    /\ status[a] = "active"
    /\ LetThrough
    /\ Start(c, "login", a, TokenTTL)
    /\ UNCHANGED <<status, off, tokens, blacklist, out, redis>>

\* Too many requests, a wrong password or a disabled account.
LoginRefused(c) ==
    /\ call[c] = NoCall
    /\ LetThrough \/ (redis /\ TurnAway)
    /\ UNCHANGED sessionVars

\* The token is signed.
LoginIssue(c) ==
    /\ Doing(c, "login")
    /\ tokens' = tokens \cup {[user |-> call[c].user, left |-> TokenTTL]}
    /\ Finish(c)
    /\ UNCHANGED <<status, off, blacklist, out, redis, limitVars>>

\* AuthRequired, ParseToken and the time the token has left. The clock goes on while
\* the claims hold whole seconds: what remains is never more than that.
LogoutRead(c, t) ==
    /\ Accepted(t)
    /\ Start(c, "logout", t.user, t.left)
    /\ UNCHANGED <<status, off, tokens, blacklist, out, redis, limitVars>>

Leaving(c) == [user |-> call[c].user, left |-> Less(call[c].remaining, call[c].age)]

\* Mutant of LogoutSet: an error of Redis is taken for success.
LogoutSetOrNot(c) ==
    /\ Doing(c, "logout")
    /\ blacklist' = IF redis THEN blacklist \cup {[token |-> Leaving(c), left |-> call[c].remaining]}
                    ELSE blacklist
    /\ out' = out \cup {Leaving(c)}
    /\ Finish(c)
    /\ UNCHANGED <<status, off, tokens, redis, limitVars>>

\* SET with what remained; the answer is success.
LogoutSet(c) ==
    /\ Doing(c, "logout") /\ redis
    /\ blacklist' = {key \in blacklist : key.token # Leaving(c)}
                        \cup {[token |-> Leaving(c), left |-> call[c].remaining]}
    /\ out' = out \cup ({Leaving(c)} \cap tokens)
    /\ Finish(c)
    /\ UNCHANGED <<status, off, tokens, redis, limitVars>>

\* Redis does not answer, before or after it took the key: 503.
LogoutFails(c) ==
    /\ Doing(c, "logout") /\ ~redis
    /\ blacklist' \in {blacklist,
                       {key \in blacklist : key.token # Leaving(c)}
                          \cup {[token |-> Leaving(c), left |-> call[c].remaining]}}
    /\ Finish(c)
    /\ UNCHANGED <<status, off, tokens, out, redis, limitVars>>

\* SetUserStatus. The administrator who calls it is not a (nobody disables himself),
\* and his own sessions are not among those looked at here.
SetUserStatus(a) ==
    /\ status[a] # "none"
    /\ status' = [status EXCEPT ![a] = IF @ = "active" THEN "disabled" ELSE "active"]
    /\ off' = [off EXCEPT ![a] = 0]
    /\ UNCHANGED <<tokens, blacklist, out, call, redis, limitVars>>

RedisFails ==
    /\ redis' = ~redis
    /\ UNCHANGED <<status, off, tokens, blacklist, out, call, limitVars>>

\* A token that has a tick less to live; none when it is over.
Older(T) == {[t EXCEPT !.left = @ - 1] : t \in {u \in T : u.left > 1}}

Tick ==
    /\ \A c \in Clients : call[c] # NoCall => call[c].age < CallTime
    /\ call' = [c \in Clients |-> IF call[c] = NoCall THEN NoCall
                                               ELSE [call[c] EXCEPT !.age = @ + 1]]
    /\ off' = [a \in Accounts |-> IF status[a] # "disabled" THEN 0
                                  ELSE IF off[a] < MaxOff THEN off[a] + 1 ELSE MaxOff]
    /\ tokens' = Older(tokens)
    /\ out' = Older(out)
    /\ blacklist' = {[token |-> [key.token EXCEPT !.left = Less(@, 1)], left |-> key.left - 1]
                        : key \in {k \in blacklist : k.left > 1}}
    /\ LimitTick
    /\ UNCHANGED <<status, redis>>

Init ==
    /\ status = [a \in Accounts |-> IF a \in NewAccounts THEN "none" ELSE "active"]
    /\ off = [a \in Accounts |-> 0]
    /\ tokens = {} /\ blacklist = {} /\ out = {}
    /\ call = [c \in Clients |-> NoCall]
    /\ redis = TRUE
    /\ LimitInit

Next ==
    \/ \E c \in Clients, a \in Accounts : RegisterLook(c, a) \/ LoginRead(c, a)
    \/ \E c \in Clients : RegisterInsert(c) \/ LoginRefused(c) \/ LoginIssue(c)
    \/ \E c \in Clients : LogoutSet(c) \/ LogoutFails(c)
    \/ \E c \in Clients, t \in tokens : LogoutRead(c, t)
    \/ \E a \in Accounts : SetUserStatus(a)
    \/ RedisFails
    \/ Tick

Spec == Init /\ [][Next]_vars

\* Time passes and calls end; nobody has to call.
FairSpec ==
    /\ Spec /\ WF_vars(Tick)
    /\ \A c \in Clients : WF_vars(RegisterInsert(c) \/ LoginIssue(c) \/ LogoutSet(c) \/ LogoutFails(c))

-------------------------------------------------------------------------------
(* Properties *)

\* Accounts, tokens, keys of Redis, and calls in progress.
TypeOK ==
    /\ status \in [Accounts -> {"none", "active", "disabled"}]
    /\ off \in [Accounts -> 0..MaxOff]
    /\ tokens \subseteq Tokens /\ out \subseteq Tokens
    /\ blacklist \subseteq [token : [user : Accounts, left : 0..TokenTTL], left : 1..TokenTTL]
    /\ call \in [Clients -> [op : Ops, age : 0..CallTime, user : Accounts, remaining : 1..TokenTTL]
                             \cup {NoCall}]
    /\ redis \in BOOLEAN
    /\ LimitTypeOK

\* Who was told that he is logged out stays so: however late the key was set and
\* whatever happened since, it lives as long as the token could.
OutStaysOut ==
    \A t \in out : \E key \in blacklist : key.token = t /\ key.left >= t.left

\* Disabling an account does not end its sessions. They end with their tokens, and
\* a login that was under way is the last to start one.
DisabledLeaves ==
    \A t \in tokens : status[t.user] = "disabled" => off[t.user] + t.left <= TokenTTL + CallTime
===============================================================================

--------------------------------- MODULE AIChat ---------------------------------
(***************************************************************************)
(* The assistant's conversations (service/ai.go, repository/ai.go) and the *)
(* stream of one answer (service/ai_client.go, handler/ai.go). A question  *)
(* is a row, its answer a second row that is "streaming" until the chat    *)
(* that made it writes "complete" or "failed". A user may have several     *)
(* tabs open on one conversation and delete it in any of them.             *)
(*                                                                         *)
(* Every statement before the answer and the last one run under the        *)
(* context of the request, which ends when the client leaves; the one that *)
(* writes "failed" does not. A statement whose end a call did not see may  *)
(* still be carried out. Roles, texts, titles and times are left out.      *)
(***************************************************************************)
EXTENDS Integers, Sequences, FiniteSets

CONSTANTS
    Users, Tabs,
    Conversations,  \* bound: conversations, by id
    MaxMessages,    \* bound: rows of ai_messages
    MaxRunning,     \* bound: statements that outlive their calls at a time
    Limit,          \* contextLimit, 1..100
    Faults          \* the database may fail and the process may crash

ASSUME ChatAssumption ==
    /\ Conversations \in Nat /\ MaxMessages \in Nat /\ MaxRunning \in Nat
    /\ Limit \in 1..100 /\ Faults \in BOOLEAN

VARIABLES
    owner,      \* owner[k]: who owns conversation k, Nobody before and after its life
    message,    \* the rows by id; a deleted one is "gone"
    chat,       \* chat[t]: the call of tab t
    away,       \* the tabs whose client has left: their context is cancelled
    running,    \* statements the server may still carry out although their call has ended
    dropped     \* the answers that still stream although their chat is over (history)

vars == <<owner, message, chat, away, running, dropped>>

Nobody == "nobody"
Existing == {k \in 1..Conversations : owner[k] # Nobody}

NoChat == [pc |-> "idle", conv |-> 0, question |-> 0, context |-> {}, answer |-> 0]

At(t, pc) == chat[t].pc = pc
Streaming(i) == i \in DOMAIN message /\ message[i].status = "streaming"
OpenAnswers(tabs) == {i \in {chat[t].answer : t \in tabs} : Streaming(i)}
Answering == {"meta", "stream", "cards", "finish", "failed"}

\* An id nothing refers to is as good as a new one.
Unused == {k \in 1..Conversations : /\ owner[k] = Nobody
                                    /\ \A i \in DOMAIN message : message[i].conv # k
                                    /\ \A t \in Tabs : chat[t].conv # k
                                    /\ \A s \in running : s.conv # k}

\* The next id of the sequence.
NextId(k) == k \in Unused /\ \A j \in Unused : k <= j

-------------------------------------------------------------------------------
(* Conversations *)

CreateConversation(u, k) ==
    /\ NextId(k)
    /\ owner' = [owner EXCEPT ![k] = u]
    /\ UNCHANGED <<message, chat, away, running, dropped>>

\* The messages go with their conversation, the one being answered included.
DeleteConversation(u, k) ==
    /\ owner[k] = u
    /\ owner' = [owner EXCEPT ![k] = Nobody]
    /\ message' = [i \in DOMAIN message |->
                     IF message[i].conv = k THEN [message[i] EXCEPT !.status = "gone"] ELSE message[i]]
    /\ dropped' = {i \in dropped : message[i].conv # k}
    /\ UNCHANGED <<chat, away, running>>

-------------------------------------------------------------------------------
(* One call of Chat *)

\* The call goes on at pc, or ends.
GoTo(t, pc) == chat' = [chat EXCEPT ![t].pc = pc] /\ UNCHANGED <<away, running, dropped>>

End(t) ==
    /\ chat' = [chat EXCEPT ![t] = NoChat]
    /\ away' = away \ {t}

\* It ends as it should, or before there is an answer.
Return(t) == End(t) /\ UNCHANGED <<running, dropped>>

\* What the statement at pc makes of a row.
Writes == [question |-> "complete", placeholder |-> "streaming", finish |-> "complete", failed |-> "failed"]

\* The statement the call of t waits for, if it is one that writes; an INSERT has no row
\* yet. Bound: two that would do the same count as one.
Sent(t) ==
    IF chat[t].pc \in DOMAIN Writes
    THEN {[conv |-> chat[t].conv, row |-> chat[t].answer, status |-> Writes[chat[t].pc]]}
    ELSE {}

\* Of the statements whose end no call sees any more some are carried out all the same.
LeaveRunning(sent) ==
    \E left \in SUBSET sent :
        /\ running' = running \cup left
        /\ left = {} \/ Cardinality(running') <= MaxRunning

\* It ends with an error and leaves its answer, if it has one, as it is.
BreakOff(t) ==
    /\ End(t)
    /\ dropped' = dropped \cup OpenAnswers({t})
    /\ LeaveRunning(Sent(t))

Start(t, k) ==
    /\ chat' = [chat EXCEPT ![t] = [pc |-> "question", conv |-> k, question |-> 0,
                                    context |-> {}, answer |-> 0]]
    /\ UNCHANGED <<message, away, running, dropped>>

\* A question in a conversation of the caller's own, or in a new one.
Ask(t, u, k) ==
    /\ At(t, "idle")
    /\ owner[k] = u
    /\ Start(t, k)
    /\ UNCHANGED owner

AskNew(t, u, k) ==
    /\ At(t, "idle")
    /\ NextId(k)
    /\ owner' = [owner EXCEPT ![k] = u]
    /\ Start(t, k)

\* INSERT: the foreign key refuses a row without its conversation.
AddMessage(k, status) ==
    /\ k \in Existing
    /\ Len(message) < MaxMessages
    /\ message' = Append(message, [conv |-> k, status |-> status])

AddQuestion(t) ==
    /\ At(t, "question") /\ t \notin away
    /\ AddMessage(chat[t].conv, "complete")
    /\ chat' = [chat EXCEPT ![t].pc = "history", ![t].question = Len(message')]
    /\ UNCHANGED <<owner, away, running, dropped>>

\* Mutant of Complete: completeOnly is forgotten.
AnyStatus(k) == {i \in DOMAIN message : message[i].conv = k /\ message[i].status # "gone"}

Complete(k) == {i \in DOMAIN message : message[i].conv = k /\ message[i].status = "complete"}

\* The complete messages that fewer than Limit follow: ORDER BY ... DESC LIMIT. The
\* order in which they are told is that of their ids.
ListMessages(k) == {i \in Complete(k) : Cardinality({j \in Complete(k) : j > i}) < Limit}

ReadHistory(t) ==
    /\ At(t, "history") /\ t \notin away
    /\ chat[t].conv \in Existing
    /\ chat' = [chat EXCEPT ![t].pc = "placeholder", ![t].context = ListMessages(chat[t].conv)]
    /\ UNCHANGED <<owner, message, away, running, dropped>>

AddAnswer(t) ==
    /\ At(t, "placeholder") /\ t \notin away
    /\ AddMessage(chat[t].conv, "streaming")
    /\ chat' = [chat EXCEPT ![t].pc = "meta", ![t].answer = Len(message')]
    /\ UNCHANGED <<owner, away, running, dropped>>

\* What is written to a client that has left may be buffered or refused.
Meta(t) ==
    /\ At(t, "meta")
    /\ GoTo(t, "stream")
    /\ UNCHANGED <<owner, message>>

StreamEnds(t) ==
    /\ At(t, "stream") /\ t \notin away
    /\ \E next \in {"cards", "finish"} : GoTo(t, next)
    /\ UNCHANGED <<owner, message>>

\* Mutant of StreamFails: the error returns at once.
StreamFailsSilently(t) ==
    /\ At(t, "stream")
    /\ Return(t)
    /\ UNCHANGED <<owner, message>>

\* Refused, cut off, too slow, or the client has left.
StreamFails(t) ==
    /\ At(t, "stream")
    /\ GoTo(t, "failed")
    /\ UNCHANGED <<owner, message>>

Cards(t) ==
    /\ At(t, "cards")
    /\ GoTo(t, "finish")
    /\ UNCHANGED <<owner, message>>

\* UPDATE by id: nothing is written when the row is gone.
UpdateMessage(id, status) ==
    message' = IF message[id].status = "gone" THEN message
                                             ELSE [message EXCEPT ![id].status = status]

\* Mutant of MarkFailed: whatever the conversation still streams.
MarkAllFailed(t) ==
    /\ At(t, "failed")
    /\ message' = [i \in DOMAIN message |->
                     IF message[i].conv = chat[t].conv /\ message[i].status = "streaming"
                     THEN [message[i] EXCEPT !.status = "failed"] ELSE message[i]]
    /\ Return(t)
    /\ UNCHANGED owner

\* Mutant of MarkFailed: under the context of the request.
MarkFailedInRequest(t) ==
    /\ At(t, "failed")
    /\ IF t \in away THEN UNCHANGED message ELSE UpdateMessage(chat[t].answer, "failed")
    /\ Return(t)
    /\ UNCHANGED owner

MarkFailed(t) ==
    /\ At(t, "failed")
    /\ UpdateMessage(chat[t].answer, "failed")
    /\ Return(t)
    /\ UNCHANGED owner

Finish(t) ==
    /\ At(t, "finish") /\ t \notin away
    /\ UpdateMessage(chat[t].answer, "complete")
    /\ Return(t)
    /\ UNCHANGED owner

-------------------------------------------------------------------------------
(* Calls that end early *)

\* The conversation is gone: the foreign key, or ErrNotFound.
NotFound(t) ==
    /\ chat[t].pc \in {"question", "history", "placeholder"}
    /\ chat[t].conv \notin Existing
    /\ Return(t)
    /\ UNCHANGED <<owner, message>>

Leave(t) ==
    /\ ~At(t, "idle")
    /\ away' = away \cup {t}
    /\ UNCHANGED <<owner, message, chat, running, dropped>>

\* A statement under a cancelled context returns an error.
Cancelled(t) ==
    /\ t \in away
    /\ chat[t].pc \in {"question", "history", "placeholder"}
    /\ BreakOff(t)
    /\ UNCHANGED <<owner, message>>

\* onMeta, onCards or the last UPDATE fails: nobody marks the answer.
Abandon(t) ==
    /\ t \in away
    /\ chat[t].pc \in {"meta", "cards", "finish"}
    /\ BreakOff(t)
    /\ UNCHANGED <<owner, message>>

\* The statement fails, or its answer is lost.
DatabaseFails(t) ==
    /\ Faults
    /\ chat[t].pc \in {"question", "history", "placeholder", "finish", "failed"}
    /\ BreakOff(t)
    /\ UNCHANGED <<owner, message>>

Crash ==
    /\ Faults
    /\ chat' = [t \in Tabs |-> NoChat]
    /\ away' = {}
    /\ dropped' = dropped \cup OpenAnswers(Tabs)
    /\ LeaveRunning(UNION {Sent(t) : t \in Tabs})
    /\ UNCHANGED <<owner, message>>

\* The server comes to the end of an INSERT nobody waits for: of an answer no call knows.
LateInsert(s) ==
    /\ s.row = 0
    /\ running' = running \ {s}
    /\ \/ /\ AddMessage(s.conv, s.status)
          /\ dropped' = dropped \cup {i \in {Len(message')} : s.status = "streaming"}
       \/ s.conv \notin Existing /\ UNCHANGED <<message, dropped>>
    /\ UNCHANGED <<owner, chat, away>>

\* Or of an UPDATE.
LateUpdate(s) ==
    /\ s.row # 0
    /\ running' = running \ {s}
    /\ UpdateMessage(s.row, s.status)
    /\ dropped' = dropped \ {s.row}
    /\ UNCHANGED <<owner, chat, away>>

-------------------------------------------------------------------------------
Init ==
    /\ owner = [k \in 1..Conversations |-> Nobody]
    /\ message = <<>>
    /\ chat = [t \in Tabs |-> NoChat]
    /\ away = {}
    /\ running = {}
    /\ dropped = {}

Step(t) ==
    \/ AddQuestion(t) \/ ReadHistory(t) \/ AddAnswer(t) \/ Meta(t) \/ StreamEnds(t) \/ StreamFails(t)
    \/ Cards(t) \/ MarkFailed(t) \/ Finish(t) \/ NotFound(t) \/ Cancelled(t) \/ Abandon(t)

Next ==
    \/ \E u \in Users, k \in 1..Conversations :
         \/ CreateConversation(u, k) \/ DeleteConversation(u, k)
         \/ \E t \in Tabs : Ask(t, u, k) \/ AskNew(t, u, k)
    \/ \E t \in Tabs : Step(t) \/ Leave(t) \/ DatabaseFails(t)
    \/ \E s \in running : LateInsert(s) \/ LateUpdate(s)
    \/ Crash

Spec == Init /\ [][Next]_vars

\* A call goes on: the stream has a time limit.
FairSpec == Spec /\ \A t \in Tabs : WF_vars(Step(t))

-------------------------------------------------------------------------------
(* Properties *)

\* Rows, conversations and calls in progress.
TypeOK ==
    /\ owner \in [1..Conversations -> Users \cup {Nobody}]
    /\ message \in Seq([conv : 1..Conversations, status : {"streaming", "complete", "failed", "gone"}])
    /\ \A t \in Tabs : /\ chat[t].conv \in 0..Conversations
                       /\ chat[t].question \in 0..Len(message) /\ chat[t].answer \in 0..Len(message)
                       /\ chat[t].answer # 0 <=> chat[t].pc \in Answering
    /\ away \subseteq {t \in Tabs : ~At(t, "idle")}
    /\ running \subseteq [conv : 1..Conversations, row : {0} \cup DOMAIN message,
                          status : {"streaming", "complete", "failed"}]
    /\ \A i \in dropped : Streaming(i)

\* What the model is told was said in this conversation and ended well; the question
\* is part of it unless Limit other messages came after it.
ContextSound ==
    \A t \in Tabs :
        LET c == chat[t]
            later == {i \in DOMAIN message : i > c.question /\ message[i].conv = c.conv}
        IN c.pc \in Answering \cup {"placeholder"} =>
             /\ \A i \in c.context : message[i].conv = c.conv /\ message[i].status \in {"complete", "gone"}
             /\ Cardinality(c.context) <= Limit
             /\ c.question \in c.context \/ Cardinality(later) >= Limit

\* Whatever fails, an answer that still streams belongs to a call in progress or to one
\* that was broken off, before or after it heard of the row: Chat has no other way to
\* forget one.
Attended ==
    \A i \in DOMAIN message : message[i].status = "streaming" =>
        i \in dropped \/ \E t \in Tabs : chat[t].answer = i

\* A message that has ended is never written again; an answer ends by its own chat's
\* hand, or by the statement that chat was in when it broke off.
AnswerIsFinal ==
    [][\A i \in DOMAIN message : message'[i] # message[i] =>
          \/ message'[i].status = "gone" /\ owner'[message[i].conv] = Nobody
          \/ /\ message[i].status = "streaming"
             /\ \/ \E t \in Tabs : chat[t].answer = i /\ chat'[t].answer = 0
                \/ \E s \in running \ running' : s.row = i /\ s.status = message'[i].status]_vars

\* An answer does not stream for ever, unless its call was broken off: the client left
\* or something broke. The first row is a question.
AnswersEnd ==
    \A i \in 2..MaxMessages : Streaming(i) ~> ~Streaming(i) \/ i \in dropped
===============================================================================

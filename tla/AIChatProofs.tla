------------------------------ MODULE AIChatProofs ------------------------------
(***************************************************************************)
(* Theorems about AIChat, for any number of users, tabs, conversations and *)
(* messages, and with faults: an answer that has ended is never written    *)
(* again, one that still streams is somebody's, or was given up, and what  *)
(* the model is told belongs to the conversation and has the question.     *)
(***************************************************************************)
EXTENDS AIChat, FiniteSetTheorems, TLAPS

Pcs == {"idle", "question", "history", "placeholder"} \cup Answering

\* A call is a record with these fields and no others.
CallsWith(context) == [pc : Pcs, conv : 0..Conversations, question : 0..MaxMessages,
                       context : {context}, answer : 0..MaxMessages]

Shape == /\ chat = [t \in Tabs |-> chat[t]]
         /\ \A t \in Tabs : chat[t] \in CallsWith(chat[t].context)
         /\ \A t \in Tabs : chat[t].conv = 0 => chat[t].pc = "idle"
         /\ Len(message) <= MaxMessages

\* No two calls write one answer, and nobody but its call ends it.
OwnAnswers ==
    \A t \in Tabs : chat[t].answer # 0 =>
        /\ message[chat[t].answer].status \in {"streaming", "gone"}
        /\ chat[t].answer \notin dropped
        /\ \A u \in Tabs : chat[u].answer = chat[t].answer => u = t

\* No call and no other statement writes the row of an UPDATE left running.
LeftBehind ==
    \A s \in running :
        /\ s.row = 0 => s.status # "failed"
        /\ s.row # 0 =>
             /\ s.status # "streaming" /\ message[s.row].status \in {"streaming", "gone"}
             /\ \A t \in Tabs : chat[t].answer # s.row
             /\ \A r \in running : r.row = s.row => r = s

Inv == TypeOK /\ Shape /\ OwnAnswers /\ Attended /\ LeftBehind

Message == [conv : 1..Conversations, status : {"streaming", "complete", "failed", "gone"}]
WriteOf(rows) == [conv : 1..Conversations, row : {0} \cup rows,
                  status : {"streaming", "complete", "failed"}]

-------------------------------------------------------------------------------
\* The first state.
LEMMA InitInv == Init => Inv
  BY ChatAssumption DEF Init, Inv, TypeOK, Shape, CallsWith, Pcs, OwnAnswers, Attended, LeftBehind,
     NoChat, At, Answering, Nobody

\* A call that goes on, and its fields.
LEMMA Proceed ==
    ASSUME Inv, NEW t \in Tabs, NEW pc \in Pcs, chat' = [chat EXCEPT ![t].pc = pc]
    PROVE  /\ chat' = [u \in Tabs |-> chat'[u]]
           /\ \A u \in Tabs : chat'[u] \in CallsWith(chat'[u].context)
           /\ \A u \in Tabs \ {t} : chat'[u] = chat[u]
           /\ chat'[t].pc = pc /\ chat'[t].conv = chat[t].conv
           /\ chat'[t].question = chat[t].question /\ chat'[t].answer = chat[t].answer
<1> DEFINE c == [chat[t] EXCEPT !.pc = pc]
<1>1. chat' = [u \in Tabs |-> IF u = t THEN c ELSE chat[u]]
  BY DEF Inv, Shape
<1>2. /\ c \in CallsWith(chat[t].context) /\ c.pc = pc /\ c.conv = chat[t].conv
      /\ c.question = chat[t].question /\ c.answer = chat[t].answer
      /\ c.context = chat[t].context
  BY DEF Inv, Shape, CallsWith
<1> HIDE DEF c
<1> QED
  BY <1>1, <1>2 DEF Inv, Shape

\* What the types say of the rows.
LEMMA Rows ==
    ASSUME Inv
    PROVE  /\ message \in Seq(Message) /\ Len(message) \in Nat /\ DOMAIN message = 1..Len(message)
           /\ \A i \in DOMAIN message : message[i] \in Message
           /\ MaxMessages \in Nat /\ Conversations \in Nat
           /\ running \subseteq WriteOf(DOMAIN message)
           /\ \A i \in dropped : i \in DOMAIN message /\ message[i].status = "streaming"
<1>1. message \in Seq(Message) /\ running \subseteq WriteOf(DOMAIN message)
  BY DEF Inv, TypeOK, Message, WriteOf
<1>2. \A i \in dropped : i \in DOMAIN message /\ message[i].status = "streaming"
  BY DEF Inv, TypeOK, Streaming
<1> QED
  BY <1>1, <1>2, ChatAssumption

\* What is left running stays in order where no row it writes is touched but to go.
LEMMA LeftAlone ==
    ASSUME Inv, running' \subseteq running,
           message' \in Seq(Message), Len(message) <= Len(message'),
           \A s \in running' : s.row # 0 => message'[s.row].status \in {message[s.row].status, "gone"},
           \A t \in Tabs : chat'[t].answer \in {0, chat[t].answer} \/ chat'[t].answer > Len(message)
    PROVE  /\ LeftBehind'
           /\ running' \subseteq WriteOf(DOMAIN message')
           /\ DOMAIN message \subseteq DOMAIN message'
<1>1. DOMAIN message' = 1..Len(message') /\ Len(message') \in Nat
  OBVIOUS
<1>2. DOMAIN message \subseteq DOMAIN message'
  BY <1>1, Rows
<1>3. running' \subseteq WriteOf(DOMAIN message')
  BY <1>2, Rows DEF WriteOf
<1>4. ASSUME NEW s \in running', s.row # 0, NEW t \in Tabs PROVE chat'[t].answer # s.row
  <2>1. s.row \in 1..Len(message) /\ chat[t].answer # s.row
    BY <1>4, Rows DEF Inv, LeftBehind, WriteOf
  <2> QED BY <1>4, <2>1, Rows
<1>5. LeftBehind'
  BY <1>4 DEF Inv, LeftBehind
<1> QED
  BY <1>2, <1>3, <1>5

\* A call that only moves on between the statements around an answer.
LEMMA MovesOn ==
    ASSUME Inv, NEW t \in Tabs, NEW pc \in Answering, GoTo(t, pc), chat[t].pc \in Answering,
           UNCHANGED <<owner, message>>
    PROVE  Inv'
<1>1. /\ chat' = [u \in Tabs |-> chat'[u]]
      /\ \A u \in Tabs : chat'[u] \in CallsWith(chat'[u].context)
      /\ \A u \in Tabs \ {t} : chat'[u] = chat[u]
      /\ chat'[t].pc = pc /\ chat'[t].conv = chat[t].conv
      /\ chat'[t].question = chat[t].question /\ chat'[t].answer = chat[t].answer
  BY Proceed DEF GoTo, Pcs
<1>2. \A u \in Tabs : chat'[u].answer = chat[u].answer
  BY <1>1
<1>3. TypeOK'
  BY <1>1 DEF Inv, TypeOK, GoTo, At, Answering, Streaming
<1>4. Shape'
  BY <1>1 DEF Inv, Shape, Answering
<1>5. OwnAnswers'
  BY <1>2 DEF Inv, OwnAnswers, GoTo
<1>6. Attended'
  BY <1>2 DEF Inv, Attended, GoTo
<1>7. LeftBehind'
  BY <1>2 DEF Inv, LeftBehind, GoTo
<1> QED
  BY <1>3, <1>4, <1>5, <1>6, <1>7 DEF Inv

\* A call that ends, and has ended its answer or given it up.
LEMMA Ends ==
    ASSUME Inv, NEW t \in Tabs, End(t), UNCHANGED owner,
           message' \in Seq(Message), Len(message') = Len(message),
           \A i \in DOMAIN message : i # chat[t].answer => message'[i] = message[i],
           chat[t].answer # 0 => \/ message'[chat[t].answer].status # "streaming"
                                \/ chat[t].answer \in dropped',
           dropped \subseteq dropped', dropped' \subseteq dropped \cup {chat[t].answer},
           \A i \in dropped' : Streaming(i)',
           running' \subseteq WriteOf(DOMAIN message'), LeftBehind'
    PROVE  Inv'
<1>1. chat' = [u \in Tabs |-> IF u = t THEN NoChat ELSE chat[u]]
  BY DEF End, Inv, Shape
<1>2. NoChat \in CallsWith(NoChat.context) /\ NoChat.answer = 0 /\ NoChat.pc = "idle"
      /\ NoChat.conv = 0 /\ NoChat.question = 0
  BY Rows DEF NoChat, CallsWith, Pcs
<1>3. /\ chat'[t] = NoChat
      /\ \A u \in Tabs \ {t} : chat'[u] = chat[u]
  BY <1>1
<1>4. TypeOK'
  <2>1. away' \subseteq {u \in Tabs : ~At(u, "idle")}'
    BY <1>3 DEF End, Inv, TypeOK, At
  <2>2. DOMAIN message' = DOMAIN message
    BY Rows
  <2>3. \A u \in Tabs : /\ chat'[u].conv \in 0..Conversations
                        /\ chat'[u].question \in 0..Len(message')
                        /\ chat'[u].answer \in 0..Len(message')
                        /\ chat'[u].answer # 0 <=> chat'[u].pc \in Answering
    BY <1>2, <1>3, Rows DEF Inv, TypeOK, Answering
  <2> QED
    BY <2>1, <2>2, <2>3 DEF Inv, TypeOK, Message, Answering, WriteOf
<1>5. Shape'
  BY <1>1, <1>2 DEF Inv, Shape
<1>6. OwnAnswers'
  <2> SUFFICES ASSUME NEW u \in Tabs, chat'[u].answer # 0
               PROVE  /\ message'[chat'[u].answer].status \in {"streaming", "gone"}
                      /\ chat'[u].answer \notin dropped'
                      /\ \A v \in Tabs : chat'[v].answer = chat'[u].answer => v = u
    BY DEF OwnAnswers
  <2>1. u # t /\ chat'[u] = chat[u]
    BY <1>2, <1>3
  <2>2. chat[u].answer \in DOMAIN message
    BY <2>1, Rows DEF Inv, TypeOK
  <2>3. chat[t].answer # chat[u].answer
    BY <2>1 DEF Inv, OwnAnswers
  <2> QED
    BY <1>2, <1>3, <2>1, <2>2, <2>3 DEF Inv, OwnAnswers
<1>7. Attended'
  <2> SUFFICES ASSUME NEW i \in DOMAIN message', message'[i].status = "streaming"
               PROVE  i \in dropped' \/ \E u \in Tabs : chat'[u].answer = i
    BY DEF Attended
  <2>1. i \in DOMAIN message /\ i # 0
    BY Rows
  <2>2. CASE i = chat[t].answer
    BY <2>1, <2>2
  <2>3. CASE i # chat[t].answer
    BY <2>1, <2>3, <1>3 DEF Inv, Attended
  <2> QED
    BY <2>2, <2>3
<1> QED
  BY <1>4, <1>5, <1>6, <1>7 DEF Inv

\* The statements calls were in when they broke off, beside those already left.
LEMMA Leaves ==
    ASSUME Inv, NEW T \in SUBSET Tabs, LeaveRunning(UNION {Sent(t) : t \in T}),
           UNCHANGED message, \A t \in T : chat'[t].answer = 0,
           \A t \in Tabs \ T : chat'[t].answer = chat[t].answer
    PROVE  running' \subseteq WriteOf(DOMAIN message') /\ LeftBehind'
<1>1. PICK left \in SUBSET UNION {Sent(t) : t \in T} : running' = running \cup left
  BY DEF LeaveRunning
<1>2. ASSUME NEW s \in left
      PROVE  \E t \in T : /\ s = [conv |-> chat[t].conv, row |-> chat[t].answer, status |-> Writes[chat[t].pc]]
                          /\ chat[t].pc \in {"question", "placeholder", "finish", "failed"}
  BY DEF Sent, Writes
<1>3. ASSUME NEW s \in left
      PROVE  /\ s \in WriteOf(DOMAIN message)
             /\ s.row = 0 => s.status # "failed"
             /\ s.row # 0 => /\ s.status # "streaming"
                             /\ message[s.row].status \in {"streaming", "gone"}
                             /\ \A t \in Tabs : chat'[t].answer # s.row
                             /\ \A r \in running : r.row # s.row
                             /\ \A r \in left : r.row = s.row => r = s
  <2>1. PICK t \in T : /\ s = [conv |-> chat[t].conv, row |-> chat[t].answer, status |-> Writes[chat[t].pc]]
                       /\ chat[t].pc \in {"question", "placeholder", "finish", "failed"}
    BY <1>2
  <2>2. /\ chat[t].answer \in {0} \cup DOMAIN message
        /\ chat[t].answer # 0 <=> chat[t].pc \in {"finish", "failed"}
    BY <2>1, Rows DEF Inv, TypeOK, Answering
  <2>3. chat[t].conv \in 1..Conversations
    BY <2>1 DEF Inv, Shape, TypeOK
  <2>4. s \in WriteOf(DOMAIN message) /\ s.row = chat[t].answer /\ s.status = Writes[chat[t].pc]
    BY <2>1, <2>2, <2>3 DEF WriteOf, Writes
  <2>5. s.row = 0 => s.status # "failed"
    BY <2>1, <2>2, <2>4 DEF Writes
  <2>6. ASSUME s.row # 0
        PROVE  /\ s.status # "streaming"
               /\ message[s.row].status \in {"streaming", "gone"}
               /\ \A u \in Tabs : chat'[u].answer # s.row
               /\ \A r \in running : r.row # s.row
               /\ \A r \in left : r.row = s.row => r = s
    <3>1. s.status # "streaming" /\ message[s.row].status \in {"streaming", "gone"}
      BY <2>1, <2>2, <2>4, <2>6 DEF Writes, Inv, OwnAnswers
    <3>2. \A u \in Tabs : chat'[u].answer # s.row
      BY <2>4, <2>6 DEF Inv, OwnAnswers
    <3>3. \A r \in running : r.row # s.row
      BY <2>4, <2>6 DEF Inv, LeftBehind
    <3>4. ASSUME NEW r \in left, r.row = s.row PROVE r = s
      <4>1. PICK u \in T : r = [conv |-> chat[u].conv, row |-> chat[u].answer, status |-> Writes[chat[u].pc]]
        BY <1>2
      <4>2. u = t
        BY <2>4, <2>6, <3>4, <4>1 DEF Inv, OwnAnswers
      <4> QED BY <2>1, <4>1, <4>2
    <3> QED BY <3>1, <3>2, <3>3, <3>4
  <2> QED BY <2>4, <2>5, <2>6
<1>4. running' \subseteq WriteOf(DOMAIN message')
  BY <1>1, <1>3, Rows
<1>5. LeftBehind'
  <2> SUFFICES ASSUME NEW s \in running'
               PROVE  /\ s.row = 0 => s.status # "failed"
                      /\ s.row # 0 => /\ s.status # "streaming"
                                      /\ message'[s.row].status \in {"streaming", "gone"}
                                      /\ \A t \in Tabs : chat'[t].answer # s.row
                                      /\ \A r \in running' : r.row = s.row => r = s
    BY DEF LeftBehind
  <2>1. CASE s \in running
    BY <1>1, <1>3, <2>1 DEF Inv, LeftBehind
  <2>2. CASE s \in left
    BY <1>1, <1>3, <2>2
  <2> QED BY <1>1, <2>1, <2>2
<1> QED
  BY <1>4, <1>5

\* A call that breaks off.
LEMMA BreaksOff ==
    ASSUME Inv, NEW t \in Tabs, BreakOff(t), UNCHANGED <<owner, message>>
    PROVE  Inv'
<1>1. /\ message \in Seq(Message) /\ DOMAIN message = 1..Len(message)
      /\ chat[t].answer \in 0..Len(message)
  BY Rows DEF Inv, TypeOK
<1>2. /\ End(t) /\ dropped' = dropped \cup OpenAnswers({t})
      /\ LeaveRunning(UNION {Sent(u) : u \in {t}})
  <2>1. UNION {Sent(u) : u \in {t}} = Sent(t)
    OBVIOUS
  <2> QED BY <2>1 DEF BreakOff
<1>3. /\ \A u \in {t} : chat'[u].answer = 0
      /\ \A u \in Tabs \ {t} : chat'[u].answer = chat[u].answer
  BY <1>2 DEF End, NoChat, Inv, Shape
<1>4. running' \subseteq WriteOf(DOMAIN message') /\ LeftBehind'
  BY <1>2, <1>3, Leaves
<1>5. OpenAnswers({t}) = {i \in {chat[t].answer} : Streaming(i)}
  BY DEF OpenAnswers
<1>6. \A i \in dropped' : Streaming(i)'
  BY <1>2, <1>5, Rows DEF Streaming
<1>7. chat[t].answer # 0 => \/ message'[chat[t].answer].status # "streaming"
                            \/ chat[t].answer \in dropped'
  <2> SUFFICES ASSUME chat[t].answer # 0, message[chat[t].answer].status = "streaming"
               PROVE  chat[t].answer \in dropped'
    OBVIOUS
  <2>1. Streaming(chat[t].answer)
    BY <1>1 DEF Streaming
  <2> QED BY <1>2, <1>5, <2>1
<1>8. /\ message' \in Seq(Message) /\ Len(message') = Len(message)
      /\ \A i \in DOMAIN message : message'[i] = message[i]
      /\ dropped \subseteq dropped' /\ dropped' \subseteq dropped \cup {chat[t].answer}
  BY <1>1, <1>2, <1>5
<1> QED
  BY <1>2, <1>4, <1>6, <1>7, <1>8, Ends

\* The six ways a call ends.
LEMMA EndSteps ==
    ASSUME Inv, NEW t \in Tabs,
           \/ NotFound(t) \/ Cancelled(t) \/ Abandon(t) \/ DatabaseFails(t)
           \/ MarkFailed(t) \/ Finish(t)
    PROVE  Inv'
<1>1. /\ message \in Seq(Message) /\ DOMAIN message = 1..Len(message)
      /\ chat[t].answer \in 0..Len(message)
      /\ chat[t].answer # 0 <=> chat[t].pc \in Answering
  BY Rows DEF Inv, TypeOK
<1>2. CASE Cancelled(t) \/ Abandon(t) \/ DatabaseFails(t)
  BY <1>2, BreaksOff DEF Cancelled, Abandon, DatabaseFails
<1>3. ASSUME Return(t)
      PROVE  /\ End(t) /\ UNCHANGED <<running, dropped>>
             /\ \A u \in Tabs : chat'[u].answer \in {0, chat[u].answer}
  BY <1>3 DEF Return, End, NoChat, Inv, Shape
<1>4. CASE NotFound(t)
  <2>1. Return(t) /\ UNCHANGED <<owner, message>> /\ chat[t].answer = 0
    BY <1>1, <1>4 DEF NotFound, Answering
  <2>2. running' \subseteq WriteOf(DOMAIN message') /\ LeftBehind'
    BY <1>1, <1>3, <2>1, LeftAlone
  <2>3. \A i \in dropped' : Streaming(i)'
    BY <1>3, <2>1, Rows DEF Streaming
  <2> QED BY <1>1, <1>3, <2>1, <2>2, <2>3, Ends
<1>5. CASE MarkFailed(t) \/ Finish(t)
  <2>1. PICK status \in {"failed", "complete"} : UpdateMessage(chat[t].answer, status)
    BY <1>5 DEF MarkFailed, Finish
  <2>2. chat[t].answer \in DOMAIN message /\ Return(t) /\ UNCHANGED owner
    BY <1>1, <1>5 DEF MarkFailed, Finish, Answering, At
  <2>3. /\ message' \in Seq(Message) /\ Len(message') = Len(message)
        /\ \A i \in DOMAIN message : i # chat[t].answer => message'[i] = message[i]
        /\ message'[chat[t].answer].status # "streaming"
    <3>1. CASE message[chat[t].answer].status = "gone"
      BY <1>1, <2>1, <3>1 DEF UpdateMessage
    <3>2. CASE message[chat[t].answer].status # "gone"
      <4> DEFINE row == [message[chat[t].answer] EXCEPT !.status = status]
      <4>1. row \in Message /\ row.status = status
        BY <2>1, <2>2, Rows DEF Message
      <4>2. message' = [message EXCEPT ![chat[t].answer] = row]
        BY <2>1, <3>2 DEF UpdateMessage
      <4> HIDE DEF row
      <4> QED
        BY <1>1, <2>2, <4>1, <4>2
    <3> QED
      BY <3>1, <3>2
  <2>4. \A s \in running' : s.row # 0 => message'[s.row] = message[s.row]
    <3> SUFFICES ASSUME NEW s \in running', s.row # 0 PROVE message'[s.row] = message[s.row]
      OBVIOUS
    <3>1. s \in running /\ s.row \in DOMAIN message /\ s.row # chat[t].answer
      BY <1>3, <2>2, Rows DEF Inv, LeftBehind, WriteOf
    <3> QED BY <2>3, <3>1
  <2>5. running' \subseteq WriteOf(DOMAIN message') /\ LeftBehind'
    BY <1>1, <1>3, <2>2, <2>3, <2>4, LeftAlone
  <2>6. chat[t].answer \notin dropped
    BY <1>1, <2>2 DEF Inv, OwnAnswers
  <2>7. \A i \in dropped' : Streaming(i)'
    BY <1>1, <1>3, <2>2, <2>3, <2>6, Rows DEF Streaming
  <2> QED BY <1>1, <1>3, <2>2, <2>3, <2>5, <2>7, Ends
<1> QED
  BY <1>2, <1>4, <1>5

\* A question or an answer is a new row, whoever waits for it.
LEMMA Appends ==
    ASSUME Inv, NEW k \in Int, NEW status \in {"complete", "streaming"}, AddMessage(k, status)
    PROVE  /\ message' \in Seq(Message) /\ Len(message') = Len(message) + 1
           /\ Len(message') <= MaxMessages /\ DOMAIN message' = 1..Len(message) + 1
           /\ \A i \in DOMAIN message : message'[i] = message[i]
           /\ message'[Len(message')].status = status
           /\ \A i \in dropped : Streaming(i)'
<1> DEFINE row == [conv |-> k, status |-> status]
<1>1. row \in Message /\ row.status = status
  BY DEF AddMessage, Existing, Message
<1>2. message' = Append(message, row) /\ Len(message) < MaxMessages
  BY DEF AddMessage
<1> HIDE DEF row
<1>3. /\ message' \in Seq(Message) /\ Len(message') = Len(message) + 1
      /\ Len(message') <= MaxMessages /\ DOMAIN message' = 1..Len(message) + 1
      /\ \A i \in DOMAIN message : message'[i] = message[i]
      /\ message'[Len(message')].status = status
  BY <1>1, <1>2, Rows
<1>4. \A i \in dropped : Streaming(i)'
  BY <1>3, Rows DEF Streaming
<1> QED
  BY <1>3, <1>4

\* The question is a new row, and no answer.
LEMMA AddQuestionInv == ASSUME Inv, NEW t \in Tabs, AddQuestion(t) PROVE Inv'
<1>1. /\ message' \in Seq(Message) /\ Len(message') = Len(message) + 1
      /\ Len(message') <= MaxMessages /\ DOMAIN message' = 1..Len(message) + 1
      /\ \A i \in DOMAIN message : message'[i] = message[i]
      /\ message'[Len(message')].status = "complete"
      /\ \A i \in dropped' : Streaming(i)'
      /\ UNCHANGED <<owner, away, running, dropped>>
  <2>1. chat[t].conv \in Int
    BY DEF Inv, TypeOK
  <2> QED BY <2>1, Appends DEF AddQuestion
<1>2. chat[t].answer = 0 /\ chat[t].pc = "question" /\ t \notin away
  BY DEF AddQuestion, Inv, TypeOK, At, Answering
<1> DEFINE c == [chat[t] EXCEPT !.pc = "history", !.question = Len(message')]
<1>3. /\ c \in CallsWith(c.context) /\ c.pc = "history" /\ c.answer = 0
      /\ c.conv = chat[t].conv /\ c.question = Len(message')
  <2>1. chat[t] \in CallsWith(chat[t].context) /\ Len(message') \in 0..MaxMessages
    BY <1>1, Rows DEF Inv, Shape
  <2> QED BY <1>2, <2>1 DEF CallsWith, Pcs
<1>4. chat' = [u \in Tabs |-> IF u = t THEN c ELSE chat[u]]
  BY DEF AddQuestion, Inv, Shape
<1> HIDE DEF c
<1>5. chat'[t] = c /\ \A u \in Tabs \ {t} : chat'[u] = chat[u]
  BY <1>4
<1>0. LeftBehind' /\ running' \subseteq WriteOf(DOMAIN message')
  <2>1. \A s \in running' : s.row # 0 => message'[s.row] = message[s.row]
    BY <1>1, Rows DEF WriteOf
  <2>2. \A u \in Tabs : chat'[u].answer \in {0, chat[u].answer} \/ chat'[u].answer > Len(message)
    BY <1>1, <1>3, <1>5, Rows
  <2> QED BY <1>1, <2>1, <2>2, Rows, LeftAlone
<1>6. TypeOK'
  <2>1. away' \subseteq {u \in Tabs : ~At(u, "idle")}'
    BY <1>1, <1>2, <1>5 DEF Inv, TypeOK, At
  <2>2. \A u \in Tabs : /\ chat[u].conv \in 0..Conversations
                        /\ chat[u].question \in 0..Len(message)
                        /\ chat[u].answer \in 0..Len(message)
                        /\ chat[u].answer # 0 <=> chat[u].pc \in Answering
    BY DEF Inv, TypeOK
  <2>3. \A u \in Tabs : /\ chat'[u].conv \in 0..Conversations
                        /\ chat'[u].question \in 0..Len(message')
                        /\ chat'[u].answer \in 0..Len(message')
                        /\ chat'[u].answer # 0 <=> chat'[u].pc \in Answering
    BY <1>1, <1>2, <1>3, <1>5, <2>2, Rows DEF Answering
  <2>4. owner' \in [1..Conversations -> Users \cup {Nobody}]
    BY <1>1 DEF Inv, TypeOK
  <2> QED
    BY <1>1, <1>0, <2>1, <2>3, <2>4 DEF TypeOK, Message, Answering, WriteOf
<1>7. Shape'
  BY <1>1, <1>2, <1>3, <1>4 DEF Inv, Shape
<1>8. OwnAnswers'
  <2> SUFFICES ASSUME NEW u \in Tabs, chat'[u].answer # 0
               PROVE  /\ message'[chat'[u].answer].status \in {"streaming", "gone"}
                      /\ chat'[u].answer \notin dropped'
                      /\ \A v \in Tabs : chat'[v].answer = chat'[u].answer => v = u
    BY DEF OwnAnswers
  <2>1. \A v \in Tabs : chat[v].answer \in 0..Len(message)
    BY DEF Inv, TypeOK
  <2> QED
    BY <1>1, <1>2, <1>3, <1>5, <2>1, Rows DEF Inv, OwnAnswers
<1>9. Attended'
  <2> SUFFICES ASSUME NEW i \in DOMAIN message', message'[i].status = "streaming"
               PROVE  i \in dropped' \/ \E u \in Tabs : chat'[u].answer = i
    BY DEF Attended
  <2>1. i \in DOMAIN message \/ i = Len(message')
    BY <1>1, Rows
  <2> QED
    BY <1>1, <1>2, <1>3, <1>5, <2>1, Rows DEF Inv, Attended
<1> QED
  BY <1>0, <1>6, <1>7, <1>8, <1>9 DEF Inv

\* The answer is a new row: nobody else has it.
LEMMA AddAnswerInv == ASSUME Inv, NEW t \in Tabs, AddAnswer(t) PROVE Inv'
<1>1. /\ message' \in Seq(Message) /\ Len(message') = Len(message) + 1
      /\ Len(message') <= MaxMessages /\ DOMAIN message' = 1..Len(message) + 1
      /\ \A i \in DOMAIN message : message'[i] = message[i]
      /\ message'[Len(message')].status = "streaming"
      /\ \A i \in dropped' : Streaming(i)'
      /\ UNCHANGED <<owner, away, running, dropped>>
  <2>1. chat[t].conv \in Int
    BY DEF Inv, TypeOK
  <2> QED BY <2>1, Appends DEF AddAnswer
<1>2. chat[t].answer = 0 /\ chat[t].pc = "placeholder" /\ t \notin away
  BY DEF AddAnswer, Inv, TypeOK, At, Answering
<1> DEFINE c == [chat[t] EXCEPT !.pc = "meta", !.answer = Len(message')]
<1>3. /\ c \in CallsWith(c.context) /\ c.pc = "meta" /\ c.question = chat[t].question
      /\ c.conv = chat[t].conv /\ c.answer = Len(message')
  <2>1. chat[t] \in CallsWith(chat[t].context) /\ Len(message') \in 0..MaxMessages
    BY <1>1, Rows DEF Inv, Shape
  <2> QED BY <1>2, <2>1 DEF CallsWith, Pcs, Answering
<1>4. chat' = [u \in Tabs |-> IF u = t THEN c ELSE chat[u]]
  BY DEF AddAnswer, Inv, Shape
<1> HIDE DEF c
<1>5. chat'[t] = c /\ \A u \in Tabs \ {t} : chat'[u] = chat[u]
  BY <1>4
<1>0. LeftBehind' /\ running' \subseteq WriteOf(DOMAIN message')
  <2>1. \A s \in running' : s.row # 0 => message'[s.row] = message[s.row]
    BY <1>1, Rows DEF WriteOf
  <2>2. \A u \in Tabs : chat'[u].answer \in {0, chat[u].answer} \/ chat'[u].answer > Len(message)
    BY <1>1, <1>3, <1>5, Rows
  <2> QED BY <1>1, <2>1, <2>2, Rows, LeftAlone
<1>6. TypeOK'
  <2>1. away' \subseteq {u \in Tabs : ~At(u, "idle")}'
    BY <1>1, <1>2, <1>5 DEF Inv, TypeOK, At
  <2>2. \A u \in Tabs : /\ chat[u].conv \in 0..Conversations
                        /\ chat[u].question \in 0..Len(message)
                        /\ chat[u].answer \in 0..Len(message)
                        /\ chat[u].answer # 0 <=> chat[u].pc \in Answering
    BY DEF Inv, TypeOK
  <2>3. \A u \in Tabs : /\ chat'[u].conv \in 0..Conversations
                        /\ chat'[u].question \in 0..Len(message')
                        /\ chat'[u].answer \in 0..Len(message')
                        /\ chat'[u].answer # 0 <=> chat'[u].pc \in Answering
    BY <1>1, <1>2, <1>3, <1>5, <2>2, Rows DEF Answering
  <2>4. owner' \in [1..Conversations -> Users \cup {Nobody}]
    BY <1>1 DEF Inv, TypeOK
  <2> QED
    BY <1>1, <1>0, <2>1, <2>3, <2>4 DEF TypeOK, Message, Answering, WriteOf
<1>7. Shape'
  BY <1>1, <1>2, <1>3, <1>4 DEF Inv, Shape
<1>8. OwnAnswers'
  <2> SUFFICES ASSUME NEW u \in Tabs, chat'[u].answer # 0
               PROVE  /\ message'[chat'[u].answer].status \in {"streaming", "gone"}
                      /\ chat'[u].answer \notin dropped'
                      /\ \A v \in Tabs : chat'[v].answer = chat'[u].answer => v = u
    BY DEF OwnAnswers
  <2>1. \A v \in Tabs : chat[v].answer \in 0..Len(message)
    BY DEF Inv, TypeOK
  <2> QED
    BY <1>1, <1>2, <1>3, <1>5, <2>1, Rows DEF Inv, OwnAnswers
<1>9. Attended'
  <2> SUFFICES ASSUME NEW i \in DOMAIN message', message'[i].status = "streaming"
               PROVE  i \in dropped' \/ \E u \in Tabs : chat'[u].answer = i
    BY DEF Attended
  <2>1. i \in DOMAIN message \/ i = Len(message')
    BY <1>1, Rows
  <2> QED
    BY <1>1, <1>2, <1>3, <1>5, <2>1, Rows DEF Inv, Attended
<1> QED
  BY <1>0, <1>6, <1>7, <1>8, <1>9 DEF Inv

\* What is read is kept in the call alone.
LEMMA ReadHistoryInv == ASSUME Inv, NEW t \in Tabs, ReadHistory(t) PROVE Inv'
<1> DEFINE c == [chat[t] EXCEPT !.pc = "placeholder", !.context = ListMessages(chat[t].conv)]
<1>1. chat[t].pc = "history" /\ t \notin away /\ UNCHANGED <<owner, message, away, running, dropped>>
  BY DEF ReadHistory, At
<1>2. /\ c \in CallsWith(c.context) /\ c.pc = "placeholder" /\ c.question = chat[t].question
      /\ c.conv = chat[t].conv /\ c.answer = chat[t].answer
  <2>1. chat[t] \in CallsWith(chat[t].context)
    BY DEF Inv, Shape
  <2> QED BY <2>1 DEF CallsWith, Pcs
<1>3. chat' = [u \in Tabs |-> IF u = t THEN c ELSE chat[u]]
  BY DEF ReadHistory, Inv, Shape
<1> HIDE DEF c
<1>4. /\ chat'[t] = c /\ \A u \in Tabs \ {t} : chat'[u] = chat[u]
      /\ \A u \in Tabs : chat'[u].answer = chat[u].answer
  BY <1>2, <1>3
<1>5. TypeOK'
  BY <1>1, <1>2, <1>4 DEF Inv, TypeOK, At, Answering, Streaming
<1>6. Shape'
  BY <1>1, <1>2, <1>3 DEF Inv, Shape
<1>7. OwnAnswers'
  BY <1>1, <1>4 DEF Inv, OwnAnswers
<1>8. Attended'
  BY <1>1, <1>4 DEF Inv, Attended
<1>9. LeftBehind'
  BY <1>1, <1>4 DEF Inv, LeftBehind
<1> QED
  BY <1>5, <1>6, <1>7, <1>8, <1>9 DEF Inv

\* A new call has no answer yet.
LEMMA StartInv ==
    ASSUME Inv, NEW t \in Tabs, NEW k \in 1..Conversations, At(t, "idle"), Start(t, k),
           owner' \in [1..Conversations -> Users \cup {Nobody}]
    PROVE  Inv'
<1> DEFINE c == [pc |-> "question", conv |-> k, question |-> 0, context |-> {}, answer |-> 0]
<1>1. /\ c \in CallsWith(c.context) /\ c.pc = "question" /\ c.conv = k /\ c.question = 0
      /\ c.answer = 0
  BY Rows DEF CallsWith, Pcs
<1>2. /\ chat' = [u \in Tabs |-> IF u = t THEN c ELSE chat[u]]
      /\ UNCHANGED <<message, away, running, dropped>>
  BY DEF Start, Inv, Shape
<1> HIDE DEF c
<1>3. /\ chat'[t] = c /\ \A u \in Tabs \ {t} : chat'[u] = chat[u]
      /\ chat[t].answer = 0
  BY <1>2 DEF At, Answering, Inv, TypeOK
<1>4. TypeOK'
  BY <1>1, <1>2, <1>3 DEF Inv, TypeOK, At, Answering, Streaming
<1>5. Shape'
  BY <1>1, <1>2 DEF Inv, Shape
<1>6. OwnAnswers'
  BY <1>1, <1>2, <1>3 DEF Inv, OwnAnswers
<1>7. Attended'
  <2> SUFFICES ASSUME NEW i \in DOMAIN message, message[i].status = "streaming", i \notin dropped
               PROVE  \E u \in Tabs : chat'[u].answer = i
    BY <1>2 DEF Attended
  <2>1. PICK u \in Tabs : chat[u].answer = i
    BY DEF Inv, Attended
  <2>2. u # t
    BY <1>3, <2>1, Rows
  <2> QED
    BY <1>3, <2>1, <2>2
<1>8. LeftBehind'
  BY <1>1, <1>2, <1>3 DEF Inv, LeftBehind
<1> QED
  BY <1>4, <1>5, <1>6, <1>7, <1>8 DEF Inv

\* The messages of a deleted conversation are gone, those of a call in progress too.
LEMMA DeleteInv ==
    ASSUME Inv, NEW u \in Users, NEW k \in 1..Conversations, DeleteConversation(u, k)
    PROVE  Inv'
<1>1. /\ owner' \in [1..Conversations -> Users \cup {Nobody}]
      /\ UNCHANGED <<chat, away, running>> /\ dropped' = {i \in dropped : message[i].conv # k}
  BY DEF DeleteConversation, Inv, TypeOK
<1> DEFINE gone(i) == [message[i] EXCEPT !.status = "gone"]
<1>2. \A i \in DOMAIN message : gone(i) \in Message /\ gone(i).status = "gone"
  BY Rows DEF Message
<1>3. message' = [i \in DOMAIN message |-> IF message[i].conv = k THEN gone(i) ELSE message[i]]
  BY DEF DeleteConversation
<1> HIDE DEF gone
<1>4. /\ message' \in Seq(Message) /\ Len(message') = Len(message)
      /\ DOMAIN message' = DOMAIN message
      /\ \A i \in DOMAIN message : message'[i].status \in {message[i].status, "gone"}
  BY <1>2, <1>3, Rows
<1>9. LeftBehind' /\ running' \subseteq WriteOf(DOMAIN message')
  <2>1. \A s \in running' : s.row # 0 => message'[s.row].status \in {message[s.row].status, "gone"}
    BY <1>1, <1>4, Rows DEF WriteOf
  <2> QED BY <1>1, <1>4, <2>1, Rows, LeftAlone
<1>5. TypeOK'
  <2>1. \A i \in dropped' : Streaming(i)'
    BY <1>1, <1>3, <1>4, Rows DEF Streaming
  <2> QED BY <1>1, <1>4, <1>9, <2>1 DEF Inv, TypeOK, Message, At, WriteOf
<1>6. Shape'
  BY <1>1, <1>4 DEF Inv, Shape
<1>7. OwnAnswers'
  BY <1>1, <1>4, Rows DEF Inv, TypeOK, OwnAnswers
<1>8. Attended'
  BY <1>1, <1>2, <1>3, <1>4 DEF Inv, Attended
<1> QED
  BY <1>5, <1>6, <1>7, <1>8, <1>9 DEF Inv

\* A crash ends every call and gives up every answer.
LEMMA CrashInv == ASSUME Inv, Crash PROVE Inv'
<1>1. /\ UNCHANGED <<owner, message>> /\ away' = {}
      /\ chat' = [t \in Tabs |-> NoChat]
      /\ dropped' = dropped \cup OpenAnswers(Tabs)
      /\ LeaveRunning(UNION {Sent(t) : t \in Tabs})
  BY DEF Crash
<1>2. NoChat \in CallsWith(NoChat.context) /\ NoChat.answer = 0 /\ NoChat.pc = "idle"
      /\ NoChat.conv = 0 /\ NoChat.question = 0
  BY Rows DEF NoChat, CallsWith, Pcs
<1>3. \A t \in Tabs : chat'[t] = NoChat
  BY <1>1
<1>4. running' \subseteq WriteOf(DOMAIN message') /\ LeftBehind'
  BY <1>1, <1>2, <1>3, Leaves
<1>5. TypeOK'
  <2>1. \A t \in Tabs : /\ chat'[t].conv \in 0..Conversations
                        /\ chat'[t].question \in 0..Len(message')
                        /\ chat'[t].answer \in 0..Len(message')
                        /\ chat'[t].answer # 0 <=> chat'[t].pc \in Answering
    BY <1>1, <1>2, <1>3, Rows DEF Answering
  <2>2. \A i \in dropped' : Streaming(i)'
    BY <1>1, Rows DEF OpenAnswers, Streaming
  <2> QED
    BY <1>1, <1>4, <2>1, <2>2 DEF Inv, TypeOK, Answering, WriteOf
<1>6. Shape' /\ OwnAnswers'
  BY <1>1, <1>2 DEF Inv, Shape, OwnAnswers
<1>7. Attended'
  <2> SUFFICES ASSUME NEW i \in DOMAIN message, message[i].status = "streaming", i \notin dropped
               PROVE  i \in dropped'
    BY <1>1 DEF Attended
  <2>1. PICK t \in Tabs : chat[t].answer = i
    BY DEF Inv, Attended
  <2> QED
    BY <1>1, <2>1 DEF OpenAnswers, Streaming
<1> QED
  BY <1>4, <1>5, <1>6, <1>7 DEF Inv

\* The row of an INSERT nobody waited for is nobody's: it is counted as dropped.
LEMMA LateInsertInv == ASSUME Inv, NEW s \in running, LateInsert(s) PROVE Inv'
<1>1. s \in WriteOf(DOMAIN message) /\ s.status \in {"complete", "streaming"}
  BY Rows DEF LateInsert, Inv, LeftBehind, WriteOf
<1>2. running' \subseteq running /\ UNCHANGED <<owner, chat, away>>
  BY DEF LateInsert
<1>3. CASE UNCHANGED <<message, dropped>>
  BY <1>2, <1>3 DEF Inv, TypeOK, Shape, OwnAnswers, Attended, LeftBehind, At, Streaming
<1>4. CASE /\ AddMessage(s.conv, s.status)
           /\ dropped' = dropped \cup {i \in {Len(message')} : s.status = "streaming"}
  <2>1. /\ message' \in Seq(Message) /\ Len(message') = Len(message) + 1
        /\ Len(message') <= MaxMessages /\ DOMAIN message' = 1..Len(message) + 1
        /\ \A i \in DOMAIN message : message'[i] = message[i]
        /\ message'[Len(message')].status = s.status
        /\ \A i \in dropped : Streaming(i)'
    <3>1. s.conv \in Int
      BY <1>1 DEF WriteOf
    <3> QED BY <1>1, <1>4, <3>1, Appends
  <2>2. LeftBehind' /\ running' \subseteq WriteOf(DOMAIN message')
    <3>1. \A r \in running' : r.row # 0 => message'[r.row] = message[r.row]
      BY <1>2, <2>1, Rows DEF WriteOf
    <3> QED BY <1>2, <2>1, <3>1, Rows, LeftAlone
  <2>3. \A t \in Tabs : chat[t].answer \in 0..Len(message) /\ chat[t].question \in 0..Len(message)
    BY DEF Inv, TypeOK
  <2>4. TypeOK'
    <3>1. \A i \in dropped' : Streaming(i)'
      BY <1>4, <2>1, Rows DEF Streaming
    <3>2. \A t \in Tabs : chat[t].answer \in 0..Len(message') /\ chat[t].question \in 0..Len(message')
      BY <2>1, <2>3, Rows
    <3> QED BY <1>2, <2>1, <2>2, <3>1, <3>2 DEF Inv, TypeOK, Message, At, WriteOf
  <2>5. Shape'
    BY <1>2, <2>1 DEF Inv, Shape
  <2>6. OwnAnswers'
    BY <1>2, <1>4, <2>1, <2>3, Rows DEF Inv, OwnAnswers
  <2>7. Attended'
    <3> SUFFICES ASSUME NEW i \in DOMAIN message', message'[i].status = "streaming"
                 PROVE  i \in dropped' \/ \E u \in Tabs : chat'[u].answer = i
      BY DEF Attended
    <3>1. i \in DOMAIN message \/ i = Len(message')
      BY <2>1, Rows
    <3> QED BY <1>2, <1>4, <2>1, <3>1 DEF Inv, Attended
  <2> QED BY <2>2, <2>4, <2>5, <2>6, <2>7 DEF Inv
<1> QED
  BY <1>3, <1>4 DEF LateInsert

\* An UPDATE nobody waited for finds its row as it was left, or gone.
LEMMA LateUpdateInv == ASSUME Inv, NEW s \in running, LateUpdate(s) PROVE Inv'
<1>1. /\ s.row \in DOMAIN message /\ message[s.row].status \in {"streaming", "gone"}
      /\ s.status \in {"complete", "failed"}
      /\ \A t \in Tabs : chat[t].answer # s.row
      /\ \A r \in running : r.row = s.row => r = s
  BY Rows DEF LateUpdate, Inv, LeftBehind, WriteOf
<1>2. /\ running' = running \ {s} /\ UpdateMessage(s.row, s.status) /\ dropped' = dropped \ {s.row}
      /\ UNCHANGED <<owner, chat, away>>
  BY DEF LateUpdate
<1>3. /\ message' \in Seq(Message) /\ Len(message') = Len(message) /\ DOMAIN message' = DOMAIN message
      /\ \A i \in DOMAIN message : i # s.row => message'[i] = message[i]
      /\ message'[s.row].status # "streaming"
  <2>1. CASE message[s.row].status = "gone"
    BY <1>2, <2>1, Rows DEF UpdateMessage
  <2>2. CASE message[s.row].status # "gone"
    <3> DEFINE row == [message[s.row] EXCEPT !.status = s.status]
    <3>1. row \in Message /\ row.status = s.status
      BY <1>1, Rows DEF Message
    <3>2. message' = [message EXCEPT ![s.row] = row]
      BY <1>2, <2>2 DEF UpdateMessage
    <3> HIDE DEF row
    <3> QED BY <1>1, <3>1, <3>2, Rows
  <2> QED BY <2>1, <2>2
<1>4. LeftBehind' /\ running' \subseteq WriteOf(DOMAIN message')
  <2>1. \A r \in running' : r.row # 0 => message'[r.row] = message[r.row]
    BY <1>1, <1>2, <1>3, Rows DEF WriteOf
  <2> QED BY <1>2, <1>3, <2>1, Rows, LeftAlone
<1>5. TypeOK'
  <2>1. \A i \in dropped' : Streaming(i)'
    BY <1>2, <1>3, Rows DEF Streaming
  <2> QED BY <1>2, <1>3, <1>4, <2>1 DEF Inv, TypeOK, Message, At, WriteOf
<1>6. Shape'
  BY <1>2, <1>3 DEF Inv, Shape
<1>7. OwnAnswers'
  BY <1>1, <1>2, <1>3, Rows DEF Inv, OwnAnswers, TypeOK
<1>8. Attended'
  BY <1>2, <1>3 DEF Inv, Attended
<1> QED
  BY <1>4, <1>5, <1>6, <1>7, <1>8 DEF Inv

\* Every step keeps the invariant.
LEMMA NextInv == ASSUME Inv, [Next]_vars PROVE Inv'
<1>1. ASSUME NEW u \in Users, NEW k \in 1..Conversations, CreateConversation(u, k) PROVE Inv'
  BY <1>1 DEF CreateConversation, NextId, Unused, Inv, TypeOK, Shape, OwnAnswers, Attended, LeftBehind,
              At, Streaming
<1>2. ASSUME NEW u \in Users, NEW k \in 1..Conversations, DeleteConversation(u, k) PROVE Inv'
  BY <1>2, DeleteInv
<1>3. ASSUME NEW u \in Users, NEW k \in 1..Conversations, NEW t \in Tabs,
             Ask(t, u, k) \/ AskNew(t, u, k)
      PROVE  Inv'
  <2>1. At(t, "idle") /\ Start(t, k) /\ owner' \in [1..Conversations -> Users \cup {Nobody}]
    BY <1>3 DEF Ask, AskNew, Inv, TypeOK
  <2> QED
    BY <2>1, StartInv
<1>4. ASSUME NEW t \in Tabs, AddQuestion(t) \/ ReadHistory(t) \/ AddAnswer(t) PROVE Inv'
  BY <1>4, AddQuestionInv, ReadHistoryInv, AddAnswerInv
<1>5. ASSUME NEW t \in Tabs, Meta(t) \/ StreamEnds(t) \/ StreamFails(t) \/ Cards(t) PROVE Inv'
  <2>1. /\ \E pc \in Answering : GoTo(t, pc)
        /\ chat[t].pc \in Answering /\ UNCHANGED <<owner, message>>
    BY <1>5 DEF Meta, StreamEnds, StreamFails, Cards, At, Answering
  <2> QED
    BY <2>1, MovesOn
<1>6. ASSUME NEW t \in Tabs,
             \/ NotFound(t) \/ Cancelled(t) \/ Abandon(t) \/ DatabaseFails(t)
             \/ MarkFailed(t) \/ Finish(t)
      PROVE  Inv'
  BY <1>6, EndSteps
<1>7. ASSUME NEW t \in Tabs, Leave(t) PROVE Inv'
  BY <1>7 DEF Leave, Inv, TypeOK, Shape, OwnAnswers, Attended, LeftBehind, At, Streaming
<1>8. CASE Crash
  BY <1>8, CrashInv
<1>9. CASE UNCHANGED vars
  BY <1>9 DEF vars, Inv, TypeOK, Shape, OwnAnswers, Attended, LeftBehind, At, Streaming
<1>10. ASSUME NEW s \in running, LateInsert(s) \/ LateUpdate(s) PROVE Inv'
  BY <1>10, LateInsertInv, LateUpdateInv
<1> QED
  BY <1>1, <1>2, <1>3, <1>4, <1>5, <1>6, <1>7, <1>8, <1>9, <1>10 DEF Next, Step

-------------------------------------------------------------------------------
\* Rows, conversations and calls keep their types.
THEOREM TypeCorrect == Spec => []TypeOK
<1>1. Inv => TypeOK
  BY DEF Inv
<1> QED
  BY InitInv, NextInv, <1>1, PTL DEF Spec

\* Whatever fails, an answer that still streams belongs to a call in progress or to one
\* that was broken off: Chat leaves no other way to forget one.
THEOREM NoneForgotten == Spec => []Attended
<1>1. Inv => Attended
  BY DEF Inv
<1> QED
  BY InitInv, NextInv, <1>1, PTL DEF Spec

\* What a step may do to a row.
RowKept(i) ==
    message'[i] # message[i] =>
        \/ message'[i].status = "gone" /\ owner'[message[i].conv] = Nobody
        \/ /\ message[i].status = "streaming"
           /\ \/ \E t \in Tabs : chat[t].answer = i /\ chat'[t].answer = 0
              \/ \E s \in running \ running' : s.row = i /\ s.status = message'[i].status

\* No step writes a row that has ended, and an answer ends by its own call, or by the
\* statement that call left behind.
LEMMA StepKeepsRows == ASSUME Inv, [Next]_vars, NEW i \in DOMAIN message PROVE RowKept(i)
<1>1. ASSUME NEW u \in Users, NEW k \in 1..Conversations, DeleteConversation(u, k) PROVE RowKept(i)
  <2>1. message[i] \in Message /\ owner' = [owner EXCEPT ![k] = Nobody]
    BY <1>1, Rows DEF DeleteConversation
  <2>2. CASE message[i].conv = k
    <3>1. message'[i] = [message[i] EXCEPT !.status = "gone"]
      BY <1>1, <2>2 DEF DeleteConversation
    <3>2. message'[i].status = "gone" /\ owner'[k] = Nobody
      BY <2>1, <3>1 DEF Message, Inv, TypeOK
    <3> QED BY <2>2, <3>2 DEF RowKept
  <2>3. CASE message[i].conv # k
    BY <1>1, <2>3 DEF DeleteConversation, RowKept
  <2> QED BY <2>2, <2>3
<1>2. ASSUME NEW t \in Tabs, MarkFailed(t) \/ Finish(t) PROVE RowKept(i)
  <2>1. PICK status \in {"failed", "complete"} : UpdateMessage(chat[t].answer, status)
    BY <1>2 DEF MarkFailed, Finish
  <2>2. chat'[t] = NoChat /\ chat[t].answer # 0
    BY <1>2 DEF MarkFailed, Finish, Return, End, At, Answering, Inv, TypeOK, Shape
  <2>3. message[chat[t].answer].status \in {"streaming", "gone"}
    BY <2>2 DEF Inv, OwnAnswers
  <2>4. CASE i = chat[t].answer
    BY <2>1, <2>2, <2>3, <2>4 DEF UpdateMessage, RowKept, NoChat
  <2>5. CASE i # chat[t].answer
    BY <2>1, <2>5, Rows DEF UpdateMessage, RowKept
  <2> QED BY <2>4, <2>5
<1>3. ASSUME NEW k \in Int, NEW status \in {"complete", "streaming"}, AddMessage(k, status)
      PROVE  RowKept(i)
  BY <1>3, Appends, Rows DEF RowKept
<1>4. CASE UNCHANGED message
  BY <1>4, Rows DEF RowKept
<1>5. ASSUME NEW t \in Tabs, AddQuestion(t) \/ AddAnswer(t) PROVE RowKept(i)
  <2>1. chat[t].conv \in Int
    BY DEF Inv, TypeOK
  <2> QED BY <1>3, <1>5, <2>1 DEF AddQuestion, AddAnswer
<1>6. ASSUME NEW s \in running, LateInsert(s) PROVE RowKept(i)
  <2>1. s.conv \in Int /\ s.status \in {"complete", "streaming"}
    BY <1>6, Rows DEF LateInsert, Inv, LeftBehind, WriteOf
  <2> QED BY <1>3, <1>4, <1>6, <2>1 DEF LateInsert
<1>7. ASSUME NEW s \in running, LateUpdate(s) PROVE RowKept(i)
  <2>1. /\ s.row \in DOMAIN message /\ message[s.row].status \in {"streaming", "gone"}
        /\ s.status \in {"complete", "failed"} /\ s \notin running'
    BY <1>7, Rows DEF LateUpdate, Inv, LeftBehind, WriteOf
  <2>2. CASE i = s.row /\ message[i].status = "streaming"
    <3>1. /\ message'[i] = [message[i] EXCEPT !.status = s.status] /\ i \in DOMAIN message'
          /\ message[i] \in Message
      BY <1>7, <2>1, <2>2, Rows DEF LateUpdate, UpdateMessage
    <3> QED BY <2>1, <2>2, <3>1 DEF RowKept, Message
  <2>3. CASE ~(i = s.row /\ message[i].status = "streaming")
    <3>1. message'[i] = message[i] /\ i \in DOMAIN message'
      BY <1>7, <2>1, <2>3, Rows DEF LateUpdate, UpdateMessage
    <3> QED BY <3>1 DEF RowKept
  <2> QED BY <2>2, <2>3
<1> QED
  BY <1>1, <1>2, <1>4, <1>5, <1>6, <1>7
     DEF Next, Step, CreateConversation, Ask, AskNew, Start, ReadHistory, Meta, StreamEnds, StreamFails,
         Cards, NotFound, Cancelled, Abandon, DatabaseFails, Leave, Crash, vars

\* A message that has ended is never written again, and only its own call ends an answer.
THEOREM AnswersStay == Spec => AnswerIsFinal
<1>1. Inv /\ [Next]_vars =>
        [\A i \in DOMAIN message : message'[i] # message[i] =>
          \/ message'[i].status = "gone" /\ owner'[message[i].conv] = Nobody
          \/ /\ message[i].status = "streaming"
             /\ \/ \E t \in Tabs : chat[t].answer = i /\ chat'[t].answer = 0
                \/ \E s \in running \ running' : s.row = i /\ s.status = message'[i].status]_vars
  BY StepKeepsRows DEF RowKept
<1> QED
  BY InitInv, NextInv, <1>1, PTL DEF Spec, AnswerIsFinal

-------------------------------------------------------------------------------
(* What the model is told. *)

AfterHistory == {"placeholder"} \cup Answering
AfterQuestion == {"history"} \cup AfterHistory

Later(t) == {i \in DOMAIN message : i > chat[t].question /\ message[i].conv = chat[t].conv}

\* The question of a call is a row of its conversation, and stays complete.
Asked(t) ==
    /\ chat[t].question \in DOMAIN message
    /\ message[chat[t].question].conv = chat[t].conv
    /\ message[chat[t].question].status \in {"complete", "gone"}

\* ContextSound, for the call of one tab.
Told(t) ==
    /\ \A i \in chat[t].context :
         i \in DOMAIN message /\ message[i].conv = chat[t].conv /\ message[i].status \in {"complete", "gone"}
    /\ Cardinality(chat[t].context) <= Limit
    /\ chat[t].question \in chat[t].context \/ Cardinality(Later(t)) >= Limit

\* A message that is gone went with its conversation, whose id is not used again as
\* long as it has messages: ReadHistory finds the question or no conversation.
GoneForGood ==
    \A i \in DOMAIN message : message[i].status = "gone" => owner[message[i].conv] = Nobody

ToldInv ==
    /\ GoneForGood
    /\ \A t \in Tabs : /\ chat[t].pc \in AfterQuestion => Asked(t)
                       /\ chat[t].pc \in AfterHistory => Told(t)

\* A row keeps its conversation, and what is complete stays so until it is gone.
RowStays(i) ==
    /\ i \in DOMAIN message' /\ message'[i].conv = message[i].conv
    /\ message[i].status \in {"complete", "gone"} => message'[i].status \in {"complete", "gone"}

\* No step moves a row to another conversation, or takes back that it is complete.
LEMMA StepRowStays == ASSUME Inv, [Next]_vars, NEW i \in DOMAIN message PROVE RowStays(i)
<1>1. ASSUME NEW u \in Users, NEW k \in 1..Conversations, DeleteConversation(u, k) PROVE RowStays(i)
  <2>1. message[i] \in Message
    BY Rows
  <2>2. message'[i] \in {message[i], [message[i] EXCEPT !.status = "gone"]} /\ i \in DOMAIN message'
    BY <1>1 DEF DeleteConversation
  <2> QED BY <2>1, <2>2 DEF RowStays, Message
<1>2. ASSUME NEW t \in Tabs, MarkFailed(t) \/ Finish(t) PROVE RowStays(i)
  <2>1. PICK status \in {"failed", "complete"} : UpdateMessage(chat[t].answer, status)
    BY <1>2 DEF MarkFailed, Finish
  <2>2. chat[t].answer # 0
    BY <1>2 DEF MarkFailed, Finish, At, Answering, Inv, TypeOK
  <2>3. message[chat[t].answer].status \in {"streaming", "gone"} /\ message[i] \in Message
    BY <2>2, Rows DEF Inv, OwnAnswers
  <2>4. CASE i = chat[t].answer
    <3>1. CASE message[i].status = "gone"
      BY <2>1, <2>4, <3>1 DEF UpdateMessage, RowStays
    <3>2. CASE message[i].status = "streaming"
      <4>1. /\ message'[i] = [message[i] EXCEPT !.status = status] /\ i \in DOMAIN message'
        BY <2>1, <2>4, <3>2, Rows DEF UpdateMessage
      <4> QED BY <2>3, <3>2, <4>1 DEF RowStays, Message
    <3> QED BY <2>3, <2>4, <3>1, <3>2
  <2>5. CASE i # chat[t].answer
    BY <2>1, <2>5, Rows DEF UpdateMessage, RowStays
  <2> QED BY <2>4, <2>5
<1>3. ASSUME NEW k \in Int, NEW status \in {"complete", "streaming"}, AddMessage(k, status)
      PROVE  RowStays(i)
  BY <1>3, Appends, Rows DEF RowStays
<1>4. CASE UNCHANGED message
  BY <1>4, Rows DEF RowStays
<1>5. ASSUME NEW t \in Tabs, AddQuestion(t) \/ AddAnswer(t) PROVE RowStays(i)
  <2>1. chat[t].conv \in Int
    BY DEF Inv, TypeOK
  <2> QED BY <1>3, <1>5, <2>1 DEF AddQuestion, AddAnswer
<1>6. ASSUME NEW s \in running, LateInsert(s) PROVE RowStays(i)
  <2>1. s.conv \in Int /\ s.status \in {"complete", "streaming"}
    BY <1>6, Rows DEF LateInsert, Inv, LeftBehind, WriteOf
  <2> QED BY <1>3, <1>4, <1>6, <2>1 DEF LateInsert
<1>7. ASSUME NEW s \in running, LateUpdate(s) PROVE RowStays(i)
  <2>1. /\ s.row \in DOMAIN message /\ message[s.row].status \in {"streaming", "gone"}
        /\ s.status \in {"complete", "failed"} /\ s \notin running'
    BY <1>7, Rows DEF LateUpdate, Inv, LeftBehind, WriteOf
  <2>2. CASE i = s.row /\ message[i].status = "streaming"
    <3>1. /\ message'[i] = [message[i] EXCEPT !.status = s.status] /\ i \in DOMAIN message'
          /\ message[i] \in Message
      BY <1>7, <2>1, <2>2, Rows DEF LateUpdate, UpdateMessage
    <3> QED BY <2>1, <2>2, <3>1 DEF RowStays, Message
  <2>3. CASE ~(i = s.row /\ message[i].status = "streaming")
    <3>1. message'[i] = message[i] /\ i \in DOMAIN message'
      BY <1>7, <2>1, <2>3, Rows DEF LateUpdate, UpdateMessage
    <3> QED BY <3>1 DEF RowStays
  <2> QED BY <2>2, <2>3
<1> QED
  BY <1>1, <1>2, <1>4, <1>5, <1>6, <1>7
     DEF Next, Step, CreateConversation, Ask, AskNew, Start, ReadHistory, Meta, StreamEnds, StreamFails,
         Cards, NotFound, Cancelled, Abandon, DatabaseFails, Leave, Crash, vars

\* No step brings a conversation back to messages that have gone.
LEMMA StepGoneForGood == ASSUME Inv, GoneForGood, [Next]_vars PROVE GoneForGood'
<1>0. /\ \A i \in DOMAIN message : message[i] \in Message
      /\ owner \in [1..Conversations -> Users \cup {Nobody}]
  BY Rows DEF Inv, TypeOK
<1>1. ASSUME NEW u \in Users, NEW k \in 1..Conversations,
             CreateConversation(u, k) \/ \E t \in Tabs : AskNew(t, u, k)
      PROVE  GoneForGood'
  <2>1. /\ k \in Unused /\ owner' = [owner EXCEPT ![k] = u] /\ UNCHANGED message
    BY <1>1 DEF CreateConversation, AskNew, Start, NextId
  <2> QED BY <1>0, <2>1 DEF Unused, GoneForGood, Message
<1>2. ASSUME NEW u \in Users, NEW k \in 1..Conversations, DeleteConversation(u, k) PROVE GoneForGood'
  <2>1. /\ owner' = [owner EXCEPT ![k] = Nobody] /\ DOMAIN message' = DOMAIN message
        /\ \A i \in DOMAIN message :
             message'[i] = IF message[i].conv = k THEN [message[i] EXCEPT !.status = "gone"]
                                                  ELSE message[i]
    BY <1>2 DEF DeleteConversation
  <2>2. \A i \in DOMAIN message : message'[i].conv = message[i].conv
    BY <1>0, <2>1 DEF Message
  <2>3. \A j \in 1..Conversations : owner'[j] = IF j = k THEN Nobody ELSE owner[j]
    BY <1>0, <2>1
  <2> QED BY <1>0, <2>1, <2>2, <2>3 DEF GoneForGood, Message
<1>3. ASSUME NEW k \in Int, NEW status \in {"complete", "streaming"}, AddMessage(k, status),
             UNCHANGED owner
      PROVE  GoneForGood'
  <2>1. /\ \A i \in DOMAIN message : message'[i] = message[i]
        /\ DOMAIN message' = 1..Len(message) + 1 /\ Len(message') = Len(message) + 1
        /\ message'[Len(message')].status \in {"complete", "streaming"}
    BY <1>3, Appends
  <2>2. \A i \in DOMAIN message' : i \in DOMAIN message \/ i = Len(message')
    BY <2>1, Rows
  <2> QED BY <1>3, <2>1, <2>2 DEF GoneForGood
<1>9. ASSUME NEW t \in Tabs, AddQuestion(t) \/ AddAnswer(t) PROVE GoneForGood'
  <2>1. chat[t].conv \in Int
    BY DEF Inv, TypeOK
  <2> QED BY <1>3, <1>9, <2>1 DEF AddQuestion, AddAnswer
<1>10. ASSUME NEW j \in DOMAIN message, NEW status \in {"failed", "complete"},
              UpdateMessage(j, status), UNCHANGED owner
       PROVE  GoneForGood'
  <2>1. CASE message[j].status # "gone"
    <3>1. /\ DOMAIN message' = DOMAIN message
          /\ \A i \in DOMAIN message \ {j} : message'[i] = message[i]
          /\ message'[j] = [message[j] EXCEPT !.status = status]
      BY <1>10, <2>1, Rows DEF UpdateMessage
    <3>2. message'[j].status = status
      BY <1>0, <3>1 DEF Message
    <3> QED BY <1>10, <3>1, <3>2 DEF GoneForGood
  <2>2. CASE message[j].status = "gone"
    BY <1>10, <2>2 DEF UpdateMessage, GoneForGood
  <2> QED BY <2>1, <2>2
<1>4. ASSUME NEW t \in Tabs, MarkFailed(t) \/ Finish(t) PROVE GoneForGood'
  <2>1. chat[t].answer \in DOMAIN message
    BY <1>4, Rows DEF MarkFailed, Finish, At, Answering, Inv, TypeOK
  <2> QED BY <1>4, <1>10, <2>1 DEF MarkFailed, Finish
<1>5. ASSUME UNCHANGED <<owner, message>> PROVE GoneForGood'
  BY <1>5 DEF GoneForGood
<1>6. ASSUME NEW t \in Tabs,
             \/ ReadHistory(t) \/ Meta(t) \/ StreamEnds(t) \/ StreamFails(t) \/ Cards(t) \/ NotFound(t)
             \/ Cancelled(t) \/ Abandon(t) \/ DatabaseFails(t) \/ Leave(t)
      PROVE  GoneForGood'
  BY <1>5, <1>6 DEF ReadHistory, Meta, StreamEnds, StreamFails, Cards, NotFound, Cancelled, Abandon,
                    DatabaseFails, Leave
<1>7. ASSUME NEW t \in Tabs, NEW u \in Users, NEW k \in 1..Conversations, Ask(t, u, k)
      PROVE  GoneForGood'
  BY <1>5, <1>7 DEF Ask, Start
<1>8. CASE Crash \/ UNCHANGED vars
  BY <1>5, <1>8 DEF Crash, vars
<1>11. ASSUME NEW s \in running, LateInsert(s) \/ LateUpdate(s) PROVE GoneForGood'
  <2>1. s \in WriteOf(DOMAIN message) /\ (s.row = 0 => s.status # "failed")
        /\ (s.row # 0 => s.status # "streaming")
    BY Rows DEF Inv, LeftBehind
  <2>2. CASE LateInsert(s)
    <3>1. s.conv \in Int /\ s.status \in {"complete", "streaming"} /\ UNCHANGED owner
      BY <2>1, <2>2 DEF LateInsert, WriteOf
    <3> QED BY <1>3, <1>5, <2>2, <3>1 DEF LateInsert
  <2>3. CASE LateUpdate(s)
    <3>1. s.row \in DOMAIN message /\ s.status \in {"failed", "complete"}
      BY <2>1, <2>3 DEF LateUpdate, WriteOf
    <3> QED BY <1>10, <2>3, <3>1 DEF LateUpdate
  <2> QED BY <1>11, <2>2, <2>3
<1> QED
  BY <1>1, <1>2, <1>4, <1>6, <1>7, <1>8, <1>9, <1>11 DEF Next, Step

\* What comes later only grows.
LEMMA LaterGrows ==
    ASSUME Inv, [Next]_vars, NEW t \in Tabs,
           chat'[t].conv = chat[t].conv, chat'[t].question = chat[t].question
    PROVE  Cardinality(Later(t)) \in Nat /\ Cardinality(Later(t)') \in Nat
           /\ Cardinality(Later(t)) <= Cardinality(Later(t)')
<1>1. Later(t) \subseteq Later(t)'
  BY StepRowStays DEF Later, RowStays
<1>2. DOMAIN message' = 1..Len(message') /\ Len(message') \in Nat
  <2>1. Inv'
    BY NextInv
  <2> QED BY <2>1 DEF Inv, TypeOK
<1>3. IsFiniteSet(Later(t)')
  <2>1. IsFiniteSet(DOMAIN message')
    BY <1>2, FS_Interval
  <2> QED BY <2>1, FS_Subset DEF Later
<1> QED
  BY <1>1, <1>3, FS_Subset, FS_CardinalityType

\* A call that keeps its conversation, question and context is told what it was told.
LEMMA KeepsTold ==
    ASSUME Inv, ToldInv, [Next]_vars, NEW t \in Tabs,
           chat'[t].conv = chat[t].conv, chat'[t].question = chat[t].question,
           chat'[t].context = chat[t].context,
           chat'[t].pc \in AfterQuestion => chat[t].pc \in AfterQuestion,
           chat'[t].pc \in AfterHistory => chat[t].pc \in AfterHistory
    PROVE  /\ chat'[t].pc \in AfterQuestion => Asked(t)'
           /\ chat'[t].pc \in AfterHistory => Told(t)'
<1>1. Asked(t) => Asked(t)'
  BY StepRowStays DEF Asked, RowStays
<1>2. Told(t) => Told(t)'
  <2> SUFFICES ASSUME Told(t) PROVE Told(t)'
    OBVIOUS
  <2>1. \A i \in chat[t].context :
          i \in DOMAIN message' /\ message'[i].conv = chat[t].conv /\ message'[i].status \in {"complete", "gone"}
    BY StepRowStays DEF Told, RowStays
  <2>2. Cardinality(Later(t)) >= Limit => Cardinality(Later(t)') >= Limit
    BY LaterGrows, ChatAssumption
  <2> QED BY <2>1, <2>2 DEF Told
<1> QED
  BY <1>1, <1>2 DEF ToldInv

\* Of a finite set of ids, at most Limit have fewer than Limit after them.
LEMMA LastFew ==
    ASSUME NEW n \in Nat, NEW S \in SUBSET (1..n)
    PROVE  Cardinality({i \in S : Cardinality({j \in S : j > i}) < Limit}) <= Limit
<1> DEFINE after(i) == {j \in S : j > i}
           last == {i \in S : Cardinality(after(i)) < Limit}
           f == [i \in last |-> Cardinality(after(i))]
<1>0. \A i \in S : i \in Nat
  OBVIOUS
<1>1. IsFiniteSet(S)
  <2>1. IsFiniteSet(1..n)
    BY FS_Interval
  <2> QED BY <2>1, FS_Subset
<1>2. \A i \in S : IsFiniteSet(after(i)) /\ Cardinality(after(i)) \in Nat
  BY <1>1, FS_Subset, FS_CardinalityType
<1>3. \A i, j \in S : i < j => Cardinality(after(j)) < Cardinality(after(i))
  <2> SUFFICES ASSUME NEW i \in S, NEW j \in S, i < j
               PROVE  Cardinality(after(j)) < Cardinality(after(i))
    OBVIOUS
  <2>1. after(j) \in SUBSET after(i) /\ after(j) # after(i)
    <3>1. j \in after(i) /\ j \notin after(j) /\ \A k \in S : k > j => k > i
      BY <1>0
    <3> QED BY <3>1
  <2>2. IsFiniteSet(after(i)) /\ Cardinality(after(i)) \in Nat /\ Cardinality(after(j)) \in Nat
    BY <1>2
  <2> HIDE DEF after
  <2>3. /\ Cardinality(after(j)) <= Cardinality(after(i))
        /\ Cardinality(after(i)) # Cardinality(after(j))
    BY <2>1, <2>2, FS_Subset
  <2> QED BY <2>2, <2>3
<1>4. f \in Injection(last, 0..Limit - 1)
  <2>1. \A i \in last : Cardinality(after(i)) \in 0..Limit - 1
    BY <1>2, ChatAssumption
  <2>2. \A i, j \in last : Cardinality(after(i)) = Cardinality(after(j)) => i = j
    <3> HIDE DEF after
    <3> SUFFICES ASSUME NEW i \in last, NEW j \in last, i # j
                 PROVE  Cardinality(after(i)) # Cardinality(after(j))
      OBVIOUS
    <3>1. i \in S /\ j \in S /\ (i < j \/ j < i)
      OBVIOUS
    <3> QED BY <1>2, <1>3, <3>1
  <2> HIDE DEF after
  <2> QED BY <2>1, <2>2 DEF Injection, IsInjective
<1>5. IsFiniteSet(0..Limit - 1) /\ Cardinality(0..Limit - 1) = Limit
  BY ChatAssumption, FS_Interval
<1>6. Cardinality(last) <= Limit
  <2> HIDE DEF last, f
  <2> QED BY <1>4, <1>5, FS_Injection
<1> QED
  BY <1>6

\* The history has the question, or Limit messages that came after it.
LEMMA ReadHistoryTold ==
    ASSUME Inv, ToldInv, NEW t \in Tabs, ReadHistory(t)
    PROVE  Asked(t)' /\ Told(t)'
<1> DEFINE q == chat[t].question  k == chat[t].conv
<1>1. /\ UNCHANGED <<owner, message>> /\ owner[k] # Nobody /\ Asked(t)
  BY DEF ReadHistory, Existing, ToldInv, At, AfterQuestion
<1>2. chat'[t].conv = k /\ chat'[t].question = q /\ chat'[t].context = ListMessages(k)
  <2>1. chat[t] \in CallsWith(chat[t].context) /\ t \in DOMAIN chat
    BY DEF Inv, Shape
  <2> QED BY <2>1 DEF ReadHistory, CallsWith
<1>3. DOMAIN message = 1..Len(message) /\ Len(message) \in Nat /\ Complete(k) \in SUBSET (1..Len(message))
  BY Rows DEF Complete
<1>4. q \in Complete(k)
  BY <1>1 DEF Complete, Asked, GoneForGood, ToldInv
<1>5. Cardinality(ListMessages(k)) <= Limit
  BY <1>3, LastFew DEF ListMessages
<1>6. q \in ListMessages(k) \/ Cardinality(Later(t)) >= Limit
  <2> SUFFICES ASSUME q \notin ListMessages(k) PROVE Cardinality(Later(t)) >= Limit
    OBVIOUS
  <2> DEFINE after == {j \in Complete(k) : j > q}
  <2>1. IsFiniteSet(Later(t)) /\ after \subseteq Later(t)
    <3>1. IsFiniteSet(DOMAIN message)
      BY <1>3, FS_Interval
    <3>2. Later(t) \in SUBSET DOMAIN message /\ after \subseteq Later(t)
      BY DEF Later, Complete
    <3> QED BY <3>1, <3>2, FS_Subset
  <2>2. /\ Cardinality(after) <= Cardinality(Later(t)) /\ IsFiniteSet(after)
        /\ Cardinality(after) \in Nat /\ Cardinality(Later(t)) \in Nat
    BY <2>1, FS_Subset, FS_CardinalityType
  <2>3. ~(Cardinality(after) < Limit)
    BY <1>4 DEF ListMessages
  <2> QED BY <2>2, <2>3, ChatAssumption
<1>7. Asked(t)'
  BY <1>1, <1>2 DEF Asked
<1>8. Told(t)'
  BY <1>1, <1>2, <1>5, <1>6 DEF Told, Later, ListMessages, Complete
<1> QED
  BY <1>7, <1>8

\* What a call is told, step by step.
LEMMA NextTold == ASSUME Inv, ToldInv, [Next]_vars PROVE ToldInv'
<1> DEFINE Good(t) == /\ chat'[t].pc \in AfterQuestion => Asked(t)'
                      /\ chat'[t].pc \in AfterHistory => Told(t)'
           Kept(t) == /\ chat'[t].conv = chat[t].conv /\ chat'[t].question = chat[t].question
                      /\ chat'[t].context = chat[t].context
                      /\ chat'[t].pc \in AfterQuestion => chat[t].pc \in AfterQuestion
                      /\ chat'[t].pc \in AfterHistory => chat[t].pc \in AfterHistory
<1> SUFFICES ASSUME NEW t \in Tabs PROVE Good(t)
  BY StepGoneForGood DEF ToldInv
<1>1. Kept(t) => Good(t)
  BY KeepsTold
<1>2. chat'[t] = chat[t] => Kept(t)
  OBVIOUS
<1>3. chat'[t].pc \in {"idle", "question"} => Good(t)
  BY DEF AfterQuestion, AfterHistory, Answering
<1> HIDE DEF Good, Kept
<1>0. chat = [u \in Tabs |-> chat[u]] /\ \A u \in Tabs : chat[u] \in CallsWith(chat[u].context)
  BY DEF Inv, Shape
<1>4. ASSUME NEW u \in Tabs, NEW k \in 1..Conversations, Start(u, k) PROVE Good(t)
  BY <1>0, <1>1, <1>2, <1>3, <1>4 DEF Start
<1>5. ASSUME NEW u \in Tabs, End(u) PROVE Good(t)
  BY <1>0, <1>1, <1>2, <1>3, <1>5 DEF End, NoChat
<1>6. ASSUME NEW u \in Tabs, NEW pc \in Answering, GoTo(u, pc), chat[u].pc \in Answering PROVE Good(t)
  <2>1. CASE t = u
    <3>1. chat'[t] = [chat[t] EXCEPT !.pc = pc]
      BY <1>0, <1>6, <2>1 DEF GoTo
    <3>2. Kept(t)
      BY <1>0, <1>6, <2>1, <3>1 DEF Kept, CallsWith, AfterQuestion, AfterHistory
    <3> QED BY <1>1, <3>2
  <2>2. CASE t # u
    BY <1>0, <1>1, <1>2, <1>6, <2>2 DEF GoTo
  <2> QED BY <2>1, <2>2
<1>7. ASSUME NEW u \in Tabs, AddQuestion(u) PROVE Good(t)
  <2>1. CASE t = u
    <3>1. chat'[t] = [chat[t] EXCEPT !.pc = "history", !.question = Len(message')]
      BY <1>0, <1>7, <2>1 DEF AddQuestion
    <3>2. /\ chat'[t].pc = "history" /\ chat'[t].question = Len(message')
          /\ chat'[t].conv = chat[t].conv
      BY <1>0, <3>1 DEF CallsWith
    <3>3. /\ Len(message') \in DOMAIN message'
          /\ message'[Len(message')].conv = chat[t].conv
          /\ message'[Len(message')].status = "complete"
      <4> DEFINE row == [conv |-> chat[t].conv, status |-> "complete"]
      <4>1. message' = Append(message, row)
        BY <1>7, <2>1 DEF AddQuestion, AddMessage
      <4>2. /\ message' \in Seq(Message) /\ Len(message') = Len(message) + 1
        <5>1. chat[t].conv \in Int
          BY DEF Inv, TypeOK
        <5> QED BY <1>7, <2>1, <5>1, Appends DEF AddQuestion
      <4>3. message'[Len(message) + 1] = row
        BY <4>1, Rows
      <4> QED BY <4>2, <4>3, Rows
    <3>4. Asked(t)'
      BY <3>2, <3>3 DEF Asked
    <3> QED BY <3>2, <3>4 DEF Good, AfterHistory, Answering
  <2>2. CASE t # u
    BY <1>0, <1>1, <1>2, <1>7, <2>2 DEF AddQuestion
  <2> QED BY <2>1, <2>2
<1>8. ASSUME NEW u \in Tabs, ReadHistory(u) PROVE Good(t)
  <2>1. CASE t = u
    BY <1>8, <2>1, ReadHistoryTold DEF Good
  <2>2. CASE t # u
    BY <1>0, <1>1, <1>2, <1>8, <2>2 DEF ReadHistory
  <2> QED BY <2>1, <2>2
<1>9. ASSUME NEW u \in Tabs, AddAnswer(u) PROVE Good(t)
  <2>1. CASE t = u
    <3>1. chat'[t] = [chat[t] EXCEPT !.pc = "meta", !.answer = Len(message')] /\ chat[t].pc = "placeholder"
      BY <1>0, <1>9, <2>1 DEF AddAnswer, At
    <3>2. Kept(t)
      BY <1>0, <3>1 DEF Kept, CallsWith, AfterQuestion, AfterHistory
    <3> QED BY <1>1, <3>2
  <2>2. CASE t # u
    BY <1>0, <1>1, <1>2, <1>9, <2>2 DEF AddAnswer
  <2> QED BY <2>1, <2>2
<1>10. CASE Crash
  BY <1>3, <1>10 DEF Crash, NoChat
<1>11. CASE UNCHANGED chat
  BY <1>1, <1>2, <1>11
<1>12. ASSUME NEW u \in Tabs, Step(u) \/ Leave(u) \/ DatabaseFails(u) PROVE Good(t)
  <2>1. CASE AddQuestion(u) \/ ReadHistory(u) \/ AddAnswer(u)
    BY <1>7, <1>8, <1>9, <2>1
  <2>2. CASE Meta(u) \/ StreamEnds(u) \/ StreamFails(u) \/ Cards(u)
    <3>1. (\E pc \in Answering : GoTo(u, pc)) /\ chat[u].pc \in Answering
      BY <2>2 DEF Meta, StreamEnds, StreamFails, Cards, At, Answering
    <3> QED BY <1>6, <3>1
  <2>3. CASE \/ MarkFailed(u) \/ Finish(u) \/ NotFound(u) \/ Cancelled(u)
             \/ Abandon(u) \/ DatabaseFails(u)
    BY <1>5, <2>3 DEF MarkFailed, Finish, NotFound, Cancelled, Abandon, DatabaseFails, Return, BreakOff
  <2>4. CASE Leave(u)
    BY <1>11, <2>4 DEF Leave
  <2> QED BY <1>12, <2>1, <2>2, <2>3, <2>4 DEF Step
<1>13. ASSUME NEW u \in Users, NEW k \in 1..Conversations,
              \/ CreateConversation(u, k) \/ DeleteConversation(u, k)
              \/ \E v \in Tabs : Ask(v, u, k) \/ AskNew(v, u, k)
       PROVE  Good(t)
  BY <1>4, <1>11, <1>13 DEF CreateConversation, DeleteConversation, Ask, AskNew
<1>14. ASSUME NEW s \in running, LateInsert(s) \/ LateUpdate(s) PROVE Good(t)
  BY <1>11, <1>14 DEF LateInsert, LateUpdate
<1> QED
  BY <1>10, <1>11, <1>12, <1>13, <1>14 DEF Next, vars

\* The model is told Limit messages at most, all of this conversation and none of a
\* broken answer, and the question is among them unless Limit others came after it.
THEOREM ToldSafe == Spec => []ContextSound
<1>1. Init => ToldInv
  BY DEF Init, ToldInv, GoneForGood, NoChat, AfterQuestion, AfterHistory, Answering
<1>2. ToldInv => ContextSound
  BY DEF ToldInv, Told, Later, AfterHistory, ContextSound
<1> QED
  BY <1>1, <1>2, InitInv, NextInv, NextTold, PTL DEF Spec
===============================================================================

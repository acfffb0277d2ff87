----------------------------- MODULE WaitlistProofs -----------------------------
(* Proofs about Waitlist, for any number of users, seats, entries, requests *)
(* and schedulers, and any PromoteTryCount, with and without faults.        *)
EXTENDS Waitlist, TLAPS, FiniteSetTheorems, SequenceTheorems, WellFoundedInduction

USE DEF room

\* Changing the status of rows changes nothing else about the list.
LEMMA SetStatusEffect ==
    ASSUME TypeOK, NEW S, NEW st \in Statuses \ {"waiting"}, SetStatus(S, st)
    PROVE  /\ entries' \in Seq(Entries) /\ Len(entries') = Len(entries)
           /\ DOMAIN entries' = DOMAIN entries
           /\ Waiting' \subseteq Waiting
<1>1. /\ entries \in Seq(Entries) /\ Len(entries) \in Nat
      /\ DOMAIN entries = 1..Len(entries)
      /\ \A e \in 1..Len(entries) : entries[e] \in Entries
  BY DEF TypeOK
<1>2. entries' \in [1..Len(entries) -> Entries]
  BY <1>1 DEF SetStatus, Entries
<1>3. entries' \in Seq(Entries)
  BY <1>1, <1>2, SeqDef
<1>4. Len(entries') = Len(entries) /\ DOMAIN entries' = DOMAIN entries
  BY <1>1, <1>2, <1>3
<1>5. Waiting' \subseteq Waiting
  <2> SUFFICES ASSUME NEW e \in DOMAIN entries, entries'[e].status = "waiting"
               PROVE  entries[e].status = "waiting"
    BY <1>4 DEF Waiting
  <2> QED BY DEF SetStatus
<1> QED BY <1>3, <1>4, <1>5

\* The first of a set of numbers is one of them, and none is before it.
LEMMA FirstIn ==
    ASSUME NEW S \in SUBSET Nat, S # {}
    PROVE  First(S) \in S /\ \A m \in S : First(S) <= m
<1> DEFINE R == OpToRel(<, Nat)
<1>1. \E n \in S : \A m \in S : ~(<<m, n>> \in R)
  <2> HIDE DEF R
  <2>1. IsWellFoundedOn(R, Nat)
    BY NatLessThanWellFounded DEF R
  <2> QED BY <2>1, WFMin
<1>2. \A n, m \in Nat : m < n => <<m, n>> \in R
  BY DEF OpToRel
<1> HIDE DEF R
<1>3. \E n \in S : \A m \in S : n <= m
  <2>1. PICK n \in S : \A m \in S : ~(<<m, n>> \in R)
    BY <1>1
  <2>2. ASSUME NEW m \in S PROVE n <= m
    <3>1. n \in Nat /\ m \in Nat /\ ~(m < n)
      BY <2>1, <1>2
    <3> QED BY <3>1
  <2> QED BY <2>2
<1> QED BY <1>3 DEF First

\* Who is before one of the heads of the queue is one of them too.
LEMMA HeadsClosed ==
    ASSUME TypeOK, NEW f \in Heads, NEW e \in Waiting, e < f
    PROVE  e \in Heads
<1> DEFINE Before(g) == {h \in Waiting : h < g}
<1>1. Waiting \subseteq 1..Len(entries) /\ Len(entries) \in Nat
  BY DEF TypeOK, Waiting
<1>2. IsFiniteSet(Before(f))
  <2>1. IsFiniteSet(1..Len(entries))
    BY <1>1, FS_Interval
  <2>2. Before(f) \subseteq 1..Len(entries)
    BY <1>1
  <2> QED BY <2>1, <2>2, FS_Subset
<1>3. Before(e) \subseteq Before(f)
  <2>1. Waiting \subseteq Int /\ f \in Int /\ e \in Int
    BY <1>1 DEF Heads
  <2>2. ASSUME NEW h \in Waiting, h < e PROVE h < f
    BY <2>1, <2>2
  <2> QED BY <2>2
<1>4. /\ Cardinality(Before(e)) \in Nat /\ Cardinality(Before(f)) \in Nat
      /\ Cardinality(Before(e)) <= Cardinality(Before(f))
  BY <1>2, <1>3, FS_Subset, FS_CardinalityType
<1>5. Cardinality(Before(f)) < TryCount
  BY DEF Heads
<1> HIDE DEF Before
<1>6. Cardinality(Before(e)) < TryCount
  BY <1>4, <1>5, WaitAssumption
<1> QED BY <1>6 DEF Heads, Before

-------------------------------------------------------------------------------
(* The invariant: whoever waits before an entry a round has still to try is also *)
(* still to be tried, or has been; and the entry a round has booked for is the   *)
(* first of those it holds.                                                      *)

OrderKept ==
    \A s \in Schedulers :
        /\ sch[s].queue \subseteq DOMAIN entries
        /\ \A e \in Waiting, f \in sch[s].queue :
               e < f => e \in sch[s].queue \cup sch[s].tried
        /\ sch[s].pc = "mark" => sch[s].queue # {}

WaitInv == TypeOK /\ OrderKept

\* Initially nothing waits and no round is under way.
LEMMA InitInv == Init => WaitInv
<1> SUFFICES ASSUME Init PROVE WaitInv
  OBVIOUS
<1>1. TypeOK
  <2>1. entries \in Seq(Entries) /\ Len(entries) = 0
    BY DEF Init
  <2> QED BY <2>1, WaitAssumption DEF Init, TypeOK, Phases, Rounds, Asleep
<1>2. OrderKept
  BY DEF Init, OrderKept, Asleep
<1> QED BY <1>1, <1>2 DEF WaitInv

\* Rows that stop waiting disturb no round.
LEMMA ListShrinks ==
    ASSUME WaitInv, UNCHANGED sch,
           DOMAIN entries' = DOMAIN entries, Waiting' \subseteq Waiting
    PROVE  OrderKept'
BY DEF WaitInv, OrderKept

\* A round that steps: it keeps its place, moves past the entry e, or stops.
LEMMA RoundMoves ==
    ASSUME WaitInv, NEW s \in Schedulers, NEW r \in Rounds, NEW e,
           sch' = [sch EXCEPT ![s] = r],
           DOMAIN entries' = DOMAIN entries, Waiting' \subseteq Waiting,
           r.pc = "mark" => r.queue # {},
           \/ r.queue = {}
           \/ r.queue = sch[s].queue /\ r.tried = sch[s].tried
           \/ r.queue = sch[s].queue \ {e} /\ r.tried = sch[s].tried \cup {e}
    PROVE  /\ sch' \in [Schedulers -> Rounds]
           /\ OrderKept'
<1>1. sch \in [Schedulers -> Rounds]
  BY DEF WaitInv, TypeOK
<1>2. sch' \in [Schedulers -> Rounds]
  BY <1>1
<1>3. ASSUME NEW t \in Schedulers
      PROVE  /\ sch'[t].queue \subseteq DOMAIN entries
             /\ \A g \in Waiting', f \in sch'[t].queue :
                    g < f => g \in sch'[t].queue \cup sch'[t].tried
             /\ sch'[t].pc = "mark" => sch'[t].queue # {}
  <2>1. /\ sch[t].queue \subseteq DOMAIN entries
        /\ \A g \in Waiting, f \in sch[t].queue :
               g < f => g \in sch[t].queue \cup sch[t].tried
        /\ sch[t].pc = "mark" => sch[t].queue # {}
    BY DEF WaitInv, OrderKept
  <2>2. CASE t # s
    <3>1. sch'[t] = sch[t]
      BY <1>1, <2>2
    <3> QED BY <2>1, <3>1
  <2>3. CASE t = s
    <3>1. sch'[t] = r
      BY <1>1, <2>3
    <3> QED BY <2>1, <2>3, <3>1
  <2> QED BY <2>2, <2>3
<1> QED BY <1>2, <1>3 DEF OrderKept

\* The entry a round is at is a row, and the first of its queue.
LEMMA EntryIn ==
    ASSUME WaitInv, NEW s \in Schedulers, sch[s].queue # {}
    PROVE  /\ Entry(s) \in sch[s].queue /\ Entry(s) \in Ids
           /\ \A f \in sch[s].queue : Entry(s) <= f
           /\ User(s) \in Users
<1>1. sch[s].queue \subseteq DOMAIN entries /\ sch[s].queue \in SUBSET Ids
  BY DEF WaitInv, OrderKept, TypeOK, Rounds
<1>2. sch[s].queue \in SUBSET Nat
  BY <1>1, WaitAssumption DEF Ids
<1>3. Entry(s) \in sch[s].queue /\ \A f \in sch[s].queue : Entry(s) <= f
  BY <1>2, FirstIn DEF Entry
<1>4. User(s) \in Users
  <2>1. entries \in Seq(Entries) /\ Entry(s) \in DOMAIN entries
    BY <1>1, <1>3 DEF WaitInv, TypeOK
  <2>2. entries[Entry(s)] \in Entries
    BY <2>1
  <2> QED BY <2>2 DEF User, Entries
<1> QED BY <1>1, <1>3, <1>4

\* Who joins comes after all whom a round holds.
LEMMA RequestInv ==
    ASSUME WaitInv, NEW c \in Clients, JoinInsert(c)
    PROVE  WaitInv'
<1>1. /\ entries \in Seq(Entries) /\ Len(entries) \in Nat /\ Len(entries) <= MaxEntries
      /\ DOMAIN entries = 1..Len(entries)
  BY DEF WaitInv, TypeOK
<1>2. join' \in [Clients -> Users \cup {Nobody}]
  BY DEF WaitInv, TypeOK, JoinInsert
<1>3. CASE UNCHANGED entries
  <2>1. TypeOK'
    BY <1>2, <1>3 DEF WaitInv, TypeOK, JoinInsert
  <2>2. OrderKept'
    BY <1>3, ListShrinks DEF JoinInsert, Waiting
  <2> QED BY <2>1, <2>2 DEF WaitInv
<1>4. CASE /\ Len(entries) < MaxEntries
           /\ entries' = Append(entries, [user |-> join[c], status |-> "waiting"])
  <2> DEFINE new == [user |-> join[c], status |-> "waiting"]
  <2>1. new \in Entries
    BY DEF WaitInv, TypeOK, JoinInsert, Entries, Statuses
  <2> HIDE DEF new
  <2>2. entries' = Append(entries, new)
    BY <1>4 DEF new
  <2>3. /\ entries' \in Seq(Entries) /\ Len(entries') = Len(entries) + 1
        /\ DOMAIN entries' = 1..(Len(entries) + 1)
        /\ \A e \in 1..Len(entries) : entries'[e] = entries[e]
    BY <1>1, <2>1, <2>2, AppendProperties
  <2>4. TypeOK'
    <3>1. Len(entries') <= MaxEntries
      BY <1>1, <1>4, <2>3, WaitAssumption
    <3>2. UNCHANGED <<active, unfit, room, phase, sch>>
      BY DEF JoinInsert
    <3> QED BY <1>2, <2>3, <3>1, <3>2 DEF WaitInv, TypeOK
  <2>5. Waiting' \subseteq Waiting \cup {Len(entries) + 1}
    BY <1>1, <2>3 DEF Waiting
  <2>6. ASSUME NEW s \in Schedulers, NEW e \in Waiting', NEW f \in sch[s].queue, e < f
        PROVE  e \in sch[s].queue \cup sch[s].tried
    <3>1. f \in 1..Len(entries)
      BY <1>1 DEF WaitInv, OrderKept
    <3>2. e # Len(entries) + 1
      BY <1>1, <2>6, <3>1
    <3>3. e \in Waiting
      BY <2>5, <3>2
    <3> QED BY <2>6, <3>3 DEF WaitInv, OrderKept
  <2>7. sch' = sch /\ DOMAIN entries \subseteq DOMAIN entries'
    BY <1>1, <2>3 DEF JoinInsert
  <2>8. OrderKept'
    BY <2>6, <2>7 DEF WaitInv, OrderKept
  <2> QED BY <2>4, <2>8 DEF WaitInv
<1> QED BY <1>3, <1>4 DEF JoinInsert

\* The steps of a round.
LEMMA RoundInv ==
    ASSUME WaitInv, NEW s \in Schedulers,
           \/ RoundStep(s) \/ Book(s) \/ BookingFails(s)
           \/ MarkFails(s) \/ ListFails(s) \/ RoundEnds(s)
    PROVE  WaitInv'
<1>1. /\ sch \in [Schedulers -> Rounds] /\ sch[s] \in Rounds
      /\ sch[s].queue \subseteq Ids /\ sch[s].tried \subseteq Ids /\ sch[s].seats \subseteq Seats
      /\ sch[s].queue \subseteq DOMAIN entries
  BY DEF WaitInv, TypeOK, Rounds, OrderKept
<1>2. /\ entries \in Seq(Entries) /\ Len(entries) \in Nat /\ Len(entries) <= MaxEntries
      /\ DOMAIN entries = 1..Len(entries)
  BY DEF WaitInv, TypeOK
<1> DEFINE Left == [pc |-> "expire", seats |-> {}, queue |-> {}, tried |-> {}]
           Past(seats) == [pc |-> "try", seats |-> seats, queue |-> sch[s].queue \ {Entry(s)},
                           tried |-> sch[s].tried \cup {Entry(s)}]
           At(pc) == [pc |-> pc, seats |-> sch[s].seats, queue |-> sch[s].queue,
                      tried |-> sch[s].tried]
           Stays == UNCHANGED <<entries, unfit, room, phase, join>> /\ active' \subseteq [user : Users, seat : Seats]
<1>3. ASSUME UNCHANGED <<active, unfit, room, phase, join>>, NEW S,
             NEW st \in Statuses \ {"waiting"}, SetStatus(S, st),
             NEW r \in Rounds, NEW e, sch' = [sch EXCEPT ![s] = r],
             r.pc = "mark" => r.queue # {},
             \/ r.queue = {}
             \/ r.queue = sch[s].queue /\ r.tried = sch[s].tried
             \/ r.queue = sch[s].queue \ {e} /\ r.tried = sch[s].tried \cup {e}
      PROVE  WaitInv'
  <2>1. TypeOK
    BY DEF WaitInv
  <2>2. /\ entries' \in Seq(Entries) /\ Len(entries') = Len(entries)
        /\ DOMAIN entries' = DOMAIN entries /\ Waiting' \subseteq Waiting
    BY <1>3, <2>1, SetStatusEffect
  <2>3. sch' \in [Schedulers -> Rounds] /\ OrderKept'
    BY <1>3, <2>2, RoundMoves
  <2> QED BY <1>3, <2>1, <2>2, <2>3 DEF WaitInv, TypeOK
<1>4. ASSUME Stays,
             NEW r \in Rounds, NEW e, sch' = [sch EXCEPT ![s] = r],
             r.pc = "mark" => r.queue # {},
             \/ r.queue = {}
             \/ r.queue = sch[s].queue /\ r.tried = sch[s].tried
             \/ r.queue = sch[s].queue \ {e} /\ r.tried = sch[s].tried \cup {e}
      PROVE  WaitInv'
  <2>1. DOMAIN entries' = DOMAIN entries /\ Waiting' \subseteq Waiting
    BY <1>4 DEF Waiting
  <2>2. sch' \in [Schedulers -> Rounds] /\ OrderKept'
    BY <1>4, <2>1, RoundMoves
  <2> QED BY <1>4, <2>2 DEF WaitInv, TypeOK
<1>5. Left \in Rounds
  BY DEF Rounds
<1>6. ASSUME NEW seats \in SUBSET Seats, sch[s].queue # {} PROVE Past(seats) \in Rounds
  <2>1. Entry(s) \in Ids
    BY <1>6, EntryIn
  <2> QED BY <1>1, <1>6, <2>1 DEF Rounds
<1>7. ASSUME NEW pc \in {"wait", "mark"}
      PROVE  At(pc) \in Rounds /\ (Goto(s, pc) => sch' = [sch EXCEPT ![s] = At(pc)])
  <2>1. At(pc) \in Rounds
    BY <1>1, <1>7 DEF Rounds
  <2>2. [sch[s] EXCEPT !.pc = pc] = At(pc)
    BY <1>1 DEF Rounds
  <2> QED BY <1>1, <2>1, <2>2 DEF Goto
<1>8. UNCHANGED active => active' \subseteq [user : Users, seat : Seats]
  BY DEF WaitInv, TypeOK
<1>9. ASSUME Leave(s), UNCHANGED <<entries, active, unfit, room, phase, join>> PROVE WaitInv'
  <2>1. sch' = [sch EXCEPT ![s] = Left]
    BY <1>9 DEF Leave
  <2> QED BY <1>4, <1>5, <1>8, <1>9, <2>1
<1>10. ASSUME NEW seats \in SUBSET Seats, sch[s].queue # {}, NextEntry(s, Entry(s), seats)
       PROVE  sch' = [sch EXCEPT ![s] = Past(seats)]
  BY <1>1, <1>10 DEF NextEntry
<1>11. Trying(s) => sch[s].queue # {} /\ sch[s].seats # {} /\ Seat(s) \in Seats
  <2>1. sch[s].seats \in SUBSET Nat
    BY <1>1, WaitAssumption
  <2> QED BY <1>1, <2>1, FirstIn DEF Trying, Seat
<1>12. CASE ListCandidates(s)
  <2>1. CASE Leave(s)
    BY <1>9, <1>12, <2>1 DEF ListCandidates
  <2>2. CASE sch' = [sch EXCEPT ![s] = [pc |-> "queue", seats |-> FreeSeats,
                                        queue |-> {}, tried |-> {}]]
    <3> DEFINE r == [pc |-> "queue", seats |-> FreeSeats, queue |-> {}, tried |-> {}]
    <3>1. r \in Rounds
      BY DEF Rounds, FreeSeats, WaitInv, TypeOK
    <3>2. r.queue = {} /\ r.pc # "mark"
      OBVIOUS
    <3>3. Stays
      BY <1>8, <1>12 DEF ListCandidates
    <3>4. sch' = [sch EXCEPT ![s] = r]
      BY <2>2
    <3> HIDE DEF r, Stays
    <3> QED BY <1>4, <3>1, <3>2, <3>3, <3>4
  <2> QED BY <1>12, <2>1, <2>2 DEF ListCandidates
<1>13. CASE ListQueue(s)
  <2> DEFINE r == [pc |-> "try", seats |-> sch[s].seats, queue |-> Heads, tried |-> {}]
  <2>1. sch' = [sch EXCEPT ![s] = r] /\ UNCHANGED <<entries, active, unfit, room, phase, join>>
    BY <1>13 DEF ListQueue
  <2>2. Heads \subseteq Waiting /\ Waiting \subseteq DOMAIN entries /\ Waiting \subseteq Ids
    <3>1. Waiting \subseteq 1..Len(entries)
      BY <1>2 DEF Waiting
    <3>2. 1..Len(entries) \subseteq Ids
      BY <1>2, WaitAssumption DEF Ids
    <3> QED BY <1>2, <3>1, <3>2 DEF Heads
  <2>3. r \in Rounds
    BY <1>1, <2>2 DEF Rounds
  <2>4. TypeOK'
    BY <2>1, <2>3 DEF WaitInv, TypeOK
  <2>5. ASSUME NEW t \in Schedulers
        PROVE  /\ sch'[t].queue \subseteq DOMAIN entries
               /\ \A e \in Waiting, f \in sch'[t].queue :
                      e < f => e \in sch'[t].queue \cup sch'[t].tried
               /\ sch'[t].pc = "mark" => sch'[t].queue # {}
    <3>1. CASE t # s
      BY <1>1, <2>1, <3>1 DEF WaitInv, OrderKept
    <3>2. CASE t = s
      <4>1. sch'[t].queue = Heads /\ sch'[t].pc = "try"
        BY <1>1, <2>1, <3>2
      <4>2. TypeOK
        BY DEF WaitInv
      <4> QED BY <2>2, <4>1, <4>2, HeadsClosed
    <3> QED BY <3>1, <3>2
  <2>6. OrderKept'
    <3>1. Waiting' = Waiting /\ entries' = entries
      BY <2>1 DEF Waiting
    <3> QED BY <2>5, <3>1 DEF OrderKept
  <2> QED BY <2>4, <2>6 DEF WaitInv
<1>14. CASE Refuse(s)
  <2>1. sch' = [sch EXCEPT ![s] = Past(sch[s].seats)]
    BY <1>1, <1>10, <1>11, <1>14 DEF Refuse
  <2>2. Past(sch[s].seats) \in Rounds
    BY <1>1, <1>6, <1>11, <1>14 DEF Refuse
  <2>3. Stays
    BY <1>8, <1>14 DEF Refuse
  <2> QED BY <1>4, <2>1, <2>2, <2>3
<1>15. CASE Book(s)
  <2>1. sch' = [sch EXCEPT ![s] = At("mark")] /\ At("mark") \in Rounds
    BY <1>7, <1>15 DEF Book
  <2>2. sch[s].queue # {} /\ User(s) \in Users /\ Seat(s) \in Seats
    BY <1>11, <1>15, EntryIn DEF Book
  <2>3. Stays
    BY <1>15, <2>2 DEF Book, WaitInv, TypeOK
  <2> QED BY <1>4, <2>1, <2>2, <2>3
<1>16. CASE BookingFails(s)
  <2>1. sch[s].queue # {} /\ User(s) \in Users /\ Seat(s) \in Seats
    BY <1>11, <1>16, EntryIn DEF BookingFails
  <2>2. sch' = [sch EXCEPT ![s] = Past(sch[s].seats)] /\ Past(sch[s].seats) \in Rounds
    BY <1>1, <1>6, <1>10, <1>16, <2>1 DEF BookingFails
  <2>3. Stays
    BY <1>16, <2>1 DEF BookingFails, WaitInv, TypeOK
  <2> QED BY <1>4, <2>2, <2>3
<1>17. CASE MarkPromoted(s)
  <2>1. sch[s].queue # {}
    BY <1>17 DEF MarkPromoted, WaitInv, OrderKept
  <2>2. /\ sch' = [sch EXCEPT ![s] = Past(sch[s].seats \ {Seat(s)})]
        /\ Past(sch[s].seats \ {Seat(s)}) \in Rounds
    BY <1>1, <1>6, <1>10, <1>17, <2>1 DEF MarkPromoted
  <2>3. /\ SetStatus({Entry(s)} \cap Waiting, "promoted")
        /\ UNCHANGED <<active, unfit, room, phase, join>>
    BY <1>17 DEF MarkPromoted
  <2>4. "promoted" \in Statuses \ {"waiting"}
    BY DEF Statuses
  <2> QED BY <1>3, <2>2, <2>3, <2>4
<1>18. CASE MarkFails(s)
  <2>1. sch[s].queue # {}
    BY <1>18 DEF MarkFails, WaitInv, OrderKept
  <2>2. sch' = [sch EXCEPT ![s] = Past(sch[s].seats)] /\ Past(sch[s].seats) \in Rounds
    BY <1>1, <1>6, <1>10, <1>18, <2>1 DEF MarkFails
  <2>3. UNCHANGED <<active, unfit, room, phase, join>>
    BY <1>18 DEF MarkFails
  <2>4. CASE UNCHANGED entries
    <3>1. Stays
      BY <1>8, <2>3, <2>4
    <3> QED BY <1>4, <2>2, <3>1
  <2>5. CASE SetStatus({Entry(s)} \cap Waiting, "promoted")
    <3>1. "promoted" \in Statuses \ {"waiting"}
      BY DEF Statuses
    <3> QED BY <1>3, <2>2, <2>3, <2>5, <3>1
  <2> QED BY <1>18, <2>4, <2>5 DEF MarkFails
<1>19. CASE EndPromote(s)
  BY <1>9, <1>19 DEF EndPromote
<1>20. CASE ListFails(s)
  BY <1>9, <1>20 DEF ListFails
<1>21. CASE ExpireOverdue(s)
  <2>1. sch' = [sch EXCEPT ![s] = At("wait")] /\ At("wait") \in Rounds
    BY <1>7, <1>21 DEF ExpireOverdue
  <2>2. PICK S : SetStatus(S, "expired")
    BY <1>21 DEF ExpireOverdue
  <2>3. "expired" \in Statuses \ {"waiting"} /\ UNCHANGED <<active, unfit, room, phase, join>>
    BY <1>21 DEF ExpireOverdue, Statuses
  <2> QED BY <1>3, <2>1, <2>2, <2>3
<1>22. CASE RoundEnds(s)
  <2>1. Asleep \in Rounds /\ Asleep.queue = {} /\ Asleep.pc # "mark"
    BY DEF Asleep, Rounds
  <2>2. sch' = [sch EXCEPT ![s] = Asleep]
    BY <1>22 DEF RoundEnds
  <2>3. Stays
    BY <1>8, <1>22 DEF RoundEnds
  <2> QED BY <1>4, <2>1, <2>2, <2>3
<1> QED BY <1>12, <1>13, <1>14, <1>15, <1>16, <1>17, <1>18, <1>19, <1>20, <1>21, <1>22 DEF RoundStep

\* Every other step leaves the rounds where they are and the queue no longer.
LEMMA OtherInv ==
    ASSUME WaitInv,
           \/ \E c \in Clients, u \in Users : JoinLook(c, u)
           \/ \E e \in Ids : Cancel(e)
           \/ \E u \in Users, seat \in Seats : Reserve(u, seat)
           \/ \E b \in active : Close(b)
           \/ \E u \in Restless : TurnUnfit(u)
           \/ \E seat \in Seats : ToggleSeat(seat)
           \/ MoveHours
           \/ TimePasses
           \/ UNCHANGED vars
    PROVE  WaitInv'
<1>1. ASSUME UNCHANGED entries, UNCHANGED sch PROVE OrderKept'
  BY <1>1, ListShrinks DEF Waiting
<1>2. ASSUME NEW c \in Clients, NEW u \in Users, JoinLook(c, u) PROVE WaitInv'
  BY <1>1, <1>2 DEF JoinLook, WaitInv, TypeOK
<1>3. ASSUME NEW e \in Ids, Cancel(e) PROVE WaitInv'
  <2>1. SetStatus({e}, "cancelled") /\ "cancelled" \in Statuses \ {"waiting"}
    BY <1>3 DEF Cancel, Statuses
  <2>2. UNCHANGED <<active, unfit, room, phase, join, sch>> /\ TypeOK
    BY <1>3 DEF Cancel, WaitInv
  <2>3. /\ entries' \in Seq(Entries) /\ Len(entries') = Len(entries)
        /\ DOMAIN entries' = DOMAIN entries /\ Waiting' \subseteq Waiting
    BY <2>1, <2>2, SetStatusEffect
  <2>4. OrderKept'
    BY <2>2, <2>3, ListShrinks
  <2> QED BY <2>2, <2>3, <2>4 DEF WaitInv, TypeOK
<1>4. ASSUME NEW u \in Users, NEW seat \in Seats, Reserve(u, seat) PROVE WaitInv'
  BY <1>1, <1>4 DEF Reserve, WaitInv, TypeOK
<1>5. ASSUME NEW b \in active, Close(b) PROVE WaitInv'
  BY <1>1, <1>5 DEF Close, WaitInv, TypeOK
<1>6. ASSUME NEW u \in Restless, TurnUnfit(u) PROVE WaitInv'
  BY <1>1, <1>6, WaitAssumption DEF TurnUnfit, WaitInv, TypeOK
<1>7. CASE TimePasses
  BY <1>1, <1>7 DEF TimePasses, Phases, WaitInv, TypeOK
<1>8. CASE UNCHANGED vars
  BY <1>1, <1>8 DEF vars, WaitInv, TypeOK
<1>9. ASSUME NEW seat \in Seats, ToggleSeat(seat) PROVE WaitInv'
  BY <1>1, <1>9 DEF ToggleSeat, WaitInv, TypeOK
<1>10. CASE MoveHours
  BY <1>1, <1>10 DEF MoveHours, WaitInv, TypeOK
<1> QED BY <1>2, <1>3, <1>4, <1>5, <1>6, <1>7, <1>8, <1>9, <1>10

\* WaitInv is inductive, and so holds in every reachable state.
LEMMA Invariant == Spec => []WaitInv
<1>1. WaitInv /\ [Next]_vars => WaitInv'
  <2> SUFFICES ASSUME WaitInv, [Next]_vars PROVE WaitInv'
    OBVIOUS
  <2>1. ASSUME NEW c \in Clients, JoinInsert(c) PROVE WaitInv'
    BY <2>1, RequestInv
  <2>2. ASSUME NEW s \in Schedulers,
               \/ RoundStep(s) \/ Book(s) \/ BookingFails(s)
               \/ MarkFails(s) \/ ListFails(s) \/ RoundEnds(s)
        PROVE  WaitInv'
    BY <2>2, RoundInv
  <2> QED BY <2>1, <2>2, OtherInv DEF Next
<1> QED BY <1>1, InitInv, PTL DEF Spec

\* The rows of the list and what requests and rounds hold keep their types, for any
\* number of requests and schedulers.
THEOREM TypeCorrect == Spec => []TypeOK
BY Invariant, PTL DEF WaitInv

\* First come, first served: no round offers a seat to an entry before it has
\* offered one to all who came earlier and still wait, however many requests,
\* cancellations, other rounds and failures run beside it (PromoteTick).
THEOREM FirstComeFirstServed == Spec => []NoOvertaking
<1>1. WaitInv => NoOvertaking
  <2> SUFFICES ASSUME WaitInv, NEW s \in Schedulers, Trying(s),
                      NEW e \in Waiting, e < Entry(s)
               PROVE  e \in sch[s].tried
    BY DEF NoOvertaking
  <2>1. Entry(s) \in sch[s].queue /\ \A f \in sch[s].queue : Entry(s) <= f
    BY EntryIn DEF Trying
  <2>2. e \in sch[s].queue \cup sch[s].tried
    BY <2>1 DEF WaitInv, OrderKept
  <2>3. e \in Int /\ Entry(s) \in Int
    BY <2>1, WaitAssumption DEF WaitInv, TypeOK, OrderKept, Rounds, Ids, Waiting
  <2>4. e \notin sch[s].queue
    BY <2>1, <2>3
  <2> QED BY <2>2, <2>4
<1> QED BY <1>1, Invariant, PTL

-------------------------------------------------------------------------------
(* Bookings for the waiting list are bookings. *)

\* The session as the one slot of a SeatLedger.
Session == "session"
Claim(b) == [user |-> b.user, seat |-> b.seat, slot |-> Session]
Ledger == INSTANCE SeatLedger WITH Slots <- {Session}, Begins <- [x \in {Session} |-> 0],
                                   Ends <- [x \in {Session} |-> 1],
                                   ledger <- {Claim(b) : b \in active}

\* Two claims of the session clash when they share the seat or the user.
LEMMA ClashIn ==
    ASSUME NEW b \in [user : Users, seat : Seats], NEW c \in [user : Users, seat : Seats],
           b.seat # c.seat, b.user # c.user
    PROVE  ~Ledger!Clash(Claim(b), Claim(c))
BY DEF Ledger!Clash, Claim

\* Whoever is booked, from the list or by hand, is granted a claim that clashes with none.
LEMMA BookedIsGranted ==
    ASSUME TypeOK, NEW u \in Users, NEW seat \in Seats, Bookable(u, seat),
           active' = active \cup {[user |-> u, seat |-> seat]}
    PROVE  Ledger!LedgerNext
<1> DEFINE c == [user |-> u, seat |-> seat]
<1>1. c \in [user : Users, seat : Seats] /\ c.user = u /\ c.seat = seat
  OBVIOUS
<1>2. \A b \in active : b \in [user : Users, seat : Seats] /\ b.seat # c.seat /\ b.user # c.user
  BY <1>1 DEF TypeOK, Bookable
<1>3. \A b \in {Claim(a) : a \in active} : ~Ledger!Clash(b, Claim(c))
  <2> HIDE DEF c
  <2> QED BY <1>1, <1>2, ClashIn
<1>4. {Claim(b) : b \in active'} = {Claim(b) : b \in active} \cup {Claim(c)}
  OBVIOUS
<1>5. Claim(c) \in Ledger!Claims
  BY <1>1 DEF Claim, Ledger!Claims
<1> HIDE DEF c
<1> QED BY <1>3, <1>4, <1>5 DEF Ledger!LedgerNext, Ledger!Grant

\* A row that is closed is released.
LEMMA ClosedIsReleased ==
    ASSUME TypeOK, NEW c \in active, active' = active \ {c}
    PROVE  Ledger!LedgerNext
<1>1. \A b \in active : /\ b \in [user : Users, seat : Seats]
                        /\ b = [user |-> Claim(b).user, seat |-> Claim(b).seat]
  BY DEF TypeOK, Claim
<1>2. \A b \in active : Claim(b) = Claim(c) => b = c
  BY <1>1
<1>3. {Claim(b) : b \in active'} = {Claim(b) : b \in active} \ {Claim(c)}
  <2> HIDE DEF Claim
  <2> QED BY <1>2
<1>4. Claim(c) \in Ledger!Claims
  BY <1>1 DEF Claim, Ledger!Claims
<1> HIDE DEF Claim
<1> QED BY <1>3, <1>4 DEF Ledger!LedgerNext, Ledger!Release

\* Rounds that book for the list while users book by hand, and that go on after a lost
\* answer, keep the promise of SeatLedger.
THEOREM LedgerImplemented == Spec => Ledger!LedgerSpec
<1>1. Init => Ledger!LedgerInit
  BY DEF Init, Ledger!LedgerInit
<1>2. WaitInv /\ [Next]_vars => [Ledger!LedgerNext]_{Claim(b) : b \in active}
  <2> SUFFICES ASSUME WaitInv, [Next]_vars, ~UNCHANGED active
               PROVE  Ledger!LedgerNext
    BY DEF Ledger!LedgerNext
  <2>0. TypeOK
    BY DEF WaitInv
  <2>1. ASSUME NEW s \in Schedulers, Book(s) \/ BookingFails(s) PROVE Ledger!LedgerNext
    <3>1. User(s) \in Users /\ Seat(s) \in Seats
      <4>1. Trying(s)
        BY <2>1 DEF Book, BookingFails
      <4>2. sch[s].seats \in SUBSET Nat /\ sch[s].seats \subseteq Seats
        BY <2>0, WaitAssumption DEF TypeOK, Rounds
      <4>3. Seat(s) \in sch[s].seats
        BY <4>1, <4>2, FirstIn DEF Seat, Trying
      <4> QED BY <4>1, <4>2, <4>3, EntryIn DEF Trying
    <3>2. Bookable(User(s), Seat(s))
          /\ active' = active \cup {[user |-> User(s), seat |-> Seat(s)]}
      BY <2>1 DEF Book, BookingFails
    <3> QED BY <2>0, <3>1, <3>2, BookedIsGranted
  <2>2. ASSUME NEW u \in Users, NEW seat \in Seats, Reserve(u, seat) PROVE Ledger!LedgerNext
    BY <2>0, <2>2, BookedIsGranted DEF Reserve
  <2>3. ASSUME NEW c \in active, Close(c) PROVE Ledger!LedgerNext
    BY <2>0, <2>3, ClosedIsReleased DEF Close
  <2> QED
    BY <2>1, <2>2, <2>3
    DEF Next, RoundStep, vars, JoinLook, JoinInsert, Cancel, ListCandidates, ListQueue, Refuse,
        MarkPromoted, MarkFails, EndPromote, ListFails, ExpireOverdue, RoundEnds, TurnUnfit,
        ToggleSeat, MoveHours, TimePasses
<1> QED BY <1>1, <1>2, Invariant, PTL DEF Spec, Ledger!LedgerSpec
===============================================================================

---------------------------- MODULE AgentProofs ----------------------------
(***************************************************************************)
(* Proofs about Agent, for every number of records and chats, every kind   *)
(* of record and every bound.  IndInv says where the record in hand        *)
(* stands, that what is held was passed and is held once, and what is left *)
(* at the end of a process.                                                *)
(***************************************************************************)
EXTENDS Agent, TLAPS

---------------------------------------------------------------------------
(* Sequences of updates. *)

\* Append adds one update to what a buffer holds.
LEMMA AppendRange ==
    ASSUME NEW S, NEW s \in Seq(S), NEW x \in S
    PROVE  Range(Append(s, x)) = Range(s) \cup {x}
<1> DEFINE t == Append(s, x)
<1>1. /\ Len(t) = Len(s) + 1 /\ Len(s) \in Nat
      /\ DOMAIN t = 1 .. Len(t) /\ DOMAIN s = 1 .. Len(s)
      /\ \A i \in 1 .. Len(s) : t[i] = s[i]
      /\ t[Len(s) + 1] = x
  OBVIOUS
<1> HIDE DEF t
<1>2. \A y \in Range(t) : y \in Range(s) \cup {x}
  BY <1>1 DEF Range
<1>3. Range(s) \subseteq Range(t)
  BY <1>1 DEF Range
<1>4. x \in Range(t)
  BY <1>1 DEF Range
<1> QED
  BY <1>2, <1>3, <1>4 DEF t

\* An update later than all of a buffer keeps the buffer in order.
LEMMA AppendAscends ==
    ASSUME NEW S \in SUBSET Nat, NEW s \in Seq(S), NEW x \in S, Ascending(s),
           \A o \in Range(s) : o < x
    PROVE  Ascending(Append(s, x))
<1> DEFINE t == Append(s, x)
<1>1. /\ Len(t) = Len(s) + 1 /\ Len(s) \in Nat
      /\ DOMAIN t = 1 .. Len(t) /\ DOMAIN s = 1 .. Len(s)
      /\ \A i \in 1 .. Len(s) : t[i] = s[i]
      /\ t[Len(s) + 1] = x
  OBVIOUS
<1> HIDE DEF t
<1>2. \A i \in 1 .. Len(s) : s[i] < x
  BY <1>1 DEF Range
<1>3. \A i, j \in 1 .. Len(s) : i < j => s[i] < s[j]
  BY <1>1 DEF Ascending
<1>4. SUFFICES ASSUME NEW i \in 1 .. Len(t), NEW j \in 1 .. Len(t), i < j
               PROVE  t[i] < t[j]
  BY <1>1 DEF Ascending, t
<1>5. i \in 1 .. Len(s)
  BY <1>1, <1>4
<1>6. CASE j = Len(s) + 1
  BY <1>1, <1>2, <1>5, <1>6
<1>7. CASE j # Len(s) + 1
  <2>1. j \in 1 .. Len(s)
    BY <1>1, <1>4, <1>7
  <2> QED
    BY <1>1, <1>3, <1>4, <1>5, <2>1
<1> QED
  BY <1>6, <1>7

\* An empty buffer holds nothing.
LEMMA EmptyRange == Range(<<>>) = {}
BY DEF Range

---------------------------------------------------------------------------
(* Types. *)

\* While the consumer has a record in hand, position is its offset.
LEMMA InHandIsAnOffset ==
    ASSUME TypeOK, RecordInHand,
           pc \in {"process", "add", "deadletter", "commit"}
    PROVE  position \in Offsets
BY RecordsAssumption DEF TypeOK, RecordInHand, Offsets

\* An update that is added keeps the types of the buffers and of the loop.
LEMMA AddType ==
    ASSUME TypeOK, position \in Offsets, AddForChat, pc = "add"
    PROVE  /\ buffer' \in [Chats -> Seq(Offsets)]
           /\ armed' \subseteq Chats
           /\ chat' \in Chats
           /\ pc' \in {"add", "commit"}
<1>1. chat \in Chats /\ buffer \in [Chats -> Seq(Offsets)] /\ armed \subseteq Chats
  BY DEF TypeOK
<1>2. Append(buffer[chat], position) \in Seq(Offsets)
  BY <1>1
<1>3. buffer' \in [Chats -> Seq(Offsets)]
  BY <1>1, <1>2 DEF AddForChat
<1>4. armed' \subseteq Chats
  BY <1>1 DEF AddForChat
<1>5. chat' \in Chats
  BY <1>1, ChatsAssumption DEF AddForChat, Chats
<1> QED
  BY <1>3, <1>4, <1>5 DEF AddForChat

\* A buffer that is taken keeps the types of the buffers and of the groups.
LEMMA TakeType ==
    ASSUME TypeOK, NEW c \in Chats, NEW who \in {"timer", "main"}, Take(c, who)
    PROVE  /\ buffer' \in [Chats -> Seq(Offsets)]
           /\ armed' \subseteq Chats
           /\ flights' \subseteq Groups
<1>1. buffer \in [Chats -> Seq(Offsets)] /\ armed \subseteq Chats
      /\ flights \subseteq Groups
  BY DEF TypeOK
<1>2. <<>> \in Seq(Offsets)
  OBVIOUS
<1>3. [chat |-> c, by |-> who, updates |-> buffer[c]] \in Groups
  BY <1>1 DEF Groups
<1> QED
  BY <1>1, <1>2, <1>3 DEF Take

\* A group that is published keeps the type of copies.
LEMMA PublishType ==
    ASSUME TypeOK, NEW g, Publish(g)
    PROVE  copies' \in [Offsets -> [Chats -> Nat]]
<1>1. \A o \in Offsets, c \in Chats : copies[o][c] \in Nat
  BY DEF TypeOK
<1> QED
  BY <1>1 DEF Publish

\* Buffers and groups hold updates of the partition, groups are for a chat.
LEMMA HeldType ==
    ASSUME TypeOK
    PROVE  /\ \A c \in Chats : Range(buffer[c]) \subseteq Offsets
           /\ \A g \in flights : /\ g.chat \in Chats
                                /\ g.updates \in Seq(Offsets)
                                /\ Range(g.updates) \subseteq Offsets
<1>1. ASSUME NEW c \in Chats PROVE Range(buffer[c]) \subseteq Offsets
  <2>1. buffer[c] \in Seq(Offsets)
    BY DEF TypeOK
  <2> QED
    BY <2>1 DEF Range
<1>2. ASSUME NEW g \in flights
      PROVE  /\ g.chat \in Chats
             /\ g.updates \in Seq(Offsets)
             /\ Range(g.updates) \subseteq Offsets
  <2>1. g \in Groups
    BY DEF TypeOK
  <2>2. g.chat \in Chats /\ g.updates \in Seq(Offsets)
    BY <2>1 DEF Groups
  <2> QED
    BY <2>2 DEF Range
<1> QED
  BY <1>1, <1>2

\* What the agent holds are updates of the partition for chats of theirs.
LEMMA InHandType == TypeOK => InHand \subseteq Offsets \X Chats
BY HeldType DEF InHand, Held, InFlight

\* The process that is gone keeps the types.
LEMMA GoneType ==
    ASSUME TypeOK, Gone
    PROVE  /\ pc' = "down" /\ lost' \subseteq Offsets \X Chats
           /\ buffer' \in [Chats -> Seq(Offsets)] /\ armed' \subseteq Chats
           /\ fired' \in [Chats -> Nat] /\ flights' \subseteq Groups
           /\ toFlush' \subseteq Chats
<1>1. lost' \subseteq Offsets \X Chats
  BY InHandType DEF Gone, TypeOK
<1>2. <<>> \in Seq(Offsets)
  OBVIOUS
<1> QED
  BY <1>1, <1>2 DEF Gone

\* The loop over TgChatIDs has a first chat.
LEMMA FirstChat == 1 \in Chats
BY ChatsAssumption DEF Chats

\* Every variable keeps its type.
LEMMA NextType == TypeOK /\ RecordInHand /\ [Next]_vars => TypeOK'
<1> SUFFICES ASSUME TypeOK, RecordInHand, [Next]_vars PROVE TypeOK'
  OBVIOUS
<1>1. CASE Poll
  <2>1. position' \in 0 .. Records
    BY <1>1, RecordsAssumption DEF Poll, TypeOK
  <2>2. attempt' \in 0 .. MaxRetries
    BY <1>1, BoundsAssumption DEF Poll
  <2> QED
    BY <1>1, <2>1, <2>2, FirstChat
       DEF Poll, TypeOK, grouping, history
<1>2. CASE Process
  BY <1>2 DEF Process, TypeOK, consumer, grouping, history
<1>3. CASE ProcessFails
  <2>1. attempt' \in 0 .. MaxRetries
    BY <1>3, BoundsAssumption DEF ProcessFails, TypeOK
  <2>2. faults' \in Nat
    BY <1>3 DEF ProcessFails, Fault, TypeOK
  <2> QED
    BY <1>3, <2>1, <2>2 DEF ProcessFails, TypeOK, grouping, history
<1>4. CASE Add
  <2>1. position \in Offsets
    BY <1>4, InHandIsAnOffset DEF Add
  <2> QED
    BY <1>4, <2>1, AddType DEF Add, TypeOK, history
<1>5. CASE Bury
  <2>1. position \in Offsets
    BY <1>5, InHandIsAnOffset DEF Bury
  <2> QED
    BY <1>5, <2>1 DEF Bury, TypeOK, consumer, grouping
<1>6. CASE Commit
  BY <1>6 DEF Commit, TypeOK, grouping, history
<1>7. CASE Stop
  <2>1. dlq' \subseteq Offsets
    BY <1>7, InHandIsAnOffset DEF Stop, TypeOK
  <2>2. toFlush' \subseteq Chats
    BY <1>7 DEF Stop, ChatsWithBuffer
  <2> QED
    BY <1>7, <2>1, <2>2 DEF Stop, TypeOK, consumer
<1>8. CASE Signal
  BY <1>8 DEF Signal, Fault, TypeOK, consumer, grouping, history
<1>9. CASE Exit
  BY <1>9, GoneType DEF Exit, Gone, TypeOK
<1>10. ASSUME NEW c \in Chats, FlushNext(c) PROVE TypeOK'
  <2>1. toFlush' \subseteq Chats
    BY <1>10 DEF FlushNext, TypeOK
  <2>2. CASE Take(c, "main")
    BY <1>10, <2>1, <2>2, TakeType DEF FlushNext, TypeOK, consumer, history
  <2>3. CASE UNCHANGED <<buffer, armed, flights>>
    BY <1>10, <2>1, <2>3 DEF FlushNext, TypeOK, consumer, history
  <2> QED
    BY <1>10, <2>2, <2>3 DEF FlushNext
<1>11. CASE Die
  <2>1. committed' \in 0 .. Records /\ faults' \in Nat
    BY <1>11 DEF Die, Fault, TypeOK
  <2>2. dlq' \subseteq Offsets
    BY <1>11, InHandIsAnOffset DEF Die, TypeOK
  <2> QED
    BY <1>11, <2>1, <2>2, GoneType DEF Die, Gone, TypeOK
<1>12. CASE Start
  <2>1. attempt' \in 0 .. MaxRetries
    BY <1>12, BoundsAssumption DEF Start
  <2> QED
    BY <1>12, <2>1, FirstChat DEF Start, TypeOK, grouping
<1>13. ASSUME NEW c \in Chats, TimerFires(c) PROVE TypeOK'
  BY <1>13 DEF TimerFires, TypeOK, consumer, history
<1>14. ASSUME NEW c \in Chats, TimerFlushes(c) PROVE TypeOK'
  <2>1. fired' \in [Chats -> Nat]
    BY <1>14 DEF TimerFlushes, TypeOK
  <2>2. CASE Take(c, "timer")
    BY <1>14, <2>1, <2>2, TakeType DEF TimerFlushes, TypeOK, consumer, history
  <2>3. CASE UNCHANGED <<buffer, armed, flights>>
    BY <1>14, <2>1, <2>3 DEF TimerFlushes, TypeOK, consumer, history
  <2> QED
    BY <1>14, <2>2, <2>3 DEF TimerFlushes
<1>15. ASSUME NEW g \in flights, ProduceGroup(g) PROVE TypeOK'
  <2>1. InFlight(g) \subseteq Offsets \X Chats
    BY InHandType DEF InHand
  <2>2. lost' \subseteq Offsets \X Chats
    BY <1>15, <2>1 DEF ProduceGroup, TypeOK
  <2>3. copies' \in [Offsets -> [Chats -> Nat]]
    BY <1>15, PublishType DEF ProduceGroup, TypeOK
  <2>4. faults' \in Nat
    BY <1>15 DEF ProduceGroup, Fault, TypeOK
  <2> QED
    BY <1>15, <2>2, <2>3, <2>4 DEF ProduceGroup, TypeOK, consumer
<1>16. CASE UNCHANGED vars
  BY <1>16 DEF vars, TypeOK, consumer, grouping, history
<1> QED
  BY <1>1, <1>2, <1>3, <1>4, <1>5, <1>6, <1>7, <1>8, <1>9, <1>10, <1>11, <1>12,
     <1>13, <1>14, <1>15, <1>16
     DEF Next, ConsumerStep, MainStep, TimerStep

---------------------------------------------------------------------------
(* What the agent holds. *)

\* What is held is in a buffer or in a group, and so it is after a step.
LEMMA InHandMembers ==
    ASSUME NEW o, NEW c
    PROVE  <<o, c>> \in InHand <=>
              \/ c \in Chats /\ o \in Range(buffer[c])
              \/ \E g \in flights : g.chat = c /\ o \in Range(g.updates)
BY DEF InHand, Held, InFlight

LEMMA InHandMembersNext ==
    ASSUME NEW o, NEW c
    PROVE  (<<o, c>> \in InHand)' <=>
              \/ c \in Chats /\ o \in Range(buffer'[c])
              \/ \E g \in flights' : g.chat = c /\ o \in Range(g.updates)
BY DEF InHand, Held, InFlight

\* A step adds an update to a buffer, takes a buffer, publishes a group, ends
\* the process, or leaves alone what is held and what became of the rest.
LEMMA StepShapes ==
    ASSUME [Next]_vars
    PROVE  \/ Add
           \/ \E c \in Chats, who \in {"timer", "main"} :
                 /\ Take(c, who)
                 /\ UNCHANGED <<consumer, pc, history>>
           \/ \E g \in flights : ProduceGroup(g)
           \/ Gone /\ dlq \subseteq dlq'
           \/ Start
           \/ /\ UNCHANGED <<buffer, flights, copies, lost, starts>>
              /\ dlq \subseteq dlq'
              /\ pc = "down" => pc' = "down"
<1>1. CASE Poll BY <1>1 DEF Poll, grouping, history
<1>2. CASE Process BY <1>2 DEF Process, grouping, history
<1>3. CASE ProcessFails BY <1>3 DEF ProcessFails, grouping, history
<1>4. CASE Bury BY <1>4 DEF Bury, grouping
<1>5. CASE Commit BY <1>5 DEF Commit, grouping, history
<1>6. CASE Stop BY <1>6 DEF Stop
<1>7. CASE Signal BY <1>7 DEF Signal, grouping, history
<1>8. CASE Exit BY <1>8 DEF Exit
<1>9. CASE Die BY <1>9 DEF Die
<1>10. ASSUME NEW c \in Chats, TimerFires(c)
       PROVE  /\ UNCHANGED <<buffer, flights, copies, lost, starts, dlq, pc>>
  BY <1>10 DEF TimerFires, history
<1>11. ASSUME NEW c \in Chats, TimerFlushes(c)
       PROVE  /\ \/ Take(c, "timer")
                 \/ UNCHANGED <<buffer, flights>>
              /\ UNCHANGED <<consumer, pc, history>>
  BY <1>11 DEF TimerFlushes
<1>12. ASSUME NEW c \in Chats, FlushNext(c)
       PROVE  /\ \/ Take(c, "main")
                 \/ UNCHANGED <<buffer, flights>>
              /\ UNCHANGED <<consumer, pc, history>>
  BY <1>12 DEF FlushNext
<1>13. CASE UNCHANGED vars BY <1>13 DEF vars, grouping, history
<1>14. CASE \E c \in Chats : TimerStep(c)
  <2>1. PICK c \in Chats : TimerFires(c) \/ TimerFlushes(c)
    BY <1>14 DEF TimerStep
  <2>2. CASE TimerFires(c)
    BY <2>2, <1>10
  <2>3. CASE TimerFlushes(c)
    BY <2>3, <1>11 DEF history
  <2> QED
    BY <2>1, <2>2, <2>3
<1>15. CASE \E c \in Chats : FlushNext(c)
  BY <1>15, <1>12 DEF history
<1> QED
  BY <1>1, <1>2, <1>3, <1>4, <1>5, <1>6, <1>7, <1>8, <1>9, <1>13, <1>14, <1>15
     DEF Next, ConsumerStep, MainStep

\* What the consumer has been past stays passed as long as the process lives.
LEMMA PassedStays ==
    ASSUME TypeOK, RecordInHand, [Next]_vars, ~ Start,
           NEW o \in Nat, NEW c \in Chats, Passed(o, c)
    PROVE  Passed(o, c)'
<1>0. position \in Nat /\ chat \in Nat /\ c \in Nat
  BY DEF TypeOK, Chats
<1>1. CASE Poll BY <1>0, <1>1 DEF Poll, Passed
<1>2. CASE Process BY <1>2 DEF Process, Passed, consumer
<1>3. CASE ProcessFails BY <1>3 DEF ProcessFails, Passed
<1>4. CASE Add BY <1>0, <1>4 DEF Add, AddForChat, Passed
<1>5. CASE Bury BY <1>5 DEF Bury, Passed, consumer
<1>6. CASE Commit BY <1>6 DEF Commit, Passed
<1>7. CASE Stop BY <1>7 DEF Stop, Passed, consumer
<1>8. CASE Signal BY <1>8 DEF Signal, Passed, consumer
<1>9. CASE Exit BY <1>9 DEF Exit, Gone, Passed
<1>10. CASE Die BY <1>10 DEF Die, Gone, Passed
<1>11. ASSUME NEW d \in Chats, FlushNext(d) PROVE Passed(o, c)'
  BY <1>11 DEF FlushNext, Passed, consumer
<1>12. ASSUME NEW d \in Chats, TimerFires(d) PROVE Passed(o, c)'
  BY <1>12 DEF TimerFires, Passed, consumer
<1>13. ASSUME NEW d \in Chats, TimerFlushes(d) PROVE Passed(o, c)'
  BY <1>13 DEF TimerFlushes, Passed, consumer
<1>14. ASSUME NEW g \in flights, ProduceGroup(g) PROVE Passed(o, c)'
  BY <1>14 DEF ProduceGroup, Passed, consumer
<1>15. CASE UNCHANGED vars BY <1>15 DEF vars, Passed, consumer
<1> QED
  BY <1>1, <1>2, <1>3, <1>4, <1>5, <1>6, <1>7, <1>8, <1>9, <1>10, <1>11, <1>12,
     <1>13, <1>14, <1>15
     DEF Next, ConsumerStep, MainStep, TimerStep

\* A buffer that is taken leaves the others alone.
LEMMA TakeLeaves ==
    ASSUME TypeOK, NEW c \in Chats, NEW who, Take(c, who)
    PROVE  /\ buffer'[c] = <<>>
           /\ \A d \in Chats \ {c} : buffer'[d] = buffer[d]
           /\ \A g \in flights' :
                 g \in flights \/ (g.chat = c /\ g.updates = buffer[c])
           /\ flights \subseteq flights'
           /\ \E g \in flights' : g.chat = c /\ g.updates = buffer[c]
<1> DEFINE new == [chat |-> c, by |-> who, updates |-> buffer[c]]
<1>1. DOMAIN buffer = Chats
  BY DEF TypeOK
<1>2. new.chat = c /\ new.updates = buffer[c]
  OBVIOUS
<1>3. flights' = flights \cup {new} /\ buffer' = [buffer EXCEPT ![c] = <<>>]
  BY DEF Take
<1> HIDE DEF new
<1>4. buffer'[c] = <<>> /\ \A d \in Chats \ {c} : buffer'[d] = buffer[d]
  BY <1>1, <1>3
<1> QED
  BY <1>2, <1>3, <1>4

\* So does an update that is added.
LEMMA AddLeaves ==
    ASSUME TypeOK, Add
    PROVE  /\ buffer'[chat] = Append(buffer[chat], position)
           /\ \A d \in Chats \ {chat} : buffer'[d] = buffer[d]
           /\ chat \in Chats
           /\ flights' = flights
BY DEF Add, AddForChat, TypeOK

\* Buffers and groups stay in the order of the topic.
LEMMA NextInOrder ==
    ASSUME TypeOK, RecordInHand, GroupsAreInOrder, HeldOnce, [Next]_vars
    PROVE  GroupsAreInOrder'
<1>0. Offsets \subseteq Nat
  BY DEF Offsets
<1>1. CASE Add
  <2>1. position \in Offsets /\ pc = "add"
    BY <1>1, InHandIsAnOffset DEF Add
  <2>2. chat \in Chats /\ chat \in Nat /\ buffer[chat] \in Seq(Offsets)
    BY DEF TypeOK, Chats
  <2>3. \A o \in Range(buffer[chat]) : o < position
    BY <2>1, <2>2 DEF HeldOnce, Passed
  <2>4. \A g \in flights : g.chat = chat =>
           \A o \in Range(g.updates) : o < position
    BY <2>1, <2>2 DEF HeldOnce, Passed
  <2>5. Ascending(Append(buffer[chat], position))
    <3>1. Ascending(buffer[chat])
      BY <2>2 DEF GroupsAreInOrder
    <3> QED
      BY <1>0, <2>1, <2>2, <2>3, <3>1, AppendAscends
  <2>6. Range(Append(buffer[chat], position)) = Range(buffer[chat]) \cup {position}
    BY <2>1, <2>2, AppendRange
  <2>7. ASSUME NEW c \in Chats PROVE Ascending(buffer'[c])
    BY <1>1, <2>5, <2>7, AddLeaves DEF GroupsAreInOrder
  <2>8. ASSUME NEW g \in flights', NEW o \in Range(g.updates),
               NEW q \in Range(buffer'[g.chat])
        PROVE  o < q
    <3>1. g \in flights /\ g.chat \in Chats
      BY <1>1, AddLeaves, HeldType
    <3>2. CASE g.chat = chat
      BY <1>1, <2>4, <2>6, <2>8, <3>1, <3>2, AddLeaves DEF GroupsAreInOrder
    <3>3. CASE g.chat # chat
      BY <1>1, <2>8, <3>1, <3>3, AddLeaves DEF GroupsAreInOrder
    <3> QED
      BY <3>2, <3>3
  <2>9. \A g \in flights' : Ascending(g.updates)
    BY <1>1, AddLeaves DEF GroupsAreInOrder
  <2> QED
    BY <2>7, <2>8, <2>9 DEF GroupsAreInOrder, Ascending
<1>2. ASSUME NEW d \in Chats, NEW who \in {"timer", "main"}, Take(d, who)
      PROVE  GroupsAreInOrder'
  <2>1. ASSUME NEW c \in Chats PROVE Ascending(buffer'[c])
    <3>1. CASE c = d
      BY <1>2, <3>1, TakeLeaves DEF Ascending
    <3>2. CASE c # d
      BY <1>2, <3>2, TakeLeaves DEF GroupsAreInOrder
    <3> QED
      BY <3>1, <3>2
  <2>2. ASSUME NEW g \in flights' PROVE Ascending(g.updates)
    BY <1>2, TakeLeaves DEF GroupsAreInOrder
  <2>3. ASSUME NEW g \in flights', NEW o \in Range(g.updates),
               NEW q \in Range(buffer'[g.chat])
        PROVE  o < q
    <3>1. g.chat \in Chats
      BY <1>2, TakeLeaves, HeldType
    <3>2. g.chat # d
      BY <1>2, <2>3, TakeLeaves, EmptyRange
    <3>3. g \in flights /\ buffer'[g.chat] = buffer[g.chat]
      BY <1>2, <3>1, <3>2, TakeLeaves
    <3> QED
      BY <2>3, <3>3 DEF GroupsAreInOrder
  <2> QED
    BY <2>1, <2>2, <2>3 DEF GroupsAreInOrder, Ascending
<1>3. CASE \E g \in flights : ProduceGroup(g)
  <2>1. flights' \subseteq flights /\ buffer' = buffer
    BY <1>3 DEF ProduceGroup
  <2> QED
    BY <2>1 DEF GroupsAreInOrder, Ascending
<1>4. CASE Gone
  <2>1. flights' = {} /\ \A c \in Chats : buffer'[c] = <<>>
    BY <1>4 DEF Gone
  <2> QED
    BY <2>1 DEF GroupsAreInOrder, Ascending
<1>5. CASE UNCHANGED <<buffer, flights>>
  BY <1>5 DEF GroupsAreInOrder, Ascending
<1>6. CASE Start
  BY <1>5, <1>6 DEF Start, grouping
<1> QED
  BY <1>1, <1>2, <1>3, <1>4, <1>5, <1>6, StepShapes

\* What is published is what the group holds, once each.
LEMMA PublishCounts ==
    ASSUME TypeOK, NEW g, Publish(g), NEW o \in Offsets, NEW c \in Chats
    PROVE  copies'[o][c] = IF <<o, c>> \in InFlight(g) THEN copies[o][c] + 1
                                                        ELSE copies[o][c]
BY DEF Publish

\* Producing a group leaves the buffers and the other groups, and adds one to
\* the copies of its updates at most.
LEMMA ProduceLeaves ==
    ASSUME TypeOK, NEW g \in flights, ProduceGroup(g)
    PROVE  /\ buffer' = buffer /\ flights' = flights \ {g}
           /\ UNCHANGED <<consumer, pc, starts, dlq>>
           /\ \A o \in Offsets, c \in Chats :
                 \/ copies'[o][c] = copies[o][c]
                 \/ /\ <<o, c>> \in InFlight(g)
                    /\ copies'[o][c] = copies[o][c] + 1
<1>1. buffer' = buffer /\ flights' = flights \ {g}
      /\ UNCHANGED <<consumer, pc, starts, dlq>>
  BY DEF ProduceGroup
<1>2. Publish(g) \/ UNCHANGED copies
  BY DEF ProduceGroup
<1> QED
  BY <1>1, <1>2, PublishCounts

\* No chat has more copies of an update than there were starts.
LEMMA NextRepetitions ==
    ASSUME TypeOK, HeldOnce, EndOfProcess, RepetitionsNeedARestart, [Next]_vars
    PROVE  RepetitionsNeedARestart'
<1>0. /\ \A o \in Offsets, c \in Chats : copies[o][c] \in Nat
      /\ starts \in Nat
  BY DEF TypeOK
<1>1. ASSUME NEW g \in flights, ProduceGroup(g) PROVE RepetitionsNeedARestart'
  <2>1. pc # "down"
    BY <1>1 DEF EndOfProcess
  <2>2. InFlight(g) \subseteq InHand
    BY <1>1 DEF InHand
  <2>3. ASSUME NEW o \in Offsets, NEW c \in Chats
        PROVE  copies'[o][c] <= starts'
    <3>1. copies[o][c] <= starts
      BY DEF RepetitionsNeedARestart
    <3>2. <<o, c>> \in InFlight(g) => copies[o][c] < starts
      BY <2>1, <2>2 DEF HeldOnce
    <3> QED
      BY <1>0, <1>1, <3>1, <3>2, ProduceLeaves
  <2> QED
    BY <2>3 DEF RepetitionsNeedARestart
<1>2. CASE UNCHANGED <<copies, starts>>
  BY <1>2 DEF RepetitionsNeedARestart
<1>3. CASE Start
  BY <1>0, <1>3 DEF Start, RepetitionsNeedARestart
<1>4. CASE Gone
  BY <1>2, <1>4 DEF Gone
<1>5. CASE Add
  BY <1>2, <1>5 DEF Add, history
<1>6. CASE UNCHANGED history
  BY <1>2, <1>6 DEF history
<1> QED
  BY <1>1, <1>2, <1>3, <1>4, <1>5, <1>6, StepShapes

\* What is held stays held at most once.
LEMMA NextHeldOnce ==
    ASSUME TypeOK, RecordInHand, GroupsAreInOrder, HeldOnce, EndOfProcess,
           RepetitionsNeedARestart, [Next]_vars
    PROVE  HeldOnce'
<1>0. /\ Offsets \subseteq Nat /\ Chats \subseteq Nat
      /\ \A o \in Offsets, c \in Chats : copies[o][c] \in Nat
      /\ starts \in Nat
  <2>1. Offsets \subseteq Nat /\ Chats \subseteq Nat
    BY DEF Offsets, Chats
  <2>2. /\ \A o \in Offsets, c \in Chats : copies[o][c] \in Nat
        /\ starts \in Nat
    BY DEF TypeOK
  <2> QED
    BY <2>1, <2>2
<1>1. CASE Start
  <2>1. flights' = {} /\ \A c \in Chats : buffer'[c] = <<>>
    BY <1>1 DEF Start, EndOfProcess, grouping
  <2>2. \A o \in Offsets, c \in Chats : copies'[o][c] < starts'
    BY <1>0, <1>1 DEF Start, RepetitionsNeedARestart
  <2> QED
    BY <2>1, <2>2, EmptyRange DEF HeldOnce
<1>2. CASE Gone
  <2>1. pc' = "down" /\ flights' = {} /\ \A c \in Chats : buffer'[c] = <<>>
    BY <1>2 DEF Gone
  <2> QED
    BY <2>1, EmptyRange DEF HeldOnce
<1>3. CASE Add /\ ~ Start
  <2>1. position \in Offsets /\ pc = "add"
    BY <1>3, InHandIsAnOffset DEF Add
  <2>2. chat \in Chats /\ buffer[chat] \in Seq(Offsets)
    BY DEF TypeOK
  <2>3. PICK p, d : p = position /\ d = chat
    OBVIOUS
  <2>4. /\ Range(buffer'[d]) = Range(buffer[d]) \cup {p}
        /\ \A c \in Chats \ {d} : buffer'[c] = buffer[c]
    <3>1. Range(Append(buffer[chat], position)) = Range(buffer[chat]) \cup {position}
      BY <2>1, <2>2, AppendRange
    <3> QED
      BY <1>3, <2>3, <3>1, AddLeaves
  <2>4a. Passed(p, d)'
    <3>1. /\ position' = position
          /\ chat \in Nat
          /\ pc' = "commit" \/ (pc' = pc /\ chat' = chat + 1)
      BY <1>0, <1>3, <2>2 DEF Add, AddForChat
    <3> QED
      BY <2>1, <2>3, <3>1 DEF Passed
  <2>5. ASSUME NEW c \in Chats, NEW o \in Range(buffer'[c]) PROVE Passed(o, c)'
    <3>1. CASE c = d /\ o = p
      BY <2>4a, <3>1
    <3>2. CASE ~ (c = d /\ o = p)
      <4>1. o \in Range(buffer[c])
        BY <2>4, <2>5, <3>2
      <4>2. Passed(o, c) /\ o \in Nat
        BY <1>0, <4>1, HeldType DEF HeldOnce
      <4> QED
        BY <1>3, <4>2, PassedStays
    <3> QED
      BY <3>1, <3>2
  <2>6. ASSUME NEW g \in flights', NEW o \in Range(g.updates)
        PROVE  Passed(o, g.chat)'
    <3>1. g \in flights
      BY <1>3, AddLeaves
    <3>2. Passed(o, g.chat) /\ o \in Nat /\ g.chat \in Chats
      BY <1>0, <3>1, HeldType DEF HeldOnce
    <3> QED
      BY <1>3, <3>2, PassedStays
  <2>7. ASSUME NEW g \in flights', NEW h \in flights', g # h, g.chat = h.chat
        PROVE  Range(g.updates) \cap Range(h.updates) = {}
    BY <1>3, <2>7, AddLeaves DEF HeldOnce
  <2>8. ASSUME NEW o \in Offsets, NEW c \in Chats,
               (<<o, c>> \in InHand)' \/ ~ Passed(o, c)'
        PROVE  copies'[o][c] < starts'
    <3>1. UNCHANGED <<copies, starts>>
      BY <1>3 DEF Add, history
    <3>2. \/ <<o, c>> \in InHand
          \/ ~ Passed(o, c)
      <4>1. CASE ~ Passed(o, c)'
        BY <1>0, <1>3, <4>1, PassedStays
      <4>2. CASE (<<o, c>> \in InHand)'
        <5>1. CASE c = d /\ o = p
          BY <1>0, <2>1, <2>2, <2>3, <5>1 DEF Passed
        <5>2. CASE ~ (c = d /\ o = p)
          BY <1>3, <2>4, <4>2, <5>2, AddLeaves, InHandMembers, InHandMembersNext
        <5> QED
          BY <5>1, <5>2
      <4> QED
        BY <2>8, <4>1, <4>2
    <3> QED
      BY <2>1, <3>1, <3>2 DEF HeldOnce
  <2> QED
    BY <2>5, <2>6, <2>7, <2>8 DEF HeldOnce
<1>4. ASSUME NEW d \in Chats, NEW who \in {"timer", "main"}, Take(d, who),
             UNCHANGED <<consumer, pc, history>>
      PROVE  HeldOnce'
  <2>1. \A o, c : Passed(o, c)' <=> Passed(o, c)
    BY <1>4 DEF Passed, consumer
  <2>2. ASSUME NEW c \in Chats, NEW o \in Range(buffer'[c]) PROVE Passed(o, c)'
    BY <1>4, <2>1, <2>2, TakeLeaves, EmptyRange DEF HeldOnce
  <2>3. ASSUME NEW g \in flights', NEW o \in Range(g.updates)
        PROVE  Passed(o, g.chat)'
    BY <1>4, <2>1, <2>3, TakeLeaves DEF HeldOnce
  <2>4. \A g \in flights : g.chat = d =>
           Range(g.updates) \cap Range(buffer[d]) = {}
    <3> SUFFICES ASSUME NEW g \in flights, g.chat = d,
                        NEW o \in Range(g.updates), o \in Range(buffer[d])
                 PROVE  FALSE
      OBVIOUS
    <3>1. o < o
      BY DEF GroupsAreInOrder
    <3>2. o \in Nat
      BY <1>0, HeldType
    <3> QED
      BY <3>1, <3>2
  <2>5. ASSUME NEW g \in flights', NEW h \in flights', g # h, g.chat = h.chat
        PROVE  Range(g.updates) \cap Range(h.updates) = {}
    <3> DEFINE new == [chat |-> d, by |-> who, updates |-> buffer[d]]
    <3>1. flights' = flights \cup {new} /\ new.chat = d /\ new.updates = buffer[d]
      BY <1>4 DEF Take
    <3> HIDE DEF new
    <3>2. CASE g \in flights /\ h \in flights
      BY <2>5, <3>2 DEF HeldOnce
    <3>3. CASE g = new /\ h \in flights
      BY <2>4, <2>5, <3>1, <3>3
    <3>4. CASE g \in flights /\ h = new
      BY <2>4, <2>5, <3>1, <3>4
    <3> QED
      BY <2>5, <3>1, <3>2, <3>3, <3>4
  <2>6. ASSUME NEW o \in Offsets, NEW c \in Chats, pc' # "down",
               (<<o, c>> \in InHand)' \/ ~ Passed(o, c)'
        PROVE  copies'[o][c] < starts'
    <3>1. UNCHANGED <<copies, starts, pc>>
      BY <1>4 DEF history
    <3>2. (<<o, c>> \in InHand)' => <<o, c>> \in InHand
      BY <1>4, TakeLeaves, EmptyRange, InHandMembers, InHandMembersNext
    <3> QED
      BY <2>1, <2>6, <3>1, <3>2 DEF HeldOnce
  <2> QED
    BY <2>2, <2>3, <2>5, <2>6 DEF HeldOnce
<1>5. ASSUME NEW g \in flights, ProduceGroup(g) PROVE HeldOnce'
  <2>1. \A o, c : Passed(o, c)' <=> Passed(o, c)
    BY <1>5, ProduceLeaves DEF Passed, consumer
  <2>2. ASSUME NEW o \in Offsets, NEW c \in Chats, <<o, c>> \in InFlight(g)
        PROVE  ~ (<<o, c>> \in InHand)' /\ Passed(o, c)
    <3>1. o \in Range(g.updates) /\ g.chat = c
      BY <2>2 DEF InFlight
    <3>2. Passed(o, c)
      BY <3>1 DEF HeldOnce
    <3>3. o \notin Range(buffer[c])
      <4>1. o \in Range(buffer[c]) => o < o
        BY <3>1 DEF GroupsAreInOrder
      <4> QED
        BY <1>0, <4>1
    <3>4. \A h \in flights \ {g} : h.chat = c => o \notin Range(h.updates)
      BY <3>1 DEF HeldOnce
    <3> QED
      BY <1>5, <3>2, <3>3, <3>4, ProduceLeaves, InHandMembersNext
  <2>3. ASSUME NEW o \in Offsets, NEW c \in Chats, pc' # "down",
               (<<o, c>> \in InHand)' \/ ~ Passed(o, c)'
        PROVE  copies'[o][c] < starts'
    <3>1. <<o, c>> \notin InFlight(g)
      BY <2>1, <2>2, <2>3
    <3>2. copies'[o][c] = copies[o][c] /\ starts' = starts /\ pc' = pc
      BY <1>5, <3>1, ProduceLeaves
    <3>3. (<<o, c>> \in InHand)' => <<o, c>> \in InHand
      BY <1>5, ProduceLeaves, InHandMembers, InHandMembersNext
    <3> QED
      BY <2>1, <2>3, <3>2, <3>3 DEF HeldOnce
  <2> QED
    BY <1>5, <2>1, <2>3, ProduceLeaves DEF HeldOnce
<1>6. CASE /\ UNCHANGED <<buffer, flights, copies, lost, starts>>
           /\ pc = "down" => pc' = "down"
           /\ ~ Start
  <2>1. ASSUME NEW c \in Chats, NEW o \in Range(buffer'[c]) PROVE Passed(o, c)'
    <3>1. Passed(o, c) /\ o \in Nat
      BY <1>0, <1>6, <2>1, HeldType DEF HeldOnce
    <3> QED
      BY <1>6, <3>1, PassedStays
  <2>2. ASSUME NEW g \in flights', NEW o \in Range(g.updates)
        PROVE  Passed(o, g.chat)'
    <3>1. Passed(o, g.chat) /\ o \in Nat /\ g.chat \in Chats
      BY <1>0, <1>6, <2>2, HeldType DEF HeldOnce
    <3> QED
      BY <1>6, <3>1, PassedStays
  <2>3. ASSUME NEW o \in Offsets, NEW c \in Chats, pc' # "down",
               (<<o, c>> \in InHand)' \/ ~ Passed(o, c)'
        PROVE  copies'[o][c] < starts'
    <3>1. (<<o, c>> \in InHand)' => <<o, c>> \in InHand
      BY <1>6, InHandMembers, InHandMembersNext
    <3>2. ~ Passed(o, c)' => ~ Passed(o, c)
      BY <1>0, <1>6, PassedStays
    <3> QED
      BY <1>6, <2>3, <3>1, <3>2 DEF HeldOnce
  <2> QED
    BY <1>6, <2>1, <2>2, <2>3 DEF HeldOnce
<1> QED
  BY <1>1, <1>2, <1>3, <1>4, <1>5, <1>6, StepShapes

---------------------------------------------------------------------------
(* What becomes of an update. *)

\* What is kept stays kept: a step moves it from a buffer to a group, from
\* there to the topic or to what is lost, and takes nothing back.
LEMMA KeptStays ==
    ASSUME TypeOK, [Next]_vars, NEW o \in Offsets, NEW c \in Chats, Kept(o, c)
    PROVE  Kept(o, c)'
<1>0. copies[o][c] \in Nat
  BY DEF TypeOK
<1>1. CASE Add
  <2>1. UNCHANGED <<copies, dlq, lost>>
    BY <1>1 DEF Add, history
  <2>2. ASSUME <<o, c>> \in InHand PROVE (<<o, c>> \in InHand)'
    <3>1. position \in Nat
      BY DEF TypeOK
    <3>2. \A d \in Chats : Range(buffer[d]) \subseteq Range(buffer'[d])
      <4>1. SUFFICES ASSUME NEW d \in Chats, d = chat
                     PROVE  Range(buffer[d]) \subseteq Range(buffer'[d])
        BY <1>1, AddLeaves
      <4>2. buffer[d] \in Seq(Offsets \cup {position})
        <5>1. buffer[d] \in Seq(Offsets)
          BY DEF TypeOK
        <5> QED
          BY <5>1
      <4>3. Range(Append(buffer[d], position)) = Range(buffer[d]) \cup {position}
        BY <4>2, AppendRange
      <4> QED
        BY <1>1, <4>1, <4>3, AddLeaves
    <3> QED
      BY <1>1, <2>2, <3>2, AddLeaves, InHandMembers, InHandMembersNext
  <2> QED
    BY <2>1, <2>2 DEF Kept
<1>2. ASSUME NEW d \in Chats, NEW who \in {"timer", "main"}, Take(d, who),
             UNCHANGED history
      PROVE  Kept(o, c)'
  <2>1. UNCHANGED <<copies, dlq, lost>>
    BY <1>2 DEF history
  <2>2. <<o, c>> \in InHand => (<<o, c>> \in InHand)'
    BY <1>2, TakeLeaves, InHandMembers, InHandMembersNext
  <2> QED
    BY <2>1, <2>2 DEF Kept
<1>3. ASSUME NEW g \in flights, ProduceGroup(g) PROVE Kept(o, c)'
  <2>1. CASE <<o, c>> \in InFlight(g)
    <3>1. CASE Publish(g)
      BY <1>0, <2>1, <3>1, PublishCounts DEF Kept
    <3>2. CASE lost' = lost \cup InFlight(g)
      BY <2>1, <3>2 DEF Kept
    <3> QED
      BY <1>3, <3>1, <3>2 DEF ProduceGroup
  <2>2. CASE <<o, c>> \notin InFlight(g)
    <3>1. copies'[o][c] = copies[o][c] /\ dlq' = dlq /\ lost \subseteq lost'
      BY <1>3, <2>2, ProduceLeaves DEF ProduceGroup
    <3>2. <<o, c>> \in InHand => (<<o, c>> \in InHand)'
      <4>1. \A h \in flights : h.chat = c /\ o \in Range(h.updates) => h # g
        BY <2>2 DEF InFlight
      <4> QED
        BY <1>3, <4>1, ProduceLeaves, InHandMembers, InHandMembersNext
    <3> QED
      BY <3>1, <3>2 DEF Kept
  <2> QED
    BY <2>1, <2>2
<1>4. CASE Gone /\ dlq \subseteq dlq'
  BY <1>4 DEF Gone, Kept
<1>5. CASE UNCHANGED <<buffer, flights, copies, lost>> /\ dlq \subseteq dlq'
  <2>1. <<o, c>> \in InHand => (<<o, c>> \in InHand)'
    BY <1>5, InHandMembers, InHandMembersNext
  <2> QED
    BY <1>5, <2>1 DEF Kept
<1>6. CASE Start
  BY <1>5, <1>6 DEF Start, grouping
<1> QED
  BY <1>1, <1>2, <1>3, <1>4, <1>5, <1>6, StepShapes

\* The record in hand stays the one after the committed offset, and kept for
\* the chats the loop has been through.
LEMMA NextRecordInHand ==
    ASSUME TypeOK, RecordInHand, [Next]_vars
    PROVE  RecordInHand'
<1>0. /\ committed \in Nat /\ position \in Nat /\ chat \in Nat
      /\ Chats \subseteq Nat
  BY DEF TypeOK, Chats
<1>1. CASE Poll
  BY <1>0, <1>1 DEF Poll, RecordInHand
<1>2. CASE Process
  <2>1. PICK p : p = position
    OBVIOUS
  <2>2. position' = p /\ committed' = committed /\ chat' = 1 /\ p = committed + 1
    BY <1>2, <2>1 DEF Process, RecordInHand, consumer
  <2>3. pc' = "commit" => Kind[p] = "filtered"
    BY <1>2, <2>1 DEF Process
  <2>4. pc' \in {"commit", "add"}
    BY <1>2 DEF Process
  <2>5. \A c \in Chats : ~ (c < 1)
    BY DEF Chats
  <2> QED
    BY <2>2, <2>3, <2>4, <2>5 DEF RecordInHand, Kept
<1>3. CASE ProcessFails
  <2>1. pc' \in {"process", "deadletter"}
    BY <1>3 DEF ProcessFails
  <2> QED
    BY <1>3, <2>1 DEF ProcessFails, RecordInHand
<1>4. CASE Add
  <2>1. PICK p, d : p = position /\ d = chat
    OBVIOUS
  <2>2. /\ position' = p /\ committed' = committed /\ p = committed + 1
        /\ p \in Offsets /\ d \in Chats
        /\ \/ pc' = "commit" /\ d = NumChats
           \/ pc' = "add" /\ chat' = d + 1
    <3>1. p = committed + 1
      BY <1>4, <2>1 DEF Add, RecordInHand
    <3>2. p \in Offsets /\ d \in Chats
      BY <1>4, <2>1, InHandIsAnOffset DEF Add, TypeOK
    <3> QED
      BY <1>4, <2>1, <3>1, <3>2 DEF Add, AddForChat
  <2>3. Kept(p, d)'
    <3>1. buffer[d] \in Seq(Offsets)
      BY <2>2 DEF TypeOK
    <3>2. Range(Append(buffer[d], p)) = Range(buffer[d]) \cup {p}
      BY <2>2, <3>1, AppendRange
    <3>3. (<<p, d>> \in InHand)'
      BY <1>4, <2>1, <2>2, <3>2, AddLeaves, InHandMembersNext
    <3> QED
      BY <3>3 DEF Kept
  <2>4. ASSUME NEW c \in Chats, c < d PROVE Kept(p, c)'
    <3>1. Kept(p, c)
      BY <1>4, <2>1, <2>4 DEF Add, RecordInHand
    <3> QED
      BY <2>2, <3>1, KeptStays
  <2>5. \A c \in Chats : c <= d => Kept(p, c)'
    BY <1>0, <2>2, <2>3, <2>4
  <2>6. \A c \in Chats : (c < d + 1 => c <= d) /\ c <= NumChats
    BY <1>0, <2>2 DEF Chats
  <2> QED
    BY <2>2, <2>5, <2>6 DEF RecordInHand
<1>5. CASE Bury
  <2>1. PICK p : p = position
    OBVIOUS
  <2>2. /\ position' = p /\ committed' = committed /\ p = committed + 1
        /\ pc' = "commit" /\ p \in dlq'
    BY <1>5, <2>1 DEF Bury, RecordInHand, consumer
  <2> QED
    BY <2>2 DEF RecordInHand, Kept
<1>6. CASE Commit
  BY <1>6 DEF Commit, RecordInHand
<1>7. CASE pc' \in {"flush", "down"}
  BY <1>7 DEF RecordInHand
<1>8. CASE Start
  BY <1>8 DEF Start, RecordInHand
<1>9. CASE UNCHANGED <<consumer, pc>>
  <2>1. PICK p : p = position
    OBVIOUS
  <2>2. position' = p /\ committed' = committed /\ pc' = pc /\ chat' = chat
    BY <1>9, <2>1 DEF consumer
  <2>3. ASSUME pc \in {"add", "commit"}, NEW c \in Chats, Kept(p, c)
        PROVE  Kept(p, c)'
    BY <2>1, <2>3, InHandIsAnOffset, KeptStays
  <2> QED
    BY <2>1, <2>2, <2>3 DEF RecordInHand
<1>10. CASE Stop
  BY <1>7, <1>10 DEF Stop
<1>11. CASE Exit \/ Die
  BY <1>7, <1>11 DEF Exit, Die, Gone
<1>12. CASE Signal \/ UNCHANGED vars
  BY <1>9, <1>12 DEF Signal, vars
<1>13. ASSUME NEW c \in Chats, FlushNext(c) PROVE RecordInHand'
  BY <1>9, <1>13 DEF FlushNext
<1>14. ASSUME NEW c \in Chats, TimerStep(c) PROVE RecordInHand'
  BY <1>9, <1>14 DEF TimerStep, TimerFires, TimerFlushes
<1>15. ASSUME NEW g \in flights, ProduceGroup(g) PROVE RecordInHand'
  BY <1>9, <1>15 DEF ProduceGroup
<1> QED
  BY <1>1, <1>2, <1>3, <1>4, <1>5, <1>6, <1>8, <1>10, <1>11, <1>12, <1>13,
     <1>14, <1>15
     DEF Next, ConsumerStep, MainStep

\* What is committed is kept: the offset moves only past a record that is.
LEMMA NextCommitted ==
    ASSUME TypeOK, RecordInHand, CommittedIsKept, [Next]_vars
    PROVE  CommittedIsKept'
<1>0. committed \in Nat /\ committed <= Records
  BY RecordsAssumption DEF TypeOK
<1>1. CASE committed' = committed
  <2> SUFFICES ASSUME NEW o \in 1 .. committed, NEW c \in Chats
               PROVE  Kept(o, c)'
    BY <1>1 DEF CommittedIsKept
  <2>1. o \in Offsets
    BY <1>0, RecordsAssumption DEF Offsets
  <2> QED
    BY <2>1, KeptStays DEF CommittedIsKept
<1>2. CASE pc = "commit" /\ committed' = position
  <2>1. PICK p : p = position
    OBVIOUS
  <2>2. p = committed + 1 /\ p \in Offsets /\ committed' = p
    BY <1>2, <2>1, InHandIsAnOffset DEF RecordInHand
  <2>3. ASSUME NEW o \in 1 .. p, NEW c \in Chats PROVE Kept(o, c)'
    <3>1. o \in Offsets
      BY <2>2, RecordsAssumption DEF Offsets
    <3>2. CASE o = p
      BY <1>2, <2>1, <3>1, <3>2, KeptStays DEF RecordInHand
    <3>3. CASE o # p
      <4>1. o \in 1 .. committed
        BY <1>0, <2>2, <3>3
      <4> QED
        BY <3>1, <4>1, KeptStays DEF CommittedIsKept
    <3> QED
      BY <3>2, <3>3
  <2> QED
    BY <2>2, <2>3 DEF CommittedIsKept
<1>3. CASE Poll BY <1>1, <1>3 DEF Poll
<1>4. CASE Process BY <1>1, <1>4 DEF Process, consumer
<1>5. CASE ProcessFails BY <1>1, <1>5 DEF ProcessFails
<1>6. CASE Add BY <1>1, <1>6 DEF Add
<1>7. CASE Bury BY <1>1, <1>7 DEF Bury, consumer
<1>8. CASE Commit BY <1>2, <1>8 DEF Commit
<1>9. CASE Stop BY <1>1, <1>9 DEF Stop, consumer
<1>10. CASE Signal BY <1>1, <1>10 DEF Signal, consumer
<1>11. CASE Exit BY <1>1, <1>11 DEF Exit
<1>12. CASE Die BY <1>1, <1>2, <1>12 DEF Die
<1>13. CASE Start BY <1>1, <1>13 DEF Start
<1>14. ASSUME NEW c \in Chats, FlushNext(c) PROVE CommittedIsKept'
  BY <1>1, <1>14 DEF FlushNext, consumer
<1>15. ASSUME NEW c \in Chats, TimerStep(c) PROVE CommittedIsKept'
  BY <1>1, <1>15 DEF TimerStep, TimerFires, TimerFlushes, consumer
<1>16. ASSUME NEW g \in flights, ProduceGroup(g) PROVE CommittedIsKept'
  BY <1>1, <1>16 DEF ProduceGroup, consumer
<1>17. CASE UNCHANGED vars BY <1>1, <1>17 DEF vars, consumer
<1> QED
  BY <1>3, <1>4, <1>5, <1>6, <1>7, <1>8, <1>9, <1>10, <1>11, <1>12, <1>13,
     <1>14, <1>15, <1>16, <1>17
     DEF Next, ConsumerStep, MainStep

---------------------------------------------------------------------------
(* Timers and the end of a process. *)

\* A buffer has one timer: the first update starts it, Take stops it or uses
\* the one that has fired.
LEMMA NextTimers ==
    ASSUME TypeOK, RecordInHand, EndOfProcess, BuffersHaveTimers, [Next]_vars
    PROVE  BuffersHaveTimers'
<1>0. /\ DOMAIN fired = Chats /\ DOMAIN buffer = Chats
      /\ \A c \in Chats : fired[c] \in Nat
  BY DEF TypeOK
<1>1. CASE UNCHANGED <<buffer, armed, fired>> /\ (pc = "flush" => pc' = "flush")
  BY <1>1 DEF BuffersHaveTimers
<1>2. CASE Gone
  BY <1>2 DEF Gone, BuffersHaveTimers
<1>3. CASE Add
  <2>1. position \in Offsets /\ pc = "add" /\ fired' = fired
    BY <1>3, InHandIsAnOffset DEF Add
  <2>2. ASSUME NEW c \in Chats, c # chat
        PROVE  buffer'[c] = buffer[c] /\ (c \in armed' <=> c \in armed)
    BY <1>3, <2>2, AddLeaves DEF Add, AddForChat
  <2>3. buffer[chat] \in Seq(Offsets) /\ chat \in Chats
    BY DEF TypeOK
  <2>4. Append(buffer[chat], position) # <<>>
    <3>1. position \in Range(Append(buffer[chat], position))
      BY <2>1, <2>3, AppendRange
    <3> QED
      BY <3>1, EmptyRange
  <2>5. PICK d : d = chat
    OBVIOUS
  <2>6. /\ buffer'[d] # <<>>
        /\ IF buffer[d] = <<>> THEN d \in armed' ELSE (d \in armed' <=> d \in armed)
    BY <1>3, <2>4, <2>5, AddLeaves DEF Add, AddForChat
  <2>7. fired[d] + (IF d \in armed' THEN 1 ELSE 0)
           = IF buffer'[d] = <<>> THEN 0 ELSE 1
    <3>1. fired[d] + (IF d \in armed THEN 1 ELSE 0)
             = IF buffer[d] = <<>> THEN 0 ELSE 1
      BY <2>1, <2>3, <2>5 DEF BuffersHaveTimers
    <3> QED
      BY <1>0, <2>3, <2>5, <2>6, <3>1
  <2> QED
    BY <2>1, <2>2, <2>5, <2>7 DEF BuffersHaveTimers
<1>4. ASSUME NEW d \in Chats, TimerFires(d) PROVE BuffersHaveTimers'
  BY <1>0, <1>4 DEF TimerFires, BuffersHaveTimers
<1>5. ASSUME NEW d \in Chats, TimerFlushes(d) PROVE BuffersHaveTimers'
  <2> SUFFICES ASSUME pc # "flush", NEW c \in Chats
               PROVE  fired'[c] + (IF c \in armed' THEN 1 ELSE 0)
                         = IF buffer'[c] = <<>> THEN 0 ELSE 1
    BY <1>5 DEF TimerFlushes, BuffersHaveTimers
  <2>1. \A b \in Chats : fired[b] + (IF b \in armed THEN 1 ELSE 0)
                             = IF buffer[b] = <<>> THEN 0 ELSE 1
    BY DEF BuffersHaveTimers
  <2>2. fired[d] = 1 /\ d \notin armed /\ buffer[d] # <<>>
    <3>1. fired[d] > 0
      BY <1>5 DEF TimerFlushes
    <3> QED
      BY <1>0, <2>1, <3>1
  <2>3. fired' = [fired EXCEPT ![d] = @ - 1] /\ Take(d, "timer")
    BY <1>5, <2>2 DEF TimerFlushes
  <2>4. CASE c = d
    BY <1>0, <2>2, <2>3, <2>4, TakeLeaves DEF Take
  <2>5. CASE c # d
    BY <1>0, <2>1, <2>3, <2>5, TakeLeaves DEF Take
  <2> QED
    BY <2>4, <2>5
<1>6. ASSUME NEW d \in Chats, FlushNext(d) PROVE BuffersHaveTimers'
  BY <1>6 DEF FlushNext, BuffersHaveTimers
<1>7. CASE Poll BY <1>1, <1>7 DEF Poll, grouping
<1>8. CASE Process BY <1>1, <1>8 DEF Process, grouping
<1>9. CASE ProcessFails BY <1>1, <1>9 DEF ProcessFails, grouping
<1>10. CASE Bury BY <1>1, <1>10 DEF Bury, grouping
<1>11. CASE Commit BY <1>1, <1>11 DEF Commit, grouping
<1>12. CASE Stop BY <1>1, <1>12 DEF Stop
<1>13. CASE Signal BY <1>1, <1>13 DEF Signal, grouping
<1>14. CASE Exit \/ Die BY <1>2, <1>14 DEF Exit, Die
<1>15. CASE Start BY <1>1, <1>15 DEF Start, grouping
<1>16. ASSUME NEW g \in flights, ProduceGroup(g) PROVE BuffersHaveTimers'
  BY <1>1, <1>16 DEF ProduceGroup
<1>17. CASE UNCHANGED vars BY <1>1, <1>17 DEF vars, grouping
<1> QED
  BY <1>3, <1>4, <1>5, <1>6, <1>7, <1>8, <1>9, <1>10, <1>11, <1>12, <1>13,
     <1>14, <1>15, <1>16, <1>17
     DEF Next, ConsumerStep, MainStep, TimerStep

\* What is left at the end of a process.
LEMMA NextEndOfProcess ==
    ASSUME TypeOK, EndOfProcess, [Next]_vars
    PROVE  EndOfProcess'
<1>1. CASE UNCHANGED <<buffer, armed, fired, flights, toFlush>>
           /\ (pc' \in {"down", "flush"} => pc' = pc)
  BY <1>1 DEF EndOfProcess
<1>2. CASE Gone
  BY <1>2 DEF Gone, EndOfProcess
<1>3. CASE pc' \notin {"down", "flush"}
  BY <1>3 DEF EndOfProcess
<1>4. CASE Stop
  BY <1>4 DEF Stop, EndOfProcess, ChatsWithBuffer
<1>5. ASSUME NEW d \in Chats, FlushNext(d) PROVE EndOfProcess'
  <2>1. /\ pc = "flush" /\ pc' = pc /\ toFlush' = toFlush \ {d}
        /\ \/ buffer[d] = <<>> /\ buffer' = buffer
           \/ Take(d, "main")
    BY <1>5 DEF FlushNext
  <2>2. buffer'[d] = <<>> /\ \A c \in Chats \ {d} : buffer'[c] = buffer[c]
    BY <2>1, TakeLeaves
  <2> QED
    BY <2>1, <2>2 DEF EndOfProcess
<1>6. ASSUME NEW d \in Chats, TimerFires(d) PROVE EndOfProcess'
  BY <1>6 DEF TimerFires, EndOfProcess
<1>7. ASSUME NEW d \in Chats, TimerFlushes(d) PROVE EndOfProcess'
  <2>1. /\ pc' = pc /\ toFlush' = toFlush /\ fired[d] > 0
        /\ buffer' = buffer \/ Take(d, "timer")
    BY <1>7 DEF TimerFlushes
  <2>2. \A c \in Chats : buffer'[c] \in {buffer[c], <<>>}
    BY <2>1, TakeLeaves
  <2>3. pc # "down"
    BY <2>1 DEF EndOfProcess
  <2> QED
    BY <2>1, <2>2, <2>3 DEF EndOfProcess
<1>8. ASSUME NEW g \in flights, ProduceGroup(g) PROVE EndOfProcess'
  BY <1>8 DEF ProduceGroup, EndOfProcess
<1>9. CASE Poll BY <1>3, <1>9 DEF Poll
<1>10. CASE Process BY <1>3, <1>10 DEF Process
<1>11. CASE ProcessFails BY <1>3, <1>11 DEF ProcessFails
<1>12. CASE Add BY <1>3, <1>12 DEF Add, AddForChat
<1>13. CASE Bury \/ Commit \/ Start BY <1>3, <1>13 DEF Bury, Commit, Start
<1>14. CASE Signal BY <1>1, <1>14 DEF Signal, grouping
<1>15. CASE Exit \/ Die BY <1>2, <1>15 DEF Exit, Die
<1>16. CASE UNCHANGED vars BY <1>1, <1>16 DEF vars, grouping
<1> QED
  BY <1>4, <1>5, <1>6, <1>7, <1>8, <1>9, <1>10, <1>11, <1>12, <1>13, <1>14,
     <1>15, <1>16
     DEF Next, ConsumerStep, MainStep, TimerStep

---------------------------------------------------------------------------
(* Theorems. *)

\* The agent starts with empty buffers.
LEMMA InitIndInv == Init => IndInv
<1> SUFFICES ASSUME Init PROVE IndInv
  OBVIOUS
<1>1. TypeOK
  BY RecordsAssumption, BoundsAssumption, FirstChat DEF Init, TypeOK
<1>2. BuffersHaveTimers /\ EndOfProcess
  BY DEF Init, BuffersHaveTimers, EndOfProcess
<1>3. CommittedIsKept
  BY DEF Init, CommittedIsKept
<1>4. GroupsAreInOrder
  BY EmptyRange DEF Init, GroupsAreInOrder, Ascending
<1>5. RepetitionsNeedARestart
  BY DEF Init, RepetitionsNeedARestart
<1>6. RecordInHand
  BY DEF Init, RecordInHand
<1>7. HeldOnce
  BY EmptyRange DEF Init, HeldOnce
<1> QED
  BY <1>1, <1>2, <1>3, <1>4, <1>5, <1>6, <1>7 DEF IndInv

\* Every step keeps every part of the invariant.
LEMMA NextIndInv == IndInv /\ [Next]_vars => IndInv'
BY NextType, NextTimers, NextCommitted, NextInOrder, NextRepetitions,
   NextRecordInHand, NextHeldOnce, NextEndOfProcess DEF IndInv

\* handler.go, grouping_service.go: what the agent holds and what it has
\* committed is as IndInv says, whatever fails and whenever it is stopped.
THEOREM AgentInvariant == Spec => []IndInv
BY InitIndInv, NextIndInv, PTL DEF Spec

\* A committed update is published, held, buried, or lost for a reason.
THEOREM CommittedUpdatesAreKept == Spec => []CommittedIsKept
<1>1. IndInv => CommittedIsKept
  BY DEF IndInv
<1> QED
  BY <1>1, AgentInvariant, PTL

\* No buffer is without its timer, and no timer without its buffer.
THEOREM NoBufferIsForgotten == Spec => []BuffersHaveTimers
<1>1. IndInv => BuffersHaveTimers
  BY DEF IndInv
<1> QED
  BY <1>1, AgentInvariant, PTL

\* Groups and buffers keep the order of the topic.
THEOREM GroupsKeepTheOrder == Spec => []GroupsAreInOrder
<1>1. IndInv => GroupsAreInOrder
  BY DEF IndInv
<1> QED
  BY <1>1, AgentInvariant, PTL

\* An update is repeated at most once for every restart.
THEOREM RepetitionsAreBounded == Spec => []RepetitionsNeedARestart
<1>1. IndInv => RepetitionsNeedARestart
  BY DEF IndInv
<1> QED
  BY <1>1, AgentInvariant, PTL

\* main does not return from FlushAll with an update in a buffer.
THEOREM FlushAllFlushesAll == Spec => ExitLeavesNoBuffer
<1>1. ASSUME IndInv, [Next]_vars, pc = "flush", pc' = "down", faults' = faults
      PROVE  \A c \in Chats : buffer[c] = <<>>
  <2>1. faults \in Nat
    BY <1>1 DEF IndInv, TypeOK
  <2>2. CASE Exit
    BY <1>1, <2>2 DEF IndInv, EndOfProcess, Exit
  <2>3. CASE Die
    BY <1>1, <2>1, <2>3 DEF Die, Fault
  <2>4. CASE ConsumerStep \/ Signal \/ Start
    BY <1>1, <2>4
       DEF ConsumerStep, Poll, Process, ProcessFails, Add, Bury, Commit, Stop,
           Signal, Start
  <2>5. ASSUME NEW c \in Chats, FlushNext(c) \/ TimerStep(c) PROVE FALSE
    BY <1>1, <2>5 DEF FlushNext, TimerStep, TimerFires, TimerFlushes
  <2>6. ASSUME NEW g \in flights, ProduceGroup(g) PROVE FALSE
    BY <1>1, <2>6 DEF ProduceGroup
  <2>7. CASE UNCHANGED vars
    BY <1>1, <2>7 DEF vars
  <2> QED
    BY <1>1, <2>2, <2>3, <2>4, <2>5, <2>6, <2>7 DEF Next, MainStep
<1>2. IndInv /\ [Next]_vars =>
        [(pc = "flush" /\ pc' = "down" /\ faults' = faults)
            => \A c \in Chats : buffer[c] = <<>>]_vars
  BY <1>1
<1> QED
  BY <1>2, AgentInvariant, PTL DEF Spec, ExitLeavesNoBuffer

\* What the starts have cost.
LEMMA NextStartsAreBought ==
    ASSUME TypeOK, StartsAreBought, [Next]_vars PROVE StartsAreBought'
<1>1. faults \in Nat /\ starts \in Nat /\ MaxFaults \in Nat
  BY BoundsAssumption DEF TypeOK
<1> USE DEF StartsAreBought
<1>2. CASE Signal
  BY <1>1, <1>2 DEF Signal, Fault, history
<1>3. CASE Exit
  BY <1>1, <1>3 DEF Exit, Gone
<1>4. CASE Die
  BY <1>1, <1>4 DEF Die, Gone, Fault
<1>5. CASE Start
  BY <1>1, <1>5 DEF Start
<1>6. CASE Stop
  BY <1>1, <1>6 DEF Stop
<1>7. ASSUME NEW g \in flights, ProduceGroup(g) PROVE StartsAreBought'
  <2>1. /\ UNCHANGED <<pc, ctx, starts>>
        /\ faults' = faults \/ faults' = faults - 1
    BY <1>7 DEF ProduceGroup, Fault
  <2> QED
    BY <1>1, <2>1
<1>8. CASE ProcessFails
  <2>1. /\ UNCHANGED <<ctx, starts>> /\ pc = "process" /\ pc' \in {"process", "deadletter"}
        /\ faults' = faults \/ faults' = faults - 1
    BY <1>8 DEF ProcessFails, Fault, history
  <2> QED
    BY <1>1, <2>1
<1>9. CASE Poll \/ Process \/ Add \/ Bury \/ Commit
  <2>1. /\ UNCHANGED <<ctx, starts, faults>>
        /\ pc # "down" /\ pc' \notin {"down", "flush"}
    BY <1>9 DEF Poll, Process, Add, AddForChat, Bury, Commit, history
  <2> QED
    BY <1>1, <2>1
<1>10. ASSUME \/ UNCHANGED vars
              \/ \E c \in Chats : TimerStep(c) \/ FlushNext(c)
       PROVE  StartsAreBought'
  <2>1. UNCHANGED <<pc, ctx, starts, faults>>
    BY <1>10 DEF TimerStep, TimerFires, TimerFlushes, FlushNext, history, vars
  <2> QED
    BY <2>1
<1> QED
  BY <1>2, <1>3, <1>4, <1>5, <1>6, <1>7, <1>8, <1>9, <1>10
  DEF Next, ConsumerStep, MainStep

\* An update is repeated at most once for every failure: for any number of
\* records, chats, timers and failures.
THEOREM RepetitionsCostAFailure == Spec => []RepetitionsAreBought
<1>1. Init => StartsAreBought
  BY BoundsAssumption DEF Init, StartsAreBought
<1>2. IndInv /\ StartsAreBought /\ [Next]_vars => StartsAreBought'
  BY NextStartsAreBought DEF IndInv
<1>3. IndInv /\ StartsAreBought => RepetitionsAreBought
  <2> SUFFICES ASSUME IndInv, StartsAreBought, NEW o \in Offsets, NEW c \in Chats
               PROVE  copies[o][c] <= 1 + MaxFaults - faults
    BY DEF RepetitionsAreBought
  <2>1. /\ copies[o][c] \in Nat /\ starts \in Nat /\ faults \in Nat
        /\ MaxFaults \in Nat
    BY BoundsAssumption DEF IndInv, TypeOK
  <2>2. copies[o][c] <= starts
    BY DEF IndInv, RepetitionsNeedARestart
  <2>3. starts + faults <= 1 + MaxFaults
    BY <2>1 DEF StartsAreBought
  <2> QED
    BY <2>1, <2>2, <2>3
<1> QED
  BY <1>1, <1>2, <1>3, AgentInvariant, PTL DEF Spec
=============================================================================

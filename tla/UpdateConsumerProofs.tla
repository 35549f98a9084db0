----------------------- MODULE UpdateConsumerProofs -----------------------
(***************************************************************************)
(* Proofs about UpdateConsumer, for every number of records, chats,        *)
(* retries and faults.  The inductive invariant IndInv relates position,   *)
(* committed and pc; the failed attempts and the deliveries of a record    *)
(* are counted by invariants of their own, further down.                   *)
(***************************************************************************)
EXTENDS UpdateConsumer, TLAPS

\* A step delivers the record in hand to one chat, or buries it, or leaves
\* the chats and the dead letter queue alone.
LEMMA StepShapes ==
    ASSUME [Next]_vars
    PROVE  \/ Deliver /\ dlq' = dlq /\ pc = "handle"
           \/ BuryRecord /\ delivered' = delivered /\ pc = "deadletter"
           \/ delivered' = delivered /\ dlq' = dlq
<1>1. CASE UNCHANGED vars BY <1>1 DEF vars
<1>2. CASE Append BY <1>2 DEF Append
<1>3. CASE Poll BY <1>3 DEF Poll
<1>4. CASE Stop BY <1>4 DEF Stop
<1>5. CASE Send BY <1>5 DEF Send
<1>6. CASE SendFails BY <1>6 DEF SendFails
<1>7. CASE SendAckLost BY <1>7 DEF SendAckLost
<1>8. CASE Bury BY <1>8 DEF Bury
<1>9. CASE BuryFails BY <1>9 DEF BuryFails
<1>10. CASE Commit BY <1>10 DEF Commit
<1>11. CASE CommitFails BY <1>11 DEF CommitFails
<1>12. CASE Cancel BY <1>12 DEF Cancel
<1>13. CASE Restart BY <1>13 DEF Restart
<1> QED BY <1>1, <1>2, <1>3, <1>4, <1>5, <1>6, <1>7, <1>8, <1>9, <1>10, <1>11,
     <1>12, <1>13 DEF Next, ConsumerStep

\* Nothing is taken back from a chat or from the dead letter queue.
LEMMA NothingIsTakenBack ==
    ASSUME TypeOK, [Next]_vars
    PROVE  /\ \A o \in Offsets : dlq[o] <= dlq'[o]
           /\ \A o \in Offsets, c \in Chats : delivered[o][c] <= delivered'[o][c]
<1>0. /\ \A o \in Offsets : dlq[o] \in Nat
      /\ \A o \in Offsets, c \in Chats : delivered[o][c] \in Nat
      /\ DOMAIN delivered = Offsets /\ DOMAIN dlq = Offsets
      /\ \A o \in Offsets : DOMAIN delivered[o] = Chats
  BY DEF TypeOK
<1>1. CASE Deliver /\ dlq' = dlq
  BY <1>0, <1>1 DEF Deliver
<1>2. CASE BuryRecord /\ delivered' = delivered
  BY <1>0, <1>2 DEF BuryRecord
<1>3. CASE delivered' = delivered /\ dlq' = dlq
  BY <1>0, <1>3
<1> QED
  BY <1>1, <1>2, <1>3, StepShapes

\* While the consumer works on a record, position is its offset.
LEMMA InHandIsAnOffset ==
    ASSUME IndInv, pc \in {"handle", "deadletter", "commit"}
    PROVE  position \in Offsets
BY RecordsAssumption DEF IndInv, TypeOK, Offsets

\* A delivery keeps the type of delivered.
LEMMA DeliverType ==
    ASSUME TypeOK, position \in Offsets, Deliver
    PROVE  delivered' \in [Offsets -> [Chats -> Nat]]
<1>1. [delivered[position] EXCEPT ![chat] = @ + 1] \in [Chats -> Nat]
  BY DEF TypeOK
<1> QED
  BY <1>1 DEF TypeOK, Deliver

\* A record of the dead letter queue keeps the type of dlq.
LEMMA BuryType ==
    ASSUME TypeOK, position \in Offsets, BuryRecord
    PROVE  dlq' \in [Offsets -> Nat]
BY DEF TypeOK, BuryRecord

\* TgChatIDs is not empty, so the loop over it has a first chat.
LEMMA FirstChat == 1 \in Chats
BY ChatsAssumption DEF Chats

\* A failed attempt keeps the types of what it changes.
LEMMA AttemptType ==
    ASSUME TypeOK, position \in Offsets, AttemptFails, pc = "handle"
    PROVE  /\ failures' \in [Offsets -> Nat]
           /\ chat' \in Chats
           /\ attempt' \in 0 .. MaxRetries
           /\ pc' \in {"handle", "deadletter"}
           /\ cutShort' \subseteq Offsets
<1>1. failures' \in [Offsets -> Nat]
  BY DEF TypeOK, AttemptFails
<1>2. attempt' \in 0 .. MaxRetries
  BY BoundsAssumption DEF TypeOK, AttemptFails
<1>3. cutShort' \subseteq Offsets
  BY DEF TypeOK, AttemptFails
<1> QED
  BY <1>1, <1>2, <1>3, FirstChat DEF AttemptFails

\* A fault uses up one of the faults that are left.
LEMMA FaultType == ASSUME TypeOK, Fault PROVE faults' \in Nat
BY DEF TypeOK, Fault

\* Every step preserves the types.
LEMMA NextTypeOK == IndInv /\ [Next]_vars => TypeOK'
<1> SUFFICES ASSUME IndInv, [Next]_vars PROVE TypeOK'
  OBVIOUS
<1> TypeOK
  BY DEF IndInv
<1>0. pc \in {"handle", "deadletter", "commit"} => position \in Offsets
  BY InHandIsAnOffset
<1> USE DEF TypeOK
<1>1. CASE Append
  BY <1>1, RecordsAssumption DEF Append, consumer, history
<1>2. CASE Poll
  BY <1>2, RecordsAssumption, BoundsAssumption, FirstChat DEF Poll, history
<1>3. CASE Stop
  BY <1>3, FaultType DEF Stop, history
<1>4. CASE Send
  <2>1. chat' \in Chats /\ pc' \in {"handle", "commit"}
    BY <1>4, ChatsAssumption DEF Send, Chats
  <2>2. delivered' \in [Offsets -> [Chats -> Nat]]
    BY <1>0, <1>4, DeliverType DEF Send
  <2> QED
    BY <1>4, <2>1, <2>2 DEF Send, history
<1>5. CASE SendFails
  <2>1. faults' \in Nat
    BY <1>5, FaultType DEF SendFails
  <2> QED
    BY <1>0, <1>5, <2>1, AttemptType DEF SendFails
<1>6. CASE SendAckLost
  <2>1. faults' \in Nat
    BY <1>6, FaultType DEF SendAckLost
  <2>2. delivered' \in [Offsets -> [Chats -> Nat]]
    BY <1>0, <1>6, DeliverType DEF SendAckLost
  <2> QED
    BY <1>0, <1>6, <2>1, <2>2, AttemptType DEF SendAckLost
<1>7. CASE Bury
  <2>1. dlq' \in [Offsets -> Nat]
    BY <1>0, <1>7, BuryType DEF Bury
  <2> QED
    BY <1>7, <2>1 DEF Bury, history
<1>8. CASE BuryFails
  <2>1. dlq' \in [Offsets -> Nat]
    BY <1>0, <1>8, BuryType DEF BuryFails
  <2> QED
    BY <1>8, <2>1, FaultType DEF BuryFails, history
<1>9. CASE Commit
  BY <1>9 DEF Commit, history
<1>10. CASE CommitFails
  BY <1>10, FaultType DEF CommitFails, history
<1>11. CASE Cancel
  BY <1>11, FaultType DEF Cancel, consumer, history
<1>12. CASE Restart
  BY <1>12, FaultType, FirstChat, BoundsAssumption DEF Restart, history
<1>13. CASE UNCHANGED vars
  BY <1>13 DEF vars, consumer, history
<1> QED
  BY <1>1, <1>2, <1>3, <1>4, <1>5, <1>6, <1>7, <1>8, <1>9, <1>10, <1>11,
     <1>12, <1>13 DEF Next, ConsumerStep

\* The consumer starts with nothing in hand.
LEMMA InitIndInv == Init => IndInv
BY RecordsAssumption, BoundsAssumption, FirstChat
DEF Init, IndInv, TypeOK, CommittedIsAccounted, Accounted, Offsets

\* What is accounted for stays accounted for.
LEMMA AccountedIsStable ==
    ASSUME TypeOK, TypeOK', [Next]_vars, NEW o \in Offsets, Accounted(o)
    PROVE  Accounted(o)'
<1>1. CASE dlq[o] > 0
  <2>1. dlq[o] \in Nat /\ dlq'[o] \in Nat
    BY DEF TypeOK
  <2> QED
    BY <1>1, <2>1, NothingIsTakenBack DEF Accounted
<1>2. CASE Kind[o] = "good" /\ \A c \in Chats : delivered[o][c] > 0
  <2> SUFFICES ASSUME NEW c \in Chats PROVE delivered'[o][c] > 0
    BY <1>2 DEF Accounted
  <2>1. delivered[o][c] \in Nat /\ delivered'[o][c] \in Nat
    BY DEF TypeOK
  <2> QED
    BY <1>2, <2>1, NothingIsTakenBack
<1> QED
  BY <1>1, <1>2 DEF Accounted

\* Every step preserves the invariant: the record in hand is the one after
\* the last committed one, it is a good one while the handler has it, the
\* chats before the loop variable have it, and it is accounted for when it is
\* about to be committed.
LEMMA NextIndInv == IndInv /\ [Next]_vars => IndInv'
<1> SUFFICES ASSUME IndInv, [Next]_vars PROVE IndInv'
  OBVIOUS
<1>1. TypeOK /\ TypeOK'
  BY NextTypeOK DEF IndInv
<1>2. \A o \in Offsets : Accounted(o) => Accounted(o)'
  BY <1>1, AccountedIsStable
<1>3. pc \in {"handle", "deadletter", "commit"} => position \in Offsets
  BY InHandIsAnOffset
<1>4. /\ committed \in Nat /\ position \in Nat /\ appended \in Nat
      /\ committed <= Records /\ appended <= Records
  BY <1>1, RecordsAssumption DEF TypeOK
<1>a. ASSUME committed' = committed
      PROVE  CommittedIsAccounted'
  <2> SUFFICES ASSUME NEW o \in 1 .. committed PROVE Accounted(o)'
    BY <1>a DEF CommittedIsAccounted
  <2>1. o \in Offsets
    BY <1>4, RecordsAssumption DEF Offsets
  <2> QED
    BY <1>2, <2>1 DEF IndInv, CommittedIsAccounted
<1>b. ASSUME committed' = position, pc = "commit"
      PROVE  CommittedIsAccounted'
  <2> SUFFICES ASSUME NEW o \in 1 .. position PROVE Accounted(o)'
    BY <1>b DEF CommittedIsAccounted
  <2>1. o \in Offsets
    BY <1>b, <1>3, <1>4, RecordsAssumption DEF Offsets
  <2>2. o = position \/ o \in 1 .. committed
    BY <1>b, <1>4 DEF IndInv
  <2> QED
    BY <1>b, <1>2, <2>1, <2>2 DEF IndInv, CommittedIsAccounted
<1>5. CASE Append
  BY <1>1, <1>2, <1>3, <1>4, <1>5, <1>a DEF Append, consumer, IndInv
<1>6. CASE Poll
  <2>1. chat' = 1 /\ position' = committed + 1 /\ committed' = committed
    BY <1>6 DEF Poll, IndInv
  <2>2. CASE Kind[position + 1] = "good"
    BY <1>1, <1>4, <1>6, <1>a, <2>1, <2>2 DEF Poll, IndInv
  <2>3. CASE Kind[position + 1] # "good"
    BY <1>1, <1>4, <1>6, <1>a, <2>1, <2>3 DEF Poll, IndInv
  <2> QED
    BY <2>2, <2>3
<1>7. CASE Stop
  BY <1>1, <1>4, <1>7, <1>a DEF Stop, IndInv
<1>8. CASE Send
  <2>1. Kind[position] = "good" /\ committed' = committed /\ position' = position
    BY <1>8 DEF Send, IndInv
  <2>2. \A c \in 1 .. chat : delivered'[position][c] > 0
    <3> SUFFICES ASSUME NEW c \in 1 .. chat
                 PROVE  delivered'[position][c] > 0
      OBVIOUS
    <3>0. pc = "handle" /\ Deliver /\ position \in Offsets
      BY <1>3, <1>8 DEF Send
    <3>1. chat \in Nat /\ c \in Chats
      BY <1>1, ChatsAssumption DEF TypeOK, Chats
    <3>2. delivered[position][c] \in Nat /\ delivered'[position][c] \in Nat
      BY <1>1, <3>0, <3>1 DEF TypeOK
    <3>3. CASE c = chat
      BY <1>1, <3>0, <3>1, <3>2, <3>3 DEF Deliver, TypeOK
    <3>4. CASE c # chat
      <4>1. c \in 1 .. chat - 1
        BY <3>1, <3>4
      <4>2. delivered[position][c] > 0
        BY <3>0, <4>1 DEF IndInv
      <4> QED
        BY <1>1, <3>0, <3>1, <3>2, <4>2, NothingIsTakenBack
    <3> QED
      BY <3>3, <3>4
  <2>3. CASE chat = NumChats /\ pc' = "commit" /\ UNCHANGED chat
    <3>1. Accounted(position)'
      BY <2>1, <2>2, <2>3 DEF Accounted, Chats
    <3> QED
      BY <1>1, <1>4, <1>8, <1>a, <2>1, <2>3, <3>1 DEF Send, IndInv
  <2>4. CASE chat < NumChats /\ chat' = chat + 1 /\ UNCHANGED pc
    <3>1. \A c \in 1 .. chat' - 1 : delivered'[position'][c] > 0
      BY <1>1, <2>1, <2>2, <2>4 DEF TypeOK, Chats
    <3> QED
      BY <1>1, <1>4, <1>8, <1>a, <2>1, <2>4, <3>1 DEF Send, IndInv
  <2> QED
    BY <1>8, <2>3, <2>4 DEF Send
<1>9. CASE SendFails \/ SendAckLost
  <2>1. /\ pc = "handle" /\ AttemptFails
        /\ UNCHANGED <<appended, committed, position>>
    BY <1>9 DEF SendFails, SendAckLost
  <2>2. chat' = 1 /\ pc' \in {"handle", "deadletter"}
    BY <2>1 DEF AttemptFails
  <2> QED
    BY <1>1, <1>4, <1>a, <2>1, <2>2 DEF IndInv
<1>10. CASE Bury
  <2>1. position \in Offsets /\ dlq'[position] > 0
    BY <1>1, <1>3, <1>10 DEF Bury, BuryRecord, TypeOK
  <2>2. Accounted(position)'
    BY <1>10, <2>1 DEF Bury, Accounted
  <2> QED
    BY <1>1, <1>4, <1>10, <1>a, <2>2 DEF Bury, IndInv
<1>11. CASE BuryFails
  BY <1>1, <1>4, <1>11, <1>a DEF BuryFails, IndInv
<1>12. CASE Commit
  BY <1>1, <1>4, <1>12, <1>b DEF Commit, IndInv
<1>13. CASE CommitFails
  BY <1>1, <1>4, <1>13, <1>a, <1>b DEF CommitFails, IndInv
<1>14. CASE Cancel
  BY <1>1, <1>2, <1>3, <1>4, <1>14, <1>a DEF Cancel, consumer, IndInv
<1>15. CASE Restart
  BY <1>1, <1>4, <1>15, <1>a DEF Restart, IndInv
<1>16. CASE UNCHANGED vars
  BY <1>1, <1>2, <1>3, <1>4, <1>16, <1>a DEF vars, consumer, IndInv
<1> QED
  BY <1>5, <1>6, <1>7, <1>8, <1>9, <1>10, <1>11, <1>12, <1>13, <1>14, <1>15,
     <1>16 DEF Next, ConsumerStep

\* The inductive invariant holds in every state, for any number of failures,
\* cancellations and restarts; CommittedIsAccounted (no committed record is
\* lost) is one of its conjuncts.
THEOREM ConsumerInvariant == Spec => []IndInv
BY InitIndInv, NextIndInv, PTL DEF Spec

\* A step commits the next offset or none.
LEMMA CommitsByOne ==
    ASSUME IndInv, [Next]_vars
    PROVE  committed' \in {committed, committed + 1}
<1>1. CASE Commit
  BY <1>1 DEF Commit, IndInv
<1>2. CASE CommitFails
  BY <1>2 DEF CommitFails, IndInv
<1>3. CASE committed' = committed
  BY <1>3
<1> QED
  BY <1>1, <1>2, <1>3
  DEF Next, ConsumerStep, Append, Poll, Stop, Send, SendFails, SendAckLost,
      Bury, BuryFails, Cancel, Restart, vars

\* The committed offset of the group grows by one record at a time and never
\* moves back, not even when a restart makes the consumer handle again what
\* it had not committed (Commit, CommitFails, Restart).
THEOREM CommitsAreInOrder == Spec => CommitsInOrder
<1>1. IndInv /\ [Next]_vars => [committed' \in {committed, committed + 1}]_vars
  BY CommitsByOne
<1> QED
  BY <1>1, ConsumerInvariant, PTL DEF Spec, CommitsInOrder

\* A step of the consumer accepts a record, relays the one in hand, settles
\* it, or leaves the three sets of the hop alone.
LEMMA HopStep ==
    ASSUME IndInv, [Next]_vars
    PROVE  [Hop!Next]_(Hop!vars)
<1> DEFINE acc == 1 .. appended
           rel == {o \in Offsets : Accounted(o)}
           set == 1 .. committed
<1>0. TypeOK /\ TypeOK'
  BY NextTypeOK DEF IndInv
<1>1. /\ committed \in Nat /\ position \in Nat /\ appended \in Nat
      /\ committed <= position /\ position <= appended /\ appended <= Records
  BY <1>0, RecordsAssumption DEF TypeOK, IndInv
<1>2. CASE Append
  <2>1. acc' = acc \cup {appended + 1} /\ rel' = rel /\ set' = set
    BY <1>1, <1>2 DEF Append, Accounted
  <2>2. appended + 1 \in Offsets
    BY <1>1, <1>2, RecordsAssumption DEF Append, Offsets
  <2>3. Hop!Accept({appended + 1})
    BY <2>1 DEF Hop!Accept
  <2> QED
    BY <2>2, <2>3 DEF Hop!Next
<1>3. CASE /\ pc \in {"handle", "deadletter"}
           /\ UNCHANGED <<appended, committed>>
           /\ \A o \in Offsets \ {position} :
                 dlq'[o] = dlq[o] /\ delivered'[o] = delivered[o]
  <2>1. PICK x \in Offsets : x = position /\ x \in acc
    BY <1>1, <1>3, InHandIsAnOffset DEF IndInv, Offsets
  <2>2. acc' = acc /\ set' = set
    BY <1>3
  <2>3. \A o \in Offsets \ {x} : Accounted(o)' <=> Accounted(o)
    BY <1>3, <2>1 DEF Accounted
  <2>4. Accounted(x) => Accounted(x)'
    BY <1>0, <2>1, AccountedIsStable
  <2>5. CASE Accounted(x)'
    <3>1. rel' = rel \cup {x}
      BY <2>3, <2>4, <2>5 DEF Accounted
    <3>2. Hop!Relay({x})
      BY <2>1, <2>2, <3>1 DEF Hop!Relay
    <3> QED
      BY <2>1, <3>2 DEF Hop!Next
  <2>6. CASE ~ Accounted(x)'
    <3>1. rel' = rel
      BY <2>3, <2>4, <2>6 DEF Accounted
    <3> QED
      BY <2>2, <3>1 DEF Hop!vars
  <2> QED
    BY <2>5, <2>6
<1>4. CASE /\ pc = "commit" /\ committed' \in {committed, position}
           /\ UNCHANGED <<appended, delivered, dlq>>
  <2>1. acc' = acc /\ rel' = rel
    BY <1>4 DEF Accounted
  <2>2. CASE committed' = committed
    BY <2>1, <2>2 DEF Hop!vars
  <2>3. CASE committed' = position
    <3>1. position \in rel /\ set' = set \cup {position}
      BY <1>1, <1>4, <2>3, InHandIsAnOffset DEF IndInv
    <3>2. Hop!Settle({position})
      BY <2>1, <3>1 DEF Hop!Settle
    <3> QED
      BY <3>1, <3>2 DEF Hop!Next
  <2> QED
    BY <1>4, <2>2, <2>3
<1>5. CASE UNCHANGED <<appended, committed, delivered, dlq>>
  BY <1>5 DEF Accounted, Hop!vars
<1>6. CASE Send \/ SendFails \/ SendAckLost
  <2>1. /\ pc = "handle" /\ UNCHANGED <<appended, committed, dlq>>
        /\ Deliver \/ UNCHANGED delivered
    BY <1>6 DEF Send, SendFails, SendAckLost
  <2>2. \A o \in Offsets \ {position} : delivered'[o] = delivered[o]
    BY <1>0, <2>1 DEF Deliver, TypeOK
  <2> QED
    BY <1>3, <2>1, <2>2
<1>7. CASE Bury \/ BuryFails
  <2>1. /\ pc = "deadletter" /\ UNCHANGED <<appended, committed, delivered>>
        /\ BuryRecord \/ UNCHANGED dlq
    BY <1>7 DEF Bury, BuryFails
  <2>2. \A o \in Offsets \ {position} : dlq'[o] = dlq[o]
    BY <1>0, <2>1 DEF BuryRecord, TypeOK
  <2> QED
    BY <1>3, <2>1, <2>2
<1>8. CASE Commit \/ CommitFails
  BY <1>4, <1>8 DEF Commit, CommitFails
<1> QED
  BY <1>2, <1>5, <1>6, <1>7, <1>8
  DEF Next, ConsumerStep, Poll, Stop, Cancel, Restart, vars, consumer

\* The consumer is a hop of the pipeline: it settles a record (commitMessage)
\* only after the chats or the dead letter queue took it.
THEOREM ConsumerImplementsHop == Spec => ImplementsHop
<1>1. Init => Hop!Init
  <2> SUFFICES ASSUME Init PROVE Hop!Init
    OBVIOUS
  <2>1. 1 .. appended = {} /\ 1 .. committed = {}
    BY DEF Init
  <2>2. \A o \in Offsets : ~ Accounted(o)
    BY FirstChat DEF Init, Accounted
  <2> QED
    BY <2>1, <2>2 DEF Hop!Init
<1>2. IndInv /\ [Next]_vars => [Hop!Next]_(Hop!vars)
  BY HopStep
<1> QED
  BY <1>1, <1>2, ConsumerInvariant, PTL DEF Spec, ImplementsHop, Hop!Spec

\* Nothing after the record in hand has been touched yet.
NothingAhead ==
    \A o \in Offsets :
        o > committed + 1 =>
            dlq[o] = 0 /\ \A c \in Chats : delivered[o][c] = 0

\* Steps touch no record but the one in hand, which is the next one.
LEMMA NextNothingAhead ==
    ASSUME IndInv, NothingAhead, [Next]_vars
    PROVE  NothingAhead'
<1> SUFFICES ASSUME NEW o \in Offsets, o > committed' + 1
             PROVE  dlq'[o] = 0 /\ \A c \in Chats : delivered'[o][c] = 0
  BY DEF NothingAhead
<1>0. TypeOK /\ TypeOK'
  BY NextTypeOK DEF IndInv
<1>1. committed \in Nat /\ position \in Nat /\ o \in Nat /\ committed <= position
  BY <1>0, RecordsAssumption DEF TypeOK, IndInv, Offsets
<1>2. committed' \in {committed, committed + 1}
  BY CommitsByOne
<1>3. o > committed + 1
  <2>1. CASE committed' = committed
    BY <2>1
  <2>2. CASE committed' = committed + 1
    BY <1>1, <2>2
  <2> QED
    BY <1>2, <2>1, <2>2
<1>4. dlq[o] = 0 /\ \A c \in Chats : delivered[o][c] = 0
  BY <1>3 DEF NothingAhead
<1>5. CASE Deliver /\ dlq' = dlq /\ pc = "handle"
  <2>1. o # position
    BY <1>1, <1>3, <1>5 DEF IndInv
  <2> QED
    BY <1>0, <1>4, <1>5, <2>1 DEF Deliver, TypeOK
<1>6. CASE BuryRecord /\ delivered' = delivered /\ pc = "deadletter"
  <2>1. o # position
    BY <1>1, <1>3, <1>6 DEF IndInv
  <2> QED
    BY <1>0, <1>4, <1>6, <2>1 DEF BuryRecord, TypeOK
<1>7. CASE delivered' = delivered /\ dlq' = dlq
  BY <1>4, <1>7
<1> QED
  BY <1>5, <1>6, <1>7, StepShapes

\* No chat gets a record, and no dead letter holds one, while an earlier
\* record is unaccounted for, also across restarts.
THEOREM RecordsDoNotOvertake == Spec => []NoOvertaking
<1>1. Init => NothingAhead
  BY DEF Init, NothingAhead
<1>2. IndInv /\ NothingAhead /\ [Next]_vars => NothingAhead'
  BY NextNothingAhead
<1>3. IndInv /\ NothingAhead => NoOvertaking
  <2> SUFFICES ASSUME IndInv, NothingAhead, NEW o \in Offsets,
                      dlq[o] > 0 \/ \E c \in Chats : delivered[o][c] > 0,
                      NEW p \in 1 .. o - 1
               PROVE  Accounted(p)
    BY DEF NoOvertaking
  <2>1. committed \in Nat /\ o \in Nat
    BY RecordsAssumption DEF IndInv, TypeOK, Offsets
  <2>2. o <= committed + 1
    BY <2>1 DEF NothingAhead
  <2>3. p \in 1 .. committed
    BY <2>1, <2>2
  <2> QED
    BY <2>3 DEF IndInv, CommittedIsAccounted
<1> QED
  BY <1>1, <1>2, <1>3, ConsumerInvariant, PTL DEF Spec
---------------------------------------------------------------------------
(* The dead letter queue is the last resort. *)

\* While the handler has a record, it has failed at least as often as the
\* loop variable of handleWithRetries says; a good record on its way to the
\* dead letter queue has used up its attempts, or a cancellation ended them.
AttemptsAreCounted ==
    /\ pc = "handle" => failures[position] >= attempt
    /\ pc = "deadletter" /\ Kind[position] = "good" =>
          \/ failures[position] > MaxRetries
          \/ position \in cutShort
    /\ DeadLetterIsLastResort

\* Every step preserves it: failures and cutShort only grow, and a step into
\* "deadletter" is the last failed attempt of a round.
LEMMA NextAttemptsAreCounted ==
    ASSUME IndInv, AttemptsAreCounted, [Next]_vars
    PROVE  AttemptsAreCounted'
<1>0. TypeOK /\ TypeOK'
  BY NextTypeOK DEF IndInv
<1>1. /\ pc \in {"handle", "deadletter", "commit"} => position \in Offsets
      /\ MaxRetries \in Nat /\ attempt \in Nat /\ attempt <= MaxRetries
      /\ \A o \in Offsets : failures[o] \in Nat /\ dlq[o] \in Nat
  BY <1>0, InHandIsAnOffset, BoundsAssumption DEF TypeOK
<1>2. ASSUME UNCHANGED <<position, pc, attempt, dlq, history>>
      PROVE  AttemptsAreCounted'
  BY <1>2 DEF AttemptsAreCounted, DeadLetterIsLastResort, history
<1>3. ASSUME UNCHANGED <<dlq, history>>, pc' \notin {"handle", "deadletter"}
      PROVE  AttemptsAreCounted'
  BY <1>3 DEF AttemptsAreCounted, DeadLetterIsLastResort, history
<1>4. CASE Poll
  <2>1. UNCHANGED <<dlq, failures, cutShort>> /\ position' = position + 1
    BY <1>4 DEF Poll, history
  <2>2. DeadLetterIsLastResort'
    BY <2>1 DEF AttemptsAreCounted, DeadLetterIsLastResort
  <2>3. pc' = "handle" => failures'[position'] >= attempt'
    <3>1. position' \in Offsets
      BY <1>0, <1>4, RecordsAssumption DEF Poll, TypeOK, Offsets
    <3> QED
      BY <1>1, <1>4, <2>1, <3>1 DEF Poll
  <2>4. pc' = "deadletter" => Kind[position'] # "good"
    BY <1>4, <2>1 DEF Poll
  <2> QED
    BY <2>2, <2>3, <2>4 DEF AttemptsAreCounted
<1>5. CASE Send
  BY <1>5 DEF Send, AttemptsAreCounted, DeadLetterIsLastResort, history
<1>6. CASE SendFails \/ SendAckLost
  <2>1. /\ pc = "handle" /\ AttemptFails
        /\ UNCHANGED <<position, dlq>>
    BY <1>6 DEF SendFails, SendAckLost
  <2>2. /\ position \in Offsets
        /\ failures' = [failures EXCEPT ![position] = @ + 1]
        /\ cutShort \subseteq cutShort'
    BY <1>1, <2>1 DEF AttemptFails
  <2>3. \A o \in Offsets : failures'[o] >= failures[o]
    BY <1>0, <1>1, <2>2 DEF TypeOK
  <2>4. failures'[position] = failures[position] + 1
    BY <1>0, <2>2 DEF TypeOK
  <2>5. failures[position] >= attempt
    BY <2>1 DEF AttemptsAreCounted
  <2>6. DeadLetterIsLastResort'
    <3> SUFFICES ASSUME NEW o \in Offsets \ cutShort', Kind[o] = "good",
                        dlq'[o] > 0
                 PROVE  failures'[o] > MaxRetries
      BY DEF DeadLetterIsLastResort
    <3>1. failures[o] > MaxRetries
      BY <2>1, <2>2 DEF AttemptsAreCounted, DeadLetterIsLastResort
    <3>2. failures'[o] \in Nat
      BY <1>0 DEF TypeOK
    <3> QED
      BY <1>1, <2>3, <3>1, <3>2
  <2>7. CASE /\ attempt < MaxRetries /\ ctx = "live"
             /\ attempt' = attempt + 1
             /\ UNCHANGED <<pc, cutShort>>
    <3>1. failures'[position'] >= attempt'
      BY <1>1, <2>1, <2>2, <2>4, <2>5, <2>7
    <3> QED
      BY <2>1, <2>6, <2>7, <3>1 DEF AttemptsAreCounted
  <2>8. CASE /\ attempt = MaxRetries \/ ctx = "done"
             /\ pc' = "deadletter"
             /\ cutShort' = IF attempt < MaxRetries
                             THEN cutShort \cup {position} ELSE cutShort
             /\ UNCHANGED attempt
    <3>1. CASE attempt < MaxRetries
      BY <2>1, <2>6, <2>8, <3>1 DEF AttemptsAreCounted
    <3>2. CASE attempt = MaxRetries
      <4>1. failures'[position'] > MaxRetries
        BY <1>1, <2>1, <2>2, <2>4, <2>5, <3>2
      <4> QED
        BY <2>6, <2>8, <4>1 DEF AttemptsAreCounted
    <3> QED
      BY <1>1, <3>1, <3>2
  <2> QED
    BY <2>1, <2>7, <2>8 DEF AttemptFails
<1>7. CASE Bury \/ BuryFails
  <2>1. /\ pc = "deadletter" /\ pc' \in {"commit", "dead"}
        /\ UNCHANGED <<position, failures, cutShort>>
        /\ BuryRecord \/ UNCHANGED dlq
    BY <1>7 DEF Bury, BuryFails, history
  <2>2. DeadLetterIsLastResort'
    <3> SUFFICES ASSUME NEW o \in Offsets \ cutShort', Kind[o] = "good",
                        dlq'[o] > 0
                 PROVE  failures'[o] > MaxRetries
      BY DEF DeadLetterIsLastResort
    <3>1. CASE o = position
      BY <2>1, <3>1 DEF AttemptsAreCounted
    <3>2. CASE o # position
      <4>1. dlq'[o] = dlq[o]
        BY <1>0, <2>1, <3>2 DEF BuryRecord, TypeOK
      <4> QED
        BY <2>1, <4>1 DEF AttemptsAreCounted, DeadLetterIsLastResort
    <3> QED
      BY <3>1, <3>2
  <2> QED
    BY <2>1, <2>2 DEF AttemptsAreCounted
<1>8. CASE Stop \/ Commit \/ CommitFails \/ Restart
  BY <1>3, <1>8 DEF Stop, Commit, CommitFails, Restart
<1>9. CASE Append \/ Cancel \/ UNCHANGED vars
  BY <1>2, <1>9 DEF Append, Cancel, vars, consumer
<1> QED
  BY <1>4, <1>5, <1>6, <1>7, <1>8, <1>9 DEF Next, ConsumerStep

\* A good record is in the dead letter queue only after MaxRetries + 1 failed
\* attempts to handle it, or because a cancellation ended its attempts
\* (handleWithRetries, sendToDLQAndCommit), whatever fails or restarts.
THEOREM DeadLettersAreTheLastResort == Spec => []DeadLetterIsLastResort
<1>1. Init => AttemptsAreCounted
  BY DEF Init, AttemptsAreCounted, DeadLetterIsLastResort
<1>2. IndInv /\ AttemptsAreCounted /\ [Next]_vars => AttemptsAreCounted'
  BY NextAttemptsAreCounted
<1>3. AttemptsAreCounted => DeadLetterIsLastResort
  BY DEF AttemptsAreCounted
<1> QED
  BY <1>1, <1>2, <1>3, ConsumerInvariant, PTL DEF Spec

---------------------------------------------------------------------------
(* The repetitions are bounded. *)

\* What a chat may have got of a record in the rounds that a fault ended.
EarlierRounds == (MaxRetries + 1) * (MaxFaults - faults)

\* What chat c may have got of record o in the present round: nothing if the
\* record is still to be taken, once for every attempt made while the handler
\* has it, and once for every attempt there can be when the round is over.
ThisRound(o, c) ==
    IF o > position THEN 0
    ELSE IF o = position /\ pc = "handle"
         THEN attempt + (IF c < chat THEN 1 ELSE 0)
         ELSE MaxRetries + 1

DeliveriesAreCounted ==
    /\ faults <= MaxFaults
    /\ \A o \in Offsets, c \in Chats :
          delivered[o][c] <= EarlierRounds + ThisRound(o, c)

\* A fault allows one more round of attempts.
LEMMA RoundsGrow ==
    ASSUME TypeOK, faults <= MaxFaults
    PROVE  /\ EarlierRounds \in Nat
           /\ Fault => /\ EarlierRounds' = EarlierRounds + (MaxRetries + 1)
                       /\ faults' <= MaxFaults
           /\ UNCHANGED faults => /\ EarlierRounds' = EarlierRounds
                                  /\ faults' <= MaxFaults
<1>1. /\ MaxRetries + 1 \in Nat /\ MaxFaults \in Nat /\ faults \in Nat
      /\ MaxFaults - faults \in Nat
  BY BoundsAssumption DEF TypeOK
<1>2. \A m, n \in Nat : m * n \in Nat
  OBVIOUS
<1>3. ASSUME Fault
      PROVE  /\ EarlierRounds' = EarlierRounds + (MaxRetries + 1)
             /\ faults' <= MaxFaults
  <2>1. faults' = faults - 1
    BY <1>3 DEF Fault
  <2>2. MaxFaults - faults' = (MaxFaults - faults) + 1
    BY <1>1, <2>1
  <2>3. \A m, n \in Nat : m * (n + 1) = m * n + m
    OBVIOUS
  <2> QED
    BY <1>1, <2>1, <2>2, <2>3 DEF EarlierRounds
<1> QED
  BY <1>1, <1>2, <1>3 DEF EarlierRounds

\* A round never gives a chat a record more often than there are attempts.
LEMMA RoundIsBounded ==
    ASSUME TypeOK, NEW o \in Offsets, NEW c \in Chats
    PROVE  ThisRound(o, c) \in 0 .. MaxRetries + 1
BY BoundsAssumption DEF TypeOK, ThisRound

\* Every step preserves the count.
LEMMA NextDeliveriesAreCounted ==
    ASSUME IndInv, DeliveriesAreCounted, [Next]_vars
    PROVE  DeliveriesAreCounted'
<1>0. TypeOK /\ TypeOK'
  BY NextTypeOK DEF IndInv
<1>1. /\ pc \in {"handle", "deadletter", "commit"} => position \in Offsets
      /\ MaxRetries \in Nat /\ attempt \in Nat /\ attempt <= MaxRetries
      /\ position \in Nat /\ committed \in Nat /\ chat \in Nat
      /\ committed <= position
      /\ \A o \in Offsets : o \in Nat
      /\ \A c \in Chats : c \in Nat /\ 1 <= c
      /\ \A o \in Offsets, c \in Chats :
            delivered[o][c] \in Nat /\ delivered'[o][c] \in Nat
  <2>1. \A c \in Chats : c \in Nat /\ 1 <= c
    BY ChatsAssumption DEF Chats
  <2>2. \A o \in Offsets : o \in Nat
    BY RecordsAssumption DEF Offsets
  <2>3. \A o \in Offsets, c \in Chats :
           delivered[o][c] \in Nat /\ delivered'[o][c] \in Nat
    BY <1>0 DEF TypeOK
  <2>4. position \in Nat /\ committed \in Nat /\ committed <= position
    BY <1>0, RecordsAssumption DEF IndInv, TypeOK
  <2>5. MaxRetries \in Nat /\ attempt \in Nat /\ attempt <= MaxRetries
    BY <1>0, BoundsAssumption DEF TypeOK
  <2>6. chat \in Nat
    BY <1>0, <2>1 DEF TypeOK
  <2> QED
    BY <2>1, <2>2, <2>3, <2>4, <2>5, <2>6, InHandIsAnOffset
<1>2. \A o \in Offsets, c \in Chats :
         /\ ThisRound(o, c) \in Nat
         /\ ThisRound(o, c) <= MaxRetries + 1
  BY <1>0, <1>1, RoundIsBounded
<1>3. \A o \in Offsets, c \in Chats :
         /\ ThisRound(o, c)' \in Nat
         /\ ThisRound(o, c)' <= MaxRetries + 1
  <2>0. MaxRetries \in Nat
    BY BoundsAssumption
  <2>1. PICK n \in 0 .. MaxRetries : n = attempt'
    BY <1>0, BoundsAssumption DEF TypeOK
  <2> SUFFICES ASSUME NEW o \in Offsets, NEW c \in Chats
               PROVE  /\ ThisRound(o, c)' \in Nat
                      /\ ThisRound(o, c)' <= MaxRetries + 1
    OBVIOUS
  <2>2. CASE o > position'
    BY <1>1, <2>2 DEF ThisRound
  <2>3. CASE ~ (o > position') /\ o = position' /\ pc' = "handle"
    <3>1. CASE c < chat'
      <4>1. ThisRound(o, c)' = n + 1
        BY <2>1, <2>3, <3>1 DEF ThisRound
      <4>2. /\ n + 1 \in Nat
            /\ n + 1 <= MaxRetries + 1
        BY <2>0
      <4> QED
        BY <4>1, <4>2
    <3>2. CASE ~ (c < chat')
      <4>1. ThisRound(o, c)' = n + 0
        BY <2>1, <2>3, <3>2 DEF ThisRound
      <4>2. /\ n + 0 \in Nat
            /\ n + 0 <= MaxRetries + 1
        BY <2>0
      <4> QED
        BY <4>1, <4>2
    <3> QED
      BY <3>1, <3>2
  <2>4. CASE ~ (o > position') /\ ~ (o = position' /\ pc' = "handle")
    BY <1>1, <2>4 DEF ThisRound
  <2> QED
    BY <2>2, <2>3, <2>4
<1>4. /\ EarlierRounds \in Nat /\ EarlierRounds' \in Nat
      /\ EarlierRounds' >= EarlierRounds /\ faults' <= MaxFaults
  <2>1. Fault \/ UNCHANGED faults
    BY DEF Next, ConsumerStep, Append, Poll, Stop, Send, SendFails,
           SendAckLost, Bury, BuryFails, Commit, CommitFails, Cancel,
           Restart, vars
  <2>2. faults <= MaxFaults
    BY DEF DeliveriesAreCounted
  <2> QED
    BY <1>0, <1>1, <2>1, <2>2, RoundsGrow
<1>5. \A o \in Offsets, c \in Chats :
         delivered[o][c] <= EarlierRounds + ThisRound(o, c)
  BY DEF DeliveriesAreCounted
<1>6. ASSUME /\ UNCHANGED delivered
             /\ \A o \in Offsets, c \in Chats :
                   ThisRound(o, c)' >= ThisRound(o, c)
      PROVE  DeliveriesAreCounted'
  <2> SUFFICES ASSUME NEW o \in Offsets, NEW c \in Chats
               PROVE  delivered'[o][c] <= EarlierRounds' + ThisRound(o, c)'
    BY <1>4 DEF DeliveriesAreCounted
  <2>1. /\ delivered'[o][c] <= EarlierRounds + ThisRound(o, c)
        /\ ThisRound(o, c)' >= ThisRound(o, c)
    BY <1>5, <1>6
  <2> QED
    BY <1>1, <1>2, <1>3, <1>4, <2>1
<1>7. CASE Append \/ Cancel \/ UNCHANGED vars
  <2>1. UNCHANGED <<position, pc, attempt, chat, delivered>>
    BY <1>7 DEF Append, Cancel, vars, consumer
  <2> QED
    BY <1>2, <1>6, <2>1 DEF ThisRound
<1>8. CASE Stop \/ Bury \/ BuryFails \/ Commit \/ CommitFails
  <2>1. /\ UNCHANGED <<position, delivered>>
        /\ pc # "handle" /\ pc' # "handle"
    BY <1>8 DEF Stop, Bury, BuryFails, Commit, CommitFails
  <2> QED
    BY <1>2, <1>6, <2>1 DEF ThisRound
<1>9. CASE Poll
  <2>1. /\ UNCHANGED delivered /\ position' = position + 1 /\ pc = "poll"
    BY <1>9 DEF Poll
  <2>2. \A o \in Offsets, c \in Chats : ThisRound(o, c)' >= ThisRound(o, c)
    BY <1>1, <1>3, <2>1 DEF ThisRound
  <2> QED
    BY <1>6, <2>1, <2>2
<1>10. CASE Restart
  <2> SUFFICES ASSUME NEW o \in Offsets, NEW c \in Chats
               PROVE  delivered'[o][c] <= EarlierRounds' + ThisRound(o, c)'
    BY <1>4 DEF DeliveriesAreCounted
  <2>1. UNCHANGED delivered /\ EarlierRounds' = EarlierRounds + (MaxRetries + 1)
    BY <1>0, <1>10, RoundsGrow DEF Restart, DeliveriesAreCounted
  <2>2. delivered[o][c] <= EarlierRounds + (MaxRetries + 1)
    BY <1>1, <1>2, <1>4, <1>5
  <2> QED
    BY <1>1, <1>3, <1>4, <2>1, <2>2
<1>11. CASE Send \/ SendFails \/ SendAckLost
  <2>1. /\ pc = "handle" /\ position \in Offsets /\ position' = position
        /\ Deliver \/ UNCHANGED delivered
    BY <1>1, <1>11 DEF Send, SendFails, SendAckLost
  <2> SUFFICES ASSUME NEW o \in Offsets, NEW c \in Chats
               PROVE  delivered'[o][c] <= EarlierRounds' + ThisRound(o, c)'
    BY <1>4 DEF DeliveriesAreCounted
  <2>2. CASE o # position
    <3>1. delivered'[o][c] = delivered[o][c]
      BY <1>0, <2>1, <2>2 DEF Deliver, TypeOK
    <3>2. ThisRound(o, c)' = ThisRound(o, c)
      BY <2>1, <2>2 DEF ThisRound
    <3> QED
      BY <1>1, <1>2, <1>4, <1>5, <3>1, <3>2
  <2>3. CASE o = position
    <3>1. ThisRound(o, c) = attempt + (IF c < chat THEN 1 ELSE 0)
      BY <1>1, <2>1, <2>3 DEF ThisRound
    <3>2. delivered[o][c] <= EarlierRounds + attempt + (IF c < chat THEN 1 ELSE 0)
      BY <1>1, <1>4, <1>5, <3>1
    <3>3. delivered'[o][c] = delivered[o][c] + (IF c = chat THEN 1 ELSE 0)
          \/ delivered'[o][c] = delivered[o][c]
      BY <1>0, <1>1, <2>1, <2>3 DEF Deliver, TypeOK
    <3>4. CASE Send
      <4>1. \/ chat' = chat + 1 /\ pc' = "handle"
            \/ pc' = "commit"
        BY <2>1, <3>4 DEF Send
      <4>2. attempt' = attempt
        BY <3>4 DEF Send
      <4>3. /\ pc' = "handle" =>
                  ThisRound(o, c)' = attempt + (IF c < chat + 1 THEN 1 ELSE 0)
            /\ pc' = "commit" => ThisRound(o, c)' = MaxRetries + 1
        BY <1>1, <2>1, <2>3, <4>1, <4>2 DEF ThisRound
      <4> QED
        BY <1>1, <1>4, <3>2, <3>3, <4>1, <4>3
    <3>5. CASE SendFails \/ SendAckLost
      <4>1. AttemptFails
        BY <3>5 DEF SendFails, SendAckLost
      <4>2. /\ chat' = 1
            /\ \/ attempt' = attempt + 1 /\ pc' = "handle"
               \/ pc' = "deadletter"
        BY <2>1, <4>1 DEF AttemptFails
      <4>3. /\ pc' = "handle" => ThisRound(o, c)' = attempt + 1
            /\ pc' = "deadletter" => ThisRound(o, c)' = MaxRetries + 1
        BY <1>1, <2>1, <2>3, <4>2 DEF ThisRound
      <4> QED
        BY <1>1, <1>4, <3>2, <3>3, <4>2, <4>3
    <3> QED
      BY <1>11, <3>4, <3>5
  <2> QED
    BY <2>2, <2>3
<1> QED
  BY <1>7, <1>8, <1>9, <1>10, <1>11 DEF Next, ConsumerStep

\* No chat gets a record more often than MaxRetries + 1 times, and as many
\* times again for every failed call, cancellation or restart: the attempts
\* of handleWithRetries start over only when the consumer does.
THEOREM RepetitionsAreBounded == Spec => []DeliveriesAreBounded
<1>1. Init => DeliveriesAreCounted
  <2> SUFFICES ASSUME Init PROVE DeliveriesAreCounted
    OBVIOUS
  <2>1. TypeOK
    BY InitIndInv DEF IndInv
  <2>2. faults <= MaxFaults /\ EarlierRounds \in Nat
    BY <2>1, RoundsGrow, BoundsAssumption DEF Init
  <2>3. \A o \in Offsets, c \in Chats :
           delivered[o][c] = 0 /\ ThisRound(o, c) \in 0 .. MaxRetries + 1
    BY <2>1, RoundIsBounded DEF Init
  <2> QED
    BY <2>2, <2>3, BoundsAssumption DEF DeliveriesAreCounted
<1>2. IndInv /\ DeliveriesAreCounted /\ [Next]_vars => DeliveriesAreCounted'
  BY NextDeliveriesAreCounted
<1>3. IndInv /\ DeliveriesAreCounted => DeliveriesAreBounded
  <2> SUFFICES ASSUME IndInv, DeliveriesAreCounted,
                      NEW o \in Offsets, NEW c \in Chats
               PROVE  delivered[o][c] <=
                         (MaxRetries + 1) * (1 + MaxFaults - faults)
    BY DEF DeliveriesAreBounded
  <2>1. TypeOK
    BY DEF IndInv
  <2>2. /\ MaxRetries + 1 \in Nat /\ MaxFaults - faults \in Nat
        /\ EarlierRounds \in Nat /\ delivered[o][c] \in Nat
    BY <2>1, RoundsGrow, BoundsAssumption DEF TypeOK, DeliveriesAreCounted
  <2>3. \A m, n \in Nat : m * (n + 1) = m * n + m
    OBVIOUS
  <2>4. 1 + MaxFaults - faults = (MaxFaults - faults) + 1
    BY <2>1, BoundsAssumption DEF TypeOK
  <2>5. (MaxRetries + 1) * (1 + MaxFaults - faults)
           = EarlierRounds + (MaxRetries + 1)
    BY <2>2, <2>3, <2>4 DEF EarlierRounds
  <2>6. delivered[o][c] <= EarlierRounds + (MaxRetries + 1)
    BY <2>1, <2>2, RoundIsBounded DEF DeliveriesAreCounted
  <2> QED
    BY <2>5, <2>6
<1> QED
  BY <1>1, <1>2, <1>3, ConsumerInvariant, PTL DEF Spec
===========================================================================

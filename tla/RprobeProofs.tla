---------------------------- MODULE RprobeProofs ----------------------------
(***************************************************************************)
(* Proofs about module Rprobe, for every number of packets, rounds, copies *)
(* and foreign packets.                                                    *)
(***************************************************************************)
EXTENDS Rprobe, FiniteSetTheorems, TLAPS

-----------------------------------------------------------------------------
(* Types *)

\* A process that is past the test of the loop awaits a packet, and a process
\* inside rprobe() has been called.
Control ==
  /\ pc \in {"enter", "blocked"} => n_outstanding # 0
  /\ pc # "caller" => round > 0

TypeInv == FlagTypes /\ DataTypes /\ Control

LEMMA InitType == Init => TypeInv
<1> SUFFICES ASSUME Init PROVE TypeInv
  OBVIOUS
<1>1. FlagTypes
  BY DEF Init, FlagTypes
<1>2. DataTypes
  BY ConstantsAssumption
     DEF ConstantsAssumption, Init, DataTypes, PCs, Rounds, Slots, Lost
<1>3. Control
  BY DEF Init, Control
<1>4. QED BY <1>1, <1>2, <1>3 DEF TypeInv

LEMMA NextFlagTypes == FlagTypes /\ [Next]_vars => FlagTypes'
<1> SUFFICES ASSUME FlagTypes, [Next]_vars PROVE FlagTypes'
  OBVIOUS
<1> USE DEF FlagTypes, Goto, socketVars, timerVars, routeVars, recordVars, flagVars
<1>1. CASE RprobeEntry BY <1>1 DEF RprobeEntry
<1>2. CASE OpenSocket BY <1>2 DEF OpenSocket
<1>3. CASE SetupFails BY <1>3 DEF SetupFails
<1>4. CASE SendIcmp BY <1>4 DEF SendIcmp
<1>5. CASE SendDone BY <1>5 DEF SendDone
<1>6. CASE Arm BY <1>6 DEF Arm
<1>7. CASE Test BY <1>7 DEF Test
<1>8. CASE EnterRecvfrom BY <1>8 DEF EnterRecvfrom
<1>9. ASSUME NEW p \in net, Accept(p) PROVE FlagTypes'
  <2>1. inOrder' \in BOOLEAN BY <1>9 DEF Accept
  <2>2. routeData' \in BOOLEAN BY <1>9 DEF Accept, ParseRoute
  <2>3. duplicatePkts' \in BOOLEAN BY <1>9 DEF Accept, RecordFirst, RecordRepeat
  <2>4. TimeOutFlag' \in BOOLEAN /\ abandoned' \in BOOLEAN BY <1>9 DEF Accept
  <2>5. QED BY <2>1, <2>2, <2>3, <2>4
<1>10. ASSUME NEW p \in net, Refuse(p) PROVE FlagTypes'
  BY <1>10 DEF Refuse
<1>11. CASE Close BY <1>11 DEF Close
<1>12. CASE AlarmFires BY <1>12 DEF AlarmFires
<1>13. CASE ForeignPacket BY <1>13 DEF ForeignPacket
<1>14. CASE Finished BY <1>14 DEF Finished, vars
<1>15. CASE UNCHANGED vars BY <1>15 DEF vars
<1>16. QED
  BY <1>1, <1>2, <1>3, <1>4, <1>5, <1>6, <1>7, <1>8, <1>9, <1>10, <1>11,
     <1>12, <1>13, <1>14, <1>15
     DEF Next, Process, Receive

LEMMA ForeignType == \A c \in Nat : ForeignPackets(c) \subseteq Packet
<1> SUFFICES ASSUME NEW c \in Nat, NEW p \in ForeignPackets(c) PROVE p \in Packet
  OBVIOUS
<1>1. 0 \in Slots /\ 0 \in Rounds /\ SiblingSeqs \subseteq Slots
  BY ConstantsAssumption DEF ConstantsAssumption, Slots, Rounds
<1>2. QED BY <1>1 DEF ForeignPackets, Packet

\* A reply that is accepted leaves every variable in its type.
LEMMA AcceptType ==
  ASSUME DataTypes, Control, NEW p \in net, Accept(p)
  PROVE  DataTypes' /\ Control'
<1>1. p.seq \in Slots /\ p.from \in Rounds /\ p.route \in Routes \cup {NoRoute}
  BY DEF DataTypes, Packet
<1>2. /\ numPaths' \in Nat /\ sumopt' \subseteq Routes
      /\ known' \subseteq Routes /\ taken' \subseteq Routes
  <2>1. /\ numPaths \in Nat /\ sumopt \subseteq Routes
        /\ known \subseteq Routes /\ taken \subseteq Routes
    BY DEF DataTypes
  <2>2. numPaths' = numPaths \/ numPaths' = numPaths + 1
    BY DEF Accept, ParseRoute, routeVars
  <2>3. /\ sumopt' = sumopt \/ (p.route # NoRoute /\ sumopt' = sumopt \cup {p.route})
        /\ taken' = taken \/ (p.route # NoRoute /\ taken' = taken \cup {p.route})
        /\ known' = known
    BY DEF Accept, ParseRoute, routeVars
  <2>4. numPaths' \in Nat
    BY <2>1, <2>2
  <2>5. QED BY <1>1, <2>1, <2>3, <2>4
<1>3. n_outstanding' \in 0 .. NPackets
  <2>1. n_outstanding \in 0 .. NPackets /\ n_outstanding # 0 /\ NPackets \in Nat
    BY ConstantsAssumption
       DEF ConstantsAssumption, DataTypes, Control, Accept, Goto
  <2>2. n_outstanding' = n_outstanding \/ n_outstanding' = n_outstanding - 1
    BY DEF Accept, RecordFirst, RecordRepeat
  <2>3. QED BY <2>1, <2>2
<1>4. orderOK' \in [Slots -> BOOLEAN]
  <2>1. \/ orderOK' = orderOK
        \/ orderOK' = [orderOK EXCEPT ![p.seq] = InSequence(p.seq)]
    BY DEF Accept, RecordFirst, RecordRepeat
  <2>2. InSequence(p.seq) \in BOOLEAN
    BY DEF InSequence
  <2>3. QED BY <1>1, <2>1, <2>2 DEF DataTypes
<1>5. ticks' \in Nat /\ arrive' \in [Slots -> Nat \cup {Lost}]
  <2>1. ticks + 1 \in Nat /\ ticks' = ticks + 1
    BY DEF DataTypes, Accept
  <2>2. \/ arrive' = arrive
        \/ arrive' = [arrive EXCEPT ![p.seq] = ticks + 1]
    BY DEF Accept, RecordFirst, RecordRepeat
  <2>3. QED BY <1>1, <2>1, <2>2 DEF DataTypes
<1>6. source' \in [Slots -> Rounds]
  <2>1. source' = source \/ source' = [source EXCEPT ![p.seq] = p.from]
    BY DEF Accept, RecordFirst, RecordRepeat
  <2>2. QED BY <1>1, <2>1 DEF DataTypes
<1>7. returned' \in [Slots -> Nat]
  <2>1. returned' = [returned EXCEPT ![p.seq] = @ + 1]
    BY DEF Accept
  <2>2. returned[p.seq] + 1 \in Nat
    BY <1>1 DEF DataTypes
  <2>3. QED BY <1>1, <2>1, <2>2 DEF DataTypes
<1>8. /\ net' \subseteq Packet /\ lastPacketId' \in Slots
      /\ pc' = "test" /\ round' = round /\ alarm' = alarm /\ expired' = expired
      /\ foreign' = foreign
  BY <1>1 DEF DataTypes, Accept, Goto, timerVars
<1>9. Control'
  BY <1>8 DEF Control, Accept, Goto
<1>10. DataTypes'
  BY <1>2, <1>3, <1>4, <1>5, <1>6, <1>7, <1>8 DEF DataTypes, PCs
<1>11. QED BY <1>9, <1>10

LEMMA NextType == TypeInv /\ [Next]_vars => TypeInv'
<1> SUFFICES ASSUME FlagTypes, DataTypes, Control, [Next]_vars
             PROVE DataTypes' /\ Control'
  BY NextFlagTypes DEF TypeInv
<1> USE ConstantsAssumption
    DEF ConstantsAssumption, DataTypes, Control, PCs, Rounds, Slots, Ids,
        Lost, Goto,
        socketVars, timerVars, routeVars, recordVars, flagVars
<1>1. CASE RprobeEntry BY <1>1 DEF RprobeEntry
<1>2. CASE OpenSocket BY <1>2 DEF OpenSocket
<1>3. CASE SetupFails BY <1>3 DEF SetupFails
<1>4. CASE SendIcmp
  <2>1. \A c \in Nat : OwnReply(n_outstanding, c) \in Packet
    BY <1>4 DEF SendIcmp, OwnReply, Packet
  <2>2. net' \subseteq Packet
    <3>1. PICK copies \in (IF CanLose THEN 0 ELSE 1) .. MaxCopies :
            net' = net \cup {OwnReply(n_outstanding, c) : c \in 1 .. copies}
      BY <1>4 DEF SendIcmp
    <3>2. \A c \in 1 .. copies : OwnReply(n_outstanding, c) \in Packet
      BY <2>1
    <3>3. QED BY <3>1, <3>2
  <2>3. QED BY <1>4, <2>2 DEF SendIcmp
<1>5. CASE SendDone BY <1>5 DEF SendDone
<1>6. CASE Arm BY <1>6 DEF Arm, ArmAlarm
<1>7. CASE Test BY <1>7 DEF Test, LoopContinues
<1>8. CASE EnterRecvfrom BY <1>8 DEF EnterRecvfrom
<1>9. ASSUME NEW p \in net, Accept(p) PROVE DataTypes' /\ Control'
  BY <1>9, AcceptType
<1>10. ASSUME NEW p \in net, Refuse(p) PROVE DataTypes' /\ Control'
  BY <1>10 DEF Refuse
<1>11. CASE Close BY <1>11 DEF Close
<1>12. CASE AlarmFires BY <1>12 DEF AlarmFires
<1>13. CASE ForeignPacket
  <2>1. foreign' \in 0 .. MaxForeign
    BY <1>13 DEF ForeignPacket
  <2>2. ForeignPackets(foreign + 1) \subseteq Packet
    BY ForeignType
  <2>3. net' \subseteq Packet
    BY <1>13, <2>2 DEF ForeignPacket
  <2>4. QED BY <1>13, <2>1, <2>3 DEF ForeignPacket
<1>14. CASE Finished BY <1>14 DEF Finished, vars
<1>15. CASE UNCHANGED vars BY <1>15 DEF vars
<1>16. QED
  BY <1>1, <1>2, <1>3, <1>4, <1>5, <1>6, <1>7, <1>8, <1>9, <1>10, <1>11,
     <1>12, <1>13, <1>14, <1>15
     DEF Next, Process, Receive

\* Every variable of the probing engine keeps its type: in particular the
\* countdown n_outstanding stays within 0..NPackets and never goes below zero.
THEOREM TypeCorrect == Spec => []TypeOK
<1>1. TypeInv => TypeOK BY DEF TypeInv, TypeOK
<1>2. QED BY <1>1, InitType, NextType, PTL DEF Spec

-----------------------------------------------------------------------------
(* The alarm *)

BeforeLoop == {"setup", "send", "arm", "exit"}

\* Until alarm() is called for this round the pending alarm may be an old one,
\* but then nothing has been read yet; a process inside the loop was let in
\* by a test that found the flag down.
TimerInv ==
  /\ TimeOutFlag <=> expired # 0
  /\ pc \notin BeforeLoop => alarm \in {0, round}
  /\ pc \in {"enter", "blocked"} => expired \in {0, round}
  /\ pc \in BeforeLoop => \A i \in Ids : ~Arrived(i)
  /\ StaleTimeoutEmptiesRound

LEMMA InitTimer == Init => TimerInv
BY DEF Init, TimerInv, BeforeLoop, Arrived, StaleTimeoutEmptiesRound

LEMMA NextTimer == TypeInv /\ TimerInv /\ [Next]_vars => TimerInv'
<1> SUFFICES ASSUME TypeInv, TimerInv, [Next]_vars PROVE TimerInv'
  OBVIOUS
<1>0. /\ round \in Rounds /\ alarm \in Rounds /\ expired \in Rounds /\ pc \in PCs
      /\ arrive \in [Slots -> Nat \cup {Lost}] /\ Ids \subseteq Slots
      /\ pc # "caller" => round > 0
  BY ConstantsAssumption
     DEF TypeInv, DataTypes, Control, ConstantsAssumption, Ids, Slots
<1> USE <1>0 DEF TimerInv, BeforeLoop, Arrived, StaleTimeoutEmptiesRound, Goto,
                 Rounds, socketVars, timerVars, routeVars, recordVars, flagVars
<1>1. CASE RprobeEntry
  <2>1. \A i \in Ids : ~Arrived(i)'
    BY <1>1 DEF RprobeEntry
  <2>2. pc' = "setup" /\ ~TimeOutFlag' /\ expired' = 0
    BY <1>1 DEF RprobeEntry
  <2>3. QED BY <2>1, <2>2
<1>2. CASE OpenSocket BY <1>2 DEF OpenSocket
<1>3. CASE SetupFails BY <1>3 DEF SetupFails
<1>4. CASE SendIcmp BY <1>4 DEF SendIcmp
<1>5. CASE SendDone BY <1>5 DEF SendDone
<1>6. CASE Arm BY <1>6 DEF Arm, ArmAlarm
<1>7. CASE Test BY <1>7 DEF Test, LoopContinues
<1>8. CASE EnterRecvfrom BY <1>8 DEF EnterRecvfrom
<1>9. ASSUME NEW p \in net, Accept(p) PROVE TimerInv'
  BY <1>9 DEF Accept
<1>10. ASSUME NEW p \in net, Refuse(p) PROVE TimerInv'
  BY <1>10 DEF Refuse
<1>11. CASE Close BY <1>11 DEF Close
<1>12. CASE AlarmFires BY <1>12 DEF AlarmFires, PCs
<1>13. CASE ForeignPacket BY <1>13 DEF ForeignPacket
<1>14. CASE Finished BY <1>14 DEF Finished, vars
<1>15. CASE UNCHANGED vars BY <1>15 DEF vars
<1>16. QED
  BY <1>1, <1>2, <1>3, <1>4, <1>5, <1>6, <1>7, <1>8, <1>9, <1>10, <1>11,
     <1>12, <1>13, <1>14, <1>15
     DEF Next, Process, Receive

\* A timeout left over from an earlier round can end this one only before its
\* first packet is read, whatever the network and the other processes do.
THEOREM StaleTimeout == Spec => []StaleTimeoutEmptiesRound
<1>1. TimerInv => StaleTimeoutEmptiesRound BY DEF TimerInv
<1>2. QED
  BY <1>1, InitType, NextType, InitTimer, NextTimer, PTL DEF Spec

-----------------------------------------------------------------------------
(* The order of the arrivals *)

\* What the receive loop has recorded is consistent with how often it saw each
\* packet, and the last packet read is the latest of the arrivals.
OrderInv ==
  /\ \A i \in Ids : Arrived(i) => returned[i] > 0
  /\ ~duplicatePkts /\ lastPacketId \in Ids =>
       Arrived(lastPacketId) /\ arrive[lastPacketId] = ticks
  /\ OrderedPairAdjacent

LEMMA InitOrder == Init => OrderInv
BY DEF Init, OrderInv, Arrived, OrderedPairAdjacent, Ids

\* A packet that is read for the first time becomes the latest arrival, and
\* leaves the earlier ones where they were.
LEMMA FirstRecorded ==
  ASSUME TypeInv, OrderInv, NEW p \in net, Accept(p), RecordFirst(p)
  PROVE  /\ p.seq \in Slots /\ returned'[p.seq] > 0
         /\ Arrived(p.seq)' /\ arrive'[p.seq] = ticks + 1
         /\ \A i \in Slots : i # p.seq =>
              arrive'[i] = arrive[i] /\ returned'[i] = returned[i]
<1>1. /\ p.seq \in Slots /\ ticks \in Nat /\ round \in Nat /\ pc = "blocked"
      /\ arrive \in [Slots -> Nat \cup {Lost}] /\ returned \in [Slots -> Nat]
      /\ round > 0 /\ round' = round
  BY DEF TypeInv, DataTypes, Control, Rounds, Packet, Accept, Goto
<1>2. arrive' = [arrive EXCEPT ![p.seq] = ticks + 1]
  BY DEF RecordFirst
<1>3. returned' = [returned EXCEPT ![p.seq] = @ + 1]
  BY DEF Accept
<1>4. ticks + 1 # Lost
  BY <1>1 DEF Lost
<1>5. QED
  BY <1>1, <1>2, <1>3, <1>4 DEF Arrived

LEMMA NextOrder == TypeInv /\ TimerInv /\ OrderInv /\ [Next]_vars => OrderInv'
<1> SUFFICES ASSUME TypeInv, TimerInv, OrderInv, [Next]_vars PROVE OrderInv'
  OBVIOUS
<1>0. arrive \in [Slots -> Nat \cup {Lost}] /\ returned \in [Slots -> Nat]
  BY DEF TypeInv, DataTypes
<1>b. \A i \in Ids : i \in Slots
  BY ConstantsAssumption DEF ConstantsAssumption, Ids, Slots
\* What a step that records nothing needs not look at.
<1>a. ASSUME UNCHANGED <<round, arrive, orderOK, returned, lastPacketId, ticks,
                         duplicatePkts>>
      PROVE  OrderInv'
  BY <1>a DEF OrderInv, Arrived, OrderedPairAdjacent
<1> USE DEF Goto, socketVars, timerVars, routeVars, recordVars, flagVars
<1>1. CASE RprobeEntry
  <2>1. \A i \in Ids : ~Arrived(i)'
    <3>1. arrive' = [i \in Slots |-> IF i \in Ids THEN Lost ELSE arrive[i]]
      BY <1>1 DEF RprobeEntry
    <3>2. QED BY <1>b, <3>1 DEF Arrived
  <2>2. lastPacketId' \notin Ids
    BY <1>1 DEF RprobeEntry, Ids
  <2>3. QED BY <2>1, <2>2 DEF OrderInv, OrderedPairAdjacent
<1>2. CASE OpenSocket BY <1>2, <1>a DEF OpenSocket
<1>3. CASE SetupFails BY <1>3, <1>a DEF SetupFails
<1>4. CASE SendIcmp
  <2>1. \A i \in Ids : ~Arrived(i)
    BY <1>4 DEF SendIcmp, TimerInv, BeforeLoop
  <2>2. \A i \in Ids : ~Arrived(i)'
    BY <1>4, <2>1 DEF SendIcmp, Arrived
  <2>3. UNCHANGED <<lastPacketId, duplicatePkts>>
    BY <1>4 DEF SendIcmp
  <2>4. QED BY <2>1, <2>2, <2>3 DEF OrderInv, OrderedPairAdjacent
<1>5. CASE SendDone BY <1>5, <1>a DEF SendDone
<1>6. CASE Arm BY <1>6, <1>a DEF Arm
<1>7. CASE Test BY <1>7, <1>a DEF Test
<1>8. CASE EnterRecvfrom BY <1>8, <1>a DEF EnterRecvfrom
<1>9. ASSUME NEW p \in net, Accept(p) PROVE OrderInv'
  <2>1. lastPacketId' = p.seq /\ ticks' = ticks + 1 /\ round' = round
    BY <1>9 DEF Accept
  <2>2. CASE RecordFirst(p)
    <3>1. /\ p.seq \in Slots /\ returned'[p.seq] > 0
          /\ Arrived(p.seq)' /\ arrive'[p.seq] = ticks + 1
          /\ \A i \in Slots : i # p.seq =>
               arrive'[i] = arrive[i] /\ returned'[i] = returned[i]
      BY <1>9, <2>2, FirstRecorded
    <3>2. \A i \in Ids : Arrived(i)' => returned'[i] > 0
      BY <1>b, <2>1, <3>1 DEF OrderInv, Arrived
    <3>3. ASSUME ~duplicatePkts', NEW i \in Ids \ {0}, Arrived(i)', orderOK'[i]
          PROVE  Arrived(i - 1)' /\ arrive'[i] = arrive'[i - 1] + 1
      <4>1. i \in Int /\ i - 1 \in Ids /\ i - 1 # i
        BY ConstantsAssumption DEF ConstantsAssumption, Ids
      <4>a. i \in Slots
        BY <1>b
      <4>b. ~duplicatePkts
        BY <2>2, <3>3 DEF RecordFirst
      <4>2. CASE i = p.seq
        <5>1. InSequence(i)
          BY <2>2, <3>3, <4>a, <4>2 DEF RecordFirst, TypeInv, DataTypes
        <5>a. lastPacketId \in Int
          BY DEF TypeInv, DataTypes, Slots
        <5>2. lastPacketId = i - 1
          BY <4>1, <5>1, <5>a DEF InSequence
        <5>3. Arrived(i - 1) /\ arrive[i - 1] = ticks
          BY <4>1, <4>b, <5>2 DEF OrderInv
        <5>4. i - 1 \in Slots /\ i - 1 # p.seq
          BY <1>b, <4>1, <4>2
        <5>5. arrive'[i - 1] = ticks /\ Arrived(i - 1)'
          BY <2>1, <3>1, <5>3, <5>4 DEF Arrived
        <5>6. QED BY <2>1, <3>1, <4>2, <5>5
      <4>3. CASE i # p.seq
        <5>1. Arrived(i) /\ arrive'[i] = arrive[i]
          BY <2>1, <3>1, <3>3, <4>a, <4>3 DEF Arrived
        <5>2. orderOK[i]
          BY <2>2, <3>3, <4>a, <4>3 DEF RecordFirst, TypeInv, DataTypes
        <5>3. Arrived(i - 1) /\ arrive[i] = arrive[i - 1] + 1
          BY <4>b, <5>1, <5>2 DEF OrderInv, OrderedPairAdjacent
        <5>4. i - 1 # p.seq
          BY <2>2, <4>1, <5>3 DEF OrderInv, RecordFirst
        <5>5. i - 1 \in Slots
          BY <1>b, <4>1
        <5>6. arrive'[i - 1] = arrive[i - 1] /\ Arrived(i - 1)'
          BY <2>1, <3>1, <5>3, <5>4, <5>5 DEF Arrived
        <5>7. QED BY <5>1, <5>3, <5>6
      <4>4. QED BY <4>2, <4>3
    <3>4. QED
      BY <2>1, <3>1, <3>2, <3>3 DEF OrderInv, OrderedPairAdjacent
  <2>3. CASE RecordRepeat(p)
    <3>1. duplicatePkts' /\ arrive' = arrive
      BY <2>3 DEF RecordRepeat
    <3>2. \A i \in Slots : returned[i] > 0 => returned'[i] > 0
      BY <1>0, <1>9 DEF Accept
    <3>3. \A i \in Ids : Arrived(i)' => returned'[i] > 0
      BY <1>b, <2>1, <3>1, <3>2 DEF OrderInv, Arrived
    <3>4. QED BY <3>1, <3>3 DEF OrderInv, OrderedPairAdjacent
  <2>4. QED BY <1>9, <2>2, <2>3 DEF Accept
<1>10. ASSUME NEW p \in net, Refuse(p) PROVE OrderInv'
  BY <1>10, <1>a DEF Refuse
<1>11. CASE Close BY <1>11, <1>a DEF Close
<1>12. CASE AlarmFires BY <1>12, <1>a DEF AlarmFires
<1>13. CASE ForeignPacket BY <1>13, <1>a DEF ForeignPacket
<1>14. CASE Finished BY <1>14, <1>a DEF Finished, vars
<1>15. CASE UNCHANGED vars BY <1>15, <1>a DEF vars
<1>16. QED
  BY <1>1, <1>2, <1>3, <1>4, <1>5, <1>6, <1>7, <1>8, <1>9, <1>10, <1>11,
     <1>12, <1>13, <1>14, <1>15
     DEF Next, Process, Receive

\* Without duplicates, a packet marked orderOK arrived right behind its
\* predecessor in the train, in every round, whatever flags the earlier rounds
\* left behind.
THEOREM OrderedPairs == Spec => []OrderedPairAdjacent
<1>1. OrderInv => OrderedPairAdjacent BY DEF OrderInv
<1>2. QED
  BY <1>1, InitType, NextType, InitTimer, NextTimer, InitOrder, NextOrder, PTL
     DEF Spec

-----------------------------------------------------------------------------
(* What is kept *)

\* A reply to a packet that has an arrival records none: it was counted before.
LEMMA AcceptKeepsArrivals ==
  ASSUME TypeInv, OrderInv, NEW p \in net, Accept(p), NEW i \in Ids, Arrived(i)
  PROVE  arrive'[i] = arrive[i] /\ source'[i] = source[i]
<1>1. p.seq \in Slots /\ i \in Slots
  BY ConstantsAssumption DEF ConstantsAssumption, TypeInv, DataTypes, Packet, Ids, Slots
<1>2. returned[i] > 0
  BY DEF OrderInv
<1>3. CASE RecordFirst(p)
  <2>1. p.seq # i
    BY <1>2, <1>3 DEF RecordFirst
  <2>2. /\ arrive' = [arrive EXCEPT ![p.seq] = ticks + 1]
        /\ source' = [source EXCEPT ![p.seq] = p.from]
    BY <1>3 DEF RecordFirst
  <2>3. arrive \in [Slots -> Nat \cup {Lost}] /\ source \in [Slots -> Rounds]
    BY DEF TypeInv, DataTypes
  <2>4. QED BY <1>1, <2>1, <2>2, <2>3
<1>4. CASE RecordRepeat(p)
  BY <1>4 DEF RecordRepeat
<1>5. QED BY <1>3, <1>4 DEF Accept

\* Any other step leaves the arrivals alone or begins a new round.
LEMMA StepKeepsArrivals ==
  ASSUME TypeInv, OrderInv, [Next]_vars, round' = round, NEW i \in Ids, Arrived(i)
  PROVE  arrive'[i] = arrive[i] /\ source'[i] = source[i]
<1> USE DEF recordVars
<1>1. CASE RprobeEntry
  <2>1. round \in Nat /\ round' = round + 1
    BY <1>1, ConstantsAssumption
       DEF ConstantsAssumption, RprobeEntry, TypeInv, DataTypes, Rounds
  <2>2. QED BY <2>1
<1>2. CASE OpenSocket \/ SetupFails \/ SendDone \/ Arm \/ Test \/ EnterRecvfrom
  BY <1>2 DEF OpenSocket, SetupFails, SendDone, Arm, Test, EnterRecvfrom
<1>3. CASE SendIcmp
  BY <1>3 DEF SendIcmp
<1>4. ASSUME NEW p \in net, Accept(p) PROVE arrive'[i] = arrive[i] /\ source'[i] = source[i]
  BY <1>4, AcceptKeepsArrivals
<1>5. ASSUME NEW p \in net, Refuse(p) PROVE arrive'[i] = arrive[i] /\ source'[i] = source[i]
  BY <1>5 DEF Refuse
<1>6. CASE Close \/ AlarmFires \/ ForeignPacket
  BY <1>6 DEF Close, AlarmFires, ForeignPacket
<1>7. CASE UNCHANGED vars
  BY <1>7 DEF vars
<1>8. QED
  BY <1>1, <1>2, <1>3, <1>4, <1>5, <1>6, <1>7 DEF Next, Process, Receive, Finished

\* The time of a packet's first reply is never overwritten within its round,
\* whatever replies follow, other processes' replies included.
THEOREM FirstArrivals == Spec => FirstArrivalKept
<1>1. TypeInv /\ OrderInv /\ [Next]_vars =>
        [round' = round =>
           \A i \in Ids : Arrived(i) => arrive'[i] = arrive[i] /\ source'[i] = source[i]]_vars
  BY StepKeepsArrivals
<1>2. QED
  BY <1>1, InitType, NextType, InitTimer, NextTimer, InitOrder, NextOrder, PTL
     DEF Spec, FirstArrivalKept

-----------------------------------------------------------------------------
(* The routes *)

\* sumopt holds the routes of the earlier rounds and those of this one.
PathInv ==
  /\ IsFiniteSet(taken)
  /\ sumopt = known \cup taken
  /\ PathsWereNew

LEMMA InitPath == Init => PathInv
<1> SUFFICES ASSUME Init PROVE PathInv
  OBVIOUS
<1>1. IsFiniteSet({}) /\ Cardinality({}) = 0 /\ {} \ {} = {}
  BY FS_EmptySet
<1>2. QED BY <1>1 DEF Init, PathInv, PathsWereNew

\* A route is counted if it is new to this round and to the rounds before.
LEMMA RouteCounted ==
  ASSUME TypeInv, PathInv, NEW p \in net, ParseRoute(p.route)
  PROVE  PathInv'
<1>1. /\ IsFiniteSet(taken) /\ sumopt = known \cup taken /\ numPaths = Cardinality(taken \ known)
      /\ IsFiniteSet(taken \ known)
  BY FS_Difference DEF PathInv, PathsWereNew
<1>2. CASE UNCHANGED routeVars
  BY <1>1, <1>2 DEF PathInv, PathsWereNew, routeVars
<1>3. CASE /\ sumopt' = sumopt \cup {p.route} /\ taken' = taken \cup {p.route} /\ known' = known
           /\ numPaths' = IF p.route \in sumopt THEN numPaths ELSE numPaths + 1
  <2>1. IsFiniteSet(taken') /\ sumopt' = known' \cup taken'
    BY <1>1, <1>3, FS_AddElement
  <2>2. CASE p.route \in sumopt
    <3>1. taken' \ known' = taken \ known
      BY <1>1, <1>3, <2>2
    <3>2. QED BY <1>1, <1>3, <2>1, <2>2, <3>1 DEF PathInv, PathsWereNew
  <2>3. CASE p.route \notin sumopt
    <3>1. /\ taken' \ known' = (taken \ known) \cup {p.route}
          /\ p.route \notin taken \ known
      BY <1>1, <1>3, <2>3
    <3>2. Cardinality(taken' \ known') = Cardinality(taken \ known) + 1
      BY <1>1, <3>1, FS_AddElement
    <3>3. QED BY <1>1, <1>3, <2>1, <2>3, <3>2 DEF PathInv, PathsWereNew
  <2>4. QED BY <2>2, <2>3
<1>4. QED BY <1>2, <1>3 DEF ParseRoute

LEMMA NextPath == TypeInv /\ PathInv /\ [Next]_vars => PathInv'
<1> SUFFICES ASSUME TypeInv, PathInv, [Next]_vars PROVE PathInv'
  OBVIOUS
<1>a. ASSUME UNCHANGED <<sumopt, numPaths, known, taken>> PROVE PathInv'
  BY <1>a DEF PathInv, PathsWereNew
<1>1. CASE RprobeEntry
  <2>1. numPaths' = 0 /\ sumopt' = sumopt /\ known' = known \cup taken /\ taken' = {}
    BY <1>1 DEF RprobeEntry
  <2>2. /\ IsFiniteSet(taken') /\ sumopt' = known' \cup taken'
        /\ Cardinality(taken' \ known') = 0
    <3>1. taken' \ known' = {}
      BY <2>1
    <3>2. QED BY <2>1, <3>1, FS_EmptySet DEF PathInv
  <2>3. QED BY <2>1, <2>2 DEF PathInv, PathsWereNew
<1>2. CASE OpenSocket \/ SetupFails \/ SendIcmp \/ SendDone \/ Arm
  BY <1>2, <1>a DEF OpenSocket, SetupFails, SendIcmp, SendDone, Arm, routeVars
<1>3. CASE Test \/ EnterRecvfrom \/ Close \/ AlarmFires \/ ForeignPacket
  BY <1>3, <1>a DEF Test, EnterRecvfrom, Close, AlarmFires, ForeignPacket, routeVars
<1>4. ASSUME NEW p \in net, Accept(p) PROVE PathInv'
  BY <1>4, RouteCounted DEF Accept
<1>5. ASSUME NEW p \in net, Refuse(p) PROVE PathInv'
  BY <1>5, <1>a DEF Refuse, routeVars
<1>6. CASE UNCHANGED vars
  BY <1>6, <1>a DEF vars, routeVars
<1>7. QED
  BY <1>1, <1>2, <1>3, <1>4, <1>5, <1>6 DEF Next, Process, Receive, Finished

\* In every round numPaths is the number of routes that packets of this round took
\* and no packet of an earlier round did.
THEOREM Paths == Spec => []PathsWereNew
<1>1. PathInv => PathsWereNew BY DEF PathInv
<1>2. QED BY <1>1, InitType, NextType, InitPath, NextPath, PTL DEF Spec

-----------------------------------------------------------------------------
(* Reordering *)

\* As long as the flag is up the packets up to lastPacketId, and no others, have
\* been read, each once and in its turn.
Prefix ==
  /\ ticks = lastPacketId + 1
  /\ \A i \in Ids : i <= lastPacketId => returned[i] = 1 /\ arrive[i] = i + 1
  /\ \A i \in Ids : i > lastPacketId => returned[i] = 0

PrefixInv ==
  /\ pc \in {"setup", "send"} => lastPacketId = -1 /\ ticks = 0
  /\ pc = "setup" => n_outstanding = 0
  /\ pc = "send" => \A i \in Ids : i < n_outstanding => returned[i] = 0
  /\ FlagAnyReordering /\ Sent /\ inOrder => Prefix

LEMMA InitPrefix == Init => PrefixInv
BY DEF Init, PrefixInv, Sent

LEMMA SendPrefix == ASSUME TypeInv, PrefixInv, SendIcmp PROVE PrefixInv'
<1>1. /\ n_outstanding \in Nat /\ n_outstanding \in Slots
      /\ returned \in [Slots -> Nat] /\ \A i \in Ids : i \in Slots /\ i \in Nat
  BY ConstantsAssumption
     DEF ConstantsAssumption, TypeInv, DataTypes, SendIcmp, Ids, Slots
<1>2. pc = "send" /\ pc' = "send" /\ lastPacketId = -1 /\ ticks = 0
  BY DEF PrefixInv, SendIcmp
<1>3. lastPacketId' = lastPacketId /\ ticks' = ticks
  BY DEF SendIcmp
<1>4. ASSUME NEW i \in Ids, i < n_outstanding' PROVE returned'[i] = 0
  <2>1. n_outstanding' = n_outstanding + 1 /\ returned' = [returned EXCEPT ![n_outstanding] = 0]
    BY DEF SendIcmp
  <2>2. i = n_outstanding \/ i < n_outstanding
    BY <1>1, <1>4, <2>1
  <2>3. QED BY <1>1, <1>2, <2>1, <2>2 DEF PrefixInv
<1>5. QED BY <1>2, <1>3, <1>4 DEF PrefixInv, Sent

\* A packet read in sequence extends the prefix; any other lowers the flag.
LEMMA AcceptPrefix ==
  ASSUME TypeInv, PrefixInv, NEW p \in net, Accept(p)
  PROVE  PrefixInv'
<1>1. /\ p.seq \in Slots /\ p.seq \in Nat /\ ticks \in Nat /\ lastPacketId \in Int
      /\ returned \in [Slots -> Nat] /\ arrive \in [Slots -> Nat \cup {Lost}]
      /\ \A i \in Ids : i \in Slots /\ i \in Nat
  BY ConstantsAssumption
     DEF ConstantsAssumption, TypeInv, DataTypes, Packet, Ids, Slots
<1>2. /\ pc = "blocked" /\ pc' = "test" /\ round' = round /\ round > 0
      /\ ticks' = ticks + 1 /\ lastPacketId' = p.seq
      /\ returned' = [returned EXCEPT ![p.seq] = @ + 1]
      /\ inOrder' = (inOrder /\ (FlagAnyReordering => InSequence(p.seq)))
  BY DEF Accept, Goto, TypeInv, Control
<1>3. ASSUME FlagAnyReordering, inOrder' PROVE Prefix'
  <2>1. inOrder /\ p.seq = lastPacketId + 1
    BY <1>2, <1>3 DEF InSequence
  <2>2. Prefix
    BY <1>2, <1>3, <2>1 DEF PrefixInv, Sent
  <2>3. p.seq \in Ids => returned[p.seq] = 0
    BY <1>1, <2>1, <2>2 DEF Prefix
  <2>4. p.seq \in Ids => arrive' = [arrive EXCEPT ![p.seq] = ticks + 1]
    BY <2>3 DEF Accept, RecordFirst, RecordRepeat
  <2>5. arrive' = arrive \/ arrive' = [arrive EXCEPT ![p.seq] = ticks + 1]
    BY DEF Accept, RecordFirst, RecordRepeat
  <2>6. ticks' = lastPacketId' + 1
    BY <1>1, <1>2, <2>1, <2>2 DEF Prefix
  <2>7. ASSUME NEW i \in Ids, i <= p.seq PROVE returned'[i] = 1 /\ arrive'[i] = i + 1
    <3>1. CASE i = p.seq
      BY <1>1, <1>2, <2>1, <2>2, <2>3, <2>4, <3>1 DEF Prefix
    <3>2. CASE i # p.seq
      <4>1. i <= lastPacketId
        BY <1>1, <2>1, <2>7, <3>2
      <4>2. returned'[i] = returned[i] /\ arrive'[i] = arrive[i]
        BY <1>1, <1>2, <2>5, <3>2
      <4>3. QED BY <2>2, <4>1, <4>2 DEF Prefix
    <3>3. QED BY <3>1, <3>2
  <2>8. ASSUME NEW i \in Ids, i > p.seq PROVE returned'[i] = 0
    <3>1. i > lastPacketId /\ i # p.seq
      BY <1>1, <2>1, <2>8
    <3>2. QED BY <1>1, <1>2, <2>2, <3>1 DEF Prefix
  <2>9. QED BY <1>2, <2>6, <2>7, <2>8 DEF Prefix
<1>4. QED BY <1>2, <1>3 DEF PrefixInv

LEMMA NextPrefix == TypeInv /\ PrefixInv /\ [Next]_vars => PrefixInv'
<1> SUFFICES ASSUME TypeInv, PrefixInv, [Next]_vars PROVE PrefixInv'
  OBVIOUS
<1> USE DEF Goto, socketVars, timerVars, routeVars, recordVars, flagVars
<1>a. ASSUME UNCHANGED <<pc, round, n_outstanding, recordVars, flagVars>> PROVE PrefixInv'
  BY <1>a DEF PrefixInv, Prefix, Sent
\* Steps from one place in the receive loop to another.
<1>b. ASSUME UNCHANGED <<round, n_outstanding, recordVars, flagVars>>,
             Sent, pc' \notin {"setup", "send"}
      PROVE  PrefixInv'
  BY <1>b DEF PrefixInv, Prefix, Sent
<1>1. CASE RprobeEntry
  BY <1>1 DEF RprobeEntry, PrefixInv, Sent
<1>2. CASE OpenSocket
  <2>1. n_outstanding = 0 /\ \A i \in Ids : ~(i < 0)
    BY <1>2, ConstantsAssumption DEF OpenSocket, PrefixInv, ConstantsAssumption, Ids
  <2>2. QED BY <1>2, <2>1 DEF OpenSocket, PrefixInv, Sent
<1>3. CASE SetupFails
  BY <1>3 DEF SetupFails, PrefixInv, Sent
<1>4. CASE SendIcmp
  BY <1>4, SendPrefix
<1>5. CASE SendDone
  <2>1. /\ lastPacketId = -1 /\ ticks = 0
        /\ \A i \in Ids : i \in Nat /\ i < n_outstanding
    BY <1>5, ConstantsAssumption DEF SendDone, PrefixInv, ConstantsAssumption, Ids
  <2>2. \A i \in Ids : returned[i] = 0
    BY <1>5, <2>1 DEF SendDone, PrefixInv
  <2>3. Prefix'
    BY <1>5, <2>1, <2>2 DEF SendDone, Prefix
  <2>4. QED BY <1>5, <2>3 DEF SendDone, PrefixInv
<1>6. CASE Arm \/ Test \/ EnterRecvfrom \/ Close
  <2>1. pc # "caller"
    BY <1>6 DEF Arm, Test, EnterRecvfrom, Close
  <2>2. Sent
    BY <1>6, <2>1 DEF Arm, Test, EnterRecvfrom, Close, Sent, TypeInv, Control
  <2>3. QED BY <1>6, <1>b, <2>2 DEF Arm, Test, EnterRecvfrom, Close
<1>7. ASSUME NEW p \in net, Accept(p) PROVE PrefixInv'
  BY <1>7, AcceptPrefix
<1>8. ASSUME NEW p \in net, Refuse(p) PROVE PrefixInv'
  <2>1. Sent
    BY <1>8 DEF Refuse, Sent, TypeInv, Control
  <2>2. QED BY <1>8, <1>b, <2>1 DEF Refuse
<1>9. CASE AlarmFires
  <2>1. CASE pc' = pc
    BY <1>9, <1>a, <2>1 DEF AlarmFires
  <2>2. CASE pc' = "test" /\ pc = "blocked"
    <3>1. Sent
      BY <2>2 DEF Sent, TypeInv, Control
    <3>2. QED BY <1>9, <1>b, <2>2, <3>1 DEF AlarmFires
  <2>3. QED BY <1>9, <2>1, <2>2 DEF AlarmFires
<1>10. CASE ForeignPacket
  BY <1>10, <1>a DEF ForeignPacket
<1>11. CASE UNCHANGED vars
  BY <1>11, <1>a DEF vars
<1>12. QED
  BY <1>1, <1>2, <1>3, <1>4, <1>5, <1>6, <1>7, <1>8, <1>9, <1>10, <1>11
     DEF Next, Process, Receive, Finished

\* With -DFLAGANYREORDERING a round that reports PacketsInOrder is an unbroken
\* prefix of the train in the order it was sent, whatever other processes send.
THEOREM InOrder == Spec => []InOrderMeansPrefix
<1>1. TypeInv /\ PrefixInv => InOrderMeansPrefix
  <2> SUFFICES ASSUME TypeInv, PrefixInv, FlagAnyReordering, Sent, inOrder,
                      NEW i \in Ids, returned[i] > 0
               PROVE  arrive[i] = i + 1 /\ returned[i] = 1 /\ (i > 0 => returned[i - 1] > 0)
    BY DEF InOrderMeansPrefix
  <2>1. Prefix
    BY DEF PrefixInv
  <2>2. i \in Nat /\ lastPacketId \in Int
    BY ConstantsAssumption DEF TypeInv, DataTypes, Slots, Ids, ConstantsAssumption
  <2>3. i <= lastPacketId
    BY <2>1, <2>2 DEF Prefix
  <2>4. ASSUME i > 0 PROVE returned[i - 1] = 1
    <3>1. i - 1 \in Ids /\ i - 1 <= lastPacketId
      BY <2>2, <2>3, <2>4, ConstantsAssumption DEF Ids, ConstantsAssumption
    <3>2. QED BY <2>1, <3>1 DEF Prefix
  <2>5. QED BY <2>1, <2>3, <2>4 DEF Prefix
<1>2. QED BY <1>1, InitType, NextType, InitPrefix, NextPrefix, PTL DEF Spec

-----------------------------------------------------------------------------
(* The countdown *)

CountInv ==
  /\ \A p \in net : p.seq \in Ids
  /\ pc \in {"setup", "send"} => ~duplicatePkts
  /\ pc = "setup" => n_outstanding = 0
  /\ pc = "send" => \A i \in Ids : i < n_outstanding => returned[i] = 0
  /\ Sent => \A i \in Ids : returned[i] > 0 => Arrived(i)
  /\ Sent /\ pc \in {"close", "caller"} /\ ~TimeOutFlag => n_outstanding = 0
  /\ OutstandingExact
  /\ DuplicateFlagExact

Unanswered == {i \in Ids : returned[i] = 0}

LEMMA UnansweredFinite == IsFiniteSet(Unanswered)
<1>1. IsFiniteSet(Ids)
  BY ConstantsAssumption, FS_Interval DEF ConstantsAssumption, Ids
<1>2. Unanswered \subseteq Ids
  BY DEF Unanswered
<1>3. QED BY <1>1, <1>2, FS_Subset

\* When the send loop is done nothing is answered and NPackets are awaited.
LEMMA AllUnanswered ==
  ASSUME \A i \in Ids : returned[i] = 0
  PROVE  Cardinality(Unanswered) = NPackets
<1>1. Unanswered = 0 .. (NPackets - 1)
  BY DEF Unanswered, Ids
<1>2. NPackets \in Nat \ {0}
  BY ConstantsAssumption DEF ConstantsAssumption
<1>3. Cardinality(0 .. (NPackets - 1)) = NPackets
  BY <1>2, FS_Interval
<1>4. QED BY <1>1, <1>3

LEMMA InitCount == Init => CountInv
BY DEF Init, CountInv, Sent, OutstandingExact, DuplicateFlagExact

\* Where every reply belongs to a packet of the train, one that is read for the
\* first time takes one packet off the unanswered ones.
LEMMA FirstCounted ==
  ASSUME TypeInv, OrderInv, CountInv, NEW p \in net, Accept(p), RecordFirst(p)
  PROVE  Unanswered' = Unanswered \ {p.seq} /\ p.seq \in Unanswered
<1>1. p.seq \in Ids /\ p.seq \in Slots
  BY DEF CountInv, TypeInv, DataTypes, Packet
<1>2. returned \in [Slots -> Nat] /\ \A i \in Ids : i \in Slots
  BY ConstantsAssumption DEF ConstantsAssumption, TypeInv, DataTypes, Ids, Slots
<1>3. returned' = [returned EXCEPT ![p.seq] = @ + 1] /\ returned[p.seq] = 0
  BY DEF Accept, RecordFirst
<1>4. returned'[p.seq] = 1 /\ \A i \in Ids : i # p.seq => returned'[i] = returned[i]
  BY <1>1, <1>2, <1>3
<1>5. QED BY <1>1, <1>3, <1>4 DEF Unanswered

LEMMA NextCount ==
  ASSUME SiblingSeqs \subseteq Ids
  PROVE  TypeInv /\ OrderInv /\ CountInv /\ [Next]_vars => CountInv'
<1> SUFFICES ASSUME TypeInv, OrderInv, CountInv, [Next]_vars PROVE CountInv'
  OBVIOUS
<1>0. /\ returned \in [Slots -> Nat] /\ n_outstanding \in Nat
      /\ NPackets \in Nat \ {0}
  BY ConstantsAssumption DEF ConstantsAssumption, TypeInv, DataTypes
<1>b. \A i \in Ids : i \in Slots /\ i \in Int
  BY ConstantsAssumption DEF ConstantsAssumption, Ids, Slots
<1>c. 0 \in Ids
  BY ConstantsAssumption DEF ConstantsAssumption, Ids
<1> USE DEF Goto, socketVars, timerVars, routeVars, recordVars, flagVars
\* A step after the send loop that records nothing, adds no packet and does
\* not leave the receive loop.
<1>a. ASSUME UNCHANGED <<round, arrive, returned, n_outstanding, duplicatePkts>>,
             net' \subseteq net, Sent, Sent',
             pc' \in {"close", "caller"} /\ ~TimeOutFlag' => n_outstanding = 0
      PROVE  CountInv'
  BY <1>a DEF CountInv, Sent, Arrived, OutstandingExact, DuplicateFlagExact
<1>1. CASE RprobeEntry
  BY <1>1 DEF RprobeEntry, CountInv, Sent, OutstandingExact, DuplicateFlagExact
<1>2. CASE OpenSocket
  <2>1. /\ pc = "setup" /\ pc' = "send"
        /\ UNCHANGED <<net, returned, n_outstanding, duplicatePkts>>
    BY <1>2 DEF OpenSocket
  <2>2. n_outstanding' = 0 /\ ~duplicatePkts'
    BY <2>1 DEF CountInv
  <2>3. \A i \in Ids : ~(i < n_outstanding')
    BY <2>2 DEF Ids
  <2>4. QED
    BY <2>1, <2>2, <2>3 DEF CountInv, Sent, OutstandingExact, DuplicateFlagExact
<1>3. CASE SetupFails
  BY <1>3 DEF SetupFails, CountInv, Sent, OutstandingExact, DuplicateFlagExact
<1>4. CASE SendIcmp
  <2>1. n_outstanding \in Ids /\ n_outstanding < NPackets
    <3>1. n_outstanding < NPackets
      BY <1>4 DEF SendIcmp
    <3>2. QED BY <1>0, <3>1 DEF Ids
  <2>2. \A p \in net' : p.seq \in Ids
    <3>1. \A c : OwnReply(n_outstanding, c).seq \in Ids
      BY <2>1 DEF OwnReply
    <3>2. QED BY <1>4, <3>1 DEF SendIcmp, CountInv
  <2>3. /\ returned' = [returned EXCEPT ![n_outstanding] = 0]
        /\ n_outstanding' = n_outstanding + 1
        /\ pc = "send" /\ pc' = "send" /\ duplicatePkts' = duplicatePkts
    BY <1>4 DEF SendIcmp
  <2>4. ASSUME NEW i \in Ids, i < n_outstanding' PROVE returned'[i] = 0
    <3>1. CASE i = n_outstanding
      BY <1>0, <1>b, <2>3, <3>1
    <3>2. CASE i < n_outstanding
      BY <1>0, <1>b, <2>3, <3>2 DEF CountInv
    <3>3. QED BY <1>0, <1>b, <2>3, <2>4, <3>1, <3>2
  <2>5. QED
    BY <2>2, <2>3, <2>4 DEF CountInv, Sent, OutstandingExact, DuplicateFlagExact
<1>5. CASE SendDone
  <2>1. /\ pc = "send" /\ pc' = "arm" /\ n_outstanding = NPackets
        /\ UNCHANGED <<n_outstanding, returned, net, duplicatePkts>>
    BY <1>5 DEF SendDone
  <2>2. \A i \in Ids : i < NPackets
    BY <1>0 DEF Ids
  <2>3. \A i \in Ids : returned'[i] = 0
    BY <2>1, <2>2 DEF CountInv
  <2>4. Cardinality(Unanswered') = NPackets
    BY <2>1, <2>3, AllUnanswered DEF Unanswered
  <2>5. ~duplicatePkts'
    BY <2>1 DEF CountInv
  <2>6. OutstandingExact'
    BY <2>1, <2>4 DEF OutstandingExact, Unanswered
  <2>7. DuplicateFlagExact'
    BY <2>3, <2>5 DEF DuplicateFlagExact
  <2>8. QED BY <2>1, <2>3, <2>6, <2>7 DEF CountInv
<1>6. CASE Arm
  <2>1. Sent /\ Sent'
    BY <1>6 DEF Arm, Sent, TypeInv, Control
  <2>2. QED BY <1>6, <1>a, <2>1 DEF Arm
<1>7. CASE Test
  <2>1. Sent /\ Sent'
    BY <1>7 DEF Test, Sent, TypeInv, Control
  <2>2. QED BY <1>7, <1>a, <2>1 DEF Test, LoopContinues
<1>8. CASE EnterRecvfrom
  <2>1. Sent /\ Sent'
    BY <1>8 DEF EnterRecvfrom, Sent, TypeInv, Control
  <2>2. QED BY <1>8, <1>a, <2>1 DEF EnterRecvfrom
<1>9. ASSUME NEW p \in net, Accept(p) PROVE CountInv'
  <2>1. p.seq \in Ids /\ p.seq \in Slots /\ net' \subseteq net
    BY <1>9, <1>b DEF Accept, CountInv
  <2>2. /\ pc = "blocked" /\ pc' = "test" /\ Sent /\ Sent'
        /\ returned' = [returned EXCEPT ![p.seq] = @ + 1] /\ round' = round
    BY <1>9 DEF Accept, Sent, TypeInv, Control
  <2>3. CASE RecordFirst(p)
    <3>1. Unanswered' = Unanswered \ {p.seq} /\ p.seq \in Unanswered
      BY <1>9, <2>3, FirstCounted
    <3>2. Cardinality(Unanswered') = Cardinality(Unanswered) - 1
      BY <3>1, UnansweredFinite, FS_RemoveElement
    <3>3. OutstandingExact'
      BY <2>2, <2>3, <3>2 DEF RecordFirst, CountInv, OutstandingExact, Unanswered
    <3>4. returned'[p.seq] = 1
      BY <1>0, <2>1, <2>2, <2>3 DEF RecordFirst
    <3>5. \A i \in Ids : i # p.seq => returned'[i] = returned[i]
      BY <1>0, <1>b, <2>2
    <3>6. \A i \in Ids : returned'[i] > 1 <=> returned[i] > 1
      BY <2>3, <3>4, <3>5 DEF RecordFirst
    <3>7. DuplicateFlagExact'
      BY <2>2, <2>3, <3>6 DEF RecordFirst, CountInv, DuplicateFlagExact
    <3>8. /\ Arrived(p.seq)'
          /\ \A i \in Slots : i # p.seq => arrive'[i] = arrive[i]
      BY <1>9, <2>3, FirstRecorded
    <3>9. \A i \in Ids : returned'[i] > 0 => Arrived(i)'
      BY <1>b, <2>2, <3>5, <3>8 DEF CountInv, Arrived
    <3>10. QED
      BY <2>1, <2>2, <3>3, <3>7, <3>9 DEF CountInv
  <2>4. CASE RecordRepeat(p)
    <3>1. returned[p.seq] > 0 /\ returned'[p.seq] > 1
      BY <1>0, <2>1, <2>2, <2>4 DEF RecordRepeat
    <3>2. \A i \in Ids : i # p.seq => returned'[i] = returned[i]
      BY <1>0, <1>b, <2>2
    <3>3. \A i \in Ids : returned'[i] = 0 <=> returned[i] = 0
      BY <3>1, <3>2
    <3>4. Unanswered' = Unanswered
      BY <3>3 DEF Unanswered
    <3>5. OutstandingExact'
      BY <2>2, <2>4, <3>4 DEF RecordRepeat, CountInv, OutstandingExact, Unanswered
    <3>6. DuplicateFlagExact'
      BY <2>1, <2>4, <3>1 DEF RecordRepeat, DuplicateFlagExact
    <3>7. \A i \in Ids : returned'[i] > 0 => Arrived(i)'
      BY <2>2, <2>4, <3>1, <3>2 DEF RecordRepeat, CountInv, Arrived
    <3>8. QED
      BY <2>1, <2>2, <3>5, <3>6, <3>7 DEF CountInv
  <2>5. QED BY <1>9, <2>3, <2>4 DEF Accept
<1>10. ASSUME NEW p \in net, Refuse(p) PROVE CountInv'
  BY <1>10, <1>a DEF Refuse, Sent, TypeInv, Control
<1>11. CASE Close
  <2>1. Sent /\ Sent'
    BY <1>11 DEF Close, Sent, TypeInv, Control
  <2>2. QED BY <1>11, <1>a, <2>1 DEF Close, CountInv
<1>12. CASE AlarmFires
  <2>1. TimeOutFlag' /\ net' = net
    BY <1>12 DEF AlarmFires
  <2>2. Sent' <=> Sent
    BY <1>12 DEF AlarmFires, Sent
  <2>3. pc' \in {"setup", "send"} => pc' = pc
    BY <1>12 DEF AlarmFires
  <2>4. UNCHANGED <<round, arrive, returned, n_outstanding, duplicatePkts>>
    BY <1>12 DEF AlarmFires
  <2>5. OutstandingExact' /\ DuplicateFlagExact'
    BY <2>2, <2>4 DEF CountInv, OutstandingExact, DuplicateFlagExact
  <2>6. QED BY <2>1, <2>2, <2>3, <2>4, <2>5 DEF CountInv, Arrived
<1>13. CASE ForeignPacket
  <2>1. \A p \in net' : p.seq \in Ids
    BY <1>13, <1>c DEF ForeignPacket, ForeignPackets, CountInv
  <2>2. UNCHANGED <<pc, round, arrive, returned, n_outstanding, duplicatePkts,
                    TimeOutFlag>>
    BY <1>13 DEF ForeignPacket
  <2>3. OutstandingExact' /\ DuplicateFlagExact'
    BY <2>2 DEF CountInv, Sent, OutstandingExact, DuplicateFlagExact
  <2>4. QED BY <2>1, <2>2, <2>3 DEF CountInv, Sent, Arrived
<1>14. CASE UNCHANGED vars
  BY <1>14 DEF vars, CountInv, Sent, Arrived, OutstandingExact, DuplicateFlagExact
<1>15. CASE Finished BY <1>14, <1>15 DEF Finished
<1>16. QED
  BY <1>1, <1>2, <1>3, <1>4, <1>5, <1>6, <1>7, <1>8, <1>9, <1>10, <1>11,
     <1>12, <1>13, <1>14, <1>15
     DEF Next, Process, Receive

\* As long as every reply on the socket belongs to a packet of the train, the
\* countdown that ends the loop is the number of packets not yet answered.
THEOREM Outstanding == SiblingSeqs \subseteq Ids => (Spec => []OutstandingExact)
<1> SUFFICES ASSUME SiblingSeqs \subseteq Ids PROVE Spec => []OutstandingExact
  OBVIOUS
<1>1. CountInv => OutstandingExact BY DEF CountInv
<1>2. TypeInv /\ OrderInv /\ CountInv /\ [Next]_vars => CountInv' BY NextCount
<1>3. QED
  BY <1>1, <1>2, InitType, NextType, InitTimer, NextTimer, InitOrder, NextOrder,
     InitCount, PTL DEF Spec

\* The DuplicatePackets return code is raised exactly when a packet of the
\* train was seen twice.
THEOREM Duplicates == SiblingSeqs \subseteq Ids => (Spec => []DuplicateFlagExact)
<1> SUFFICES ASSUME SiblingSeqs \subseteq Ids PROVE Spec => []DuplicateFlagExact
  OBVIOUS
<1>1. CountInv => DuplicateFlagExact BY DEF CountInv
<1>2. TypeInv /\ OrderInv /\ CountInv /\ [Next]_vars => CountInv' BY NextCount
<1>3. QED
  BY <1>1, <1>2, InitType, NextType, InitTimer, NextTimer, InitOrder, NextOrder,
     InitCount, PTL DEF Spec

LEMMA LoopLeftComplete ==
  ASSUME TypeInv, CountInv, Sent, pc \in {"close", "caller"}, ~TimeOutFlag
  PROVE  \A i \in Ids : Arrived(i)
<1>1. Cardinality(Unanswered) = 0
  BY DEF CountInv, OutstandingExact, Unanswered
<1>2. Unanswered = {}
  BY <1>1, UnansweredFinite, FS_EmptySet
<1>3. \A i \in Ids : i \in Slots
  BY ConstantsAssumption DEF ConstantsAssumption, Ids, Slots
<1>4. \A i \in Ids : returned[i] > 0
  BY <1>2, <1>3 DEF Unanswered, TypeInv, DataTypes
<1>5. QED BY <1>4 DEF CountInv

\* A round handed to the caller without TimeOutFlag lacks no packet.
THEOREM Complete == SiblingSeqs \subseteq Ids => (Spec => []CompleteUnlessTimedOut)
<1> SUFFICES ASSUME SiblingSeqs \subseteq Ids PROVE Spec => []CompleteUnlessTimedOut
  OBVIOUS
<1>1. TypeInv /\ CountInv => CompleteUnlessTimedOut
  BY LoopLeftComplete DEF CompleteUnlessTimedOut
<1>2. TypeInv /\ OrderInv /\ CountInv /\ [Next]_vars => CountInv' BY NextCount
<1>3. QED
  BY <1>1, <1>2, InitType, NextType, InitTimer, NextTimer, InitOrder, NextOrder,
     InitCount, PTL DEF Spec

-----------------------------------------------------------------------------
(* Late replies *)

\* Replies in the network, told apart by their sequence number alone, are to
\* requests of this round that are still unanswered.
OwnReplies ==
  \A p \in net : p.kind = "reply" =>
    /\ p.from = round /\ p.copy = 1 /\ p.route = NoRoute
    /\ pc \notin {"setup", "caller", "exit"}
    /\ pc = "send" => p.seq < n_outstanding
    /\ Sent => returned[p.seq] = 0

OwnArrivals == \A i \in Ids : Arrived(i) => source[i] = round

\* Nothing has brought in a reply to another round's request.
Undisturbed == OnlyOwnReplies /\ ~abandoned

OwnInv == Undisturbed => OwnReplies /\ OwnArrivals

LEMMA InitOwn == Init => OwnInv
BY DEF Init, OwnInv, Undisturbed, OwnReplies, OwnArrivals, Arrived

LEMMA SendOwn ==
  ASSUME TypeInv, OwnInv, SendIcmp
  PROVE  OwnInv'
<1>1. /\ pc = "send" /\ pc' = "send" /\ round' = round /\ Undisturbed' = Undisturbed
      /\ n_outstanding \in Nat /\ n_outstanding' = n_outstanding + 1
      /\ arrive' = arrive /\ source' = source
  BY ConstantsAssumption
     DEF ConstantsAssumption, SendIcmp, TypeInv, DataTypes, Undisturbed, OnlyOwnReplies
<1>2. OwnArrivals' <=> OwnArrivals
  BY <1>1 DEF OwnArrivals, Arrived
<1>3. Undisturbed => \A p \in net' : p \in net \/ p = OwnReply(n_outstanding, 1)
  BY DEF SendIcmp, Undisturbed, OnlyOwnReplies
<1>4. ASSUME Undisturbed, NEW p \in net', p.kind = "reply"
      PROVE  /\ p.from = round /\ p.copy = 1 /\ p.route = NoRoute
             /\ p.seq < n_outstanding + 1
  <2>1. CASE p \in net
    <3>1. p.seq \in Nat /\ p.seq < n_outstanding /\ p.from = round
          /\ p.copy = 1 /\ p.route = NoRoute
      BY <1>1, <1>4, <2>1, ConstantsAssumption
         DEF OwnInv, OwnReplies, TypeInv, DataTypes, Packet, Slots, ConstantsAssumption
    <3>2. QED BY <1>1, <3>1
  <2>2. CASE p = OwnReply(n_outstanding, 1)
    BY <1>1, <2>2 DEF OwnReply
  <2>3. QED BY <1>3, <1>4, <2>1, <2>2
<1>5. QED BY <1>1, <1>2, <1>4 DEF OwnInv, OwnReplies, Sent

\* The replies that are left in the network differ from the one that is accepted
\* in their sequence number.
LEMMA AcceptOwn ==
  ASSUME TypeInv, OwnInv, NEW p \in net, Accept(p)
  PROVE  OwnInv'
<1>1. /\ pc = "blocked" /\ pc' = "test" /\ round' = round /\ Undisturbed' = Undisturbed
      /\ round > 0 /\ net' = net \ {p} /\ p.kind = "reply"
      /\ returned' = [returned EXCEPT ![p.seq] = @ + 1]
  BY DEF Accept, Goto, TypeInv, Control, Undisturbed, OnlyOwnReplies
<1>2. /\ returned \in [Slots -> Nat] /\ arrive \in [Slots -> Nat \cup {Lost}]
      /\ source \in [Slots -> Rounds] /\ net \subseteq Packet /\ Ids \subseteq Slots
  BY ConstantsAssumption DEF ConstantsAssumption, TypeInv, DataTypes, Ids, Slots
<1>3. ASSUME Undisturbed PROVE OwnReplies'
  <2> SUFFICES ASSUME NEW q \in net', q.kind = "reply"
               PROVE  /\ q.from = round /\ q.copy = 1 /\ q.route = NoRoute
                      /\ returned'[q.seq] = 0
    BY <1>1 DEF OwnReplies, Sent
  <2>1. OwnReplies /\ q \in net /\ q # p /\ p \in Packet /\ q \in Packet
    BY <1>1, <1>2, <1>3 DEF OwnInv
  <2>2. /\ q.from = round /\ q.copy = 1 /\ q.route = NoRoute /\ returned[q.seq] = 0
        /\ p.from = round /\ p.copy = 1 /\ p.route = NoRoute
    BY <1>1, <2>1 DEF OwnReplies, Sent
  <2>3. p.seq # q.seq
    BY <1>1, <2>1, <2>2 DEF Packet
  <2>4. returned'[q.seq] = returned[q.seq]
    BY <1>1, <1>2, <2>1, <2>3 DEF Packet
  <2>5. QED BY <2>2, <2>4
<1>4. ASSUME Undisturbed PROVE OwnArrivals'
  <2> SUFFICES ASSUME NEW i \in Ids, Arrived(i)' PROVE source'[i] = round
    BY <1>1 DEF OwnArrivals
  <2>1. OwnArrivals /\ p.from = round /\ p.seq \in Slots
    BY <1>1, <1>2, <1>4 DEF OwnInv, OwnReplies, Packet
  <2>2. CASE arrive' = arrive /\ source' = source
    BY <1>1, <2>1, <2>2 DEF OwnArrivals, Arrived
  <2>3. CASE arrive' = [arrive EXCEPT ![p.seq] = ticks + 1]
             /\ source' = [source EXCEPT ![p.seq] = p.from]
    <3>1. CASE i = p.seq
      BY <1>2, <2>1, <2>3, <3>1
    <3>2. CASE i # p.seq
      <4>1. arrive'[i] = arrive[i] /\ source'[i] = source[i]
        BY <1>2, <2>3, <3>2
      <4>2. QED BY <1>1, <2>1, <4>1 DEF OwnArrivals, Arrived
    <3>3. QED BY <3>1, <3>2
  <2>4. QED BY <2>2, <2>3 DEF Accept, RecordFirst, RecordRepeat
<1>5. QED BY <1>1, <1>3, <1>4 DEF OwnInv

\* What has happened does not come undone.
LEMMA StaysDisturbed == TypeInv /\ [Next]_vars => (Undisturbed' => Undisturbed)
<1> SUFFICES ASSUME TypeInv, [Next]_vars PROVE Undisturbed' => Undisturbed
  OBVIOUS
<1> USE DEF socketVars, timerVars
<1>1. abandoned => abandoned'
  BY DEF Next, Process, RprobeEntry, OpenSocket, SetupFails, SendIcmp, SendDone, Arm, Test,
         EnterRecvfrom, Receive, Accept, Refuse, Close, AlarmFires, ForeignPacket, Finished, vars
<1>2. foreign' = foreign \/ foreign' = foreign + 1
  BY DEF Next, Process, RprobeEntry, OpenSocket, SetupFails, SendIcmp, SendDone, Arm, Test,
         EnterRecvfrom, Receive, Accept, Refuse, Close, AlarmFires, ForeignPacket, Finished, vars
<1>3. foreign \in Nat
  BY ConstantsAssumption DEF ConstantsAssumption, TypeInv, DataTypes
<1>4. QED BY <1>1, <1>2, <1>3 DEF Undisturbed, OnlyOwnReplies

LEMMA NextOwn ==
  ASSUME SiblingSeqs \subseteq Ids
  PROVE  TypeInv /\ OrderInv /\ CountInv /\ OwnInv /\ [Next]_vars => OwnInv'
<1> SUFFICES ASSUME TypeInv, OrderInv, CountInv, OwnInv, [Next]_vars PROVE OwnInv'
  OBVIOUS
<1> USE DEF Goto, socketVars, timerVars, routeVars, recordVars, flagVars
<1>u. Undisturbed' => Undisturbed
  BY StaysDisturbed
<1>a. ASSUME UNCHANGED <<pc, round, n_outstanding, recordVars>>,
             \A p \in net' : p.kind = "reply" => p \in net
      PROVE  OwnInv'
  BY <1>a, <1>u DEF OwnInv, OwnReplies, OwnArrivals, Arrived, Sent
\* Steps from one place in the receive loop to another.
<1>b. ASSUME UNCHANGED <<round, n_outstanding, recordVars>>, net' \subseteq net,
             Sent, pc' \notin {"setup", "send", "caller", "exit"}
      PROVE  OwnInv'
  BY <1>b, <1>u DEF OwnInv, OwnReplies, OwnArrivals, Arrived, Sent
<1>1. CASE RprobeEntry
  <2>1. Undisturbed' => \A p \in net' : p.kind # "reply"
    BY <1>1, <1>u DEF RprobeEntry, OwnInv, OwnReplies
  <2>2. \A i \in Ids : ~Arrived(i)'
    BY <1>1, ConstantsAssumption
       DEF RprobeEntry, Arrived, ConstantsAssumption, Ids, Slots
  <2>3. QED BY <2>1, <2>2 DEF OwnInv, OwnReplies, OwnArrivals
<1>2. CASE OpenSocket \/ SetupFails
  <2>1. Undisturbed' => \A p \in net' : p.kind # "reply"
    BY <1>2, <1>u DEF OpenSocket, SetupFails, OwnInv, OwnReplies
  <2>2. Undisturbed' => OwnArrivals'
    BY <1>2, <1>u DEF OpenSocket, SetupFails, OwnInv, OwnArrivals, Arrived
  <2>3. QED BY <2>1, <2>2 DEF OwnInv, OwnReplies
<1>3. CASE SendIcmp
  BY <1>3, SendOwn
<1>4. CASE SendDone
  <2>1. \A p \in net : returned[p.seq] = 0
    <3>1. \A i \in Ids : i < n_outstanding
      BY <1>4, ConstantsAssumption DEF SendDone, ConstantsAssumption, Ids
    <3>2. QED BY <1>4, <3>1 DEF SendDone, CountInv
  <2>2. Undisturbed' => OwnArrivals'
    BY <1>4, <1>u DEF SendDone, OwnInv, OwnArrivals, Arrived
  <2>3. Undisturbed' => OwnReplies'
    BY <1>4, <1>u, <2>1 DEF SendDone, OwnInv, OwnReplies
  <2>4. QED BY <2>2, <2>3 DEF OwnInv
<1>5. CASE Arm \/ Test \/ EnterRecvfrom
  <2>1. Sent /\ pc' \notin {"setup", "send", "caller", "exit"}
    BY <1>5 DEF Arm, Test, EnterRecvfrom, Sent, TypeInv, Control
  <2>2. QED BY <1>5, <1>b, <2>1 DEF Arm, Test, EnterRecvfrom
<1>6. CASE Close
  <2>1. Sent /\ pc = "close"
    BY <1>6 DEF Close, Sent, TypeInv, Control
  <2>2. ~TimeOutFlag => \A i \in Ids : returned[i] > 0
    BY <2>1, LoopLeftComplete DEF OrderInv
  <2>3. Undisturbed' => \A p \in net' : p.kind # "reply"
    <3> SUFFICES ASSUME Undisturbed', NEW p \in net', p.kind = "reply" PROVE FALSE
      OBVIOUS
    <3>1. Undisturbed /\ ~TimeOutFlag /\ p \in net
      BY <1>6, <1>u DEF Close, Undisturbed
    <3>2. returned[p.seq] = 0
      BY <2>1, <3>1 DEF OwnInv, OwnReplies
    <3>3. p.seq \in Ids
      BY <3>1 DEF CountInv
    <3>4. QED BY <2>2, <3>1, <3>2, <3>3
  <2>4. Undisturbed' => OwnArrivals'
    BY <1>6, <1>u DEF Close, OwnInv, OwnArrivals, Arrived
  <2>5. QED BY <2>3, <2>4 DEF OwnInv, OwnReplies
<1>7. ASSUME NEW p \in net, Accept(p) PROVE OwnInv'
  BY <1>7, AcceptOwn
<1>8. ASSUME NEW p \in net, Refuse(p) PROVE OwnInv'
  <2>1. Sent
    BY <1>8 DEF Refuse, Sent, TypeInv, Control
  <2>2. QED BY <1>8, <1>b, <2>1 DEF Refuse
<1>9. CASE AlarmFires
  <2>1. CASE pc' = pc
    BY <1>9, <1>a, <2>1 DEF AlarmFires
  <2>2. CASE pc' = "test" /\ pc = "blocked"
    <3>1. Sent
      BY <2>2 DEF Sent, TypeInv, Control
    <3>2. QED BY <1>9, <1>b, <2>2, <3>1 DEF AlarmFires
  <2>3. QED BY <1>9, <2>1, <2>2 DEF AlarmFires
<1>10. CASE ForeignPacket
  <2>1. CASE SiblingSeqs = {}
    <3>1. \A p \in ForeignPackets(foreign + 1) : p.kind = "reject"
      BY <2>1 DEF ForeignPackets
    <3>2. \A p \in net' : p.kind = "reply" => p \in net
      BY <1>10, <3>1 DEF ForeignPacket
    <3>3. QED BY <1>10, <1>a, <3>2 DEF ForeignPacket
  <2>2. CASE SiblingSeqs # {}
    <3>1. foreign' # 0
      BY <1>10, ConstantsAssumption
         DEF ForeignPacket, ConstantsAssumption, TypeInv, DataTypes
    <3>2. ~Undisturbed'
      BY <2>2, <3>1 DEF Undisturbed, OnlyOwnReplies
    <3>3. QED BY <3>2 DEF OwnInv
  <2>3. QED BY <2>1, <2>2
<1>11. CASE UNCHANGED vars
  BY <1>11, <1>a DEF vars
<1>12. QED
  BY <1>1, <1>2, <1>3, <1>4, <1>5, <1>6, <1>7, <1>8, <1>9, <1>10, <1>11
     DEF Next, Process, Receive, Finished

\* A reply to an earlier round is taken for this round's only after some round was
\* given up on a timeout, as long as the network duplicates no reply and no other
\* process interferes; losses do not matter.
THEOREM LateReplies ==
  ASSUME SiblingSeqs \subseteq Ids
  PROVE  Spec => []LateReplyOnlyAfterTimeout
<1>1. OwnInv => LateReplyOnlyAfterTimeout
  BY DEF OwnInv, Undisturbed, OwnArrivals, LateReplyOnlyAfterTimeout
<1>2. TypeInv /\ OrderInv /\ CountInv /\ [Next]_vars => CountInv'
  BY NextCount
<1>3. TypeInv /\ OrderInv /\ CountInv /\ OwnInv /\ [Next]_vars => OwnInv'
  BY NextOwn
<1>4. QED
  BY <1>1, <1>2, <1>3, InitType, NextType, InitTimer, NextTimer, InitOrder, NextOrder,
     InitCount, InitOwn, PTL DEF Spec

-----------------------------------------------------------------------------
(* Refinement *)

\* The refinement mapping takes the initial state to ProbeRound's.
LEMMA RefineInit == Init => PR!Init
BY DEF Init, PR!Init, phase, answered, Arrived

\* Every step of a round is a step of ProbeRound, or is invisible to it.
LEMMA RefineNext ==
  TypeInv /\ TimerInv /\ OrderInv /\ CountInv /\ [Next]_vars => [PR!Next]_PR!vars
<1> SUFFICES ASSUME TypeInv, TimerInv, OrderInv, CountInv, [Next]_vars
             PROVE  PR!Next \/ UNCHANGED <<phase, answered, duplicatePkts, TimeOutFlag>>
  BY DEF PR!vars
<1> USE DEF Goto, socketVars, timerVars, routeVars, recordVars, flagVars
<1>0. \A i \in Ids : i \in Slots
  BY ConstantsAssumption DEF ConstantsAssumption, Ids, Slots
<1>a. ASSUME UNCHANGED <<round, arrive>> PROVE answered' = answered
  BY <1>a DEF answered, Arrived
\* A step that stays in the same phase and records nothing.
<1>b. ASSUME UNCHANGED <<round, arrive, duplicatePkts, TimeOutFlag>>, phase' = phase
      PROVE  UNCHANGED <<phase, answered, duplicatePkts, TimeOutFlag>>
  BY <1>a, <1>b
<1>1. CASE RprobeEntry
  <2>1. pc = "caller" /\ pc' = "setup" /\ ~duplicatePkts' /\ ~TimeOutFlag'
    BY <1>1 DEF RprobeEntry
  <2>2. phase = "idle" /\ phase' = "probing"
    BY <2>1 DEF phase
  <2>3. arrive' = [i \in Slots |-> IF i \in Ids THEN Lost ELSE arrive[i]]
    BY <1>1 DEF RprobeEntry
  <2>4. answered' = {}
    BY <1>0, <2>3 DEF answered, Arrived
  <2>5. duplicatePkts' = FALSE /\ TimeOutFlag' = FALSE
    BY <1>1 DEF RprobeEntry
  <2>6. QED BY <2>2, <2>4, <2>5 DEF PR!Next, PR!Begin
<1>2. CASE OpenSocket BY <1>2, <1>b DEF OpenSocket, phase
<1>3. CASE SetupFails
  <2>1. phase = "probing" /\ phase' = "exit"
    BY <1>3 DEF SetupFails, phase
  <2>2. answered = {}
    BY <1>3 DEF SetupFails, TimerInv, BeforeLoop, answered
  <2>3. answered' = answered
    BY <1>3, <1>a DEF SetupFails
  <2>4. UNCHANGED <<duplicatePkts, TimeOutFlag>>
    BY <1>3 DEF SetupFails
  <2>5. QED BY <2>1, <2>2, <2>3, <2>4 DEF PR!Next, PR!Abort
<1>4. CASE SendIcmp BY <1>4, <1>b DEF SendIcmp, phase
<1>5. CASE SendDone BY <1>5, <1>b DEF SendDone, phase
<1>6. CASE Arm BY <1>6, <1>b DEF Arm, phase
<1>7. CASE Test BY <1>7, <1>b DEF Test, phase
<1>8. CASE EnterRecvfrom BY <1>8, <1>b DEF EnterRecvfrom, phase
<1>9. ASSUME NEW p \in net, Accept(p)
      PROVE  PR!Next \/ UNCHANGED <<phase, answered, duplicatePkts, TimeOutFlag>>
  <2>1. phase = "probing" /\ phase' = phase
    BY <1>9 DEF Accept, phase
  <2>2. p.seq \in Ids /\ p.seq \in Slots /\ round' = round /\ TimeOutFlag' = TimeOutFlag
    BY <1>9, <1>0 DEF CountInv, Accept
  <2>3. CASE RecordFirst(p)
    <3>1. /\ Arrived(p.seq)'
          /\ \A i \in Slots : i # p.seq => arrive'[i] = arrive[i]
      BY <1>9, <2>3, FirstRecorded
    <3>2. ~Arrived(p.seq)
      BY <2>2, <2>3 DEF RecordFirst, OrderInv
    <3>3. answered' = answered \cup {p.seq} /\ p.seq \notin answered
      BY <1>0, <2>2, <3>1, <3>2 DEF answered, Arrived
    <3>4. duplicatePkts' = duplicatePkts
      BY <2>3 DEF RecordFirst
    <3>5. PR!Answer(p.seq)
      BY <2>1, <2>2, <3>3, <3>4 DEF PR!Answer
    <3>6. QED BY <2>2, <3>5 DEF PR!Next
  <2>4. CASE RecordRepeat(p)
    <3>1. Sent /\ returned[p.seq] > 0
      BY <1>9, <2>2, <2>4
         DEF Accept, RecordRepeat, Sent, TypeInv, DataTypes, Control
    <3>2. answered # {}
      BY <2>2, <3>1 DEF CountInv, answered
    <3>3. answered' = answered
      BY <1>a, <2>2, <2>4 DEF RecordRepeat
    <3>4. duplicatePkts' = TRUE
      BY <2>4 DEF RecordRepeat
    <3>5. QED BY <2>1, <2>2, <3>2, <3>3, <3>4 DEF PR!Next, PR!Repeat
  <2>5. QED BY <1>9, <2>3, <2>4 DEF Accept
<1>10. ASSUME NEW p \in net, Refuse(p)
       PROVE  UNCHANGED <<phase, answered, duplicatePkts, TimeOutFlag>>
  BY <1>10, <1>b DEF Refuse, phase
<1>11. CASE Close
  <2>1. phase = "probing" /\ phase' = "idle"
    BY <1>11 DEF Close, phase
  <2>2. Sent
    BY <1>11 DEF Close, Sent, TypeInv, Control
  <2>3. answered = Ids \/ TimeOutFlag
    BY <1>11, <2>2, LoopLeftComplete DEF Close, answered
  <2>4. answered' = answered
    BY <1>11, <1>a DEF Close
  <2>5. UNCHANGED <<duplicatePkts, TimeOutFlag>>
    BY <1>11 DEF Close
  <2>6. QED BY <2>1, <2>3, <2>4, <2>5 DEF PR!Next, PR!End
<1>12. CASE AlarmFires
  <2>1. phase # "exit" /\ phase' = phase
    BY <1>12 DEF AlarmFires, phase
  <2>2. answered' = answered
    BY <1>12, <1>a DEF AlarmFires
  <2>3. duplicatePkts' = duplicatePkts /\ TimeOutFlag' = TRUE
    BY <1>12 DEF AlarmFires
  <2>4. QED BY <2>1, <2>2, <2>3 DEF PR!Next, PR!Stop
<1>13. CASE ForeignPacket BY <1>13, <1>b DEF ForeignPacket, phase
<1>14. CASE UNCHANGED vars BY <1>14, <1>b DEF vars, phase
<1>15. CASE Finished BY <1>14, <1>15 DEF Finished
<1>16. QED
  BY <1>1, <1>2, <1>3, <1>4, <1>5, <1>6, <1>7, <1>8, <1>9, <1>10, <1>11,
     <1>12, <1>13, <1>14, <1>15
     DEF Next, Process, Receive

\* rprobe(), counting packets down to zero with sequence numbers it uses again
\* in every round, implements what ProbeRound promises its callers.
THEOREM Refinement == SiblingSeqs \subseteq Ids => (Spec => ImplementsProbeRound)
<1> SUFFICES ASSUME SiblingSeqs \subseteq Ids PROVE Spec => PR!Spec
  BY DEF ImplementsProbeRound
<1>1. TypeInv /\ OrderInv /\ CountInv /\ [Next]_vars => CountInv' BY NextCount
<1>2. QED
  BY <1>1, InitType, NextType, InitTimer, NextTimer, InitOrder, NextOrder,
     InitCount, RefineInit, RefineNext, PTL DEF Spec, PR!Spec

=============================================================================

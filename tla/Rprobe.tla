------------------------------- MODULE Rprobe -------------------------------
(***************************************************************************)
(* rprobeGuts.c: rprobe() and OldMain(), the probing engine under both     *)
(* tools.  A call sends a train of ICMP echo requests and collects the     *)
(* replies until all of them came or SIGALRM raised TimeOutFlag.  All its  *)
(* state is global and survives from one call (a round) to the next, the   *)
(* pending alarm and the replies still in the network included.            *)
(*                                                                         *)
(* Abstractions: a reply is a record; recv_time is the rank of the read in *)
(* its round; "depart", "rtts" and "bytes" are not carried.  What waits in *)
(* the socket and what still travels are one set, net.                     *)
(***************************************************************************)
EXTENDS Integers, FiniteSets

CONSTANTS
  MAX_PROBES,         \* length of the per-packet arrays (ping.h: 10)
  NPackets,           \* packets per round (bprobe: 10, cprobe: 8)
  MaxRounds,          \* bound: calls of rprobe()
  MaxCopies,          \* bound: replies one request can produce
  CanLose,            \* may the network lose a request or its reply?
  SiblingSeqs,        \* icmp_seq of replies meant for other processes
  Routes,             \* record-route values such replies can carry
  MaxForeign,         \* bound: packets not caused by this process
  RestartSyscalls,    \* does signal() make the kernel restart recvfrom()?
  FlagAnyReordering   \* compiled with -DFLAGANYREORDERING?

Slots == 0 .. MAX_PROBES - 1
Ids == 0 .. NPackets - 1
Rounds == 0 .. MaxRounds       \* 0 stands for "none" or "another process"
Lost == -1                     \* what OldMain stores in arrive[] beforehand
NoRoute == "none"

ASSUME ConstantsAssumption ==
  /\ MAX_PROBES \in Nat \ {0}
  /\ NPackets \in 1 .. MAX_PROBES
  /\ MaxRounds \in Nat /\ MaxCopies \in Nat \ {0} /\ MaxForeign \in Nat
  /\ SiblingSeqs \subseteq Slots
  /\ NoRoute \notin Routes
  /\ CanLose \in BOOLEAN
  /\ RestartSyscalls \in BOOLEAN
  /\ FlagAnyReordering \in BOOLEAN

\* A packet the raw socket may hand out.  "reject" stands for the ones that
\* recv_icmp() refuses: too short, or neither an echo nor a timestamp reply.
Packet == [kind : {"reply", "reject"}, seq : Slots, from : Rounds,
           copy : Nat, route : Routes \cup {NoRoute}]

PCs == {"caller", "setup", "send", "arm", "test", "enter", "blocked",
        "close", "exit"}

VARIABLES
  pc,             \* where the process is
  round,          \* number of the current or last call of rprobe()
  TimeOutFlag,    \* raised by the SIGALRM handler
  n_outstanding,  \* next sequence number while sending, then packets awaited
  lastPacketId,   \* local of OldMain
  returned,       \* how often each packet was seen
  orderOK,        \* did the packet follow its predecessor?
  arrive,         \* rank of the arrival, or Lost
  inOrder, duplicatePkts, routeData, numPaths,    \* flags for returnCodes
  sumopt,         \* routes seen since the process started
  ticks,          \* packets accepted in this round: the clock behind recv_time
  alarm,          \* round that armed the pending alarm, 0 if none is pending
  net,            \* packets that can reach the socket
  foreign,        \* packets injected by other processes so far
  expired,        \* history: round that armed the alarm behind TimeOutFlag
  source,         \* history: round whose request the recorded reply answers
  abandoned,      \* history: has some round been given up on a timeout?
  known,          \* history: routes that packets took in earlier rounds
  taken           \* history: routes that the packets of this round took

socketVars == <<net, foreign>>
timerVars == <<TimeOutFlag, alarm, expired>>
routeVars == <<routeData, numPaths, sumopt, known, taken>>
recordVars == <<returned, orderOK, arrive, source, lastPacketId, ticks>>
flagVars == <<inOrder, duplicatePkts>>
vars == <<pc, round, n_outstanding, abandoned, socketVars, timerVars,
          routeVars, recordVars, flagVars>>

FlagTypes ==
  /\ TimeOutFlag \in BOOLEAN /\ abandoned \in BOOLEAN
  /\ inOrder \in BOOLEAN /\ duplicatePkts \in BOOLEAN /\ routeData \in BOOLEAN

DataTypes ==
  /\ pc \in PCs
  /\ round \in Rounds
  /\ n_outstanding \in 0 .. NPackets
  /\ lastPacketId \in Slots \cup {-1}
  /\ returned \in [Slots -> Nat]
  /\ orderOK \in [Slots -> BOOLEAN]
  /\ arrive \in [Slots -> Nat \cup {Lost}]
  /\ numPaths \in Nat
  /\ sumopt \subseteq Routes /\ known \subseteq Routes /\ taken \subseteq Routes
  /\ ticks \in Nat
  /\ alarm \in Rounds /\ expired \in Rounds
  /\ net \subseteq Packet
  /\ foreign \in 0 .. MaxForeign
  /\ source \in [Slots -> Rounds]

TypeOK == FlagTypes /\ DataTypes

Init ==
  /\ pc = "caller"
  /\ round = 0
  /\ TimeOutFlag = FALSE /\ alarm = 0 /\ expired = 0
  /\ n_outstanding = 0
  /\ lastPacketId = -1
  /\ returned = [i \in Slots |-> 0]
  /\ orderOK = [i \in Slots |-> FALSE]
  /\ arrive = [i \in Slots |-> 0]
  /\ source = [i \in Slots |-> 0]
  /\ inOrder = TRUE /\ duplicatePkts = FALSE
  /\ routeData = FALSE /\ numPaths = 0 /\ sumopt = {}
  /\ known = {} /\ taken = {}
  /\ ticks = 0
  /\ net = {} /\ foreign = 0
  /\ abandoned = FALSE


Goto(from, to) == pc = from /\ pc' = to

-----------------------------------------------------------------------------
(* Starting a round *)

\* Mutant: the flags of the previous round survive.
RprobeEntryKeepsFlags ==
  /\ Goto("caller", "setup")
  /\ round < MaxRounds
  /\ round' = round + 1
  /\ TimeOutFlag' = FALSE /\ expired' = 0
  /\ numPaths' = 0 /\ routeData' = FALSE
  /\ known' = known \cup taken /\ taken' = {}
  /\ n_outstanding' = 0
  /\ lastPacketId' = -1
  /\ arrive' = [i \in Slots |-> IF i \in Ids THEN Lost ELSE arrive[i]]
  /\ ticks' = 0
  /\ UNCHANGED <<flagVars, alarm, sumopt, returned, orderOK, source, abandoned,
                 socketVars>>

\* Mutant: TimeOutFlag is not cleared.
RprobeEntryKeepsTimeout ==
  /\ Goto("caller", "setup")
  /\ round < MaxRounds
  /\ round' = round + 1
  /\ numPaths' = 0 /\ routeData' = FALSE
  /\ known' = known \cup taken /\ taken' = {}
  /\ inOrder' = TRUE /\ duplicatePkts' = FALSE
  /\ n_outstanding' = 0
  /\ lastPacketId' = -1
  /\ arrive' = [i \in Slots |-> IF i \in Ids THEN Lost ELSE arrive[i]]
  /\ ticks' = 0
  /\ UNCHANGED <<timerVars, sumopt, returned, orderOK, source, abandoned, socketVars>>

\* Mutant: the routes seen are forgotten with numPaths.
RprobeEntryForgetsRoutes ==
  /\ Goto("caller", "setup")
  /\ round < MaxRounds
  /\ round' = round + 1
  /\ TimeOutFlag' = FALSE /\ expired' = 0
  /\ numPaths' = 0 /\ routeData' = FALSE /\ sumopt' = {}
  /\ known' = known \cup taken /\ taken' = {}
  /\ inOrder' = TRUE /\ duplicatePkts' = FALSE
  /\ n_outstanding' = 0
  /\ lastPacketId' = -1
  /\ arrive' = [i \in Slots |-> IF i \in Ids THEN Lost ELSE arrive[i]]
  /\ ticks' = 0
  /\ UNCHANGED <<alarm, returned, orderOK, source, abandoned, socketVars>>

\* rprobe() up to the call of OldMain(), and OldMain() up to the lookup of
\* the host.  orderOK and sumopt keep what the previous round left in them.
RprobeEntry ==
  /\ Goto("caller", "setup")
  /\ round < MaxRounds
  /\ round' = round + 1
  /\ TimeOutFlag' = FALSE /\ expired' = 0
  /\ numPaths' = 0 /\ routeData' = FALSE
  /\ known' = known \cup taken /\ taken' = {}
  /\ inOrder' = TRUE /\ duplicatePkts' = FALSE
  /\ n_outstanding' = 0
  /\ lastPacketId' = -1
  /\ arrive' = [i \in Slots |-> IF i \in Ids THEN Lost ELSE arrive[i]]
  /\ ticks' = 0
  /\ UNCHANGED <<alarm, sumopt, returned, orderOK, source, abandoned, socketVars>>

\* Host lookup, protocol lookup, socket() and setsockopt() all succeed ...
OpenSocket ==
  /\ Goto("setup", "send")
  /\ UNCHANGED <<round, n_outstanding, abandoned, socketVars, timerVars,
                 routeVars, recordVars, flagVars>>

\* ... or one of them fails and the process exits.
SetupFails ==
  /\ Goto("setup", "exit")
  /\ UNCHANGED <<round, n_outstanding, abandoned, socketVars, timerVars,
                 routeVars, recordVars, flagVars>>

OwnReply(seq, copy) ==
  [kind |-> "reply", seq |-> seq, from |-> round, copy |-> copy, route |-> NoRoute]

\* Mutant: the send loop runs once too often.
SendIcmpOnceMore ==
  /\ pc = "send" /\ n_outstanding <= NPackets
  /\ returned' = [returned EXCEPT ![n_outstanding] = 0]
  /\ n_outstanding' = n_outstanding + 1
  /\ \E copies \in (IF CanLose THEN 0 ELSE 1) .. MaxCopies :
       net' = net \cup {OwnReply(n_outstanding, c) : c \in 1 .. copies}
  /\ UNCHANGED <<pc, round, abandoned, foreign, timerVars, routeVars, flagVars,
                 orderOK, arrive, source, lastPacketId, ticks>>

\* One pass of the send loop.  The network answers with up to MaxCopies
\* replies; none at all also covers a sendto() that failed, which send_icmp()
\* only prints.
SendIcmp ==
  /\ pc = "send" /\ n_outstanding < NPackets
  /\ returned' = [returned EXCEPT ![n_outstanding] = 0]
  /\ n_outstanding' = n_outstanding + 1
  /\ \E copies \in (IF CanLose THEN 0 ELSE 1) .. MaxCopies :
       net' = net \cup {OwnReply(n_outstanding, c) : c \in 1 .. copies}
  /\ UNCHANGED <<pc, round, abandoned, foreign, timerVars, routeVars, flagVars,
                 orderOK, arrive, source, lastPacketId, ticks>>

SendDone ==
  /\ Goto("send", "arm")
  /\ n_outstanding = NPackets
  /\ UNCHANGED <<round, n_outstanding, abandoned, socketVars, timerVars,
                 routeVars, recordVars, flagVars>>

\* Mutant: a pending alarm is left alone.
ArmAlarmUnlessPending == alarm' = IF alarm = 0 THEN round ELSE alarm

\* alarm() replaces whatever alarm is pending.
ArmAlarm == alarm' = round

\* signal(SIGALRM, finish); alarm(timeout)
Arm ==
  /\ Goto("arm", "test")
  /\ ArmAlarm
  /\ UNCHANGED <<round, n_outstanding, abandoned, socketVars, TimeOutFlag,
                 expired, routeVars, recordVars, flagVars>>

-----------------------------------------------------------------------------
(* The receive loop *)

\* Mutant: off by one.
LoopContinuesShort == n_outstanding > 1 /\ ~TimeOutFlag

LoopContinues == n_outstanding # 0 /\ ~TimeOutFlag

\* The while condition, evaluated before recvfrom() is entered.
Test ==
  /\ pc = "test"
  /\ pc' = IF LoopContinues THEN "enter" ELSE "close"
  /\ UNCHANGED <<round, n_outstanding, abandoned, socketVars, timerVars,
                 routeVars, recordVars, flagVars>>

\* The process goes to sleep in recvfrom().  A signal handled before this
\* step does not interrupt the call.
EnterRecvfrom ==
  /\ Goto("enter", "blocked")
  /\ UNCHANGED <<round, n_outstanding, abandoned, socketVars, timerVars,
                 routeVars, recordVars, flagVars>>

\* recv_icmp(): what a record-route option adds to the routes seen.
ParseRoute(route) ==
  IF route = NoRoute
    THEN UNCHANGED routeVars
    ELSE /\ routeData' = TRUE
         /\ numPaths' = IF route \in sumopt THEN numPaths ELSE numPaths + 1
         /\ sumopt' = sumopt \cup {route}
         /\ taken' = taken \cup {route} /\ UNCHANGED known

\* Mutant: any later packet counts as in order.
InSequenceWithHoles(seq) == seq > lastPacketId

InSequence(seq) == seq = lastPacketId + 1

\* Mutant: the packet is not counted off.
RecordFirstNotCounted(p) ==
  /\ returned[p.seq] = 0
  /\ arrive' = [arrive EXCEPT ![p.seq] = ticks + 1]
  /\ source' = [source EXCEPT ![p.seq] = p.from]
  /\ orderOK' = [orderOK EXCEPT ![p.seq] = InSequence(p.seq)]
  /\ UNCHANGED <<n_outstanding, duplicatePkts>>

\* Times and the packet's order are recorded for the first reply only.
RecordFirst(p) ==
  /\ returned[p.seq] = 0
  /\ arrive' = [arrive EXCEPT ![p.seq] = ticks + 1]
  /\ source' = [source EXCEPT ![p.seq] = p.from]
  /\ orderOK' = [orderOK EXCEPT ![p.seq] = InSequence(p.seq)]
  /\ n_outstanding' = n_outstanding - 1
  /\ UNCHANGED duplicatePkts

\* Mutant: a repeated reply is counted off as well.
RecordRepeatCounted(p) ==
  /\ returned[p.seq] # 0
  /\ duplicatePkts' = TRUE
  /\ n_outstanding' = n_outstanding - 1
  /\ UNCHANGED <<arrive, source, orderOK>>

\* Mutant: a repeated reply overwrites the time of the first.
RecordRepeatOverwrites(p) ==
  /\ returned[p.seq] # 0
  /\ duplicatePkts' = TRUE
  /\ arrive' = [arrive EXCEPT ![p.seq] = ticks + 1]
  /\ source' = [source EXCEPT ![p.seq] = p.from]
  /\ UNCHANGED <<orderOK, n_outstanding>>

RecordRepeat(p) ==
  /\ returned[p.seq] # 0
  /\ duplicatePkts' = TRUE
  /\ UNCHANGED <<arrive, source, orderOK, n_outstanding>>

\* recvfrom() returns a reply and the loop body digests it.  The check that
\* the reply is to this process is commented out in recv_icmp().
Accept(p) ==
  /\ Goto("blocked", "test")
  /\ p.kind = "reply"
  /\ net' = net \ {p}
  /\ ticks' = ticks + 1
  /\ ParseRoute(p.route)
  /\ inOrder' = (inOrder /\ (FlagAnyReordering => InSequence(p.seq)))
  /\ lastPacketId' = p.seq
  /\ returned' = [returned EXCEPT ![p.seq] = @ + 1]
  /\ RecordFirst(p) \/ RecordRepeat(p)
  /\ UNCHANGED <<round, abandoned, foreign, timerVars>>

\* recv_icmp() refuses the packet: the loop starts over.
Refuse(p) ==
  /\ Goto("blocked", "test")
  /\ p.kind = "reject"
  /\ net' = net \ {p}
  /\ UNCHANGED <<round, n_outstanding, abandoned, foreign, timerVars,
                 routeVars, recordVars, flagVars>>

Receive == \E p \in net : Accept(p) \/ Refuse(p)

\* The socket is closed and rprobe() hands its arrays and flags to the
\* caller.  Packets that reach the host while no socket is open are gone.
Close ==
  /\ Goto("close", "caller")
  /\ net' \in SUBSET net
  /\ abandoned' = (abandoned \/ TimeOutFlag)
  /\ UNCHANGED <<round, n_outstanding, foreign, timerVars, routeVars,
                 recordVars, flagVars>>

-----------------------------------------------------------------------------
(* The environment *)

\* SIGALRM: finish() raises the flag.  Only a process already asleep in
\* recvfrom() is woken, and only where system calls are not restarted.
AlarmFires ==
  /\ alarm # 0 /\ pc # "exit"
  /\ TimeOutFlag' = TRUE /\ expired' = alarm
  /\ alarm' = 0
  /\ pc' = IF pc = "blocked" /\ ~RestartSyscalls THEN "test" ELSE pc
  /\ UNCHANGED <<round, n_outstanding, abandoned, socketVars, routeVars,
                 recordVars, flagVars>>

ForeignPackets(copy) ==
  [kind : {"reply"}, seq : SiblingSeqs, from : {0}, copy : {copy},
   route : Routes \cup {NoRoute}]
  \cup
  [kind : {"reject"}, seq : {0}, from : {0}, copy : {copy}, route : {NoRoute}]

\* A packet that this process did not cause: the raw socket sees every ICMP
\* packet that reaches the host.
ForeignPacket ==
  /\ foreign < MaxForeign
  /\ foreign' = foreign + 1
  /\ \E p \in ForeignPackets(foreign + 1) : net' = net \cup {p}
  /\ UNCHANGED <<pc, round, n_outstanding, abandoned, timerVars, routeVars,
                 recordVars, flagVars>>

\* The caller has made its last call, or the process is gone.
Finished ==
  /\ pc = "exit" \/ (pc = "caller" /\ round = MaxRounds)
  /\ UNCHANGED vars

Process ==
  \/ RprobeEntry \/ OpenSocket \/ SetupFails \/ SendIcmp \/ SendDone \/ Arm
  \/ Test \/ EnterRecvfrom \/ Receive \/ Close

Next == Process \/ AlarmFires \/ ForeignPacket \/ Finished

Spec == Init /\ [][Next]_vars

\* The scheduler runs the process, packets that are not lost are delivered
\* and a pending alarm goes off; other processes need not send anything.
FairSpec == Spec /\ WF_vars(Process) /\ WF_vars(AlarmFires)

-----------------------------------------------------------------------------
(* Properties *)

\* From the end of the send loop to the next call.
Sent == round > 0 /\ pc \in {"arm", "test", "enter", "blocked", "close", "caller"}

Arrived(i) == round > 0 /\ arrive[i] # Lost

\* The loop counter n_outstanding, decremented in one place and never
\* recomputed, is the number of packets without an answer, whatever replies
\* are lost, duplicated, late or another process's.
OutstandingExact ==
  Sent => n_outstanding = Cardinality({i \in Ids : returned[i] = 0})

\* A round handed to the caller without TimeOutFlag has every packet's
\* arrival: the caller never gets a partial round that claims to be whole.
CompleteUnlessTimedOut ==
  Sent /\ pc = "caller" /\ ~TimeOutFlag => \A i \in Ids : Arrived(i)

\* The DuplicatePackets return code, on which the tools throw a round away,
\* is raised if and only if some packet of the round was seen twice.
DuplicateFlagExact ==
  Sent => (duplicatePkts <=> \E i \in Ids : returned[i] > 1)

\* "Only measure the pairs that are in order": without duplicates, a packet
\* marked orderOK arrived immediately after its predecessor in the train, so
\* the gap between the two arrivals holds no third packet.
OrderedPairAdjacent ==
  ~duplicatePkts =>
    \A i \in Ids \ {0} :
      Arrived(i) /\ orderOK[i] => Arrived(i - 1) /\ arrive[i] = arrive[i - 1] + 1

\* An alarm left over from an earlier round can end this one, but only before
\* its first packet is read: it never truncates a round half received.
StaleTimeoutEmptiesRound ==
  expired \notin {0, round} => \A i \in Ids : ~Arrived(i)

\* numPaths counts the routes of this round that no earlier round took: sumopt,
\* which is never cleared, is all that is known of those, and a route is entered
\* in it, and counted, once.
PathsWereNew == numPaths = Cardinality(taken \ known)

\* Built with -DFLAGANYREORDERING, a round that reports PacketsInOrder holds
\* an unbroken prefix of the train in the order it was sent.
InOrderMeansPrefix ==
  FlagAnyReordering /\ Sent /\ inOrder =>
    \A i \in Ids : returned[i] > 0 =>
      arrive[i] = i + 1 /\ returned[i] = 1 /\ (i > 0 => returned[i - 1] > 0)

\* No reply is duplicated and none is another process's.
OnlyOwnReplies == MaxCopies = 1 /\ (SiblingSeqs = {} \/ foreign = 0)

\* While nothing is duplicated and no other process interferes, a reply to an
\* earlier round's request can be taken for this round's only after a round
\* was given up on a timeout.
LateReplyOnlyAfterTimeout ==
  OnlyOwnReplies /\ (\E i \in Ids : Arrived(i) /\ source[i] # round) => abandoned

\* The time of a packet's first reply is never overwritten within a round,
\* whatever replies follow.
FirstArrivalKept ==
  [][round' = round =>
       \A i \in Ids : Arrived(i) => arrive'[i] = arrive[i] /\ source'[i] = source[i]]_vars

\* Every round that is started ends ("not going to wait forerever here").
RoundEnds == (pc = "setup") ~> (pc \in {"caller", "exit"})

\* The alarm that ended a round was armed by that round, so that at least
\* the "minimum timeout" has passed.
TimeoutIsOwn == expired \in {0, round}

\* numPaths answers "how many paths did the packets take ?".
PathsTaken == Sent => numPaths = Cardinality(taken)

\* A recorded arrival is never that of another process's reply.
NoIntermingling == \A i \in Ids : Arrived(i) => source[i] # 0

-----------------------------------------------------------------------------
(* Rprobe implements ProbeRound *)

phase == CASE pc = "caller" -> "idle"
           [] pc = "exit" -> "exit"
           [] OTHER -> "probing"

answered == {i \in Ids : Arrived(i)}

PR == INSTANCE ProbeRound WITH
        phase <- phase, answered <- answered,
        repeated <- duplicatePkts, stopped <- TimeOutFlag

\* Counting packets down to zero, with sequence numbers reused in every round,
\* does what ProbeRound promises with a set.
ImplementsProbeRound == PR!Spec
=============================================================================

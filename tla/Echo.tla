-------------------------------- MODULE Echo --------------------------------
(***************************************************************************)
(* rprobeGuts.c below the level of module Rprobe: what is in an echo       *)
(* request, and when things happen.  All packets are composed in one       *)
(* buffer, outpack; send_icmp() stamps it, computes the checksum           *)
(* (in_cksum) and notes the departure; recv_icmp() notes when it has read  *)
(* a reply, which has waited in the socket while the train was still being *)
(* sent, or because the process did not get to run.                        *)
(*                                                                         *)
(* A word has ByteModulus ^ 2 values, the low byte first.  The time stamp, *)
(* four words in the code, and the clock are one word here, so that the    *)
(* clock rolls over.  Packets may be lost, late and reordered.             *)
(***************************************************************************)
EXTENDS Integers, Sequences, Functions

CONSTANTS
  ByteModulus,    \* values of a byte (256)
  NPackets,       \* length of a train
  DataLens,       \* sizes of the data portion, the time stamp included
  ProcessIds,     \* what getpid() can return, cut to a word
  Starts,         \* where the clock can start
  MaxRounds, MaxTime      \* bounds of the model

WordModulus == ByteModulus * ByteModulus
Words == 0 .. WordModulus - 1
Ids == 0 .. NPackets - 1

ASSUME EchoAssumption ==
  /\ ByteModulus \in Nat /\ ByteModulus > 2
  /\ NPackets \in 1 .. WordModulus
  /\ DataLens \subseteq Nat \ {0, 1}
  /\ ProcessIds \subseteq Words /\ Starts \subseteq Words
  /\ MaxRounds \in Nat
  /\ MaxTime \in Words      \* measurements are less than a turn of the clock apart

ICMP_ECHO == 8 % WordModulus      \* type and code, one word

VARIABLES
  pc,             \* "caller", "compose", "transmit" or "receive"
  round,
  now, start,     \* time since the beginning; what the clock said then
  outpack,        \* the outgoing packet
  n_outstanding,
  net,            \* packets on their way, there or back
  socket,         \* replies that wait to be read
  returned, depart, arrive, rtts,
  sent,           \* history: when the last packet of the train was sent
  came, waited,   \* history: when a reply came in, and how long it waited for its reader
  took            \* history: how old its stamp was then

timeVars == <<depart, arrive, rtts>>
history == <<sent, came, waited, took>>
vars == <<pc, round, now, start, outpack, n_outstanding, net, socket, returned,
          timeVars, history>>

LostTime == WordModulus - 1      \* (hw_time_t) -1

TIMENOW == (start + now) % WordModulus

-----------------------------------------------------------------------------
(* The checksum *)

\* "fill outgoing packet with position info", behind the time stamp.
PatternByte(fp) == (fp + 16) % ByteModulus

\* The words of the pattern, and the odd byte "if necessary".
PatternSum(len) ==
  SumFunction([k \in 0 .. (len - 2) \div 2 - 1 |->
                 PatternByte(2 * k) + (ByteModulus * PatternByte((2 * k) + 1))])
  + (IF (len % 2) = 1 THEN PatternByte(len - 3) ELSE 0)

\* What the loop of in_cksum() adds up for a packet.
WordSum(p) == p.type + p.cksum + p.id + p.seq + p.stamp + PatternSum(p.len)

\* A packet has fewer words than a word has values ("using a 32 bit accumulator").
ASSUME AccumulatorAssumption == \A len \in DataLens : len <= 2 * (WordModulus - 6)

\* "fold back all the carry bits", twice.
Folded(sum) ==
  LET once == (sum \div WordModulus) + (sum % WordModulus)
  IN once + (once \div WordModulus)

\* ~sum, truncated to a word.
InCksum(sum) == WordModulus - 1 - (Folded(sum) % WordModulus)

-----------------------------------------------------------------------------

Init ==
  /\ pc = "caller" /\ round = 0
  /\ now = 0 /\ start \in Starts
  /\ \E pid \in ProcessIds :
       outpack = [type |-> ICMP_ECHO, cksum |-> 0, id |-> pid, seq |-> 0, stamp |-> 0,
                  len |-> 2, born |-> 0]
  /\ n_outstanding = 0
  /\ net = {} /\ socket = <<>>
  /\ returned = [i \in Ids |-> 0]
  /\ depart = [i \in Ids |-> 0] /\ rtts = [i \in Ids |-> 0]
  /\ arrive = [i \in Ids |-> 0]
  /\ sent = 0
  /\ came = [i \in Ids |-> 0] /\ waited = [i \in Ids |-> 0] /\ took = [i \in Ids |-> 0]

\* rprobe() and the head of OldMain(), which fills outpack in like the time before;
\* a socket that cannot be opened ends the process (module Rprobe).
RprobeEntry ==
  /\ pc = "caller" /\ round < MaxRounds
  /\ round' = round + 1
  /\ n_outstanding' = 0
  /\ depart' = [i \in Ids |-> ((i + 1) * 100) % WordModulus]
  /\ arrive' = [i \in Ids |-> LostTime]
  /\ pc' = "compose"
  /\ UNCHANGED <<now, start, outpack, net, socket, returned, rtts, history>>

\* Mutant: the checksum of the packet before is still in the buffer.
StampedOver(len) ==
  [outpack EXCEPT !.seq = n_outstanding, !.stamp = TIMENOW, !.len = len, !.born = now]

\* outpack as it is when in_cksum() is called.
Stamped(len) ==
  [outpack EXCEPT !.cksum = 0, !.seq = n_outstanding, !.stamp = TIMENOW, !.len = len,
                  !.born = now]

\* The body of the send loop and send_icmp() up to the checksum ...
Compose ==
  /\ pc = "compose"
  /\ \E len \in DataLens :
       outpack' = [Stamped(len) EXCEPT !.cksum = InCksum(WordSum(Stamped(len)))]
  /\ returned' = [returned EXCEPT ![n_outstanding] = 0]
  /\ n_outstanding' = n_outstanding + 1
  /\ pc' = "transmit"
  /\ UNCHANGED <<round, now, start, net, socket, timeVars, history>>

\* Mutant: one packet too many.
SendsOneMore == n_outstanding <= NPackets

\* The send loop goes on.
SendsMore == n_outstanding < NPackets

\* ... and from there on: the time is read again and the packet sent.
Transmit ==
  /\ pc = "transmit"
  /\ depart' = [depart EXCEPT ![n_outstanding - 1] = TIMENOW]
  /\ net' = net \cup {[outpack |-> outpack, from |-> round]}
  /\ sent' = now
  /\ pc' = IF SendsMore THEN "compose" ELSE "receive"
  /\ UNCHANGED <<round, now, start, outpack, n_outstanding, socket, returned,
                 arrive, rtts, came, waited, took>>

\* Mutant: the difference is not taken modulo the clock's turn.
TimesubUnwrapped(first, second) == IF first >= second THEN first - second ELSE 0

timesub(first, second) == (first - second) % WordModulus

\* recv_icmp() reads the oldest reply, looks at the clock, and the loop records
\* the times of the first reply to a packet.
RecvIcmp ==
  /\ pc = "receive" /\ n_outstanding > 0 /\ socket # <<>>
  /\ LET reply == Head(socket)
         packet_id == reply.outpack.seq
     IN /\ returned' = [returned EXCEPT ![packet_id] = @ + 1]
        /\ IF returned[packet_id] = 0
             THEN /\ arrive' = [arrive EXCEPT ![packet_id] = TIMENOW]
                  /\ rtts' = [rtts EXCEPT ![packet_id] = timesub(TIMENOW, reply.outpack.stamp)]
                  /\ came' = [came EXCEPT ![packet_id] = reply.came]
                  /\ waited' = [waited EXCEPT ![packet_id] = now - reply.came]
                  /\ took' = [took EXCEPT ![packet_id] = now - reply.outpack.born]
                  /\ n_outstanding' = n_outstanding - 1
             ELSE UNCHANGED <<arrive, rtts, came, waited, took, n_outstanding>>
  /\ socket' = Tail(socket)
  /\ UNCHANGED <<pc, round, now, start, outpack, net, depart, sent>>

\* Every packet is answered or the round is given up; what waits in the socket
\* goes with it.
Close ==
  /\ pc = "receive"
  /\ socket' = <<>>
  /\ pc' = "caller"
  /\ UNCHANGED <<round, now, start, outpack, n_outstanding, net, returned, timeVars, history>>

\* A reply comes in; without a socket it is dropped.
Deliver ==
  \E p \in net :
    /\ net' = net \ {p}
    /\ socket' = IF pc = "caller" THEN socket
                 ELSE Append(socket, [outpack |-> p.outpack, came |-> now])
    /\ UNCHANGED <<pc, round, now, start, outpack, n_outstanding, returned, timeVars, history>>

\* Time passes whatever the process does: between any two of its steps it may be
\* off the processor, printing, or asleep in recvfrom().
Tick ==
  /\ now < MaxTime
  /\ now' = now + 1
  /\ UNCHANGED <<pc, round, start, outpack, n_outstanding, net, socket, returned,
                 timeVars, history>>

Finished == pc = "caller" /\ round = MaxRounds /\ now = MaxTime /\ UNCHANGED vars

Next ==
  \/ RprobeEntry \/ Compose \/ Transmit \/ RecvIcmp \/ Close \/ Deliver \/ Tick \/ Finished

Spec == Init /\ [][Next]_vars

-----------------------------------------------------------------------------
(* Properties *)

TypeOK ==
  /\ pc \in {"caller", "compose", "transmit", "receive"}
  /\ now \in 0 .. MaxTime /\ start \in Starts
  /\ n_outstanding \in 0 .. NPackets
  /\ pc = "compose" => n_outstanding < NPackets
  /\ {outpack.cksum, outpack.stamp, outpack.id} \subseteq Words
  /\ outpack.seq \in Ids /\ outpack.born \in 0 .. now
  /\ returned \in [Ids -> Nat]
  /\ \A times \in {depart, arrive, rtts} : times \in [Ids -> Words]

\* What a receiver adds up: all bytes, every other one the high byte of a word.
SumAtReceiver(p) ==
  p.type + p.cksum + p.id + p.seq + p.stamp
  + SumFunction([fp \in 0 .. p.len - 3 |->
                   PatternByte(fp) * (IF fp % 2 = 0 THEN 1 ELSE ByteModulus)])

\* Whoever receives a packet adds up all its words, checksum included, and gets
\* all ones, a multiple of WordModulus - 1 - for every size, odd or even, and
\* although every packet is composed in the buffer of the one before.
SentPacketsVerify ==
  \A p \in net : SumAtReceiver(p.outpack) % (WordModulus - 1) = 0

\* The round trip time of a packet is the time since the stamp it brought back,
\* a late reply of an earlier round included, whether the clock rolled over or not.
\* No reply is stamped before the train is out.  The gap of two packets that came in
\* one after the other is the time between them, longer by what the second waited
\* for the process to read it and shorter by what the first did: replies that queue
\* up behind the sending of the train, or behind a process that is kept from
\* running, move together or apart, but never change places.
TimesTrue ==
  /\ \A i \in Ids : returned[i] > 0 => rtts[i] = took[i]
  /\ pc \in {"receive", "caller"} =>
       /\ \A i \in Ids : returned[i] > 0 => sent <= came[i] + waited[i]
       /\ \A i \in Ids \ {0} :
            returned[i - 1] > 0 /\ returned[i] > 0 /\ came[i - 1] < came[i] =>
              (arrive[i] - arrive[i - 1]) % WordModulus
                = (came[i] - came[i - 1]) + waited[i] - waited[i - 1]
=============================================================================

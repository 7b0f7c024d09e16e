----------------------------- MODULE EchoProofs -----------------------------
(***************************************************************************)
(* Proofs about module Echo, for every size of a byte, every train and     *)
(* every run of the clock: folding the carries gives a checksum that       *)
(* verifies; the times that are recorded are those of the network and of   *)
(* the process that waits or is late.                                      *)
(***************************************************************************)
EXTENDS Echo, SumsProofs

-----------------------------------------------------------------------------
(* Arithmetic *)

\* A difference of clock values is the time that passed, if that is less than a
\* turn of the clock.
LEMMA ModDifference ==
  ASSUME NEW w \in Nat \ {0}, NEW a \in Int, NEW b \in Int, a - b \in 0 .. w - 1
  PROVE  ((a % w) - (b % w)) % w = a - b
<1>1. PICK qa \in Int, ra \in 0 .. w - 1 : a = w * qa + ra /\ ra = a % w
  BY DivMod
<1>2. PICK qb \in Int, rb \in 0 .. w - 1 : b = w * qb + rb /\ rb = b % w
  BY DivMod
<1>3. ra - rb = w * (qb - qa) + (a - b)
  BY <1>1, <1>2
<1>4. (w * (qb - qa) + (a - b)) % w = a - b
  BY ModUnique
<1> QED BY <1>1, <1>2, <1>3, <1>4

LEMMA WordModulusType == WordModulus \in Nat /\ WordModulus > 8
<1>1. ByteModulus >= 3 /\ ByteModulus \in Nat
  BY EchoAssumption
<1>2. ByteModulus * ByteModulus >= 3 * ByteModulus
  BY <1>1
<1> QED BY <1>1, <1>2 DEF WordModulus

\* Two foldings are enough for a sum of at most w words.
LEMMA TwoFoldings ==
  ASSUME NEW w \in Nat, w > 8,
         NEW sum \in 0 .. w * w - 1,
         NEW once \in Int, once = (sum \div w) + (sum % w),
         NEW twice \in Int, twice = once + (once \div w),
         NEW cksum \in Int, cksum = w - 1 - (twice % w)
  PROVE  cksum \in 0 .. w - 1 /\ (sum + cksum) % (w - 1) = 0
<1>1. PICK hi \in Int, lo \in 0 .. w - 1 : sum = w * hi + lo /\ once = hi + lo
  <2>1. w * w \in Int /\ w \in Nat \ {0}
    OBVIOUS
  <2>2. sum \in Int
    BY <2>1
  <2>3. /\ sum \div w \in Int /\ sum % w \in 0 .. w - 1
        /\ sum = w * (sum \div w) + (sum % w)
    BY ONLY <2>1, <2>2, DivMod
  <2> QED BY <2>3
<1>2. hi \in 0 .. w - 1
  <2>1. CASE hi <= -1
    <3>1. w * hi <= -w
      BY <2>1
    <3> QED BY <3>1, <1>1
  <2>2. CASE hi >= w
    <3>1. w * hi >= w * w
      BY <2>2
    <3> QED BY <3>1, <1>1
  <2> QED BY <2>1, <2>2
<1>3. once \in 0 .. 2 * w - 2
  BY <1>1, <1>2
<1>4. ASSUME NEW carries \in 1 .. 2, NEW r \in 0 .. w - 1,
             twice % w = r, once = r + (w - 1) * (carries - 1)
      PROVE  cksum \in 0 .. w - 1 /\ (sum + cksum) % (w - 1) = 0
  <2>1. cksum = w - 1 - r
    BY <1>4
  <2>2. sum = (w - 1) * hi + once
    BY <1>1, <1>2
  <2>3. sum + cksum = (w - 1) * hi + (w - 1) * (carries - 1) + (w - 1)
    BY <2>1, <2>2, <1>2, <1>3, <1>4
  <2>4. (w - 1) * hi + (w - 1) * (carries - 1) + (w - 1) = (w - 1) * (hi + carries) + 0
    BY <1>2
  <2>5. ((w - 1) * (hi + carries) + 0) % (w - 1) = 0
    BY <1>2, ModUnique
  <2> QED BY <2>1, <2>3, <2>4, <2>5
<1>5. CASE once < w
  <2>1. once \div w = 0 /\ once % w = once
    BY <1>3, <1>5
  <2>2. twice % w = once
    BY <2>1
  <2>3. once = once + (w - 1) * (1 - 1)
    BY <1>3
  <2> QED BY <2>2, <2>3, <1>3, <1>4, <1>5
<1>6. CASE once >= w
  <2> DEFINE r == once + 1 - w
  <2>1. r \in 0 .. w - 1
    BY <1>3, <1>6
  <2>2. once \div w = 1
    BY <1>3, <1>6
  <2>3. twice = w * 1 + r
    BY <2>2
  <2>4. twice % w = r
    BY <2>1, <2>3, ModUnique
  <2>5. once = r + (w - 1) * (2 - 1)
    BY <1>3
  <2> HIDE DEF r
  <2> QED BY <2>1, <2>4, <2>5, <1>4
<1> QED BY <1>3, <1>5, <1>6

\* The checksum of a sum, and what it makes of the sum.
LEMMA ChecksumVerifies ==
  ASSUME NEW sum \in 0 .. WordModulus * WordModulus - 1
  PROVE  /\ InCksum(sum) \in Words
         /\ (sum + InCksum(sum)) % (WordModulus - 1) = 0
<1> DEFINE once == (sum \div WordModulus) + (sum % WordModulus)
           twice == once + (once \div WordModulus)
<1>1. WordModulus \in Nat /\ WordModulus > 8 /\ WordModulus \in Nat \ {0}
  BY WordModulusType
<1>2. sum \in Int
  BY <1>1
<1>3. once \in Int
  BY <1>1, <1>2, DivMod
<1>4. twice \in Int
  <2> HIDE DEF once
  <2> QED BY <1>1, <1>3, DivMod
<1>5. Folded(sum) = twice
  BY DEF Folded
<1>6. InCksum(sum) = WordModulus - 1 - (twice % WordModulus)
  BY <1>5 DEF InCksum
<1>7. twice % WordModulus \in Int
  <2> HIDE DEF twice
  <2> QED BY <1>1, <1>4, DivMod
<1>8. InCksum(sum) \in Int
  BY <1>1, <1>6, <1>7
<1>9. twice = once + (once \div WordModulus) /\ once = (sum \div WordModulus) + (sum % WordModulus)
  OBVIOUS
<1> HIDE DEF once, twice
<1> QED BY <1>1, <1>3, <1>4, <1>6, <1>8, <1>9, TwoFoldings DEF Words

-----------------------------------------------------------------------------
(* Types *)

Packets ==
  [type : {ICMP_ECHO}, cksum : Words, id : Words, seq : Ids, stamp : Words,
   len : DataLens \cup {2}, born : Nat]

\* A packet that came in.
Replies == [outpack : Packets, came : Nat]

EngineTypes ==
  /\ pc \in {"caller", "compose", "transmit", "receive"}
  /\ now \in 0 .. MaxTime /\ start \in Starts
  /\ n_outstanding \in 0 .. NPackets
  /\ pc = "compose" => n_outstanding < NPackets
  /\ pc = "transmit" => n_outstanding > 0
  /\ returned \in [Ids -> Nat]

PacketTypes ==
  /\ outpack \in Packets /\ outpack.born <= now
  /\ \A p \in net : p.outpack \in Packets /\ p.outpack.born <= now
  /\ socket \in Seq(Replies)

TimeTypes ==
  /\ depart \in [Ids -> Words] /\ arrive \in [Ids -> Words] /\ rtts \in [Ids -> Words]
  /\ sent \in 0 .. now
  /\ came \in [Ids -> Nat] /\ waited \in [Ids -> Int] /\ took \in [Ids -> Int]

TypeInv == EngineTypes /\ PacketTypes /\ TimeTypes

LEMMA ConstantTypes ==
  /\ WordModulus \in Nat \ {0} /\ WordModulus > 8
  /\ NPackets \in Nat \ {0} /\ MaxTime \in Nat /\ MaxTime < WordModulus
  /\ Words \subseteq Nat /\ 0 \in Words /\ 0 \in Ids /\ Ids \subseteq Words
  /\ Starts \subseteq Nat /\ LostTime \in Words /\ ICMP_ECHO \in Words
<1>1. WordModulus \in Nat \ {0} /\ WordModulus > 8
  BY WordModulusType
<1>2. ICMP_ECHO \in Words
  BY <1>1, DivMod DEF ICMP_ECHO, Words
<1> QED BY <1>1, <1>2, EchoAssumption DEF Words, Ids, LostTime

LEMMA ModWord ==
  ASSUME NEW x \in Int
  PROVE  x % WordModulus \in Words
BY ConstantTypes, DivMod DEF Words

LEMMA ClockWord ==
  ASSUME TypeInv
  PROVE  TIMENOW \in Words
<1>1. start + now \in Int
  BY ConstantTypes DEF TypeInv, EngineTypes
<1> QED BY <1>1, ModWord DEF TIMENOW

LEMMA TimesubWord ==
  ASSUME NEW first \in Words, NEW second \in Words
  PROVE  timesub(first, second) \in Words
<1>1. first \in Int /\ second \in Int
  BY ConstantTypes
<1> QED BY <1>1, ModWord DEF timesub

\* The bytes of the pattern, as who receives them adds them up.
AtReceiver(len) ==
  [fp \in 0 .. len - 3 |-> PatternByte(fp) * (IF fp % 2 = 0 THEN 1 ELSE ByteModulus)]

InWords(len) ==
  [k \in 0 .. (len - 2) \div 2 - 1 |->
     PatternByte(2 * k) + (ByteModulus * PatternByte((2 * k) + 1))]

LEMMA PatternByteType ==
  ASSUME NEW fp \in Nat
  PROVE  PatternByte(fp) \in 0 .. ByteModulus - 1
<1>1. fp + 16 \in Int /\ ByteModulus \in Nat \ {0}
  BY EchoAssumption
<1> QED BY ONLY <1>1, DivMod DEF PatternByte

\* Adding up the pattern byte by byte, every other one as a high byte, or word by
\* word with an odd byte at the end is the same.
LEMMA PatternBothWays ==
  ASSUME NEW len \in Nat, len > 1
  PROVE  SumFunction(AtReceiver(len)) = PatternSum(len)
<1> DEFINE n == (len - 2) \div 2
           f == AtReceiver(len)
           g == InWords(len)
           odd == IF (len % 2) = 1 THEN PatternByte(len - 3) ELSE 0
<1>1. /\ n \in Nat
      /\ len % 2 = 0 => len - 2 = 2 * n
      /\ len % 2 = 1 => len - 2 = (2 * n) + 1
      /\ len % 2 \in {0, 1}
  OBVIOUS
<1>2. ByteModulus \in Nat
  BY EchoAssumption
<1>3. \A fp \in 0 .. len - 3 : f[fp] \in Int
  <2> TAKE fp \in 0 .. len - 3
  <2>1. PatternByte(fp) \in Int
    BY <1>2, PatternByteType
  <2> QED BY <1>2, <2>1 DEF AtReceiver
<1>4. SumFunction(f) = SumFunctionOnSet(f, 0 .. len - 3)
  BY DEF SumFunction, AtReceiver
<1>5. PatternSum(len) = SumFunctionOnSet(g, 0 .. n - 1) + odd
  BY DEF PatternSum, SumFunction, InWords
<1> HIDE DEF n
<1>6. (2 * n) - 1 <= len - 3
  BY <1>1
<1>7. \A i \in 0 .. (2 * n) - 1 : f[i] \in Int
  BY <1>1, <1>3, <1>6
<1>8. \A k \in 0 .. n - 1 : g[k] = f[2 * k] + f[(2 * k) + 1]
  <2> TAKE k \in 0 .. n - 1
  <2>1. /\ 2 * k \in 0 .. len - 3 /\ (2 * k) + 1 \in 0 .. len - 3
        /\ (2 * k) % 2 = 0 /\ ((2 * k) + 1) % 2 = 1
    BY <1>1, <1>6
  <2>2. PatternByte(2 * k) \in Int /\ PatternByte((2 * k) + 1) \in Int
    BY <1>2, <2>1, PatternByteType
  <2>3. f[2 * k] = PatternByte(2 * k) /\ f[(2 * k) + 1] = PatternByte((2 * k) + 1) * ByteModulus
    BY <2>1, <2>2 DEF AtReceiver
  <2>4. g[k] = PatternByte(2 * k) + (ByteModulus * PatternByte((2 * k) + 1))
    BY DEF InWords, n
  <2> QED BY <1>2, <2>2, <2>3, <2>4
<1> HIDE DEF f, g
<1>9. SumFunctionOnSet(f, 0 .. (2 * n) - 1) = SumFunctionOnSet(g, 0 .. n - 1)
  BY <1>1, <1>7, <1>8, SumByPairs
<1>10. IsFiniteSet(0 .. (2 * n) - 1)
  BY <1>1, FS_Interval
<1>11. SumFunctionOnSet(f, 0 .. (2 * n) - 1) \in Int
  BY <1>7, <1>10, SumType
<1>12. ASSUME len % 2 = 0 PROVE SumFunction(f) = PatternSum(len)
  <2>1. 0 .. len - 3 = 0 .. (2 * n) - 1 /\ odd = 0
    BY <1>1, <1>12
  <2> QED BY <1>4, <1>5, <1>9, <1>11, <2>1
<1>13. ASSUME len % 2 = 1 PROVE SumFunction(f) = PatternSum(len)
  <2>1. /\ 0 .. len - 3 = (0 .. (2 * n) - 1) \cup {2 * n} /\ len - 3 = 2 * n
        /\ 2 * n \notin 0 .. (2 * n) - 1
    BY <1>1, <1>13
  <2>2. f[2 * n] = PatternByte(2 * n) /\ PatternByte(2 * n) \in Int
    <3>1. 2 * n \in 0 .. len - 3 /\ (2 * n) % 2 = 0 /\ 2 * n \in Nat
      BY <1>1, <2>1
    <3>2. PatternByte(2 * n) \in Int
      BY <1>2, <3>1, PatternByteType
    <3> QED BY <3>1, <3>2 DEF f, AtReceiver
  <2>3. \A i \in (0 .. (2 * n) - 1) \cup {2 * n} : f[i] \in Int
    BY <1>7, <2>2
  <2>4. SumFunctionOnSet(f, (0 .. (2 * n) - 1) \cup {2 * n})
          = f[2 * n] + SumFunctionOnSet(f, 0 .. (2 * n) - 1)
    BY <1>10, <2>1, <2>3, SumAdd
  <2>5. odd = f[2 * n]
    BY <1>13, <2>1, <2>2
  <2>6. SumFunctionOnSet(f, 0 .. len - 3) = f[2 * n] + SumFunctionOnSet(f, 0 .. (2 * n) - 1)
    BY <2>1, <2>4
  <2>7. SumFunctionOnSet(f, 0 .. len - 3) = SumFunctionOnSet(g, 0 .. n - 1) + odd
    <3> HIDE DEF odd
    <3>1. f[2 * n] \in Int
      BY <2>2
    <3> QED BY <1>9, <1>11, <2>5, <2>6, <3>1
  <2> QED BY <1>4, <1>5, <2>7
<1>14. SumFunction(f) = PatternSum(len)
  BY <1>1, <1>12, <1>13
<1> QED BY <1>14 DEF f

\* The sum of the pattern leaves room for the words of the header.
LEMMA PatternSumFits ==
  ASSUME NEW len \in DataLens
  PROVE  PatternSum(len) \in 0 .. WordModulus * (WordModulus - 5)
<1> DEFINE n == (len - 2) \div 2
           g == InWords(len)
           odd == IF (len % 2) = 1 THEN PatternByte(len - 3) ELSE 0
           w == WordModulus
<1>1. len \in Nat /\ len > 1 /\ len <= 2 * (w - 6) /\ w \in Nat /\ w > 8
  BY AccumulatorAssumption, EchoAssumption, WordModulusType
<1>2. /\ n \in Nat /\ n <= w - 6
      /\ len % 2 = 1 => len - 3 \in Nat
  BY <1>1
<1>3. ByteModulus \in Nat /\ ByteModulus > 2 /\ w = ByteModulus * ByteModulus
  BY EchoAssumption DEF WordModulus
<1>4. PatternSum(len) = SumFunctionOnSet(g, 0 .. n - 1) + odd
  BY DEF PatternSum, SumFunction, InWords
<1> HIDE DEF n, w
<1>5. \A k \in 0 .. n - 1 : g[k] \in 0 .. w - 1
  <2> TAKE k \in 0 .. n - 1
  <2>1. 2 * k \in Nat /\ (2 * k) + 1 \in Nat
    BY <1>2
  <2>2. /\ PatternByte(2 * k) \in 0 .. ByteModulus - 1
        /\ PatternByte((2 * k) + 1) \in 0 .. ByteModulus - 1
    BY <2>1, PatternByteType
  <2>3. g[k] = PatternByte(2 * k) + (ByteModulus * PatternByte((2 * k) + 1))
    BY DEF InWords, n
  <2>4. ASSUME NEW b \in Nat, b > 2, NEW x \in 0 .. b - 1, NEW y \in 0 .. b - 1
        PROVE  x + (b * y) \in 0 .. (b * b) - 1
    <3>1. b * y \in Nat /\ b * y <= b * (b - 1) /\ b * (b - 1) = (b * b) - b
      BY <2>4
    <3>2. b * b \in Int
      OBVIOUS
    <3> QED BY <2>4, <3>1, <3>2
  <2> QED BY <1>3, <2>2, <2>3, <2>4
<1>6. IsFiniteSet(0 .. n - 1) /\ Cardinality(0 .. n - 1) = n
  <2>1. /\ IsFiniteSet(0 .. n - 1)
        /\ Cardinality(0 .. n - 1) = IF 0 > n - 1 THEN 0 ELSE (n - 1) - 0 + 1
    <3>1. 0 \in Int /\ n - 1 \in Int
      BY <1>2
    <3> QED BY <3>1, FS_Interval
  <2> QED BY <1>2, <2>1
<1>7. odd \in 0 .. ByteModulus - 1
  BY <1>2, <1>3, PatternByteType
<1> HIDE DEF g, odd
<1>8. /\ n * 0 <= SumFunctionOnSet(g, 0 .. n - 1)
      /\ SumFunctionOnSet(g, 0 .. n - 1) <= n * (w - 1)
  <2>1. 0 \in Int /\ w - 1 \in Int
    BY <1>1
  <2>2. /\ Cardinality(0 .. n - 1) * 0 <= SumFunctionOnSet(g, 0 .. n - 1)
        /\ SumFunctionOnSet(g, 0 .. n - 1) <= Cardinality(0 .. n - 1) * (w - 1)
    BY <1>5, <1>6, <2>1, SumBounds
  <2> QED BY <1>6, <2>2
<1>9. SumFunctionOnSet(g, 0 .. n - 1) \in Int
  <2>1. \A k \in 0 .. n - 1 : g[k] \in Int
    BY <1>1, <1>5
  <2> QED BY <1>6, <2>1, SumType
<1>10. n * 0 = 0 /\ n * (w - 1) <= (w - 6) * (w - 1)
  BY <1>1, <1>2
<1>11. (w - 6) * (w - 1) = (w * w) - (7 * w) + 6 /\ w * (w - 5) = (w * w) - (5 * w)
  BY <1>1
<1>12. ByteModulus <= w
  BY <1>3
<1>13. w * w \in Int /\ n * (w - 1) \in Int
  BY <1>1, <1>2
<1>14. SumFunctionOnSet(g, 0 .. n - 1) + odd \in 0 .. w * (w - 5)
  BY <1>1, <1>3, <1>7, <1>8, <1>9, <1>10, <1>11, <1>12, <1>13
<1> QED BY <1>4, <1>14 DEF w

\* The words of a packet before the checksum is filled in.
LEMMA WordSumFits ==
  ASSUME NEW p \in Packets, p.cksum = 0, p.len \in DataLens
  PROVE  WordSum(p) \in 0 .. WordModulus * WordModulus - 1
<1>1. /\ p.type \in Words /\ p.id \in Words /\ p.seq \in Words /\ p.stamp \in Words
  BY ConstantTypes DEF Packets
<1>2. PatternSum(p.len) \in 0 .. WordModulus * (WordModulus - 5)
  BY PatternSumFits
<1>3. WordModulus * (WordModulus - 5) = WordModulus * WordModulus - 5 * WordModulus
  BY ConstantTypes
<1>4. WordModulus * WordModulus \in Int
  BY ConstantTypes
<1> QED BY <1>1, <1>2, <1>3, <1>4, ConstantTypes DEF WordSum, Words

\* The packet as send_icmp() hands it to in_cksum().
LEMMA StampedTypes ==
  ASSUME TypeInv, pc = "compose", NEW len \in DataLens
  PROVE  /\ Stamped(len) \in Packets
         /\ Stamped(len).cksum = 0 /\ Stamped(len).len = len
         /\ Stamped(len).stamp = TIMENOW /\ Stamped(len).born = now
<1>1. n_outstanding \in Ids /\ TIMENOW \in Words /\ now \in Nat /\ 0 \in Words
  BY ConstantTypes, ClockWord DEF TypeInv, EngineTypes, Ids
<1>2. outpack \in Packets
  BY DEF TypeInv, PacketTypes
<1>3. Stamped(len) = [outpack EXCEPT !.cksum = 0, !.seq = n_outstanding,
                                     !.stamp = TIMENOW, !.len = len, !.born = now]
  BY DEF Stamped
<1> QED BY ONLY <1>1, <1>2, <1>3, len \in DataLens DEF Packets

\* The packet that leaves it: the sum over its words is a multiple of
\* WordModulus - 1.
Verified(p) == WordSum(p) % (WordModulus - 1) = 0

LEMMA ComposedPacket ==
  ASSUME TypeInv, Compose
  PROVE  /\ outpack' \in Packets /\ Verified(outpack')
         /\ outpack'.stamp = TIMENOW /\ outpack'.born = now
<1>1. PICK len \in DataLens :
        outpack' = [Stamped(len) EXCEPT !.cksum = InCksum(WordSum(Stamped(len)))]
  BY DEF Compose
<1> DEFINE p == Stamped(len)
           sum == WordSum(p)
<1>2. p \in Packets /\ p.cksum = 0 /\ p.len = len /\ p.stamp = TIMENOW /\ p.born = now
  BY StampedTypes DEF Compose
<1>3. sum \in 0 .. WordModulus * WordModulus - 1
  BY <1>2, WordSumFits
<1>4. outpack' = [p EXCEPT !.cksum = InCksum(sum)]
  BY <1>1
<1> HIDE DEF p
<1>5. sum \in Nat
  <2>1. WordModulus * WordModulus \in Int
    BY ConstantTypes
  <2> QED BY <1>3, <2>1
<1>6. InCksum(sum) \in Words /\ (sum + InCksum(sum)) % (WordModulus - 1) = 0
  BY <1>3, ChecksumVerifies
<1>7. outpack' \in Packets /\ outpack'.stamp = TIMENOW /\ outpack'.born = now
  BY <1>2, <1>4, <1>6 DEF Packets
<1>8. WordSum(outpack') = sum + InCksum(sum)
  <2>1. /\ p.type \in Int /\ p.id \in Int /\ p.seq \in Int /\ p.stamp \in Int
        /\ InCksum(sum) \in Int
    <3>1. /\ p.type \in Words /\ p.id \in Words /\ p.seq \in Words /\ p.stamp \in Words
      BY <1>2, ConstantTypes DEF Packets
    <3>2. Words \subseteq Int
      BY ConstantTypes
    <3>3. InCksum(sum) \in Words
      BY <1>6
    <3> QED BY ONLY <3>1, <3>2, <3>3
  <2>2. PatternSum(len) \in Int
    <3>1. WordModulus * (WordModulus - 5) \in Int
      BY ConstantTypes
    <3> QED BY <3>1, PatternSumFits
  <2>3. /\ outpack'.type = p.type /\ outpack'.id = p.id /\ outpack'.seq = p.seq
        /\ outpack'.stamp = p.stamp /\ outpack'.len = len
        /\ outpack'.cksum = InCksum(sum)
    BY <1>2, <1>4 DEF Packets
  <2>4. sum = p.type + 0 + p.id + p.seq + p.stamp + PatternSum(len)
    BY <1>2 DEF WordSum
  <2>5. WordSum(outpack') =
          p.type + InCksum(sum) + p.id + p.seq + p.stamp + PatternSum(len)
    BY <2>3 DEF WordSum
  <2> HIDE DEF sum
  <2> QED BY <2>1, <2>2, <2>4, <2>5
<1> QED BY <1>6, <1>7, <1>8 DEF Verified

LEMMA InitTypes == Init => TypeInv
<1> SUFFICES ASSUME Init PROVE TypeInv
  OBVIOUS
<1>1. EngineTypes
  BY ConstantTypes DEF Init, EngineTypes
<1>2. PacketTypes
  <2>1. PICK pid \in ProcessIds :
          outpack = [type |-> ICMP_ECHO, cksum |-> 0, id |-> pid, seq |-> 0, stamp |-> 0,
                     len |-> 2, born |-> 0]
    BY DEF Init
  <2>2. pid \in Words
    BY EchoAssumption
  <2>3. outpack \in Packets /\ outpack.born = 0
    BY <2>1, <2>2, ConstantTypes DEF Packets
  <2>4. socket \in Seq(Replies) /\ net = {} /\ now = 0
    BY DEF Init
  <2> QED BY <2>3, <2>4 DEF PacketTypes
<1>3. TimeTypes
  BY ConstantTypes DEF Init, TimeTypes
<1> QED BY <1>1, <1>2, <1>3 DEF TypeInv

\* The reply that the loop reads.
LEMMA ReadReply ==
  ASSUME TypeInv, RecvIcmp
  PROVE  /\ Head(socket) \in Replies /\ Tail(socket) \in Seq(Replies)
         /\ Head(socket).outpack.seq \in Ids /\ Head(socket).outpack.born \in Nat
         /\ Head(socket).outpack.stamp \in Words /\ Head(socket).came \in Nat
<1>1. socket \in Seq(Replies) /\ socket # <<>>
  BY DEF TypeInv, PacketTypes, RecvIcmp
<1>2. Head(socket) \in Replies /\ Tail(socket) \in Seq(Replies)
  BY <1>1
<1> HIDE DEF RecvIcmp
<1> QED BY <1>2 DEF Replies, Packets

LEMMA NextTypes == TypeInv /\ [Next]_vars => TypeInv'
<1> SUFFICES ASSUME TypeInv, [Next]_vars PROVE TypeInv'
  OBVIOUS
<1>1. CASE RprobeEntry
  <2>1. EngineTypes'
    BY <1>1, ConstantTypes DEF TypeInv, EngineTypes, RprobeEntry
  <2>2. PacketTypes'
    BY <1>1 DEF TypeInv, PacketTypes, RprobeEntry
  <2>3. \A i \in Ids : ((i + 1) * 100) % WordModulus \in Words
    BY ModWord DEF Ids
  <2>4. TimeTypes'
    BY <1>1, <2>3, ConstantTypes DEF TypeInv, TimeTypes, RprobeEntry, history
  <2> QED BY <2>1, <2>2, <2>4 DEF TypeInv
<1>2. CASE Compose
  <2>1. EngineTypes'
    <3>1. returned' \in [Ids -> Nat]
      BY <1>2 DEF TypeInv, EngineTypes, Compose
    <3>2. n_outstanding' \in 0 .. NPackets /\ n_outstanding' > 0
      BY <1>2, ConstantTypes DEF TypeInv, EngineTypes, Compose
    <3>3. UNCHANGED <<now, start>> /\ pc' = "transmit"
      BY <1>2 DEF Compose
    <3> QED BY <3>1, <3>2, <3>3 DEF TypeInv, EngineTypes
  <2>2. PacketTypes'
    <3>1. outpack' \in Packets /\ outpack'.born <= now
      BY <1>2, ComposedPacket DEF TypeInv, EngineTypes
    <3> QED BY <1>2, <3>1 DEF TypeInv, PacketTypes, Compose
  <2>3. TimeTypes'
    BY <1>2 DEF TypeInv, TimeTypes, Compose, timeVars, history
  <2> QED BY <2>1, <2>2, <2>3 DEF TypeInv
<1>3. CASE Transmit
  <2>1. EngineTypes'
    BY <1>3, ConstantTypes DEF TypeInv, EngineTypes, Transmit, SendsMore
  <2>2. PacketTypes'
    BY <1>3 DEF TypeInv, PacketTypes, Transmit
  <2>3. TimeTypes'
    <3>1. depart' \in [Ids -> Words]
      BY <1>3, ClockWord DEF TypeInv, TimeTypes, Transmit
    <3>2. sent' \in 0 .. now'
      BY <1>3, ConstantTypes DEF TypeInv, EngineTypes, Transmit
    <3> QED BY <1>3, <3>1, <3>2 DEF TypeInv, TimeTypes, Transmit
  <2> QED BY <2>1, <2>2, <2>3 DEF TypeInv
<1>4. CASE RecvIcmp
  <2> DEFINE id == Head(socket).outpack.seq
  <2>1. id \in Ids /\ Tail(socket) \in Seq(Replies)
    BY <1>4, ReadReply
  <2>2. EngineTypes'
    <3>1. returned' \in [Ids -> Nat]
      BY <1>4, <2>1 DEF TypeInv, EngineTypes, RecvIcmp
    <3>2. n_outstanding' \in 0 .. NPackets
      BY <1>4, ConstantTypes DEF TypeInv, EngineTypes, RecvIcmp
    <3>3. UNCHANGED <<pc, now, start>> /\ pc = "receive"
      BY <1>4 DEF RecvIcmp
    <3> QED BY <3>1, <3>2, <3>3 DEF TypeInv, EngineTypes
  <2>3. PacketTypes'
    BY <1>4, <2>1 DEF TypeInv, PacketTypes, RecvIcmp
  <2>4. TimeTypes'
    <3>1. timesub(TIMENOW, Head(socket).outpack.stamp) \in Words
      <4>1. TIMENOW \in Words /\ Head(socket).outpack.stamp \in Words
        BY <1>4, ReadReply, ClockWord
      <4> QED BY <4>1, TimesubWord
    <3>2. /\ now - Head(socket).outpack.born \in Int /\ Head(socket).came \in Nat
          /\ now - Head(socket).came \in Int
      BY <1>4, ReadReply DEF TypeInv, EngineTypes
    <3> QED BY <1>4, <2>1, <3>1, <3>2, ClockWord DEF TypeInv, TimeTypes, RecvIcmp
  <2> QED BY <2>2, <2>3, <2>4 DEF TypeInv
<1>5. CASE Close
  <2>1. EngineTypes' /\ PacketTypes' /\ TimeTypes'
    BY <1>5 DEF TypeInv, EngineTypes, PacketTypes, TimeTypes, Close, timeVars, history
  <2> QED BY <2>1 DEF TypeInv
<1>6. CASE Deliver
  <2>1. EngineTypes' /\ TimeTypes'
    BY <1>6 DEF TypeInv, EngineTypes, TimeTypes, Deliver, timeVars, history
  <2>2. PacketTypes'
    <3>1. PICK p \in net :
            /\ net' = net \ {p}
            /\ socket' = IF pc = "caller" THEN socket
                         ELSE Append(socket, [outpack |-> p.outpack, came |-> now])
            /\ UNCHANGED <<now, outpack>>
      BY <1>6 DEF Deliver
    <3>2. [outpack |-> p.outpack, came |-> now] \in Replies
      BY <3>1 DEF TypeInv, EngineTypes, PacketTypes, Replies
    <3>3. socket' \in Seq(Replies)
      BY <3>1, <3>2 DEF TypeInv, PacketTypes
    <3> QED BY <3>1, <3>3 DEF TypeInv, PacketTypes
  <2> QED BY <2>1, <2>2 DEF TypeInv
<1>7. CASE Tick
  <2>1. EngineTypes'
    BY <1>7, ConstantTypes DEF TypeInv, EngineTypes, Tick
  <2>2. PacketTypes'
    <3>1. now \in Nat /\ now' = now + 1 /\ \A p \in net : p.outpack.born \in Nat
      BY <1>7, ConstantTypes DEF TypeInv, EngineTypes, PacketTypes, Packets, Tick
    <3>2. outpack.born \in Nat
      BY DEF TypeInv, PacketTypes, Packets
    <3> QED BY <1>7, <3>1, <3>2 DEF TypeInv, PacketTypes, Tick
  <2>3. TimeTypes'
    BY <1>7, ConstantTypes DEF TypeInv, EngineTypes, TimeTypes, Tick, timeVars, history
  <2> QED BY <2>1, <2>2, <2>3 DEF TypeInv
<1>8. CASE UNCHANGED vars
  <2>1. EngineTypes' /\ PacketTypes' /\ TimeTypes'
    BY <1>8 DEF TypeInv, EngineTypes, PacketTypes, TimeTypes, vars, timeVars, history
  <2> QED BY <2>1 DEF TypeInv
<1> QED BY <1>1, <1>2, <1>3, <1>4, <1>5, <1>6, <1>7, <1>8 DEF Next, Finished

LEMMA Typed == Spec => []TypeInv
BY InitTypes, NextTypes, PTL DEF Spec

\* Counters and times stay in their ranges: no train is longer than it should be,
\* and every time is a word.
THEOREM TypeCorrect == Spec => []TypeOK
<1>1. ASSUME TypeInv PROVE TypeOK
  <2>1. /\ {outpack.cksum, outpack.stamp, outpack.id} \subseteq Words
        /\ outpack.seq \in Ids /\ outpack.born \in 0 .. now
    BY <1>1 DEF TypeInv, EngineTypes, PacketTypes, Packets
  <2>2. \A times \in {depart, arrive, rtts} : times \in [Ids -> Words]
    BY <1>1 DEF TypeInv, TimeTypes
  <2> QED BY <1>1, <2>1, <2>2 DEF TypeInv, EngineTypes, TypeOK
<1> QED BY Typed, <1>1, PTL

-----------------------------------------------------------------------------
(* Checksums *)

SumInv ==
  /\ pc = "transmit" => Verified(outpack)
  /\ \A p \in net : Verified(p.outpack)

LEMMA NextSums == TypeInv /\ SumInv /\ [Next]_vars => SumInv'
<1> SUFFICES ASSUME TypeInv, SumInv, [Next]_vars PROVE SumInv'
  OBVIOUS
<1>1. CASE Compose
  <2>1. Verified(outpack')
    BY <1>1, ComposedPacket
  <2> QED BY <1>1, <2>1 DEF SumInv, Compose, Verified
<1>2. CASE Transmit
  BY <1>2 DEF SumInv, Transmit, Verified
<1>3. CASE Deliver
  BY <1>3 DEF SumInv, Deliver, Verified
<1>4. CASE RprobeEntry \/ RecvIcmp \/ Close \/ Tick
  BY <1>4 DEF SumInv, RprobeEntry, RecvIcmp, Close, Tick, Verified
<1>5. CASE UNCHANGED vars
  BY <1>5 DEF SumInv, vars, Verified
<1> QED BY <1>1, <1>2, <1>3, <1>4, <1>5 DEF Next, Finished

LEMMA Summed == Spec => []SumInv
<1>1. Init => SumInv
  BY DEF Init, SumInv
<1> QED BY <1>1, NextSums, Typed, PTL DEF Spec

\* What a receiver adds up is what the sender added up.
LEMMA ReceivedSum ==
  ASSUME NEW p \in Packets
  PROVE  SumAtReceiver(p) = WordSum(p)
<1>1. p.len \in Nat /\ p.len > 1
  <2>1. p.len \in DataLens \cup {2}
    BY DEF Packets
  <2>2. \A len \in DataLens : len \in Nat /\ len > 1
    BY EchoAssumption
  <2> QED BY <2>1, <2>2
<1>2. SumFunction(AtReceiver(p.len)) = PatternSum(p.len)
  BY <1>1, PatternBothWays
<1> QED BY <1>2 DEF SumAtReceiver, WordSum, AtReceiver

\* Every packet that leaves adds up to a multiple of WordModulus - 1 at its receiver,
\* for every size of a byte, packets of odd and even sizes, and whatever the buffer
\* held before.
THEOREM ChecksumsVerify == Spec => []SentPacketsVerify
<1>1. TypeInv /\ SumInv => SentPacketsVerify
  BY ReceivedSum DEF TypeInv, PacketTypes, SumInv, Verified, SentPacketsVerify
<1> QED BY <1>1, Typed, Summed, PTL

-----------------------------------------------------------------------------
(* Times *)

\* When the reply to packet i was read.
ReadAt(i) == came[i] + waited[i]

StampOf(p) == (start + p.born) % WordModulus

\* Stamps tell when a packet was composed.
StampInv ==
  /\ pc = "transmit" => outpack.stamp = StampOf(outpack)
  /\ \A p \in net : p.outpack.stamp = StampOf(p.outpack)
  /\ \A k \in 1 .. Len(socket) :
       /\ socket[k].outpack.stamp = StampOf(socket[k].outpack)
       /\ socket[k].outpack.born <= now /\ socket[k].came <= now

\* The socket hands replies out in the order they came in.
QueueInv ==
  \A k, l \in 1 .. Len(socket) : k <= l => socket[k].came <= socket[l].came

\* Until the next call, the arrays hold this round's replies.
Held == pc \in {"receive", "caller"}

\* What is recorded of the answered packets.
RecordInv ==
  /\ pc \in {"compose", "transmit"} =>
       \A i \in Ids : i < n_outstanding => returned[i] = 0
  /\ \A i \in Ids : returned[i] > 0 => rtts[i] = took[i]
  /\ Held =>
       \A i \in Ids : returned[i] > 0 =>
         /\ came[i] <= now /\ sent <= ReadAt(i) /\ ReadAt(i) <= now
         /\ arrive[i] = (start + ReadAt(i)) % WordModulus

\* What was read came before what waits, and was read in the order it came.
OrderInv ==
  Held =>
    \A i \in Ids : returned[i] > 0 =>
      /\ \A k \in 1 .. Len(socket) : came[i] <= socket[k].came
      /\ \A j \in Ids : returned[j] > 0 /\ came[i] < came[j] => ReadAt(i) <= ReadAt(j)

TimeInv == StampInv /\ QueueInv /\ RecordInv /\ OrderInv

LEMMA InitTimes == Init => TimeInv
<1> SUFFICES ASSUME Init PROVE TimeInv
  OBVIOUS
<1>1. pc = "caller" /\ net = {} /\ socket = <<>> /\ \A i \in Ids : returned[i] = 0
  BY DEF Init
<1> QED BY <1>1 DEF TimeInv, StampInv, QueueInv, RecordInv, OrderInv

LEMMA NextStamps == TypeInv /\ StampInv /\ [Next]_vars => StampInv'
<1> SUFFICES ASSUME TypeInv, StampInv, [Next]_vars PROVE StampInv'
  OBVIOUS
<1> USE DEF StampInv, StampOf
<1>0. socket \in Seq(Replies) /\ now \in Nat
  BY ConstantTypes DEF TypeInv, EngineTypes, PacketTypes
<1>1. CASE RprobeEntry
  BY <1>1 DEF RprobeEntry
<1>2. CASE Compose
  <2>1. outpack'.stamp = (start + now) % WordModulus /\ outpack'.born = now
    BY <1>2, ComposedPacket DEF TIMENOW
  <2> QED BY <1>2, <2>1 DEF Compose
<1>3. CASE Transmit
  BY <1>3 DEF Transmit
<1>4. CASE RecvIcmp
  <2>1. /\ Len(socket') = Len(socket) - 1
        /\ \A k \in 1 .. Len(socket') : socket'[k] = socket[k + 1] /\ k + 1 \in 1 .. Len(socket)
    BY <1>0, <1>4 DEF RecvIcmp
  <2> QED BY <1>4, <2>1 DEF RecvIcmp
<1>5. CASE Close
  BY <1>5 DEF Close
<1>6. CASE Deliver
  <2>1. PICK p \in net :
          /\ net' = net \ {p}
          /\ socket' = IF pc = "caller" THEN socket
                       ELSE Append(socket, [outpack |-> p.outpack, came |-> now])
          /\ UNCHANGED <<pc, now, start, outpack>>
    BY <1>6 DEF Deliver
  <2>2. p.outpack.born <= now
    BY DEF TypeInv, PacketTypes
  <2>3. CASE pc = "caller"
    BY <2>1, <2>3
  <2>4. CASE pc # "caller"
    <3>1. /\ Len(socket') = Len(socket) + 1
          /\ \A k \in 1 .. Len(socket') :
               socket'[k] = IF k <= Len(socket) THEN socket[k]
                            ELSE [outpack |-> p.outpack, came |-> now]
      BY <1>0, <2>1, <2>4
    <3>2. \A k \in 1 .. Len(socket') : k <= Len(socket) => k \in 1 .. Len(socket)
      BY <1>0
    <3> QED BY <1>0, <2>1, <2>2, <3>1, <3>2
  <2> QED BY <2>3, <2>4
<1>7. CASE Tick
  <2>1. \A k \in 1 .. Len(socket) : socket[k].outpack.born \in Nat /\ socket[k].came \in Nat
    <3>1. \A k \in 1 .. Len(socket) : socket[k] \in Replies
      BY <1>0
    <3> QED BY <3>1 DEF Replies, Packets
  <2> QED BY <1>0, <1>7, <2>1 DEF Tick
<1>8. CASE UNCHANGED vars
  BY <1>8 DEF vars
<1> QED BY <1>1, <1>2, <1>3, <1>4, <1>5, <1>6, <1>7, <1>8 DEF Next, Finished

LEMMA NextQueue == TypeInv /\ StampInv /\ QueueInv /\ [Next]_vars => QueueInv'
<1> SUFFICES ASSUME TypeInv, StampInv, QueueInv, [Next]_vars PROVE QueueInv'
  OBVIOUS
<1> USE DEF QueueInv
<1>0. socket \in Seq(Replies)
  BY DEF TypeInv, PacketTypes
<1>1. CASE UNCHANGED socket
  BY <1>1
<1>2. CASE RecvIcmp
  <2>1. /\ Len(socket') = Len(socket) - 1
        /\ \A k \in 1 .. Len(socket') : socket'[k] = socket[k + 1] /\ k + 1 \in 1 .. Len(socket)
    BY <1>0, <1>2 DEF RecvIcmp
  <2> QED BY <2>1
<1>3. CASE Close
  BY <1>3 DEF Close
<1>4. CASE Deliver
  <2>1. PICK p \in net :
          socket' = IF pc = "caller" THEN socket
                    ELSE Append(socket, [outpack |-> p.outpack, came |-> now])
    BY <1>4 DEF Deliver
  <2>2. CASE pc = "caller"
    BY <2>1, <2>2
  <2>3. CASE pc # "caller"
    <3>1. /\ Len(socket') = Len(socket) + 1
          /\ \A k \in 1 .. Len(socket') :
               socket'[k] = IF k <= Len(socket) THEN socket[k]
                            ELSE [outpack |-> p.outpack, came |-> now]
      BY <1>0, <2>1, <2>3
    <3>2. \A k \in 1 .. Len(socket') :
            IF k <= Len(socket)
              THEN k \in 1 .. Len(socket) /\ socket'[k].came = socket[k].came /\ socket[k].came <= now
              ELSE socket'[k].came = now
      BY <1>0, <3>1 DEF StampInv
    <3>3. now <= now
      BY ConstantTypes DEF TypeInv, EngineTypes
    <3> QED BY <1>0, <3>1, <3>2, <3>3
  <2> QED BY <2>2, <2>3
<1>5. CASE RprobeEntry \/ Compose \/ Transmit \/ Tick \/ UNCHANGED vars
  BY <1>1, <1>5 DEF RprobeEntry, Compose, Transmit, Tick, vars
<1> QED BY <1>2, <1>3, <1>4, <1>5 DEF Next, Finished

\* The reply that is read: what is recorded of it, if it is the first.
LEMMA ReadNow ==
  ASSUME TypeInv, TimeInv, RecvIcmp,
         NEW id \in Ids, id = Head(socket).outpack.seq, returned[id] = 0
  PROVE  /\ rtts'[id] = took'[id]
         /\ ReadAt(id)' = now /\ came'[id] = socket[1].came
         /\ arrive'[id] = (start + now) % WordModulus
         /\ \A i \in Ids \ {id} :
              /\ returned'[i] = returned[i] /\ rtts'[i] = rtts[i] /\ took'[i] = took[i]
              /\ came'[i] = came[i] /\ ReadAt(i)' = ReadAt(i) /\ arrive'[i] = arrive[i]
<1> DEFINE reply == Head(socket)
<1>0. now \in Nat /\ now <= MaxTime /\ start \in Nat
  BY ConstantTypes DEF TypeInv, EngineTypes
<1>1. reply = socket[1] /\ 1 \in 1 .. Len(socket)
  BY DEF RecvIcmp, TypeInv, PacketTypes
<1>2. reply.came \in Nat /\ reply.outpack.born \in Nat
  BY ReadReply
<1>3. /\ reply.outpack.born <= now
      /\ reply.outpack.stamp = (start + reply.outpack.born) % WordModulus
  BY <1>1 DEF TimeInv, StampInv, StampOf
<1>4. timesub(TIMENOW, reply.outpack.stamp) = now - reply.outpack.born
  <2> DEFINE a == start + now
             b == start + reply.outpack.born
  <2>1. a \in Int /\ b \in Int /\ a - b = now - reply.outpack.born
    BY <1>0, <1>2
  <2>2. a - b \in 0 .. WordModulus - 1
    BY <1>0, <1>2, <1>3, <2>1, ConstantTypes
  <2>3. ((a % WordModulus) - (b % WordModulus)) % WordModulus = a - b
    <3> HIDE DEF a, b
    <3> QED BY <2>1, <2>2, ModDifference, ConstantTypes
  <2> QED BY <1>3, <2>1, <2>3 DEF timesub, TIMENOW
<1>5. /\ returned' = [returned EXCEPT ![id] = @ + 1]
      /\ arrive' = [arrive EXCEPT ![id] = TIMENOW]
      /\ rtts' = [rtts EXCEPT ![id] = timesub(TIMENOW, reply.outpack.stamp)]
      /\ came' = [came EXCEPT ![id] = reply.came]
      /\ waited' = [waited EXCEPT ![id] = now - reply.came]
      /\ took' = [took EXCEPT ![id] = now - reply.outpack.born]
  BY DEF RecvIcmp
<1> HIDE DEF reply
<1>6. /\ rtts'[id] = took'[id] /\ came'[id] = reply.came
      /\ waited'[id] = now - reply.came /\ arrive'[id] = (start + now) % WordModulus
  BY <1>4, <1>5 DEF TypeInv, TimeTypes, TIMENOW
<1>7. \A i \in Ids \ {id} :
        /\ returned'[i] = returned[i] /\ rtts'[i] = rtts[i] /\ took'[i] = took[i]
        /\ came'[i] = came[i] /\ waited'[i] = waited[i] /\ arrive'[i] = arrive[i]
  BY <1>5 DEF TypeInv, EngineTypes, TimeTypes
<1> QED BY <1>0, <1>1, <1>2, <1>6, <1>7 DEF ReadAt

\* A repeated reply changes nothing but its count.
LEMMA ReadAgain ==
  ASSUME TypeInv, RecvIcmp, returned[Head(socket).outpack.seq] # 0
  PROVE  /\ UNCHANGED <<arrive, rtts, came, waited, took>>
         /\ \A i \in Ids : returned'[i] > 0 => returned[i] > 0
<1> DEFINE id == Head(socket).outpack.seq
<1>1. id \in Ids /\ returned \in [Ids -> Nat]
  BY ReadReply DEF TypeInv, EngineTypes
<1>2. returned' = [returned EXCEPT ![id] = @ + 1] /\ UNCHANGED <<arrive, rtts, came, waited, took>>
  BY DEF RecvIcmp
<1> HIDE DEF id
<1> QED BY <1>1, <1>2 DEF id

LEMMA NextRecords ==
  TypeInv /\ TimeInv /\ [Next]_vars => RecordInv'
<1> SUFFICES ASSUME TypeInv, TimeInv, [Next]_vars PROVE RecordInv'
  OBVIOUS
<1>0. /\ now \in Nat /\ sent \in 0 .. now
      /\ n_outstanding \in 0 .. NPackets /\ returned \in [Ids -> Nat]
  BY ConstantTypes DEF TypeInv, EngineTypes, TimeTypes
<1>i. RecordInv
  BY DEF TimeInv
<1> USE DEF Held
<1>1. CASE RprobeEntry
  <2>1. \A i \in Ids : ~(i < 0)
    BY DEF Ids
  <2> QED BY <1>1, <1>i, <2>1 DEF RprobeEntry, RecordInv, history
<1>2. CASE Compose
  <2>1. \A i \in Ids : i < n_outstanding + 1 => i < n_outstanding \/ i = n_outstanding
    BY <1>0, ConstantTypes DEF Ids
  <2>2. \A i \in Ids : returned'[i] = IF i = n_outstanding THEN 0 ELSE returned[i]
    BY <1>0, <1>2 DEF Compose
  <2> QED BY <1>2, <1>i, <2>1, <2>2 DEF Compose, RecordInv, timeVars, history
<1>3. CASE Transmit
  <2>1. CASE SendsMore
    BY <1>3, <1>i, <2>1 DEF Transmit, RecordInv
  <2>2. CASE ~SendsMore
    <3>1. \A i \in Ids : i < n_outstanding
      BY <1>0, <2>2, ConstantTypes DEF SendsMore, Ids
    <3>2. \A i \in Ids : returned[i] = 0
      BY <1>3, <1>i, <3>1 DEF Transmit, RecordInv
    <3> QED BY <1>3, <2>2, <3>2 DEF Transmit, RecordInv
  <2> QED BY <2>1, <2>2
<1>4. CASE RecvIcmp
  <2>0. PICK id \in Ids : id = Head(socket).outpack.seq
    BY <1>4, ReadReply
  <2>1. pc = "receive"
    BY <1>4 DEF RecvIcmp
  <2>2. socket[1].came <= now
    BY <1>4 DEF RecvIcmp, TypeInv, PacketTypes, TimeInv, StampInv
  <2>3. UNCHANGED <<pc, now, start, sent>>
    BY <1>4 DEF RecvIcmp
  <2>4. CASE returned[id] = 0
    <3>1. /\ rtts'[id] = took'[id]
          /\ ReadAt(id)' = now /\ came'[id] = socket[1].came
          /\ arrive'[id] = (start + now) % WordModulus
          /\ \A i \in Ids \ {id} :
               /\ returned'[i] = returned[i] /\ rtts'[i] = rtts[i] /\ took'[i] = took[i]
               /\ came'[i] = came[i] /\ ReadAt(i)' = ReadAt(i) /\ arrive'[i] = arrive[i]
      BY <1>4, <2>0, <2>4, ReadNow
    <3>2. now <= now /\ sent <= now
      BY <1>0
    <3>3. \A i \in Ids \ {id} : returned'[i] > 0 =>
            /\ rtts'[i] = took'[i]
            /\ came'[i] <= now /\ sent <= ReadAt(i)' /\ ReadAt(i)' <= now
            /\ arrive'[i] = (start + ReadAt(i)') % WordModulus
      BY <1>i, <2>1, <3>1 DEF RecordInv
    <3> QED BY <2>1, <2>2, <2>3, <3>1, <3>2, <3>3 DEF RecordInv
  <2>5. CASE returned[id] # 0
    <3>1. /\ UNCHANGED <<arrive, rtts, came, waited, took>>
          /\ \A i \in Ids : returned'[i] > 0 => returned[i] > 0
      BY <1>4, <2>0, <2>5, ReadAgain
    <3> QED BY <1>i, <2>1, <2>3, <3>1 DEF RecordInv, ReadAt
  <2> QED BY <2>4, <2>5
<1>5. CASE Close
  BY <1>5, <1>i DEF Close, RecordInv, ReadAt, timeVars, history
<1>6. CASE Deliver
  BY <1>6, <1>i DEF Deliver, RecordInv, ReadAt, timeVars, history
<1>7. CASE Tick
  <2>1. \A i \in Ids :
          /\ came[i] <= now => came[i] <= now + 1
          /\ ReadAt(i) <= now => ReadAt(i) <= now + 1
    BY <1>0 DEF TypeInv, TimeTypes, ReadAt
  <2>2. /\ now' = now + 1
        /\ UNCHANGED <<pc, n_outstanding, returned, start, arrive, rtts, sent, came, waited, took>>
    BY <1>7 DEF Tick, timeVars, history
  <2>3. \A i \in Ids : ReadAt(i)' = ReadAt(i)
    BY <2>2 DEF ReadAt
  <2>4. Held' => \A i \in Ids : returned'[i] > 0 =>
          /\ came'[i] <= now' /\ sent' <= ReadAt(i)' /\ ReadAt(i)' <= now'
          /\ arrive'[i] = (start' + ReadAt(i)') % WordModulus
    <3> SUFFICES ASSUME Held, NEW i \in Ids, returned[i] > 0
                 PROVE  /\ came[i] <= now + 1 /\ sent <= ReadAt(i) /\ ReadAt(i) <= now + 1
                        /\ arrive[i] = (start + ReadAt(i)) % WordModulus
      BY <2>2, <2>3
    <3>1. /\ came[i] <= now /\ sent <= ReadAt(i) /\ ReadAt(i) <= now
          /\ arrive[i] = (start + ReadAt(i)) % WordModulus
      BY <1>i DEF RecordInv
    <3> QED BY <2>1, <3>1
  <2>5. /\ pc' \in {"compose", "transmit"} =>
             \A i \in Ids : i < n_outstanding' => returned'[i] = 0
        /\ \A i \in Ids : returned'[i] > 0 => rtts'[i] = took'[i]
    BY <1>i, <2>2 DEF RecordInv
  <2> QED BY <2>4, <2>5 DEF RecordInv
<1>8. CASE UNCHANGED vars
  BY <1>8, <1>i DEF vars, RecordInv, ReadAt, timeVars, history
<1> QED BY <1>1, <1>2, <1>3, <1>4, <1>5, <1>6, <1>7, <1>8 DEF Next, Finished

LEMMA NextOrder ==
  TypeInv /\ TimeInv /\ [Next]_vars => OrderInv'
<1> SUFFICES ASSUME TypeInv, TimeInv, [Next]_vars PROVE OrderInv'
  OBVIOUS
<1>0. /\ now \in Nat /\ socket \in Seq(Replies) /\ came \in [Ids -> Nat]
      /\ returned \in [Ids -> Nat] /\ n_outstanding \in 0 .. NPackets
  BY ConstantTypes DEF TypeInv, EngineTypes, PacketTypes, TimeTypes
<1>i. OrderInv /\ RecordInv /\ QueueInv
  BY DEF TimeInv
<1> USE DEF Held
<1>1. CASE RprobeEntry \/ Compose
  BY <1>1 DEF RprobeEntry, Compose, OrderInv
<1>2. CASE Transmit
  <2>1. CASE SendsMore
    BY <1>2, <2>1 DEF Transmit, OrderInv
  <2>2. CASE ~SendsMore
    <3>1. \A i \in Ids : i < n_outstanding
      BY <1>0, <2>2, ConstantTypes DEF SendsMore, Ids
    <3>2. \A i \in Ids : returned[i] = 0
      BY <1>2, <1>i, <3>1 DEF Transmit, RecordInv
    <3> QED BY <1>2, <3>2 DEF Transmit, OrderInv
  <2> QED BY <2>1, <2>2
<1>3. CASE RecvIcmp
  <2>0. PICK id \in Ids : id = Head(socket).outpack.seq
    BY <1>3, ReadReply
  <2>1. pc = "receive" /\ pc' = pc
    BY <1>3 DEF RecvIcmp
  <2>2. /\ 1 \in 1 .. Len(socket) /\ Len(socket') = Len(socket) - 1
        /\ \A k \in 1 .. Len(socket') :
             socket'[k] = socket[k + 1] /\ k + 1 \in 1 .. Len(socket) /\ 1 <= k + 1
    BY <1>0, <1>3 DEF RecvIcmp
  <2>3. \A k \in 1 .. Len(socket') : socket[1].came <= socket'[k].came
    BY <1>i, <2>2 DEF QueueInv
  <2>4. CASE returned[id] = 0
    <3>1. /\ ReadAt(id)' = now /\ came'[id] = socket[1].came
          /\ \A i \in Ids \ {id} :
               returned'[i] = returned[i] /\ came'[i] = came[i] /\ ReadAt(i)' = ReadAt(i)
      BY <1>3, <2>0, <2>4, ReadNow
    <3>2. \A i \in Ids \ {id} : returned'[i] > 0 =>
            /\ came'[i] <= came'[id] /\ ReadAt(i)' <= ReadAt(id)'
            /\ \A k \in 1 .. Len(socket') : came'[i] <= socket'[k].came
      BY <1>i, <2>1, <2>2, <3>1 DEF OrderInv, RecordInv
    <3>3. came'[id] \in Nat /\ \A i \in Ids \ {id} : came'[i] \in Nat
      <4>1. socket[1] \in Replies
        BY <1>0, <2>2
      <4> QED BY <1>0, <3>1, <4>1 DEF Replies
    <3>4. \A i \in Ids \ {id}, j \in Ids \ {id} :
            returned'[i] > 0 /\ returned'[j] > 0 /\ came'[i] < came'[j] => ReadAt(i)' <= ReadAt(j)'
      BY <1>i, <2>1, <3>1 DEF OrderInv
    <3>5. \A i \in Ids, j \in Ids :
            returned'[i] > 0 /\ returned'[j] > 0 /\ came'[i] < came'[j] => ReadAt(i)' <= ReadAt(j)'
      <4> TAKE i \in Ids, j \in Ids
      <4> HAVE returned'[i] > 0 /\ returned'[j] > 0 /\ came'[i] < came'[j]
      <4>1. CASE i # id /\ j # id
        BY <3>4, <4>1
      <4>2. CASE i # id /\ j = id
        BY <3>2, <4>2
      <4>3. CASE i = id /\ j # id
        BY <3>2, <3>3, <4>3
      <4>4. CASE i = id /\ j = id
        BY <3>3, <4>4
      <4> QED BY <4>1, <4>2, <4>3, <4>4
    <3>6. \A i \in Ids : returned'[i] > 0 => \A k \in 1 .. Len(socket') : came'[i] <= socket'[k].came
      BY <2>3, <3>1, <3>2
    <3> QED BY <3>5, <3>6 DEF OrderInv
  <2>5. CASE returned[id] # 0
    <3>1. /\ UNCHANGED <<came, waited>>
          /\ \A i \in Ids : returned'[i] > 0 => returned[i] > 0
      BY <1>3, <2>0, <2>5, ReadAgain
    <3> QED BY <1>i, <2>1, <2>2, <3>1 DEF OrderInv, ReadAt
  <2> QED BY <2>4, <2>5
<1>4. CASE Close
  BY <1>4, <1>i DEF Close, OrderInv, ReadAt, timeVars, history
<1>5. CASE Deliver
  <2>1. PICK p \in net :
          /\ socket' = IF pc = "caller" THEN socket
                       ELSE Append(socket, [outpack |-> p.outpack, came |-> now])
          /\ UNCHANGED <<pc, returned, came, waited>>
    BY <1>5 DEF Deliver, history
  <2>2. CASE pc = "caller"
    BY <1>i, <2>1, <2>2 DEF OrderInv, ReadAt
  <2>3. CASE pc # "caller"
    <3>1. \A k \in 1 .. Len(socket') :
            IF k <= Len(socket)
              THEN k \in 1 .. Len(socket) /\ socket'[k] = socket[k]
              ELSE socket'[k].came = now
      BY <1>0, <2>1, <2>3
    <3> QED BY <1>i, <2>1, <3>1 DEF OrderInv, RecordInv, ReadAt
  <2> QED BY <2>2, <2>3
<1>6. CASE Tick
  BY <1>6, <1>i DEF Tick, OrderInv, ReadAt, timeVars, history
<1>7. CASE UNCHANGED vars
  BY <1>7, <1>i DEF vars, OrderInv, ReadAt, timeVars, history
<1> QED BY <1>1, <1>2, <1>3, <1>4, <1>5, <1>6, <1>7 DEF Next, Finished

LEMMA TimesKept == Spec => []TimeInv
<1>1. TypeInv /\ TimeInv /\ [Next]_vars => TimeInv'
  BY NextStamps, NextQueue, NextRecords, NextOrder DEF TimeInv
<1> QED BY <1>1, InitTimes, Typed, PTL DEF Spec

\* For every length of a train, over every roll-over of the clock and wherever the
\* process is delayed: round trip times are the ages of the stamps, no reply is
\* stamped before the train is out, and a gap is the time between two replies plus
\* what the second waited, less what the first did.
THEOREM Times == Spec => []TimesTrue
<1>1. TypeInv /\ TimeInv => TimesTrue
  <2> SUFFICES ASSUME TypeInv, TimeInv PROVE TimesTrue
    OBVIOUS
  <2>0. /\ now \in Nat /\ sent \in 0 .. now /\ now <= MaxTime /\ start \in Nat
        /\ came \in [Ids -> Nat] /\ waited \in [Ids -> Int]
    BY ConstantTypes DEF TypeInv, EngineTypes, TimeTypes
  <2>1. \A i \in Ids : returned[i] > 0 => rtts[i] = took[i]
    BY DEF TimeInv, RecordInv
  <2>2. Held => \A i \in Ids : returned[i] > 0 => sent <= came[i] + waited[i]
    BY DEF TimeInv, RecordInv, ReadAt
  <2>3. ASSUME Held, NEW i \in Ids \ {0},
               returned[i - 1] > 0, returned[i] > 0, came[i - 1] < came[i]
        PROVE  (arrive[i] - arrive[i - 1]) % WordModulus
                 = (came[i] - came[i - 1]) + waited[i] - waited[i - 1]
    <3> DEFINE a == start + ReadAt(i)
               b == start + ReadAt(i - 1)
    <3>1. i \in Ids /\ i - 1 \in Ids
      BY ConstantTypes DEF Ids
    <3>2. /\ ReadAt(i) <= now /\ arrive[i] = a % WordModulus
          /\ sent <= ReadAt(i - 1) /\ arrive[i - 1] = b % WordModulus
          /\ ReadAt(i - 1) <= ReadAt(i)
      BY <2>3, <3>1 DEF TimeInv, RecordInv, OrderInv
    <3>3. /\ came[i] \in Nat /\ came[i - 1] \in Nat
          /\ waited[i] \in Int /\ waited[i - 1] \in Int
      BY <2>0, <3>1
    <3>4. /\ a \in Int /\ b \in Int
          /\ a - b \in 0 .. now
          /\ a - b = (came[i] - came[i - 1]) + waited[i] - waited[i - 1]
      BY <2>0, <3>2, <3>3 DEF ReadAt
    <3> HIDE DEF a, b
    <3>5. a - b \in 0 .. WordModulus - 1
      BY <2>0, <3>4, ConstantTypes
    <3>6. ((a % WordModulus) - (b % WordModulus)) % WordModulus = a - b
      BY <3>4, <3>5, ModDifference, ConstantTypes
    <3> QED BY <3>2, <3>4, <3>6
  <2> QED BY <2>1, <2>2, <2>3 DEF TimesTrue, Held
<1> QED BY <1>1, Typed, TimesKept, PTL
=============================================================================

# A TLA+ model of bprobe and cprobe

`bprobe` estimates the bottleneck bandwidth of a path and `cprobe` the available
bandwidth.  Both send trains of ICMP echo requests, record when the replies come
in, and compute a bandwidth from the gaps between neighbouring replies.  This
directory holds TLA+ modules translated from the C sources, configurations that
check them with TLC, and proofs checked with TLAPS.

Line numbers below are those of the files in `src/`.

## 1. Inventory

### Components

| part | source | state it keeps | operations |
|---|---|---|---|
| probing engine | `rprobeGuts.c`, `rprobe.h`, `ping.h` (cprobe: `SPECIALping.h`, with the same types and constants) | globals that survive a call: `TimeOutFlag`, `n_outstanding`, `returned[]`, `orderOK[]`, `arrive[]`, `depart[]`, `sumopt`, `numPaths`, the return-code flags, the pending alarm | `rprobe()`, `OldMain()`, `send_icmp()`, `recv_icmp()`, `finish()` (signal handler) |
| bprobe | `bprobe.c` | the arrays of the round, the sorted gaps, one row of readings per round, the typical gaps, the matrices for the utilization | `probeLoop()`, `computeInterArrivalGaps()`, `sortGaps()`, `histogramGaps()`, `applyMethod()`, `cleanData()` |
| cprobe | `congtool.c` | the arrays of the round, the sorted gaps, `bandwidthVector` | `probeLoop()`, `computeInterArrivalGaps()`, `sortGaps()` |
| estimate filter | `filter.c` | one set per probe size, the merged set | `applyNewGraphicalMethod()` |
| set package | `setPackage.c` | allocated lists of ranges with a count, a saved count and the identifiers of their base sets | `createSet()`, `unionSets()`, `coalesceSet()`, `adjustFuzz()`, `findPeakInSet()` |
| utilization | `util.c` | accepted readings | `calculateUtilization()` |
| lookup and output | `rprobeGuts.c` | none | `a2sockaddr()`, `pr_*()`, `OldReportResults()` |
| packets and times | `rprobeGuts.c` | `outpack`, the one buffer all packets are composed in; `this_time`, `recv_time`, `rtts[]` | `in_cksum()`, `timesub()`, `getTime()`, and their uses in `send_icmp()` and `recv_icmp()` |
| `main()`, printing | `bprobe.c`, `congtool.c` | none | argument check, one call of `probeLoop()`, formatting |
| priority, plots, build, samples | `raisePriority.c`, `plot_hist.py`, `Makefile`, `bw.txt` | none | not part of the tools' logic |

### How they interact

`main()` of either tool calls its `probeLoop()`, which calls `rprobe()` once per
packet size and gets back arrays of times and a vector of return codes.  The
engine talks to the network through a raw socket and to the kernel's timer
through `signal(SIGALRM)` and `alarm()`; the handler and the process share
`TimeOutFlag`.  `bprobe` hands its cleaned matrix of readings to the filter,
which works on the lists of the set package, and the filter's estimate and two
more matrices to the utilization.  Everything but the engine is sequential.

### Which behaviours are hard

* The engine: a round ends by counting down, or by a flag set asynchronously.
  Replies may be lost, duplicated, reordered, late (read by the next round), or
  another process's.  Nothing global is reset except what `rprobe()` and
  `OldMain()` name, and the alarm of a round that ended well stays pending.
* The numbers: times are unsigned, gaps are `int`, -1 stands for "never", and
  the loops read one slot past the train.
* The histogram doubles a bin size until it is large enough, and then until few
  enough bins are occupied.
* The clean-up removes entries of tables while it walks over them.
* The filter retries on lists that its own union changes and restores, and
  allocates and frees on every retry.
* Packets are composed in a buffer that holds the packet before, checksum and all;
  replies wait in the socket until the process gets to read and stamp them; the clock
  rolls over.

### What makes each part correct

| part | it is correct if |
|---|---|
| engine | its counter is the number of unanswered packets; a round not timed out is complete; a duplicate is reported iff there was one; what is marked "in order" is adjacent; the first time counts; every round ends, on its own timeout |
| gaps and sort | no gap to a packet that was lost gets into a result; the sort permutes, also with ties and stale array contents |
| bprobe | tables are not overrun; every gap has a bin; the typical gap is no less than the least gap and at most half a bin above the greatest; clean-up keeps exactly the good rounds, every table alike; a result is printed |
| cprobe | a reading stands for a train that came back whole and in order, and is made of its own gaps without the outliers; only clean rounds are averaged |
| filter, sets | a union counts every reading once and forgets none; its inputs are as before; an estimate is given only if there is enough data, and then also is unless readings are too far apart, at the first retry at which one cluster of the readings wins; nothing stays allocated |
| packets and times | every packet's checksum verifies; a round trip time is the age of the stamp; a gap is the time between two replies, plus what the second waited to be read, less what the first did |

`PROJECT.json` lists the hazards at their lines, and the properties meant for each.

## 2. Modules

```
  ProbeRound  <--implements--  Rprobe  <--extends--  Measure      Echo
                                 |                      |          |
                            RprobeProofs               Gaps    EchoProofs
                                                      /    \
          SortGaps -------------------------- Bprobe      Cprobe (SortGaps too)
  Clusters  <--implements--  Filter  --extends-->  SetPackage
  MCBprobe, MCCprobe, MCFilter: values for TLC

  SumsProofs, SortGapsProofs <-- GapsProofs <-- BprobeProofs, CprobeProofs
  SumsProofs <-- EchoProofs, FilterProofs
```

An arrow-less line means "uses".  `Bprobe` uses what is shown of `Rprobe` (its
`Outcomes`) and of `Filter` (what its estimate can be), so that the whole chain
is covered without composing the state spaces.

### `ProbeRound` - what a call of `rprobe()` promises

A round collects answers to a set of packets; it ends because all are answered or
because the timeout went off, and it may fail before the first answer.  No
socket, no counter, no signal.

### `Rprobe` - the probing engine

The variables have the names of the globals.  `net` is what can still reach the
socket; `alarm` is the pending alarm, by the number of the round that armed it;
`expired`, `source`, `abandoned`, `known` and `taken` are history variables that no
guard reads; the last two are the routes that earlier rounds and this one took.

| action | code |
|---|---|
| `RprobeEntry` | `rprobe()` and the head of `OldMain()`: what is reset, and what is not |
| `OpenSocket`, `SetupFails` | lookup, `socket()`, `setsockopt()` and their exits |
| `SendIcmp`, `SendDone` | the send loop; the network answers with 0 to `MaxCopies` replies |
| `Arm` | `signal()` and `alarm()` |
| `Test`, `EnterRecvfrom` | the `while` condition and the entry of `recvfrom()` - two steps, because the signal may fall between them |
| `Accept`, `Refuse` | the return of `recvfrom()`, `recv_icmp()` and the loop body |
| `Close` | the end of `OldMain()` and the copy to the caller; packets may be dropped while no socket is open |
| `AlarmFires` | `finish()`, at any step |
| `ForeignPacket` | a reply meant for someone else, or an ICMP packet that is no reply |

Whether a signal makes `recvfrom()` return is the platform's choice
(`RestartSyscalls`), and so is `-DFLAGANYREORDERING` that of the build.

### `Echo` - packets and times

The level below `Rprobe`: what is written into an echo request, and when.  `Rprobe`
has the signals, the errors and the foreign packets, and orders arrivals by rank;
`Echo` leaves those away and has the bytes and the clock.

| action | code |
|---|---|
| `RprobeEntry` | the arrays `rprobe()` and `OldMain()` fill in before sending |
| `Compose` | the send loop's body and `send_icmp()` up to the checksum: sequence number, time stamp and length go into the shared buffer, `in_cksum()` runs over it |
| `Transmit` | the rest of `send_icmp()`: the clock is read again for `depart[]`, and the packet leaves |
| `RecvIcmp` | `recv_icmp()` reads the oldest waiting reply, reads the clock, subtracts the stamp; the loop keeps the first reply of a packet |
| `Close` | all answered, or given up; waiting replies go with the socket |
| `Deliver`, `Tick` | the network brings a reply to the socket; time passes, between any two steps |

A byte has `ByteModulus` values, a word the square of it; the clock and the time
stamp, eight bytes in the code, are one word, so that the clock of the model rolls
over.  The pattern behind the stamp, the two foldings and the complement are those
of the code.  `SentPacketsVerify` adds the bytes up in another way, as a receiver
would: each byte by itself, every other one as the high byte of a word.

Nothing ties time to the process: a reply may wait in the socket not only while the
train is being sent, but whenever the process is kept from reading.  The engine
sleeps in `recvfrom()` and reads the clock after it (`rprobeGuts.c:610`, 616), prints
between reads in a debug build (383), and its real-time priority is commented out
(123).  `waited` records how long the reply that counts for a packet has waited.

### `Gaps`, `SortGaps` - shared by both tools

The pairs that are measured, the conversion of a difference of unsigned longs to
`int`, and the counting sort by position.  Both are constant-level modules.

### `Measure` - the engine and the gaps

Puts bprobe's choice of pairs, and cprobe's with its sort and sum, on top of `Rprobe`,
so that flags left over by earlier rounds are the ones the engine really leaves, and
so are the losses.  The slot past the train is 0, which is the best case.

### `Cprobe`, `Bprobe` - the probe loops

One action per stretch of straight code between two decisions (`Probe`,
`ComputeInterArrivalGaps`, `ProcessRound`, ...), one per iteration of a loop
whose end is in question (`WidenBins`, `CompressBins`, `RemoveRound`,
`KeepRound`).  A call of `rprobe()` returns any element of `Outcomes` or
exits the process.  Bandwidths are kept as pairs of numerator and denominator and
compared by cross-multiplication; bin sizes are whole numbers of hundredths, so
that `gapRange / 100.0`, the doubling and the rounding are exact.

### `Clusters` - what the filter computes

The readings of all probe sizes are points.  A try widens every point by its share,
lets the readings of one size that meet grow together, and looks at the clusters
of all of them; the first try at which one cluster has more readings than any
other, enough, and from enough sizes, gives the answer.  `Succeed`, `Fail` and
`GiveUp` are whole tries: no lists, no pieces, no counts put aside.  Clusters are
defined by where they begin and end, not by walking over a list.

### `SetPackage`, `Filter` - the estimate

Elements are records, sets are sequences in list order; `unionSets()` is a step
per iteration of its three loops, because it changes both input lists as it
goes.  Ends of ranges count in units of 1/`FuzzRounds`, which makes the
increments of `adjustFuzz()` whole (see section 6 for what the code's floats do
instead).  List order inside the identifier lists
depends on addresses; `NeverAddsAtEnd` is stated for every order.

`blocks` counts the sets and elements that are allocated: createSet(), makeSet(),
makeElement() and copyElement() add to it, coalesceSet(), destroySet() and
destroyList() take away.  `DestroySets` is the clean-up at the end.

`Filter` implements `Clusters`: readings are its samples, the peak its answer; a
round under way (`pc` in `"union"` or `"merge"`) is a try not yet completed, and
the method is over when only the clean-up is left.

## 3. Runs

| run | question | answer |
|---|---|---|
| `rprobe` | Is the engine's bookkeeping exact under late and unread replies, foreign packets, record routes and an alarm at any moment?  Does it implement `ProbeRound`, does a late reply need an abandoned round, is reordering reported with `-DFLAGANYREORDERING`?  With interruptible calls and every request answered, does every round end? | yes, 12 properties |
| `rprobe_hang` | Does a round always end when replies may be lost? | no: with restarted system calls it waits for ever |
| `rprobe_stale_alarm` | Is a timeout always the round's own? | no: a left-over alarm ends the next round |
| `rprobe_sibling` | Are replies to other processes kept apart? | no: the check is commented out |
| `rprobe_paths` | Does `numPaths` say how many paths the packets of a round took? | no: a route known from an earlier round is not counted |
| `echo` | Does every packet leave with a valid checksum, whatever was in the buffer?  What are round trip times and gaps, across a roll-over of the clock and for a process that is delayed anywhere? | 3 properties hold |
| `measure_lost_pair` | Is the gap to a lost packet kept out, by the check of bprobe, the check of cprobe, or as an outlier of cprobe's? | no, by none of the three: it is measured by both, is the highest gap and is summed up |
| `cprobe` | Over all arrival patterns of a train, what do a reading and the average stand for? | 6 properties hold |
| `bprobe` | Sort, histogram, typical gap, clean-up, table bounds, end of the histogram | 8 properties hold |
| `bprobe_equal_gaps` | Does a run always report? | no: equal gaps loop for ever |
| `bprobe_misaligned` | Is a reading compared with its own round's load? | no: two matrices are not cleaned |
| `filter` | Does the union count exactly, restore its inputs and free what it allocates?  Does the method implement `Clusters`, and find an estimate, with a try to spare, when there is enough data within reach? | yes, 11 properties |

`HistogramEnds` (holds) and `AlwaysReports` (violated) are two sides of the same
loop: it ends if and only if not all gaps are equal.

### Bounds, and why they are enough

* **Rprobe**: 3 packets, 2 rounds, at most one reply per request plus two foreign
  packets.  Three packets are the least for "adjacent", "in between" and
  "reordered"; two rounds are the least for anything left over.  A foreign reply
  answers the middle packet, which has a predecessor and a successor; with the own
  reply it makes a duplicate.  Two of them, with the same route or none, are the
  least for a route that is seen again.  `RprobeProofs` removes these bounds for
  all the safety properties.  The runs that end in a counterexample use one or two
  packets, but for `measure_lost_pair`.
  In `rprobe`, `CanLose = FALSE` and `RestartSyscalls = FALSE` are there for `RoundEnds`,
  which is false otherwise (`rprobe_hang`).  Safety loses nothing by them.  A reply
  that is on its way for ever is as good as lost, and `Close` may drop any of those;
  and what restarted calls add is that a signal leaves the process in `recvfrom()`,
  where a signal before `EnterRecvfrom` leaves it too.
* **Measure**: 4 packets, 2 rounds and no foreign packets; an 8-bit clock that is at
  230 when a round begins, and 6-bit ints, so that the gap to -1 is one of an ordinary
  size, greater than the gaps between packets that arrived.
* **Cprobe**: 4 packets, 2 sizes, arrival times 1, 2, 4, 7 or lost in every
  combination (so: ties, reordering, any loss), any return codes, junk of 0 or 9
  behind the train, 8-bit times and 6-bit ints.  Four packets give three gaps, the
  least with a low, a middle and a high one.  Reordering or duplicates alone make
  cprobe skip the round, so the combination of both return codes is left out.
* **Bprobe**: trains of 6 packets, three sizes (124, 162, 276) and a table of four
  rows, at most 4 occupied bins instead of 7.  A round is one of two dozen chosen outcomes:
  spread, nearly equal, equal, ascending, lossy with and without a stale order
  flag, reordered, duplicated, out of order, empty, zero and large departure gaps,
  and two kinds of junk behind the arrays.  They make the histogram compress, reach
  fewer than three bins, and skip rounds first, in the middle and last.
* **Filter**: every matrix of four rows with up to three readings of {1, 5, 11, 12},
  six in all and at most one in the row that is united last, and 6 fuzz rounds instead
  of 5000.  Three rows make the merged set an input of a union, a fourth makes it one
  that was united before and is freed; the values make ranges touch, nest and
  overlap: 11 and 12 in the first round, 5 and 11 and 5 and 12 in the third, 1 and 5
  in the fourth, 1 and 11 in the fifth - just within reach of each other - and 1 and
  12, out of reach, in the sixth.
* **Echo**: two rounds of two packets with 4 or 5 bytes of data (an even and an odd
  sum), bytes of four values, so words of 16; a clock that starts at 14 and runs for
  three ticks, past the roll-over; process ids 3 and 4, of which 4 makes the folding
  carry twice.  Two rounds are the least for a late reply, two packets for a gap and
  for a buffer in use.  That measurements are less than a turn of the clock apart is
  the assumption the comment on `timesub()` makes (`EchoAssumption`).

### Fairness

`Rprobe!FairSpec` has weak fairness of the process - the scheduler runs it, and a
packet that waits in the socket is read - and of the alarm: the kernel delivers a
pending SIGALRM.  Nothing obliges other processes to send.  `Bprobe` and `Filter`
have weak fairness of their one sequential process.  `Rprobe!Spec`, `Cprobe!Spec`,
`Measure`, `Echo` and `Clusters` have none; only safety is asked of them.  That
`Filter` ends is its own property `Ends`.

`CHECK_DEADLOCK FALSE` stands in the runs in which a lost reply and a fired alarm
leave the process in `recvfrom()` with nothing to come, the very behaviour that
`rprobe_hang` is about: `rprobe_hang` and `measure_lost_pair`.
Everywhere else TLC checks that the process can go on until it has finished.

## 4. Proofs

**`RprobeProofs`** - for every number of packets, rounds, copies and foreign
packets.  The argument is a chain of inductive invariants:

1. `TypeInv`: types, and where the counter can be at each `pc` (`Control`).
   Gives `TypeCorrect`.
2. `TimerInv`: an alarm of an earlier round is pending only before `Arm`, and the
   flag it raised sends the loop straight to `Close`.  Gives `StaleTimeout`.
3. `OrderInv`: a recorded arrival has been counted in `returned`, and without
   duplicates the packet read last is the latest arrival (its rank is `ticks`), so
   that the next packet in sequence gets the rank after it.  Gives `OrderedPairs`,
   which is the assumption `Bprobe` makes of its outcomes (`BprobeAssumption`).
4. `CountInv`: packets in `net` belong to the train, the packets sent so far are
   unanswered, a packet counted in `returned` has its arrival recorded, and the
   counter and the duplicate flag agree with `returned`.  `OutstandingExact` alone is not inductive
   during the send loop, where the counter runs the other way.  Gives
   `Outstanding`, `Duplicates` and `Complete`.
5. `OwnInv`: while no round has been given up, the replies in the network are to
   this round's unanswered requests.  Closing a round keeps it because a round not
   timed out is complete (4), so that nothing of it is left to come.  Gives
   `LateReplies`, if replies are not duplicated (`MaxCopies = 1`) and none are
   another process's: from the first foreign packet that could be taken for an own
   reply on, nothing is claimed (`Undisturbed`, `StaysDisturbed`).
6. `Refinement`: initial states map to initial states, every step to a step of
   `ProbeRound` or a stutter.

Beside the chain: `FirstArrivals`, an action property, from 3; `Paths`, from
`PathInv` (`sumopt` holds exactly the routes of this round and of all earlier ones,
so that a route is counted when it is neither); `InOrder`, from `PrefixInv` (while the flag is up, exactly
the packets up to `lastPacketId` have been read, each once and in its turn).

The theorems of 4 to 6 assume `SiblingSeqs \subseteq Ids`: a foreign reply with a
sequence number behind the train, but within the arrays, is counted off like an
own one, and then they are false.  That is a consequence of the missing id check.
Those of 1 to 3 and those beside the chain need no assumption beyond
`ConstantsAssumption`.

**`EchoProofs`** - for every size of a byte, length of a train, size of the data
and run of the clock:

1. Arithmetic.  `TwoFoldings`: folding a sum below `WordModulus ^ 2` twice leaves
   its remainder modulo `WordModulus - 1` and a value that fits a word.
   `ChecksumVerifies`: a sum and its `InCksum` add up to a multiple of
   `WordModulus - 1`.  `ModDifference`: a difference of clock values is the time
   that passed, if that is less than a turn.  They rest on `DivMod` and
   `ModUnique` of `SumsProofs`, since the provers know little of a remainder by a
   variable.
2. `TypeInv`: types of the engine, the packets and the times.  Gives `TypeCorrect`.
3. `SumInv`: a packet in the buffer after `Compose`, or in the network, adds up to a
   multiple of `WordModulus - 1`, whatever the buffer held before.  That the
   receiver's sum, byte by byte, is the sum over the words is an induction over the
   length of the pattern (`SumByPairs` of `SumsProofs`).  Gives `ChecksumsVerify`.
4. `StampInv` (a stamp tells when the packet was composed), `QueueInv` (a reply that
   waits came in before now, and replies wait in the order they came), `RecordInv`
   (what the arrays hold of an answered packet: its arrival time is when it came plus
   what it waited) and `OrderInv` (of two answered packets, the one that came first
   was read first).  Give `Times`; nothing is assumed of how soon the process reads.

The assumptions are `EchoAssumption` - measurements are less than a turn of the clock
apart - and `AccumulatorAssumption`: a packet has fewer words than a word has values,
which is what "using a 32 bit accumulator" (`rprobeGuts.c`, `in_cksum()`) relies on.

**`SumsProofs`** - lemmas about the sums the models take over finite sets of indices
(`SumFunctionOnSet`): the sum is well defined (`SumExists`, `SumUnique`), an index can
be taken out or put in wherever it stands in the order (`SumRemove`, `SumAdd`), and
what follows: bounds, disjoint sets, renamed indices, a sum of differences
(`SumTelescopes`), a sum over pairs (`SumOfPairs`).  The induction is over sets of
naturals or sets of sets (`AllNaturals`, `AllSubsets`): the property is turned into
the set of what has it, so that no lemma needs an operator for a parameter.

**`SortGapsProofs`** - for every length and every gaps: the positions are a
permutation, ties included (`PositionsPermute`), the result ascends and leaves the
rest of the array alone (`SortByAscends`), and two arrays sorted by the first keep
every pair as often as it occurred (`SortKeepsTogether`).  A gap's position is the size of the set of gaps before it, and
these sets are strictly nested.

**`GapsProofs`** - lemmas: there is a k-th measured pair for every k below their
number, and it gives an int; a set of numbers without a least element is empty
(`NoLeast`, which stands in for inductions over the train).

**`CprobeProofs`** - for every train, range of sizes and result of `rprobe()`:

1. `TypeInv`, with `ScheduleInv`: `probeSize = FirstSize + 100 * pass`, so that a
   pass below `LastSize` has its entry in `bandwidthVector`.  Gives `TypeCorrect`.
2. `ReadingInv`: entries from this pass on are empty until `Estimate`; a reading
   belongs to a clean pass; the one just taken has all its pairs, and these are the
   measured pairs of the arrivals still in the array.  Gives `Averages`;
   `LostPacketsFew`, since a lost packet is never the first of a pair, and if the slot
   past the train was not measured, the pairs are all neighbours of the train
   (`AllNeighbours`), so that every packet but the last is the first of one; and
   `CompleteInOrder`, by the same lemma.
   `LossOnlyAtEnd` alone is not inductive: without the emptiness of later entries
   a skipped round would inherit a reading.
3. `Sorted` from `SortKeepsTogether`.
4. `SpanInv`: the round's gaps are those of its arrivals, the sorted ones are the same
   gaps in another order, and the reading is the sum from the second sorted one on.  Gives
   `ReadingsSpan`: in a complete round the gaps are those of neighbours, and the sum is
   that of the pairs that the sort put there (`SumButFirst`).  It uses `ShortRoundsAssumption`, that
   a round lasts less than half the range of an `int` of microseconds (half an hour),
   without which a gap would wrap.

**`BprobeProofs`** - with the source's sizes (124 to 1400) and a table of at
least seven rows, no round is stored behind its end (`RoundsFitTables`).  `SizeInv`
ties the pass to the size of the schedule 124, 162, 276, 358, 608, 790, 1344.
For every train, `BinInv` bounds the gaps by the first and last sorted one and keeps
the bin width positive; it gives `SortedTogetherAlways` and, since rounding is
monotone (`InBinsMonotone`), `BinsAllocated`.  `KeptInv` gives `CleanKeeps`: there is
an increasing listing of the rows with a gap that agrees with `kept`, and its first
`clean` entries are in their final places; adding a row extends the listing
(`ListsAdd`), removing one shifts it (`ListsRemove`).  It needs the rounds to fit the
tables, and so the sizes of the source.  `EstimatesWithin`: the middle of the gaps in
the fullest bin exists (`MiddleExists`); none of it is below the least gap of the round
or more than half a bin above the greatest, and so neither is their average.  `TableInv`: rows hold positive bandwidths in
descending order, since they are taken from ascending gaps, entry by entry
(`NthAscends`, `PlausibleRow`).  Gives `TypeCorrect` and `RowsDescend`, which is what
`Filter` assumes of its input.

**`FilterProofs`** - for every matrix with descending rows, every `FuzzRounds`,
`MinPeakSize` and `MinNumSets`.  What the properties say of the merged set at the end
of a round is not inductive: `unionSets()` works its way through two lists, puts
counts aside in them and leaves pieces behind.  The invariants say what every list
stands for at every iteration:

1. `MethodInv`.  A list is `Exact` for a set of readings when every reading lies in
   exactly one element and each element counts its own, now or once it is restored
   (`Whole`).  `BaseSet`: a set of readings before the first widening is what
   `createSet()` made, and later exact for its row, with ends where the widening puts
   them.  `UnionInv`: the pieces so far are exact for what the two cursors have
   passed, cover what has been passed, and have not reached what lies ahead
   (`Frontier`); a count of zero marks the one element at a cursor whose readings are
   in the last piece already.  `MergeInv`: between unions nothing is put aside and the
   merged set covers the sets merged so far.  The lemmas follow the code:
   `CoalesceExact` (an induction over the list, `CoalesceSteps`), `AdjustFuzzExact`,
   `Carried`, `Met` (one iteration of each loop), `Completed` (the end of a union).
   Gives `MethodCorrect`, `InputsSurvive`, `MergedCountsCorrect`,
   `AlwaysRecoverable`, `UnionsAreComponents`, `EstimateCorrect`, and
   `NeverHappens`: the position `addElement()` falls back on, "AT END", is never taken.
2. `StateInv` and `BlocksInv`: types, and which sets are allocated at each point - the
   base sets always (`Held`), the pieces and the first input while a union runs, the
   merged set and the set of peaks until the clean-up.  Give `TypeCorrect` and
   `NothingIsLeaked`.
3. `DataInv`: there is a peak only if there are enough readings in enough rows; and
   with enough of them within reach of each other, no round begins after the last but
   one.  In that round the greatest reading has come down to a step of its own and the
   least has risen by all of its steps but one: they meet (`StepsMeet`), so one element
   holds all (`OneInReach`).  Gives `EstimateWhenever`.
4. `Refinement`: `Filter` implements `Clusters`.  `ClustersAre`: a list of ranges that
   are apart and cover what a set of ranges covers consists of that set's clusters,
   although clusters are defined by where they begin and end.  So coalescing is
   joining (`CoalesceJoins`), the base sets are the ranges of their rows at every try
   (a conjunct of `BaseSet`, by `RangesGrow`), and the merged set is made of the
   clusters of all (`UnitedClusters`).  By 1 it counts what they count
   (`CountIsExact`), and the one peak is the cluster that wins (`WinnerIsPeak`).

The assumptions are `FilterAssumption`: the rows descend, which `RowsDescend` shows of
`Bprobe`'s, and the mark of an unknown set number is no set number; and
`FuzzAssumption`: there are two tries at least.

Model-checked only: liveness (`RoundEnds`, `HistogramEnds`, `Ends`), which is out of
the prover's reach.  Every other property of a passing run is a theorem.

## 5. Where the code disagrees with itself

Seven runs end in a counterexample, each to what the repository says:

* a lost reply can block a round for ever, "not going to wait forerever here";
* a left-over alarm ends the next round, against "minimum timeout in seconds";
* replies to other processes are taken, against "without having intermingled output";
* a route known from an earlier round is not counted by "how many paths did the
  packets take ?";
* a lost packet passes "check that no rollover or timeout occurred", in bprobe and in
  cprobe, and its gap, though it is the highest, is not one of those that "remove hi
  and low outliers" of cprobe leaves out: only the lowest is (`congtool.c:223`).  One
  run refutes the three sentences; each is a finding of its own;
* equal gaps keep bprobe from printing the line that README promises;
* after clean-up, "check that offered load was high enough to saturate" looks at
  another round's load.

Met while reading and not the subject of a run: the comment at `bprobe.c:319` says
factors 1.5 and 2.5 where the code has 1.3 and 1.7; `main()` of bprobe drops its
privileges (`bprobe.c:95`) before the raw socket is opened.  The properties of the
passing runs do not take the code's side in these: `LossOnlyAtEnd` leaves open what a
lost last packet does, `ReadingOfOwnGaps` which gaps are outliers, and `PathsWereNew`
says what the counter counts, `PathsTaken` what it is to count.

## 6. Not modelled

* Sequence numbers of `MAX_PROBES` and more, which index behind the arrays: the
  effect depends on the memory layout.  `Rprobe` assumes them away, by name
  (`ConstantsAssumption`).
* `printf()` inside the signal handler: what it does depends on the lock inside the
  C library, which is not part of the repository.
* The conversion of a very large estimate to `int` (`bprobe.c:127`), which is
  undefined; `main()` prints 0.0 if the result is negative.
* Rounding of floats.  All quotients are exact, and so are the ends of ranges.  In the
  code `adjustFuzz()` adds and subtracts a rounded increment up to 5000 times.  In the
  last try a low end should be zero and is not: it is off by up to half a step (a step
  is a 5000th of the reading), a high end by up to two.  A range may therefore meet
  another a try or so earlier or later than in `Filter`.  Where it matters is with
  readings about 10000 times as large as others, which meet in the last try or not at
  all: six of 671058823 bps and one of 8300 bps are enough data, but the large ones only
  come down to 16800 and the small one only gets up to 16600, and the method returns 0.0
  (in `Filter` it finds a peak in that try).  `EnoughDataSuffices` is stated so as not to
  depend on this.  It says nothing of readings more than 2 * 5000 - 1 times as large as
  others, and has the rest meet before the last try; rounding may put that off into the
  last try, but no further, since the low ends are within half a step of zero then.
  `ApplyNewGraphicalMethod` in `Bprobe` may find no estimate
  even from enough data.
* `bytes[]`, a copy of the sizes.
* The record-route option and errors in `Echo`: they are `Rprobe`'s.
* The one set left allocated when the filter returns early because there is no second
  one (`filter.c:161`), and the nodes of identifier lists, which are freed with their
  element: `blocks` counts sets and elements only, and `NothingLeaks` names the first.
* Averages in `calculateUtilization()`, which nobody reads.
* Lookup, formatting and printing, `main()`; functions without a caller
  (`intersectSets()`, `clearFuzz()`, test, dump and matrix I/O functions);
  `raisePriority.c`, the plotting script, the sample data.

## 7. Plan

Done, in this order: `ProbeRound` and `Rprobe` with their proofs; `Gaps`,
`SortGaps`, `Measure`; `Cprobe`; `SetPackage` and `Filter`; `Bprobe`; `Clusters` and
its implementation by `Filter`; `Echo`; the proofs of `Echo`, `Cprobe` and `Bprobe`;
`SumsProofs`, and with it the proofs that need sums; and the proofs of `Filter`.

To come, theorems:

1. `Measure`: that a lost packet is measured only as the end of a pair, and by bprobe
   only with a flag left over from an earlier round, from `RprobeProofs`.

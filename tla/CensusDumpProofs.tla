-------------------------- MODULE CensusDumpProofs ---------------------------
(***************************************************************************)
(* CensusDump, for any ranges, batches and bounds: the types, the order    *)
(* and number of the lines, and, for callers that tell the truth, that a   *)
(* dump ends well and lists everyone who was there all the time.           *)
(***************************************************************************)
EXTENDS CensusDump, CensusProofs

\* Every step of CensusDump is one of the census, or leaves the census alone.
LEMMA DumpStepIsCensusStep == DumpNext => [Next]_vars
BY DEF DumpNext, Methods, DumpRange, LockBatch, ReadBatch, Reader, WriteLine, EndOfDump

-----------------------------------------------------------------------------
(* Type correctness *)

\* The records dump can be.
DumpRecord ==
    [at : {"idle", "lock", "locked", "write", "failed", "closed"},
     offset : Nat, limit : Int, size : Nat, end : Int, single : BOOLEAN,
     next : Nat, batch : Seq(Participant), lines : Seq(Participant)]

\* Int64 of an integer is one, and never more than a natural it is taken of.
LEMMA Int64Typed ==
    ASSUME NEW w \in Int
    PROVE  Int64(w) \in Int /\ (w >= 0 => Int64(w) <= w)
<1>1. Int64Limit \in Nat \ {0}
  BY CensusAssumption
<1> DEFINE n == w + Int64Limit
           m == 2 * Int64Limit
<1>2. n \in Int /\ m \in Nat \ {0}
  BY <1>1
<1>3. Int64(w) = (n % m) - Int64Limit
  BY DEF Int64
<1>4. n >= 0 => n % m <= n
  <2> HIDE DEF n, m
  <2>1. SUFFICES ASSUME n \in Nat PROVE n % m <= n
    BY <1>2
  <2>2. n = m * (n \div m) + (n % m) /\ n \div m \in Nat /\ n % m \in Nat
    BY <1>2, <2>1
  <2>3. m * (n \div m) \in Nat
    BY <1>2, <2>2
  <2> HIDE <2>1
  <2> QED BY <1>2, <2>2, <2>3
<1>5. n % m \in Int
  <2> HIDE DEF n, m
  <2> QED BY <1>2
<1>6. w >= 0 => n >= 0
  BY <1>1
<1>7. n = w + Int64Limit
  OBVIOUS
<1> HIDE DEF n, m
<1> QED BY <1>1, <1>3, <1>4, <1>5, <1>6, <1>7

\* What ReadBatch reads.
BatchEnd == IF dump.single THEN dump.end ELSE Smaller(dump.next + BatchSize, dump.end)
Batch == [k \in 1..(BatchEnd - dump.next) |-> Line(dump.next + k - 1)]
WeightsThere ==
    \A i \in (dump.next..(BatchEnd - 1)) \intersect DOMAIN indexToAddress :
        indexToAddress[i] \in DOMAIN weights

\* ReadBatch in these words.
LEMMA ReadBatchDoes ==
    ASSUME ReadBatch
    PROVE  /\ dump.at = "locked"
           /\ dump' = IF WeightsThere THEN Writing(Batch) ELSE [dump EXCEPT !.at = "failed"]
           /\ UNCHANGED <<vars, stayed>>
BY DEF ReadBatch, BatchEnd, Batch, WeightsThere

\* A batch is a sequence of participants, as long as the part of the range it is for.
LEMMA BatchIsLines ==
    ASSUME TypeOK, dump \in DumpRecord, WeightsThere
    PROVE  /\ BatchEnd \in Int
           /\ Batch \in Seq(Participant)
           /\ Len(Batch) = Larger(BatchEnd - dump.next, 0)
           /\ \A k \in 1..Len(Batch) : Batch[k] = Line(dump.next + k - 1)
           /\ \A k \in 1..Len(Batch) : Line(dump.next + k - 1).index = dump.next + k - 1
<1>1. dump.next \in Nat /\ dump.end \in Int /\ BatchSize \in Nat
  BY DumpAssumption DEF DumpRecord
<1>2. BatchEnd \in Int
  BY <1>1 DEF BatchEnd, Smaller
<1> DEFINE n == Larger(BatchEnd - dump.next, 0)
<1>3. n \in Nat /\ 1..(BatchEnd - dump.next) = 1..n
  BY <1>1, <1>2 DEF Larger
<1>4. ASSUME NEW k \in 1..(BatchEnd - dump.next)
      PROVE  /\ Line(dump.next + k - 1) \in Participant
             /\ Line(dump.next + k - 1).index = dump.next + k - 1
  <2> DEFINE i == dump.next + k - 1
  <2>1. i \in dump.next..(BatchEnd - 1) /\ i \in Nat
    BY <1>1, <1>2, <1>4
  <2> HIDE DEF i
  <2>2. CASE i \in DOMAIN indexToAddress
    <3>1. indexToAddress[i] \in Address
      BY <2>2 DEF TypeOK, IsMap
    <3>2. weights[indexToAddress[i]] \in Weight
      BY <2>1, <2>2 DEF WeightsThere, TypeOK, IsMap
    <3> QED BY <2>1, <2>2, <3>1, <3>2 DEF Line, Participant, i
  <2>3. CASE i \notin DOMAIN indexToAddress
    BY <2>1, <2>3 DEF Line, Participant, i
  <2> QED BY <2>2, <2>3
<1>5. Batch = [k \in 1..n |-> Line(dump.next + k - 1)]
  BY <1>3 DEF Batch
<1>6. Batch \in [1..n -> Participant]
  BY <1>3, <1>4, <1>5
<1> HIDE DEF n
<1>7. Batch \in Seq(Participant) /\ Len(Batch) = n
  BY <1>3, <1>6
<1> QED BY <1>2, <1>3, <1>4, <1>5, <1>7 DEF n

\* A line is yet to be written exactly when there is one to write.
Pending == dump.at = "write" <=> dump.batch # <<>>

\* Writing goes on with a batch, and keeps the types.
LEMMA WritingTyped ==
    ASSUME dump \in DumpRecord, NEW batch \in Seq(Participant)
    PROVE  /\ Writing(batch) \in DumpRecord
           /\ Writing(batch).batch = batch
           /\ Writing(batch).at = "write" <=> batch # <<>>
           /\ Writing(batch).lines = dump.lines
<1>1. dump.next + BatchSize \in Nat
  BY DumpAssumption DEF DumpRecord
<1>2. <<>> \in Seq(Participant)
  BY EmptySeq
<1> QED BY <1>1, <1>2 DEF Writing, DumpRecord

\* Before the first dump, and after each.
LEMMA NoDumpTyped == NoDump \in DumpRecord
BY EmptySeq DEF NoDump, DumpRecord

\* The locals of DumpRange.
OffsetOf(start) == Larger(start, 0)
EndOf(start, limit) ==
    IF limit < 0 THEN Len(leaves) ELSE Smaller(Int64(OffsetOf(start) + limit), Len(leaves))
IsSingle(start, limit) ==
    limit >= 0 /\ Int64(EndOf(start, limit) - OffsetOf(start)) <= BatchThreshold
FirstStep(start, limit) ==
    IF /\ OffsetOf(start) < Len(leaves)
       /\ IsSingle(start, limit) \/ OffsetOf(start) < EndOf(start, limit)
    THEN "lock" ELSE "closed"

\* DumpRange in these words.
LEMMA DumpRangeDoes ==
    ASSUME NEW start, NEW limit, DumpRange(start, limit)
    PROVE  /\ dump' = [at |-> FirstStep(start, limit), offset |-> OffsetOf(start),
                       limit |-> limit, size |-> Len(leaves), end |-> EndOf(start, limit),
                       single |-> IsSingle(start, limit), next |-> OffsetOf(start),
                       batch |-> <<>>, lines |-> <<>>]
           /\ stayed' = DOMAIN addressIndex
           /\ UNCHANGED vars
BY DEF DumpRange, OffsetOf, EndOf, IsSingle, FirstStep, NoDump

\* Their types.
LEMMA DumpRangeTyped ==
    ASSUME TypeOK, NEW start \in Int, NEW limit \in Int
    PROVE  /\ OffsetOf(start) \in Nat /\ EndOf(start, limit) \in Int
           /\ IsSingle(start, limit) \in BOOLEAN
           /\ FirstStep(start, limit) \in {"lock", "closed"}
           /\ Len(leaves) \in Nat
<1>1. Len(leaves) \in Nat /\ OffsetOf(start) \in Nat
  BY DEF TypeOK, Larger, OffsetOf
<1>2. EndOf(start, limit) \in Int
  BY <1>1, Int64Typed DEF EndOf, Smaller
<1> QED BY <1>1, <1>2 DEF IsSingle, FirstStep

\* A dump that starts with values of the right types has the type of one.
LEMMA StartTyped ==
    ASSUME NEW at \in {"lock", "closed"}, NEW offset \in Nat, NEW limit \in Int,
           NEW size \in Nat, NEW end \in Int, NEW single \in BOOLEAN, NEW d,
           d = [at |-> at, offset |-> offset, limit |-> limit, size |-> size, end |-> end,
                single |-> single, next |-> offset, batch |-> <<>>, lines |-> <<>>]
    PROVE  d \in DumpRecord
BY EmptySeq DEF DumpRecord

\* A line that moves from the batch to the reader.
LEMMA MoveTyped ==
    ASSUME NEW w \in DumpRecord, NEW lines \in Seq(Participant), NEW d,
           d = [w EXCEPT !.lines = lines]
    PROVE  /\ d \in DumpRecord /\ d.lines = lines
           /\ d.at = w.at /\ d.offset = w.offset /\ d.limit = w.limit /\ d.size = w.size
           /\ d.end = w.end /\ d.single = w.single /\ d.next = w.next /\ d.batch = w.batch
BY DEF DumpRecord

\* The range a caller asks for is a pair of ints.
LEMMA RangeTyped == \A r \in Ranges : r[1] \in Int /\ r[2] \in Int
BY DumpAssumption

\* DumpTypeOK with Pending is inductive.
LEMMA DumpTypePreserved ==
    ASSUME TypeOK, DumpTypeOK, Pending, TypeOK', [DumpNext]_dumpVars
    PROVE  DumpTypeOK' /\ Pending'
<1>0. /\ DumpTypeOK <=> dump \in DumpRecord /\ stayed \subseteq Address
      /\ DumpTypeOK' <=> dump' \in DumpRecord /\ stayed' \subseteq Address
  BY DEF DumpTypeOK, DumpRecord
<1>1. CASE Methods
  BY <1>1, <1>0 DEF Methods, Pending
<1>2. ASSUME NEW r \in Ranges, DumpRange(r[1], r[2])
      PROVE  DumpTypeOK' /\ Pending'
  <2> DEFINE start == r[1]
             limit == r[2]
  <2>1. start \in Int /\ limit \in Int
    BY RangeTyped
  <2>2. DumpRange(start, limit)
    BY <1>2
  <2> HIDE DEF start, limit
  <2>3. stayed' \subseteq Address
    BY <2>2, DumpRangeDoes DEF TypeOK, IsMap
  <2>4. dump' \in DumpRecord /\ dump'.batch = <<>> /\ dump'.at = FirstStep(start, limit)
    <3>1. dump' = [at |-> FirstStep(start, limit), offset |-> OffsetOf(start),
                   limit |-> limit, size |-> Len(leaves), end |-> EndOf(start, limit),
                   single |-> IsSingle(start, limit), next |-> OffsetOf(start),
                   batch |-> <<>>, lines |-> <<>>]
      BY <2>2, DumpRangeDoes
    <3>2. dump' \in DumpRecord
      BY <2>1, <3>1, DumpRangeTyped, StartTyped
    <3> QED BY <3>1, <3>2
  <2>5. FirstStep(start, limit) \in {"lock", "closed"}
    BY <2>1, DumpRangeTyped
  <2> QED BY <1>0, <2>3, <2>4, <2>5 DEF Pending
<1>3. CASE LockBatch
  <2>1. dump.at = "lock" /\ dump' = [dump EXCEPT !.at = "locked"] /\ stayed' = stayed
    BY <1>3 DEF LockBatch
  <2> QED BY <1>0, <2>1 DEF DumpRecord, Pending
<1>4. CASE ReadBatch
  <2>1. CASE WeightsThere
    <3>1. dump' = Writing(Batch) /\ stayed' = stayed /\ Batch \in Seq(Participant)
      BY <1>0, <1>4, <2>1, ReadBatchDoes, BatchIsLines
    <3> QED BY <1>0, <3>1, WritingTyped DEF Pending
  <2>2. CASE ~WeightsThere
    <3>1. dump.at = "locked" /\ dump' = [dump EXCEPT !.at = "failed"] /\ stayed' = stayed
      BY <1>4, <2>2, ReadBatchDoes
    <3> QED BY <1>0, <3>1 DEF DumpRecord, Pending
  <2> QED BY <2>1, <2>2
<1>5. CASE WriteLine
  <2>1. /\ dump.at = "write" /\ stayed' = stayed
        /\ dump' = [Writing(Tail(dump.batch)) EXCEPT !.lines = Append(@, Head(dump.batch))]
    BY <1>5 DEF WriteLine
  <2>2. dump.batch \in Seq(Participant) /\ dump.batch # <<>> /\ dump.lines \in Seq(Participant)
    BY <1>0, <2>1 DEF DumpRecord, Pending
  <2>3. Tail(dump.batch) \in Seq(Participant) /\ Head(dump.batch) \in Participant
    BY <2>2
  <2>4. Append(dump.lines, Head(dump.batch)) \in Seq(Participant)
    BY <2>2, <2>3
  <2> DEFINE w == Writing(Tail(dump.batch))
             lines == Append(dump.lines, Head(dump.batch))
  <2>5. /\ w \in DumpRecord /\ w.batch = Tail(dump.batch) /\ w.lines = dump.lines
        /\ w.at = "write" <=> Tail(dump.batch) # <<>>
    BY <1>0, <2>3, WritingTyped
  <2>6. dump' = [w EXCEPT !.lines = lines]
    BY <2>1, <2>5
  <2>7. dump' \in DumpRecord /\ dump'.at = w.at /\ dump'.batch = w.batch
    <3>1. w \in DumpRecord /\ lines \in Seq(Participant)
      BY <2>4, <2>5
    <3> HIDE DEF w, lines
    <3> QED BY <2>6, <3>1, MoveTyped
  <2> HIDE DEF w, lines
  <2> QED BY <1>0, <2>1, <2>5, <2>7 DEF Pending
<1>6. CASE EndOfDump
  <2>1. dump' = NoDump /\ stayed' = {}
    BY <1>6 DEF EndOfDump
  <2>2. NoDump.at = "idle" /\ NoDump.batch = <<>>
    BY DEF NoDump
  <2> QED BY <1>0, <2>1, <2>2, NoDumpTyped DEF Pending
<1>7. CASE UNCHANGED dumpVars
  BY <1>0, <1>7 DEF dumpVars, Pending
<1> QED BY <1>1, <1>2, <1>3, <1>4, <1>5, <1>6, <1>7 DEF DumpNext, Reader

\* And holds before the first dump.
LEMMA DumpTypeInit == DumpInit => TypeOK /\ ImportIndexed /\ DumpTypeOK /\ Pending
<1>1. DumpInit => TypeOK /\ ImportIndexed
  BY TypeInit DEF DumpInit
<1>2. DumpInit => DumpTypeOK /\ Pending
  BY NoDumpTyped DEF DumpInit, DumpTypeOK, DumpRecord, Pending, NoDump
<1> QED BY <1>1, <1>2

\* What is typed of census and dump together.
AllTyped == TypeOK /\ ImportIndexed /\ DumpTypeOK /\ Pending

\* Together they are inductive.
LEMMA AllTypedInductive == (DumpInit => AllTyped) /\ (AllTyped /\ [DumpNext]_dumpVars => AllTyped')
<1>1. ASSUME AllTyped, [DumpNext]_dumpVars PROVE AllTyped'
  <2>1. [Next]_vars
    BY <1>1, DumpStepIsCensusStep DEF dumpVars
  <2>2. TypeOK' /\ ImportIndexed'
    BY <1>1, <2>1, TypePreserved, ImportIndexedPreserved DEF AllTyped
  <2> QED BY <1>1, <2>2, DumpTypePreserved DEF AllTyped
<1> QED BY <1>1, DumpTypeInit DEF AllTyped

\* A dump keeps its types beside any calls: every line it writes is an index with an
\* address and a weight, or an empty slot.
THEOREM DumpTyped == DumpSpec => []DumpTypeOK
<1>1. AllTyped => DumpTypeOK
  BY DEF AllTyped
<1> QED BY <1>1, AllTypedInductive, PTL DEF DumpSpec

-----------------------------------------------------------------------------
(* LinesInOrder *)

\* The lines there are, received and yet to write; and how many there will be.
Written == dump.lines \o dump.batch
Wanted == IF dump.offset < dump.size THEN Larger(dump.end - dump.offset, 0) ELSE 0

\* How far a dump has come: the lines written are the first of the range, and as many as the
\* batches before have.  The end is the one DumpRange computed.
Course ==
    /\ dump.at = "idle" => dump = NoDump
    /\ dump.at # "idle" =>
          dump.end = IF dump.limit < 0 THEN dump.size
                     ELSE Smaller(Int64(dump.offset + dump.limit), dump.size)
    /\ \A k \in 1..Len(Written) : Written[k].index = dump.offset + k - 1
    /\ Len(Written) <= Wanted
    /\ dump.at \in {"lock", "locked", "write"} =>
          /\ dump.offset < dump.size /\ dump.offset <= dump.next
          /\ IF dump.single THEN dump.next = dump.offset ELSE dump.next < dump.end
    /\ dump.at \in {"lock", "locked"} => Len(Written) = dump.next - dump.offset
    /\ dump.at = "write" => Len(Written) = Larger(BatchEnd - dump.offset, 0)
    /\ dump.at = "closed" => Len(Written) = Wanted

\* The members of two sequences in a row.
LEMMA ConcatAt ==
    ASSUME NEW S, NEW s \in Seq(S), NEW t \in Seq(S)
    PROVE  /\ Len(s \o t) = Len(s) + Len(t)
           /\ \A k \in 1..Len(s) : (s \o t)[k] = s[k]
           /\ \A k \in 1..Len(t) : (s \o t)[Len(s) + k] = t[k]
BY ConcatProperties

\* Moving the first of a sequence to the end of the one before.
LEMMA HeadMoves ==
    ASSUME NEW S, NEW s \in Seq(S), NEW t \in Seq(S), t # <<>>
    PROVE  Append(s, Head(t)) \o Tail(t) = s \o t
OBVIOUS

\* What Writing leaves alone, and when it goes on to the next batch or ends.
LEMMA WritingDoes ==
    ASSUME dump \in DumpRecord, NEW batch \in Seq(Participant), NEW w, w = Writing(batch)
    PROVE  /\ w.offset = dump.offset /\ w.limit = dump.limit /\ w.size = dump.size
           /\ w.end = dump.end /\ w.single = dump.single
           /\ w.at \in {"write", "lock", "closed"}
           /\ w.at = "write" => w.next = dump.next
           /\ w.at = "lock" => /\ ~dump.single /\ dump.next + BatchSize < dump.end
                               /\ w.next = dump.next + BatchSize
           /\ w.at = "closed" => dump.single \/ ~(dump.next + BatchSize < dump.end)
BY DEF Writing, DumpRecord

\* With the lines of a batch written or on their way, the dump is on its course.
LEMMA BatchOnCourse ==
    ASSUME dump \in DumpRecord, Course, dump.at \in {"locked", "write"},
           NEW batch \in Seq(Participant), NEW lines \in Seq(Participant),
           dump' = [Writing(batch) EXCEPT !.lines = lines],
           \A k \in 1..Len(lines \o batch) : (lines \o batch)[k].index = dump.offset + k - 1,
           Len(lines \o batch) = Larger(BatchEnd - dump.offset, 0)
    PROVE  Course'
<1> DEFINE w == Writing(batch)
<1>1. w \in DumpRecord /\ w.batch = batch /\ (w.at = "write" <=> batch # <<>>)
  BY WritingTyped
<1>2. /\ w.offset = dump.offset /\ w.limit = dump.limit /\ w.size = dump.size
      /\ w.end = dump.end /\ w.single = dump.single
      /\ w.at \in {"write", "lock", "closed"}
      /\ w.at = "write" => w.next = dump.next
      /\ w.at = "lock" => /\ ~dump.single /\ dump.next + BatchSize < dump.end
                          /\ w.next = dump.next + BatchSize
      /\ w.at = "closed" => dump.single \/ ~(dump.next + BatchSize < dump.end)
  BY WritingDoes
<1>3. dump' = [w EXCEPT !.lines = lines]
  OBVIOUS
<1> HIDE DEF w
<1>4. /\ dump'.lines = lines /\ dump'.batch = batch /\ dump'.at = w.at
      /\ dump'.offset = dump.offset /\ dump'.limit = dump.limit /\ dump'.size = dump.size
      /\ dump'.end = dump.end /\ dump'.single = dump.single /\ dump'.next = w.next
  <2>1. /\ dump'.lines = lines
        /\ dump'.at = w.at /\ dump'.offset = w.offset /\ dump'.limit = w.limit
        /\ dump'.size = w.size /\ dump'.end = w.end /\ dump'.single = w.single
        /\ dump'.next = w.next /\ dump'.batch = w.batch
    <3>1. w \in DumpRecord
      BY <1>1
    <3> QED BY <3>1, <1>3 DEF DumpRecord
  <2> QED BY <1>1, <1>2, <2>1, Zenon
<1>5. /\ dump.offset \in Nat /\ dump.size \in Nat /\ dump.end \in Int /\ dump.next \in Nat
      /\ BatchSize \in Nat \ {0} /\ dump.single \in BOOLEAN
  BY DumpAssumption DEF DumpRecord
<1>6. /\ dump.offset < dump.size /\ dump.offset <= dump.next
      /\ IF dump.single THEN dump.next = dump.offset ELSE dump.next < dump.end
      /\ dump.end = IF dump.limit < 0 THEN dump.size
                    ELSE Smaller(Int64(dump.offset + dump.limit), dump.size)
  BY DEF Course
<1>7. Written' = lines \o batch /\ Wanted' = Wanted
  <2>1. Written' = lines \o batch
    BY <1>4 DEF Written
  <2>2. Wanted' = Wanted
    BY <1>4 DEF Wanted
  <2> QED BY <2>1, <2>2
<1>8. Wanted = Larger(dump.end - dump.offset, 0)
  BY <1>6 DEF Wanted
<1>9. BatchEnd \in Int /\ BatchEnd <= dump.end
      /\ (dump.single => BatchEnd = dump.end)
      /\ (~dump.single /\ dump.next + BatchSize < dump.end => BatchEnd = dump.next + BatchSize)
      /\ (~dump.single /\ ~(dump.next + BatchSize < dump.end) => BatchEnd = dump.end)
  BY <1>5 DEF BatchEnd, Smaller
<1>10. Len(Written') <= Wanted'
  BY <1>5, <1>7, <1>8, <1>9 DEF Larger
<1>11. ASSUME w.at = "lock"
       PROVE  Len(Written') = dump'.next - dump'.offset
              /\ dump'.offset <= dump'.next /\ ~dump'.single /\ dump'.next < dump'.end
  BY <1>2, <1>4, <1>5, <1>6, <1>7, <1>9, <1>11 DEF Larger
<1>12. ASSUME w.at = "write" PROVE BatchEnd' = BatchEnd /\ dump'.next = dump.next
  BY <1>2, <1>4, <1>12 DEF BatchEnd
<1>13. ASSUME w.at = "closed" PROVE Len(Written') = Wanted'
  BY <1>2, <1>7, <1>8, <1>9, <1>13
<1>14. /\ dump'.at # "idle"
       /\ dump'.end = IF dump'.limit < 0 THEN dump'.size
                      ELSE Smaller(Int64(dump'.offset + dump'.limit), dump'.size)
  BY <1>2, <1>4, <1>6
<1>15. \A k \in 1..Len(Written') : Written'[k].index = dump'.offset + k - 1
  BY <1>4, <1>7
<1>16. dump'.at \in {"lock", "locked", "write"} =>
          /\ dump'.offset < dump'.size /\ dump'.offset <= dump'.next
          /\ IF dump'.single THEN dump'.next = dump'.offset ELSE dump'.next < dump'.end
  BY <1>2, <1>4, <1>6, <1>11, <1>12
<1>17. dump'.at \in {"lock", "locked"} => Len(Written') = dump'.next - dump'.offset
  BY <1>2, <1>4, <1>11
<1>18. dump'.at = "write" => Len(Written') = Larger(BatchEnd' - dump'.offset, 0)
  BY <1>4, <1>7, <1>12
<1>19. dump'.at = "closed" => Len(Written') = Wanted'
  BY <1>4, <1>13
<1> QED BY <1>10, <1>14, <1>15, <1>16, <1>17, <1>18, <1>19 DEF Course

\* Course holds through every step.
LEMMA CoursePreserved ==
    ASSUME TypeOK, DumpTypeOK, Pending, Course, [DumpNext]_dumpVars
    PROVE  Course'
<1>0. dump \in DumpRecord
  BY DEF DumpTypeOK, DumpRecord
<1>1. CASE UNCHANGED dump
  BY <1>1 DEF Course, Written, Wanted, BatchEnd
<1>2. ASSUME NEW r \in Ranges, DumpRange(r[1], r[2])
      PROVE  Course'
  <2> DEFINE start == r[1]
             limit == r[2]
  <2>1. start \in Int /\ limit \in Int
    BY RangeTyped
  <2>2. DumpRange(start, limit)
    BY <1>2
  <2> HIDE DEF start, limit
  <2>3. dump' = [at |-> FirstStep(start, limit), offset |-> OffsetOf(start),
                 limit |-> limit, size |-> Len(leaves), end |-> EndOf(start, limit),
                 single |-> IsSingle(start, limit), next |-> OffsetOf(start),
                 batch |-> <<>>, lines |-> <<>>]
    BY <2>2, DumpRangeDoes
  <2>4. /\ OffsetOf(start) \in Nat /\ EndOf(start, limit) \in Int /\ Len(leaves) \in Nat
        /\ FirstStep(start, limit) \in {"lock", "closed"}
    BY <2>1, DumpRangeTyped
  <2>5. Written' = <<>> /\ Len(Written') = 0
    BY <2>3 DEF Written
  <2>6. Wanted' = IF OffsetOf(start) < Len(leaves)
                  THEN Larger(EndOf(start, limit) - OffsetOf(start), 0) ELSE 0
    BY <2>3 DEF Wanted
  <2>7. FirstStep(start, limit) = "lock" =>
           /\ OffsetOf(start) < Len(leaves)
           /\ IsSingle(start, limit) \/ OffsetOf(start) < EndOf(start, limit)
    BY DEF FirstStep
  <2>8. FirstStep(start, limit) = "closed" => Wanted' = 0
    BY <2>4, <2>6 DEF FirstStep, Larger
  <2>9. 0 <= Wanted'
    BY <2>4, <2>6 DEF Larger
  <2>10. dump'.end = IF dump'.limit < 0 THEN dump'.size
                     ELSE Smaller(Int64(dump'.offset + dump'.limit), dump'.size)
    BY <2>3 DEF EndOf
  <2>11. dump'.at \in {"lock", "closed"}
    BY <2>3, <2>4
  <2>12. dump'.at = "lock" =>
            /\ dump'.offset < dump'.size /\ dump'.offset <= dump'.next
            /\ IF dump'.single THEN dump'.next = dump'.offset ELSE dump'.next < dump'.end
            /\ 0 = dump'.next - dump'.offset
    BY <2>3, <2>4, <2>7
  <2>13. dump'.at = "closed" => Wanted' = 0
    BY <2>3, <2>8
  <2> QED BY <2>5, <2>9, <2>10, <2>11, <2>12, <2>13 DEF Course
<1>3. CASE LockBatch
  <2>1. dump.at = "lock" /\ dump' = [dump EXCEPT !.at = "locked"]
    BY <1>3 DEF LockBatch
  <2>2. /\ dump'.at = "locked" /\ dump'.offset = dump.offset /\ dump'.limit = dump.limit
        /\ dump'.size = dump.size /\ dump'.end = dump.end /\ dump'.single = dump.single
        /\ dump'.next = dump.next /\ Written' = Written /\ Wanted' = Wanted
    BY <1>0, <2>1 DEF DumpRecord, Written, Wanted
  <2> QED BY <2>1, <2>2 DEF Course
<1>4. CASE ReadBatch
  <2>1. dump.at = "locked" /\ dump.batch = <<>>
    BY <1>4, ReadBatchDoes DEF Pending
  <2>2. /\ dump.lines \in Seq(Participant) /\ dump.offset \in Nat /\ dump.next \in Nat
        /\ dump.end \in Int /\ BatchSize \in Nat \ {0}
    BY <1>0, DumpAssumption DEF DumpRecord
  <2>3. Written = dump.lines
    BY <2>1, <2>2 DEF Written
  <2>4. CASE WeightsThere
    <3> DEFINE batch == Batch
    <3>1. dump' = Writing(batch)
      BY <1>4, <2>4, ReadBatchDoes
    <3>2. /\ BatchEnd \in Int
          /\ batch \in Seq(Participant)
          /\ Len(batch) = Larger(BatchEnd - dump.next, 0)
          /\ \A k \in 1..Len(batch) : batch[k].index = dump.next + k - 1
      BY <1>0, <2>4, BatchIsLines
    <3> HIDE DEF batch
    <3>3. Writing(batch).lines = dump.lines /\ Writing(batch) \in DumpRecord
      BY <1>0, <3>2, WritingTyped
    <3>4. dump' = [Writing(batch) EXCEPT !.lines = dump.lines]
      BY <3>1, <3>3 DEF DumpRecord
    <3>5. Len(dump.lines) = dump.next - dump.offset
      BY <2>1, <2>3 DEF Course
    <3>6. /\ Len(dump.lines \o batch) = Len(dump.lines) + Len(batch)
          /\ \A k \in 1..Len(dump.lines) : (dump.lines \o batch)[k] = dump.lines[k]
          /\ \A k \in 1..Len(batch) : (dump.lines \o batch)[Len(dump.lines) + k] = batch[k]
      <4>1. dump.lines \in Seq(Participant) /\ batch \in Seq(Participant)
        BY <2>2, <3>2
      <4> QED BY <4>1, ConcatAt
    <3>7. ASSUME NEW k \in 1..Len(dump.lines \o batch)
          PROVE  (dump.lines \o batch)[k].index = dump.offset + k - 1
      <4>1. Len(dump.lines) \in Nat /\ Len(batch) \in Nat /\ k \in Nat
        BY <2>2, <3>2
      <4>2. CASE k <= Len(dump.lines)
        <5>1. k \in 1..Len(dump.lines) /\ (dump.lines \o batch)[k] = dump.lines[k]
          BY <3>6, <4>1, <4>2
        <5> QED BY <2>3, <5>1 DEF Course
      <4>3. CASE k > Len(dump.lines)
        <5> DEFINE l == k - Len(dump.lines)
        <5>1. l \in 1..Len(batch) /\ k = Len(dump.lines) + l
          BY <3>6, <4>1, <4>3
        <5> HIDE DEF l
        <5>2. (dump.lines \o batch)[k] = batch[l]
          BY <3>6, <5>1
        <5>3. batch[l].index = dump.next + l - 1
          BY <3>2, <5>1
        <5>4. dump.next + l - 1 = dump.offset + k - 1
          <6>1. l \in Nat
            BY <4>1, <5>1
          <6>2. k = (dump.next - dump.offset) + l
            BY <3>5, <5>1
          <6>3. dump.next \in Nat /\ dump.offset \in Nat
            BY <2>2
          <6> QED BY <6>1, <6>2, <6>3
        <5> QED BY <5>2, <5>3, <5>4
      <4> QED BY <4>1, <4>2, <4>3
    <3>8. Len(dump.lines \o batch) = Larger(BatchEnd - dump.offset, 0)
      <4>1. dump.offset <= dump.next
            /\ IF dump.single THEN dump.next = dump.offset ELSE dump.next < dump.end
        BY <2>1 DEF Course
      <4>2. ~dump.single => BatchEnd > dump.next
        BY <2>2, <4>1 DEF BatchEnd, Smaller
      <4> QED BY <2>2, <3>2, <3>5, <3>6, <4>1, <4>2 DEF Larger
    <3> QED BY <1>0, <2>1, <2>2, <3>2, <3>4, <3>7, <3>8, BatchOnCourse
  <2>5. CASE ~WeightsThere
    <3>1. dump' = [dump EXCEPT !.at = "failed"]
      BY <1>4, <2>5, ReadBatchDoes
    <3>2. /\ dump'.at = "failed" /\ dump'.offset = dump.offset /\ dump'.limit = dump.limit
          /\ dump'.size = dump.size /\ dump'.end = dump.end
          /\ Written' = Written /\ Wanted' = Wanted
      BY <1>0, <3>1 DEF DumpRecord, Written, Wanted
    <3> QED BY <2>1, <3>2 DEF Course
  <2> QED BY <2>4, <2>5
<1>5. CASE WriteLine
  <2> DEFINE tail == Tail(dump.batch)
             lines == Append(dump.lines, Head(dump.batch))
  <2>1. dump.at = "write" /\ dump' = [Writing(tail) EXCEPT !.lines = Append(@, Head(dump.batch))]
    BY <1>5 DEF WriteLine
  <2>2. dump.batch \in Seq(Participant) /\ dump.batch # <<>> /\ dump.lines \in Seq(Participant)
    BY <1>0, <2>1 DEF DumpRecord, Pending
  <2>3. tail \in Seq(Participant) /\ lines \in Seq(Participant) /\ lines \o tail = Written
    <3>1. lines \o tail = Written
      BY <2>2, HeadMoves DEF Written
    <3>2. tail \in Seq(Participant) /\ Head(dump.batch) \in Participant
      BY <2>2
    <3>3. lines \in Seq(Participant)
      BY <2>2, <3>2
    <3> HIDE DEF lines, tail
    <3> QED BY <3>1, <3>2, <3>3
  <2> HIDE DEF tail
  <2>4. Writing(tail).lines = dump.lines
    BY <1>0, <2>3, WritingTyped
  <2>5. dump' = [Writing(tail) EXCEPT !.lines = lines]
    BY <2>1, <2>4
  <2> HIDE DEF lines
  <2>6. \A k \in 1..Len(lines \o tail) : (lines \o tail)[k].index = dump.offset + k - 1
    BY <2>3 DEF Course
  <2>7. Len(lines \o tail) = Larger(BatchEnd - dump.offset, 0)
    BY <2>1, <2>3 DEF Course
  <2> QED BY <1>0, <2>1, <2>3, <2>5, <2>6, <2>7, BatchOnCourse
<1>6. ASSUME dump' = NoDump PROVE Course'
  <2>1. /\ NoDump.at = "idle" /\ NoDump.lines = <<>> /\ NoDump.batch = <<>>
        /\ NoDump.offset = 0 /\ NoDump.size = 0
    BY DEF NoDump
  <2>2. Written' = <<>> /\ Len(Written') = 0 /\ Wanted' = 0
    BY <1>6, <2>1 DEF Written, Wanted
  <2> QED BY <1>6, <2>1, <2>2 DEF Course
<1> QED
  BY <1>1, <1>2, <1>3, <1>4, <1>5, <1>6
  DEF DumpNext, Methods, Reader, EndOfDump, dumpVars

\* And holds before the first dump.
LEMMA CourseInit == DumpInit => Course
<1> SUFFICES ASSUME DumpInit PROVE Course
  OBVIOUS
<1>1. dump = NoDump
  BY DEF DumpInit
<1>2. /\ dump.at = "idle" /\ dump.lines = <<>> /\ dump.batch = <<>>
      /\ dump.offset = 0 /\ dump.size = 0
  BY <1>1 DEF NoDump
<1>3. Written = <<>> /\ Len(Written) = 0 /\ Wanted = 0
  BY <1>2 DEF Written, Wanted
<1> QED BY <1>1, <1>2, <1>3 DEF Course

\* The lines a dump wants are those promised, or fewer when offset + limit wraps around.
LEMMA WantedIsPromised ==
    ASSUME DumpTypeOK, Course
    PROVE  /\ Wanted <= Promised
           /\ dump.at = "closed" /\ dump.offset + dump.limit < Int64Limit => Wanted = Promised
<1>1. /\ dump.offset \in Nat /\ dump.limit \in Int /\ dump.size \in Nat /\ dump.end \in Int
      /\ Int64Limit \in Nat \ {0}
  BY CensusAssumption DEF DumpTypeOK
<1>2. CASE dump.at = "idle"
  BY <1>2 DEF Course, NoDump, Wanted, Promised, Larger
<1>3. CASE dump.at # "idle"
  <2>1. dump.end = IF dump.limit < 0 THEN dump.size
                   ELSE Smaller(Int64(dump.offset + dump.limit), dump.size)
    BY <1>3 DEF Course
  <2>2. CASE dump.limit < 0
    BY <1>1, <2>1, <2>2 DEF Wanted, Promised, Larger
  <2>3. CASE dump.limit >= 0
    <3> DEFINE sum == dump.offset + dump.limit
               low == Int64(sum)
    <3>1. sum \in Nat /\ low \in Int /\ low <= sum /\ dump.end = Smaller(low, dump.size)
      BY <1>1, <2>1, <2>3, Int64Typed
    <3>2. sum < Int64Limit => low = sum
      BY <3>1, Int64Small
    <3>3. sum = dump.offset + dump.limit
      OBVIOUS
    <3> HIDE DEF sum, low
    <3>4. Promised = IF sum > dump.size THEN Larger(dump.size - dump.offset, 0) ELSE dump.limit
      BY <1>1, <2>3, <3>3 DEF Promised
    <3>5. Wanted <= Promised
      BY <1>1, <2>3, <3>1, <3>3, <3>4 DEF Wanted, Smaller, Larger
    <3>6. sum < Int64Limit => Wanted = Promised
      BY <1>1, <2>3, <3>1, <3>2, <3>3, <3>4 DEF Wanted, Smaller, Larger
    <3> QED BY <3>3, <3>5, <3>6
  <2> QED BY <1>1, <2>2, <2>3
<1> QED BY <1>2, <1>3

\* Whatever is done to the census between two batches, the lines of a dump are those of its
\* range in order, none twice, none left out, and as many as the doc promises.
THEOREM LinesComeInOrder == DumpSpec => []LinesInOrder
<1> DEFINE I == AllTyped /\ Course
<1>1. DumpInit => I
  BY AllTypedInductive, CourseInit
<1>2. I /\ [DumpNext]_dumpVars => I'
  BY AllTypedInductive, CoursePreserved DEF AllTyped
<1>3. ASSUME I PROVE LinesInOrder
  <2>1. DumpTypeOK /\ Pending /\ Course
    BY <1>3 DEF AllTyped
  <2>2. Wanted <= Promised
        /\ (dump.at = "closed" /\ dump.offset + dump.limit < Int64Limit => Wanted = Promised)
    BY <2>1, WantedIsPromised
  <2>3. Len(Written) \in Nat /\ Wanted \in Int /\ Promised \in Int
        /\ (dump.at = "closed" => Written = dump.lines)
    BY <2>1 DEF DumpTypeOK, Pending, Written, Wanted, Promised, Larger
  <2>4. /\ \A k \in 1..Len(Written) : Written[k].index = dump.offset + k - 1
        /\ Len(Written) <= Wanted
        /\ dump.at = "closed" => Len(Written) = Wanted
    BY <2>1 DEF Course
  <2>5. Len(Written) <= Promised
    BY <2>2, <2>3, <2>4
  <2> QED BY <2>2, <2>4, <2>5 DEF LinesInOrder, Written
<1> HIDE DEF I
<1> QED BY <1>1, <1>2, <1>3, PTL DEF DumpSpec

-----------------------------------------------------------------------------
(* NeverCorrupt and StayersListed, for callers that tell the truth *)

\* The lines are right about everyone who has been there all the time.
Listed ==
    /\ stayed \subseteq DOMAIN addressIndex
    /\ \A a \in stayed : \A k \in 1..Len(Written) :
          Written[k].address = a <=> Written[k].index = addressIndex[a]

\* A line read from a sound census has an address at its own index, and only there.
LEMMA LineRight ==
    ASSUME Truthful, Sound, NEW i, NEW a \in DOMAIN addressIndex
    PROVE  Line(i).address = a <=> Line(i).index = addressIndex[a]
<1>1. a # 0
  BY DEF Sound, Truthful, TypeOK, IsMap
<1>2. CASE i \in DOMAIN indexToAddress
  <2>1. Line(i).address = indexToAddress[i] /\ Line(i).index = i
    BY <1>2 DEF Line
  <2> QED BY <1>2, <2>1 DEF Sound, Aligned
<1>3. CASE i \notin DOMAIN indexToAddress
  <2>1. Line(i).address = 0 /\ Line(i).index = i
    BY <1>3 DEF Line
  <2>2. i # addressIndex[a]
    BY <1>3 DEF Sound, Aligned
  <2> QED BY <1>1, <2>1, <2>2
<1> QED BY <1>2, <1>3

\* In a sound census every address of the range has its weight.
LEMMA SoundWeights ==
    ASSUME Sound
    PROVE  WeightsThere
BY IndexHasLeaf DEF Sound, WeightsThere

\* No step of a dump of a sound census fails, and no step makes a line wrong.
LEMMA ListedPreserved ==
    ASSUME Truthful, Sound, DumpTypeOK, Pending, Listed, NeverCorrupt, [DumpNext]_dumpVars
    PROVE  Listed' /\ NeverCorrupt'
<1>0. dump \in DumpRecord
  BY DEF DumpTypeOK, DumpRecord
<1>1. ASSUME Written' = Written, UNCHANGED <<stayed, addressIndex>> PROVE Listed'
  BY <1>1 DEF Listed
<1>2. ASSUME Written' = <<>>, stayed' \subseteq DOMAIN addressIndex' PROVE Listed'
  BY <1>2 DEF Listed
<1>3. CASE Methods
  <2>1. Next /\ stayed' = stayed \intersect DOMAIN addressIndex' /\ dump' = dump
    BY <1>3 DEF Methods
  <2>2. Written' = Written
    BY <2>1 DEF Written
  <2>3. ASSUME NEW a \in stayed' PROVE a \in stayed /\ addressIndex'[a] = addressIndex[a]
    <3>1. a \in stayed /\ a \in DOMAIN addressIndex /\ a \in DOMAIN addressIndex'
      BY <2>1 DEF Listed
    <3> QED BY <2>1, <3>1, IndexKept
  <2>4. Listed'
    BY <2>1, <2>2, <2>3 DEF Listed
  <2> QED BY <2>1, <2>4 DEF NeverCorrupt
<1>4. ASSUME NEW r \in Ranges, DumpRange(r[1], r[2])
      PROVE  Listed' /\ NeverCorrupt'
  <2> DEFINE start == r[1]
             limit == r[2]
  <2>1. start \in Int /\ limit \in Int
    BY RangeTyped
  <2>2. DumpRange(start, limit)
    BY <1>4
  <2> HIDE DEF start, limit
  <2>3. /\ dump' = [at |-> FirstStep(start, limit), offset |-> OffsetOf(start),
                    limit |-> limit, size |-> Len(leaves), end |-> EndOf(start, limit),
                    single |-> IsSingle(start, limit), next |-> OffsetOf(start),
                    batch |-> <<>>, lines |-> <<>>]
        /\ stayed' = DOMAIN addressIndex /\ UNCHANGED vars
    BY <2>2, DumpRangeDoes
  <2>4. Written' = <<>>
    BY <2>3 DEF Written
  <2>5. stayed' \subseteq DOMAIN addressIndex'
    BY <2>3 DEF vars, maps
  <2>6. NeverCorrupt'
    BY <2>3 DEF FirstStep, NeverCorrupt
  <2> QED BY <1>2, <2>4, <2>5, <2>6
<1>5. CASE LockBatch
  <2>1. dump' = [dump EXCEPT !.at = "locked"] /\ UNCHANGED <<vars, stayed>>
    BY <1>5 DEF LockBatch
  <2>2. Written' = Written /\ dump'.at = "locked"
    BY <1>0, <2>1 DEF DumpRecord, Written
  <2> QED BY <1>1, <2>1, <2>2 DEF vars, maps, NeverCorrupt
<1>6. CASE ReadBatch
  <2> DEFINE batch == Batch
  <2>1. /\ dump.at = "locked" /\ dump.batch = <<>> /\ UNCHANGED <<vars, stayed>>
        /\ dump' = Writing(batch)
    BY <1>6, ReadBatchDoes, SoundWeights DEF Pending
  <2>2. /\ batch \in Seq(Participant)
        /\ \A k \in 1..Len(batch) : batch[k] = Line(dump.next + k - 1)
    BY <1>0, BatchIsLines, SoundWeights DEF Sound
  <2> HIDE DEF batch
  <2>3. dump'.lines = dump.lines /\ dump'.batch = batch
    BY <1>0, <2>1, <2>2, WritingTyped
  <2>4. dump'.at # "failed"
    BY <1>0, <2>1, <2>2, WritingDoes
  <2>5. Written' = dump.lines \o batch /\ dump.lines \in Seq(Participant)
    BY <1>0, <2>3 DEF Written, DumpRecord
  <2>6. Written = dump.lines
    BY <2>1, <2>5 DEF Written
  <2>7. /\ Len(dump.lines \o batch) = Len(dump.lines) + Len(batch)
        /\ \A k \in 1..Len(dump.lines) : (dump.lines \o batch)[k] = dump.lines[k]
        /\ \A k \in 1..Len(batch) : (dump.lines \o batch)[Len(dump.lines) + k] = batch[k]
    <3>1. dump.lines \in Seq(Participant) /\ batch \in Seq(Participant)
      BY <2>2, <2>5
    <3> QED BY <3>1, ConcatAt
  <2>8. ASSUME NEW a \in stayed, NEW k \in 1..Len(dump.lines \o batch)
        PROVE  (dump.lines \o batch)[k].address = a
                 <=> (dump.lines \o batch)[k].index = addressIndex[a]
    <3>1. Len(dump.lines) \in Nat /\ Len(batch) \in Nat /\ k \in Nat
      BY <2>2, <2>5
    <3>2. CASE k <= Len(dump.lines)
      <4>1. k \in 1..Len(dump.lines) /\ (dump.lines \o batch)[k] = dump.lines[k]
        BY <2>7, <3>1, <3>2
      <4> QED BY <2>6, <4>1 DEF Listed
    <3>3. CASE k > Len(dump.lines)
      <4> DEFINE l == k - Len(dump.lines)
      <4>1. l \in 1..Len(batch) /\ k = Len(dump.lines) + l
        BY <2>7, <3>1, <3>3
      <4> HIDE DEF l
      <4>2. (dump.lines \o batch)[k] = Line(dump.next + l - 1)
        BY <2>2, <2>7, <4>1
      <4>3. a \in DOMAIN addressIndex
        BY DEF Listed
      <4> QED BY <4>2, <4>3, LineRight
    <3> QED BY <3>1, <3>2, <3>3
  <2>9. UNCHANGED <<stayed, addressIndex>>
    BY <2>1 DEF vars, maps
  <2>10. Listed'
    BY <2>5, <2>8, <2>9 DEF Listed
  <2> QED BY <2>4, <2>10 DEF NeverCorrupt
<1>7. CASE WriteLine
  <2> DEFINE tail == Tail(dump.batch)
             lines == Append(dump.lines, Head(dump.batch))
             w == Writing(tail)
  <2>1. /\ dump.at = "write" /\ dump' = [w EXCEPT !.lines = Append(@, Head(dump.batch))]
        /\ UNCHANGED <<vars, stayed>>
    BY <1>7 DEF WriteLine
  <2>2. dump.batch \in Seq(Participant) /\ dump.batch # <<>> /\ dump.lines \in Seq(Participant)
    BY <1>0, <2>1 DEF DumpRecord, Pending
  <2>3. lines \o tail = Written
    BY <2>2, HeadMoves DEF Written
  <2>4. tail \in Seq(Participant)
    BY <2>2
  <2> HIDE DEF tail
  <2>5. w \in DumpRecord /\ w.batch = tail /\ w.lines = dump.lines
    BY <1>0, <2>4, WritingTyped
  <2>6. w.at # "failed"
    BY <1>0, <2>4, WritingDoes
  <2> HIDE DEF w
  <2>7. dump'.lines = lines /\ dump'.batch = tail /\ dump'.at = w.at
    BY <2>1, <2>5 DEF DumpRecord
  <2> HIDE DEF lines
  <2>8. Written' = Written
    BY <2>3, <2>7 DEF Written
  <2>9. UNCHANGED <<stayed, addressIndex>>
    BY <2>1 DEF vars, maps
  <2> QED BY <1>1, <2>6, <2>7, <2>8, <2>9 DEF NeverCorrupt
<1>8. CASE EndOfDump
  <2>1. dump' = NoDump /\ stayed' = {}
    BY <1>8 DEF EndOfDump
  <2>2. Written' = <<>> /\ NeverCorrupt'
    BY <2>1 DEF Written, NoDump, NeverCorrupt
  <2> QED BY <1>2, <2>1, <2>2
<1>9. CASE UNCHANGED dumpVars
  <2>1. dump' = dump /\ UNCHANGED <<stayed, addressIndex>>
    BY <1>9 DEF dumpVars, vars, maps
  <2> QED BY <1>1, <2>1 DEF Written, NeverCorrupt
<1> QED BY <1>3, <1>4, <1>5, <1>6, <1>7, <1>8, <1>9 DEF DumpNext, Reader

\* What holds of a dump in the hands of such callers.
DumpSound == AllTyped /\ Sound /\ Listed /\ NeverCorrupt

\* DumpSound is inductive.
LEMMA DumpSoundInductive ==
    ASSUME Truthful
    PROVE  (DumpInit => DumpSound) /\ (DumpSound /\ [DumpNext]_dumpVars => DumpSound')
<1>1. ASSUME DumpInit PROVE DumpSound
  <2>1. AllTyped /\ Sound
    BY <1>1, AllTypedInductive, SoundInductive DEF DumpInit
  <2>2. Written = <<>> /\ stayed = {} /\ NeverCorrupt
    BY <1>1 DEF DumpInit, Written, NoDump, NeverCorrupt
  <2> QED BY <2>1, <2>2 DEF DumpSound, Listed
<1>2. ASSUME DumpSound, [DumpNext]_dumpVars PROVE DumpSound'
  <2>1. AllTyped'
    BY <1>2, AllTypedInductive DEF DumpSound
  <2>2. [Next]_vars
    BY <1>2, DumpStepIsCensusStep DEF dumpVars
  <2>3. Sound'
    BY <1>2, <2>2, SoundInductive DEF DumpSound
  <2>4. Listed' /\ NeverCorrupt'
    BY <1>2, ListedPreserved DEF DumpSound, AllTyped
  <2> QED BY <2>1, <2>3, <2>4 DEF DumpSound
<1> QED BY <1>1, <1>2

\* No dump ever ends with "data corruption: missing weight", whatever is done to the census
\* between its batches.
THEOREM DumpsEndWell == Truthful => (DumpSpec => []NeverCorrupt)
<1> SUFFICES ASSUME Truthful PROVE DumpSpec => []NeverCorrupt
  OBVIOUS
<1>1. DumpSound => NeverCorrupt
  BY DEF DumpSound
<1> QED BY <1>1, DumpSoundInductive, PTL DEF DumpSpec

\* A voter who was in the census from the time the size was read until the end of the dump
\* is in it exactly once, at the index the census gives, if the range has that index: no
\* batch read in between loses or doubles anyone.
THEOREM StayersAreListed == Truthful => (DumpSpec => []StayersListed)
<1> SUFFICES ASSUME Truthful PROVE DumpSpec => []StayersListed
  OBVIOUS
<1>1. ASSUME DumpSound PROVE StayersListed
  <2> SUFFICES ASSUME dump.at = "closed", NEW a \in stayed \ {0}
               PROVE  {k \in 1..Len(dump.lines) : dump.lines[k].address = a}
                        = {k \in 1..Len(dump.lines) : dump.lines[k].index = addressIndex[a]}
    BY DEF StayersListed
  <2>1. dump.batch = <<>> /\ dump.lines \in Seq(Participant)
    BY <1>1 DEF DumpSound, AllTyped, Pending, DumpTypeOK
  <2>2. Written = dump.lines
    BY <2>1 DEF Written
  <2> QED BY <1>1, <2>2 DEF DumpSound, Listed
<1> QED BY <1>1, DumpSoundInductive, PTL DEF DumpSpec

=============================================================================

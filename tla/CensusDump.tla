----------------------------- MODULE CensusDump ------------------------------
(***************************************************************************)
(* Dump and DumpRange of a census whose other methods go on meanwhile.  A  *)
(* goroutine takes the read lock of c.mu once for the size and then for    *)
(* each batch, and writes the batch as lines to a pipe with no lock held,  *)
(* where it waits for the reader.  The census stays open.                  *)
(***************************************************************************)
EXTENDS Census

CONSTANTS
    Ranges,           \* the <<offset, limit>> that callers ask for
    BatchThreshold,   \* batchThreshold: 10000 in the code
    BatchSize         \* batchSize: 1000 in the code

ASSUME DumpAssumption ==
    /\ Ranges \subseteq Int \X Int
    /\ BatchThreshold \in Nat /\ BatchSize \in Nat \ {0}
    /\ Env \intersect {"close", "crash"} = {}

VARIABLES
    dump,     \* the goroutine's locals, and the lines its reader has received
    stayed    \* history: the addresses that have been there since the size was read

dumpVars == <<vars, dump, stayed>>

Participant == [index : Nat, address : Address \union {0}, weight : Weight \union {0}]

\* at says what the goroutine does next; batch is what it has read and not yet written.
NoDump == [at |-> "idle", offset |-> 0, limit |-> 0, size |-> 0, end |-> 0, single |-> FALSE,
           next |-> 0, batch |-> <<>>, lines |-> <<>>]

DumpTypeOK ==
    /\ dump \in [at : {"idle", "lock", "locked", "write", "failed", "closed"},
                 offset : Nat, limit : Int, size : Nat, end : Int, single : BOOLEAN,
                 next : Nat, batch : Seq(Participant), lines : Seq(Participant)]
    /\ stayed \subseteq Address

Smaller(a, b) == IF a < b THEN a ELSE b
Larger(a, b) == IF a < b THEN b ELSE a

-----------------------------------------------------------------------------

\* Mutant: the lock is held until the batch has been written.
BugHoldsWhileWriting == dump.at \in {"locked", "write"}

\* c.mu is held for reading.
HoldsLock == dump.at = "locked"

\* Mutant: a negative offset is kept.
BugNegativeOffset(start, limit) ==
    /\ dump.at = "idle"
    /\ Unlocked
    /\ dump' = [NoDump EXCEPT !.at = "closed", !.offset = start, !.next = start]
    /\ UNCHANGED <<vars, stayed>>

\* The size, the end of the range and the way to read it.  An int wraps around.
DumpRange(start, limit) ==
    LET size == Len(leaves)
        offset == Larger(start, 0)
        end == IF limit < 0 THEN size ELSE Smaller(Int64(offset + limit), size)
        single == limit >= 0 /\ Int64(end - offset) <= BatchThreshold
    IN  /\ dump.at = "idle"
        /\ Unlocked
        /\ dump' = [NoDump EXCEPT
                      !.at = IF offset < size /\ (single \/ offset < end)
                             THEN "lock" ELSE "closed",
                      !.offset = offset, !.limit = limit, !.size = size, !.end = end,
                      !.single = single, !.next = offset]
        /\ stayed' = DOMAIN addressIndex
        /\ UNCHANGED vars

LockBatch ==
    /\ dump.at = "lock"
    /\ Unlocked
    /\ dump' = [dump EXCEPT !.at = "locked"]
    /\ UNCHANGED <<vars, stayed>>

\* The line for an index; a slot that was emptied has the zero address.
Line(i) ==
    IF i \in DOMAIN indexToAddress
    THEN [index |-> i, address |-> indexToAddress[i], weight |-> weights[indexToAddress[i]]]
    ELSE [index |-> i, address |-> 0, weight |-> 0]

\* The goroutine with the lines of batch yet to write, or on to the next one, or at its end.
Writing(batch) ==
    IF batch # <<>> THEN [dump EXCEPT !.at = "write", !.batch = batch]
    ELSE IF ~dump.single /\ dump.next + BatchSize < dump.end
    THEN [dump EXCEPT !.at = "lock", !.batch = <<>>, !.next = @ + BatchSize]
    ELSE [dump EXCEPT !.at = "closed", !.batch = <<>>]

\* Mutant: the last index of a range is taken to belong to it.
BugOneMore ==
    LET last == IF dump.single THEN dump.end ELSE Smaller(dump.next + BatchSize, dump.end + 1)
    IN  /\ dump.at = "locked"
        /\ dump' = Writing([k \in 1..(last - dump.next) |-> Line(dump.next + k - 1)])
        /\ UNCHANGED <<vars, stayed>>

\* A whole range or one batch of it is read.  An address with no weight ends the stream.
ReadBatch ==
    LET last == IF dump.single THEN dump.end ELSE Smaller(dump.next + BatchSize, dump.end)
        indexes == dump.next..(last - 1)
        sound == \A i \in indexes \intersect DOMAIN indexToAddress :
                    indexToAddress[i] \in DOMAIN weights
    IN  /\ dump.at = "locked"
        /\ dump' = IF sound
                   THEN Writing([k \in 1..(last - dump.next) |-> Line(dump.next + k - 1)])
                   ELSE [dump EXCEPT !.at = "failed"]
        /\ UNCHANGED <<vars, stayed>>

\* The pipe has no buffer: a line is written when the reader takes it.
WriteLine ==
    /\ dump.at = "write"
    /\ dump' = [Writing(Tail(dump.batch)) EXCEPT !.lines = Append(@, Head(dump.batch))]
    /\ UNCHANGED <<vars, stayed>>

\* Mutant: only errors close the pipe.
BugNotClosed ==
    /\ dump.at = "failed"
    /\ dump' = NoDump
    /\ stayed' = {}
    /\ UNCHANGED vars

\* The reader gets the end of the stream, or the error.
EndOfDump ==
    /\ dump.at \in {"closed", "failed"}
    /\ dump' = NoDump
    /\ stayed' = {}
    /\ UNCHANGED vars

Reader == WriteLine \/ EndOfDump

Methods ==
    /\ ~HoldsLock
    /\ Next
    /\ stayed' = stayed \intersect DOMAIN addressIndex'
    /\ UNCHANGED dump

DumpNext ==
    \/ Methods
    \/ \E r \in Ranges : DumpRange(r[1], r[2])
    \/ LockBatch \/ ReadBatch \/ Reader

DumpInit == Init /\ dump = NoDump /\ stayed = {}

DumpSpec == DumpInit /\ [][DumpNext]_dumpVars

\* Lists of events and participants end, and no loop over one waits for anything.  A reader
\* that waits for an RWMutex is let in before the next writer.  The one who reads the
\* pipe may stop at any time.
Ends == EndEvents \/ RejectEvents \/ EndImport \/ RejectImport

DumpFairSpec ==
    /\ DumpSpec
    /\ WF_dumpVars(Methods /\ Ends)
    /\ SF_dumpVars(LockBatch)
    /\ WF_dumpVars(ReadBatch)

-----------------------------------------------------------------------------
(* Properties *)

\* How many lines the doc of DumpRange promises, unless offset + limit passes an int.
Promised ==
    IF dump.limit < 0 \/ dump.offset + dump.limit > dump.size
    THEN Larger(dump.size - dump.offset, 0)
    ELSE dump.limit

\* Lines come in the order of their indexes, none twice and none left out, whatever the
\* writers do to the census between batches; at the end there are as many as promised for
\* the size it had at first.  (DumpRange, dumpRangeBatched)
LinesInOrder ==
    LET lines == dump.lines \o dump.batch
    IN  /\ \A k \in 1..Len(lines) : lines[k].index = dump.offset + k - 1
        /\ Len(lines) <= Promised
        /\ dump.at = "closed" /\ dump.offset + dump.limit < Int64Limit
           => Len(lines) = Promised

\* The same with no exception, as the doc of DumpRange has it: a dump that is over has the
\* entries from offset to min(offset + limit, size).  (DumpRange)
RangeListed == dump.at = "closed" => Len(dump.lines) = Promised

\* A voter who was in the census all the time is listed exactly once, at the index the
\* census gives, if the range has it: batches read at different times neither lose nor
\* double anyone.  Empty slots are listed with the zero address, so that one is left out.
\* (dumpRangeBatched beside Add, Update, applyEvents and imports)
StayersListed ==
    dump.at = "closed" =>
        \A a \in stayed \ {0} :
            {k \in 1..Len(dump.lines) : dump.lines[k].address = a}
              = {k \in 1..Len(dump.lines) : dump.lines[k].index = addressIndex[a]}

\* No dump ends with "data corruption: missing weight".  (dumpRangeSingleLock)
NeverCorrupt == dump.at # "failed"

\* A reader that is slow, or gone, does not keep the methods of the census waiting.
WritersGetIn == HoldsLock ~> ~HoldsLock

\* A reader that reads on comes to the end of the stream, however busy the census is.
DumpEnds == WF_dumpVars(Reader) => (dump.at # "idle" ~> dump.at = "idle")

=============================================================================

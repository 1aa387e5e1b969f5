--------------------------- MODULE OverlappedRead ---------------------------
(***************************************************************************)
(* int read(FileDescriptor fd, byte[] b, int off, int len): the engine of  *)
(* OverlappedIO over OfcReadFile. The argument off is the position in the  *)
(* file; the data goes to b[0] onwards.                                    *)
(***************************************************************************)
EXTENDS OverlappedIO

\* The bytes of request r the file has.
Available(r) == IF fileSize <= r.offset THEN 0
                ELSE IF fileSize - r.offset < r.len THEN fileSize - r.offset
                ELSE r.len

\* How request r may end. A read at the end of the file is reported as
\* OFC_ERROR_HANDLE_EOF or as a success that moved nothing.
ReadOutcomes(r) ==
  (IF Available(r) = 0 THEN {[res |-> "eof", n |-> 0], [res |-> "done", n |-> 0]}
   ELSE {[res |-> "done", n |-> k] :
           k \in IF "short" \in faults THEN 1 .. Available(r) ELSE {Available(r)}})
    \cup {[res |-> e, n |-> 0] : e \in {"error"} \cap faults}

AsyncRead == ReadOutcomes(NextRequest)

\* AsyncReadResult of a request that is over: success is DONE when data moved.
AsyncReadResult(b) ==
  IF ov[b].res = "done" /\ ov[b].n > 0 THEN "DONE" ELSE "FAIL"

\* The value the method returns.
Result == IF total = 0 THEN -1 ELSE total

ReadPrime == Prime(ReadOutcomes(NextRequest))
ReadMore(b) == AsyncReadResult(b) = "DONE" /\ DrainMore(b, ReadOutcomes(NextRequest))
ReadLast(b) == AsyncReadResult(b) = "DONE" /\ DrainLast(b)
ReadFail(b) == AsyncReadResult(b) = "FAIL" /\ DrainFail(b)
ReadComplete(b) == Complete(b, ReadOutcomes(req[b]))

ReadDrain == \E b \in Buffers : ReadMore(b) \/ ReadLast(b) \/ ReadFail(b)
ReadCaller == ReadPrime \/ PrimeNoMemory \/ PrimeDone \/ ReadDrain \/ Cleanup

ReadNext == ReadCaller \/ (\E b \in Buffers : ReadComplete(b)) \/ Returned

(* The thread that made the call keeps running while it is not blocked in  *)
(* ofc_waitset_wait, and the I/O subsystem answers every request in the    *)
(* end, with an error if need be.                                          *)
ReadFairness == WF_vars(ReadCaller) /\ \A b \in Buffers : WF_vars(ReadComplete(b))

ReadSpec == Init /\ [][ReadNext]_vars /\ ReadFairness

-----------------------------------------------------------------------------
(* The count reported is the number of bytes that reached the array, even  *)
(* when requests fail, are cut short or end at the end of the file.        *)
BytesCounted == Overlapping /\ pc = "returned" => total = Cardinality(moved)

(* With an I/O subsystem that serves every request in full, the call reads *)
(* exactly the bytes there are, from the first on, and reports -1 only     *)
(* when there are none; running out of memory makes it read all or none.   *)
ReadsAllThereIs ==
  pc = "returned" /\ faults \subseteq {"nomem"} =>
    LET want == Available([data |-> 0, offset |-> jiOffset, len |-> jiLen])
    IN \/ /\ moved = {<<p, jiOffset + p>> : p \in 0 .. want - 1}
          /\ Result = IF want = 0 THEN -1 ELSE want
       \/ "nomem" \in faults /\ moved = {} /\ Result = -1
=============================================================================

--------------------------- MODULE OverlappedWrite --------------------------
(***************************************************************************)
(* void write(FileDescriptor fd, byte[] b, int off, int len): the engine   *)
(* of OverlappedIO over OfcWriteFile. The argument off is the position in  *)
(* the file; the data comes from b[0] onwards.                             *)
(***************************************************************************)
EXTENDS OverlappedIO

\* How request r may end: there is always room to write, and no end of file.
WriteOutcomes(r) ==
  {[res |-> "done", n |-> k] :
     k \in IF "short" \in faults THEN 0 .. r.len ELSE {r.len}}
    \cup {[res |-> e, n |-> 0] : e \in {"error"} \cap faults}

\* AsyncWriteResult of a request that is over.
AsyncWriteResult(b) == IF ov[b].res = "done" THEN "DONE" ELSE "FAIL"

\* Mutants: a check for any progress, and one that wants whole buffers.
ThrowsUnlessMoved == total = 0
ThrowsUnlessBuffers == total # jiLen \/ jiLen % BufferSize # 0

\* Whether the method ends in an IOException.
Throws == total # jiLen

WritePrime == Prime(WriteOutcomes(NextRequest))
WriteMore(b) == AsyncWriteResult(b) = "DONE" /\ DrainMore(b, WriteOutcomes(NextRequest))
WriteLast(b) == AsyncWriteResult(b) = "DONE" /\ DrainLast(b)
WriteFail(b) == AsyncWriteResult(b) = "FAIL" /\ DrainFail(b)
WriteComplete(b) == Complete(b, WriteOutcomes(req[b]))

WriteDrain == \E b \in Buffers : WriteMore(b) \/ WriteLast(b) \/ WriteFail(b)
WriteCaller == WritePrime \/ PrimeNoMemory \/ PrimeDone \/ WriteDrain \/ Cleanup

WriteNext == WriteCaller \/ (\E b \in Buffers : WriteComplete(b)) \/ Returned

(* The thread that made the call keeps running while it is not blocked in  *)
(* ofc_waitset_wait, and the I/O subsystem answers every request in the    *)
(* end, with an error if need be.                                          *)
WriteFairness == WF_vars(WriteCaller) /\ \A b \in Buffers : WF_vars(WriteComplete(b))

WriteSpec == Init /\ [][WriteNext]_vars /\ WriteFairness

-----------------------------------------------------------------------------
AllPairs == {<<p, jiOffset + p>> : p \in 0 .. jiLen - 1}

(* A write that returns without an exception has written every byte: no    *)
(* failed, short or forgotten request goes unnoticed, not even when        *)
(* requests complete at once.                                              *)
NoSilentLoss == pc = "returned" /\ ~Throws => moved = AllPairs

(* An exception means that something failed: a write served in full never  *)
(* throws, and one that could get no buffer at all has written nothing.    *)
NoFalseAlarm ==
  pc = "returned" /\ faults \subseteq {"nomem"} /\ Throws =>
    "nomem" \in faults /\ moved = {}
=============================================================================

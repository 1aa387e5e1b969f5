---------------------------- MODULE OverlappedIO ----------------------------
(***************************************************************************)
(* The multi-buffered transfer engine of com_connectedway_io_Filesystem.c: *)
(* what read(fd, b, off, len) and write(fd, b, off, len) have in common.   *)
(* The two C functions are the same loop over different system calls, so   *)
(* the loop is stated once here and OverlappedRead and OverlappedWrite     *)
(* give it the system call, its outcomes and the value returned.           *)
(*                                                                         *)
(* Two actors interleave: the caller's thread, inside the native method,   *)
(* and the I/O subsystem below OfcReadFile and OfcWriteFile (not part of   *)
(* the repository), which completes the overlapped requests in any order.  *)
(***************************************************************************)
EXTENDS Integers, FiniteSets

CONSTANTS
  NumBuffers,   (* NUM_FILE_BUFFERS: overlapped requests kept outstanding *)
  BufferSize,   (* BUFFER_SIZE: bytes of one request                      *)
  Lens,         (* values of the argument jiLen                           *)
  Offsets,      (* values of the argument jiOffset                        *)
  FileSizes,    (* sizes the file may have                                *)
  FaultModels   (* sets of faults: one is chosen for each call            *)

(* "nomem": ofc_malloc may return NULL.  "error": a request may fail.      *)
(* "short": a request may move fewer bytes than are there to be moved.     *)
(* "sync": a request may be complete when OfcReadFile/OfcWriteFile return. *)
Faults == {"nomem", "error", "short", "sync"}

ASSUME BuffersAssumption == NumBuffers \in Nat \ {0} /\ BufferSize \in Nat \ {0}
ASSUME CallAssumption ==
  Lens \subseteq Nat /\ Offsets \subseteq Nat /\ FileSizes \subseteq Nat
ASSUME FaultsAssumption == FaultModels \subseteq SUBSET Faults

VARIABLES
  jiOffset, jiLen,             (* the arguments of the call                  *)
  fileSize, faults,            (* the file, and what may go wrong            *)
  pc,                          (* "prime" loop, "drain" loop, or "returned"  *)
  i, eof, pending,             (* locals of the native method                *)
  buffer_offset, file_offset,
  total,                       (* jiBytesRead or jiBytesWritten              *)
  state,                       (* buffer->state: BUFFER_STATE_IDLE or busy   *)
  req,                         (* the request last submitted with the buffer *)
  wait_set,                    (* buffers whose overlapped is in the set     *)
  ov,                          (* the overlapped: its result, bytes moved    *)
  moved                        (* <<p, f>>: array byte p holds file byte f   *)

call == <<jiOffset, jiLen, fileSize, faults>>
locals == <<pc, i, eof, pending, buffer_offset, file_offset, total>>
vars == <<call, locals, state, req, wait_set, ov, moved>>

Buffers == 0 .. NumBuffers - 1
Requests == [data : Nat, offset : Nat, len : Nat]
Results == {"none", "pending", "done", "eof", "error"}
Outcomes == [res : Results, n : Nat]

\* The byte pairs that the first n bytes of request r carry.
Bytes(r, n) == {<<r.data + k, r.offset + k>> : k \in 0 .. n - 1}

Init ==
  /\ jiOffset \in Offsets /\ jiLen \in Lens /\ fileSize \in FileSizes
  /\ faults \in FaultModels
  /\ pc = "prime" /\ i = 0 /\ eof = FALSE /\ pending = 0 /\ total = 0
  /\ buffer_offset = 0 /\ file_offset = jiOffset
  /\ state = [b \in Buffers |-> "idle"]
  /\ req = [b \in Buffers |-> [data |-> 0, offset |-> 0, len |-> 0]]
  /\ wait_set = {}
  /\ ov = [b \in Buffers |-> [res |-> "none", n |-> 0]]
  /\ moved = {}

-----------------------------------------------------------------------------
\* Mutants: a chunk that ignores what is left, a file offset that stays behind,
\* a tail shorter than a buffer dropped, a refusal seen only when it is an error or
\* only when the request is complete, an array position that is not advanced.
WholeBuffer == BufferSize
AdvanceArrayOnly == buffer_offset' = buffer_offset + BufferSize /\ UNCHANGED file_offset
MoreFull == buffer_offset + BufferSize <= jiLen
RefusedOnError(o) == o.res = "error"
RefusedWhenDone(o) == o.res = "done"
SameData == [data |-> 0, offset |-> file_offset, len |-> BufferSize]

\* OFC_MIN(BUFFER_SIZE, jiLen - buffer_offset)
ChunkLen == IF BufferSize < jiLen - buffer_offset THEN BufferSize
            ELSE jiLen - buffer_offset
NextRequest == [data |-> buffer_offset, offset |-> file_offset, len |-> ChunkLen]
Advance == /\ buffer_offset' = buffer_offset + ChunkLen
           /\ file_offset' = file_offset + ChunkLen
More == ChunkLen > 0
Refused(o) == o.res # "pending"

\* What the submission itself may report, when a request ends in one of outs.
Submissions(outs) ==
  {[res |-> "pending", n |-> 0]}
    \cup {o \in outs : o.res = "done" => "sync" \in faults}

(* Submit NextRequest with buffer b: the buffer is busy and in the wait    *)
(* set, unless the call failed at once.                                    *)
Submit(b, o) ==
  /\ req' = [req EXCEPT ![b] = NextRequest]
  /\ ov' = [ov EXCEPT ![b] = o]
  /\ moved' = moved \cup Bytes(NextRequest, o.n)
  /\ IF o.res \in {"pending", "done"}
       THEN state' = [state EXCEPT ![b] = "busy"] /\ wait_set' = wait_set \cup {b}
       ELSE state' = [state EXCEPT ![b] = "idle"] /\ wait_set' = wait_set \ {b}
  /\ Advance

\* The buffer is finished with: idle, and out of the wait set.
Retire(b) ==
  /\ state' = [state EXCEPT ![b] = "idle"]
  /\ wait_set' = wait_set \ {b}
  /\ UNCHANGED <<req, ov, moved, buffer_offset, file_offset>>

-----------------------------------------------------------------------------
Priming == pc = "prime" /\ i < NumBuffers /\ ~eof /\ buffer_offset < jiLen

\* One turn of the priming loop: buffer i is allocated and its request submitted.
Prime(outs) ==
  /\ Priming
  /\ \E o \in Submissions(outs) :
       /\ Submit(i, o)
       /\ pending' = IF Refused(o) THEN pending ELSE pending + 1
       /\ eof' = Refused(o)
  /\ i' = i + 1
  /\ UNCHANGED <<call, pc, total>>

\* The turn in which ofc_malloc fails.
PrimeNoMemory ==
  /\ Priming /\ "nomem" \in faults
  /\ eof' = TRUE /\ i' = i + 1
  /\ UNCHANGED <<call, pc, pending, buffer_offset, file_offset, total, state, req,
                 wait_set, ov, moved>>

PrimeDone ==
  /\ pc = "prime" /\ ~Priming
  /\ pc' = "drain"
  /\ UNCHANGED <<call, i, eof, pending, buffer_offset, file_offset, total, state,
                 req, wait_set, ov, moved>>

(* ofc_waitset_wait returns the event of a buffer whose request is over.   *)
(* (It may also wake for one that is not: the loop then changes nothing.)  *)
Signalled(b) ==
  /\ pc = "drain" /\ pending > 0
  /\ b \in wait_set /\ state[b] = "busy" /\ ov[b].res # "pending"

\* Mutants: the length asked for is counted; the loop ends at the first failure.
GainedAsAsked(b) == req[b].len
DrainedOnEof == pending = 0 \/ eof

\* dwLen, as OfcGetOverlappedResult sets it.
Gained(b) == ov[b].n

\* The request moved data and there is more to move: the buffer is used again.
DrainMore(b, outs) ==
  /\ Signalled(b) /\ More
  /\ total' = total + Gained(b)
  /\ \E o \in Submissions(outs) :
       /\ Submit(b, o)
       /\ pending' = IF Refused(o) THEN pending - 1 ELSE pending
       /\ eof' = (eof \/ Refused(o))
  /\ UNCHANGED <<call, pc, i>>

\* The request moved data and it was the last: the buffer retires.
DrainLast(b) ==
  /\ Signalled(b) /\ ~More
  /\ total' = total + Gained(b)
  /\ Retire(b)
  /\ pending' = pending - 1 /\ eof' = TRUE
  /\ UNCHANGED <<call, pc, i>>

\* The request ended in an error or at the end of the file: the buffer retires.
DrainFail(b) ==
  /\ Signalled(b)
  /\ Retire(b)
  /\ pending' = pending - 1 /\ eof' = TRUE
  /\ UNCHANGED <<call, pc, i, total>>

Drained == pending = 0

(* Every overlapped is destroyed, every buffer freed, the wait set         *)
(* destroyed and the byte array given back to the Java VM.                 *)
Cleanup ==
  /\ pc = "drain" /\ Drained
  /\ pc' = "returned"
  /\ wait_set' = {}
  /\ UNCHANGED <<call, i, eof, pending, buffer_offset, file_offset, total, state,
                 req, ov, moved>>

\* The I/O subsystem ends an outstanding request.
Complete(b, outs) ==
  /\ ov[b].res = "pending"
  /\ \E o \in outs :
       /\ ov' = [ov EXCEPT ![b] = o]
       /\ moved' = moved \cup Bytes(req[b], o.n)
  /\ UNCHANGED <<call, locals, state, req, wait_set>>

\* The native method has returned; nothing more happens in this call.
Returned == pc = "returned" /\ UNCHANGED vars

-----------------------------------------------------------------------------
(* Type correctness, with the bounds of the counters: the loops never ask  *)
(* for more than jiLen bytes nor keep more requests than there are         *)
(* buffers.                                                                *)
TypeOK ==
  /\ jiOffset \in Offsets /\ jiLen \in Lens /\ fileSize \in FileSizes
  /\ faults \in FaultModels
  /\ pc \in {"prime", "drain", "returned"}
  /\ i \in 0 .. NumBuffers /\ eof \in BOOLEAN /\ pending \in 0 .. NumBuffers
  /\ buffer_offset \in 0 .. jiLen /\ file_offset \in Nat /\ total \in Nat
  /\ state \in [Buffers -> {"idle", "busy"}]
  /\ req \in [Buffers -> Requests]
  /\ wait_set \subseteq Buffers
  /\ ov \in [Buffers -> Outcomes]
  /\ moved \subseteq Nat \X Nat

\* Every request of the call completes through the wait set.
Overlapping == "sync" \notin faults

(* While the loops run, pending is the number of requests whose completion *)
(* has not been collected: the drain loop cannot end early, nor wait for a *)
(* completion that will not come.                                          *)
PendingIsOutstanding ==
  Overlapping => pending = Cardinality({b \in Buffers : state[b] = "busy"})

(* Once the overlapped handles are destroyed and the byte array has been   *)
(* released to the Java VM, no request is outstanding on either.           *)
NoIOAfterReturn ==
  Overlapping /\ pc = "returned" => \A b \in Buffers : ov[b].res # "pending"

(* What comes out of the file lands where it belongs, whatever the order   *)
(* of completion and whichever buffer is used again.                       *)
BytesLandInPlace == \A m \in moved : m[1] < jiLen /\ m[2] = jiOffset + m[1]

(* The call returns, whatever fails and in whatever order requests end.    *)
Returns == <>(pc = "returned")

(* The call is a transfer as its caller may think of it. (A call with      *)
(* requests that complete at once is never seen to return.)                *)
\* The array positions of request r.
Span(r) == r.data .. r.data + r.len - 1
Abstract == INSTANCE Transfer WITH
  MaxRequest <- BufferSize, MaxOutstanding <- NumBuffers,
  offset <- jiOffset, length <- jiLen, next <- buffer_offset,
  outstanding <- {Span(req[b]) : b \in {c \in Buffers : ov[c].res = "pending"}},
  returned <- (pc = "returned" /\ Overlapping)
ImplementsTransfer == Abstract!Spec
=============================================================================

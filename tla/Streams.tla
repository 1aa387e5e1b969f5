------------------------------- MODULE Streams -------------------------------
(***************************************************************************)
(* FileInputStream, FileOutputStream and RandomAccessFile on one file, and *)
(* the native methods of FileSystem behind them. An application thread     *)
(* makes the calls; the finalizer thread closes streams it has dropped.    *)
(* Reads and writes go to the pointer of the native handle, which streams  *)
(* made from one FileDescriptor share; only write(b, off, len) does not.   *)
(*                                                                         *)
(* Each request to of_core is a step. of_core gives a handle that has been *)
(* closed to a later open again.                                           *)
(***************************************************************************)
EXTENDS Integers, Sequences

CONSTANTS
  Objects,    (* stream objects                                              *)
  Kinds,      (* what they are                                               *)
  Handles,    (* native handles, of which "null" is none                     *)
  Contents,   (* what the file may hold at first                             *)
  Data,       (* arrays that are written                                     *)
  MaxIO,      (* OFC_MAX_IO                                                  *)
  MaxLen,     (* bound: positions, and the length of the file                *)
  MaxFaults   (* bound: requests that fail for no reason of the program      *)

Readers == {"in", "rw"}
Writers == {"out", "append", "rw"}
ASSUME KindsAssumption == Kinds \subseteq Readers \cup Writers
ASSUME HandlesAssumption == "null" \notin Handles

Bytes == {"x", "cr", "lf", "nul"}
ASSUME StreamBounds == {MaxIO, MaxLen} \subseteq Nat \ {0} /\ MaxFaults \in Nat
ASSUME DataAssumption ==
  Contents \cup Data \subseteq UNION {[1 .. n -> Bytes] : n \in 0 .. MaxLen}

VARIABLES
  file,      (* the bytes of the file                                        *)
  open, pos, (* native handles that are open, and their pointers             *)
  kind,      (* what each stream object is, "none" if there is none          *)
  fd,        (* the handle of its FileDescriptor, or "null"                  *)
  status,    (* "live", "dropped" by the application, "gone" when finalized  *)
  pc, call,  (* the call under way, or made last                             *)
  faults,    (* faults so far                                                *)
  shared,    (* history: two streams have had one FileDescriptor             *)
  misclosed, (* history: a close has failed and closed the handle            *)
  orphans    (* history: handles a failed finalize() has left open           *)

handles == <<open, pos>>
streams == <<kind, fd, status>>
history == <<shared, misclosed, orphans>>
vars == <<file, handles, streams, pc, call, faults, history>>

NoCall == [op |-> "none", s |-> "none", h |-> "null", start |-> 0, left |-> 0, buf |-> <<>>,
           before |-> <<>>, stray |-> FALSE, negative |-> FALSE, mark |-> 0, ret |-> "none"]

Init ==
  /\ file \in Contents
  /\ open = {} /\ pos = [h \in Handles |-> 0]
  /\ kind = [s \in Objects |-> "none"] /\ fd = [s \in Objects |-> "null"]
  /\ status = [s \in Objects |-> "gone"]
  /\ pc = "idle" /\ call = NoCall
  /\ faults = 0 /\ shared = FALSE /\ misclosed = FALSE /\ orphans = {}

-----------------------------------------------------------------------------
Fault == faults < MaxFaults /\ faults' = faults + 1
NoFault == UNCHANGED faults
\* A request on handle h fails: it is closed, or for no reason of the program.
Fails(h) == (h \notin open /\ NoFault) \/ Fault

\* f with the bytes of d from position p on.
Overlay(f, p, d) ==
  [i \in 1 .. (IF p + Len(d) > Len(f) /\ d # <<>> THEN p + Len(d) ELSE Len(f)) |->
     IF i \in p + 1 .. p + Len(d) THEN d[i - p] ELSE IF i <= Len(f) THEN f[i] ELSE "nul"]
Move(h, p) == pos' = [pos EXCEPT ![h] = p] /\ UNCHANGED open

Live(s) == status[s] = "live" /\ fd[s] # "null"
Forget == call' = NoCall /\ UNCHANGED pc
Return(r, c) == pc' = "idle" /\ call' = [c EXCEPT !.ret = r]
\* A call on s, with the handle read from its FileDescriptor once.
Begin(s, o, start, asked, b) ==
  /\ pc = "idle" /\ Live(s) /\ pc' = start
  /\ call' = [NoCall EXCEPT !.op = o, !.s = s, !.h = fd[s], !.start = pos[fd[s]],
                            !.left = asked, !.buf = b, !.before = file]
  /\ UNCHANGED <<file, handles, streams, faults, history>>

-----------------------------------------------------------------------------
\* new FileInputStream(name), new FileOutputStream(name, append), ...
Open(s, k) ==
  /\ pc = "idle" /\ status[s] = "gone"
  /\ \E h \in Handles \ open :
       open' = open \cup {h} /\ pos' = [pos EXCEPT ![h] = 0] /\ fd' = [fd EXCEPT ![s] = h]
  /\ kind' = [kind EXCEPT ![s] = k] /\ status' = [status EXCEPT ![s] = "live"]
  /\ file' = IF k = "out" THEN <<>> ELSE file
  /\ Forget /\ UNCHANGED <<faults, history>>

OpenFails ==
  /\ pc = "idle" /\ Fault
  /\ Forget /\ UNCHANGED <<file, handles, streams, history>>

\* new FileInputStream(other.getFD()), new FileOutputStream(other.getFD())
Share(s, other) ==
  /\ pc = "idle" /\ status[s] = "gone" /\ Live(other)
  /\ fd' = [fd EXCEPT ![s] = fd[other]] /\ kind' = [kind EXCEPT ![s] = kind[other]]
  /\ status' = [status EXCEPT ![s] = "live"] /\ shared' = TRUE
  /\ Forget /\ UNCHANGED <<file, handles, faults, misclosed, orphans>>

\* Mutant: fd is cleared before the handle is closed.
ClearFirst(s, ok) == "null"
\* An exception leaves fd as it is.
AfterClose(s, ok) == IF ok THEN "null" ELSE fd[s]

\* close() of s: OfcCloseHandle succeeds or not. One that fails may have closed.
Close(s, ok) ==
  /\ \/ ok /\ fd[s] \in open /\ open' = open \ {fd[s]} /\ NoFault /\ UNCHANGED misclosed
     \/ ~ok /\ fd[s] \notin open /\ NoFault /\ UNCHANGED <<open, misclosed>>
     \/ ~ok /\ Fault /\ open' \in {open, open \ {fd[s]}}
        /\ misclosed' = (misclosed \/ open' # open)
  /\ pos' = [h \in Handles |-> IF h \in open' THEN pos[h] ELSE 0]

CloseCall(s) ==
  /\ pc = "idle" /\ Live(s)
  /\ \E ok \in BOOLEAN : Close(s, ok) /\ fd' = [fd EXCEPT ![s] = AfterClose(s, ok)]
  /\ Forget /\ UNCHANGED <<file, kind, status, shared, orphans>>

\* The application forgets a stream, closed or not.
Drop(s) ==
  /\ pc = "idle" /\ status[s] = "live" /\ status' = [status EXCEPT ![s] = "dropped"]
  /\ Forget /\ UNCHANGED <<file, handles, kind, fd, faults, history>>

\* finalize(), once, by a thread of its own: it closes what is not closed.
Finalize(s) ==
  /\ status[s] = "dropped" /\ status' = [status EXCEPT ![s] = "gone"]
  /\ IF fd[s] = "null" THEN UNCHANGED <<handles, faults, misclosed, orphans>>
     ELSE \E ok \in BOOLEAN : Close(s, ok) /\ orphans' = orphans \cup ({fd[s]} \cap open')
  /\ fd' = [fd EXCEPT ![s] = "null"] /\ kind' = [kind EXCEPT ![s] = "none"]
  /\ UNCHANGED <<file, pc, call, shared>>

-----------------------------------------------------------------------------
\* The most a single request transfers.
Chunk == IF call.op \in {"readInt", "writeInt"} THEN 1 ELSE MaxIO
Least(S) == CHOOSE n \in S : \A k \in S : n <= k
Here == pos[call.h]
Done == Len(call.buf) - call.left

(* read(b), and readInt() and its like, which add up the ints of as many   *)
(* read(). A byte is read into an int nothing has written to, and may come *)
(* with stray bits: "stray" says that some have, so that the number is not *)
(* that of the bytes, and "negative" that one of them was the sign.        *)
BeginRead(s, o, n) == kind[s] \in Readers /\ Begin(s, o, "read", n, [i \in 1 .. n |-> "nul"])

\* Mutant: every chunk goes to the start of the array.
AtStart == 0
WorkingOffset == Done

\* What is left in the int of a read() beside its byte.
Bits == IF call.op = "readInt" THEN {"none", "some", "sign"} ELSE {"none"}
\* (ch1 | ch2 | ch3 | ch4) < 0 is taken for the end of the file.
ReadReturns(c) == Return(IF c.negative THEN "eof" ELSE "ok", c)

\* Mutant: whole chunks are asked for.
Unlimited == Chunk
ReadLimit == Least({call.left, Chunk})

ReadChunk ==
  /\ pc = "read" /\ call.h \in open /\ call.left > 0 /\ Here < Len(file)
  /\ \E n \in 1 .. Least({ReadLimit, Len(file) - Here}), bits \in Bits :
       LET c == [call EXCEPT !.left = @ - n, !.stray = @ \/ bits # "none",
                   !.negative = @ \/ bits = "sign",
                   !.buf = Overlay(@, WorkingOffset, SubSeq(file, Here + 1, Here + n))]
       IN /\ Move(call.h, Here + n)
          /\ IF c.left = 0 THEN ReadReturns(c) ELSE pc' = pc /\ call' = c
  /\ UNCHANGED <<file, streams, faults, history>>

\* The end of the file: every read() that is left finds it, too.
ReadEof ==
  /\ pc = "read" /\ call.h \in open /\ Here >= Len(file) /\ Return("eof", call)
  /\ UNCHANGED <<file, handles, streams, faults, history>>

\* read(), which returns a byte or -1, in readLine()
BeginReadLine(s) == kind[s] = "rw" /\ Begin(s, "readLine", "line", 0, <<>>)

\* -1 ends the line; there is none if nothing comes before it.
LineEnds(c) == Return(IF c.buf = <<>> THEN "null" ELSE "ok", c)

LineByte ==
  /\ pc = "line" /\ call.h \in open /\ Here < Len(file) /\ Move(call.h, Here + 1)
  /\ LET b == file[Here + 1]
         c == [call EXCEPT !.buf = Append(@, b)]
     IN \/ b = "lf" /\ Return("ok", call)
        \/ b = "cr" /\ pc' = "mark" /\ call' = call
        \/ b \notin {"cr", "lf"} /\ pc' = pc /\ call' = c
        \* With stray bits it is some character, or all bits set and -1.
        \/ pc' = pc /\ call' = [c EXCEPT !.stray = TRUE]
        \/ b = "x" /\ LineEnds([call EXCEPT !.stray = TRUE])
  /\ UNCHANGED <<file, streams, faults, history>>

LineEof ==
  /\ pc = "line" /\ call.h \in open /\ Here >= Len(file) /\ LineEnds(call)
  /\ UNCHANGED <<file, handles, streams, faults, history>>

\* getFilePointer()
LineMark ==
  /\ pc = "mark" /\ call.h \in open
  /\ pc' = "peek" /\ call' = [call EXCEPT !.mark = Here]
  /\ UNCHANGED <<file, handles, streams, faults, history>>

LinePeek ==
  /\ pc = "peek" /\ call.h \in open
  /\ \/ Here < Len(file) /\ file[Here + 1] = "lf" /\ Move(call.h, Here + 1)
        /\ \/ Return("ok", call)
           \/ pc' = "back" /\ call' = [call EXCEPT !.stray = TRUE]
     \/ Here < Len(file) /\ file[Here + 1] # "lf" /\ Move(call.h, Here + 1)
        /\ pc' = "back" /\ call' = call
     \/ Here >= Len(file) /\ UNCHANGED handles /\ pc' = "back" /\ call' = call
  /\ UNCHANGED <<file, streams, faults, history>>

\* Mutant: what was read after the carriage return is not put back.
StayHere == Here
Back == call.mark

LineBack ==
  /\ pc = "back" /\ call.h \in open /\ Move(call.h, Back) /\ Return("ok", call)
  /\ UNCHANGED <<file, streams, faults, history>>

-----------------------------------------------------------------------------
\* write(b), and writeInt() and its like, which write byte by byte.
BeginWrite(s, o, d) ==
  /\ kind[s] \in Writers /\ Live(s) /\ pos[fd[s]] + Len(d) <= MaxLen
  /\ Begin(s, o, "write", Len(d), d)

\* The n bytes that are next, at the pointer.
Written(n) == Overlay(file, Here, SubSeq(call.buf, Done + 1, Done + n))

\* Mutant: after a short write, the next one starts a whole chunk further on.
WholeChunk(n) == Least({call.left, Chunk})
Progress(n) == n

WriteChunk ==
  /\ pc = "write" /\ call.h \in open /\ call.left > 0
  /\ \E n \in 1 .. Least({call.left, Chunk}) :
       LET c == [call EXCEPT !.left = @ - Progress(n)]
       IN /\ file' = Written(n) /\ Move(call.h, Here + n)
          /\ IF c.left = 0 THEN Return("ok", c) ELSE pc' = pc /\ call' = c
  /\ UNCHANGED <<streams, faults, history>>

\* A failed request may have written its bytes all the same.
WriteFails ==
  /\ pc = "write" /\ Fails(call.h) /\ Return("thrown", call)
  /\ \/ UNCHANGED file
     \/ call.h \in open /\ file' = Written(Least({call.left, Chunk}))
  /\ UNCHANGED <<handles, streams, history>>

\* Every other step of a call fails with an exception.
CallFails ==
  /\ pc \notin {"idle", "write"} /\ Fails(call.h) /\ Return("thrown", call)
  /\ UNCHANGED <<file, handles, streams, history>>

(* write(b, off, len) writes the first len bytes of b at position off: see *)
(* OverlappedWrite.                                                        *)
WriteAt(s, d, off) ==
  /\ pc = "idle" /\ Live(s) /\ kind[s] \in Writers /\ off + Len(d) <= MaxLen
  /\ LET c == [NoCall EXCEPT !.op = "writeAt", !.s = s, !.h = fd[s], !.start = off,
                             !.buf = d, !.before = file]
     IN \/ fd[s] \in open /\ file' = Overlay(file, off, d) /\ NoFault /\ Return("ok", c)
        \/ Fails(fd[s]) /\ file' \in {file, Overlay(file, off, d)} /\ Return("thrown", c)
  /\ UNCHANGED <<handles, streams, history>>

-----------------------------------------------------------------------------
\* seek(p); length(), which seeks the end; skip(n) and skipBytes(n)
Seek(s, p) ==
  /\ pc = "idle" /\ Live(s) /\ p <= MaxLen
  /\ \/ fd[s] \in open /\ Move(fd[s], p) /\ NoFault
     \/ Fails(fd[s]) /\ UNCHANGED handles
  /\ Forget /\ UNCHANGED <<file, streams, history>>
SeekCall(s) == kind[s] = "rw" /\ \E p \in 0 .. MaxLen : Seek(s, p)
Length(s) == kind[s] = "rw" /\ Seek(s, Len(file))
Skip(s) == kind[s] \in Readers /\ fd[s] # "null" /\ \E n \in 1 .. MaxLen : Seek(s, pos[fd[s]] + n)

\* setLength(n) moves the pointer there first.
SetLength(s) == kind[s] = "rw" /\ \E n \in 0 .. MaxLen : Begin(s, "setLength", "seteof", n, <<>>)
SetPointer ==
  /\ pc = "seteof" /\ call.h \in open /\ Move(call.h, call.left)
  /\ pc' = "truncate" /\ UNCHANGED <<file, call, streams, faults, history>>
SetEndOfFile ==
  /\ pc = "truncate" /\ call.h \in open
  /\ file' = [i \in 1 .. Here |-> IF i <= Len(file) THEN file[i] ELSE "nul"]
  /\ Return("ok", call) /\ UNCHANGED <<handles, streams, faults, history>>

-----------------------------------------------------------------------------
Calls(s) ==
  \/ \E k \in Kinds : Open(s, k)
  \/ \E other \in Objects : Share(s, other)
  \/ CloseCall(s) \/ Drop(s)
  \/ \E n \in 1 .. MaxLen, o \in {"read", "readInt"} : BeginRead(s, o, n)
  \/ BeginReadLine(s)
  \/ \E d \in Data : \/ \E o \in {"write", "writeInt"} : BeginWrite(s, o, d)
                     \/ \E off \in 0 .. 1 : WriteAt(s, d, off)
  \/ SeekCall(s) \/ Length(s) \/ Skip(s) \/ SetLength(s)

Requests ==
  \/ ReadChunk \/ ReadEof
  \/ LineByte \/ LineEof \/ LineMark \/ LinePeek \/ LineBack
  \/ WriteChunk \/ WriteFails \/ CallFails \/ SetPointer \/ SetEndOfFile

Next == (\E s \in Objects : Calls(s) \/ Finalize(s)) \/ OpenFails \/ Requests

Spec == Init /\ [][Next]_vars

-----------------------------------------------------------------------------
(* Type correctness.                                                       *)
TypeOK ==
  /\ \A i \in 1 .. Len(file) : file[i] \in Bytes
  /\ Len(file) <= MaxLen
  /\ open \subseteq Handles /\ pos \in [Handles -> 0 .. MaxLen]
  /\ kind \in [Objects -> Kinds \cup {"none"}]
  /\ fd \in [Objects -> Handles \cup {"null"}]
  /\ status \in [Objects -> {"live", "dropped", "gone"}]
  /\ pc \in {"idle", "read", "line", "mark", "peek", "back", "write", "seteof", "truncate"}
  /\ call.left \in 0 .. MaxLen /\ call.start \in 0 .. MaxLen /\ call.mark \in 0 .. MaxLen
  /\ pc # "idle" => call.h \in Handles
  /\ faults \in 0 .. MaxFaults /\ {shared, misclosed} \subseteq BOOLEAN
  /\ orphans \subseteq Handles

Ended(o, r) == pc = "idle" /\ call.op = o /\ call.ret = r
StillOpen == call.h \in open

(* The open handles are those of the streams, one each, as long as no      *)
(* FileDescriptor has been given to a second stream and no close has both  *)
(* failed and closed: no stream loses its handle to another's close() or   *)
(* finalize(), and none is left open that no stream will close, unless the *)
(* close() of its finalize() fails.                                        *)
OpenAreOwned ==
  ~shared /\ ~misclosed =>
    /\ open = ({fd[s] : s \in Objects} \ {"null"}) \cup orphans
    /\ \A s, t \in Objects : fd[s] = fd[t] /\ fd[s] # "null" => s = t

(* read(b) puts the bytes from the pointer on one after the other however  *)
(* the server cuts them, and stops short only at the end of the file; so   *)
(* does readInt(), if none of its bytes came with stray bits. With them it *)
(* may return another number, or report the end of the file wrongly, but   *)
(* the pointer is behind the last byte read all the same.                  *)
ReadsInOrder ==
  \A o \in {"read", "readInt"}, r \in {"ok", "eof"} : Ended(o, r) =>
    /\ StillOpen => Here = call.start + Done
    /\ r = "ok" => call.left = 0
    /\ ~call.stray =>
         /\ SubSeq(call.buf, 1, Done) = SubSeq(file, call.start + 1, call.start + Done)
         /\ r = "eof" => call.start + Done >= Len(file)

(* A write(b) or writeInt() that returns has put all its bytes where the   *)
(* pointer was, and moved the pointer behind them; one that throws has     *)
(* touched nothing but that place.                                         *)
WritesInOrder ==
  \A o \in {"write", "writeInt"} :
    /\ Ended(o, "ok") =>
         /\ file = Overlay(call.before, call.start, call.buf)
         /\ StillOpen => Here = call.start + Len(call.buf)
    /\ Ended(o, "thrown") =>
         \A i \in 1 .. Len(call.before) :
           i \notin call.start + 1 .. call.start + Len(call.buf) => file[i] = call.before[i]

(* A readLine() none of whose bytes came with stray bits consumes one line *)
(* and its terminator, carriage return, line feed or both, and returns it. *)
ReadsALine ==
  Ended("readLine", "ok") /\ ~call.stray /\ StillOpen =>
    \E terminator \in {<<>>, <<"cr">>, <<"lf">>, <<"cr", "lf">>} :
      /\ SubSeq(file, call.start + 1, Here) = call.buf \o terminator
      /\ \A i \in 1 .. Len(call.buf) : call.buf[i] \notin {"cr", "lf"}
      /\ terminator = <<>> => Here = Len(file)
      /\ (terminator = <<"cr">> /\ Here < Len(file)) => file[Here + 1] # "lf"
=============================================================================

------------------------------ MODULE ResolverIO ------------------------------
(***************************************************************************)
(* Reading and writing a document through the bridge: resolver_read,       *)
(* resolver_write, resolver_pread, resolver_pwrite, resolver_seek and      *)
(* resolver_truncate, of threads of of_core, on one ResolverFile. Its two  *)
(* channels are of duplicates of one descriptor: they have one offset,     *)
(* which each call to the kernel moves on its own.                         *)
(***************************************************************************)
EXTENDS Integers, Sequences

CONSTANTS
  Threads,
  Bytes,      (* that are written                                            *)
  Lengths,    (* of reads and writes                                         *)
  Offsets,    (* that of_core asks for, of 64 bits                           *)
  Half,       (* a jint is from -Half up to, and without, Half               *)
  MaxSize     (* bound: the size of the document                             *)

ResolverIOBounds ==
  /\ Half \in Nat /\ MaxSize \in Nat /\ Offsets \subseteq Int /\ Lengths \subseteq Nat
  /\ 0 \notin Bytes /\ Bytes \subseteq Nat

VARIABLES
  contents,   (* of the document                                             *)
  offset,     (* of the open file, in the kernel                             *)
  pc, call,   (* of each thread: where seek or truncate is, and its locals   *)
  got,        (* the bytes the last transfer has given, if it is a read      *)
  ret,        (* what the last transfer has returned to of_core              *)
  meant,      (* history: the contents the calls ask for                     *)
  cursor,     (* history: the offset they ask for                            *)
  due,        (* history: the bytes it should give                           *)
  strayed     (* history: a position beyond a jint has been used, a seek or  *)
              (* truncate has failed half way, or a call has met one there   *)

history == <<meant, cursor, due, strayed>>
vars == <<contents, offset, pc, call, got, ret, history>>

NoCall == [whence |-> 0, o |-> 0]
Init ==
  /\ contents = <<>> /\ offset = 0 /\ got = <<>> /\ ret = 0
  /\ pc = [t \in Threads |-> "idle"] /\ call = [t \in Threads |-> NoCall]
  /\ meant = <<>> /\ cursor = 0 /\ due = <<>> /\ strayed = FALSE

Least(a, b) == IF a < b THEN a ELSE b
Idle(t) == pc[t] = "idle"
Goto(t, where, c) == pc' = [pc EXCEPT ![t] = where] /\ call' = [call EXCEPT ![t] = c]
Moving == \E t \in Threads : pc[t] # "idle"

\* (jint) offset
Jint(o) == ((o + Half) % (2 * Half)) - Half

\* Byte v, n times, at position p of s; what is not written is zero.
Written(s, p, v, n) ==
  [i \in 1 .. (IF n > 0 /\ p + n > Len(s) THEN p + n ELSE Len(s)) |->
     IF i \in p + 1 .. p + n THEN v ELSE IF i <= Len(s) THEN s[i] ELSE 0]
Sub(s, p, n) == SubSeq(s, p + 1, Least(p + n, Len(s)))
Shortened(s, n) == SubSeq(s, 1, Least(n, Len(s)))

\* The history goes on with m, c and d, unless a call strays.
Means(m, c, d, stray) ==
  IF strayed \/ stray
  THEN strayed' = TRUE /\ meant' = <<>> /\ cursor' = 0 /\ due' = <<>>
  ELSE strayed' = FALSE /\ meant' = m /\ cursor' = c /\ due' = d
Fails == UNCHANGED <<contents, offset, got>>

\* What a channel returns: how many of n bytes it has written; how many of those
\* there are it has read, or -1 at the end; or it throws an exception.
Thrown == -2
Writes(n) == (Least(1, n) .. n) \cup {Thrown}
Reads(there) == (IF there = 0 THEN {-1} ELSE 1 .. there) \cup {Thrown}

\* Mutant: an exception is taken for the end of the document.
ZeroOf(k) == IF k < 0 THEN 0 ELSE k
\* What of_core gets of that: -1 for an exception.
WriteReturns(k) == IF k = Thrown THEN -1 ELSE k
ReadReturns(k) == IF k = Thrown THEN -1 ELSE IF k = -1 THEN 0 ELSE k
Moved(r) == IF r > 0 THEN r ELSE 0
\* The bytes a read of n at p is for, if it returns r: none only at the end.
Due(p, n, r) == Sub(meant, p, IF r = 0 /\ Len(Sub(meant, p, n)) # 0 THEN n ELSE Moved(r))

-----------------------------------------------------------------------------
\* resolver_write and resolver_read go on from the offset.
Write(t, v, n) ==
  /\ Idle(t) /\ offset + n <= MaxSize
  /\ \E k \in Writes(n) :
       /\ contents' = Written(contents, offset, v, Moved(k)) /\ offset' = offset + Moved(k)
       /\ ret' = WriteReturns(k)
  /\ Means(Written(meant, cursor, v, Moved(ret')), cursor + Moved(ret'), <<>>, Moving)
  /\ got' = <<>> /\ UNCHANGED <<pc, call>>

Read(t, n) ==
  /\ Idle(t)
  /\ \E k \in Reads(Len(Sub(contents, offset, n))) :
       /\ got' = Sub(contents, offset, Moved(k)) /\ offset' = offset + Moved(k)
       /\ ret' = ReadReturns(k)
  /\ Means(meant, cursor + Moved(ret'), Due(cursor, n, ret'), Moving)
  /\ UNCHANGED <<contents, pc, call>>

\* Mutant: the channel is moved to the position, to write there.
MovedBy(p, n) == p + n
NotMoved(p, n) == offset
InRange(o) == o \in 0 .. Half - 1

(* resolver_pwrite. A position that is negative as a jint is refused by    *)
(* the channel with an exception that pwrite does not catch and that       *)
(* resolver_pwrite clears: what it returns is undefined.                   *)
PWrite(t, v, n, o) ==
  /\ Idle(t)
  /\ LET p == Jint(o) IN
     IF p < 0 THEN UNCHANGED <<contents, offset>> /\ ret' \in -1 .. n
     ELSE /\ p + n <= MaxSize
          /\ \E k \in Writes(n) :
               /\ contents' = Written(contents, p, v, Moved(k)) /\ offset' = NotMoved(p, Moved(k))
               /\ ret' = WriteReturns(k)
  /\ Means(Written(meant, IF InRange(o) THEN o ELSE 0, v, Moved(ret')), cursor, <<>>, ~InRange(o))
  /\ got' = <<>> /\ UNCHANGED <<pc, call>>

\* resolver_pread, whose exceptions ResolverFile.pread catches itself.
PRead(t, n, o) ==
  /\ Idle(t)
  /\ LET p == Jint(o) IN
     IF p < 0 THEN UNCHANGED <<contents, offset>> /\ got' = <<>> /\ ret' = ReadReturns(Thrown)
     ELSE /\ UNCHANGED <<contents, offset>>
          /\ \E k \in Reads(Len(Sub(contents, p, n))) :
               got' = Sub(contents, p, Moved(k)) /\ ret' = ReadReturns(k)
  /\ Means(meant, cursor, IF InRange(o) THEN Due(o, n, ret') ELSE <<>>, ~InRange(o))
  /\ UNCHANGED <<pc, call>>

-----------------------------------------------------------------------------
\* Where a seek by o leads: the third whence goes back from the end.
Target(whence, o, at, size) == <<o, at + o, size - o>>[whence + 1]

(* resolver_seek. The offset is read, set through one channel, and set     *)
(* through the other.                                                      *)
Seek(t, o, whence) ==
  /\ Idle(t)
  /\ LET to == Target(whence, o, offset, Len(contents))
         asked == Target(whence, o, cursor, Len(meant))
     IN /\ to \in 0 .. MaxSize /\ Goto(t, "position", [whence |-> whence, o |-> to])
        /\ Means(meant, asked, due, Moving)
  /\ UNCHANGED <<contents, offset, got, ret>>

\* The offset or the size cannot be read, a document cannot be cut, or the
\* position is negative, an exception that resolver_seek clears.
SeekFails(t) ==
  /\ Idle(t) /\ Fails
  /\ Means(meant, cursor, due, Moving) /\ UNCHANGED <<pc, call, ret>>

\* fcoc.position(newpos), then fcic.position(newpos)
Position(t) ==
  /\ pc[t] \in {"position", "again"} /\ offset' = call[t].o
  /\ IF pc[t] = "position" THEN Goto(t, "again", call[t]) ELSE Goto(t, "idle", NoCall)
  /\ UNCHANGED <<contents, got, ret, history>>

PositionFails(t) ==
  /\ ~Idle(t) /\ Fails /\ Goto(t, "idle", NoCall)
  /\ Means(meant, cursor, due, TRUE) /\ UNCHANGED ret

(* resolver_truncate. The channel reads the offset, cuts the document, and *)
(* sets the offset to what it was, or to the new size if that is less.     *)
Truncate(t, n) ==
  /\ Idle(t) /\ n >= 0
  /\ contents' = Shortened(contents, n)
  /\ Goto(t, "again", [whence |-> 0, o |-> Least(offset, n)])
  /\ Means(Shortened(meant, n), Least(cursor, n), due, Moving)
  /\ UNCHANGED <<offset, got, ret>>

Next ==
  \E t \in Threads :
    \/ \E n \in Lengths :
         \/ Read(t, n) \/ \E o \in Offsets : PRead(t, n, o)
         \/ \E v \in Bytes : Write(t, v, n) \/ \E o \in Offsets : PWrite(t, v, n, o)
    \/ \E o \in Offsets :
         \/ \E whence \in 0 .. 2 : Seek(t, o, whence)
         \/ Truncate(t, o)
    \/ SeekFails(t) \/ Position(t) \/ PositionFails(t)

Spec == Init /\ [][Next]_vars

-----------------------------------------------------------------------------
(* As long as positions fit a jint, no seek or truncate of one thread is   *)
(* met half way by a call that uses the offset, and none fails there: the  *)
(* document has of each write as many bytes as the call has returned, where*)
(* they were to be, and a read gives as many as it has returned, none only *)
(* at the end. Short and failed transfers leave the next ones in place, and*)
(* positioned calls and the others do not disturb each other.              *)
IOLandsWhereAsked ==
  ~strayed => contents = meant /\ got = due /\ (Moving \/ offset = cursor)
=============================================================================

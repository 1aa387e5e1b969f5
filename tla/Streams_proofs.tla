---------------------------- MODULE Streams_proofs ----------------------------
(***************************************************************************)
(* Proofs about Streams, for any streams, handles and bounds: who owns the *)
(* open handles, and where reads, writes and lines go on from the pointer  *)
(* however the requests they are made of are cut, fail, or meet the        *)
(* finalizer thread.                                                       *)
(***************************************************************************)
EXTENDS Streams, SequenceTheorems, TLAPS

Reading == {"read", "readInt"}
Writing == {"write", "writeInt"}
InLine == {"line", "mark", "peek", "back"}

\* The call under way, or made last, and the arrays it has to do with.
CallRecord ==
  [op : {"none", "read", "readInt", "readLine", "write", "writeInt", "writeAt", "setLength"},
   s : Objects \cup {"none"}, h : Handles \cup {"null"}, start : 0 .. MaxLen, left : 0 .. MaxLen,
   buf : Seq(Bytes), before : Seq(Bytes), stray : BOOLEAN, negative : BOOLEAN,
   mark : 0 .. MaxLen,
   ret : {"none", "ok", "eof", "null", "thrown"}]
Typed ==
  /\ TypeOK /\ file \in Seq(Bytes) /\ call \in CallRecord
  /\ call.op \in Reading \cup Writing => call.left <= Len(call.buf)

\* Each step is one of the call it belongs to.
StepsOfCall ==
  /\ pc = "read" => call.op \in Reading
  /\ pc \in InLine => call.op = "readLine"
  /\ pc = "write" => call.op \in Writing
  /\ pc \in {"seteof", "truncate"} => call.op = "setLength"

\* A stream that is gone has no handle, and nobody has one that was left open.
Owned ==
  /\ \A s \in Objects : status[s] = "gone" => fd[s] = "null"
  /\ ~shared /\ ~misclosed => \A s \in Objects : fd[s] \notin orphans

\* What has been read is in place, and the pointer behind it.
ReadsOn ==
  pc = "read" =>
    /\ call.left > 0
    /\ \A i \in 1 .. Done : call.buf[i] = file[call.start + i]
    /\ Done = 0 \/ call.start + Done <= Len(file)
    /\ StillOpen => Here = call.start + Done
    /\ call.negative => call.stray

\* What has been written is, and the pointer behind it.
WritesOn ==
  pc = "write" =>
    /\ call.start + Len(call.buf) <= MaxLen
    /\ file = Overlay(call.before, call.start, SubSeq(call.buf, 1, Done))
    /\ StillOpen => Here = call.start + Done

\* A line without stray bits has been read up to the pointer, or to a carriage
\* return before it.
LineOn ==
  pc \in InLine /\ ~call.stray /\ StillOpen =>
    LET n == Len(call.buf) IN
    /\ \A i \in 1 .. n : call.buf[i] = file[call.start + i] /\ call.buf[i] \notin {"cr", "lf"}
    /\ n = 0 \/ call.start + n <= Len(file)
    /\ pc = "line" => Here = call.start + n
    /\ pc # "line" => call.start + n < Len(file) /\ file[call.start + n + 1] = "cr"
    /\ pc \in {"mark", "peek"} => Here = call.start + n + 1
    /\ pc \in {"peek", "back"} => call.mark = call.start + n + 1
    /\ pc = "back" /\ call.mark < Len(file) => file[call.mark + 1] # "lf"

Answers == ReadsInOrder /\ WritesInOrder /\ ReadsALine

\* What holds of the call, and what holds of the handles.
CallInv == StepsOfCall /\ ReadsOn /\ WritesOn /\ LineOn /\ Answers
HandlesInv == Owned /\ OpenAreOwned
SInv == Typed /\ CallInv /\ HandlesInv

-----------------------------------------------------------------------------
(* Lemmas on the operators of Streams.                                     *)

LEMMA LeastOfTwo ==
  ASSUME NEW a \in Nat, NEW b \in Nat
  PROVE  Least({a, b}) \in Nat /\ Least({a, b}) \in {a, b} /\ Least({a, b}) <= a
         /\ Least({a, b}) <= b
<1>1. \E n \in {a, b} : \A k \in {a, b} : n <= k
  OBVIOUS
<1>2. Least({a, b}) \in {a, b} /\ \A k \in {a, b} : Least({a, b}) <= k
  BY <1>1 DEF Least
<1> QED BY <1>2

\* Sequences are taken as functions here.
LEMMA SequenceIs ==
  ASSUME NEW s
  PROVE  /\ s \in Seq(Bytes) => Len(s) \in Nat /\ s \in [1 .. Len(s) -> Bytes]
         /\ \A n \in Nat : s \in [1 .. n -> Bytes] => s \in Seq(Bytes) /\ Len(s) = n
<1>1. ASSUME s \in Seq(Bytes)
      PROVE  Len(s) \in Nat /\ s \in [1 .. Len(s) -> Bytes]
  BY <1>1, LenProperties
<1>2. ASSUME NEW n \in Nat, s \in [1 .. n -> Bytes]
      PROVE  s \in Seq(Bytes) /\ Len(s) = n
  <2>1. s \in UNION {[1 .. m -> Bytes] : m \in Nat}
    BY <1>2
  <2>2. s \in Seq(Bytes)
    BY <2>1, SeqDef
  <2>3. DOMAIN s = 1 .. n
    BY <1>2
  <2> QED BY <2>2, <2>3, LenProperties
<1> QED BY <1>1, <1>2

\* s is a sequence of n bytes.
IsString(s, n) == n \in Nat /\ s \in [1 .. n -> Bytes]

\* How far a file of n bytes reaches when m more are laid on it at p.
Reach(n, p, m) == IF p + m > n /\ m > 0 THEN p + m ELSE n

\* An overlay is the bytes of d from p on, and those of f elsewhere.
LEMMA OverlayIs ==
  ASSUME NEW f, NEW n, NEW d, NEW m, NEW p, IsString(f, n), IsString(d, m), p \in Nat
  PROVE  /\ IsString(Overlay(f, p, d), Reach(n, p, m))
         /\ \A i \in 1 .. Reach(n, p, m) :
              Overlay(f, p, d)[i] = IF i \in p + 1 .. p + m THEN d[i - p]
                                    ELSE IF i <= n THEN f[i] ELSE "nul"
<1> DEFINE At(i) == IF i \in p + 1 .. p + m THEN d[i - p] ELSE IF i <= n THEN f[i] ELSE "nul"
           k == Reach(n, p, m)
<1>0. n \in Nat /\ m \in Nat /\ f \in [1 .. n -> Bytes] /\ d \in [1 .. m -> Bytes]
  BY DEF IsString
<1>1. f \in Seq(Bytes) /\ Len(f) = n /\ d \in Seq(Bytes) /\ Len(d) = m
  BY <1>0, SequenceIs
<1>2. d # <<>> <=> m > 0
  BY <1>1, EmptySeq
<1>3. k \in Nat
  BY <1>0 DEF Reach
<1>4. Overlay(f, p, d) = [i \in 1 .. k |-> At(i)]
  BY <1>1, <1>2 DEF Overlay, Reach
<1>5. ASSUME NEW i \in 1 .. k
      PROVE  At(i) \in Bytes
  <2>1. CASE i \in p + 1 .. p + m
    BY <1>0, <2>1
  <2>2. CASE i \notin p + 1 .. p + m /\ i <= n
    BY <1>0, <1>3, <2>2
  <2>3. CASE i \notin p + 1 .. p + m /\ ~(i <= n)
    BY <2>3 DEF Bytes
  <2> QED BY <2>1, <2>2, <2>3
<1>6. Overlay(f, p, d) \in [1 .. k -> Bytes]
  <2> HIDE DEF At, k
  <2> QED BY <1>4, <1>5
<1>7. IsString(Overlay(f, p, d), k)
  BY <1>3, <1>6 DEF IsString
<1> QED BY <1>4, <1>7

LEMMA OverlayNothing ==
  ASSUME NEW f, NEW n, NEW d, NEW p, IsString(f, n), IsString(d, 0), p \in Nat
  PROVE  Overlay(f, p, d) = f
<1>1. /\ IsString(Overlay(f, p, d), Reach(n, p, 0))
      /\ \A i \in 1 .. Reach(n, p, 0) :
           Overlay(f, p, d)[i] = IF i \in p + 1 .. p + 0 THEN d[i - p]
                                 ELSE IF i <= n THEN f[i] ELSE "nul"
  BY OverlayIs
<1> QED BY <1>1 DEF IsString, Reach

\* The n bytes of b behind the first k, and the first n.
Stretch(b, k, n) == SubSeq(b, k + 1, k + n)
Prefix(b, n) == SubSeq(b, 1, n)

\* b is a sequence of l bytes, n or more of them behind the first k.
Fits(b, l, k, n) == IsString(b, l) /\ k \in Nat /\ n \in Nat /\ k + n <= l
\* The bytes of b behind the first k are those of d, n in all.
Holds(b, k, n, d) == IsString(d, n) /\ \A i \in k + 1 .. k + n : d[i - k] = b[i]

LEMMA StretchIs ==
  ASSUME NEW b, NEW l, NEW k, NEW n, Fits(b, l, k, n)
  PROVE  Holds(b, k, n, Stretch(b, k, n))
<1> USE DEF Fits
<1>0. l \in Nat /\ b \in [1 .. l -> Bytes]
  BY DEF IsString
<1>1. Stretch(b, k, n) = [i \in 1 .. n |-> b[k + i]]
  BY <1>0 DEF Stretch
<1>2. \A i \in 1 .. n : b[k + i] \in Bytes
  BY <1>0
<1>3. IsString(Stretch(b, k, n), n)
  BY <1>1, <1>2 DEF IsString
<1>4. ASSUME NEW i \in k + 1 .. k + n
      PROVE  Stretch(b, k, n)[i - k] = b[i]
  <2>1. i - k \in 1 .. n /\ k + (i - k) = i
    OBVIOUS
  <2> QED BY <1>1, <2>1
<1> QED BY <1>3, <1>4 DEF Holds

LEMMA PrefixIs ==
  ASSUME NEW b, NEW l, NEW n, IsString(b, l), n \in Nat, n <= l
  PROVE  /\ IsString(Prefix(b, n), n)
         /\ \A i \in 1 .. n : Prefix(b, n)[i] = b[i]
<1>0. l \in Nat /\ b \in [1 .. l -> Bytes]
  BY DEF IsString
<1>1. Prefix(b, n) = [i \in 1 .. n |-> b[i]]
  BY <1>0 DEF Prefix
<1>2. \A i \in 1 .. n : b[i] \in Bytes
  BY <1>0
<1>3. IsString(Prefix(b, n), n)
  BY <1>1, <1>2 DEF IsString
<1> QED BY <1>1, <1>3

LEMMA WholePrefix ==
  ASSUME NEW b, NEW m, IsString(b, m)
  PROVE  Prefix(b, m) = b
<1>1. m \in Nat /\ b \in [1 .. m -> Bytes]
  BY DEF IsString
<1>2. Prefix(b, m) = [i \in 1 .. m |-> b[i]]
  BY <1>1 DEF Prefix
<1> QED BY <1>1, <1>2

\* "both" is k bytes, "first", and n more, "next".
Joined(first, k, next, n, both) ==
  /\ IsString(first, k) /\ IsString(next, n) /\ IsString(both, k + n)
  /\ \A i \in 1 .. k : both[i] = first[i]
  /\ \A i \in k + 1 .. k + n : both[i] = next[i - k]

\* q is k behind p.
Behind(q, p, k) == p \in Nat /\ q = p + k

\* Overlaying one sequence and then the next is overlaying both at once.
LEMMA OverlayBoth ==
  ASSUME NEW f, NEW l, NEW first, NEW k, NEW next, NEW n, NEW both, NEW p, NEW q,
         IsString(f, l), Joined(first, k, next, n, both), Behind(q, p, k), n > 0
  PROVE  Overlay(Overlay(f, p, first), q, next) = Overlay(f, p, both)
<1> USE DEF Joined, Behind
<1>0. /\ l \in Nat /\ k \in Nat /\ n \in Nat /\ q \in Nat
      /\ f \in [1 .. l -> Bytes] /\ first \in [1 .. k -> Bytes] /\ next \in [1 .. n -> Bytes]
      /\ both \in [1 .. k + n -> Bytes]
  BY DEF IsString
<1> DEFINE a == Reach(l, p, k)
           c == Reach(l, p, k + n)
           mid == Overlay(f, p, first)
<1>1. a = (IF q > l /\ k > 0 THEN q ELSE l) /\ c = IF q + n > l THEN q + n ELSE l
  BY <1>0 DEF Reach
<1>2. Reach(a, q, n) = c
  BY <1>0, <1>1 DEF Reach
<1>3. /\ IsString(mid, a)
      /\ \A i \in 1 .. a : mid[i] = IF i \in p + 1 .. p + k THEN first[i - p]
                                   ELSE IF i <= l THEN f[i] ELSE "nul"
  BY OverlayIs
<1>4. /\ IsString(Overlay(f, p, both), c)
      /\ \A i \in 1 .. c :
           Overlay(f, p, both)[i] = IF i \in p + 1 .. p + (k + n) THEN both[i - p]
                                    ELSE IF i <= l THEN f[i] ELSE "nul"
  BY OverlayIs
<1> HIDE DEF a, c, mid
<1>5. /\ IsString(Overlay(mid, q, next), c)
      /\ \A i \in 1 .. c :
           Overlay(mid, q, next)[i] = IF i \in q + 1 .. q + n THEN next[i - q]
                                      ELSE IF i <= a THEN mid[i] ELSE "nul"
  <2>1. /\ IsString(Overlay(mid, q, next), Reach(a, q, n))
        /\ \A i \in 1 .. Reach(a, q, n) :
             Overlay(mid, q, next)[i] = IF i \in q + 1 .. q + n THEN next[i - q]
                                        ELSE IF i <= a THEN mid[i] ELSE "nul"
    <3>1. IsString(mid, a) /\ IsString(next, n) /\ q \in Nat
      BY <1>0, <1>3
    <3> QED BY <3>1, OverlayIs
  <2> QED BY <1>2, <2>1
<1>6. c \in Nat /\ a \in Nat
  BY <1>0, <1>1
<1>7. ASSUME NEW i \in 1 .. c
      PROVE  Overlay(mid, q, next)[i] = Overlay(f, p, both)[i]
  <2>1. CASE i \in q + 1 .. q + n
    <3>1. i - p \in k + 1 .. k + n /\ i - q = (i - p) - k /\ i \in p + 1 .. p + (k + n)
      BY <1>0, <2>1
    <3>2. Overlay(mid, q, next)[i] = next[i - q]
      BY <1>5, <2>1
    <3>3. Overlay(f, p, both)[i] = both[i - p]
      BY <1>4, <3>1
    <3> QED BY <3>1, <3>2, <3>3
  <2>2. CASE i \in p + 1 .. q
    <3>1. i - p \in 1 .. k /\ i \in 1 .. a /\ i \notin q + 1 .. q + n /\ i \in p + 1 .. p + (k + n)
      BY <1>0, <1>1, <2>2
    <3>2. Overlay(mid, q, next)[i] = mid[i]
      BY <1>5, <1>6, <3>1
    <3>3. mid[i] = first[i - p]
      BY <1>3, <2>2, <3>1
    <3>4. Overlay(f, p, both)[i] = both[i - p]
      BY <1>4, <3>1
    <3> QED BY <3>1, <3>2, <3>3, <3>4
  <2>3. CASE i \notin p + 1 .. q + n
    <3>1. i \notin p + 1 .. p + k /\ i \notin q + 1 .. q + n /\ i \notin p + 1 .. p + (k + n)
      BY <1>0, <2>3
    <3>2. i <= a => Overlay(mid, q, next)[i] = IF i <= l THEN f[i] ELSE "nul"
      BY <1>3, <1>5, <1>6, <3>1
    <3>3. ~(i <= a) => i > l /\ Overlay(mid, q, next)[i] = "nul"
      BY <1>0, <1>1, <1>5, <1>6, <3>1
    <3>4. Overlay(f, p, both)[i] = IF i <= l THEN f[i] ELSE "nul"
      BY <1>4, <3>1
    <3> QED BY <1>0, <1>6, <3>2, <3>3, <3>4
  <2> QED BY <1>0, <1>6, <2>1, <2>2, <2>3
<1>8. Overlay(mid, q, next) = Overlay(f, p, both)
  BY <1>4, <1>5, <1>7 DEF IsString
<1> QED BY <1>8 DEF mid

\* Laying the next n bytes of b is laying the first k + n at once.
LEMMA OverlayTwice ==
  ASSUME NEW f, NEW l, NEW b, NEW m, NEW k, NEW n, NEW j, NEW p, NEW q,
         IsString(f, l), Fits(b, m, k, n), n > 0, Behind(q, p, k), Behind(j, k, n)
  PROVE  Overlay(Overlay(f, p, Prefix(b, k)), q, Stretch(b, k, n)) = Overlay(f, p, Prefix(b, j))
<1>0. /\ IsString(b, m) /\ m \in Nat /\ k \in Nat /\ n \in Nat /\ k <= m /\ j \in Nat /\ j <= m
      /\ p \in Nat /\ j = k + n
  BY DEF Fits, IsString, Behind
<1>1. PICK first : /\ first = Prefix(b, k) /\ IsString(first, k)
                   /\ \A i \in 1 .. k : first[i] = b[i]
  <2>1. IsString(b, m) /\ k \in Nat /\ k <= m
    BY <1>0
  <2> QED BY <2>1, PrefixIs
<1>2. PICK both : /\ both = Prefix(b, j) /\ IsString(both, j)
                  /\ \A i \in 1 .. j : both[i] = b[i]
  <2>1. IsString(b, m) /\ j \in Nat /\ j <= m
    BY <1>0
  <2> QED BY <2>1, PrefixIs
<1>3. PICK next : next = Stretch(b, k, n) /\ Holds(b, k, n, next)
  BY StretchIs
<1>4. /\ \A i \in 1 .. k : both[i] = first[i]
      /\ \A i \in k + 1 .. k + n : both[i] = next[i - k]
  BY <1>0, <1>1, <1>2, <1>3 DEF Holds
<1>5. Joined(first, k, next, n, both)
  BY <1>0, <1>1, <1>2, <1>3, <1>4 DEF Joined, Holds
<1>6. Overlay(Overlay(f, p, first), q, next) = Overlay(f, p, both)
  BY <1>5, OverlayBoth
<1> QED BY <1>1, <1>2, <1>3, <1>6

-----------------------------------------------------------------------------
(* What the steps share.                                                   *)

LEMMA Bounds == MaxIO \in Nat \ {0} /\ MaxLen \in Nat \ {0} /\ MaxFaults \in Nat
BY StreamBounds

LEMMA NoCallTyped == NoCall \in CallRecord
<1>1. <<>> \in Seq(Bytes)
  BY EmptySeq
<1> QED BY <1>1, Bounds DEF NoCall, CallRecord

\* Forgetting the last call.
LEMMA Forgotten ==
  ASSUME pc = "idle", Forget
  PROVE  CallInv' /\ call' \in CallRecord /\ call'.left = 0 /\ call'.start = 0 /\ call'.mark = 0
         /\ call'.op = "none" /\ pc' = "idle"
<1>1. call' = NoCall /\ pc' = "idle" /\ call'.op = "none"
  BY DEF Forget, NoCall
<1> QED BY <1>1, NoCallTyped
        DEF CallInv, StepsOfCall, ReadsOn, WritesOn, LineOn, Answers, ReadsInOrder, WritesInOrder,
            ReadsALine, Ended, InLine, NoCall

\* The handles of a call may be closed while it is under way.
LEMMA CallGoesOn ==
  ASSUME CallInv, UNCHANGED <<file, pc, call>>, open' \subseteq open,
         \A h \in open' : pos'[h] = pos[h]
  PROVE  CallInv'
<1>1. StillOpen' => StillOpen /\ Here' = Here
  BY DEF StillOpen, Here
<1>2. Done' = Done /\ \A o, r : Ended(o, r)' <=> Ended(o, r)
  BY DEF Done, Ended
<1>3. StepsOfCall' /\ ReadsOn'
  BY <1>1, <1>2 DEF CallInv, StepsOfCall, ReadsOn
<1>4. WritesOn' /\ WritesInOrder'
  BY <1>1, <1>2 DEF CallInv, Answers, WritesOn, WritesInOrder
<1>5. LineOn'
  BY <1>1 DEF CallInv, LineOn
<1>6. ReadsInOrder'
  BY <1>1, <1>2 DEF CallInv, Answers, ReadsInOrder
<1>7. ReadsALine'
  BY <1>1, <1>2 DEF CallInv, Answers, ReadsALine
<1> QED BY <1>3, <1>4, <1>5, <1>6, <1>7 DEF CallInv, Answers

LEMMA HandlesKept ==
  ASSUME HandlesInv, UNCHANGED <<open, streams, history>>
  PROVE  HandlesInv'
BY DEF HandlesInv, Owned, OpenAreOwned, streams, history

LEMMA FaultTyped ==
  ASSUME faults \in 0 .. MaxFaults, NEW h, Fails(h) \/ Fault \/ NoFault
  PROVE  faults' \in 0 .. MaxFaults
BY Bounds DEF Fails, Fault, NoFault

-----------------------------------------------------------------------------
(* Streams come and go.                                                    *)

LEMMA OpenStep ==
  ASSUME SInv, NEW s \in Objects, NEW k \in Kinds, Open(s, k)
  PROVE  SInv'
<1>1. PICK h \in Handles \ open :
        open' = open \cup {h} /\ pos' = [pos EXCEPT ![h] = 0] /\ fd' = [fd EXCEPT ![s] = h]
  BY DEF Open
<1>2. CallInv' /\ call' \in CallRecord /\ call'.left = 0 /\ call'.start = 0 /\ call'.mark = 0
      /\ call'.op = "none" /\ pc' = "idle"
  BY Forgotten DEF Open
<1>3. file' \in Seq(Bytes) /\ Len(file') <= MaxLen /\ \A i \in 1 .. Len(file') : file'[i] \in Bytes
  BY Bounds, EmptySeq DEF Open, SInv, Typed, TypeOK
<1>4. Typed'
  BY <1>1, <1>2, <1>3, Bounds
     DEF Open, SInv, Typed, TypeOK, Reading, Writing, history
<1>5. Owned'
  BY <1>1 DEF Open, SInv, Typed, TypeOK, HandlesInv, Owned, OpenAreOwned, history
<1>6. OpenAreOwned'
  <2> SUFFICES ASSUME ~shared, ~misclosed
               PROVE  /\ open' = ({fd'[t] : t \in Objects} \ {"null"}) \cup orphans
                      /\ \A t, u \in Objects : fd'[t] = fd'[u] /\ fd'[t] # "null" => t = u
    BY DEF OpenAreOwned, Open, history
  <2>1. fd[s] = "null" /\ fd' \in [Objects -> Handles \cup {"null"}] /\ fd'[s] = h
        /\ \A t \in Objects : t # s => fd'[t] = fd[t]
    BY <1>1 DEF Open, SInv, Typed, TypeOK, HandlesInv, Owned
  <2>2. open = ({fd[t] : t \in Objects} \ {"null"}) \cup orphans
        /\ \A t, u \in Objects : fd[t] = fd[u] /\ fd[t] # "null" => t = u
    BY DEF SInv, HandlesInv, OpenAreOwned
  <2>3. h # "null" /\ \A t \in Objects : fd[t] # h
    BY <2>2, HandlesAssumption
  <2> QED BY <1>1, <2>1, <2>2, <2>3
<1> QED BY <1>2, <1>4, <1>5, <1>6 DEF SInv, HandlesInv

LEMMA ShareStep ==
  ASSUME SInv, NEW s \in Objects, NEW other \in Objects, Share(s, other)
  PROVE  SInv'
<1>1. CallInv' /\ call' \in CallRecord /\ call'.left = 0 /\ call'.start = 0 /\ call'.mark = 0
      /\ call'.op = "none" /\ pc' = "idle"
  BY Forgotten DEF Share
<1>2. Typed'
  BY <1>1, Bounds DEF Share, SInv, Typed, TypeOK, Reading, Writing, handles, Live
<1>3. HandlesInv'
  BY DEF Share, SInv, Typed, TypeOK, HandlesInv, Owned, OpenAreOwned
<1> QED BY <1>1, <1>2, <1>3 DEF SInv

\* What every close does to the handles.
LEMMA Closing ==
  ASSUME SInv, NEW s \in Objects, NEW ok \in BOOLEAN, Close(s, ok)
  PROVE  /\ open' \in {open, open \ {fd[s]}} /\ pos' \in [Handles -> 0 .. MaxLen]
         /\ \A h \in open' : pos'[h] = pos[h]
         /\ faults' \in 0 .. MaxFaults /\ misclosed' \in BOOLEAN
         /\ ok => open' = open \ {fd[s]} /\ misclosed' = misclosed
         /\ ~misclosed' => ~misclosed
         /\ ~ok /\ ~misclosed' => open' = open
<1>1. open' \in {open, open \ {fd[s]}}
  BY DEF Close
<1>2. faults' \in 0 .. MaxFaults
  BY Bounds DEF Close, Fault, NoFault, SInv, Typed, TypeOK
<1>3. pos' \in [Handles -> 0 .. MaxLen] /\ \A h \in open' : pos'[h] = pos[h]
  BY <1>1, Bounds DEF Close, SInv, Typed, TypeOK
<1>0. misclosed \in BOOLEAN
  BY DEF SInv, Typed, TypeOK
<1>4. misclosed' \in BOOLEAN /\ (ok => open' = open \ {fd[s]} /\ misclosed' = misclosed)
  <2>1. CASE ok
    BY <1>0, <2>1 DEF Close
  <2>2. CASE ~ok
    <3>1. misclosed' = misclosed \/ misclosed' = (misclosed \/ open' # open)
      BY <2>2 DEF Close
    <3> QED BY <1>0, <2>2, <3>1
  <2> QED BY <2>1, <2>2
<1>5. (~misclosed' => ~misclosed) /\ (~ok /\ ~misclosed' => open' = open)
  <2>1. CASE ok /\ UNCHANGED misclosed
    BY <2>1
  <2>2. CASE UNCHANGED <<open, misclosed>>
    BY <2>2
  <2>3. CASE misclosed' = (misclosed \/ open' # open)
    <3>1. ~misclosed' => ~misclosed /\ ~(open' # open)
      BY <2>3, Zenon
    <3> QED BY <3>1
  <2> QED BY <2>1, <2>2, <2>3 DEF Close
<1> QED BY <1>1, <1>2, <1>3, <1>4, <1>5

LEMMA CloseStep ==
  ASSUME SInv, NEW s \in Objects, CloseCall(s)
  PROVE  SInv'
<1>1. PICK ok \in BOOLEAN : Close(s, ok) /\ fd' = [fd EXCEPT ![s] = AfterClose(s, ok)]
  BY DEF CloseCall
<1>2. /\ open' \in {open, open \ {fd[s]}} /\ pos' \in [Handles -> 0 .. MaxLen]
      /\ faults' \in 0 .. MaxFaults /\ misclosed' \in BOOLEAN
      /\ ok => open' = open \ {fd[s]} /\ misclosed' = misclosed
      /\ ~misclosed' => ~misclosed
      /\ ~ok /\ ~misclosed' => open' = open
  BY <1>1, Closing
<1>3. CallInv' /\ call' \in CallRecord /\ call'.left = 0 /\ call'.start = 0 /\ call'.mark = 0
      /\ call'.op = "none" /\ pc' = "idle"
  BY Forgotten DEF CloseCall
<1>4. /\ fd' \in [Objects -> Handles \cup {"null"}] /\ fd'[s] = (IF ok THEN "null" ELSE fd[s])
      /\ \A t \in Objects : t # s => fd'[t] = fd[t]
  BY <1>1 DEF AfterClose, SInv, Typed, TypeOK
<1>5. Typed'
  BY <1>2, <1>3, <1>4, Bounds DEF CloseCall, SInv, Typed, TypeOK, Reading, Writing
<1>6. Owned'
  <2>1. \A t \in Objects : status[t] = "gone" => fd'[t] = "null"
    BY <1>2, <1>4 DEF CloseCall, SInv, HandlesInv, Owned, Live
  <2>2. "null" \notin orphans
    BY HandlesAssumption DEF SInv, Typed, TypeOK
  <2>3. ASSUME ~shared, ~misclosed', NEW t \in Objects
        PROVE  fd'[t] \notin orphans
    BY <1>2, <1>4, <2>2, <2>3 DEF SInv, HandlesInv, Owned
  <2> QED BY <2>1, <2>3 DEF CloseCall, Owned
<1>7. OpenAreOwned'
  <2> SUFFICES ASSUME ~shared, ~misclosed, ~misclosed'
               PROVE  /\ open' = ({fd'[t] : t \in Objects} \ {"null"}) \cup orphans
                      /\ \A t, u \in Objects : fd'[t] = fd'[u] /\ fd'[t] # "null" => t = u
    BY <1>2 DEF OpenAreOwned, CloseCall
  <2>1. open = ({fd[t] : t \in Objects} \ {"null"}) \cup orphans
        /\ \A t, u \in Objects : fd[t] = fd[u] /\ fd[t] # "null" => t = u
    BY DEF SInv, HandlesInv, OpenAreOwned
  <2>2. fd[s] # "null" /\ fd[s] \notin orphans
    BY DEF CloseCall, Live, SInv, HandlesInv, Owned
  <2>3. CASE ok
    BY <1>2, <1>4, <2>1, <2>2, <2>3
  <2>4. CASE ~ok
    <3>1. open' = open /\ \A t \in Objects : fd'[t] = fd[t]
      BY <1>2, <1>4, <2>4
    <3> QED BY <2>1, <3>1
  <2> QED BY <2>3, <2>4
<1> QED BY <1>3, <1>5, <1>6, <1>7 DEF SInv, HandlesInv

LEMMA DropStep ==
  ASSUME SInv, NEW s \in Objects, Drop(s)
  PROVE  SInv'
<1>1. CallInv' /\ call' \in CallRecord /\ call'.left = 0 /\ call'.start = 0 /\ call'.mark = 0
      /\ call'.op = "none" /\ pc' = "idle"
  BY Forgotten DEF Drop
<1>2. Typed'
  BY <1>1, Bounds DEF Drop, SInv, Typed, TypeOK, Reading, Writing, handles, history
<1>3. HandlesInv'
  BY DEF Drop, SInv, Typed, TypeOK, HandlesInv, Owned, OpenAreOwned, handles, history
<1> QED BY <1>1, <1>2, <1>3 DEF SInv

LEMMA FinalizeStep ==
  ASSUME SInv, NEW s \in Objects, Finalize(s)
  PROVE  SInv'
<1>1. /\ fd' \in [Objects -> Handles \cup {"null"}] /\ fd'[s] = "null"
      /\ \A t \in Objects : t # s => fd'[t] = fd[t]
      /\ UNCHANGED <<file, pc, call, shared>>
  BY DEF Finalize, SInv, Typed, TypeOK
<1>2. CASE fd[s] = "null"
  <2>1. UNCHANGED <<open, pos, faults, misclosed, orphans>>
    BY <1>2 DEF Finalize, handles
  <2>2. Typed'
    BY <1>1, <2>1 DEF Finalize, SInv, Typed, TypeOK, Reading, Writing
  <2>3. CallInv'
    BY <1>1, <2>1, CallGoesOn DEF SInv
  <2>4. \A t \in Objects : fd'[t] = fd[t]
    BY <1>1, <1>2
  <2>5. HandlesInv'
    BY <1>1, <2>1, <2>4 DEF Finalize, SInv, Typed, TypeOK, HandlesInv, Owned, OpenAreOwned
  <2> QED BY <2>2, <2>3, <2>5 DEF SInv
<1>3. CASE fd[s] # "null"
  <2>0. PICK ok \in BOOLEAN : Close(s, ok) /\ orphans' = orphans \cup ({fd[s]} \cap open')
    BY <1>3 DEF Finalize
  <2>1. /\ open' \in {open, open \ {fd[s]}} /\ pos' \in [Handles -> 0 .. MaxLen]
        /\ \A h \in open' : pos'[h] = pos[h]
        /\ faults' \in 0 .. MaxFaults /\ misclosed' \in BOOLEAN
        /\ ok => open' = open \ {fd[s]} /\ misclosed' = misclosed
        /\ ~misclosed' => ~misclosed
        /\ ~ok /\ ~misclosed' => open' = open
    BY <2>0, Closing
  <2>2. Typed'
    BY <1>1, <2>0, <2>1 DEF Finalize, SInv, Typed, TypeOK, Reading, Writing
  <2>3. CallInv'
    BY <1>1, <2>1, CallGoesOn DEF SInv
  <2>4. ASSUME ~shared, ~misclosed'
        PROVE  /\ open' = ({fd'[t] : t \in Objects} \ {"null"}) \cup orphans'
               /\ \A t, u \in Objects : fd'[t] = fd'[u] /\ fd'[t] # "null" => t = u
               /\ \A t \in Objects : fd'[t] \notin orphans'
    <3>1. open = ({fd[t] : t \in Objects} \ {"null"}) \cup orphans
          /\ \A t, u \in Objects : fd[t] = fd[u] /\ fd[t] # "null" => t = u
      BY <2>1, <2>4 DEF SInv, HandlesInv, OpenAreOwned
    <3>2. \A t \in Objects : fd[t] \notin orphans
      BY <2>1, <2>4 DEF SInv, HandlesInv, Owned
    <3>3. "null" \notin orphans'
      BY <1>3, <2>0, HandlesAssumption DEF SInv, Typed, TypeOK
    <3>4. CASE ok
      BY <1>1, <1>3, <2>0, <2>1, <3>1, <3>2, <3>3, <3>4
    <3>5. CASE ~ok
      <4>1. open' = open /\ orphans' = orphans \cup {fd[s]}
        BY <1>3, <2>0, <2>1, <2>4, <3>1, <3>5
      <4> QED BY <1>1, <1>3, <3>1, <3>2, <3>3, <4>1
    <3> QED BY <3>4, <3>5
  <2>5. OpenAreOwned'
    BY <1>1, <2>4 DEF OpenAreOwned
  <2>6. Owned'
    BY <1>1, <2>4 DEF Owned, Finalize, SInv, Typed, TypeOK, HandlesInv
  <2> QED BY <2>2, <2>3, <2>5, <2>6 DEF SInv, HandlesInv
<1> QED BY <1>2, <1>3

-----------------------------------------------------------------------------
(* Calls begin.                                                            *)

LEMMA NotEnded ==
  ASSUME pc' # "idle"
  PROVE  Answers'
BY DEF Answers, ReadsInOrder, WritesInOrder, ReadsALine, Ended

\* A call that has ended and was none of those that are answered for.
LEMMA OtherEnded ==
  ASSUME pc' = "idle", call'.op \notin Reading \cup Writing \cup {"readLine"}
  PROVE  CallInv'
BY DEF CallInv, StepsOfCall, ReadsOn, WritesOn, LineOn, Answers, ReadsInOrder, WritesInOrder,
       ReadsALine, Ended, Reading, Writing, InLine

LEMMA BeginCall ==
  ASSUME SInv, NEW s \in Objects,
         NEW o \in {"read", "readInt", "readLine", "write", "writeInt", "setLength"},
         NEW start \in {"read", "line", "write", "seteof"}, NEW asked \in 0 .. MaxLen,
         NEW b \in Seq(Bytes), o \in Reading \cup Writing => asked <= Len(b),
         Begin(s, o, start, asked, b)
  PROVE  /\ Typed' /\ HandlesInv' /\ Answers' /\ pc' = start /\ call'.op = o
         /\ call'.buf = b /\ call'.left = asked /\ call'.before = file
         /\ Here' = call'.start /\ call'.start \in Nat /\ UNCHANGED file
         /\ call'.start = pos[fd[s]] /\ ~call'.negative
<1>1. /\ call' = [NoCall EXCEPT !.op = o, !.s = s, !.h = fd[s], !.start = pos[fd[s]],
                              !.left = asked, !.buf = b, !.before = file]
      /\ pc' = start /\ UNCHANGED <<file, open, pos, kind, fd, status, faults, shared, misclosed, orphans>>
  BY DEF Begin, handles, streams, history
<1>2. fd[s] \in Handles /\ pos[fd[s]] \in 0 .. MaxLen
  BY DEF Begin, Live, SInv, Typed, TypeOK
<1>3. /\ call' \in CallRecord /\ call'.op = o /\ call'.h = fd[s] /\ call'.start = pos[fd[s]]
      /\ call'.left = asked /\ call'.buf = b /\ call'.before = file /\ call'.mark = 0
      /\ ~call'.negative
  <2>1. PICK h \in Handles, p \in 0 .. MaxLen, f \in Seq(Bytes) :
          h = fd[s] /\ p = pos[fd[s]] /\ f = file
    BY <1>2 DEF SInv, Typed
  <2>2. call' = [NoCall EXCEPT !.op = o, !.s = s, !.h = h, !.start = p, !.left = asked, !.buf = b,
                               !.before = f]
    BY <1>1, <2>1
  <2>3. /\ call'.op = o /\ call'.h = h /\ call'.start = p /\ call'.left = asked /\ call'.buf = b
        /\ call'.before = f /\ call'.mark = 0 /\ ~call'.negative
    BY <2>2 DEF NoCall
  <2>4. call' \in CallRecord
    BY <2>2, NoCallTyped DEF CallRecord
  <2> QED BY <2>1, <2>3, <2>4
<1>4. Typed'
  BY <1>1, <1>2, <1>3, Bounds DEF SInv, Typed, TypeOK
<1>5. HandlesInv'
  BY <1>1, HandlesKept DEF SInv, streams, history
<1>6. Answers'
  BY <1>1, NotEnded
<1>7. Here' = call'.start /\ call'.start \in Nat
  BY <1>1, <1>2, <1>3 DEF Here
<1> QED BY <1>1, <1>3, <1>4, <1>5, <1>6, <1>7

LEMMA BeginReadStep ==
  ASSUME SInv, NEW s \in Objects, NEW o \in Reading, NEW n \in 1 .. MaxLen, BeginRead(s, o, n)
  PROVE  SInv'
<1> DEFINE b == [i \in 1 .. n |-> "nul"]
<1>0. n \in Nat /\ n \in 0 .. MaxLen /\ n > 0
  BY Bounds
<1>1. b \in [1 .. n -> Bytes]
  BY DEF Bytes
<1>2. b \in Seq(Bytes) /\ Len(b) = n
  BY <1>0, <1>1, SequenceIs
<1>3. Begin(s, o, "read", n, b)
  BY DEF BeginRead
<1> HIDE DEF b
<1>4. /\ Typed' /\ HandlesInv' /\ Answers' /\ pc' = "read" /\ call'.op = o
      /\ call'.buf = b /\ call'.left = n /\ Here' = call'.start /\ call'.start \in Nat
      /\ ~call'.negative
  BY <1>0, <1>2, <1>3, BeginCall DEF Reading
<1>5. Len(call'.buf) - call'.left = 0
  BY <1>0, <1>2, <1>4
<1>6. ReadsOn'
  BY <1>0, <1>4, <1>5 DEF ReadsOn, Done
<1> QED BY <1>4, <1>6
        DEF SInv, CallInv, StepsOfCall, WritesOn, LineOn, Reading, InLine

LEMMA BeginLineStep ==
  ASSUME SInv, NEW s \in Objects, BeginReadLine(s)
  PROVE  SInv'
<1>1. PICK b \in Seq(Bytes) : b = <<>>
  BY EmptySeq
<1>2. Begin(s, "readLine", "line", 0, b)
  BY <1>1 DEF BeginReadLine
<1>0. 0 \in 0 .. MaxLen /\ "readLine" \notin Reading \cup Writing
  BY Bounds DEF Reading, Writing
<1>3. /\ Typed' /\ HandlesInv' /\ Answers' /\ pc' = "line" /\ call'.op = "readLine"
      /\ call'.buf = b /\ Here' = call'.start /\ call'.start \in Nat
  BY <1>0, <1>2, BeginCall
<1>5. Len(call'.buf) = 0
  BY <1>1, <1>3, EmptySeq
<1>4. LineOn'
  BY <1>3, <1>5 DEF LineOn
<1> QED BY <1>3, <1>4 DEF SInv, CallInv, StepsOfCall, ReadsOn, WritesOn, InLine

\* What is written is a sequence of bytes within the bound.
LEMMA DataTyped ==
  ASSUME NEW d \in Data \cup Contents
  PROVE  d \in Seq(Bytes) /\ Len(d) \in 0 .. MaxLen
<1>1. PICK n \in 0 .. MaxLen : d \in [1 .. n -> Bytes]
  BY DataAssumption
<1>2. n \in Nat
  BY Bounds
<1> QED BY <1>1, <1>2, SequenceIs

LEMMA BeginWriteStep ==
  ASSUME SInv, NEW s \in Objects, NEW o \in Writing, NEW d \in Data, BeginWrite(s, o, d)
  PROVE  SInv'
<1>1. d \in Seq(Bytes) /\ Len(d) \in 0 .. MaxLen
  BY DataTyped
<1>2. PICK n \in 0 .. MaxLen : n = Len(d)
  BY <1>1
<1>3. /\ Typed' /\ HandlesInv' /\ Answers' /\ pc' = "write" /\ call'.op = o
      /\ call'.buf = d /\ call'.left = n /\ call'.before = file /\ UNCHANGED file
      /\ Here' = call'.start /\ call'.start \in Nat /\ call'.start = pos[fd[s]]
  BY <1>1, <1>2, BeginCall DEF BeginWrite, Writing
<1>4. Len(call'.buf) - call'.left = 0
  BY <1>1, <1>2, <1>3, Bounds
<1>5. file = Overlay(file, call'.start, SubSeq(d, 1, 0))
  <2>1. IsString(file, Len(file)) /\ IsString(d, Len(d))
    BY <1>1, SequenceIs DEF IsString, SInv, Typed
  <2>2. IsString(SubSeq(d, 1, 0), 0)
    BY <1>1, <2>1, PrefixIs DEF Prefix
  <2> QED BY <1>3, <2>1, <2>2, OverlayNothing
<1>6. WritesOn'
  <2>1. call'.start + Len(call'.buf) <= MaxLen
    BY <1>2, <1>3 DEF BeginWrite
  <2> QED BY <1>3, <1>4, <1>5, <2>1 DEF WritesOn, Done
<1> QED BY <1>3, <1>6 DEF SInv, CallInv, StepsOfCall, ReadsOn, LineOn, InLine, Writing

LEMMA SetLengthStep ==
  ASSUME SInv, NEW s \in Objects, SetLength(s)
  PROVE  SInv'
<1>1. PICK n \in 0 .. MaxLen : Begin(s, "setLength", "seteof", n, <<>>)
  BY DEF SetLength
<1>2. PICK b \in Seq(Bytes) : b = <<>>
  BY EmptySeq
<1>3. Typed' /\ HandlesInv' /\ Answers' /\ pc' = "seteof" /\ call'.op = "setLength"
  <2>1. Begin(s, "setLength", "seteof", n, b) /\ "setLength" \notin Reading \cup Writing
    BY <1>1, <1>2 DEF Reading, Writing
  <2> QED BY <2>1, BeginCall
<1> QED BY <1>3 DEF SInv, CallInv, StepsOfCall, ReadsOn, WritesOn, LineOn, InLine

\* Laying d on the file keeps it a file.
LEMMA LaidOnFile ==
  ASSUME SInv, NEW p \in Nat, NEW d \in Seq(Bytes), p + Len(d) <= MaxLen
  PROVE  /\ Overlay(file, p, d) \in Seq(Bytes)
         /\ Len(Overlay(file, p, d)) <= MaxLen
         /\ \A i \in 1 .. Len(Overlay(file, p, d)) : Overlay(file, p, d)[i] \in Bytes
<1>1. IsString(file, Len(file)) /\ IsString(d, Len(d)) /\ Len(file) <= MaxLen
  BY SequenceIs DEF IsString, SInv, Typed, TypeOK
<1>2. PICK k : k = Reach(Len(file), p, Len(d)) /\ IsString(Overlay(file, p, d), k)
  BY <1>1, OverlayIs
<1>3. k <= MaxLen
  BY <1>1, <1>2 DEF Reach
<1>4. Overlay(file, p, d) \in Seq(Bytes) /\ Len(Overlay(file, p, d)) = k
  BY <1>2, SequenceIs DEF IsString
<1> QED BY <1>2, <1>3, <1>4 DEF IsString

LEMMA WriteAtStep ==
  ASSUME SInv, NEW s \in Objects, NEW d \in Data, NEW off \in 0 .. 1, WriteAt(s, d, off)
  PROVE  SInv'
<1>1. d \in Seq(Bytes) /\ off \in Nat /\ Len(d) \in 0 .. MaxLen
  BY DataTyped
<1>2. PICK r \in {"ok", "thrown"} :
        /\ call' = [NoCall EXCEPT !.op = "writeAt", !.s = s, !.h = fd[s], !.start = off,
                                !.buf = d, !.before = file, !.ret = r]
        /\ pc' = "idle" /\ file' \in {file, Overlay(file, off, d)}
        /\ (Fails(fd[s]) \/ NoFault)
  BY DEF WriteAt, Return, NoCall
<1>0. off \in 0 .. MaxLen /\ fd[s] \in Handles /\ file \in Seq(Bytes)
  BY <1>1, Bounds DEF SInv, Typed, TypeOK, WriteAt, Live
<1>3. /\ call' \in CallRecord /\ call'.op = "writeAt" /\ call'.start = off /\ call'.left = 0
      /\ call'.mark = 0
  BY <1>0, <1>1, <1>2, NoCallTyped DEF CallRecord, NoCall
<1>4. CallInv'
  BY <1>2, <1>3, OtherEnded DEF Reading, Writing
<1>5. file' \in Seq(Bytes) /\ Len(file') <= MaxLen /\ \A i \in 1 .. Len(file') : file'[i] \in Bytes
  BY <1>1, <1>2, LaidOnFile DEF SInv, Typed, TypeOK, WriteAt
<1>6. faults' \in 0 .. MaxFaults
  BY <1>2, FaultTyped DEF SInv, Typed, TypeOK
<1>7. HandlesInv'
  BY HandlesKept DEF SInv, WriteAt, handles
<1>8. Typed'
  <2>1. 0 \in 0 .. MaxLen
    BY Bounds
  <2> QED BY <1>0, <1>2, <1>3, <1>5, <1>6, <2>1
          DEF WriteAt, SInv, Typed, TypeOK, Reading, Writing, handles, streams, history
<1> QED BY <1>4, <1>7, <1>8 DEF SInv

LEMMA SeekStep ==
  ASSUME SInv, NEW s \in Objects, NEW p \in Nat, Seek(s, p)
  PROVE  SInv'
<1>1. CallInv' /\ call' \in CallRecord /\ call'.left = 0 /\ call'.start = 0 /\ call'.mark = 0
      /\ call'.op = "none" /\ pc' = "idle"
  BY Forgotten DEF Seek
<1>2. fd[s] \in Handles /\ p \in 0 .. MaxLen
  BY Bounds DEF Seek, Live, SInv, Typed, TypeOK
<1>3. UNCHANGED open /\ pos' \in [Handles -> 0 .. MaxLen]
  BY <1>2 DEF Seek, Move, handles, SInv, Typed, TypeOK
<1>4. faults' \in 0 .. MaxFaults
  BY FaultTyped DEF Seek, SInv, Typed, TypeOK
<1>5. Typed'
  BY <1>1, <1>3, <1>4, Bounds DEF Seek, SInv, Typed, TypeOK, Reading, Writing, streams, history
<1>6. HandlesInv'
  BY <1>3, HandlesKept DEF SInv, Seek
<1> QED BY <1>1, <1>5, <1>6 DEF SInv

LEMMA CallsStep ==
  ASSUME SInv, NEW s \in Objects, Calls(s)
  PROVE  SInv'
<1>1. CASE \E k \in Kinds : Open(s, k)
  BY <1>1, OpenStep
<1>2. CASE \E other \in Objects : Share(s, other)
  BY <1>2, ShareStep
<1>3. CASE CloseCall(s)
  BY <1>3, CloseStep
<1>4. CASE Drop(s)
  BY <1>4, DropStep
<1>5. CASE \E n \in 1 .. MaxLen, o \in {"read", "readInt"} : BeginRead(s, o, n)
  BY <1>5, BeginReadStep DEF Reading
<1>6. CASE BeginReadLine(s)
  BY <1>6, BeginLineStep
<1>7. CASE \E d \in Data : \/ \E o \in {"write", "writeInt"} : BeginWrite(s, o, d)
                           \/ \E off \in 0 .. 1 : WriteAt(s, d, off)
  BY <1>7, BeginWriteStep, WriteAtStep DEF Writing
<1>8. CASE SeekCall(s) \/ Length(s)
  <2>1. CASE SeekCall(s)
    <3>1. PICK p \in 0 .. MaxLen : Seek(s, p)
      BY <2>1 DEF SeekCall
    <3> QED BY <3>1, SeekStep, Bounds
  <2>2. CASE Length(s)
    <3>1. Len(file) \in Nat
      BY LenProperties DEF SInv, Typed
    <3> QED BY <2>2, <3>1, SeekStep DEF Length
  <2> QED BY <1>8, <2>1, <2>2
<1>9. CASE Skip(s)
  <2>1. PICK n \in 1 .. MaxLen : Seek(s, pos[fd[s]] + n)
    BY <1>9 DEF Skip
  <2>2. pos[fd[s]] \in 0 .. MaxLen
    BY <1>9 DEF Skip, SInv, Typed, TypeOK
  <2>3. pos[fd[s]] + n \in Nat
    BY <2>2, Bounds
  <2> QED BY <2>1, <2>3, SeekStep
<1>10. CASE SetLength(s)
  BY <1>10, SetLengthStep
<1> QED BY <1>1, <1>2, <1>3, <1>4, <1>5, <1>6, <1>7, <1>8, <1>9, <1>10 DEF Calls

-----------------------------------------------------------------------------
(* The requests of a read.                                                 *)

\* What every request finds.
LEMMA AtRequest ==
  ASSUME SInv
  PROVE  /\ call \in CallRecord /\ call.start \in Nat /\ call.left \in Nat /\ call.mark \in Nat
         /\ call.left <= MaxLen /\ Len(file) <= MaxLen /\ MaxLen \in Nat
         /\ IsString(file, Len(file)) /\ IsString(call.buf, Len(call.buf))
         /\ IsString(call.before, Len(call.before))
         /\ Len(file) \in Nat /\ Len(call.buf) \in Nat
         /\ Chunk \in Nat /\ (pc # "idle" => Here \in 0 .. MaxLen /\ call.h \in Handles)
         /\ (call.op \in Reading \cup Writing => Done \in Nat /\ Done + call.left = Len(call.buf))
<1>1. call \in CallRecord /\ file \in Seq(Bytes) /\ call.buf \in Seq(Bytes)
      /\ call.before \in Seq(Bytes) /\ call.start \in Nat /\ call.left \in Nat /\ call.mark \in Nat
      /\ call.left <= MaxLen /\ Len(file) <= MaxLen /\ MaxLen \in Nat
  BY Bounds DEF SInv, Typed, TypeOK, CallRecord
<1>2. /\ IsString(file, Len(file)) /\ IsString(call.buf, Len(call.buf))
      /\ IsString(call.before, Len(call.before)) /\ Len(file) \in Nat /\ Len(call.buf) \in Nat
  BY <1>1, SequenceIs DEF IsString
<1>3. Chunk \in Nat
  BY Bounds DEF Chunk
<1>4. pc # "idle" => Here \in 0 .. MaxLen /\ call.h \in Handles
  BY DEF Here, SInv, Typed, TypeOK
<1>5. call.op \in Reading \cup Writing => Done \in Nat /\ Done + call.left = Len(call.buf)
  BY <1>1, <1>2 DEF Done, SInv, Typed
<1> QED BY <1>1, <1>2, <1>3, <1>4, <1>5

LEMMA MoveTyped ==
  ASSUME SInv, NEW h \in Handles, NEW p \in 0 .. MaxLen, Move(h, p)
  PROVE  UNCHANGED open /\ pos' \in [Handles -> 0 .. MaxLen] /\ pos'[h] = p
BY DEF Move, SInv, Typed, TypeOK

\* The first k bytes of b are those of f from p on.
Agree(b, f, p, k) == \A i \in 1 .. k : b[i] = f[p + i]

\* f has k bytes behind the first p, if k is not zero.
Within(f, l, p, k) == k = 0 \/ Fits(f, l, p, k)

\* The first k bytes of b are a stretch of f, if they agree byte by byte.
LEMMA SameStretch ==
  ASSUME NEW b, NEW f, NEW m, NEW l, NEW p, NEW k, IsString(b, m), IsString(f, l), p \in Nat,
         k \in Nat, k <= m, Within(f, l, p, k), Agree(b, f, p, k)
  PROVE  Prefix(b, k) = Stretch(f, p, k)
<1>1. Prefix(b, k) = [i \in 1 .. k |-> b[i]]
  BY DEF IsString, Prefix
<1>2. Stretch(f, p, k) = [i \in 1 .. k |-> f[p + i]]
  BY DEF IsString, Stretch, Fits, Within
<1> QED BY <1>1, <1>2 DEF Agree

\* n bytes of f from "here" on, laid behind the k that are already in b.
LEMMA ChunkLaid ==
  ASSUME NEW b, NEW m, NEW f, NEW l, NEW p, NEW k, NEW n, NEW j, NEW here, Fits(b, m, k, n), n > 0,
         Fits(f, l, here, n), Agree(b, f, p, k), Behind(here, p, k), Behind(j, k, n)
  PROVE  IsString(Overlay(b, k, Stretch(f, here, n)), m)
         /\ Agree(Overlay(b, k, Stretch(f, here, n)), f, p, j)
<1>0. /\ p \in Nat /\ here \in Nat /\ here = p + k /\ m \in Nat /\ l \in Nat /\ k \in Nat /\ n \in Nat
      /\ IsString(b, m) /\ k + n <= m /\ j = k + n
  BY DEF Behind, IsString, Fits
<1>1. PICK d : d = Stretch(f, here, n) /\ Holds(f, here, n, d)
  BY StretchIs
<1>2. IsString(d, n) /\ \A i \in here + 1 .. here + n : d[i - here] = f[i]
  BY <1>1 DEF Holds
<1>3. PICK o : o = Overlay(b, k, d)
  OBVIOUS
<1>4. /\ IsString(o, Reach(m, k, n))
      /\ \A i \in 1 .. Reach(m, k, n) :
           o[i] = IF i \in k + 1 .. k + n THEN d[i - k] ELSE IF i <= m THEN b[i] ELSE "nul"
  <2>1. IsString(b, m) /\ IsString(d, n) /\ k \in Nat
    BY <1>0, <1>2
  <2> QED BY <1>3, <2>1, OverlayIs
<1>5. Reach(m, k, n) = m
  BY <1>0 DEF Reach
<1>6. ASSUME NEW i \in 1 .. j
      PROVE  o[i] = f[p + i]
  <2>1. i \in 1 .. m
    BY <1>0
  <2>2. CASE i \in k + 1 .. k + n
    <3>1. p + i \in here + 1 .. here + n /\ (p + i) - here = i - k
      BY <1>0, <2>2
    <3>2. d[i - k] = f[p + i]
      BY <1>2, <3>1
    <3> QED BY <1>4, <1>5, <2>1, <2>2, <3>2
  <2>3. CASE i \in 1 .. k
    <3>1. i \notin k + 1 .. k + n /\ i <= m
      BY <1>0, <2>1, <2>3
    <3> QED BY <1>4, <1>5, <2>1, <2>3, <3>1 DEF Agree
  <2> QED BY <1>0, <2>2, <2>3
<1> QED BY <1>1, <1>3, <1>4, <1>5, <1>6 DEF Agree

LEMMA ReadChunkStep ==
  ASSUME SInv, ReadChunk
  PROVE  SInv'
<1>0. PICK m, l, k, p, here : m = Len(call.buf) /\ l = Len(file) /\ k = Done /\ p = call.start /\ here = Here
  OBVIOUS
<1>1. /\ call \in CallRecord /\ p \in Nat /\ call.left \in Nat /\ call.left <= MaxLen
      /\ IsString(file, l) /\ IsString(call.buf, m) /\ l \in Nat /\ m \in Nat /\ l <= MaxLen
      /\ Chunk \in Nat /\ here \in Nat /\ here \in 0 .. MaxLen /\ call.h \in Handles
      /\ MaxLen \in Nat /\ here < l
  BY <1>0, AtRequest DEF ReadChunk
<1>2. call.op \in Reading /\ pc = "read"
  BY DEF ReadChunk, SInv, CallInv, StepsOfCall
<1>3. k \in Nat /\ k + call.left = m /\ Behind(here, p, k) /\ Agree(call.buf, file, p, k)
  BY <1>0, <1>1, <1>2, AtRequest
     DEF ReadChunk, SInv, CallInv, ReadsOn, StillOpen, Behind, Agree
<1>4. PICK n \in 1 .. Least({ReadLimit, Len(file) - Here}), bits \in Bits :
        LET c == [call EXCEPT !.left = @ - n, !.stray = @ \/ bits # "none",
                    !.negative = @ \/ bits = "sign",
                    !.buf = Overlay(@, WorkingOffset, SubSeq(file, Here + 1, Here + n))]
        IN /\ Move(call.h, Here + n)
           /\ IF c.left = 0 THEN ReadReturns(c) ELSE pc' = pc /\ call' = c
  BY Zenon DEF ReadChunk
<1>5. n \in Nat /\ n > 0 /\ n <= call.left /\ here + n <= l
  <2>1. l - here \in Nat
    BY <1>1
  <2>2. ReadLimit \in Nat /\ ReadLimit <= call.left
    BY <1>1, LeastOfTwo DEF ReadLimit
  <2>3. /\ Least({ReadLimit, l - here}) \in Nat /\ Least({ReadLimit, l - here}) <= ReadLimit
        /\ Least({ReadLimit, l - here}) <= l - here
    BY <2>1, <2>2, LeastOfTwo
  <2>4. n \in 1 .. Least({ReadLimit, l - here})
    BY <1>0, <1>4
  <2> QED BY <1>1, <2>1, <2>2, <2>3, <2>4
<1>6. k + n \in Nat /\ k + n <= m /\ here + n = p + (k + n) /\ call.left - n \in 0 .. MaxLen
      /\ here + n \in 0 .. MaxLen /\ m - (call.left - n) = k + n
  <2>1. PICK left \in Nat : left = call.left
    BY <1>1
  <2>2. k \in Nat /\ n \in Nat /\ k + left = m /\ n <= left /\ left <= MaxLen /\ here = p + k
    BY <1>1, <1>3, <1>5, <2>1 DEF Behind
  <2>3. k + n \in Nat /\ k + n <= m /\ m - (left - n) = k + n
    BY <1>1, <2>2
  <2>4. left - n \in 0 .. MaxLen /\ here + n = p + (k + n) /\ here + n \in 0 .. MaxLen
    BY <1>1, <1>5, <2>2
  <2> QED BY <2>1, <2>3, <2>4
<1>7. PICK b : /\ b = Overlay(call.buf, WorkingOffset, SubSeq(file, Here + 1, Here + n))
               /\ IsString(b, m) /\ Agree(b, file, p, k + n)
  <2>0. PICK a : a = call.buf
    OBVIOUS
  <2>2. /\ Fits(a, m, k, n) /\ Fits(file, l, here, n) /\ Agree(a, file, p, k)
        /\ Behind(here, p, k) /\ Behind(k + n, k, n)
    BY <1>1, <1>3, <1>5, <1>6, <2>0 DEF Fits, Behind
  <2>1. /\ IsString(Overlay(a, k, Stretch(file, here, n)), m)
        /\ Agree(Overlay(a, k, Stretch(file, here, n)), file, p, k + n)
    BY <1>5, <2>2, ChunkLaid
  <2> QED BY <1>0, <2>0, <2>1 DEF WorkingOffset, Stretch
<1>8. b \in Seq(Bytes) /\ Len(b) = m
  BY <1>1, <1>7, SequenceIs DEF IsString
<1>9. PICK st \in BOOLEAN, neg \in BOOLEAN :
        /\ neg => st \/ call.negative
        /\ call.stray => st
        /\ LET c == [call EXCEPT !.left = @ - n, !.stray = st, !.negative = neg, !.buf = b]
           IN IF c.left = 0 THEN ReadReturns(c) ELSE pc' = pc /\ call' = c
  <2>1. PICK st, neg : st = (call.stray \/ bits # "none") /\ neg = (call.negative \/ bits = "sign")
    OBVIOUS
  <2>2. /\ st \in BOOLEAN /\ neg \in BOOLEAN /\ (neg => st \/ call.negative)
        /\ call.stray => st
    BY <1>1, <2>1 DEF CallRecord
  <2> QED BY <1>4, <1>7, <2>1, <2>2
<1>10. PICK left \in 0 .. MaxLen : left = call.left - n
  BY <1>6
<1>11. /\ call' \in CallRecord /\ call'.op = call.op /\ call'.h = call.h
       /\ call'.start = p /\ call'.left = left /\ call'.buf = b /\ call'.mark = call.mark
       /\ pc' = (IF left = 0 THEN "idle" ELSE "read")
       /\ call'.stray = st /\ call'.negative = neg
       /\ left = 0 => call'.ret = (IF neg THEN "eof" ELSE "ok")
  <2>1. CASE left = 0
    <3>1. PICK r \in {"ok", "eof"} : r = IF neg THEN "eof" ELSE "ok"
      OBVIOUS
    <3>2. PICK c : c = [call EXCEPT !.left = left, !.stray = st, !.negative = neg, !.buf = b]
      OBVIOUS
    <3>3. c.left = 0 /\ c.negative = neg /\ ReadReturns(c)
      BY <1>1, <1>9, <1>10, <2>1, <3>2 DEF CallRecord
    <3>4. /\ pc' = "idle"
          /\ call' = [call EXCEPT !.left = left, !.stray = st, !.negative = neg, !.buf = b, !.ret = r]
      BY <1>1, <3>1, <3>2, <3>3 DEF ReadReturns, Return, CallRecord
    <3> QED BY <1>0, <1>1, <1>8, <2>1, <3>1, <3>4 DEF CallRecord
  <2>2. CASE left # 0
    <3>1. /\ pc' = "read"
          /\ call' = [call EXCEPT !.left = left, !.stray = st, !.negative = neg, !.buf = b]
      BY <1>1, <1>2, <1>9, <1>10, <2>2 DEF CallRecord
    <3> QED BY <1>0, <1>1, <1>8, <2>2, <3>1 DEF CallRecord
  <2> QED BY <2>1, <2>2
<1>12. /\ UNCHANGED <<open, file, kind, fd, status, faults, shared, misclosed, orphans>>
       /\ pos' \in [Handles -> 0 .. MaxLen] /\ Here' = here + n
  <2>1. UNCHANGED open /\ pos' \in [Handles -> 0 .. MaxLen] /\ pos'[call.h] = here + n
    <3>1. Move(call.h, here + n)
      BY <1>0, <1>4
    <3> QED BY <1>1, <1>6, <3>1, MoveTyped
  <2> QED BY <1>11, <2>1 DEF ReadChunk, streams, history, Here
<1>13. Done' = k + n
  <2>1. Len(call'.buf) = m
    BY <1>8, <1>11
  <2>2. Len(call'.buf) - call'.left = m - left
    BY <2>1, <1>11
  <2> QED BY <1>6, <1>10, <2>2 DEF Done
<1>14. Typed'
  <2>1. call'.left <= Len(call'.buf)
    BY <1>3, <1>5, <1>1, <1>8, <1>10, <1>11
  <2> QED BY <1>1, <1>11, <1>12, <2>1 DEF SInv, Typed, TypeOK, CallRecord
<1>15. HandlesInv'
  BY <1>12, HandlesKept DEF SInv, streams, history
<1>16. StepsOfCall' /\ WritesOn' /\ LineOn' /\ WritesInOrder' /\ ReadsALine'
  BY <1>2, <1>11 DEF StepsOfCall, WritesOn, LineOn, WritesInOrder, ReadsALine, Ended, InLine, Reading
<1>17. neg => st
  BY <1>2, <1>9 DEF SInv, CallInv, ReadsOn
<1>18. ReadsOn'
  <2>1. left # 0 => left > 0
    BY <1>1
  <2>2. p + (k + n) <= l
    BY <1>5, <1>6
  <2>3. p + (k + n) <= Len(file')
    BY <1>0, <1>12, <2>2
  <2> QED BY <1>6, <1>7, <1>11, <1>12, <1>13, <1>17, <2>1, <2>3 DEF ReadsOn, Agree
<1>19. ReadsInOrder'
  <2>1. CASE left # 0
    BY <1>11, <2>1 DEF ReadsInOrder, Ended
  <2>2. CASE left = 0
    <3>1. Prefix(b, k + n) = Stretch(file, p, k + n)
      <4>1. PICK j \in Nat : j = k + n
        BY <1>6
      <4>2. IsString(b, m) /\ IsString(file, l) /\ p \in Nat /\ j <= m /\ Within(file, l, p, j)
            /\ Agree(b, file, p, j)
        BY <1>1, <1>5, <1>6, <1>7, <4>1 DEF Fits, Within
      <4>3. Prefix(b, j) = Stretch(file, p, j)
        BY <4>2, SameStretch
      <4> QED BY <4>1, <4>3
    <3>2. SubSeq(call'.buf, 1, Done') = SubSeq(file', call'.start + 1, call'.start + Done')
      BY <1>11, <1>12, <1>13, <3>1 DEF Stretch, Prefix
    <3>3. Here' = call'.start + Done' /\ call'.left = 0
      BY <1>6, <1>11, <1>12, <1>13, <2>2
    <3>4. call'.ret = "eof" => call'.stray
      BY <1>9, <1>11, <2>2, <1>17
    <3> QED BY <3>2, <3>3, <3>4 DEF ReadsInOrder, Ended
  <2> QED BY <2>1, <2>2
<1> QED BY <1>14, <1>15, <1>16, <1>18, <1>19 DEF SInv, CallInv, Answers

\* A call that ends and changes nothing.
LEMMA Returned ==
  ASSUME SInv, NEW r \in {"ok", "eof", "null", "thrown"}, Return(r, call)
  PROVE  /\ call' \in CallRecord /\ pc' = "idle" /\ call'.op = call.op /\ call'.h = call.h
         /\ call'.start = call.start /\ call'.left = call.left /\ call'.buf = call.buf
         /\ call'.before = call.before /\ call'.stray = call.stray /\ call'.mark = call.mark
         /\ call'.ret = r /\ Done' = Done
         /\ StepsOfCall' /\ ReadsOn' /\ WritesOn' /\ LineOn'
<1>1. /\ call' \in CallRecord /\ pc' = "idle" /\ call'.op = call.op /\ call'.h = call.h
      /\ call'.start = call.start /\ call'.left = call.left /\ call'.buf = call.buf
      /\ call'.before = call.before /\ call'.stray = call.stray /\ call'.mark = call.mark
      /\ call'.ret = r
  BY DEF Return, CallRecord, SInv, Typed
<1>2. Done' = Done
  BY <1>1 DEF Done
<1> QED BY <1>1, <1>2 DEF StepsOfCall, ReadsOn, WritesOn, LineOn, InLine

LEMMA ReadEofStep ==
  ASSUME SInv, ReadEof
  PROVE  SInv'
<1>0. Return("eof", call)
  BY DEF ReadEof
<1>1. /\ call' \in CallRecord /\ pc' = "idle" /\ call'.op = call.op /\ call'.h = call.h
      /\ call'.start = call.start /\ call'.left = call.left /\ call'.buf = call.buf
      /\ call'.mark = call.mark /\ call'.ret = "eof" /\ Done' = Done
      /\ StepsOfCall' /\ ReadsOn' /\ WritesOn' /\ LineOn'
  BY <1>0, Returned
<1>2. call.op \in Reading
  BY DEF ReadEof, SInv, CallInv, StepsOfCall
<1>3. /\ Done \in Nat /\ Done <= Len(call.buf) /\ call.start \in Nat
      /\ IsString(file, Len(file)) /\ IsString(call.buf, Len(call.buf))
  BY <1>2, AtRequest
<1>4. UNCHANGED <<open, pos, file, kind, fd, status, faults, shared, misclosed, orphans>>
  BY DEF ReadEof, handles, streams, history
<1>5. /\ Done = 0 \/ call.start + Done <= Len(file)
      /\ Agree(call.buf, file, call.start, Done)
      /\ Here = call.start + Done /\ Here >= Len(file)
  BY DEF ReadEof, SInv, CallInv, ReadsOn, StillOpen, Agree
<1>6. SubSeq(call.buf, 1, Done) = SubSeq(file, call.start + 1, call.start + Done)
  <2>1. PICK b, k, p, m, l : b = call.buf /\ k = Done /\ p = call.start /\ m = Len(call.buf)
                             /\ l = Len(file)
    OBVIOUS
  <2>2. /\ IsString(b, m) /\ IsString(file, l) /\ p \in Nat /\ k \in Nat
        /\ k <= m /\ Within(file, l, p, k) /\ Agree(b, file, p, k)
    BY <1>3, <1>5, <2>1 DEF Fits, Within
  <2>3. Prefix(b, k) = Stretch(file, p, k)
    BY <2>2, SameStretch
  <2> QED BY <2>1, <2>3 DEF Stretch, Prefix
<1>7. Typed'
  BY <1>1, <1>4 DEF SInv, Typed, TypeOK
<1>8. HandlesInv'
  BY <1>4, HandlesKept DEF SInv, streams, history
<1>9. ReadsInOrder'
  <2>1. /\ Here' = call'.start + Done' /\ call'.start + Done' >= Len(file')
        /\ SubSeq(call'.buf, 1, Done') = SubSeq(file', call'.start + 1, call'.start + Done')
    BY <1>1, <1>4, <1>5, <1>6 DEF Here
  <2> QED BY <1>1, <2>1 DEF ReadsInOrder, Ended
<1>10. WritesInOrder' /\ ReadsALine'
  BY <1>1, <1>2 DEF WritesInOrder, ReadsALine, Ended, Reading
<1> QED BY <1>1, <1>7, <1>8, <1>9, <1>10 DEF SInv, CallInv, Answers

-----------------------------------------------------------------------------
(* The requests of readLine().                                             *)

\* b and the k bytes of f behind it, t, are a stretch of f.
LEMMA Taken ==
  ASSUME NEW b, NEW n, NEW f, NEW t, NEW k, NEW p, NEW q, NEW j, IsString(b, n), IsString(t, k),
         Agree(b, f, p, n), Agree(t, f, q, k), Behind(q, p, n), Behind(j, n, k)
  PROVE  Stretch(f, p, j) = b \o t
<1>0. n \in Nat /\ k \in Nat /\ p \in Nat /\ q = p + n /\ j = n + k
  BY DEF IsString, Behind
<1>1. b \in Seq(Bytes) /\ Len(b) = n /\ t \in Seq(Bytes) /\ Len(t) = k
  BY SequenceIs DEF IsString
<1>2. PICK bt : bt = b \o t /\ bt \in Seq(Bytes) /\ Len(bt) = n + k
                /\ \A i \in 1 .. n + k : bt[i] = IF i <= n THEN b[i] ELSE t[i - n]
  <2>1. /\ b \o t \in Seq(Bytes) /\ Len(b \o t) = Len(b) + Len(t)
        /\ \A i \in 1 .. Len(b) + Len(t) : (b \o t)[i] = IF i <= Len(b) THEN b[i] ELSE t[i - Len(b)]
    BY <1>1, ConcatProperties
  <2> QED BY <1>1, <2>1
<1>3. Stretch(f, p, j) = [i \in 1 .. n + k |-> f[p + i]]
  BY <1>0 DEF Stretch
<1>4. ASSUME NEW i \in 1 .. n + k
      PROVE  bt[i] = f[p + i]
  <2>1. CASE i <= n
    BY <1>0, <1>2, <2>1 DEF Agree
  <2>2. CASE i > n
    <3>1. i - n \in 1 .. k /\ q + (i - n) = p + i
      BY <1>0, <2>2
    <3>2. t[i - n] = f[p + i]
      BY <3>1 DEF Agree
    <3> QED BY <1>0, <1>2, <2>2, <3>2
  <2> QED BY <1>0, <2>1, <2>2
<1>5. bt \in [1 .. n + k -> Bytes]
  BY <1>0, <1>2, SequenceIs
<1> QED BY <1>0, <1>2, <1>3, <1>4, <1>5

Terminators == {<<>>, <<"cr">>, <<"lf">>, <<"cr", "lf">>}

\* The line that is in call.buf ends before e.
TakesLine(e) ==
  \E terminator \in Terminators :
    /\ SubSeq(file, call.start + 1, e) = call.buf \o terminator
    /\ \A i \in 1 .. Len(call.buf) : call.buf[i] \notin {"cr", "lf"}
    /\ terminator = <<>> => e = Len(file)
    /\ (terminator = <<"cr">> /\ e < Len(file)) => file[e + 1] # "lf"

\* The line is in call.buf, and its terminator, t, of k bytes, is behind it.
LEMMA LineTaken ==
  ASSUME SInv, NEW t \in Terminators, NEW k \in 0 .. 2, NEW n, NEW p, NEW q,
         n = Len(call.buf), p = call.start, IsString(t, k),
         Behind(q, p, n), Agree(call.buf, file, p, n), Agree(t, file, q, k),
         \A i \in 1 .. Len(call.buf) : call.buf[i] \notin {"cr", "lf"},
         t = <<>> => q + k = Len(file),
         (t = <<"cr">> /\ q + k < Len(file)) => file[q + k + 1] # "lf"
  PROVE  TakesLine(q + k)
<1>1. IsString(call.buf, n) /\ n \in Nat /\ p \in Nat /\ k \in Nat /\ q = p + n
  BY AtRequest DEF Behind
<1>2. PICK j : Behind(j, n, k)
  BY <1>1 DEF Behind
<1>3. PICK b : b = call.buf
  OBVIOUS
<1>4. Stretch(file, p, j) = b \o t
  <2>1. IsString(b, n) /\ Agree(b, file, p, n)
    BY <1>1, <1>3
  <2> QED BY <1>2, <2>1, Taken
<1>5. p + j = q + k
  BY <1>1, <1>2 DEF Behind
<1>6. SubSeq(file, call.start + 1, q + k) = call.buf \o t
  BY <1>3, <1>4, <1>5 DEF Stretch
<1> QED BY <1>6 DEF TakesLine

LEMMA OneByte ==
  ASSUME NEW f, NEW b, NEW q, f[q + 1] = b
  PROVE  Agree(<<b>>, f, q, 1)
<1>1. ASSUME NEW i \in 1 .. 1
      PROVE  <<b>>[i] = f[q + i]
  <2>1. i = 1
    OBVIOUS
  <2> QED BY <2>1
<1> QED BY <1>1 DEF Agree

LEMMA TerminatorIs ==
  /\ IsString(<<>>, 0) /\ IsString(<<"cr">>, 1) /\ IsString(<<"lf">>, 1)
  /\ IsString(<<"cr", "lf">>, 2)
BY DEF IsString, Bytes

\* readLine() returns, with the pointer at e.
LEMMA LineReturned ==
  ASSUME SInv, pc \in InLine, NEW r \in {"ok", "null"}, Return(r, call), NEW e,
         UNCHANGED <<file, open, kind, fd, status, faults, history>>,
         pos' \in [Handles -> 0 .. MaxLen], pos'[call.h] = e,
         r = "ok" /\ ~call.stray => TakesLine(e)
  PROVE  SInv'
<1>1. /\ call' \in CallRecord /\ pc' = "idle" /\ call'.op = call.op /\ call'.h = call.h
      /\ call'.start = call.start /\ call'.left = call.left /\ call'.buf = call.buf
      /\ call'.stray = call.stray /\ call'.mark = call.mark /\ call'.ret = r
      /\ StepsOfCall' /\ ReadsOn' /\ WritesOn' /\ LineOn'
  BY Returned
<1>2. call.op = "readLine"
  BY DEF SInv, CallInv, StepsOfCall
<1>3. Typed'
  BY <1>1 DEF SInv, Typed, TypeOK, history
<1>4. HandlesInv'
  BY HandlesKept DEF SInv, streams
<1>5. ReadsInOrder' /\ WritesInOrder'
  BY <1>1, <1>2 DEF ReadsInOrder, WritesInOrder, Ended
<1>6. ReadsALine'
  BY <1>1 DEF ReadsALine, Ended, TakesLine, Terminators, Here
<1> QED BY <1>1, <1>3, <1>4, <1>5, <1>6 DEF SInv, CallInv, Answers

\* readLine() returns, having taken a byte with stray bits for -1.
LEMMA StrayLineReturned ==
  ASSUME SInv, pc \in InLine, NEW r \in {"ok", "null"},
         Return(r, [call EXCEPT !.stray = TRUE]),
         UNCHANGED <<file, open, kind, fd, status, faults, history>>,
         pos' \in [Handles -> 0 .. MaxLen]
  PROVE  SInv'
<1>1. /\ call' \in CallRecord /\ pc' = "idle" /\ call'.op = call.op /\ call'.h = call.h
      /\ call'.start = call.start /\ call'.left = call.left /\ call'.mark = call.mark /\ call'.stray
  BY DEF Return, CallRecord, SInv, Typed
<1>2. call.op = "readLine"
  BY DEF SInv, CallInv, StepsOfCall
<1>3. Typed'
  BY <1>1, <1>2 DEF SInv, Typed, TypeOK, Reading, Writing, history
<1>4. HandlesInv'
  BY HandlesKept DEF SInv, streams
<1>5. Answers'
  BY <1>1, <1>2 DEF Answers, ReadsInOrder, WritesInOrder, ReadsALine, Ended
<1> QED BY <1>1, <1>3, <1>4, <1>5 DEF SInv, CallInv, StepsOfCall, ReadsOn, WritesOn, LineOn, InLine

\* readLine() goes on.
LEMMA LineGoesOn ==
  ASSUME SInv, pc \in InLine, pc' \in InLine, call' \in CallRecord, call'.op = call.op,
         call'.h = call.h, UNCHANGED <<file, open, kind, fd, status, faults, history>>,
         pos' \in [Handles -> 0 .. MaxLen], LineOn'
  PROVE  SInv'
<1>1. call.op = "readLine"
  BY DEF SInv, CallInv, StepsOfCall
<1>2. Typed'
  BY <1>1 DEF SInv, Typed, TypeOK, CallRecord, InLine, Reading, Writing, history
<1>3. HandlesInv'
  BY HandlesKept DEF SInv, streams
<1>4. Answers'
  BY NotEnded DEF InLine
<1> QED BY <1>1, <1>2, <1>3, <1>4 DEF SInv, CallInv, StepsOfCall, ReadsOn, WritesOn, InLine

\* Where the requests of a line find it.
LEMMA AtLine ==
  ASSUME SInv, pc \in InLine, call.h \in open, ~call.stray, NEW n, NEW p, NEW here,
         n = Len(call.buf), p = call.start, here = Here
  PROVE  /\ Agree(call.buf, file, p, n)
         /\ \A i \in 1 .. Len(call.buf) : call.buf[i] \notin {"cr", "lf"}
         /\ n \in Nat /\ p \in Nat /\ Behind(p + n, p, n)
         /\ n = 0 \/ p + n <= Len(file)
         /\ pc = "line" => here = p + n
         /\ pc # "line" => p + n < Len(file) /\ file[p + n + 1] = "cr"
         /\ pc \in {"mark", "peek"} => here = p + n + 1
         /\ pc \in {"peek", "back"} => call.mark = p + n + 1
         /\ pc = "back" /\ call.mark < Len(file) => file[call.mark + 1] # "lf"
<1>1. n \in Nat /\ p \in Nat
  BY AtRequest
<1> QED BY <1>1 DEF SInv, CallInv, LineOn, StillOpen, Agree, Behind

LEMMA LineByteStep ==
  ASSUME SInv, LineByte
  PROVE  SInv'
<1>0. PICK n, p, here, b : /\ n = Len(call.buf) /\ p = call.start /\ here = Here
                           /\ b = file[here + 1]
  OBVIOUS
<1>1. /\ call \in CallRecord /\ here \in Nat /\ here + 1 \in 0 .. MaxLen /\ call.h \in Handles
      /\ b \in Bytes /\ pc = "line" /\ call.h \in open /\ here < Len(file) /\ Len(file) \in Nat
      /\ call.buf \in Seq(Bytes) /\ n \in Nat /\ p \in Nat
  BY <1>0, AtRequest DEF LineByte, IsString, CallRecord
<1>2. Move(call.h, here + 1) /\ UNCHANGED <<file, kind, fd, status, faults, history>>
  BY <1>0 DEF LineByte, streams
<1>3. UNCHANGED open /\ pos' \in [Handles -> 0 .. MaxLen] /\ pos'[call.h] = here + 1
  BY <1>1, <1>2, MoveTyped
<1>4. CASE b = "lf" /\ Return("ok", call)
  <2>1. ASSUME ~call.stray
        PROVE  TakesLine(here + 1)
    <3>1. Agree(<<"lf">>, file, here, 1)
      BY <1>0, <1>4, OneByte
    <3>2. Agree(call.buf, file, p, n) /\ Behind(here, p, n) /\ here \in Nat
          /\ \A i \in 1 .. Len(call.buf) : call.buf[i] \notin {"cr", "lf"}
      BY <1>0, <1>1, <2>1, AtLine DEF InLine
    <3>3. <<"lf">> # <<>> /\ <<"lf">> # <<"cr">> /\ <<"lf">> \in Terminators /\ 1 \in 0 .. 2
      BY DEF Terminators
    <3> QED BY <1>0, <3>1, <3>2, <3>3, TerminatorIs, LineTaken
  <2> QED BY <1>1, <1>2, <1>3, <1>4, <2>1, LineReturned DEF InLine
<1>5. CASE b = "cr" /\ pc' = "mark" /\ call' = call
  <2>1. LineOn'
    <3>1. CASE call.stray
      BY <1>5, <3>1 DEF LineOn
    <3>2. CASE ~call.stray
      <4>1. /\ Agree(call.buf, file, p, n) /\ here = p + n /\ (n = 0 \/ p + n <= Len(file))
            /\ \A i \in 1 .. Len(call.buf) : call.buf[i] \notin {"cr", "lf"}
        BY <1>0, <1>1, <3>2, AtLine DEF InLine
      <4> QED BY <1>0, <1>1, <1>2, <1>3, <1>5, <4>1 DEF LineOn, Agree, Here
    <3> QED BY <3>1, <3>2
  <2> QED BY <1>1, <1>2, <1>3, <1>5, <2>1, LineGoesOn DEF InLine
<1>6. CASE b \notin {"cr", "lf"} /\ pc' = pc
           /\ call' = [call EXCEPT !.buf = Append(@, b)]
  <2>1. PICK more \in Seq(Bytes) :
          /\ more = Append(call.buf, b) /\ IsString(more, n + 1) /\ more[n + 1] = b
          /\ \A i \in 1 .. n : more[i] = call.buf[i]
    <3>1. /\ Append(call.buf, b) \in Seq(Bytes) /\ Len(Append(call.buf, b)) = Len(call.buf) + 1
          /\ \A i \in 1 .. Len(call.buf) : Append(call.buf, b)[i] = call.buf[i]
          /\ Append(call.buf, b)[Len(call.buf) + 1] = b
      BY <1>1, AppendProperties
    <3>2. IsString(Append(call.buf, b), n + 1)
      BY <1>0, <1>1, <3>1, SequenceIs DEF IsString
    <3> QED BY <1>0, <3>1, <3>2
  <2>2. Len(more) = n + 1
    BY <1>1, <2>1, SequenceIs DEF IsString
  <2>3. /\ call' \in CallRecord /\ call'.op = call.op /\ call'.h = call.h /\ call'.start = p
        /\ call'.buf = more /\ (~call'.stray => ~call.stray)
    <3>1. call' = [call EXCEPT !.buf = more]
      BY <1>6, <2>1
    <3> QED BY <1>0, <1>1, <2>1, <3>1 DEF CallRecord
  <2>4. LineOn'
    <3>1. CASE call'.stray
      BY <3>1 DEF LineOn
    <3>2. CASE ~call'.stray
      <4>1. /\ Agree(call.buf, file, p, n) /\ here = p + n
            /\ \A i \in 1 .. n : call.buf[i] \notin {"cr", "lf"}
        BY <1>0, <1>1, <2>3, <3>2, AtLine DEF InLine
      <4>2. ASSUME NEW i \in 1 .. n + 1
            PROVE  more[i] = file[p + i] /\ more[i] \notin {"cr", "lf"}
        <5>1. CASE i = n + 1
          BY <1>0, <1>1, <1>6, <2>1, <4>1, <5>1
        <5>2. CASE i \in 1 .. n
          BY <2>1, <4>1, <5>2 DEF Agree
        <5> QED BY <1>1, <5>1, <5>2
      <4>3. Len(call'.buf) = n + 1 /\ pc' = "line" /\ Here' = p + (n + 1)
        BY <1>1, <1>3, <1>6, <2>2, <2>3, <4>1 DEF Here
      <4>4. p + (n + 1) <= Len(file')
        BY <1>1, <1>2, <4>1
      <4> QED BY <1>1, <1>2, <2>3, <4>2, <4>3, <4>4 DEF LineOn
    <3> QED BY <3>1, <3>2
  <2> QED BY <1>1, <1>2, <1>3, <1>6, <2>3, <2>4, LineGoesOn DEF InLine
<1>7. CASE pc' = pc /\ call' = [[call EXCEPT !.buf = Append(@, b)] EXCEPT !.stray = TRUE]
  <2>1. Append(call.buf, b) \in Seq(Bytes)
    BY <1>1, AppendProperties
  <2>2. call' \in CallRecord /\ call'.op = call.op /\ call'.h = call.h /\ call'.stray
    BY <1>1, <1>7, <2>1 DEF CallRecord
  <2>3. LineOn'
    BY <2>2 DEF LineOn
  <2> QED BY <1>1, <1>2, <1>3, <1>7, <2>2, <2>3, LineGoesOn DEF InLine
<1>8. CASE LineEnds([call EXCEPT !.stray = TRUE])
  <2>1. PICK r \in {"ok", "null"} : Return(r, [call EXCEPT !.stray = TRUE])
    BY <1>8 DEF LineEnds
  <2> QED BY <1>1, <1>2, <1>3, <2>1, StrayLineReturned DEF InLine
<1> QED BY <1>0, <1>4, <1>5, <1>6, <1>7, <1>8 DEF LineByte

LEMMA LineEofStep ==
  ASSUME SInv, LineEof
  PROVE  SInv'
<1>0. PICK n, p, here : n = Len(call.buf) /\ p = call.start /\ here = Here
  OBVIOUS
<1>1. /\ pc = "line" /\ call.h \in open /\ here >= Len(file) /\ Len(file) \in Nat /\ here \in Nat
      /\ UNCHANGED <<file, open, pos, kind, fd, status, faults, history>>
      /\ pos \in [Handles -> 0 .. MaxLen] /\ pos[call.h] = here /\ call.buf \in Seq(Bytes)
  BY <1>0, AtRequest DEF LineEof, handles, streams, SInv, Typed, TypeOK, Here, CallRecord
<1>2. PICK r \in {"ok", "null"} : Return(r, call) /\ (r = "ok" => call.buf # <<>>)
  BY DEF LineEof, LineEnds
<1>3. ASSUME r = "ok", ~call.stray
      PROVE  TakesLine(here)
  <2>1. /\ Agree(call.buf, file, p, n) /\ Behind(here, p, n) /\ n \in Nat /\ p \in Nat /\ here = p + n
        /\ \A i \in 1 .. Len(call.buf) : call.buf[i] \notin {"cr", "lf"}
        /\ n = 0 \/ p + n <= Len(file)
    BY <1>0, <1>1, <1>3, AtLine DEF InLine
  <2>2. n # 0
    BY <1>0, <1>1, <1>2, <1>3, EmptySeq
  <2>3. here + 0 = Len(file) /\ here + 0 = here
    BY <1>1, <2>1, <2>2
  <2>4. Agree(<<>>, file, here, 0) /\ <<>> \in Terminators /\ 0 \in 0 .. 2 /\ <<>> # <<"cr">>
    BY DEF Agree, Terminators
  <2>5. TakesLine(here + 0)
    BY <1>0, <2>1, <2>3, <2>4, TerminatorIs, LineTaken
  <2> QED BY <2>3, <2>5
<1> QED BY <1>1, <1>2, <1>3, LineReturned DEF InLine

LEMMA LineMarkStep ==
  ASSUME SInv, LineMark
  PROVE  SInv'
<1>0. PICK n, p, here : n = Len(call.buf) /\ p = call.start /\ here = Here
  OBVIOUS
<1>1. /\ pc = "mark" /\ call.h \in open /\ here \in 0 .. MaxLen /\ call \in CallRecord
      /\ UNCHANGED <<file, open, pos, kind, fd, status, faults, history>>
      /\ pos \in [Handles -> 0 .. MaxLen] /\ pos[call.h] = here
  BY <1>0, AtRequest DEF LineMark, handles, streams, SInv, Typed, TypeOK, Here
<1>2. pc' = "peek" /\ call' = [call EXCEPT !.mark = here]
  BY <1>0 DEF LineMark
<1>3. /\ call' \in CallRecord /\ call'.op = call.op /\ call'.h = call.h /\ call'.start = p
      /\ call'.buf = call.buf /\ call'.stray = call.stray /\ call'.mark = here
  BY <1>0, <1>1, <1>2 DEF CallRecord
<1>4. LineOn'
  <2>1. CASE call.stray
    BY <1>3, <2>1 DEF LineOn
  <2>2. CASE ~call.stray
    <3>1. /\ Agree(call.buf, file, p, n) /\ here = p + n + 1 /\ n \in Nat /\ p \in Nat
          /\ \A i \in 1 .. n : call.buf[i] \notin {"cr", "lf"}
          /\ n = 0 \/ p + n <= Len(file)
          /\ p + n < Len(file) /\ file[p + n + 1] = "cr"
      BY <1>0, <1>1, <2>2, AtLine DEF InLine
    <3>2. Here' = here
      BY <1>1, <1>3 DEF Here
    <3> QED BY <1>0, <1>1, <1>2, <1>3, <3>1, <3>2 DEF LineOn, Agree
  <2> QED BY <2>1, <2>2
<1> QED BY <1>1, <1>2, <1>3, <1>4, LineGoesOn DEF InLine

LEMMA LinePeekStep ==
  ASSUME SInv, LinePeek
  PROVE  SInv'
<1>0. PICK n, p, here : n = Len(call.buf) /\ p = call.start /\ here = Here
  OBVIOUS
<1>1. /\ pc = "peek" /\ call.h \in open /\ here \in 0 .. MaxLen /\ here \in Nat /\ call \in CallRecord
      /\ UNCHANGED <<file, kind, fd, status, faults, history>>
      /\ pos \in [Handles -> 0 .. MaxLen] /\ pos[call.h] = here /\ call.h \in Handles
      /\ Len(file) \in Nat /\ Len(file) <= MaxLen /\ MaxLen \in Nat
  <2>1. /\ call \in CallRecord /\ Len(file) \in Nat /\ Len(file) <= MaxLen /\ MaxLen \in Nat
        /\ pc # "idle" => here \in 0 .. MaxLen /\ call.h \in Handles
    BY <1>0, AtRequest
  <2>2. pc = "peek" /\ call.h \in open /\ UNCHANGED <<file, kind, fd, status, faults, history>>
    BY DEF LinePeek, streams
  <2>3. pos \in [Handles -> 0 .. MaxLen] /\ pos[call.h] = here
    BY <1>0 DEF SInv, Typed, TypeOK, Here
  <2> QED BY <2>1, <2>2, <2>3
<1>2. ASSUME ~call.stray
      PROVE  /\ Agree(call.buf, file, p, n) /\ here = p + n + 1 /\ n \in Nat /\ p \in Nat
             /\ \A i \in 1 .. Len(call.buf) : call.buf[i] \notin {"cr", "lf"}
             /\ p + n < Len(file) /\ file[p + n + 1] = "cr" /\ call.mark = here
             /\ Behind(p + n, p, n)
  BY <1>0, <1>1, <1>2, AtLine DEF InLine
<1>3. CASE here < Len(file) /\ file[here + 1] = "lf" /\ Move(call.h, here + 1) /\ Return("ok", call)
  <2>1. UNCHANGED open /\ pos' \in [Handles -> 0 .. MaxLen] /\ pos'[call.h] = here + 1
    <3>1. here + 1 \in 0 .. MaxLen
      BY <1>1, <1>3
    <3> QED BY <1>1, <1>3, <3>1, MoveTyped
  <2>2. ASSUME ~call.stray
        PROVE  TakesLine(here + 1)
    <3>1. PICK q : q = p + n /\ Behind(q, p, n) /\ q \in Nat /\ q + 1 = here /\ q + 2 = here + 1
      BY <1>2, <2>2
    <3>2. ASSUME NEW i \in 1 .. 2
          PROVE  <<"cr", "lf">>[i] = file[q + i]
      <4>1. file[q + 1] = "cr" /\ file[q + 2] = "lf"
        BY <1>2, <1>3, <2>2, <3>1
      <4>2. i = 1 \/ i = 2
        OBVIOUS
      <4> QED BY <4>1, <4>2
    <3>3. Agree(<<"cr", "lf">>, file, q, 2)
      BY <3>2 DEF Agree
    <3>4. /\ <<"cr", "lf">> \in Terminators /\ 2 \in 0 .. 2
          /\ <<"cr", "lf">> # <<>> /\ <<"cr", "lf">> # <<"cr">>
      BY DEF Terminators
    <3>5. TakesLine(q + 2)
      BY <1>0, <1>2, <2>2, <3>1, <3>3, <3>4, TerminatorIs, LineTaken
    <3> QED BY <3>1, <3>5
  <2> QED BY <1>1, <1>3, <2>1, <2>2, LineReturned DEF InLine
<1>4. CASE here < Len(file) /\ file[here + 1] = "lf" /\ Move(call.h, here + 1)
           /\ pc' = "back" /\ call' = [call EXCEPT !.stray = TRUE]
  <2>1. UNCHANGED open /\ pos' \in [Handles -> 0 .. MaxLen]
    <3>1. here + 1 \in 0 .. MaxLen
      BY <1>1, <1>4
    <3> QED BY <1>1, <1>4, <3>1, MoveTyped
  <2>2. call' \in CallRecord /\ call'.op = call.op /\ call'.h = call.h /\ call'.stray
    BY <1>1, <1>4 DEF CallRecord
  <2>3. LineOn'
    BY <2>2 DEF LineOn
  <2> QED BY <1>1, <1>4, <2>1, <2>2, <2>3, LineGoesOn DEF InLine
<1>5. CASE /\ (here < Len(file) => file[here + 1] # "lf" /\ Move(call.h, here + 1))
           /\ (~(here < Len(file)) => UNCHANGED handles)
           /\ pc' = "back" /\ call' = call
  <2>1. UNCHANGED open /\ pos' \in [Handles -> 0 .. MaxLen]
    <3>1. CASE here < Len(file)
      <4>1. here + 1 \in 0 .. MaxLen
        BY <1>1, <3>1
      <4> QED BY <1>1, <1>5, <3>1, <4>1, MoveTyped
    <3>2. CASE ~(here < Len(file))
      BY <1>1, <1>5, <3>2 DEF handles
    <3> QED BY <3>1, <3>2
  <2>2. LineOn'
    <3>1. CASE call.stray
      BY <1>5, <3>1 DEF LineOn
    <3>2. CASE ~call.stray
      <4>1. /\ call'.buf = call.buf /\ call'.start = p /\ call'.mark = here /\ file' = file
            /\ pc' = "back" /\ (here < Len(file) => file[here + 1] # "lf")
        BY <1>0, <1>1, <1>2, <1>5, <3>2
      <4>2. \A i \in 1 .. n : call.buf[i] = file[p + i] /\ call.buf[i] \notin {"cr", "lf"}
        BY <1>0, <1>2, <3>2 DEF Agree
      <4> QED BY <1>0, <1>1, <1>2, <3>2, <4>1, <4>2 DEF LineOn
    <3> QED BY <3>1, <3>2
  <2> QED BY <1>1, <1>5, <2>1, <2>2, LineGoesOn DEF InLine
<1>6. \/ here < Len(file) /\ file[here + 1] = "lf" /\ Move(call.h, here + 1)
         /\ \/ Return("ok", call)
            \/ pc' = "back" /\ call' = [call EXCEPT !.stray = TRUE]
      \/ here < Len(file) /\ file[here + 1] # "lf" /\ Move(call.h, here + 1)
         /\ pc' = "back" /\ call' = call
      \/ here >= Len(file) /\ UNCHANGED handles /\ pc' = "back" /\ call' = call
  BY <1>0 DEF LinePeek
<1>7. here >= Len(file) <=> ~(here < Len(file))
  BY <1>1
<1> QED BY <1>3, <1>4, <1>5, <1>6, <1>7

LEMMA LineBackStep ==
  ASSUME SInv, LineBack
  PROVE  SInv'
<1>0. PICK n, p, here, mark : /\ n = Len(call.buf) /\ p = call.start /\ here = Here
                              /\ mark = call.mark
  OBVIOUS
<1>1. /\ pc = "back" /\ call.h \in open /\ call \in CallRecord /\ mark \in 0 .. MaxLen
      /\ UNCHANGED <<file, kind, fd, status, faults, history>> /\ call.h \in Handles
      /\ Move(call.h, mark) /\ Return("ok", call)
  BY <1>0, AtRequest DEF LineBack, streams, SInv, Typed, TypeOK, Back
<1>2. UNCHANGED open /\ pos' \in [Handles -> 0 .. MaxLen] /\ pos'[call.h] = mark
  BY <1>1, MoveTyped
<1>3. ASSUME ~call.stray
      PROVE  TakesLine(mark)
  <2>1. /\ Agree(call.buf, file, p, n) /\ n \in Nat /\ p \in Nat
        /\ \A i \in 1 .. Len(call.buf) : call.buf[i] \notin {"cr", "lf"}
        /\ file[p + n + 1] = "cr" /\ mark = p + n + 1
        /\ mark < Len(file) => file[mark + 1] # "lf"
    BY <1>0, <1>1, <1>3, AtLine DEF InLine
  <2>2. PICK q : q = p + n /\ Behind(q, p, n) /\ q \in Nat /\ q + 1 = mark
    BY <2>1 DEF Behind
  <2>3. Agree(<<"cr">>, file, q, 1)
    BY <2>1, <2>2, OneByte
  <2>4. <<"cr">> \in Terminators /\ 1 \in 0 .. 2 /\ <<"cr">> # <<>>
    BY DEF Terminators
  <2>5. TakesLine(q + 1)
    BY <1>0, <2>1, <2>2, <2>3, <2>4, TerminatorIs, LineTaken
  <2> QED BY <2>2, <2>5
<1> QED BY <1>1, <1>2, <1>3, LineReturned DEF InLine

-----------------------------------------------------------------------------
(* The requests of a write, and those that fail.                           *)

\* The next n bytes of b, which fits behind p, fit.
LEMMA NextFits ==
  ASSUME NEW b, NEW m, NEW k, NEW n, NEW p, NEW here, Fits(b, m, k, n), Behind(here, p, k),
         p + m <= MaxLen
  PROVE  here \in Nat /\ here + n <= MaxLen
<1>1. k \in Nat /\ n \in Nat /\ m \in Nat /\ k + n <= m /\ p \in Nat /\ here = p + k
  BY DEF Fits, Behind, IsString
<1> QED BY <1>1, Bounds

\* What a write finds: n of its bytes are next, and are laid on the file.
LEMMA AtWrite ==
  ASSUME SInv, pc = "write", call.h \in open, NEW n, NEW k, NEW p, NEW b, NEW m, NEW f, NEW here,
         n \in Nat, n <= call.left, k = Done, p = call.start, b = call.buf, m = Len(call.buf),
         f = call.before, here = Here
  PROVE  /\ call.op \in Writing /\ k \in Nat /\ k + call.left = m /\ Fits(b, m, k, n) /\ p \in Nat
         /\ m \in Nat /\ p + m <= MaxLen /\ MaxLen \in Nat /\ IsString(f, Len(f))
         /\ file = Overlay(f, p, Prefix(b, k)) /\ Behind(here, p, k)
         /\ Written(n) = Overlay(file, here, Stretch(b, k, n))
         /\ Written(n) \in Seq(Bytes) /\ Len(Written(n)) <= MaxLen
         /\ \A i \in 1 .. Len(Written(n)) : Written(n)[i] \in Bytes
<1>1. call.op \in Writing
  BY DEF SInv, CallInv, StepsOfCall
<1>2. /\ k \in Nat /\ k + call.left = m /\ call.left \in Nat /\ p \in Nat /\ m \in Nat
      /\ IsString(b, m) /\ IsString(f, Len(f)) /\ MaxLen \in Nat
  BY <1>1, AtRequest
<1>3. p + m <= MaxLen /\ file = Overlay(f, p, Prefix(b, k)) /\ here = p + k
  BY DEF SInv, CallInv, WritesOn, StillOpen, Prefix
<1>4. Fits(b, m, k, n)
  BY <1>2 DEF Fits
<1>5. PICK d : d = Stretch(b, k, n) /\ Holds(b, k, n, d)
  BY <1>4, StretchIs
<1>6. d \in Seq(Bytes) /\ Len(d) = n
  BY <1>5, SequenceIs DEF Holds, IsString
<1>7. Written(n) = Overlay(file, here, d)
  BY <1>5 DEF Written, Stretch
<1>8. here \in Nat /\ here + Len(d) <= MaxLen
  <2>1. Behind(here, p, k) /\ p + m <= MaxLen
    BY <1>2, <1>3 DEF Behind
  <2>2. here \in Nat /\ here + n <= MaxLen
    BY <1>4, <2>1, NextFits
  <2> QED BY <1>6, <2>2
<1>9. /\ Overlay(file, here, d) \in Seq(Bytes) /\ Len(Overlay(file, here, d)) <= MaxLen
      /\ \A i \in 1 .. Len(Overlay(file, here, d)) : Overlay(file, here, d)[i] \in Bytes
  BY <1>6, <1>8, LaidOnFile
<1> QED BY <1>1, <1>2, <1>3, <1>4, <1>5, <1>7, <1>9 DEF Behind

LEMMA WriteChunkStep ==
  ASSUME SInv, WriteChunk
  PROVE  SInv'
<1>0. PICK k, p, b, m, f, here : /\ k = Done /\ p = call.start /\ b = call.buf /\ m = Len(call.buf)
                                 /\ f = call.before /\ here = Here
  OBVIOUS
<1>1. PICK n \in 1 .. Least({call.left, Chunk}) :
        LET c == [call EXCEPT !.left = @ - n]
        IN /\ file' = Written(n) /\ Move(call.h, here + n)
           /\ IF c.left = 0 THEN Return("ok", c) ELSE pc' = pc /\ call' = c
  BY <1>0 DEF WriteChunk, Progress
<1>2. /\ call \in CallRecord /\ call.left \in Nat /\ call.left <= MaxLen /\ Chunk \in Nat
      /\ pc = "write" /\ call.h \in open /\ call.h \in Handles /\ here \in Nat
  BY <1>0, AtRequest DEF WriteChunk
<1>3. n \in Nat /\ n > 0 /\ n <= call.left
  <2>1. Least({call.left, Chunk}) \in Nat /\ Least({call.left, Chunk}) <= call.left
    BY <1>2, LeastOfTwo
  <2> QED BY <1>2, <2>1
<1>4. /\ call.op \in Writing /\ k \in Nat /\ k + call.left = m /\ Fits(b, m, k, n) /\ p \in Nat
      /\ m \in Nat /\ p + m <= MaxLen /\ MaxLen \in Nat /\ IsString(f, Len(f))
      /\ file = Overlay(f, p, Prefix(b, k)) /\ Behind(here, p, k)
      /\ file' = Overlay(file, here, Stretch(b, k, n))
      /\ file' \in Seq(Bytes) /\ Len(file') <= MaxLen /\ \A i \in 1 .. Len(file') : file'[i] \in Bytes
  <2>1. file' = Written(n)
    BY <1>1
  <2>2. SInv /\ pc = "write" /\ call.h \in open /\ n \in Nat /\ n <= call.left
    BY <1>2, <1>3
  <2> QED BY <1>0, <2>1, <2>2, AtWrite
<1>5. PICK j \in Nat : j = k + n /\ Behind(j, k, n)
  BY <1>3, <1>4 DEF Behind
<1>6. file' = Overlay(f, p, Prefix(b, j))
  BY <1>3, <1>4, <1>5, OverlayTwice
<1>7. PICK left \in 0 .. MaxLen : left = call.left - n
  BY <1>2, <1>3, <1>4
<1>8. here + n \in 0 .. MaxLen /\ here + n = p + j /\ m - left = j /\ left <= m
  <2>1. here = p + k
    BY <1>4 DEF Behind
  <2>2. /\ p \in Nat /\ k \in Nat /\ m \in Nat /\ MaxLen \in Nat /\ k + call.left = m
        /\ p + m <= MaxLen
    BY <1>4
  <2> QED BY <1>2, <1>3, <1>5, <1>7, <2>1, <2>2
<1>9. /\ call' \in CallRecord /\ call'.op = call.op /\ call'.h = call.h
      /\ call'.start = p /\ call'.left = left /\ call'.buf = b /\ call'.before = f
      /\ call'.mark = call.mark /\ pc' = (IF left = 0 THEN "idle" ELSE "write")
      /\ left = 0 => call'.ret = "ok"
  <2>1. CASE left = 0
    <3>1. pc' = "idle" /\ call' = [call EXCEPT !.left = left, !.ret = "ok"]
      BY <1>1, <1>2, <1>7, <2>1 DEF Return, CallRecord
    <3> QED BY <1>0, <1>2, <2>1, <3>1 DEF CallRecord
  <2>2. CASE left # 0
    <3>1. pc' = "write" /\ call' = [call EXCEPT !.left = left]
      BY <1>1, <1>2, <1>7, <2>2 DEF CallRecord
    <3> QED BY <1>0, <1>2, <2>2, <3>1 DEF CallRecord
  <2> QED BY <2>1, <2>2
<1>10. /\ UNCHANGED <<open, kind, fd, status, faults, shared, misclosed, orphans>>
       /\ pos' \in [Handles -> 0 .. MaxLen] /\ Here' = p + j
  <2>1. UNCHANGED open /\ pos' \in [Handles -> 0 .. MaxLen] /\ pos'[call.h] = here + n
    BY <1>1, <1>2, <1>8, MoveTyped
  <2> QED BY <1>8, <1>9, <2>1 DEF WriteChunk, streams, history, Here
<1>11. Done' = j /\ Len(call'.buf) = m
  BY <1>0, <1>8, <1>9 DEF Done
<1>12. Typed'
  <2>1. call'.left <= Len(call'.buf)
    BY <1>8, <1>9, <1>11
  <2> QED BY <1>2, <1>4, <1>9, <1>10, <2>1 DEF SInv, Typed, TypeOK, CallRecord
<1>13. HandlesInv'
  BY <1>10, HandlesKept DEF SInv, streams, history
<1>14. StepsOfCall' /\ ReadsOn' /\ LineOn' /\ ReadsInOrder' /\ ReadsALine'
  BY <1>4, <1>9 DEF StepsOfCall, ReadsOn, LineOn, ReadsInOrder, ReadsALine, Ended, InLine, Writing
<1>15. WritesOn'
  BY <1>4, <1>6, <1>9, <1>10, <1>11 DEF WritesOn, Prefix
<1>16. WritesInOrder'
  <2>1. CASE left # 0
    BY <1>9, <2>1 DEF WritesInOrder, Ended
  <2>2. CASE left = 0
    <3>1. j = m
      BY <1>4, <1>8, <2>2
    <3>2. IsString(b, m)
      BY <1>4 DEF Fits
    <3>3. Prefix(b, m) = b
      BY <3>2, WholePrefix
    <3>4. file' = Overlay(call'.before, call'.start, call'.buf)
      BY <1>6, <1>9, <3>1, <3>3
    <3>5. Here' = call'.start + Len(call'.buf) /\ call'.ret = "ok"
      BY <1>9, <1>10, <1>11, <2>2, <3>1
    <3> QED BY <3>4, <3>5 DEF WritesInOrder, Ended
  <2> QED BY <2>1, <2>2
<1> QED BY <1>12, <1>13, <1>14, <1>15, <1>16 DEF SInv, CallInv, Answers

\* What is not where d is laid is as it was.
LEMMA OverlayElsewhere ==
  ASSUME NEW f, NEW n, NEW d, NEW m, NEW p, NEW q, IsString(f, n), IsString(d, m), p \in Nat,
         q \in Nat, p + m <= q, NEW i \in 1 .. n, i \notin p + 1 .. q
  PROVE  Overlay(f, p, d)[i] = f[i]
<1>1. \A x \in 1 .. Reach(n, p, m) :
        Overlay(f, p, d)[x] = IF x \in p + 1 .. p + m THEN d[x - p]
                              ELSE IF x <= n THEN f[x] ELSE "nul"
  BY OverlayIs
<1>2. n \in Nat /\ m \in Nat
  BY DEF IsString
<1>3. i \in 1 .. Reach(n, p, m)
  BY <1>2 DEF Reach
<1>4. i \notin p + 1 .. p + m /\ i <= n
  BY <1>2
<1> QED BY <1>1, <1>3, <1>4

LEMMA WriteFailsStep ==
  ASSUME SInv, WriteFails
  PROVE  SInv'
<1>0. PICK k, p, b, m, f, here : /\ k = Done /\ p = call.start /\ b = call.buf /\ m = Len(call.buf)
                                 /\ f = call.before /\ here = Here
  OBVIOUS
<1>1. Return("thrown", call) /\ pc = "write"
  BY DEF WriteFails
<1>2. /\ call' \in CallRecord /\ pc' = "idle" /\ call'.op = call.op /\ call'.h = call.h
      /\ call'.start = call.start /\ call'.left = call.left /\ call'.buf = call.buf
      /\ call'.before = call.before /\ call'.mark = call.mark /\ call'.ret = "thrown"
      /\ StepsOfCall' /\ ReadsOn' /\ WritesOn' /\ LineOn'
  BY <1>1, Returned
<1>3. call.op \in Writing
  BY <1>1 DEF SInv, CallInv, StepsOfCall
<1>4. /\ k \in Nat /\ k + call.left = m /\ call.left \in Nat /\ Chunk \in Nat /\ p \in Nat /\ m \in Nat
      /\ IsString(b, m) /\ IsString(f, Len(f)) /\ Len(f) \in Nat
  <2>1. IsString(f, Len(f))
    BY <1>0, AtRequest
  <2> QED BY <1>0, <1>3, <2>1, AtRequest DEF IsString
<1>5. file = Overlay(f, p, Prefix(b, k))
  BY <1>0, <1>1 DEF SInv, CallInv, WritesOn, Prefix
<1>6. PICK n : /\ n = Least({call.left, Chunk}) /\ n \in Nat /\ n <= call.left
  BY <1>4, LeastOfTwo
<1>7. ASSUME NEW g, NEW i \in 1 .. Len(f), i \notin p + 1 .. p + m, NEW j, j \in Nat, j <= m,
             g = Overlay(f, p, Prefix(b, j))
      PROVE  g[i] = f[i]
  <2>1. IsString(Prefix(b, j), j)
    BY <1>4, <1>7, PrefixIs
  <2>2. PICK q \in Nat : q = p + m
    BY <1>4
  <2>3. p + j <= q /\ i \notin p + 1 .. q
    BY <1>4, <1>7, <2>2
  <2>4. PICK d : d = Prefix(b, j) /\ IsString(d, j)
    BY <2>1
  <2>5. Overlay(f, p, d)[i] = f[i]
    BY <1>4, <2>3, <2>4, OverlayElsewhere
  <2> QED BY <1>7, <2>4, <2>5
<1>8. /\ file' \in Seq(Bytes) /\ Len(file') <= MaxLen /\ \A i \in 1 .. Len(file') : file'[i] \in Bytes
      /\ \E j \in Nat : j <= m /\ file' = Overlay(f, p, Prefix(b, j))
  <2>1. CASE UNCHANGED file
    BY <1>4, <1>5, <2>1 DEF SInv, Typed, TypeOK
  <2>2. CASE call.h \in open /\ file' = Written(n)
    <3>1. /\ Fits(b, m, k, n) /\ file = Overlay(f, p, Prefix(b, k)) /\ Behind(here, p, k)
          /\ file' = Overlay(file, here, Stretch(b, k, n))
          /\ file' \in Seq(Bytes) /\ Len(file') <= MaxLen
          /\ \A i \in 1 .. Len(file') : file'[i] \in Bytes
      BY <1>0, <1>1, <1>6, <2>2, AtWrite
    <3>2. CASE n = 0
      <4>1. PICK d : d = Stretch(b, k, n) /\ Holds(b, k, n, d)
        BY <3>1, StretchIs
      <4>2. here \in Nat
        BY <1>4, <3>1 DEF Behind
      <4>3. PICK g, l : g = file /\ l = Len(file) /\ IsString(g, l)
        BY AtRequest
      <4>4. Overlay(g, here, d) = g
        BY <3>2, <4>1, <4>2, <4>3, OverlayNothing DEF Holds
      <4>5. file' = file
        BY <3>1, <4>1, <4>3, <4>4
      <4> QED BY <1>4, <1>5, <3>1, <4>5
    <3>3. CASE n > 0
      <4>1. PICK j \in Nat : j = k + n /\ Behind(j, k, n)
        BY <1>4, <1>6 DEF Behind
      <4>2. Overlay(Overlay(f, p, Prefix(b, k)), here, Stretch(b, k, n)) = Overlay(f, p, Prefix(b, j))
        BY <1>4, <3>1, <3>3, <4>1, OverlayTwice
      <4>4. j <= m
        BY <1>4, <1>6, <4>1
      <4> QED BY <3>1, <4>1, <4>2, <4>4
    <3> QED BY <1>6, <3>2, <3>3
  <2> QED BY <1>6, <2>1, <2>2 DEF WriteFails
<1>9. \A i \in 1 .. Len(f) : i \notin p + 1 .. p + m => file'[i] = f[i]
  <2>1. PICK j \in Nat : j <= m /\ file' = Overlay(f, p, Prefix(b, j))
    BY <1>8
  <2>2. PICK g : g = file'
    OBVIOUS
  <2> QED BY <1>7, <2>1, <2>2
<1>10. faults' \in 0 .. MaxFaults
  BY FaultTyped DEF WriteFails, SInv, Typed, TypeOK
<1>11. UNCHANGED <<open, pos, kind, fd, status, shared, misclosed, orphans>>
  BY DEF WriteFails, handles, streams, history
<1>12. Typed'
  BY <1>2, <1>8, <1>10, <1>11 DEF SInv, Typed, TypeOK
<1>13. HandlesInv'
  BY <1>11, HandlesKept DEF SInv, streams, history
<1>14. WritesInOrder'
  BY <1>0, <1>2, <1>9 DEF WritesInOrder, Ended
<1>15. ReadsInOrder' /\ ReadsALine'
  BY <1>2, <1>3 DEF ReadsInOrder, ReadsALine, Ended, Writing
<1> QED BY <1>2, <1>12, <1>13, <1>14, <1>15 DEF SInv, CallInv, Answers

LEMMA CallFailsStep ==
  ASSUME SInv, CallFails
  PROVE  SInv'
<1>1. /\ call' \in CallRecord /\ pc' = "idle" /\ call'.op = call.op /\ call'.h = call.h
      /\ call'.start = call.start /\ call'.left = call.left /\ call'.buf = call.buf
      /\ call'.mark = call.mark /\ call'.ret = "thrown"
      /\ StepsOfCall' /\ ReadsOn' /\ WritesOn' /\ LineOn'
  BY Returned DEF CallFails
<1>2. call.op \notin Writing
  BY DEF CallFails, SInv, Typed, TypeOK, CallInv, StepsOfCall, InLine, Reading, Writing
<1>3. faults' \in 0 .. MaxFaults
  BY FaultTyped DEF CallFails, SInv, Typed, TypeOK
<1>4. UNCHANGED <<file, open, pos, kind, fd, status, shared, misclosed, orphans>>
  BY DEF CallFails, handles, streams, history
<1>5. Typed'
  BY <1>1, <1>3, <1>4 DEF SInv, Typed, TypeOK
<1>6. HandlesInv'
  BY <1>4, HandlesKept DEF SInv, streams, history
<1>7. Answers'
  BY <1>1, <1>2 DEF Answers, ReadsInOrder, WritesInOrder, ReadsALine, Ended, Writing
<1> QED BY <1>1, <1>5, <1>6, <1>7 DEF SInv, CallInv

-----------------------------------------------------------------------------
(* The requests of setLength().                                            *)

LEMMA SetPointerStep ==
  ASSUME SInv, SetPointer
  PROVE  SInv'
<1>1. /\ call.h \in Handles /\ call.left \in 0 .. MaxLen /\ Move(call.h, call.left)
      /\ pc = "seteof" /\ pc' = "truncate"
      /\ UNCHANGED <<file, call, kind, fd, status, faults, shared, misclosed, orphans>>
  BY DEF SetPointer, SInv, Typed, TypeOK, streams, history
<1>2. UNCHANGED open /\ pos' \in [Handles -> 0 .. MaxLen]
  BY <1>1, MoveTyped
<1>3. Typed'
  BY <1>1, <1>2 DEF SInv, Typed, TypeOK
<1>4. HandlesInv'
  BY <1>1, <1>2, HandlesKept DEF SInv, streams, history
<1>5. Answers'
  BY <1>1, NotEnded
<1> QED BY <1>1, <1>3, <1>4, <1>5
        DEF SInv, CallInv, StepsOfCall, ReadsOn, WritesOn, LineOn, InLine

LEMMA SetEndOfFileStep ==
  ASSUME SInv, SetEndOfFile
  PROVE  SInv'
<1>0. PICK n : n = Here /\ n \in Nat /\ n <= MaxLen
  BY AtRequest DEF SetEndOfFile
<1>1. IsString(file, Len(file)) /\ Len(file) \in Nat
  BY AtRequest
<1>2. file' = [i \in 1 .. n |-> IF i <= Len(file) THEN file[i] ELSE "nul"]
  BY <1>0 DEF SetEndOfFile
<1>3. file' \in [1 .. n -> Bytes]
  BY <1>0, <1>1, <1>2 DEF IsString, Bytes
<1>4. file' \in Seq(Bytes) /\ Len(file') <= MaxLen /\ \A i \in 1 .. Len(file') : file'[i] \in Bytes
  BY <1>0, <1>3, SequenceIs
<1>5. /\ call' \in CallRecord /\ pc' = "idle" /\ call'.op = call.op /\ call'.h = call.h
      /\ call'.start = call.start /\ call'.left = call.left /\ call'.buf = call.buf
      /\ call'.mark = call.mark /\ call'.ret = "ok"
  BY Returned DEF SetEndOfFile
<1>6. call.op = "setLength"
  BY DEF SetEndOfFile, SInv, CallInv, StepsOfCall
<1>7. UNCHANGED <<open, pos, kind, fd, status, faults, shared, misclosed, orphans>>
  BY DEF SetEndOfFile, handles, streams, history
<1>8. Typed'
  BY <1>4, <1>5, <1>7 DEF SInv, Typed, TypeOK
<1>9. HandlesInv'
  BY <1>7, HandlesKept DEF SInv, streams, history
<1>10. CallInv'
  BY <1>5, <1>6, OtherEnded DEF Reading, Writing
<1> QED BY <1>8, <1>9, <1>10 DEF SInv

LEMMA OpenFailsStep ==
  ASSUME SInv, OpenFails
  PROVE  SInv'
<1>1. CallInv' /\ call' \in CallRecord /\ call'.left = 0 /\ call'.start = 0 /\ call'.mark = 0
      /\ call'.op = "none" /\ pc' = "idle"
  BY Forgotten DEF OpenFails
<1>2. faults' \in 0 .. MaxFaults
  BY FaultTyped DEF OpenFails, SInv, Typed, TypeOK
<1>3. Typed'
  BY <1>1, <1>2, Bounds
     DEF OpenFails, SInv, Typed, TypeOK, Reading, Writing, handles, streams, history
<1>4. HandlesInv'
  BY HandlesKept DEF SInv, OpenFails, handles
<1> QED BY <1>1, <1>3, <1>4 DEF SInv

-----------------------------------------------------------------------------
(* The invariant.                                                          *)

LEMMA InitSInv ==
  ASSUME Init
  PROVE  SInv
<1>1. file \in Seq(Bytes) /\ Len(file) \in 0 .. MaxLen
  BY DataTyped DEF Init
<1>2. call \in CallRecord /\ call.op = "none" /\ call.left = 0 /\ call.start = 0 /\ call.mark = 0
  BY NoCallTyped DEF Init, NoCall
<1>3. \A i \in 1 .. Len(file) : file[i] \in Bytes
  BY <1>1, SequenceIs
<1>4. Typed
  <2>1. 0 \in 0 .. MaxLen /\ 0 \in 0 .. MaxFaults /\ Len(file) <= MaxLen
    BY <1>1, Bounds
  <2>2. TypeOK
    BY <1>2, <1>3, <2>1 DEF Init, TypeOK
  <2> QED BY <1>1, <1>2, <2>2 DEF Typed, Reading, Writing
<1>5. CallInv
  BY <1>2 DEF Init, CallInv, StepsOfCall, ReadsOn, WritesOn, LineOn, Answers, ReadsInOrder,
              WritesInOrder, ReadsALine, Ended, InLine
<1>6. HandlesInv
  BY DEF Init, HandlesInv, Owned, OpenAreOwned
<1> QED BY <1>4, <1>5, <1>6 DEF SInv

LEMMA NextSInv ==
  ASSUME SInv, [Next]_vars
  PROVE  SInv'
<1>1. CASE \E s \in Objects : Calls(s) \/ Finalize(s)
  BY <1>1, CallsStep, FinalizeStep
<1>2. CASE OpenFails
  BY <1>2, OpenFailsStep
<1>3. CASE Requests
  <2>1. CASE ReadChunk \/ ReadEof
    BY <2>1, ReadChunkStep, ReadEofStep
  <2>2. CASE LineByte \/ LineEof \/ LineMark \/ LinePeek \/ LineBack
    BY <2>2, LineByteStep, LineEofStep, LineMarkStep, LinePeekStep, LineBackStep
  <2>3. CASE WriteChunk \/ WriteFails \/ CallFails
    BY <2>3, WriteChunkStep, WriteFailsStep, CallFailsStep
  <2>4. CASE SetPointer \/ SetEndOfFile
    BY <2>4, SetPointerStep, SetEndOfFileStep
  <2> QED BY <1>3, <2>1, <2>2, <2>3, <2>4 DEF Requests
<1>4. CASE UNCHANGED vars
  <2>1. UNCHANGED <<file, open, pos, kind, fd, status, pc, call, faults, shared, misclosed, orphans>>
    BY <1>4 DEF vars, handles, streams, history
  <2>2. CallInv'
    BY <2>1, CallGoesOn DEF SInv
  <2>3. HandlesInv'
    BY <2>1, HandlesKept DEF SInv, streams, history
  <2>4. Typed'
    BY <2>1 DEF SInv, Typed, TypeOK
  <2> QED BY <2>2, <2>3, <2>4 DEF SInv
<1> QED BY <1>1, <1>2, <1>3, <1>4 DEF Next

LEMMA AlwaysSInv == Spec => []SInv
BY InitSInv, NextSInv, PTL DEF Spec

(* Every position, handle and byte stays within its type: no request goes  *)
(* beyond the array, or the part of the file, that it was made for.        *)
THEOREM StreamsTypeOK == Spec => []TypeOK
<1>1. SInv => TypeOK
  BY DEF SInv, Typed
<1> QED BY <1>1, AlwaysSInv, PTL

(* As long as no FileDescriptor is given to a second stream and no close   *)
(* both fails and closes, no stream loses its handle to the close() or the *)
(* finalize() of another, although a native handle is reused at once, and  *)
(* only a failed finalize() leaves one open: for any number of streams.    *)
THEOREM StreamsOpenAreOwned == Spec => []OpenAreOwned
<1>1. SInv => OpenAreOwned
  BY DEF SInv, HandlesInv
<1> QED BY <1>1, AlwaysSInv, PTL

(* read(b) returns the bytes of the file from the pointer on, in order,    *)
(* however each request is cut, and so does readInt() if none of them came *)
(* with stray bits; both leave the pointer behind the last byte read,      *)
(* whatever the finalizer does to other handles in between.                *)
THEOREM StreamsReadsInOrder == Spec => []ReadsInOrder
<1>1. SInv => ReadsInOrder
  BY DEF SInv, CallInv, Answers
<1> QED BY <1>1, AlwaysSInv, PTL

(* A write(b) or writeInt() that returns has overlaid its bytes where the  *)
(* pointer was, however each request is cut, and one that throws has       *)
(* changed nothing elsewhere.                                              *)
THEOREM StreamsWritesInOrder == Spec => []WritesInOrder
<1>1. SInv => WritesInOrder
  BY DEF SInv, CallInv, Answers
<1> QED BY <1>1, AlwaysSInv, PTL

(* A readLine() none of whose bytes came with stray bits returns one line  *)
(* and consumes it with its terminator, of any length: the byte read       *)
(* behind a carriage return is put back unless it is a line feed.          *)
THEOREM StreamsReadsALine == Spec => []ReadsALine
<1>1. SInv => ReadsALine
  BY DEF SInv, CallInv, Answers
<1> QED BY <1>1, AlwaysSInv, PTL
=============================================================================

-------------------------- MODULE Overlapped_proofs --------------------------
(***************************************************************************)
(* The safety of the two native methods, the overlapped read and the       *)
(* overlapped write, for every number and size of buffers: the inductive   *)
(* invariant of the transfer engine, that each action of the engine        *)
(* preserves it whatever system call it is used with, and the application  *)
(* of these lemmas to the two methods.                                     *)
(***************************************************************************)
EXTENDS OverlappedRead, OverlappedWrite, FiniteSetTheorems, TLAPS

Busy == {b \in Buffers : state[b] = "busy"}

(* The counters stay in step with each other and with the request of every *)
(* busy buffer; buffers the priming loop has not reached are untouched;    *)
(* and, unless requests complete at once, a buffer is busy for as long as  *)
(* its request is in flight.                                               *)
Aligned == file_offset = jiOffset + buffer_offset
RequestsInCall ==
  \A b \in Buffers : ov[b].res = "pending" =>
    /\ req[b].offset = jiOffset + req[b].data
    /\ req[b].data + req[b].len <= jiLen
Untouched == \A b \in Buffers : b >= i => state[b] = "idle" /\ ov[b].res = "none"
PendingBound == pending <= i
InFlightIsBusy == \A b \in Buffers : ov[b].res = "pending" => state[b] = "busy"
EndsDrained == pc = "returned" => pending = 0

IInv == /\ TypeOK /\ Aligned /\ RequestsInCall /\ BytesLandInPlace /\ Untouched
        /\ PendingBound /\ InFlightIsBusy /\ PendingIsOutstanding /\ EndsDrained

\* What a system call may answer to request r.
Fits(outs, r) ==
  \A o \in outs : /\ o \in Outcomes /\ o.res \in {"done", "eof", "error"}
                  /\ o.n <= r.len /\ (o.res # "done" => o.n = 0)

-----------------------------------------------------------------------------
(* There are NumBuffers buffers.                                           *)
LEMMA BuffersFinite == IsFiniteSet(Buffers) /\ Cardinality(Buffers) = NumBuffers
BY BuffersAssumption, FS_Interval DEF Buffers

(* The number of busy buffers when one buffer changes its state.           *)
LEMMA BusyChange ==
  ASSUME TypeOK, NEW b \in Buffers, NEW s \in {"idle", "busy"},
         state' = [state EXCEPT ![b] = s]
  PROVE  /\ Cardinality(Busy) \in Nat
         /\ state[b] = s => Cardinality(Busy') = Cardinality(Busy)
         /\ state[b] = "idle" /\ s = "busy" =>
              Cardinality(Busy') = Cardinality(Busy) + 1
         /\ state[b] = "busy" /\ s = "idle" =>
              Cardinality(Busy') = Cardinality(Busy) - 1
<1>1. IsFiniteSet(Busy)
  BY BuffersFinite, FS_Subset DEF Busy
<1>2. Cardinality(Busy) \in Nat
  BY <1>1, FS_CardinalityType
<1>3. state[b] = s => Busy' = Busy
  BY DEF Busy, TypeOK
<1>4. state[b] = "idle" /\ s = "busy" => Busy' = Busy \cup {b} /\ b \notin Busy
  BY DEF Busy, TypeOK
<1>5. state[b] = "busy" /\ s = "idle" => Busy' = Busy \ {b} /\ b \in Busy
  BY DEF Busy, TypeOK
<1>6. Cardinality(Busy \cup {b}) =
        IF b \in Busy THEN Cardinality(Busy) ELSE Cardinality(Busy) + 1
  BY <1>1, FS_AddElement
<1>7. Cardinality(Busy \ {b}) =
        IF b \in Busy THEN Cardinality(Busy) - 1 ELSE Cardinality(Busy)
  BY <1>1, FS_RemoveElement
<1> QED BY <1>2, <1>3, <1>4, <1>5, <1>6, <1>7

(* A chunk is not empty, and ends within the call.                         *)
LEMMA ChunkBounds ==
  ASSUME TypeOK
  PROVE  /\ ChunkLen \in Nat
         /\ buffer_offset + ChunkLen <= jiLen
         /\ buffer_offset < jiLen => ChunkLen > 0
         /\ NextRequest \in Requests
BY BuffersAssumption, CallAssumption DEF TypeOK, ChunkLen, NextRequest, Requests

(* The bytes of a request that lies within the call land in place.         *)
LEMMA BytesInPlace ==
  ASSUME NEW r \in Requests, NEW n \in Nat, n <= r.len,
         jiOffset \in Nat, jiLen \in Nat,
         r.offset = jiOffset + r.data, r.data + r.len <= jiLen
  PROVE  /\ Bytes(r, n) \subseteq Nat \X Nat
         /\ \A m \in Bytes(r, n) : m[1] < jiLen /\ m[2] = jiOffset + m[1]
BY DEF Bytes, Requests

-----------------------------------------------------------------------------
(* What submitting a request leaves true, in either loop.                  *)
SubmitKeeps ==
  /\ buffer_offset \in 0 .. jiLen /\ file_offset \in Nat
  /\ state \in [Buffers -> {"idle", "busy"}] /\ req \in [Buffers -> Requests]
  /\ wait_set \subseteq Buffers /\ ov \in [Buffers -> Outcomes]
  /\ moved \subseteq Nat \X Nat
  /\ Aligned /\ RequestsInCall /\ BytesLandInPlace /\ InFlightIsBusy

(* A submission is pending, or over with an outcome that fits.             *)
LEMMA SubmissionsFit ==
  ASSUME TypeOK, NEW outs, Fits(outs, NextRequest), NEW o \in Submissions(outs)
  PROVE  /\ o \in Outcomes /\ o.n <= NextRequest.len
         /\ o.res \in {"pending", "done", "eof", "error"}
         /\ o.res # "done" => o.n = 0
         /\ Overlapping => o.res # "done"
<1>1. NextRequest.len \in Nat
  BY ChunkBounds DEF Requests
<1>2. CASE o = [res |-> "pending", n |-> 0]
  BY <1>1, <1>2 DEF Outcomes, Results
<1>3. CASE o \in outs /\ (o.res = "done" => "sync" \in faults)
  BY <1>3 DEF Fits, Overlapping
<1> QED BY <1>2, <1>3 DEF Submissions

(* What a submission with buffer b preserves, whether the request is left  *)
(* outstanding or refused.                                                 *)
LEMMA SubmitStep ==
  ASSUME IInv, NEW outs, Fits(outs, NextRequest), NEW b \in Buffers,
         NEW o \in Submissions(outs), Submit(b, o), UNCHANGED call
  PROVE  /\ SubmitKeeps'
         /\ state' = [state EXCEPT ![b] =
                        IF o.res \in {"pending", "done"} THEN "busy" ELSE "idle"]
<1>1. /\ o \in Outcomes /\ o.n <= NextRequest.len
      /\ o.res \in {"pending", "done", "eof", "error"}
  BY SubmissionsFit DEF IInv
<1>2. NextRequest \in Requests /\ ChunkLen \in Nat /\ buffer_offset + ChunkLen <= jiLen
  BY ChunkBounds DEF IInv
<1>3. /\ jiOffset' = jiOffset /\ jiLen' = jiLen /\ jiOffset \in Nat /\ jiLen \in Nat
      /\ buffer_offset \in Nat /\ file_offset \in Nat
  BY CallAssumption DEF call, IInv, TypeOK
<1>4. NextRequest.offset = jiOffset + NextRequest.data
      /\ NextRequest.data + NextRequest.len <= jiLen
  BY <1>2 DEF IInv, Aligned, NextRequest
<1>5. buffer_offset' \in 0 .. jiLen' /\ file_offset' \in Nat /\ Aligned'
  BY <1>2, <1>3 DEF IInv, Aligned, Submit, Advance
<1>6. state' = [state EXCEPT ![b] =
                  IF o.res \in {"pending", "done"} THEN "busy" ELSE "idle"]
  BY DEF Submit
<1>7. /\ state' \in [Buffers -> {"idle", "busy"}] /\ wait_set' \subseteq Buffers
      /\ req' \in [Buffers -> Requests] /\ ov' \in [Buffers -> Outcomes]
  BY <1>1, <1>2, <1>6 DEF IInv, TypeOK, Submit
<1>8. /\ Bytes(NextRequest, o.n) \subseteq Nat \X Nat
      /\ \A m \in Bytes(NextRequest, o.n) : m[1] < jiLen /\ m[2] = jiOffset + m[1]
  BY <1>1, <1>2, <1>3, <1>4, BytesInPlace DEF Outcomes
<1>9. moved' \subseteq Nat \X Nat /\ BytesLandInPlace'
  BY <1>3, <1>8 DEF IInv, TypeOK, BytesLandInPlace, Submit
<1>10. RequestsInCall'
  BY <1>3, <1>4 DEF IInv, TypeOK, RequestsInCall, Submit
<1>11. InFlightIsBusy'
  BY <1>6 DEF IInv, TypeOK, InFlightIsBusy, Submit
<1> QED BY <1>5, <1>6, <1>7, <1>9, <1>10, <1>11 DEF SubmitKeeps

-----------------------------------------------------------------------------
(* The initial states: no buffer is in use.                                *)
LEMMA InitIInv == Init => IInv
<1> SUFFICES ASSUME Init PROVE IInv
  OBVIOUS
<1>1. TypeOK
  <2>1. /\ jiLen \in Nat /\ file_offset \in Nat /\ 0 \in 0 .. NumBuffers
        /\ 0 \in 0 .. jiLen /\ wait_set \subseteq Buffers
        /\ moved \subseteq Nat \X Nat
    BY BuffersAssumption, CallAssumption DEF Init
  <2>2. /\ state \in [Buffers -> {"idle", "busy"}]
        /\ req \in [Buffers -> Requests] /\ ov \in [Buffers -> Outcomes]
    BY DEF Init, Requests, Outcomes, Results
  <2> QED BY <2>1, <2>2 DEF Init, TypeOK
<1>2. Busy = {}
  BY DEF Init, Busy
<1>3. PendingIsOutstanding
  BY <1>2, FS_EmptySet DEF PendingIsOutstanding, Busy, Init
<1>4. Aligned
  BY CallAssumption DEF Init, Aligned
<1> QED
  BY <1>1, <1>3, <1>4 DEF IInv, RequestsInCall, BytesLandInPlace, Untouched,
       PendingBound, InFlightIsBusy, EndsDrained, Init

(* A turn of the priming loop: pending grows with the busy buffers.        *)
LEMMA PrimeIInv ==
  ASSUME IInv, NEW outs, Fits(outs, NextRequest), Prime(outs)
  PROVE  IInv'
<1>1. PICK o \in Submissions(outs) :
        /\ Submit(i, o)
        /\ pending' = IF Refused(o) THEN pending ELSE pending + 1
        /\ eof' = Refused(o)
  BY DEF Prime
<1>2. i \in Buffers /\ i' = i + 1 /\ UNCHANGED <<call, pc, total>> /\ pc = "prime"
  BY BuffersAssumption DEF Prime, Priming, Buffers, IInv, TypeOK
<1>3. o.res \in {"pending", "done", "eof", "error"} /\ (Overlapping => o.res # "done")
  BY SubmissionsFit DEF IInv
<1>4. /\ SubmitKeeps'
      /\ state' = [state EXCEPT ![i] =
                     IF o.res \in {"pending", "done"} THEN "busy" ELSE "idle"]
  BY <1>1, <1>2, SubmitStep
<1>5. state[i] = "idle"
  BY <1>2 DEF IInv, Untouched, Buffers
<1>6. /\ i \in 0 .. NumBuffers - 1 /\ pending \in 0 .. NumBuffers /\ pending <= i
  BY <1>2 DEF IInv, TypeOK, PendingBound, Buffers
<1>7. i' \in 0 .. NumBuffers /\ pending' \in 0 .. NumBuffers /\ PendingBound'
  BY <1>1, <1>2, <1>6, BuffersAssumption DEF PendingBound
<1>8. TypeOK'
  BY <1>1, <1>2, <1>4, <1>7 DEF TypeOK, IInv, SubmitKeeps, call, Refused
<1>9. Untouched'
  <2>1. \A b \in Buffers : b >= i' => b # i /\ b >= i
    BY <1>2, <1>6 DEF Buffers
  <2>2. \A b \in Buffers : b # i => state'[b] = state[b] /\ ov'[b] = ov[b]
    BY <1>1, <1>4 DEF IInv, TypeOK, Submit
  <2> QED BY <2>1, <2>2 DEF IInv, Untouched
<1>10. PendingIsOutstanding'
  <2>1. CASE o.res = "pending"
    BY <1>1, <1>2, <1>4, <1>5, <2>1, BusyChange
       DEF IInv, PendingIsOutstanding, Busy, Overlapping, call, Refused
  <2>2. CASE o.res \in {"eof", "error"}
    BY <1>1, <1>2, <1>4, <1>5, <2>2, BusyChange
       DEF IInv, PendingIsOutstanding, Busy, Overlapping, call, Refused
  <2>3. CASE o.res = "done"
    BY <1>2, <1>3, <2>3 DEF PendingIsOutstanding, Overlapping, call
  <2> QED BY <1>3, <2>1, <2>2, <2>3
<1>11. EndsDrained'
  BY <1>2 DEF EndsDrained
<1> QED BY <1>4, <1>7, <1>8, <1>9, <1>10, <1>11 DEF IInv, SubmitKeeps

(* A turn without memory leaves buffer i as it was.                        *)
LEMMA PrimeNoMemoryIInv == ASSUME IInv, PrimeNoMemory PROVE IInv'
<1>1. TypeOK'
  BY BuffersAssumption DEF IInv, TypeOK, PrimeNoMemory, Priming, call
<1>2. PendingBound' /\ Untouched'
  BY DEF IInv, TypeOK, PrimeNoMemory, PendingBound, Untouched, Buffers
<1> QED
  BY <1>1, <1>2 DEF IInv, PrimeNoMemory, call, Aligned, RequestsInCall,
       BytesLandInPlace, InFlightIsBusy, PendingIsOutstanding, Overlapping,
       EndsDrained, Priming

(* Only the loop changes.                                                  *)
LEMMA PrimeDoneIInv == ASSUME IInv, PrimeDone PROVE IInv'
BY DEF IInv, TypeOK, PrimeDone, call, Aligned, RequestsInCall, BytesLandInPlace,
       Untouched, PendingBound, InFlightIsBusy, PendingIsOutstanding, Overlapping,
       EndsDrained

(* A signalled buffer has been primed, and the loop is still waiting.      *)
LEMMA SignalledFacts ==
  ASSUME IInv, NEW b \in Buffers, Signalled(b)
  PROVE  /\ state[b] = "busy" /\ pc = "drain" /\ pending > 0 /\ ~(b >= i)
         /\ ov[b].n \in Nat
BY DEF IInv, TypeOK, Signalled, Untouched, Outcomes

(* The buffer collected is submitted again, or retired when refused.       *)
LEMMA DrainMoreIInv ==
  ASSUME IInv, NEW b \in Buffers, NEW outs, Fits(outs, NextRequest), DrainMore(b, outs)
  PROVE  IInv'
<1>1. PICK o \in Submissions(outs) :
        /\ Submit(b, o)
        /\ pending' = IF Refused(o) THEN pending - 1 ELSE pending
        /\ eof' = (eof \/ Refused(o))
  BY DEF DrainMore
<1>2. UNCHANGED <<call, pc, i>> /\ total' = total + ov[b].n
  BY DEF DrainMore, Gained
<1>3. o.res \in {"pending", "done", "eof", "error"} /\ (Overlapping => o.res # "done")
  BY SubmissionsFit DEF IInv
<1>4. /\ SubmitKeeps'
      /\ state' = [state EXCEPT ![b] =
                     IF o.res \in {"pending", "done"} THEN "busy" ELSE "idle"]
  BY <1>1, <1>2, SubmitStep
<1>5. /\ state[b] = "busy" /\ pc = "drain" /\ pending > 0 /\ ~(b >= i)
      /\ ov[b].n \in Nat
  BY SignalledFacts DEF DrainMore
<1>6. /\ pending \in 0 .. NumBuffers /\ pending <= i /\ i \in 0 .. NumBuffers
      /\ total \in Nat
  BY DEF IInv, TypeOK, PendingBound
<1>7. pending' \in 0 .. NumBuffers /\ PendingBound' /\ total' \in Nat
  BY <1>1, <1>2, <1>5, <1>6, BuffersAssumption DEF PendingBound
<1>8. TypeOK'
  BY <1>1, <1>2, <1>4, <1>7 DEF TypeOK, IInv, SubmitKeeps, call, Refused
<1>9. Untouched'
  BY <1>1, <1>2, <1>5 DEF IInv, TypeOK, Untouched, Submit
<1>10. PendingIsOutstanding'
  <2>1. CASE o.res = "pending"
    BY <1>1, <1>2, <1>4, <1>5, <2>1, BusyChange
       DEF IInv, PendingIsOutstanding, Busy, Overlapping, call, Refused
  <2>2. CASE o.res \in {"eof", "error"}
    BY <1>1, <1>2, <1>4, <1>5, <2>2, BusyChange
       DEF IInv, PendingIsOutstanding, Busy, Overlapping, call, Refused
  <2>3. CASE o.res = "done"
    BY <1>2, <1>3, <2>3 DEF PendingIsOutstanding, Overlapping, call
  <2> QED BY <1>3, <2>1, <2>2, <2>3
<1>11. EndsDrained'
  BY <1>2, <1>5 DEF EndsDrained
<1> QED BY <1>4, <1>7, <1>8, <1>9, <1>10, <1>11 DEF IInv, SubmitKeeps

(* Both ways in which a buffer retires.                                    *)
LEMMA RetireIInv ==
  ASSUME IInv, NEW b \in Buffers, Signalled(b), Retire(b), pending' = pending - 1,
         eof' = TRUE, total' \in Nat, UNCHANGED <<call, pc, i>>
  PROVE  IInv'
<1>1. /\ state[b] = "busy" /\ pc = "drain" /\ pending > 0 /\ ~(b >= i)
      /\ ov[b].res # "pending"
  BY SignalledFacts DEF Signalled
<1>2. TypeOK'
  BY <1>1, BuffersAssumption DEF IInv, TypeOK, Retire, call
<1>3. PendingIsOutstanding'
  BY <1>1, BusyChange
     DEF IInv, PendingIsOutstanding, Busy, Overlapping, call, Retire
<1>4. PendingBound'
  BY DEF IInv, TypeOK, PendingBound
<1>5. Untouched' /\ InFlightIsBusy'
  BY <1>1 DEF IInv, TypeOK, Untouched, InFlightIsBusy, Retire
<1> QED
  BY <1>1, <1>2, <1>3, <1>4, <1>5
     DEF IInv, Retire, call, Aligned, RequestsInCall, BytesLandInPlace, EndsDrained

(* The buffer collected retires.                                           *)
LEMMA DrainLastIInv == ASSUME IInv, NEW b \in Buffers, DrainLast(b) PROVE IInv'
<1>1. Signalled(b) /\ total' = total + ov[b].n
  BY DEF DrainLast, Gained
<1>2. total' \in Nat
  BY <1>1, SignalledFacts DEF IInv, TypeOK
<1> QED BY <1>1, <1>2, RetireIInv DEF DrainLast

(* The buffer collected retires.                                           *)
LEMMA DrainFailIInv == ASSUME IInv, NEW b \in Buffers, DrainFail(b) PROVE IInv'
<1>1. total' \in Nat
  BY DEF DrainFail, IInv, TypeOK
<1> QED BY <1>1, RetireIInv DEF DrainFail

(* The loop is over because nothing is pending.                            *)
LEMMA CleanupIInv == ASSUME IInv, Cleanup PROVE IInv'
<1>1. TypeOK'
  BY DEF IInv, TypeOK, Cleanup, call
<1> QED
  BY <1>1 DEF IInv, Cleanup, Drained, call, Aligned, RequestsInCall, BytesLandInPlace,
       Untouched, PendingBound, InFlightIsBusy, PendingIsOutstanding, Overlapping,
       EndsDrained

(* A request in flight ends: its bytes land in place, its buffer stays busy.*)
LEMMA CompleteIInv ==
  ASSUME IInv, NEW b \in Buffers, NEW outs, Fits(outs, req[b]), Complete(b, outs)
  PROVE  IInv'
<1>1. PICK o \in outs :
        /\ ov' = [ov EXCEPT ![b] = o]
        /\ moved' = moved \cup Bytes(req[b], o.n)
  BY DEF Complete
<1>2. o \in Outcomes /\ o.res # "pending" /\ o.n <= req[b].len
  BY DEF Fits
<1>3. UNCHANGED <<call, locals, state, req, wait_set>> /\ ov[b].res = "pending"
  BY DEF Complete
<1>4. /\ req[b] \in Requests /\ jiOffset \in Nat /\ jiLen \in Nat
      /\ req[b].offset = jiOffset + req[b].data /\ req[b].data + req[b].len <= jiLen
  BY <1>3, CallAssumption DEF IInv, TypeOK, RequestsInCall
<1>5. /\ Bytes(req[b], o.n) \subseteq Nat \X Nat
      /\ \A m \in Bytes(req[b], o.n) : m[1] < jiLen /\ m[2] = jiOffset + m[1]
  BY <1>2, <1>4, BytesInPlace DEF Outcomes
<1>6. TypeOK'
  BY <1>1, <1>2, <1>3, <1>5 DEF IInv, TypeOK, call, locals
<1>7. BytesLandInPlace'
  BY <1>1, <1>3, <1>5 DEF IInv, BytesLandInPlace, call
<1>8. ~(b >= i)
  BY <1>3 DEF IInv, Untouched
<1>9. Untouched' /\ InFlightIsBusy' /\ RequestsInCall'
  BY <1>1, <1>2, <1>3, <1>8
     DEF IInv, TypeOK, Untouched, InFlightIsBusy, RequestsInCall, call, locals
<1> QED
  BY <1>3, <1>6, <1>7, <1>9 DEF IInv, call, locals, Aligned, PendingBound,
       PendingIsOutstanding, Overlapping, EndsDrained

(* A step that changes nothing.                                            *)
LEMMA StutterIInv == ASSUME IInv, UNCHANGED vars PROVE IInv'
BY DEF IInv, vars, call, locals, TypeOK, Aligned, RequestsInCall, BytesLandInPlace,
       Untouched, PendingBound, InFlightIsBusy, PendingIsOutstanding, Overlapping,
       EndsDrained

(* With no busy buffer nothing is in flight.                               *)
LEMMA IInvNoIO == IInv => NoIOAfterReturn
<1> SUFFICES ASSUME IInv, Overlapping, pc = "returned", NEW b \in Buffers
             PROVE  ov[b].res # "pending"
  BY DEF NoIOAfterReturn
<1>1. IsFiniteSet(Busy)
  BY BuffersFinite, FS_Subset DEF Busy
<1>2. Cardinality(Busy) = 0
  BY DEF IInv, EndsDrained, PendingIsOutstanding, Busy
<1>3. Busy = {}
  BY <1>1, <1>2, FS_EmptySet
<1> QED BY <1>3 DEF IInv, InFlightIsBusy, Busy

-----------------------------------------------------------------------------
(* The bytes of the requests that are over but not yet collected by the    *)
(* drain loop, and what total has counted: the other bytes moved.          *)
Uncollected == {b \in Buffers : state[b] = "busy" /\ ov[b].res # "pending"}
Carried(b) == Bytes(req[b], ov[b].n)
Collected == {m \in moved : \A b \in Uncollected : m \notin Carried(b)}
CollectedWith(b) == {m \in moved : \A c \in Uncollected \ {b} : m \notin Carried(c)}

(* The requests of busy buffers are disjoint parts of what has been asked  *)
(* for; nothing moves for a request before it is over, and what it moves   *)
(* then stays uncollected until total grows by just that.                  *)
Issued == \A b \in Busy : req[b].len > 0 /\ req[b].data + req[b].len <= buffer_offset
Disjoint ==
  \A b, c \in Busy : b # c => \/ req[b].data + req[b].len <= req[c].data
                              \/ req[c].data + req[c].len <= req[b].data
MovedIssued == IsFiniteSet(moved) /\ \A m \in moved : m[1] < buffer_offset
InFlightFresh ==
  \A b \in Buffers : ov[b].res = "pending" => \A m \in moved : m[1] \notin Span(req[b])
Answered ==
  \A b \in Uncollected : /\ ov[b].n <= req[b].len /\ Carried(b) \subseteq moved
                         /\ ov[b].res # "done" => ov[b].n = 0
Counted == total = Cardinality(Collected)

Placed == Issued /\ Disjoint /\ MovedIssued /\ InFlightFresh /\ Answered
AInv == Placed /\ Counted

(* n bytes of a request are n pairs, at n consecutive array positions.     *)
LEMMA BytesCount ==
  ASSUME NEW r \in Requests, NEW n \in Nat
  PROVE  /\ IsFiniteSet(Bytes(r, n)) /\ Cardinality(Bytes(r, n)) = n
         /\ \A m \in Bytes(r, n) : m[1] \in r.data .. r.data + n - 1
<1> DEFINE f == [k \in 0 .. n - 1 |-> <<r.data + k, r.offset + k>>]
<1>1. f \in Bijection(0 .. n - 1, Bytes(r, n))
  <2>1. f \in [0 .. n - 1 -> Bytes(r, n)]
    BY DEF Bytes
  <2>2. \A j, k \in 0 .. n - 1 : f[j] = f[k] => j = k
    BY DEF Requests
  <2>3. \A m \in Bytes(r, n) : \E k \in 0 .. n - 1 : f[k] = m
    BY DEF Bytes
  <2> QED BY <2>1, <2>2, <2>3 DEF Bijection, Injection, IsInjective, Surjection
<1>2. IsFiniteSet(0 .. n - 1) /\ Cardinality(0 .. n - 1) = n
  BY FS_Interval
<1>3. ExistsBijection(0 .. n - 1, Bytes(r, n))
  BY <1>1 DEF ExistsBijection
<1>4. IsFiniteSet(Bytes(r, n)) /\ Cardinality(Bytes(r, n)) = n
  BY <1>2, <1>3, FS_Bijection
<1>5. \A m \in Bytes(r, n) : m[1] \in r.data .. r.data + n - 1
  BY DEF Bytes, Requests
<1> QED BY <1>4, <1>5

(* A buffer that is over is collected: total may grow by what it carried.  *)
LEMMA CollectBuffer ==
  ASSUME TypeOK, Placed, NEW b \in Uncollected
  PROVE  Cardinality(CollectedWith(b)) = Cardinality(Collected) + ov[b].n
<1>1. b \in Buffers /\ b \in Busy /\ req[b] \in Requests /\ ov[b].n \in Nat
  BY DEF Uncollected, Busy, TypeOK, Outcomes
<1>2. IsFiniteSet(Carried(b)) /\ Cardinality(Carried(b)) = ov[b].n
  BY <1>1, BytesCount DEF Carried
<1>3. IsFiniteSet(Collected)
  BY FS_Subset DEF Collected, Placed, MovedIssued
<1>4. Collected \cap Carried(b) = {}
  BY DEF Collected
<1>5. CollectedWith(b) = Collected \cup Carried(b)
  <2>1. ASSUME NEW c \in Uncollected \ {b}, NEW m \in Carried(b), m \in Carried(c)
        PROVE  FALSE
    <3>1. c \in Buffers /\ c \in Busy /\ req[c] \in Requests /\ ov[c].n \in Nat
      BY DEF Uncollected, Busy, TypeOK, Outcomes
    <3>2. /\ m[1] \in req[b].data .. req[b].data + ov[b].n - 1
          /\ m[1] \in req[c].data .. req[c].data + ov[c].n - 1
      BY <1>1, <2>1, <3>1, BytesCount DEF Carried
    <3>3. ov[b].n <= req[b].len /\ ov[c].n <= req[c].len
      BY DEF Placed, Answered
    <3>4. \/ req[b].data + req[b].len <= req[c].data
          \/ req[c].data + req[c].len <= req[b].data
      BY <1>1, <3>1 DEF Placed, Disjoint
    <3> QED BY <1>1, <3>1, <3>2, <3>3, <3>4 DEF Requests
  <2>2. Carried(b) \subseteq moved
    BY DEF Placed, Answered
  <2> QED BY <2>1, <2>2 DEF Collected, CollectedWith
<1>6. Cardinality(Collected) \in Nat /\ Cardinality(Collected \cap Carried(b)) = 0
  BY <1>3, <1>4, FS_CardinalityType, FS_EmptySet
<1>7. Cardinality(Collected \cup Carried(b))
        = Cardinality(Collected) + Cardinality(Carried(b)) - Cardinality(Collected \cap Carried(b))
  BY <1>2, <1>3, FS_Union
<1> QED BY <1>1, <1>2, <1>5, <1>6, <1>7

(* A submission with a buffer that is not in use, or is just collected,    *)
(* leaves uncollected what the other buffers carry.                        *)
LEMMA SubmitPlaced ==
  ASSUME IInv, Placed, NEW outs, Fits(outs, NextRequest), NEW b \in Buffers,
         state[b] = "idle" \/ ov[b].res # "pending", ChunkLen > 0,
         NEW o \in Submissions(outs), Submit(b, o), UNCHANGED call
  PROVE  Placed' /\ Collected' = CollectedWith(b)
<1> DEFINE new == Bytes(NextRequest, o.n)
<1>1. TypeOK /\ ov[b].res # "pending"
  BY DEF IInv, InFlightIsBusy
<1>2. /\ o \in Outcomes /\ o.n \in Nat /\ o.n <= NextRequest.len
      /\ o.res \in {"pending", "done", "eof", "error"} /\ (o.res # "done" => o.n = 0)
  BY <1>1, SubmissionsFit DEF Outcomes
<1>3. /\ NextRequest \in Requests /\ ChunkLen \in Nat /\ buffer_offset \in Nat
      /\ NextRequest.data = buffer_offset /\ NextRequest.len = ChunkLen
      /\ buffer_offset' = buffer_offset + ChunkLen
  BY <1>1, ChunkBounds DEF Submit, Advance, NextRequest, TypeOK
<1>4. /\ IsFiniteSet(new) /\ (o.res # "done" => new = {})
      /\ \A m \in new : m[1] \in buffer_offset .. buffer_offset + o.n - 1
  <2>1. o.n = 0 => new = {}
    BY <1>2, <1>3 DEF Bytes
  <2> QED BY <1>2, <1>3, <2>1, BytesCount
<1>5. /\ req' = [req EXCEPT ![b] = NextRequest] /\ ov' = [ov EXCEPT ![b] = o]
      /\ moved' = moved \cup new
      /\ state' = [state EXCEPT ![b] =
                     IF o.res \in {"pending", "done"} THEN "busy" ELSE "idle"]
  BY DEF Submit
<1>6. /\ req'[b] = NextRequest /\ ov'[b] = o
      /\ \A c \in Buffers \ {b} : req'[c] = req[c] /\ ov'[c] = ov[c] /\ state'[c] = state[c]
  BY <1>1, <1>5 DEF TypeOK
<1>7. \A m \in moved : m[1] < buffer_offset
  BY DEF Placed, MovedIssued
<1>8. \A c \in Buffers \ {b} : c \in Busy' <=> c \in Busy
  BY <1>6 DEF Busy
<1>9. \A c \in Busy : req[c] \in Requests /\ req[c].len > 0
                      /\ req[c].data + req[c].len <= buffer_offset
  BY <1>1 DEF Placed, Issued, Busy, TypeOK
<1>10. Issued'
  <2> SUFFICES ASSUME NEW c \in Busy'
               PROVE  req'[c].len > 0 /\ req'[c].data + req'[c].len <= buffer_offset'
    BY DEF Issued, Busy
  <2>1. CASE c = b
    BY <1>3, <1>6, <2>1
  <2>2. CASE c # b
    BY <1>3, <1>6, <1>8, <1>9, <2>2 DEF Busy, Requests
  <2> QED BY <2>1, <2>2
<1>11. Disjoint'
  <2> SUFFICES ASSUME NEW c \in Busy', NEW d \in Busy', c # d
               PROVE  \/ req'[c].data + req'[c].len <= req'[d].data
                      \/ req'[d].data + req'[d].len <= req'[c].data
    BY DEF Disjoint, Busy
  <2>1. CASE c = b
    BY <1>3, <1>6, <1>8, <1>9, <2>1 DEF Busy, Requests
  <2>2. CASE d = b
    BY <1>3, <1>6, <1>8, <1>9, <2>2 DEF Busy, Requests
  <2>3. CASE c # b /\ d # b
    BY <1>6, <1>8, <2>3 DEF Placed, Disjoint, Busy
  <2> QED BY <2>1, <2>2, <2>3
<1>12. MovedIssued'
  <2>1. IsFiniteSet(moved')
    BY <1>4, <1>5, FS_Union DEF Placed, MovedIssued
  <2>2. \A m \in moved' : m[1] < buffer_offset'
    BY <1>1, <1>2, <1>3, <1>4, <1>5, <1>7 DEF TypeOK
  <2> QED BY <2>1, <2>2 DEF MovedIssued
<1>13. InFlightFresh'
  <2> SUFFICES ASSUME NEW c \in Buffers, ov'[c].res = "pending", NEW m \in moved'
               PROVE  m[1] \notin req'[c].data .. req'[c].data + req'[c].len - 1
    BY DEF InFlightFresh, Span
  <2>1. CASE c = b
    BY <1>1, <1>3, <1>4, <1>5, <1>6, <1>7, <2>1 DEF TypeOK
  <2>2. CASE c # b
    <3>1. c \in Busy /\ ov[c].res = "pending" /\ req'[c] = req[c]
      BY <1>6, <2>2 DEF IInv, InFlightIsBusy, Busy
    <3>2. CASE m \in moved
      BY <3>1, <3>2 DEF Placed, InFlightFresh, Span
    <3>3. CASE m \in new
      BY <1>2, <1>3, <1>4, <1>9, <3>1, <3>3 DEF Requests
    <3> QED BY <1>5, <3>2, <3>3
  <2> QED BY <2>1, <2>2
<1>14. /\ \A c \in Buffers \ {b} : /\ c \in Uncollected' <=> c \in Uncollected
                                   /\ Carried(c)' = Carried(c)
       /\ b \in Uncollected' <=> o.res = "done"
       /\ Carried(b)' = new
  BY <1>1, <1>5, <1>6 DEF Uncollected, Carried, Bytes, TypeOK
<1>15. Answered'
  <2> SUFFICES ASSUME NEW c \in Uncollected'
               PROVE  /\ ov'[c].n <= req'[c].len /\ Carried(c)' \subseteq moved'
                      /\ ov'[c].res # "done" => ov'[c].n = 0
    BY DEF Answered, Uncollected
  <2>1. CASE c = b
    BY <1>2, <1>5, <1>6, <1>14, <2>1
  <2>2. CASE c # b
    BY <1>5, <1>6, <1>14, <2>2 DEF Placed, Answered, Uncollected
  <2> QED BY <2>1, <2>2
<1>16. Collected' = CollectedWith(b)
  <2>1. moved \cap new = {}
    BY <1>1, <1>2, <1>3, <1>4, <1>7 DEF TypeOK
  <2>2. CASE o.res = "done"
    <3>1. Uncollected' = Uncollected \cup {b}
      BY <1>14, <2>2 DEF Uncollected
    <3>2. Uncollected \ {b} \subseteq Buffers \ {b}
      BY DEF Uncollected
    <3>3. ASSUME NEW m PROVE m \in Collected' <=> m \in CollectedWith(b)
      BY <1>5, <1>14, <2>1, <3>1, <3>2 DEF Collected, CollectedWith
    <3> QED BY <3>3 DEF Collected, CollectedWith
  <2>3. CASE o.res # "done"
    <3>1. Uncollected' = Uncollected \ {b} /\ moved' = moved
      BY <1>4, <1>5, <1>14, <2>3 DEF Uncollected
    <3> QED BY <1>14, <3>1 DEF Collected, CollectedWith, Uncollected
  <2> QED BY <2>2, <2>3
<1> QED BY <1>10, <1>11, <1>12, <1>13, <1>15, <1>16 DEF Placed

(* A retired buffer leaves uncollected what the other buffers carry.       *)
LEMMA RetirePlaced ==
  ASSUME TypeOK, Placed, NEW b \in Uncollected, Retire(b)
  PROVE  Placed' /\ Collected' = CollectedWith(b)
<1>1. /\ b \in Buffers /\ state' = [state EXCEPT ![b] = "idle"]
      /\ UNCHANGED <<req, ov, moved, buffer_offset>>
  BY DEF Uncollected, Retire
<1>2. Busy' = Busy \ {b} /\ Uncollected' = Uncollected \ {b}
  BY <1>1 DEF TypeOK, Busy, Uncollected
<1>3. \A c : Carried(c)' = Carried(c)
  BY <1>1 DEF Carried, Bytes
<1>4. Issued' /\ Disjoint' /\ MovedIssued' /\ InFlightFresh'
  BY <1>1, <1>2 DEF Placed, Issued, Disjoint, MovedIssued, InFlightFresh, Span
<1>5. Answered'
  BY <1>1, <1>2, <1>3 DEF Placed, Answered
<1>6. Collected' = CollectedWith(b)
  BY <1>1, <1>2, <1>3 DEF Collected, CollectedWith
<1> QED BY <1>4, <1>5, <1>6 DEF Placed

(* What moves when a request ends is uncollected, and total still right.   *)
LEMMA CompletePlaced ==
  ASSUME IInv, Placed, NEW b \in Buffers, NEW outs, Fits(outs, req[b]), Complete(b, outs)
  PROVE  Placed' /\ Collected' = Collected
<1>1. PICK o \in outs :
        /\ ov' = [ov EXCEPT ![b] = o]
        /\ moved' = moved \cup Bytes(req[b], o.n)
  BY DEF Complete
<1> DEFINE new == Bytes(req[b], o.n)
<1>2. TypeOK /\ b \in Busy /\ ov[b].res = "pending" /\ req[b] \in Requests
  BY DEF IInv, InFlightIsBusy, Complete, Busy, TypeOK
<1>3. /\ o.n \in Nat /\ o.n <= req[b].len /\ o.res # "pending"
      /\ o.res # "done" => o.n = 0
  BY DEF Fits, Outcomes
<1>4. UNCHANGED <<state, req, buffer_offset, total>>
  BY DEF Complete, locals
<1>5. /\ IsFiniteSet(new)
      /\ \A m \in new : m[1] \in req[b].data .. req[b].data + o.n - 1
  BY <1>2, <1>3, BytesCount
<1>6. /\ req[b].len > 0 /\ req[b].data + req[b].len <= buffer_offset
      /\ buffer_offset \in Nat
  BY <1>2 DEF Placed, Issued, TypeOK
<1>7. moved \cap new = {}
  BY <1>2, <1>3, <1>5 DEF Placed, InFlightFresh, Span, Requests
<1>8. /\ Busy' = Busy /\ Uncollected' = Uncollected \cup {b} /\ b \notin Uncollected
      /\ ov'[b] = o /\ \A c \in Buffers \ {b} : ov'[c] = ov[c]
  BY <1>1, <1>2, <1>3, <1>4 DEF TypeOK, Busy, Uncollected
<1>9. /\ \A c \in Uncollected : Carried(c)' = Carried(c)
      /\ Carried(b)' = new
  BY <1>4, <1>8 DEF Uncollected, Carried, Bytes
<1>10. Issued' /\ Disjoint'
  BY <1>4, <1>8 DEF Placed, Issued, Disjoint
<1>11. MovedIssued'
  <2>1. IsFiniteSet(moved')
    BY <1>1, <1>5, FS_Union DEF Placed, MovedIssued
  <2>2. \A m \in new : m[1] < buffer_offset
    BY <1>2, <1>3, <1>5, <1>6 DEF Requests
  <2> QED BY <1>1, <1>4, <2>1, <2>2 DEF Placed, MovedIssued
<1>12. InFlightFresh'
  <2> SUFFICES ASSUME NEW c \in Buffers, ov'[c].res = "pending", NEW m \in moved'
               PROVE  m[1] \notin Span(req[c])
    BY <1>4 DEF InFlightFresh, Span
  <2>1. c # b /\ c \in Busy /\ ov[c].res = "pending" /\ req[c] \in Requests
    BY <1>2, <1>3, <1>8 DEF IInv, InFlightIsBusy, Busy, TypeOK
  <2>2. CASE m \in moved
    BY <2>1, <2>2 DEF Placed, InFlightFresh
  <2>3. CASE m \in new
    <3>1. \/ req[b].data + req[b].len <= req[c].data
          \/ req[c].data + req[c].len <= req[b].data
      BY <1>2, <2>1 DEF Placed, Disjoint
    <3> QED BY <1>2, <1>3, <1>5, <2>1, <2>3, <3>1 DEF Span, Requests
  <2> QED BY <1>1, <2>2, <2>3
<1>13. Answered'
  <2> SUFFICES ASSUME NEW c \in Uncollected'
               PROVE  /\ ov'[c].n <= req'[c].len /\ Carried(c)' \subseteq moved'
                      /\ ov'[c].res # "done" => ov'[c].n = 0
    BY DEF Answered, Uncollected
  <2>1. CASE c = b
    BY <1>1, <1>3, <1>4, <1>8, <1>9, <2>1
  <2>2. CASE c # b
    BY <1>1, <1>4, <1>8, <1>9, <2>2 DEF Placed, Answered, Uncollected
  <2> QED BY <2>1, <2>2
<1>14. Collected' = Collected
  <2> SUFFICES ASSUME NEW m PROVE m \in Collected' <=> m \in Collected
    BY DEF Collected
  <2>1. m \in Collected' <=>
          m \in moved \cup new /\ m \notin new /\ \A c \in Uncollected : m \notin Carried(c)
    BY <1>1, <1>8, <1>9 DEF Collected
  <2> QED BY <1>7, <2>1 DEF Collected
<1> QED BY <1>10, <1>11, <1>12, <1>13, <1>14 DEF Placed

-----------------------------------------------------------------------------
(* No buffer is in use and nothing has moved.                              *)
LEMMA InitAInv == Init => AInv
<1> SUFFICES ASSUME Init PROVE AInv
  OBVIOUS
<1>1. Busy = {} /\ Uncollected = {} /\ Collected = {}
  BY DEF Init, Busy, Uncollected, Collected
<1>2. total = Cardinality(Collected) /\ IsFiniteSet(moved)
  BY <1>1, FS_EmptySet DEF Init
<1> QED
  BY <1>1, <1>2 DEF AInv, Placed, Issued, Disjoint, MovedIssued, InFlightFresh,
       Answered, Counted, Init

(* A turn of the priming loop: an unused buffer is submitted.              *)
LEMMA PrimeAInv ==
  ASSUME IInv, AInv, NEW outs, Fits(outs, NextRequest), Prime(outs)
  PROVE  AInv'
<1>1. PICK o \in Submissions(outs) : Submit(i, o)
  BY DEF Prime
<1>2. i \in Buffers /\ UNCHANGED <<call, total>> /\ buffer_offset < jiLen /\ TypeOK
  BY BuffersAssumption DEF Prime, Priming, Buffers, IInv, TypeOK
<1>3. state[i] = "idle" /\ ChunkLen > 0
  BY <1>2, ChunkBounds DEF IInv, TypeOK, Untouched, Buffers
<1>4. Placed' /\ Collected' = CollectedWith(i)
  BY <1>1, <1>2, <1>3, SubmitPlaced DEF AInv
<1>5. CollectedWith(i) = Collected
  BY <1>3 DEF Collected, CollectedWith, Uncollected
<1> QED BY <1>2, <1>4, <1>5 DEF AInv, Counted

(* The buffer collected was uncollected until now.                         *)
LEMMA SignalledUncollected ==
  ASSUME TypeOK, AInv, NEW b \in Buffers, Signalled(b)
  PROVE  /\ b \in Uncollected
         /\ Cardinality(CollectedWith(b)) = total + ov[b].n
<1>1. b \in Uncollected
  BY DEF Signalled, Uncollected
<1> QED BY <1>1, CollectBuffer DEF AInv, Counted

(* What the buffer carried is counted before it is submitted again.        *)
LEMMA DrainMoreAInv ==
  ASSUME IInv, AInv, NEW b \in Buffers, NEW outs, Fits(outs, NextRequest),
         DrainMore(b, outs)
  PROVE  AInv'
<1>1. PICK o \in Submissions(outs) : Submit(b, o)
  BY DEF DrainMore
<1>2. /\ ov[b].res # "pending" /\ ChunkLen > 0 /\ UNCHANGED call
      /\ total' = total + ov[b].n
  BY DEF DrainMore, Signalled, More, Gained
<1>3. Placed' /\ Collected' = CollectedWith(b)
  BY <1>1, <1>2, SubmitPlaced DEF AInv
<1>4. Cardinality(CollectedWith(b)) = total + ov[b].n
  BY SignalledUncollected DEF DrainMore, IInv
<1> QED BY <1>2, <1>3, <1>4 DEF AInv, Counted

(* What the buffer carried is counted before it retires.                   *)
LEMMA DrainLastAInv == ASSUME IInv, AInv, NEW b \in Buffers, DrainLast(b) PROVE AInv'
<1>1. Signalled(b) /\ Retire(b) /\ total' = total + ov[b].n /\ TypeOK
  BY DEF DrainLast, Gained, IInv
<1>2. b \in Uncollected /\ Cardinality(CollectedWith(b)) = total + ov[b].n
  BY <1>1, SignalledUncollected
<1> QED BY <1>1, <1>2, RetirePlaced DEF AInv, Counted

(* A buffer that retires uncounted has carried nothing.                    *)
LEMMA DrainFailAInv ==
  ASSUME IInv, AInv, NEW b \in Buffers, DrainFail(b), ov[b].res = "done" => ov[b].n = 0
  PROVE  AInv'
<1>1. Signalled(b) /\ Retire(b) /\ total' = total /\ TypeOK
  BY DEF DrainFail, IInv
<1>2. b \in Uncollected /\ Cardinality(CollectedWith(b)) = total + ov[b].n
  BY <1>1, SignalledUncollected
<1>3. ov[b].n = 0 /\ total \in Nat
  BY <1>1, <1>2 DEF AInv, Placed, Answered, TypeOK
<1> QED BY <1>1, <1>2, <1>3, RetirePlaced DEF AInv, Counted

(* Nothing is counted when a request ends.                                 *)
LEMMA CompleteAInv ==
  ASSUME IInv, AInv, NEW b \in Buffers, NEW outs, Fits(outs, req[b]), Complete(b, outs)
  PROVE  AInv'
<1>1. Placed' /\ Collected' = Collected
  BY CompletePlaced DEF AInv
<1>2. total' = total
  BY DEF Complete, locals
<1> QED BY <1>1, <1>2 DEF AInv, Counted

(* The other steps leave buffers and bytes alone.                          *)
LEMMA QuietAInv ==
  ASSUME AInv, UNCHANGED <<buffer_offset, total, state, req, ov, moved>>
  PROVE  AInv'
BY DEF AInv, Placed, Issued, Disjoint, MovedIssued, InFlightFresh, Answered, Counted,
       Busy, Uncollected, Collected, Carried, Bytes, Span

(* When nothing is pending any more, all that has moved is counted.        *)
LEMMA AllCounted ==
  ASSUME IInv, AInv, Overlapping, pc = "returned"
  PROVE  total = Cardinality(moved)
<1>1. IsFiniteSet(Busy) /\ Cardinality(Busy) = 0
  BY BuffersFinite, FS_Subset DEF Busy, IInv, EndsDrained, PendingIsOutstanding
<1>2. Busy = {}
  BY <1>1, FS_EmptySet
<1>3. Collected = moved
  BY <1>2 DEF Collected, Uncollected, Busy
<1> QED BY <1>3 DEF AInv, Counted

-----------------------------------------------------------------------------
(* A call that nothing disturbs but a lack of memory, when there are w     *)
(* bytes to be had: each request moves what there is of its part, none is  *)
(* forgotten, and the loops go on until all is asked for that there is.    *)
Clean == faults \subseteq {"nomem"}
Part(r, w) == IF w <= r.data THEN 0 ELSE IF w - r.data < r.len THEN w - r.data ELSE r.len

ServedInFull(w) == \A b \in Uncollected : ov[b].n = Part(req[b], w)
NothingForgotten(w) ==
  \A p \in 0 .. buffer_offset - 1 : p < w =>
    \/ <<p, jiOffset + p>> \in moved
    \/ \E b \in Buffers : ov[b].res = "pending" /\ p \in Span(req[b])
StopsAtEnd(w) ==
  pending = 0 /\ (pc # "prime" \/ i > 0) =>
    w <= buffer_offset \/ ("nomem" \in faults /\ buffer_offset = 0)
NoneBeyond(w) == \A m \in moved : m[1] < w
Unstarted == i = 0 => buffer_offset = 0 /\ pending = 0 /\ (pc = "prime" => ~eof)

Full(w) == ServedInFull(w) /\ NothingForgotten(w) /\ StopsAtEnd(w) /\ NoneBeyond(w) /\ Unstarted
FInv(w) == Clean => Full(w)

\* What a system call answers to request r when it serves it in full.
FitsFull(outs, r, w) == Clean => \A o \in outs : o.n = Part(r, w)

(* A request that moves nothing begins beyond what there is.               *)
LEMMA PartBounds ==
  ASSUME NEW r \in Requests, NEW w \in Nat
  PROVE  /\ Part(r, w) \in 0 .. r.len
         /\ r.len > 0 /\ Part(r, w) = 0 => w <= r.data
         /\ \A p \in Nat : r.data <= p /\ p < r.data + r.len /\ p < w => p < r.data + Part(r, w)
         /\ \A p \in Nat : r.data <= p /\ p < r.data + Part(r, w) => p < w
BY DEF Requests, Part

(* A submission, in either loop, with a buffer not in use or collected.    *)
LEMMA SubmitFull ==
  ASSUME IInv, Placed, NEW w \in Nat, Clean, Full(w), NEW outs,
         Fits(outs, NextRequest), FitsFull(outs, NextRequest, w), NEW b \in Buffers,
         state[b] = "idle" \/ ov[b].res # "pending", ChunkLen > 0,
         NEW o \in Submissions(outs), Submit(b, o), UNCHANGED call
  PROVE  /\ ServedInFull(w)' /\ NothingForgotten(w)' /\ NoneBeyond(w)'
         /\ Refused(o) => w <= buffer_offset'
         /\ moved' = moved
<1>1. TypeOK /\ ov[b].res # "pending"
  BY DEF IInv, InFlightIsBusy
<1>2. /\ o.res \in {"pending", "eof", "error"} /\ o.n = 0
      /\ o.res # "pending" => Part(NextRequest, w) = 0
  <2>1. o.res # "done" /\ o.n = 0 /\ o.res \in {"pending", "done", "eof", "error"}
    BY <1>1, SubmissionsFit DEF Clean, Overlapping
  <2>2. o.res # "pending" => o \in outs
    BY DEF Submissions
  <2> QED BY <2>1, <2>2 DEF FitsFull
<1>3. /\ NextRequest \in Requests /\ ChunkLen \in Nat /\ buffer_offset \in Nat
      /\ NextRequest.data = buffer_offset /\ NextRequest.len = ChunkLen
      /\ buffer_offset' = buffer_offset + ChunkLen
  BY <1>1, ChunkBounds DEF Submit, Advance, NextRequest, TypeOK
<1>4. Refused(o) => w <= buffer_offset /\ w <= buffer_offset'
  BY <1>2, <1>3, PartBounds DEF Refused
<1>5. moved' = moved
  BY <1>2, <1>3 DEF Submit, Bytes
<1>6. /\ req'[b] = NextRequest /\ ov'[b] = o
      /\ \A c \in Buffers \ {b} : req'[c] = req[c] /\ ov'[c] = ov[c] /\ state'[c] = state[c]
      /\ o.res # "pending" => state'[b] = "idle"
  BY <1>1, <1>2 DEF TypeOK, Submit
<1>7. ServedInFull(w)'
  <2>1. \A c \in Uncollected' : c \in Uncollected /\ c # b
    BY <1>2, <1>6 DEF Uncollected
  <2> QED BY <1>6, <2>1 DEF Full, ServedInFull, Uncollected, Part
<1>8. NothingForgotten(w)'
  <2> SUFFICES ASSUME NEW p \in 0 .. buffer_offset' - 1, p < w,
                      <<p, jiOffset' + p>> \notin moved'
               PROVE  \E c \in Buffers : ov'[c].res = "pending" /\ p \in Span(req'[c])
    BY DEF NothingForgotten, Span
  <2>1. CASE p < buffer_offset
    <3>1. PICK c \in Buffers : ov[c].res = "pending" /\ p \in Span(req[c])
      BY <1>3, <1>5, <2>1 DEF Full, NothingForgotten, call
    <3> QED BY <1>1, <1>6, <3>1
  <2>2. CASE ~(p < buffer_offset)
    <3>1. ov'[b].res = "pending" /\ p \in Span(req'[b])
      BY <1>2, <1>3, <1>4, <1>6, <2>2 DEF Span, Refused
    <3> QED BY <3>1
  <2> QED BY <2>1, <2>2
<1> QED BY <1>4, <1>5, <1>7, <1>8 DEF Full, NoneBeyond

(* The initial state: nothing has been asked for.                          *)
LEMMA InitFInv == ASSUME NEW w \in Nat, Init PROVE FInv(w)
BY DEF Init, FInv, Full, ServedInFull, NothingForgotten, StopsAtEnd, NoneBeyond,
       Unstarted, Uncollected

(* A turn of the priming loop.                                             *)
LEMMA PrimeFInv ==
  ASSUME IInv, AInv, NEW w \in Nat, FInv(w), NEW outs, Fits(outs, NextRequest),
         FitsFull(outs, NextRequest, w), Prime(outs)
  PROVE  FInv(w)'
<1> SUFFICES ASSUME Clean PROVE Full(w)'
  BY DEF FInv, Clean, Prime, call
<1>1. PICK o \in Submissions(outs) :
        Submit(i, o) /\ pending' = IF Refused(o) THEN pending ELSE pending + 1
  BY DEF Prime
<1>2. /\ i \in Buffers /\ UNCHANGED call /\ buffer_offset < jiLen /\ TypeOK
      /\ i' = i + 1 /\ pending \in Nat /\ i \in Nat
  BY BuffersAssumption DEF Prime, Priming, Buffers, IInv, TypeOK
<1>3. state[i] = "idle" /\ ChunkLen > 0
  BY <1>2, ChunkBounds DEF IInv, TypeOK, Untouched, Buffers
<1>4. /\ ServedInFull(w)' /\ NothingForgotten(w)' /\ NoneBeyond(w)'
      /\ Refused(o) => w <= buffer_offset'
  BY <1>1, <1>2, <1>3, SubmitFull DEF AInv, FInv
<1>5. StopsAtEnd(w)' /\ Unstarted'
  BY <1>1, <1>2, <1>4 DEF StopsAtEnd, Unstarted
<1> QED BY <1>4, <1>5 DEF Full

(* Without memory for its first buffer the call moves nothing at all.      *)
LEMMA PrimeNoMemoryFInv ==
  ASSUME IInv, NEW w \in Nat, FInv(w), PrimeNoMemory PROVE FInv(w)'
<1> SUFFICES ASSUME Clean PROVE Full(w)'
  BY DEF FInv, Clean, PrimeNoMemory, call
<1>1. Full(w) /\ i \in Nat
  BY DEF FInv, IInv, TypeOK
<1>2. StopsAtEnd(w)' /\ Unstarted'
  BY <1>1 DEF Full, StopsAtEnd, Unstarted, PrimeNoMemory, Priming, call
<1>3. ServedInFull(w)' /\ NothingForgotten(w)' /\ NoneBeyond(w)'
  BY <1>1 DEF Full, ServedInFull, NothingForgotten, NoneBeyond, PrimeNoMemory, call,
       Uncollected, Span, Part
<1> QED BY <1>2, <1>3 DEF Full

(* The priming loop is left with requests pending, or for a good reason.   *)
LEMMA PrimeDoneFInv ==
  ASSUME IInv, NEW w \in Nat, w <= jiLen, FInv(w), PrimeDone PROVE FInv(w)'
<1> SUFFICES ASSUME Clean PROVE Full(w)'
  BY DEF FInv, Clean, PrimeDone, call
<1>1. Full(w) /\ i \in Nat /\ jiLen \in Nat /\ buffer_offset \in 0 .. jiLen
  BY CallAssumption DEF FInv, IInv, TypeOK
<1>2. StopsAtEnd(w)' /\ Unstarted'
  BY <1>1, BuffersAssumption
     DEF Full, StopsAtEnd, Unstarted, PrimeDone, Priming, call
<1>3. ServedInFull(w)' /\ NothingForgotten(w)' /\ NoneBeyond(w)'
  BY <1>1 DEF Full, ServedInFull, NothingForgotten, NoneBeyond, PrimeDone, call,
       Uncollected, Span, Part
<1> QED BY <1>2, <1>3 DEF Full

(* The buffer collected is submitted again.                                *)
LEMMA DrainMoreFInv ==
  ASSUME IInv, AInv, NEW w \in Nat, FInv(w), NEW b \in Buffers, NEW outs,
         Fits(outs, NextRequest), FitsFull(outs, NextRequest, w), DrainMore(b, outs)
  PROVE  FInv(w)'
<1> SUFFICES ASSUME Clean PROVE Full(w)'
  BY DEF FInv, Clean, DrainMore, call
<1>1. PICK o \in Submissions(outs) :
        Submit(b, o) /\ pending' = IF Refused(o) THEN pending - 1 ELSE pending
  BY DEF DrainMore
<1>2. /\ ov[b].res # "pending" /\ ChunkLen > 0 /\ UNCHANGED <<call, pc, i>>
      /\ pending > 0 /\ pc = "drain"
  BY DEF DrainMore, Signalled, More
<1>3. /\ ServedInFull(w)' /\ NothingForgotten(w)' /\ NoneBeyond(w)'
      /\ Refused(o) => w <= buffer_offset'
  BY <1>1, <1>2, SubmitFull DEF AInv, FInv
<1>4. i # 0
  BY <1>2 DEF FInv, Full, Unstarted
<1>5. StopsAtEnd(w)' /\ Unstarted'
  BY <1>1, <1>2, <1>3, <1>4 DEF StopsAtEnd, Unstarted
<1> QED BY <1>3, <1>5 DEF Full

(* A buffer retires when all that there is has been asked for.             *)
LEMMA RetireFInv ==
  ASSUME IInv, NEW w \in Nat, FInv(w), NEW b \in Buffers, Signalled(b), Retire(b),
         Clean => w <= buffer_offset, UNCHANGED <<call, pc, i>>
  PROVE  FInv(w)'
<1> SUFFICES ASSUME Clean PROVE Full(w)'
  BY DEF FInv, Clean, call
<1>1. Full(w) /\ TypeOK /\ w <= buffer_offset
  BY DEF FInv, IInv
<1>2. i # 0
  BY <1>1 DEF Full, Unstarted, Signalled
<1>3. /\ UNCHANGED <<req, ov, moved, buffer_offset, jiOffset>>
      /\ Uncollected' \subseteq Uncollected
  BY <1>1 DEF Retire, Uncollected, TypeOK, call
<1>4. ServedInFull(w)' /\ NothingForgotten(w)' /\ NoneBeyond(w)'
  BY <1>1, <1>3 DEF Full, ServedInFull, NothingForgotten, NoneBeyond, Span, Part
<1>5. StopsAtEnd(w)' /\ Unstarted'
  BY <1>1, <1>2, <1>3 DEF StopsAtEnd, Unstarted
<1> QED BY <1>4, <1>5 DEF Full

(* There is no more to ask for.                                            *)
LEMMA DrainLastFInv ==
  ASSUME IInv, NEW w \in Nat, w <= jiLen, FInv(w), NEW b \in Buffers, DrainLast(b)
  PROVE  FInv(w)'
<1>1. w <= buffer_offset
  BY ChunkBounds, CallAssumption DEF DrainLast, More, IInv, TypeOK
<1> QED BY <1>1, RetireFInv DEF DrainLast

(* The request has moved nothing, because there was nothing.               *)
LEMMA DrainFailFInv ==
  ASSUME IInv, AInv, NEW w \in Nat, FInv(w), NEW b \in Buffers, DrainFail(b),
         ov[b].res = "done" => ov[b].n = 0
  PROVE  FInv(w)'
<1>1. Signalled(b) /\ Retire(b) /\ UNCHANGED <<call, pc, i>> /\ TypeOK
  BY DEF DrainFail, IInv
<1>2. b \in Uncollected /\ b \in Busy
  BY <1>1 DEF Signalled, Uncollected, Busy
<1>3. ov[b].n = 0
  BY <1>2 DEF AInv, Placed, Answered
<1>4. /\ req[b] \in Requests /\ req[b].len > 0
      /\ req[b].data + req[b].len <= buffer_offset /\ buffer_offset \in Nat
  BY <1>1, <1>2 DEF AInv, Placed, Issued, TypeOK
<1>5. Clean => w <= req[b].data
  BY <1>2, <1>3, <1>4, PartBounds DEF FInv, Full, ServedInFull
<1>6. Clean => w <= buffer_offset
  BY <1>4, <1>5 DEF Requests
<1> QED BY <1>1, <1>6, RetireFInv

(* A request in flight moves what there is of its part.                    *)
LEMMA CompleteFInv ==
  ASSUME IInv, AInv, NEW w \in Nat, FInv(w), NEW b \in Buffers, NEW outs,
         Fits(outs, req[b]), FitsFull(outs, req[b], w), Complete(b, outs)
  PROVE  FInv(w)'
<1> SUFFICES ASSUME Clean PROVE Full(w)'
  BY DEF FInv, Clean, Complete, call
<1>1. PICK o \in outs :
        /\ ov' = [ov EXCEPT ![b] = o]
        /\ moved' = moved \cup Bytes(req[b], o.n)
  BY DEF Complete
<1>2. Full(w) /\ TypeOK /\ req[b] \in Requests /\ ov[b].res = "pending" /\ state[b] = "busy"
  BY DEF FInv, IInv, TypeOK, InFlightIsBusy, Complete
<1>3. o.n = Part(req[b], w) /\ o.n \in Nat /\ o.res # "pending"
  BY DEF Fits, FitsFull, Outcomes
<1>4. /\ UNCHANGED <<jiOffset, faults, pc, i, eof, pending, buffer_offset, state, req>>
      /\ req[b].offset = jiOffset + req[b].data
  BY <1>2 DEF Complete, locals, call, IInv, RequestsInCall
<1>5. ServedInFull(w)'
  <2> SUFFICES ASSUME NEW c \in Uncollected' PROVE ov'[c].n = Part(req[c], w)
    BY <1>4 DEF ServedInFull, Part
  <2>1. CASE c = b
    BY <1>1, <1>2, <1>3, <2>1 DEF TypeOK
  <2>2. CASE c # b
    BY <1>1, <1>2, <1>4, <2>2 DEF Full, ServedInFull, Uncollected, TypeOK
  <2> QED BY <2>1, <2>2
<1>6. NothingForgotten(w)'
  <2> SUFFICES ASSUME NEW p \in 0 .. buffer_offset - 1, p < w,
                      <<p, jiOffset + p>> \notin moved'
               PROVE  \E c \in Buffers : ov'[c].res = "pending" /\ p \in Span(req[c])
    BY <1>4 DEF NothingForgotten, Span
  <2>1. PICK c \in Buffers : ov[c].res = "pending" /\ p \in Span(req[c])
    BY <1>1, <1>2 DEF Full, NothingForgotten
  <2>2. c # b
    <3> SUFFICES ASSUME p \in Span(req[b]) PROVE <<p, jiOffset + p>> \in Bytes(req[b], o.n)
      BY <1>1, <2>1
    <3>1. p - req[b].data \in 0 .. o.n - 1
      BY <1>2, <1>3, PartBounds DEF Span, Requests
    <3>2. /\ p = req[b].data + (p - req[b].data)
          /\ jiOffset + p = req[b].offset + (p - req[b].data)
      BY <1>2, <1>4, CallAssumption DEF Requests, TypeOK
    <3> QED BY <3>1, <3>2 DEF Bytes
  <2> QED BY <1>1, <1>2, <2>1, <2>2 DEF TypeOK
<1>7. NoneBeyond(w)'
  <2>1. \A m \in Bytes(req[b], o.n) : m[1] < w
    BY <1>2, <1>3, BytesCount, PartBounds DEF Requests
  <2> QED BY <1>1, <1>2, <2>1 DEF Full, NoneBeyond
<1>8. StopsAtEnd(w)' /\ Unstarted'
  BY <1>2, <1>4 DEF Full, StopsAtEnd, Unstarted
<1> QED BY <1>5, <1>6, <1>7, <1>8 DEF Full

(* The method returns, or nothing happens.                                 *)
LEMMA QuietFInv ==
  ASSUME NEW w \in Nat, FInv(w), pc # "prime", pc' # "prime",
         UNCHANGED <<call, i, pending, buffer_offset, state, req, ov, moved>>
  PROVE  FInv(w)'
BY DEF FInv, Clean, Full, ServedInFull, NothingForgotten, StopsAtEnd, NoneBeyond,
       Unstarted, Uncollected, Span, Part, call

(* A call served in full has moved all that there is, and no more, and has *)
(* counted it; or it could not get its first buffer and moved nothing.     *)
LEMMA FullReturn ==
  ASSUME IInv, AInv, NEW w \in Nat, FInv(w), Clean, pc = "returned"
  PROVE  \/ moved = {<<p, jiOffset + p>> : p \in 0 .. w - 1} /\ total = w
         \/ "nomem" \in faults /\ moved = {} /\ total = 0
<1>1. Overlapping /\ pending = 0 /\ Full(w) /\ TypeOK
  BY DEF Clean, Overlapping, IInv, EndsDrained, FInv
<1>2. total = Cardinality(moved)
  BY <1>1, AllCounted
<1>3. \A b \in Buffers : ov[b].res # "pending"
  BY <1>1, IInvNoIO DEF NoIOAfterReturn
<1>4. w <= buffer_offset \/ ("nomem" \in faults /\ buffer_offset = 0)
  BY <1>1 DEF Full, StopsAtEnd
<1>5. \A m \in moved : m \in Nat \X Nat /\ m[1] < buffer_offset /\ m[1] < w /\ m[2] = jiOffset + m[1]
  BY <1>1 DEF AInv, Placed, MovedIssued, IInv, BytesLandInPlace, TypeOK, Full, NoneBeyond
<1>6. CASE w <= buffer_offset
  <2> DEFINE all == [data |-> 0, offset |-> jiOffset, len |-> w]
  <2>1. all \in Requests /\ jiOffset \in Nat
    BY <1>1, CallAssumption DEF Requests, TypeOK
  <2>2. \A p \in 0 .. w - 1 : <<p, jiOffset + p>> \in moved
    BY <1>1, <1>3, <1>6 DEF Full, NothingForgotten, TypeOK
  <2>3. \A m \in moved : m[1] \in 0 .. w - 1 /\ m = <<m[1], jiOffset + m[1]>>
    BY <1>5
  <2>4. moved = {<<p, jiOffset + p>> : p \in 0 .. w - 1}
    BY <2>2, <2>3
  <2>5. moved = Bytes(all, w)
    BY <2>1, <2>4 DEF Bytes
  <2> QED BY <1>2, <2>1, <2>4, <2>5, BytesCount
<1>7. CASE "nomem" \in faults /\ buffer_offset = 0
  <2>1. moved = {}
    BY <1>5, <1>7
  <2> QED BY <1>2, <1>7, <2>1, FS_EmptySet
<1> QED BY <1>4, <1>6, <1>7

-----------------------------------------------------------------------------
(* The engine as a transfer: the requests in flight are the outstanding    *)
(* ones, each known by its array positions.                                *)
InFlight == {c \in Buffers : ov[c].res = "pending"}
Outstanding == {Span(req[b]) : b \in InFlight}

(* A submission asks for the next positions, as an Issue of Transfer does, *)
(* and a free buffer leaves room among the outstanding requests.           *)
LEMMA OutstandingBound ==
  ASSUME TypeOK, NEW b \in Buffers, ov[b].res # "pending"
  PROVE  Cardinality(Outstanding) < NumBuffers
<1> DEFINE f == [c \in InFlight |-> Span(req[c])]
<1>1. f \in Surjection(InFlight, Outstanding)
  BY DEF Surjection, Outstanding
<1>2. InFlight \subseteq Buffers \ {b}
  BY DEF InFlight
<1>3. /\ IsFiniteSet(Buffers \ {b})
      /\ Cardinality(Buffers \ {b}) = NumBuffers - 1
  BY BuffersFinite, FS_RemoveElement
<1>4. IsFiniteSet(InFlight) /\ Cardinality(InFlight) <= NumBuffers - 1
  BY <1>2, <1>3, FS_Subset
<1>5. IsFiniteSet(Outstanding) /\ Cardinality(Outstanding) <= Cardinality(InFlight)
  BY <1>1, <1>4, FS_Surjection
<1>6. Cardinality(InFlight) \in Nat /\ Cardinality(Outstanding) \in Nat
  BY <1>4, <1>5, FS_CardinalityType
<1> QED BY <1>4, <1>5, <1>6, BuffersAssumption

(* Transfer counts as this module does.                                    *)
LEMMA SameCardinality == \A S : Abstract!Cardinality(S) = Cardinality(S)
BY DEF Abstract!Cardinality, Cardinality

(* A submission is an Issue of the abstract transfer.                      *)
LEMMA SubmitIssues ==
  ASSUME IInv, NEW outs, Fits(outs, NextRequest), NEW b \in Buffers,
         state[b] = "idle" \/ ov[b].res # "pending", ChunkLen > 0,
         NEW o \in Submissions(outs), Submit(b, o), UNCHANGED <<call, pc>>,
         pc # "returned"
  PROVE  Abstract!Next
<1>1. TypeOK /\ ov[b].res # "pending"
  BY DEF IInv, InFlightIsBusy
<1>2. /\ o.n \in Nat /\ o.n <= ChunkLen /\ (o.res = "pending" => o.n = 0)
  BY <1>1, SubmissionsFit DEF Outcomes, NextRequest
<1>3. /\ ChunkLen \in Nat /\ ChunkLen <= BufferSize /\ buffer_offset \in Nat /\ buffer_offset + ChunkLen <= jiLen
      /\ NextRequest = [data |-> buffer_offset, offset |-> jiOffset + buffer_offset,
                        len |-> ChunkLen]
      /\ jiOffset \in Nat
  BY <1>1, ChunkBounds, BuffersAssumption, CallAssumption
     DEF ChunkLen, NextRequest, IInv, Aligned, TypeOK
<1>0. PICK m \in Nat : m = buffer_offset + ChunkLen
  BY <1>3
<1>4. /\ req' = [req EXCEPT ![b] = NextRequest] /\ ov' = [ov EXCEPT ![b] = o]
      /\ moved' = moved \cup Bytes(NextRequest, o.n) /\ buffer_offset' = m
  BY <1>0 DEF Submit, Advance
<1>5. /\ req'[b] = NextRequest /\ ov'[b] = o
      /\ \A c \in Buffers \ {b} : req'[c] = req[c] /\ ov'[c] = ov[c]
  BY <1>1, <1>4 DEF TypeOK
<1>6. /\ o.res = "pending" => Outstanding' = Outstanding \cup {Span(NextRequest)}
      /\ o.res # "pending" => Outstanding' = Outstanding
  <2>1. CASE o.res = "pending"
    <3>1. InFlight' = InFlight \cup {b}
      BY <1>5, <2>1 DEF InFlight
    <3> QED BY <1>1, <1>5, <2>1, <3>1 DEF Outstanding, InFlight, Span
  <2>2. CASE o.res # "pending"
    <3>1. InFlight' = InFlight
      BY <1>1, <1>5, <2>2 DEF InFlight
    <3> QED BY <1>1, <1>5, <2>2, <3>1 DEF Outstanding, InFlight, Span
  <2> QED BY <2>1, <2>2
<1>7. Span(NextRequest) = Abstract!Span(buffer_offset, m)
  BY <1>0, <1>3 DEF Span, Abstract!Span
<1>8. PICK k \in buffer_offset .. m : k = buffer_offset + o.n
  BY <1>0, <1>2, <1>3
<1>9. Bytes(NextRequest, o.n) = Abstract!Pairs(Abstract!Span(buffer_offset, k))
  <2>1. \A j \in 0 .. o.n - 1 :
          /\ buffer_offset + j \in buffer_offset .. k - 1
          /\ jiOffset + buffer_offset + j = jiOffset + (buffer_offset + j)
    BY <1>2, <1>3, <1>8
  <2>2. \A p \in buffer_offset .. k - 1 :
          /\ p - buffer_offset \in 0 .. o.n - 1
          /\ p = buffer_offset + (p - buffer_offset)
          /\ jiOffset + p = jiOffset + buffer_offset + (p - buffer_offset)
    BY <1>2, <1>3, <1>8
  <2>3. Bytes(NextRequest, o.n) = {<<p, jiOffset + p>> : p \in buffer_offset .. k - 1}
    BY <1>3, <2>1, <2>2 DEF Bytes
  <2> QED BY <2>3 DEF Abstract!Pairs, Abstract!Span
<1>10. Abstract!Issue(m)
  <2>1. /\ ~(pc = "returned" /\ Overlapping) /\ buffer_offset < m /\ m <= jiLen
        /\ m - buffer_offset <= BufferSize /\ buffer_offset' = m
        /\ UNCHANGED <<jiOffset, jiLen>>
        /\ (pc = "returned" /\ Overlapping)' = (pc = "returned" /\ Overlapping)
    BY <1>0, <1>3, <1>4 DEF call, Overlapping
  <2>2. CASE o.res = "pending"
    <3>1. moved' = moved
      BY <1>2, <1>3, <1>4, <2>2 DEF Bytes
    <3>2. Cardinality(Outstanding) < NumBuffers
      BY <1>1, OutstandingBound
    <3>3. Outstanding' = Outstanding \cup {Abstract!Span(buffer_offset, m)}
      BY <1>6, <1>7, <2>2
    <3> QED BY <2>1, <3>1, <3>2, <3>3, SameCardinality DEF Abstract!Issue, Outstanding, InFlight
  <2>3. CASE o.res # "pending"
    BY <1>4, <1>6, <1>8, <1>9, <2>1, <2>3
       DEF Abstract!Issue, Abstract!Pairs, Abstract!Span, Outstanding, InFlight
  <2> QED BY <2>2, <2>3
<1>11. m \in buffer_offset + 1 .. buffer_offset + BufferSize
  BY <1>0, <1>3, BuffersAssumption
<1> QED BY <1>10, <1>11 DEF Abstract!Next

(* The end of a request in flight is a Finish of the abstract transfer.    *)
LEMMA CompleteFinishes ==
  ASSUME IInv, AInv, NEW b \in Buffers, NEW outs, Fits(outs, req[b]), Complete(b, outs)
  PROVE  Abstract!Next
<1> DEFINE r == Span(req[b])
<1>1. PICK o \in outs :
        /\ ov' = [ov EXCEPT ![b] = o]
        /\ moved' = moved \cup Bytes(req[b], o.n)
  BY DEF Complete
<1>2. /\ TypeOK /\ b \in Busy /\ b \in InFlight /\ req[b] \in Requests
      /\ req[b].offset = jiOffset + req[b].data /\ jiOffset \in Nat
      /\ UNCHANGED <<call, pc, buffer_offset, req>>
  BY CallAssumption
     DEF IInv, InFlightIsBusy, RequestsInCall, Complete, Busy, InFlight, TypeOK, locals
<1>3. o.n \in Nat /\ o.n <= req[b].len /\ o.res # "pending"
  BY DEF Fits, Outcomes
<1>4. ~(pc = "returned" /\ Overlapping)
  BY <1>2, IInvNoIO DEF NoIOAfterReturn, InFlight
<1>5. InFlight' = InFlight \ {b}
  BY <1>1, <1>2, <1>3 DEF InFlight, TypeOK
<1>6. \A c \in InFlight \ {b} : Span(req[c]) # r
  <2> SUFFICES ASSUME NEW c \in InFlight \ {b} PROVE Span(req[c]) # r
    OBVIOUS
  <2>1. c \in Busy /\ req[c] \in Requests
    BY <1>2 DEF IInv, InFlightIsBusy, InFlight, Busy, TypeOK
  <2>2. req[b].len > 0 /\ req[c].len > 0
    BY <1>2, <2>1 DEF AInv, Placed, Issued
  <2>3. \/ req[b].data + req[b].len <= req[c].data
        \/ req[c].data + req[c].len <= req[b].data
    BY <1>2, <2>1 DEF AInv, Placed, Disjoint
  <2>4. req[b].data \in r /\ req[b].data \notin Span(req[c])
    BY <1>2, <2>1, <2>2, <2>3 DEF Span, Requests
  <2> QED BY <2>4
<1>7. Outstanding' = Outstanding \ {r} /\ r \in Outstanding
  <2>1. Outstanding' = {Span(req[c]) : c \in InFlight \ {b}}
    BY <1>2, <1>5 DEF Outstanding, Span
  <2> QED BY <1>2, <1>6, <2>1 DEF Outstanding
<1>8. \E S \in SUBSET r : Bytes(req[b], o.n) = Abstract!Pairs(S)
  <2> DEFINE S == req[b].data .. req[b].data + o.n - 1
  <2>1. S \in SUBSET r
    BY <1>2, <1>3 DEF Span, Requests
  <2>2. Bytes(req[b], o.n) = {<<p, jiOffset + p>> : p \in S}
    <3>1. \A k \in 0 .. o.n - 1 :
            /\ req[b].data + k \in S
            /\ req[b].offset + k = jiOffset + (req[b].data + k)
      BY <1>2, <1>3 DEF Requests
    <3>2. \A p \in S :
            /\ p - req[b].data \in 0 .. o.n - 1
            /\ p = req[b].data + (p - req[b].data)
            /\ jiOffset + p = req[b].offset + (p - req[b].data)
      BY <1>2, <1>3 DEF Requests
    <3> QED BY <3>1, <3>2 DEF Bytes
  <2> QED BY <2>1, <2>2 DEF Abstract!Pairs
<1>9. Abstract!Finish(r)
  BY <1>1, <1>2, <1>4, <1>7, <1>8
     DEF Abstract!Finish, Outstanding, InFlight, call, Overlapping
<1> QED BY <1>7, <1>9 DEF Abstract!Next, Abstract!Finish, Outstanding, InFlight

(* What the loops do besides is not seen by the abstract transfer.         *)
LEMMA LoopStutters ==
  ASSUME pc = "returned" <=> pc' = "returned",
         UNCHANGED <<call, buffer_offset, req, ov, moved>>
  PROVE  UNCHANGED Abstract!vars
BY DEF Abstract!vars, call, Overlapping, Span

(* A turn of the priming loop is an Issue.                                 *)
LEMMA PrimeTransfers ==
  ASSUME IInv, NEW outs, Fits(outs, NextRequest), Prime(outs)
  PROVE  Abstract!Next
<1>1. PICK o \in Submissions(outs) : Submit(i, o)
  BY DEF Prime
<1>2. i \in Buffers /\ UNCHANGED <<call, pc>> /\ pc = "prime" /\ buffer_offset < jiLen /\ TypeOK
  BY BuffersAssumption DEF Prime, Priming, Buffers, IInv, TypeOK
<1>3. state[i] = "idle" /\ ChunkLen > 0
  BY <1>2, ChunkBounds DEF IInv, TypeOK, Untouched, Buffers
<1> QED BY <1>1, <1>2, <1>3, SubmitIssues

(* A buffer submitted again is an Issue.                                   *)
LEMMA DrainMoreTransfers ==
  ASSUME IInv, NEW b \in Buffers, NEW outs, Fits(outs, NextRequest), DrainMore(b, outs)
  PROVE  Abstract!Next
<1>1. PICK o \in Submissions(outs) : Submit(b, o)
  BY DEF DrainMore
<1>2. /\ ov[b].res # "pending" /\ ChunkLen > 0 /\ UNCHANGED <<call, pc>>
      /\ pc = "drain"
  BY DEF DrainMore, Signalled, More
<1> QED BY <1>1, <1>2, SubmitIssues

(* The method returns with nothing outstanding. A call whose requests may  *)
(* complete at once is not seen to return.                                 *)
LEMMA CleanupReturns == ASSUME IInv, Cleanup PROVE [Abstract!Next]_Abstract!vars
<1>1. CASE Overlapping
  <2>1. IInv' /\ Overlapping' /\ pc' = "returned" /\ pc = "drain"
        /\ UNCHANGED <<call, buffer_offset, req, ov, moved>>
    BY <1>1, CleanupIInv DEF Cleanup, Overlapping, call
  <2>2. \A b \in Buffers : ov[b].res # "pending"
    <3>1. NoIOAfterReturn'
      BY <2>1, IInvNoIO, PTL
    <3> QED BY <2>1, <3>1 DEF NoIOAfterReturn
  <2>3. Abstract!Return
    BY <1>1, <2>1, <2>2 DEF Abstract!Return, call, Span
  <2> QED BY <2>3 DEF Abstract!Next
<1>2. CASE ~Overlapping
  BY <1>2 DEF Cleanup, Abstract!vars, call, Overlapping, Span
<1> QED BY <1>1, <1>2

(* A call begins as a transfer does.                                       *)
LEMMA InitTransfers == Init => Abstract!Init
BY CallAssumption DEF Init, Abstract!Init

-----------------------------------------------------------------------------
(* The read.                                                               *)

(* What the I/O subsystem answers to a read fits the request.              *)
LEMMA ReadOutcomesFit ==
  ASSUME TypeOK, NEW r \in Requests PROVE Fits(ReadOutcomes(r), r)
<1>1. Available(r) \in 0 .. r.len
  BY CallAssumption DEF TypeOK, Available, Requests
<1> QED
  BY <1>1 DEF Fits, ReadOutcomes, Outcomes, Results, Requests

(* The inductive invariant holds before the first turn of the read loop.   *)
THEOREM InitRead == Init => IInv
BY InitIInv

(* Every step of the read, of its caller or of the I/O subsystem, preserves*)
(* the inductive invariant.                                                *)
THEOREM StepRead == IInv /\ [ReadNext]_vars => IInv'
<1> SUFFICES ASSUME IInv, [ReadNext]_vars PROVE IInv'
  OBVIOUS
<1>1. TypeOK /\ NextRequest \in Requests
  BY ChunkBounds DEF IInv
<1>2. CASE ReadPrime
  BY <1>1, <1>2, ReadOutcomesFit, PrimeIInv DEF ReadPrime
<1>3. CASE PrimeNoMemory
  BY <1>3, PrimeNoMemoryIInv
<1>4. CASE PrimeDone
  BY <1>4, PrimeDoneIInv
<1>5. ASSUME NEW b \in Buffers, ReadMore(b) PROVE IInv'
  BY <1>1, <1>5, ReadOutcomesFit, DrainMoreIInv DEF ReadMore
<1>6. ASSUME NEW b \in Buffers, ReadLast(b) PROVE IInv'
  BY <1>6, DrainLastIInv DEF ReadLast
<1>7. ASSUME NEW b \in Buffers, ReadFail(b) PROVE IInv'
  BY <1>7, DrainFailIInv DEF ReadFail
<1>8. CASE Cleanup
  BY <1>8, CleanupIInv
<1>9. ASSUME NEW b \in Buffers, ReadComplete(b) PROVE IInv'
  <2>1. req[b] \in Requests
    BY <1>1 DEF TypeOK
  <2> QED BY <1>1, <1>9, <2>1, ReadOutcomesFit, CompleteIInv DEF ReadComplete
<1>10. CASE UNCHANGED vars
  BY <1>10, StutterIInv
<1>11. CASE Returned
  BY <1>11, StutterIInv DEF Returned
<1> QED
  BY <1>2, <1>3, <1>4, <1>5, <1>6, <1>7, <1>8, <1>9, <1>10, <1>11
     DEF ReadNext, ReadCaller, ReadDrain

(* The inductive invariant holds throughout a read.                        *)
LEMMA ReadInvariant == ReadSpec => []IInv
BY InitRead, StepRead, PTL DEF ReadSpec

(* Every state of a read call is well typed: no request reaches beyond the *)
(* call and no counter leaves its range, for any number and size of        *)
(* buffers.                                                                *)
THEOREM ReadTypeOK == ReadSpec => []TypeOK
<1>1. IInv => TypeOK
  BY DEF IInv
<1> QED BY <1>1, ReadInvariant, PTL

(* While a read runs, pending counts the requests not yet collected.       *)
THEOREM ReadPendingIsOutstanding == ReadSpec => []PendingIsOutstanding
<1>1. IInv => PendingIsOutstanding
  BY DEF IInv
<1> QED BY <1>1, ReadInvariant, PTL

(* The byte array is not written after it was released to the Java VM.     *)
THEOREM ReadNoIOAfterReturn == ReadSpec => []NoIOAfterReturn
BY IInvNoIO, ReadInvariant, PTL

(* What is read lands at the place that belongs to its offset in the file. *)
THEOREM ReadBytesLandInPlace == ReadSpec => []BytesLandInPlace
<1>1. IInv => BytesLandInPlace
  BY DEF IInv
<1> QED BY <1>1, ReadInvariant, PTL

-----------------------------------------------------------------------------
\* The bytes the call can get: what the file has of the part asked for.
Want == Available([data |-> 0, offset |-> jiOffset, len |-> jiLen])

(* There are no more bytes to get than asked for.                          *)
LEMMA WantBounds == ASSUME TypeOK PROVE Want \in Nat /\ Want <= jiLen
BY CallAssumption DEF TypeOK, Want, Available

(* A read served in full moves what the file has of each request.          *)
LEMMA ReadOutcomesFull ==
  ASSUME TypeOK, NEW r \in Requests, r.offset = jiOffset + r.data,
         r.data + r.len <= jiLen, NEW w, w = Want
  PROVE  FitsFull(ReadOutcomes(r), r, w)
<1>1. Available(r) = Part(r, w)
  BY CallAssumption DEF TypeOK, Want, Available, Part, Requests
<1> QED BY <1>1 DEF FitsFull, Clean, ReadOutcomes

(* Every step of the read keeps total equal to the bytes collected, and a  *)
(* read that nothing disturbs on the way to all the bytes there are.       *)
LEMMA StepReadCounts ==
  ASSUME IInv, AInv, FInv(Want), [ReadNext]_vars
  PROVE  AInv' /\ FInv(Want)'
<1>1. /\ TypeOK /\ NextRequest \in Requests
      /\ NextRequest.offset = jiOffset + NextRequest.data
      /\ NextRequest.data + NextRequest.len <= jiLen
  BY ChunkBounds, CallAssumption DEF TypeOK, NextRequest, IInv, Aligned
<1>2. PICK w \in Nat : w = Want /\ w <= jiLen
  BY <1>1, WantBounds
<1>3. /\ Fits(ReadOutcomes(NextRequest), NextRequest)
      /\ FitsFull(ReadOutcomes(NextRequest), NextRequest, w)
  BY <1>1, <1>2, ReadOutcomesFit, ReadOutcomesFull
<1>4. FInv(w)
  BY <1>2
<1>5. UNCHANGED call
  BY DEF ReadNext, ReadCaller, ReadDrain, ReadPrime, Prime, PrimeNoMemory, PrimeDone, ReadMore,
       DrainMore, ReadLast, DrainLast, ReadFail, DrainFail, Cleanup, ReadComplete,
       Complete, Returned, vars
<1>6. Want' = w
  BY <1>2, <1>5 DEF Want, Available, call
<1>7. AInv' /\ FInv(w)'
  <2>1. CASE ReadPrime
    BY <1>3, <1>4, <2>1, PrimeAInv, PrimeFInv DEF ReadPrime
  <2>2. CASE PrimeNoMemory
    BY <1>4, <2>2, PrimeNoMemoryFInv, QuietAInv DEF PrimeNoMemory
  <2>3. CASE PrimeDone
    BY <1>2, <1>4, <2>3, PrimeDoneFInv, QuietAInv DEF PrimeDone
  <2>4. ASSUME NEW b \in Buffers, ReadMore(b) PROVE AInv' /\ FInv(w)'
    BY <1>3, <1>4, <2>4, DrainMoreAInv, DrainMoreFInv DEF ReadMore
  <2>5. ASSUME NEW b \in Buffers, ReadLast(b) PROVE AInv' /\ FInv(w)'
    BY <1>2, <1>4, <2>5, DrainLastAInv, DrainLastFInv DEF ReadLast
  <2>6. ASSUME NEW b \in Buffers, ReadFail(b) PROVE AInv' /\ FInv(w)'
    <3>1. ov[b].res = "done" => ov[b].n = 0
      BY <1>1, <2>6 DEF ReadFail, AsyncReadResult, TypeOK, Outcomes
    <3> QED BY <1>4, <2>6, <3>1, DrainFailAInv, DrainFailFInv DEF ReadFail
  <2>7. CASE Cleanup
    BY <1>4, <2>7, QuietAInv, QuietFInv DEF Cleanup
  <2>8. ASSUME NEW b \in Buffers, ReadComplete(b) PROVE AInv' /\ FInv(w)'
    <3>1. /\ req[b] \in Requests /\ req[b].data + req[b].len <= jiLen
          /\ req[b].offset = jiOffset + req[b].data
      BY <1>1, <2>8 DEF TypeOK, IInv, RequestsInCall, ReadComplete, Complete
    <3>2. Fits(ReadOutcomes(req[b]), req[b]) /\ FitsFull(ReadOutcomes(req[b]), req[b], w)
      BY <1>1, <1>2, <3>1, ReadOutcomesFit, ReadOutcomesFull
    <3> QED BY <1>4, <2>8, <3>2, CompleteAInv, CompleteFInv DEF ReadComplete
  <2>9. CASE UNCHANGED vars
    <3>1. AInv'
      BY <2>9, QuietAInv DEF vars, locals
    <3>2. FInv(w)'
      BY <1>4, <2>9 DEF vars, locals, call, FInv, Clean, Full, ServedInFull,
           NothingForgotten, StopsAtEnd, NoneBeyond, Unstarted, Uncollected, Span, Part
    <3> QED BY <3>1, <3>2
  <2>10. CASE Returned
    BY <2>9, <2>10 DEF Returned
  <2> QED
    BY <2>1, <2>2, <2>3, <2>4, <2>5, <2>6, <2>7, <2>8, <2>9, <2>10
       DEF ReadNext, ReadCaller, ReadDrain
<1> QED BY <1>6, <1>7

(* Both hold throughout a read.                                            *)
LEMMA ReadCounts == ReadSpec => [](IInv /\ AInv /\ FInv(Want))
<1>1. Init => AInv /\ FInv(Want)
  <2> SUFFICES ASSUME Init PROVE AInv /\ FInv(Want)
    OBVIOUS
  <2>1. Want \in Nat
    BY WantBounds, InitIInv DEF IInv
  <2> QED BY <2>1, InitAInv, InitFInv
<1>2. IInv /\ AInv /\ FInv(Want) /\ [ReadNext]_vars => AInv' /\ FInv(Want)'
  BY StepReadCounts
<1> QED BY <1>1, <1>2, ReadInvariant, PTL DEF ReadSpec

(* The count a read reports is the number of bytes that reached the array, *)
(* whichever requests fail, are cut short or end at the end of the file,   *)
(* for any number and size of buffers.                                     *)
THEOREM ReadBytesCounted == ReadSpec => []BytesCounted
<1>1. IInv /\ AInv => BytesCounted
  BY AllCounted DEF BytesCounted
<1> QED BY <1>1, ReadCounts, PTL

(* A read that nothing disturbs gets exactly the bytes there are, from the *)
(* first on, or, without memory for its first buffer, none of them.        *)
THEOREM ReadReadsAll == ReadSpec => []ReadsAllThereIs
<1>1. IInv /\ AInv /\ FInv(Want) => ReadsAllThereIs
  <2> SUFFICES ASSUME IInv, AInv, FInv(Want), pc = "returned", Clean
               PROVE  \/ /\ moved = {<<p, jiOffset + p>> : p \in 0 .. Want - 1}
                         /\ Result = IF Want = 0 THEN -1 ELSE Want
                      \/ "nomem" \in faults /\ moved = {} /\ Result = -1
    BY DEF ReadsAllThereIs, Clean, Want
  <2>1. Want \in Nat
    BY WantBounds DEF IInv
  <2> QED BY <2>1, FullReturn DEF Result
<1> QED BY <1>1, ReadCounts, PTL

-----------------------------------------------------------------------------
(* Every step of the read is a step of the abstract transfer, or none.       *)
LEMMA StepReadTransfers ==
  ASSUME IInv, AInv, [ReadNext]_vars PROVE [Abstract!Next]_Abstract!vars
<1>1. TypeOK /\ NextRequest \in Requests
  BY ChunkBounds DEF IInv
<1>2. Fits(ReadOutcomes(NextRequest), NextRequest)
  BY <1>1, ReadOutcomesFit
<1>3. CASE ReadPrime
  BY <1>2, <1>3, PrimeTransfers DEF ReadPrime
<1>4. CASE PrimeNoMemory
  BY <1>4, LoopStutters DEF PrimeNoMemory
<1>5. CASE PrimeDone
  BY <1>5, LoopStutters DEF PrimeDone
<1>6. ASSUME NEW b \in Buffers, ReadMore(b) PROVE [Abstract!Next]_Abstract!vars
  BY <1>2, <1>6, DrainMoreTransfers DEF ReadMore
<1>7. ASSUME NEW b \in Buffers, ReadLast(b) \/ ReadFail(b) PROVE [Abstract!Next]_Abstract!vars
  BY <1>7, LoopStutters DEF ReadLast, DrainLast, ReadFail, DrainFail, Retire
<1>8. CASE Cleanup
  BY <1>8, CleanupReturns
<1>9. ASSUME NEW b \in Buffers, ReadComplete(b) PROVE [Abstract!Next]_Abstract!vars
  <2>1. req[b] \in Requests
    BY <1>1 DEF TypeOK
  <2> QED BY <1>1, <1>9, <2>1, ReadOutcomesFit, CompleteFinishes DEF ReadComplete
<1>10. CASE UNCHANGED vars
  BY <1>10, LoopStutters DEF vars, locals
<1>11. CASE Returned
  BY <1>10, <1>11 DEF Returned
<1> QED
  BY <1>3, <1>4, <1>5, <1>6, <1>7, <1>8, <1>9, <1>10, <1>11 DEF ReadNext, ReadCaller, ReadDrain

(* A read is a transfer as its caller may think of it, for any number and    *)
(* size of buffers: each byte is asked for once, in order, at most         *)
(* NumBuffers requests are in flight, and nothing moves after the return.  *)
THEOREM ReadIsATransfer == ReadSpec => ImplementsTransfer
<1>1. Init => Abstract!Init
  BY InitTransfers
<1>2. IInv /\ AInv /\ [ReadNext]_vars => [Abstract!Next]_Abstract!vars
  BY StepReadTransfers
<1> QED
  BY <1>1, <1>2, ReadCounts, PTL DEF ReadSpec, ImplementsTransfer, Abstract!Spec

-----------------------------------------------------------------------------
(* The write.                                                              *)

(* What the I/O subsystem answers to a write fits the request.             *)
LEMMA WriteOutcomesFit ==
  ASSUME TypeOK, NEW r \in Requests PROVE Fits(WriteOutcomes(r), r)
BY DEF Fits, WriteOutcomes, Outcomes, Results, Requests

(* The inductive invariant holds before the first turn of the write loop.  *)
THEOREM InitWrite == Init => IInv
BY InitIInv

(* Every step of the write, of its caller or of the I/O subsystem, preserves*)
(* the inductive invariant.                                                *)
THEOREM StepWrite == IInv /\ [WriteNext]_vars => IInv'
<1> SUFFICES ASSUME IInv, [WriteNext]_vars PROVE IInv'
  OBVIOUS
<1>1. TypeOK /\ NextRequest \in Requests
  BY ChunkBounds DEF IInv
<1>2. CASE WritePrime
  BY <1>1, <1>2, WriteOutcomesFit, PrimeIInv DEF WritePrime
<1>3. CASE PrimeNoMemory
  BY <1>3, PrimeNoMemoryIInv
<1>4. CASE PrimeDone
  BY <1>4, PrimeDoneIInv
<1>5. ASSUME NEW b \in Buffers, WriteMore(b) PROVE IInv'
  BY <1>1, <1>5, WriteOutcomesFit, DrainMoreIInv DEF WriteMore
<1>6. ASSUME NEW b \in Buffers, WriteLast(b) PROVE IInv'
  BY <1>6, DrainLastIInv DEF WriteLast
<1>7. ASSUME NEW b \in Buffers, WriteFail(b) PROVE IInv'
  BY <1>7, DrainFailIInv DEF WriteFail
<1>8. CASE Cleanup
  BY <1>8, CleanupIInv
<1>9. ASSUME NEW b \in Buffers, WriteComplete(b) PROVE IInv'
  <2>1. req[b] \in Requests
    BY <1>1 DEF TypeOK
  <2> QED BY <1>1, <1>9, <2>1, WriteOutcomesFit, CompleteIInv DEF WriteComplete
<1>10. CASE UNCHANGED vars
  BY <1>10, StutterIInv
<1>11. CASE Returned
  BY <1>11, StutterIInv DEF Returned
<1> QED
  BY <1>2, <1>3, <1>4, <1>5, <1>6, <1>7, <1>8, <1>9, <1>10, <1>11
     DEF WriteNext, WriteCaller, WriteDrain

(* The inductive invariant holds throughout a write.                       *)
LEMMA WriteInvariant == WriteSpec => []IInv
BY InitWrite, StepWrite, PTL DEF WriteSpec

(* Every state of a write call is well typed: no request reaches beyond the*)
(* call and no counter leaves its range, for any number and size of        *)
(* buffers.                                                                *)
THEOREM WriteTypeOK == WriteSpec => []TypeOK
<1>1. IInv => TypeOK
  BY DEF IInv
<1> QED BY <1>1, WriteInvariant, PTL

(* While a write runs, pending counts the requests not yet collected.      *)
THEOREM WritePendingIsOutstanding == WriteSpec => []PendingIsOutstanding
<1>1. IInv => PendingIsOutstanding
  BY DEF IInv
<1> QED BY <1>1, WriteInvariant, PTL

(* The byte array is not read after it was released to the Java VM.        *)
THEOREM WriteNoIOAfterReturn == WriteSpec => []NoIOAfterReturn
BY IInvNoIO, WriteInvariant, PTL

(* What is written lands at the offset that belongs to its index.          *)
THEOREM WriteBytesLandInPlace == WriteSpec => []BytesLandInPlace
<1>1. IInv => BytesLandInPlace
  BY DEF IInv
<1> QED BY <1>1, WriteInvariant, PTL

-----------------------------------------------------------------------------
(* A write served in full moves all of each request.                       *)
LEMMA WriteOutcomesFull ==
  ASSUME TypeOK, NEW r \in Requests, r.data + r.len <= jiLen
  PROVE  FitsFull(WriteOutcomes(r), r, jiLen)
<1>1. r.data \in Nat /\ r.len \in Nat /\ jiLen \in Nat
  BY CallAssumption DEF Requests, TypeOK
<1>2. Part(r, jiLen) = r.len
  BY <1>1 DEF Part
<1> QED BY <1>2 DEF FitsFull, Clean, WriteOutcomes

(* Every step of the write keeps total equal to the bytes collected, and a *)
(* write that nothing disturbs on the way to all of its bytes.             *)
LEMMA StepWriteCounts ==
  ASSUME IInv, AInv, FInv(jiLen), [WriteNext]_vars
  PROVE  AInv' /\ FInv(jiLen)'
<1> USE DEF IInv
<1>1. /\ TypeOK /\ NextRequest \in Requests /\ jiLen \in Nat
      /\ NextRequest.data + NextRequest.len <= jiLen
  BY ChunkBounds, CallAssumption DEF TypeOK, NextRequest
<1>2. PICK w \in Nat : w = jiLen
  BY <1>1
<1>3. /\ Fits(WriteOutcomes(NextRequest), NextRequest)
      /\ FitsFull(WriteOutcomes(NextRequest), NextRequest, w)
  BY <1>1, <1>2, WriteOutcomesFit, WriteOutcomesFull
<1>4. FInv(w)
  BY <1>2
<1>5. jiLen' = w
  BY <1>2 DEF WriteNext, WriteCaller, WriteDrain, WritePrime, Prime, PrimeNoMemory, PrimeDone,
       WriteMore, DrainMore, WriteLast, DrainLast, WriteFail, DrainFail, Cleanup, WriteComplete,
       Complete, Returned, vars, call
<1>6. AInv' /\ FInv(w)'
  <2>1. CASE WritePrime
    BY <1>3, <1>4, <2>1, PrimeAInv, PrimeFInv DEF WritePrime
  <2>2. CASE PrimeNoMemory
    BY <1>4, <2>2, PrimeNoMemoryFInv, QuietAInv DEF PrimeNoMemory
  <2>3. CASE PrimeDone
    BY <1>2, <1>4, <2>3, PrimeDoneFInv, QuietAInv DEF PrimeDone
  <2>4. ASSUME NEW b \in Buffers, WriteMore(b) PROVE AInv' /\ FInv(w)'
    BY <1>3, <1>4, <2>4, DrainMoreAInv, DrainMoreFInv DEF WriteMore
  <2>5. ASSUME NEW b \in Buffers, WriteLast(b) PROVE AInv' /\ FInv(w)'
    BY <1>2, <1>4, <2>5, DrainLastAInv, DrainLastFInv DEF WriteLast
  <2>6. ASSUME NEW b \in Buffers, WriteFail(b) PROVE AInv' /\ FInv(w)'
    BY <1>4, <2>6, DrainFailAInv, DrainFailFInv DEF WriteFail, AsyncWriteResult
  <2>7. CASE Cleanup
    BY <1>4, <2>7, QuietAInv, QuietFInv DEF Cleanup
  <2>8. ASSUME NEW b \in Buffers, WriteComplete(b) PROVE AInv' /\ FInv(w)'
    <3>1. req[b] \in Requests /\ req[b].data + req[b].len <= jiLen
      BY <2>8 DEF TypeOK, RequestsInCall, WriteComplete, Complete
    <3>2. Fits(WriteOutcomes(req[b]), req[b]) /\ FitsFull(WriteOutcomes(req[b]), req[b], w)
      BY <1>1, <1>2, <3>1, WriteOutcomesFit, WriteOutcomesFull
    <3> QED BY <1>4, <2>8, <3>2, CompleteAInv, CompleteFInv DEF WriteComplete
  <2>9. CASE UNCHANGED vars
    <3>1. AInv'
      BY <2>9, QuietAInv DEF vars, locals
    <3>2. FInv(w)'
      BY <1>4, <2>9 DEF vars, locals, call, FInv, Clean, Full, ServedInFull,
           NothingForgotten, StopsAtEnd, NoneBeyond, Unstarted, Uncollected, Span, Part
    <3> QED BY <3>1, <3>2
  <2>10. CASE Returned
    BY <2>9, <2>10 DEF Returned
  <2> QED
    BY <2>1, <2>2, <2>3, <2>4, <2>5, <2>6, <2>7, <2>8, <2>9, <2>10
       DEF WriteNext, WriteCaller, WriteDrain
<1> QED BY <1>5, <1>6

(* Both hold throughout a write.                                           *)
LEMMA WriteCounts == WriteSpec => [](IInv /\ AInv /\ FInv(jiLen))
<1>1. Init => AInv /\ FInv(jiLen)
  <2> SUFFICES ASSUME Init PROVE AInv /\ FInv(jiLen)
    OBVIOUS
  <2>1. jiLen \in Nat
    BY CallAssumption DEF Init
  <2> QED BY <2>1, InitAInv, InitFInv
<1>2. IInv /\ AInv /\ FInv(jiLen) /\ [WriteNext]_vars => AInv' /\ FInv(jiLen)'
  BY StepWriteCounts
<1> QED BY <1>1, <1>2, WriteInvariant, PTL DEF WriteSpec

(* A write that returns without an exception has written every byte of the *)
(* array, whichever requests fail, are cut short or complete at once, for  *)
(* any number and size of buffers.                                         *)
THEOREM WriteNoSilentLoss == WriteSpec => []NoSilentLoss
<1>1. IInv /\ AInv => NoSilentLoss
  <2> SUFFICES ASSUME IInv, AInv, total = jiLen PROVE moved = AllPairs
    BY DEF NoSilentLoss, Throws
  <2> DEFINE all == [data |-> 0, offset |-> jiOffset, len |-> jiLen]
  <2>1. TypeOK /\ all \in Requests /\ jiLen \in Nat /\ jiOffset \in Nat
    BY CallAssumption DEF IInv, TypeOK, Requests
  <2>2. AllPairs = Bytes(all, jiLen)
    BY <2>1 DEF AllPairs, Bytes
  <2>3. IsFiniteSet(AllPairs) /\ Cardinality(AllPairs) = jiLen
    BY <2>1, <2>2, BytesCount
  <2>4. moved \subseteq AllPairs
    <3> SUFFICES ASSUME NEW m \in moved PROVE m \in AllPairs
      OBVIOUS
    <3>1. m \in Nat \X Nat /\ m[1] < jiLen /\ m[2] = jiOffset + m[1]
      BY <2>1 DEF IInv, TypeOK, BytesLandInPlace
    <3>2. m = <<m[1], jiOffset + m[1]>> /\ m[1] \in 0 .. jiLen - 1
      BY <2>1, <3>1
    <3> QED BY <3>2 DEF AllPairs
  <2>5. Collected \subseteq AllPairs /\ Cardinality(Collected) = Cardinality(AllPairs)
    BY <2>3, <2>4 DEF Collected, AInv, Counted
  <2>6. Collected = AllPairs
    BY <2>3, <2>5, FS_Subset
  <2> QED BY <2>4, <2>6 DEF Collected
<1> QED BY <1>1, WriteCounts, PTL

(* A write throws only when something failed: served in full, it writes    *)
(* all its bytes, or, without memory for its first buffer, none of them.   *)
THEOREM WriteNoFalseAlarm == WriteSpec => []NoFalseAlarm
<1>1. IInv /\ AInv /\ FInv(jiLen) => NoFalseAlarm
  <2> SUFFICES ASSUME IInv, AInv, FInv(jiLen), pc = "returned", Clean, Throws
               PROVE  "nomem" \in faults /\ moved = {}
    BY DEF NoFalseAlarm, Clean
  <2>1. jiLen \in Nat
    BY CallAssumption DEF IInv, TypeOK
  <2> QED BY <2>1, FullReturn DEF Throws
<1> QED BY <1>1, WriteCounts, PTL

-----------------------------------------------------------------------------
(* Every step of the write is a step of the abstract transfer, or none.       *)
LEMMA StepWriteTransfers ==
  ASSUME IInv, AInv, [WriteNext]_vars PROVE [Abstract!Next]_Abstract!vars
<1>1. TypeOK /\ NextRequest \in Requests
  BY ChunkBounds DEF IInv
<1>2. Fits(WriteOutcomes(NextRequest), NextRequest)
  BY <1>1, WriteOutcomesFit
<1>3. CASE WritePrime
  BY <1>2, <1>3, PrimeTransfers DEF WritePrime
<1>4. CASE PrimeNoMemory
  BY <1>4, LoopStutters DEF PrimeNoMemory
<1>5. CASE PrimeDone
  BY <1>5, LoopStutters DEF PrimeDone
<1>6. ASSUME NEW b \in Buffers, WriteMore(b) PROVE [Abstract!Next]_Abstract!vars
  BY <1>2, <1>6, DrainMoreTransfers DEF WriteMore
<1>7. ASSUME NEW b \in Buffers, WriteLast(b) \/ WriteFail(b) PROVE [Abstract!Next]_Abstract!vars
  BY <1>7, LoopStutters DEF WriteLast, DrainLast, WriteFail, DrainFail, Retire
<1>8. CASE Cleanup
  BY <1>8, CleanupReturns
<1>9. ASSUME NEW b \in Buffers, WriteComplete(b) PROVE [Abstract!Next]_Abstract!vars
  <2>1. req[b] \in Requests
    BY <1>1 DEF TypeOK
  <2> QED BY <1>1, <1>9, <2>1, WriteOutcomesFit, CompleteFinishes DEF WriteComplete
<1>10. CASE UNCHANGED vars
  BY <1>10, LoopStutters DEF vars, locals
<1>11. CASE Returned
  BY <1>10, <1>11 DEF Returned
<1> QED
  BY <1>3, <1>4, <1>5, <1>6, <1>7, <1>8, <1>9, <1>10, <1>11 DEF WriteNext, WriteCaller, WriteDrain

(* A write is a transfer as its caller may think of it, for any number and    *)
(* size of buffers: each byte is asked for once, in order, at most         *)
(* NumBuffers requests are in flight, and nothing moves after the return.  *)
THEOREM WriteIsATransfer == WriteSpec => ImplementsTransfer
<1>1. Init => Abstract!Init
  BY InitTransfers
<1>2. IInv /\ AInv /\ [WriteNext]_vars => [Abstract!Next]_Abstract!vars
  BY StepWriteTransfers
<1> QED
  BY <1>1, <1>2, WriteCounts, PTL DEF WriteSpec, ImplementsTransfer, Abstract!Spec
=============================================================================

--------------------------- MODULE Resolver_proofs ---------------------------
(***************************************************************************)
(* Proofs about Resolver and ResolverIO, for any number of threads, files, *)
(* documents, regions and directories: where transfers land, to whom the   *)
(* entries of a directory go, and what locks are lost by.                  *)
(***************************************************************************)
EXTENDS MCResolver, SequenceTheorems, TLAPS

-----------------------------------------------------------------------------
(* ResolverIO.                                                             *)

\* Until a call strays, the document is the one asked for; one thread at most is
\* half way through a seek or truncate, and it brings the offset where it should
\* be, where it is when there is none.
IOInv ==
  /\ ioPc \in [Threads -> {"idle", "position", "again"}]
  /\ ioCall = [t \in Threads |-> ioCall[t]]
  /\ ~strayed =>
       /\ contents = meant /\ got = due
       /\ \A t, u \in Threads : ioPc[t] # "idle" /\ ioPc[u] # "idle" => t = u
       /\ \A t \in Threads : ioPc[t] # "idle" => ioCall[t].o = cursor
       /\ IO!Moving \/ offset = cursor

(* A position that fits a jint comes through the bridge as it is.          *)
LEMMA JintKeeps ==
  ASSUME NEW o \in Int, IO!InRange(o) PROVE IO!Jint(o) = o /\ o \in Nat
<1>1. Half \in Nat /\ o \in 0 .. Half - 1
  BY IOAssumption DEF IO!ResolverIOBounds, IO!InRange
<1>2. (o + Half) % (2 * Half) = o + Half
  BY <1>1
<1> QED BY <1>1, <1>2 DEF IO!Jint

(* An empty document, and nobody half way.                                 *)
LEMMA InitIO == IO!Init => IOInv
BY DEF IO!Init, IOInv, IO!Moving

(* A write has moved as many bytes as it returns.                          *)
LEMMA WriteTells ==
  ASSUME NEW n \in Nat, NEW k \in IO!Writes(n)
  PROVE  IO!Moved(IO!WriteReturns(k)) = IO!Moved(k)
BY DEF IO!Writes, IO!Least, IO!Moved, IO!WriteReturns, IO!Thrown

(* A read gives as many bytes as it returns, and none only at the end.     *)
LEMMA ReadTells ==
  ASSUME NEW n \in Nat, NEW p, contents = meant, NEW k \in IO!Reads(Len(IO!Sub(contents, p, n)))
  PROVE  /\ IO!Sub(contents, p, IO!Moved(k)) = IO!Due(p, n, IO!ReadReturns(k))
         /\ IO!Moved(IO!ReadReturns(k)) = IO!Moved(k)
<1>1. CASE k = -1
  <2>1. Len(IO!Sub(meant, p, n)) = 0
    BY <1>1 DEF IO!Reads, IO!Thrown
  <2> QED BY <1>1, <2>1 DEF IO!Moved, IO!ReadReturns, IO!Due, IO!Thrown
<1>2. CASE k = IO!Thrown
  BY <1>2 DEF IO!Moved, IO!ReadReturns, IO!Due, IO!Thrown
<1>3. CASE k \in Int /\ k > 0
  BY <1>3 DEF IO!Moved, IO!ReadReturns, IO!Due, IO!Thrown
<1> QED BY <1>1, <1>2, <1>3 DEF IO!Reads

(* The invariant is inductive.                                             *)
LEMMA StepIO == IOInv /\ [IO!Next]_IO!vars => IOInv'
<1> SUFFICES ASSUME IOInv, [IO!Next]_IO!vars PROVE IOInv'
  OBVIOUS
<1> USE DEF IOInv, IO!Means, IO!Idle, IO!Moving
<1>1. ASSUME NEW t \in Threads, NEW n \in Lengths, IO!Read(t, n) PROVE IOInv'
  <2>1. n \in Nat
    BY IOAssumption DEF IO!ResolverIOBounds
  <2>2. PICK k \in IO!Reads(Len(IO!Sub(contents, offset, n))) :
          /\ got' = IO!Sub(contents, offset, IO!Moved(k)) /\ offset' = offset + IO!Moved(k)
          /\ ret' = IO!ReadReturns(k)
    BY <1>1 DEF IO!Read
  <2>3. ~strayed /\ ~IO!Moving =>
          /\ got' = IO!Due(cursor, n, ret') /\ offset' = cursor + IO!Moved(ret')
    BY <2>1, <2>2, ReadTells
  <2> QED BY <1>1, <2>3 DEF IO!Read
<1>2. ASSUME NEW t \in Threads, NEW n \in Lengths, NEW v \in Bytes, IO!Write(t, v, n)
      PROVE  IOInv'
  <2>1. n \in Nat
    BY IOAssumption DEF IO!ResolverIOBounds
  <2>2. PICK k \in IO!Writes(n) :
          /\ contents' = IO!Written(contents, offset, v, IO!Moved(k))
          /\ offset' = offset + IO!Moved(k) /\ ret' = IO!WriteReturns(k)
    BY <1>2 DEF IO!Write
  <2>3. IO!Moved(ret') = IO!Moved(k)
    BY <2>1, <2>2, WriteTells
  <2> QED BY <1>2, <2>2, <2>3 DEF IO!Write
<1>3. ASSUME NEW t \in Threads, NEW n \in Lengths, NEW o \in Offsets, IO!PRead(t, n, o)
      PROVE  IOInv'
  <2>1. o \in Int /\ n \in Nat
    BY IOAssumption DEF IO!ResolverIOBounds
  <2>2. IO!InRange(o) => IO!Jint(o) = o /\ ~(o < 0)
    BY <2>1, JintKeeps
  <2>3. ~strayed /\ IO!InRange(o) => got' = IO!Due(o, n, ret')
    <3> SUFFICES ASSUME ~strayed, IO!InRange(o) PROVE got' = IO!Due(o, n, ret')
      OBVIOUS
    <3>1. PICK k \in IO!Reads(Len(IO!Sub(contents, o, n))) :
            got' = IO!Sub(contents, o, IO!Moved(k)) /\ ret' = IO!ReadReturns(k)
      BY <1>3, <2>2 DEF IO!PRead
    <3> QED BY <2>1, <3>1, ReadTells
  <2> QED BY <1>3, <2>3 DEF IO!PRead
<1>4. ASSUME NEW t \in Threads, NEW n \in Lengths, NEW v \in Bytes, NEW o \in Offsets,
             IO!PWrite(t, v, n, o)
      PROVE  IOInv'
  <2>1. o \in Int /\ n \in Nat
    BY IOAssumption DEF IO!ResolverIOBounds
  <2>2. IO!InRange(o) => IO!Jint(o) = o /\ ~(o < 0)
    BY <2>1, JintKeeps
  <2>3. IO!InRange(o) =>
          contents' = IO!Written(contents, o, v, IO!Moved(ret')) /\ offset' = offset
    BY <1>4, <2>1, <2>2, WriteTells DEF IO!PWrite, IO!NotMoved
  <2> QED BY <1>4, <2>3 DEF IO!PWrite
<1>5. ASSUME NEW t \in Threads, NEW o \in Offsets, NEW w \in 0 .. 2, IO!Seek(t, o, w)
      PROVE  IOInv'
  BY <1>5 DEF IO!Seek, IO!Goto
<1>6. ASSUME NEW t \in Threads, IO!SeekFails(t) PROVE IOInv'
  BY <1>6 DEF IO!SeekFails, IO!Fails
<1>7. ASSUME NEW t \in Threads, NEW o \in Offsets, IO!Truncate(t, o) PROVE IOInv'
  BY <1>7 DEF IO!Truncate, IO!Goto
<1>8. ASSUME NEW t \in Threads, IO!Position(t) PROVE IOInv'
  BY <1>8 DEF IO!Position, IO!Goto, IO!history
<1>9. ASSUME NEW t \in Threads, IO!PositionFails(t) PROVE IOInv'
  BY <1>9 DEF IO!PositionFails, IO!Goto
<1>10. CASE UNCHANGED IO!vars
  BY <1>10 DEF IO!vars, IO!history
<1> QED
  BY <1>1, <1>2, <1>3, <1>4, <1>5, <1>6, <1>7, <1>8, <1>9, <1>10 DEF IO!Next

(* Whatever threads of of_core read, write, seek and truncate at a time,   *)
(* and however many bytes each transfer moves before it ends or fails, the *)
(* document has what the calls say where they were to put it, and reads    *)
(* give what they say, until a position beyond a jint is used, or a seek or*)
(* truncate fails or is met half way.                                      *)
THEOREM ResolverIOLandsWhereAsked == IO!Spec => []IOLandsWhereAsked
<1>1. IOInv => IOLandsWhereAsked
  BY DEF IOInv, IOLandsWhereAsked, IO!IOLandsWhereAsked
<1> QED BY <1>1, InitIO, StepIO, PTL DEF IO!Spec
-----------------------------------------------------------------------------
(* Resolver.                                                               *)

\* What a thread inside a call has to do with.
CallsOK ==
  \A t \in Threads :
    /\ pc[t] \in {"close", "enter", "wait"} => call[t].f \in Files
    /\ pc[t] \in {"enter", "wait"} => call[t].r \in Regions
    /\ pc[t] \in {"copy", "take"} => call[t].f \in Dirs

\* The kernel has locks for files whose locking channel is open; a file not made
\* yet has no descriptors, and one half made has cost a fault.
Held ==
  \A f \in Files :
    /\ granted[f] # {} => "out" \in fds[f]
    /\ state[f] = "none" => fds[f] = {}
    /\ faults = 0 => state[f] # "half" /\ "pfd" \notin fds[f]

\* A thread on its way through resolver_close has closed the one channel.
Closings ==
  \A t \in Threads : pc[t] = "close" =>
    /\ state[call[t].f] \in {"closing", "gone"}
    /\ faults = 0 => "in" \notin fds[call[t].f]

\* What the reader of a directory gets, of one directory or another.
Read == (Dirs \X Nat) \cup {Missing}

\* Until two threads have been in resolver_readdir, one at most is; what it has
\* taken from the cursor follows what has been seen, and is on its way.
Lone ==
  /\ seen \in [Dirs -> Seq(Read)]
  /\ crowded => \A d \in Dirs : seen[d] = <<>>
  /\ ~crowded =>
       /\ \A t, u \in Threads : Reading(t) /\ Reading(u) => t = u
       /\ \A t \in Threads : Reading(t) =>
            /\ call[t].i = Len(seen[call[t].f]) + 1
            /\ at[call[t].f] = call[t].i + 1
            /\ pc[t] = "take" => sdirent = <<call[t].f, call[t].i>>
       /\ \A d \in Dirs :
            \/ at[d] = 0 /\ seen[d] = <<>>
            \/ at[d] = Len(seen[d]) + 1
            \/ \E t \in Threads : Reading(t) /\ call[t].f = d

\* Each thread has a call, and each file a set of locks.
Calls == call = [t \in Threads |-> call[t]] /\ granted = [f \in Files |-> granted[f]]

RInv == TypeOK /\ Calls /\ CallsOK /\ Held /\ Closings /\ Lone /\ ReadersGetTheirEntries

\* Where a thread can be.
Places == {"idle", "close", "enter", "wait", "copy", "take"}

(* Nobody has called the resolver yet.                                     *)
LEMMA InitRInv == Init => RInv
<1> SUFFICES ASSUME Init PROVE RInv
  OBVIOUS
<1>1. TypeOK
  <2>1. 0 \in 0 .. Entries + 1 /\ 0 \in 0 .. MaxFaults
    BY ResolverBounds
  <2>2. at \in [Dirs -> 0 .. Entries + 1] /\ faults \in 0 .. MaxFaults
    BY <2>1 DEF Init
  <2> QED BY <2>2 DEF Init, TypeOK
<1>2. Calls /\ CallsOK /\ Held /\ Closings
  BY DEF Init, Calls, CallsOK, Held, Closings, NoCall
<1>3. \A d \in Dirs : seen[d] = <<>> /\ at[d] = 0
  BY DEF Init
<1>4. Lone /\ ReadersGetTheirEntries
  BY <1>3 DEF Init, Lone, ReadersGetTheirEntries, Reading
<1> QED BY <1>1, <1>2, <1>4 DEF RInv

(* The faults there have been stay.                                        *)
LEMMA FaultsStay == ASSUME TypeOK, NoFault \/ Fault PROVE faults > 0 => faults' > 0
BY ResolverBounds DEF TypeOK, NoFault, Fault

(* What a thread does that reads no directory leaves the directories as    *)
(* they are.                                                               *)
LEMMA FilesLeaveDirectories ==
  ASSUME RInv, UNCHANGED directories,
         \A t \in Threads : Reading(t) \/ Reading(t)' => pc'[t] = pc[t] /\ call'[t] = call[t],
         NoFault \/ Fault
  PROVE  Lone' /\ ReadersGetTheirEntries'
<1>1. UNCHANGED <<at, seen, sdirent, crowded>> /\ (faults > 0 => faults' > 0)
  BY FaultsStay DEF directories, RInv
<1>2. \A t \in Threads : Reading(t)' = Reading(t)
  BY DEF Reading
<1>3. ReadersGetTheirEntries'
  BY <1>1 DEF RInv, ReadersGetTheirEntries
<1>4. Lone'
  BY <1>1, <1>2 DEF RInv, Lone
<1> QED BY <1>3, <1>4

(* A thread goes where it has a call for.                                  *)
LEMMA ThreadGoes ==
  ASSUME RInv, NEW t \in Threads, NEW where \in {"idle", "close", "enter", "wait"}, NEW c,
         Goto(t, where, c), ~Reading(t),
         where # "idle" => c.f \in Files, where \in {"enter", "wait"} => c.r \in Regions
  PROVE  /\ pc' \in [Threads -> Places] /\ CallsOK'
         /\ call' = [u \in Threads |-> call'[u]]
         /\ pc'[t] = where /\ call'[t] = c
         /\ \A u \in Threads : u # t => pc'[u] = pc[u] /\ call'[u] = call[u]
         /\ \A u \in Threads : Reading(u) \/ Reading(u)' => pc'[u] = pc[u] /\ call'[u] = call[u]
BY DEF RInv, TypeOK, Calls, CallsOK, Goto, Reading, Places

(* Descriptors that are closed take the locks of the process on their      *)
(* document with them, and nobody else's.                                  *)
LEMMA CloseFdsKeeps ==
  ASSUME RInv, NEW f \in Files, NEW S \in SUBSET {"pfd", "out", "in"}, CloseFds(f, S)
  PROVE  /\ fds' \in [Files -> SUBSET {"pfd", "out", "in"}]
         /\ valid' \in [Files -> SUBSET Regions] /\ granted' = [g \in Files |-> granted'[g]]
         /\ fds'[f] = fds[f] \ S /\ \A g \in Files : fds'[g] \subseteq fds[g]
         /\ \A g \in Files : granted'[g] \subseteq valid'[g]
         /\ \A g \in Files : granted'[g] # {} => "out" \in fds'[g]
         /\ \A g \in Files : granted[g] \subseteq granted'[g]
                               \/ (doc[g] = doc[f] /\ fds'[f] # fds[f])
<1>1. /\ TypeOK /\ Held /\ granted = [g \in Files |-> granted[g]]
      /\ fds' = [fds EXCEPT ![f] = fds[f] \ S]
      /\ granted' = IF S \cap fds[f] = {} THEN granted ELSE Dropped(doc[f])
      /\ valid' = IF "out" \in S THEN [valid EXCEPT ![f] = {}] ELSE valid
  BY DEF RInv, Calls, CloseFds
<1>2. CASE S \cap fds[f] = {}
  BY <1>1, <1>2 DEF TypeOK, Held
<1>3. CASE S \cap fds[f] # {}
  BY <1>1, <1>3 DEF TypeOK, Held, Dropped
<1> QED BY <1>2, <1>3

-----------------------------------------------------------------------------
(* resolver_open: the descriptors of a new file take nothing from it.      *)
LEMMA OpenStep ==
  ASSUME RInv, NEW t \in Threads, NEW f \in Files, NEW d \in Documents, Open(t, f, d)
  PROVE  RInv'
<1>1. TypeOK /\ Calls /\ CallsOK /\ Held /\ Closings /\ state[f] = "none" /\ granted[f] = {}
  BY DEF RInv, Held, Open
<1>2. TypeOK'
  BY <1>1 DEF TypeOK, Open, Dropped, directories
<1>3. Calls' /\ CallsOK'
  BY <1>1 DEF Calls, CallsOK, Open, Dropped
<1>4. Held'
  BY <1>1 DEF TypeOK, Held, Open, Dropped
<1>5. Closings'
  BY <1>1 DEF TypeOK, CallsOK, Closings, Open
<1>6. Lone' /\ ReadersGetTheirEntries'
  BY FilesLeaveDirectories DEF Open, NoFault
<1> QED BY <1>2, <1>3, <1>4, <1>5, <1>6 DEF RInv

(* A file half made has no lock.                                           *)
LEMMA OpenHalfStep ==
  ASSUME RInv, NEW t \in Threads, NEW f \in Files, NEW d \in Documents, OpenHalf(t, f, d)
  PROVE  RInv'
<1>1. /\ TypeOK /\ Calls /\ CallsOK /\ Held /\ Closings /\ state[f] = "none" /\ granted[f] = {}
      /\ faults' \in 0 .. MaxFaults /\ faults' # 0
  BY ResolverBounds DEF RInv, TypeOK, Held, OpenHalf, Fault
<1>2. PICK S \in SUBSET {"pfd", "out", "in"}, k \in {"whole", "half"} :
        fds' = [fds EXCEPT ![f] = S] /\ state' = [state EXCEPT ![f] = k]
  BY DEF OpenHalf
<1>3. TypeOK'
  BY <1>1, <1>2 DEF TypeOK, OpenHalf, locks, directories
<1>4. Calls' /\ CallsOK'
  BY <1>1 DEF Calls, CallsOK, OpenHalf, locks
<1>5. Held'
  BY <1>1, <1>2 DEF TypeOK, Held, OpenHalf, locks
<1>6. Closings'
  BY <1>1, <1>2 DEF TypeOK, CallsOK, Closings, OpenHalf
<1>7. Lone' /\ ReadersGetTheirEntries'
  BY FilesLeaveDirectories DEF OpenHalf
<1> QED BY <1>3, <1>4, <1>5, <1>6, <1>7 DEF RInv

(* resolver_close of a file half made costs a fault before.                *)
LEMMA CloseHalfStep ==
  ASSUME RInv, NEW t \in Threads, NEW f \in Files, CloseHalf(t, f)
  PROVE  RInv'
<1>1. TypeOK /\ Calls /\ CallsOK /\ Held /\ Closings /\ state[f] = "half" /\ faults # 0
  BY DEF RInv, Held, CloseHalf
<1>2. TypeOK'
  BY <1>1 DEF TypeOK, CloseHalf, Delete, locks, directories
<1>3. Calls' /\ CallsOK' /\ Held' /\ Closings'
  BY <1>1 DEF TypeOK, Calls, CallsOK, Held, Closings, CloseHalf, Delete, locks
<1>4. Lone' /\ ReadersGetTheirEntries'
  BY FilesLeaveDirectories DEF CloseHalf, NoFault
<1> QED BY <1>2, <1>3, <1>4 DEF RInv

(* The stream that reads is closed, or the call ends before the other is.  *)
LEMMA CloseInStep ==
  ASSUME RInv, NEW t \in Threads, NEW f \in Files, CloseIn(t, f)
  PROVE  RInv'
<1>1. /\ TypeOK /\ Calls /\ CallsOK /\ Held /\ Closings /\ state[f] = "whole" /\ ~Reading(t)
  BY DEF RInv, CloseIn, Idle, Reading
<1>2. UNCHANGED <<doc, table, other, at, seen, sdirent, crowded>>
  BY DEF CloseIn, directories
<1>3. CASE /\ NoFault /\ CloseFds(f, {"in"}) /\ state' = [state EXCEPT ![f] = "closing"]
           /\ Goto(t, "close", [op |-> "close", f |-> f])
  <2>1. PICK c : c = [op |-> "close", f |-> f]
    OBVIOUS
  <2>2. /\ pc' \in [Threads -> Places] /\ CallsOK' /\ call' = [u \in Threads |-> call'[u]]
        /\ pc'[t] = "close" /\ call'[t] = c
        /\ \A u \in Threads : u # t => pc'[u] = pc[u] /\ call'[u] = call[u]
        /\ \A u \in Threads : Reading(u) \/ Reading(u)' => pc'[u] = pc[u] /\ call'[u] = call[u]
    BY <1>1, <1>3, <2>1, ThreadGoes
  <2>3. /\ fds' \in [Files -> SUBSET {"pfd", "out", "in"}]
        /\ valid' \in [Files -> SUBSET Regions] /\ granted' = [g \in Files |-> granted'[g]]
        /\ fds'[f] = fds[f] \ {"in"} /\ \A g \in Files : fds'[g] \subseteq fds[g]
        /\ \A g \in Files : granted'[g] \subseteq valid'[g]
        /\ \A g \in Files : granted'[g] # {} => "out" \in fds'[g]
    BY <1>3, CloseFdsKeeps
  <2>4. faults' = faults
    BY <1>3 DEF NoFault
  <2>5. /\ state' \in [Files -> {"none", "whole", "half", "closing", "gone"}]
        /\ state'[f] = "closing" /\ \A g \in Files : g # f => state'[g] = state[g]
    BY <1>1, <1>3 DEF TypeOK
  <2>6. TypeOK'
    <3>1. \A g \in Files : faults' = 0 /\ state'[g] = "gone" => fds'[g] = {}
      BY <1>1, <2>3, <2>4, <2>5 DEF TypeOK
    <3> QED BY <1>1, <1>2, <2>2, <2>3, <2>4, <2>5, <3>1 DEF TypeOK, Places
  <2>7. Calls' /\ Held'
    BY <1>1, <2>2, <2>3, <2>4, <2>5 DEF Calls, Held
  <2>8. Closings'
    BY <1>1, <1>3, <2>1, <2>2, <2>3, <2>4 DEF TypeOK, CallsOK, Closings
  <2>9. Lone' /\ ReadersGetTheirEntries'
    BY <1>2, <1>3, <2>2, FilesLeaveDirectories DEF directories
  <2> QED BY <2>2, <2>6, <2>7, <2>8, <2>9 DEF RInv
<1>4. ASSUME NEW S \in SUBSET {"in"}, Fault, Delete(f), UNCHANGED <<pc, call>>, CloseFds(f, S)
      PROVE  RInv'
  <2>1. /\ fds' \in [Files -> SUBSET {"pfd", "out", "in"}]
        /\ valid' \in [Files -> SUBSET Regions] /\ granted' = [g \in Files |-> granted'[g]]
        /\ \A g \in Files : fds'[g] \subseteq fds[g]
        /\ \A g \in Files : granted'[g] \subseteq valid'[g]
        /\ \A g \in Files : granted'[g] # {} => "out" \in fds'[g]
    BY <1>4, CloseFdsKeeps
  <2>2. faults' \in 0 .. MaxFaults /\ faults' # 0
    BY <1>1, <1>4, ResolverBounds DEF TypeOK, Fault
  <2>3. /\ state' \in [Files -> {"none", "whole", "half", "closing", "gone"}]
        /\ state'[f] = "gone" /\ \A g \in Files : g # f => state'[g] = state[g]
    BY <1>1, <1>4 DEF TypeOK, Delete
  <2>4. TypeOK'
    BY <1>1, <1>2, <1>4, <2>1, <2>2, <2>3 DEF TypeOK
  <2>5. Calls' /\ CallsOK'
    BY <1>1, <1>4, <2>1 DEF Calls, CallsOK
  <2>6. Held'
    BY <1>1, <2>1, <2>2, <2>3 DEF Held
  <2>7. Closings'
    BY <1>1, <1>4, <2>2, <2>3 DEF Closings, CallsOK
  <2>8. Lone' /\ ReadersGetTheirEntries'
    BY <1>2, <1>4, FilesLeaveDirectories DEF directories
  <2> QED BY <2>4, <2>5, <2>6, <2>7, <2>8 DEF RInv
<1> QED BY <1>3, <1>4 DEF CloseIn

(* The stream that writes is closed, and with it the channel of the locks. *)
LEMMA CloseOutStep == ASSUME RInv, NEW t \in Threads, CloseOut(t) PROVE RInv'
<1>1. /\ TypeOK /\ Calls /\ CallsOK /\ Held /\ Closings /\ pc[t] = "close" /\ ~Reading(t)
  BY DEF RInv, CloseOut, Reading
<1>2. PICK f \in Files : f = call[t].f
  BY <1>1 DEF CallsOK
<1>3. PICK S \in SUBSET {"out"} :
        CloseFds(f, S) /\ ((NoFault /\ S = {"out"}) \/ Fault)
  BY <1>2 DEF CloseOut, Rest
<1>4. /\ state' = [state EXCEPT ![f] = "gone"]
      /\ UNCHANGED <<doc, table, other, at, seen, sdirent, crowded>>
  BY <1>2 DEF CloseOut, Delete, directories
<1>5. /\ pc' \in [Threads -> Places] /\ CallsOK' /\ call' = [u \in Threads |-> call'[u]]
      /\ pc'[t] = "idle"
      /\ \A u \in Threads : u # t => pc'[u] = pc[u] /\ call'[u] = call[u]
      /\ \A u \in Threads : Reading(u) \/ Reading(u)' => pc'[u] = pc[u] /\ call'[u] = call[u]
  BY <1>1, ThreadGoes DEF CloseOut, Return
<1>6. /\ fds' \in [Files -> SUBSET {"pfd", "out", "in"}]
      /\ valid' \in [Files -> SUBSET Regions] /\ granted' = [g \in Files |-> granted'[g]]
      /\ fds'[f] = fds[f] \ S /\ \A g \in Files : fds'[g] \subseteq fds[g]
      /\ \A g \in Files : granted'[g] \subseteq valid'[g]
      /\ \A g \in Files : granted'[g] # {} => "out" \in fds'[g]
  BY <1>3, CloseFdsKeeps
<1>7. faults' \in 0 .. MaxFaults /\ (faults' = 0 => faults = 0 /\ fds'[f] = {})
  <2>1. faults \in Nat
    BY <1>1, ResolverBounds DEF TypeOK
  <2>2. CASE NoFault /\ S = {"out"}
    <3>1. faults = 0 => "in" \notin fds[f] /\ "pfd" \notin fds[f]
      BY <1>1, <1>2 DEF Closings, Held
    <3> QED BY <1>1, <1>6, <2>2, <3>1 DEF NoFault, TypeOK
  <2>3. CASE Fault
    BY <2>1, <2>3, <1>1, ResolverBounds DEF Fault, TypeOK
  <2> QED BY <1>3, <2>2, <2>3
<1>8. TypeOK'
  <2>1. \A g \in Files : faults' = 0 /\ state'[g] = "gone" => fds'[g] = {}
    BY <1>1, <1>4, <1>6, <1>7 DEF TypeOK
  <2> QED BY <1>1, <1>4, <1>5, <1>6, <1>7, <2>1 DEF TypeOK, Places
<1>9. Calls' /\ Held'
  <2>1. \A g \in Files : g # f => state'[g] = state[g]
    BY <1>1, <1>4 DEF TypeOK
  <2>2. state'[f] = "gone"
    BY <1>1, <1>4 DEF TypeOK
  <2> QED BY <1>1, <1>5, <1>6, <1>7, <2>1, <2>2 DEF Calls, Held
<1>10. Closings'
  BY <1>1, <1>4, <1>5, <1>6, <1>7 DEF TypeOK, CallsOK, Closings
<1>11. Lone' /\ ReadersGetTheirEntries'
  BY <1>3, <1>4, <1>5, FilesLeaveDirectories DEF directories
<1> QED BY <1>5, <1>8, <1>9, <1>10, <1>11 DEF RInv

(* The garbage collector closes more of a file that is gone.               *)
LEMMA CollectStep == ASSUME RInv, NEW f \in Files, Collect(f) PROVE RInv'
<1>1. TypeOK /\ Calls /\ CallsOK /\ Held /\ Closings
  BY DEF RInv
<1>2. PICK S \in SUBSET fds[f] : CloseFds(f, S)
  BY DEF Collect
<1>3. S \in SUBSET {"pfd", "out", "in"}
  BY <1>1 DEF TypeOK
<1>4. /\ fds' \in [Files -> SUBSET {"pfd", "out", "in"}]
      /\ valid' \in [Files -> SUBSET Regions] /\ granted' = [g \in Files |-> granted'[g]]
      /\ \A g \in Files : fds'[g] \subseteq fds[g]
      /\ \A g \in Files : granted'[g] \subseteq valid'[g]
      /\ \A g \in Files : granted'[g] # {} => "out" \in fds'[g]
  BY <1>2, <1>3, CloseFdsKeeps
<1>5. UNCHANGED <<state, doc, table, other, at, seen, sdirent, crowded, pc, call, faults>>
  BY DEF Collect, directories
<1>6. TypeOK'
  BY <1>1, <1>4, <1>5 DEF TypeOK
<1>7. Calls' /\ CallsOK' /\ Held' /\ Closings'
  BY <1>1, <1>4, <1>5 DEF TypeOK, Calls, CallsOK, Held, Closings
<1>8. Lone' /\ ReadersGetTheirEntries'
  BY <1>5, FilesLeaveDirectories DEF directories, NoFault
<1> QED BY <1>6, <1>7, <1>8 DEF RInv

-----------------------------------------------------------------------------
(* A call for a lock begins, waits or ends without one.                    *)
LEMMA FilesStay ==
  ASSUME RInv, NEW t \in Threads, NEW where \in {"idle", "enter", "wait"}, NEW c,
         Goto(t, where, c), ~Reading(t),
         where # "idle" => c.f \in Files /\ c.r \in Regions,
         UNCHANGED <<files, other, directories>>, NoFault \/ Fault
  PROVE  RInv'
<1>1. TypeOK /\ Calls /\ CallsOK /\ Held /\ Closings
  BY DEF RInv
<1>2. UNCHANGED <<state, doc, fds, valid, granted, table, other, at, seen, sdirent, crowded>>
  BY DEF files, locks, directories
<1>3. /\ pc' \in [Threads -> Places] /\ CallsOK' /\ call' = [u \in Threads |-> call'[u]]
      /\ pc'[t] = where
      /\ \A u \in Threads : u # t => pc'[u] = pc[u] /\ call'[u] = call[u]
      /\ \A u \in Threads : Reading(u) \/ Reading(u)' => pc'[u] = pc[u] /\ call'[u] = call[u]
  BY ThreadGoes
<1>4. faults' \in 0 .. MaxFaults /\ (faults' = 0 => faults = 0)
  BY <1>1, ResolverBounds DEF TypeOK, NoFault, Fault
<1>5. TypeOK'
  BY <1>1, <1>2, <1>3, <1>4 DEF TypeOK, Places
<1>6. Calls' /\ Held'
  BY <1>1, <1>2, <1>3, <1>4 DEF Calls, Held
<1>7. Closings'
  BY <1>1, <1>2, <1>3, <1>4 DEF Closings
<1>8. Lone' /\ ReadersGetTheirEntries'
  BY <1>2, <1>3, FilesLeaveDirectories DEF directories
<1> QED BY <1>3, <1>5, <1>6, <1>7, <1>8 DEF RInv

(* A call for a lock has a file and a region.                              *)
LEMMA LockCallStep ==
  ASSUME RInv, NEW t \in Threads, NEW f \in Files, NEW o, NEW r \in Regions, NEW shared,
         LockCall(t, f, o, r, shared)
  PROVE  RInv'
<1>1. PICK c : c = [op |-> o, f |-> f, r |-> r, shared |-> shared]
  OBVIOUS
<1>2. c.f \in Files /\ c.r \in Regions
  BY <1>1
<1>3. Goto(t, "enter", c) /\ ~Reading(t) /\ UNCHANGED <<files, other, directories>> /\ NoFault
  BY <1>1 DEF LockCall, Idle, Reading, NoFault
<1> QED BY <1>2, <1>3, FilesStay

(* A call that ends without a lock, or waits for one, changes no file.     *)
LEMMA NoLockStep ==
  ASSUME RInv, NEW t \in Threads, LockRefused(t) \/ LockWaits(t) \/ LockFails(t) \/ TryLockBusy(t)
  PROVE  RInv'
<1>1. pc[t] \in {"enter", "wait"} /\ ~Reading(t) /\ call[t].f \in Files /\ call[t].r \in Regions
  BY DEF RInv, CallsOK, LockRefused, LockWaits, LockFails, TryLockBusy, Entered, Reading
<1>2. UNCHANGED <<files, other, directories>> /\ (NoFault \/ Fault)
  BY DEF LockRefused, LockWaits, LockFails, TryLockBusy, NoFault
<1>3. Goto(t, "idle", NoCall) \/ Goto(t, "wait", call[t])
  BY DEF LockRefused, LockWaits, LockFails, TryLockBusy, Return
<1>4. PICK c : c = call[t]
  OBVIOUS
<1> QED BY <1>1, <1>2, <1>3, <1>4, FilesStay

(* A lock is granted to a file whose channel is open.                      *)
LEMMA LockStep ==
  ASSUME RInv, NEW t \in Threads, LockGranted(t) \/ TryLock(t)
  PROVE  RInv'
<1>1. /\ TypeOK /\ Calls /\ CallsOK /\ Held /\ Closings
      /\ pc[t] \in {"enter", "wait"} /\ ~Reading(t)
      /\ call[t].f \in Files /\ call[t].r \in Regions /\ "out" \in fds[call[t].f]
  BY DEF RInv, CallsOK, LockGranted, TryLock, Entered, Refused, Reading
<1>2. PICK f \in Files, r \in Regions : f = call[t].f /\ r = call[t].r
  BY <1>1
<1>3. /\ Goto(t, "idle", NoCall)
      /\ valid' = [valid EXCEPT ![f] = valid[f] \cup {r}]
      /\ granted' = [granted EXCEPT ![f] = granted[f] \cup {r}]
      /\ table' = table \cup {<<f, r>>}
      /\ UNCHANGED <<state, doc, fds, other, at, seen, sdirent, crowded, faults>>
  BY <1>2 DEF LockGranted, TryLock, Return, Acquire, directories, NoFault
<1>4. /\ pc' \in [Threads -> Places] /\ CallsOK' /\ call' = [u \in Threads |-> call'[u]]
      /\ pc'[t] = "idle"
      /\ \A u \in Threads : u # t => pc'[u] = pc[u] /\ call'[u] = call[u]
      /\ \A u \in Threads : Reading(u) \/ Reading(u)' => pc'[u] = pc[u] /\ call'[u] = call[u]
  BY <1>1, <1>3, ThreadGoes
<1>5. TypeOK'
  BY <1>1, <1>3, <1>4 DEF TypeOK, Calls, Places
<1>6. Calls' /\ Held'
  BY <1>1, <1>2, <1>3, <1>4 DEF TypeOK, Calls, Held
<1>7. Closings'
  BY <1>1, <1>3, <1>4 DEF Closings
<1>8. Lone' /\ ReadersGetTheirEntries'
  BY <1>3, <1>4, FilesLeaveDirectories DEF directories, NoFault
<1> QED BY <1>4, <1>5, <1>6, <1>7, <1>8 DEF RInv

(* unlock finds no lock, and gives up none.                                *)
LEMMA UnlockStep == ASSUME RInv, NEW t \in Threads, Unlock(t) PROVE RInv'
<1>1. Goto(t, "idle", NoCall) /\ ~Reading(t) /\ UNCHANGED <<files, other, directories>> /\ NoFault
  BY DEF Unlock, Return, Found, Entered, Reading, files, locks, directories, NoFault
<1> QED BY <1>1, FilesStay

(* Another process takes and gives up locks of its own.                    *)
LEMMA OtherProcessStep == ASSUME RInv, OtherProcess PROVE RInv'
<1>1. UNCHANGED <<state, doc, fds, valid, granted, table, at, seen, sdirent, crowded,
                  pc, call, faults>>
  BY DEF OtherProcess, files, locks, directories
<1>2. other' \subseteq Documents \X Regions
  BY DEF RInv, TypeOK, OtherProcess
<1>3. TypeOK' /\ Calls' /\ CallsOK' /\ Held' /\ Closings'
  BY <1>1, <1>2 DEF RInv, TypeOK, Calls, CallsOK, Held, Closings
<1>4. Lone' /\ ReadersGetTheirEntries'
  BY <1>1, FilesLeaveDirectories DEF directories, NoFault
<1> QED BY <1>3, <1>4 DEF RInv

-----------------------------------------------------------------------------
(* What a thread does that reads a directory leaves the files as they are. *)
LEMMA DirectoriesLeaveFiles ==
  ASSUME RInv, NEW t \in Threads, UNCHANGED <<files, other>>, NoFault \/ Fault,
         pc[t] \notin {"close", "enter", "wait"},
         \/ UNCHANGED <<pc, call>>
         \/ \E where \in {"idle", "copy", "take"} :
              \E c : Goto(t, where, c) /\ (where # "idle" => c.f \in Dirs),
         at' \in [Dirs -> 0 .. Entries + 1], crowded' \in BOOLEAN
  PROVE  TypeOK' /\ Calls' /\ CallsOK' /\ Held' /\ Closings'
<1>1. TypeOK /\ Calls /\ CallsOK /\ Held /\ Closings
  BY DEF RInv
<1>2. UNCHANGED <<state, doc, fds, valid, granted, table, other>>
  BY DEF files, locks
<1>3. faults' \in 0 .. MaxFaults /\ (faults' = 0 => faults = 0)
  BY <1>1, ResolverBounds DEF TypeOK, NoFault, Fault
<1>4. CASE UNCHANGED <<pc, call>>
  BY <1>1, <1>2, <1>3, <1>4 DEF TypeOK, Calls, CallsOK, Held, Closings
<1>5. ASSUME NEW where \in {"idle", "copy", "take"}, NEW c, Goto(t, where, c),
             where # "idle" => c.f \in Dirs
      PROVE  TypeOK' /\ Calls' /\ CallsOK' /\ Held' /\ Closings'
  <2>1. /\ pc' \in [Threads -> Places] /\ call' = [u \in Threads |-> call'[u]]
        /\ pc'[t] = where /\ call'[t] = c
        /\ \A u \in Threads : u # t => pc'[u] = pc[u] /\ call'[u] = call[u]
    BY <1>1, <1>5 DEF TypeOK, Calls, Goto, Places
  <2>2. TypeOK' /\ Calls'
    BY <1>1, <1>2, <1>3, <2>1 DEF TypeOK, Calls, Places
  <2>3. CallsOK'
    BY <1>1, <1>5, <2>1 DEF CallsOK
  <2>4. Held' /\ Closings'
    BY <1>1, <1>2, <1>3, <2>1, <1>5 DEF Held, Closings
  <2> QED BY <2>2, <2>3, <2>4
<1> QED BY <1>4, <1>5

(* A directory is opened, or closed when nobody reads it.                  *)
LEMMA OpenDirStep ==
  ASSUME RInv, NEW t \in Threads, NEW d \in Dirs, OpenDir(t, d) \/ CloseDir(t, d)
  PROVE  RInv'
<1>1. PICK n \in {0, 1} : at' = [at EXCEPT ![d] = n]
  BY DEF OpenDir, CloseDir
<1>2. /\ seen' = [seen EXCEPT ![d] = <<>>]
      /\ UNCHANGED <<files, other, sdirent, crowded, pc, call, faults>>
      /\ pc[t] = "idle" /\ TypeOK /\ Lone /\ ReadersGetTheirEntries
      /\ at[d] = 0 \/ n = 0
  BY <1>1 DEF OpenDir, CloseDir, Idle, RInv, TypeOK
<1>3. \A u \in Threads : Reading(u) => call[u].f # d \/ at[d] = 0
  BY DEF OpenDir, CloseDir
<1>4. n \in 0 .. Entries + 1
  BY ResolverBounds
<1>5. TypeOK' /\ Calls' /\ CallsOK' /\ Held' /\ Closings'
  BY <1>1, <1>2, <1>4, DirectoriesLeaveFiles DEF TypeOK, NoFault
<1>6. \A u \in Threads : Reading(u)' = Reading(u) /\ call'[u] = call[u] /\ pc'[u] = pc[u]
  BY <1>2 DEF Reading
<1>7. ~crowded => \A u \in Threads : Reading(u) => call[u].f # d
  <2> SUFFICES ASSUME ~crowded, NEW u \in Threads, Reading(u), call[u].f = d PROVE FALSE
    OBVIOUS
  <2>1. at[d] = 0
    BY <1>3
  <2>2. call[u].i = Len(seen[d]) + 1 /\ at[d] = call[u].i + 1 /\ Len(seen[d]) \in Nat
    BY <1>2 DEF Lone
  <2> QED BY <2>1, <2>2
<1>8. /\ seen' \in [Dirs -> Seq(Read)]
      /\ seen'[d] = <<>> /\ at'[d] = n
      /\ \A e \in Dirs : e # d => seen'[e] = seen[e] /\ at'[e] = at[e]
  BY <1>1, <1>2 DEF Lone, TypeOK
<1>9. ReadersGetTheirEntries'
  BY <1>2, <1>8 DEF ReadersGetTheirEntries
<1>10. Lone'
  <2>1. crowded => \A e \in Dirs : seen'[e] = <<>>
    BY <1>2, <1>8 DEF Lone
  <2>2. ASSUME ~crowded, NEW e \in Dirs
        PROVE  \/ at'[e] = 0 /\ seen'[e] = <<>>
               \/ at'[e] = Len(seen'[e]) + 1
               \/ \E u \in Threads : Reading(u) /\ call[u].f = e
    <3>1. CASE e = d
      BY <1>8, <3>1
    <3>2. CASE e # d
      BY <1>2, <1>8, <2>2, <3>2 DEF Lone
    <3> QED BY <3>1, <3>2
  <2>3. ASSUME ~crowded, NEW u \in Threads, Reading(u)
        PROVE  /\ call[u].i = Len(seen'[call[u].f]) + 1
               /\ at'[call[u].f] = call[u].i + 1
               /\ pc[u] = "take" => sdirent = <<call[u].f, call[u].i>>
    <3>1. call[u].f \in Dirs
      BY <2>3 DEF RInv, CallsOK, Reading
    <3> QED BY <1>2, <1>7, <1>8, <2>3, <3>1 DEF Lone
  <2> QED BY <1>2, <1>6, <1>8, <2>1, <2>2, <2>3 DEF Lone
<1> QED BY <1>5, <1>9, <1>10 DEF RInv

(* The cursor moves, and the entry is on its way.                          *)
LEMMA ReadDirStep ==
  ASSUME RInv, NEW t \in Threads, NEW d \in Dirs, ReadDir(t, d)
  PROVE  RInv'
<1>1. /\ TypeOK /\ Calls /\ Lone /\ ReadersGetTheirEntries /\ pc[t] = "idle" /\ ~Reading(t)
      /\ at[d] \in 1 .. Entries
  BY DEF RInv, ReadDir, Idle, Reading
<1>2. PICK c : c = [op |-> "readDir", f |-> d, i |-> at[d]]
  OBVIOUS
<1>3. /\ at' = [at EXCEPT ![d] = at[d] + 1] /\ Goto(t, "copy", c)
      /\ seen' = IF crowded' THEN [e \in Dirs |-> <<>>] ELSE seen
      /\ UNCHANGED <<files, other, sdirent, faults>>
  BY <1>2 DEF ReadDir, ReadCall
<1>4. crowded' \in BOOLEAN /\ (~crowded' => ~crowded /\ \A u \in Threads : ~Reading(u))
  BY DEF ReadDir
<1>5. at[d] + 1 \in 0 .. Entries + 1
  BY <1>1, ResolverBounds
<1>6. TypeOK' /\ Calls' /\ CallsOK' /\ Held' /\ Closings'
  <2>1. at' \in [Dirs -> 0 .. Entries + 1]
    BY <1>1, <1>3, <1>5 DEF TypeOK
  <2>2. c.f \in Dirs
    BY <1>2
  <2> QED BY <1>1, <1>3, <1>4, <2>1, <2>2, DirectoriesLeaveFiles DEF NoFault
<1>7. ReadersGetTheirEntries'
  <2>1. CASE crowded'
    <3>1. \A e \in Dirs : seen'[e] = <<>>
      BY <1>3, <2>1
    <3> QED BY <3>1 DEF ReadersGetTheirEntries
  <2>2. CASE ~crowded'
    BY <1>1, <1>3, <2>2 DEF ReadersGetTheirEntries
  <2> QED BY <2>1, <2>2
<1>8. Lone'
  <2>1. CASE crowded'
    <3>1. seen' \in [Dirs -> Seq(Read)] /\ \A e \in Dirs : seen'[e] = <<>>
      BY <1>3, <2>1
    <3> QED BY <2>1, <3>1 DEF Lone
  <2>2. CASE ~crowded'
    <3>1. /\ seen' = seen /\ ~crowded /\ \A u \in Threads : ~Reading(u)
          /\ seen \in [Dirs -> Seq(Read)]
      BY <1>1, <1>3, <1>4, <2>2 DEF Lone
    <3>2. \A e \in Dirs : (at[e] = 0 /\ seen[e] = <<>>) \/ at[e] = Len(seen[e]) + 1
      BY <1>1, <3>1 DEF Lone
    <3>3. at[d] = Len(seen[d]) + 1
      BY <1>1, <3>2
    <3>4. /\ pc'[t] = "copy" /\ call'[t] = c /\ \A u \in Threads : u # t => pc'[u] = pc[u]
          /\ at'[d] = at[d] + 1 /\ \A e \in Dirs : e # d => at'[e] = at[e]
      BY <1>1, <1>3 DEF TypeOK, Calls, Goto
    <3>5. \A u \in Threads : Reading(u)' <=> u = t
      BY <3>1, <3>4 DEF Reading
    <3>6. call'[t].f = d /\ call'[t].i = at[d]
      BY <1>2, <3>4
    <3> QED BY <2>2, <3>1, <3>2, <3>3, <3>4, <3>5, <3>6 DEF Lone
  <2> QED BY <2>1, <2>2
<1> QED BY <1>6, <1>7, <1>8 DEF RInv

(* A lone reader's copy is whole.                                          *)
LEMMA CopyNameStep == ASSUME RInv, NEW t \in Threads, CopyName(t) PROVE RInv'
<1>1. /\ TypeOK /\ Calls /\ Lone /\ ReadersGetTheirEntries /\ pc[t] = "copy" /\ Reading(t)
      /\ call[t].f \in Dirs
  BY DEF RInv, CallsOK, CopyName, Reading
<1>2. PICK c : c = call[t]
  OBVIOUS
<1>3. Goto(t, "take", c) /\ UNCHANGED <<files, other, at, seen, crowded, faults>>
  BY <1>2 DEF CopyName
<1>4. TypeOK' /\ Calls' /\ CallsOK' /\ Held' /\ Closings'
  BY <1>1, <1>2, <1>3, DirectoriesLeaveFiles DEF TypeOK, NoFault
<1>5. /\ pc'[t] = "take" /\ \A u \in Threads : call'[u] = call[u]
      /\ \A u \in Threads : u # t => pc'[u] = pc[u]
  BY <1>1, <1>2, <1>3 DEF TypeOK, Calls, Goto
<1>6. \A u \in Threads : Reading(u)' <=> Reading(u)
  BY <1>1, <1>5 DEF Reading
<1>7. ~crowded => sdirent' = <<call[t].f, call[t].i>>
  <2>1. ~crowded => ~\E u \in Threads \ {t} : pc[u] = "copy"
    BY <1>1 DEF Lone, Reading
  <2> QED BY <2>1 DEF CopyName
<1>8. ~crowded => \A u \in Threads : Reading(u) => u = t
  BY <1>1 DEF Lone
<1>9. Lone'
  <2>1. UNCHANGED <<at, seen, crowded>> /\ \A u \in Threads : call'[u] = call[u]
    BY <1>3, <1>5
  <2>2. ~crowded => call[t].i = Len(seen[call[t].f]) + 1 /\ at[call[t].f] = call[t].i + 1
    BY <1>1 DEF Lone
  <2>3. CASE crowded
    BY <1>1, <2>1, <2>3 DEF Lone
  <2>4. CASE ~crowded
    <3>1. \A u \in Threads : Reading(u)' <=> u = t
      BY <1>1, <1>6, <1>8, <2>4
    <3>2. \A d \in Dirs : \/ at[d] = 0 /\ seen[d] = <<>>
                          \/ at[d] = Len(seen[d]) + 1
                          \/ call[t].f = d
      BY <1>1, <1>8, <2>4 DEF Lone
    <3>3. seen \in [Dirs -> Seq(Read)]
      BY <1>1 DEF Lone
    <3> QED BY <1>7, <2>1, <2>2, <2>4, <3>1, <3>2, <3>3 DEF Lone
  <2> QED BY <2>3, <2>4
<1>10. ReadersGetTheirEntries'
  BY <1>1, <1>3 DEF ReadersGetTheirEntries
<1> QED BY <1>4, <1>9, <1>10 DEF RInv

(* What a lone reader takes is the entry that follows.                     *)
LEMMA TakeNameStep == ASSUME RInv, NEW t \in Threads, TakeName(t) PROVE RInv'
<1>1. /\ TypeOK /\ Calls /\ Lone /\ ReadersGetTheirEntries /\ pc[t] = "take" /\ Reading(t)
  BY DEF RInv, TakeName, Reading
<1>2. PICK d \in Dirs : d = call[t].f
  BY <1>1 DEF RInv, CallsOK
<1>3. Goto(t, "idle", NoCall) /\ UNCHANGED <<files, other, at, sdirent, crowded, faults>>
  BY DEF TakeName, Return
<1>4. TypeOK' /\ Calls' /\ CallsOK' /\ Held' /\ Closings'
  BY <1>1, <1>3, DirectoriesLeaveFiles DEF TypeOK, NoFault
<1>5. pc'[t] = "idle" /\ \A u \in Threads : u # t => pc'[u] = pc[u] /\ call'[u] = call[u]
  BY <1>1, <1>3 DEF TypeOK, Calls, Goto
<1>6. \A u \in Threads : Reading(u)' <=> Reading(u) /\ u # t
  BY <1>5 DEF Reading
<1>7. CASE crowded
  <2>1. seen' = seen
    BY <1>7 DEF TakeName
  <2> QED BY <1>1, <1>3, <1>4, <1>7, <2>1 DEF RInv, Lone, ReadersGetTheirEntries
<1>8. CASE ~crowded
  <2>1. PICK i : i = call[t].i
    OBVIOUS
  <2>2. /\ seen[d] \in Seq(Read) /\ i = Len(seen[d]) + 1 /\ i \in Nat /\ at[d] = i + 1
        /\ sdirent = <<d, i>> /\ \A u \in Threads : Reading(u) => u = t
    <3>1. seen[d] \in Seq(Read) /\ Len(seen[d]) \in Nat
      BY <1>1 DEF Lone
    <3>2. /\ i = Len(seen[d]) + 1 /\ at[d] = i + 1 /\ sdirent = <<d, i>>
          /\ \A u \in Threads : Reading(u) => u = t
      BY <1>1, <1>2, <1>8, <2>1 DEF Lone
    <3> QED BY <3>1, <3>2
  <2>3. /\ seen' = [seen EXCEPT ![d] = Append(seen[d], <<d, i>>)]
        /\ Append(seen[d], <<d, i>>) \in Seq(Read)
    BY <1>2, <1>8, <2>2 DEF TakeName, Read
  <2>4. /\ seen' \in [Dirs -> Seq(Read)] /\ seen'[d] = Append(seen[d], <<d, i>>)
        /\ Len(seen'[d]) = i /\ \A e \in Dirs : e # d => seen'[e] = seen[e]
    BY <1>1, <2>2, <2>3 DEF Lone
  <2>5. \A k \in 1 .. i :
          seen'[d][k] = <<d, k>> \/ (k \in 1 .. Len(seen[d]) /\ seen'[d][k] = seen[d][k])
    <3>1. \A k \in 1 .. Len(seen[d]) : Append(seen[d], <<d, i>>)[k] = seen[d][k]
      BY <2>2
    <3>2. Append(seen[d], <<d, i>>)[i] = <<d, i>>
      BY <2>2
    <3>3. \A k \in 1 .. i : k \in 1 .. Len(seen[d]) \/ k = i
      BY <2>2, LenProperties
    <3> QED BY <2>4, <3>1, <3>2, <3>3
  <2>6. ReadersGetTheirEntries'
    <3>1. faults' = faults /\ \A e \in Dirs : \A k \in 1 .. Len(seen[e]) :
                                seen[e][k] = <<e, k>> \/ (seen[e][k] = Missing /\ faults > 0)
      BY <1>1, <1>3 DEF ReadersGetTheirEntries
    <3>2. \A k \in 1 .. Len(seen'[d]) :
            seen'[d][k] = <<d, k>> \/ (seen'[d][k] = Missing /\ faults' > 0)
      BY <2>4, <2>5, <3>1
    <3>3. \A e \in Dirs : e # d => \A k \in 1 .. Len(seen'[e]) :
            seen'[e][k] = <<e, k>> \/ (seen'[e][k] = Missing /\ faults' > 0)
      BY <2>4, <3>1
    <3> QED BY <3>2, <3>3 DEF ReadersGetTheirEntries
  <2>7. Lone'
    <3>1. ~crowded' /\ at' = at /\ \A u \in Threads : ~Reading(u)'
      BY <1>3, <1>6, <1>8, <2>2
    <3>2. \A e \in Dirs \ {d} : (at[e] = 0 /\ seen[e] = <<>>) \/ at[e] = Len(seen[e]) + 1
      BY <1>1, <1>2, <1>8, <2>2 DEF Lone
    <3>3. \A e \in Dirs : (at[e] = 0 /\ seen'[e] = <<>>) \/ at[e] = Len(seen'[e]) + 1
      BY <2>2, <2>4, <3>2
    <3> QED BY <2>4, <3>1, <3>3 DEF Lone
  <2> QED BY <1>4, <2>6, <2>7 DEF RInv
<1> QED BY <1>7, <1>8

(* What is skipped stands as null where the entry would.                   *)
LEMMA ReadDirSkipsStep ==
  ASSUME RInv, NEW t \in Threads, NEW d \in Dirs, ReadDirSkips(t, d)
  PROVE  RInv'
<1>1. /\ TypeOK /\ Calls /\ Lone /\ ReadersGetTheirEntries /\ at[d] \in 1 .. Entries /\ Fault
      /\ pc[t] = "idle" /\ at' = [at EXCEPT ![d] = at[d] + 1]
      /\ UNCHANGED <<files, other, sdirent, crowded, pc, call>>
  BY DEF RInv, ReadDirSkips, Null, Idle
<1>2. at[d] + 1 \in 0 .. Entries + 1
  BY <1>1, ResolverBounds
<1>3. at' \in [Dirs -> 0 .. Entries + 1]
  BY <1>1, <1>2 DEF TypeOK
<1>4. TypeOK' /\ Calls' /\ CallsOK' /\ Held' /\ Closings'
  BY <1>1, <1>3, DirectoriesLeaveFiles DEF TypeOK
<1>5. faults' > 0
  BY <1>1, ResolverBounds DEF TypeOK, Fault
<1>6. \A u \in Threads : Reading(u)' = Reading(u) /\ call'[u] = call[u] /\ pc'[u] = pc[u]
  BY <1>1 DEF Reading
<1>7. CASE crowded
  <2>1. seen' = seen
    BY <1>7 DEF ReadDirSkips
  <2> QED BY <1>1, <1>4, <1>5, <1>6, <1>7, <2>1 DEF RInv, Lone, ReadersGetTheirEntries
<1>8. CASE ~crowded
  <2>1. /\ seen[d] \in Seq(Read) /\ at[d] = Len(seen[d]) + 1
        /\ \A u \in Threads : Reading(u) => call[u].f # d
    BY <1>1, <1>8 DEF Lone, ReadDirSkips
  <2>2. /\ seen' = [seen EXCEPT ![d] = Append(seen[d], Missing)]
        /\ Append(seen[d], Missing) \in Seq(Read)
    BY <1>8, <2>1 DEF ReadDirSkips, Read
  <2>3. /\ seen' \in [Dirs -> Seq(Read)] /\ seen'[d] = Append(seen[d], Missing)
        /\ Len(seen'[d]) = Len(seen[d]) + 1 /\ \A e \in Dirs : e # d => seen'[e] = seen[e]
    BY <1>1, <2>1, <2>2 DEF Lone
  <2>4. \A k \in 1 .. Len(seen'[d]) :
          seen'[d][k] = Missing \/ (k \in 1 .. Len(seen[d]) /\ seen'[d][k] = seen[d][k])
    <3>1. \A k \in 1 .. Len(seen[d]) : Append(seen[d], Missing)[k] = seen[d][k]
      BY <2>1
    <3>2. Append(seen[d], Missing)[Len(seen[d]) + 1] = Missing
      BY <2>1
    <3>3. \A k \in 1 .. Len(seen'[d]) : k \in 1 .. Len(seen[d]) \/ k = Len(seen[d]) + 1
      BY <2>1, <2>3, LenProperties
    <3> QED BY <2>3, <3>1, <3>2, <3>3
  <2>5. ReadersGetTheirEntries'
    <3>1. \A k \in 1 .. Len(seen'[d]) :
            seen'[d][k] = <<d, k>> \/ (seen'[d][k] = Missing /\ faults' > 0)
      BY <1>1, <1>5, <2>4 DEF ReadersGetTheirEntries
    <3>2. \A e \in Dirs : e # d => \A k \in 1 .. Len(seen'[e]) :
            seen'[e][k] = <<e, k>> \/ (seen'[e][k] = Missing /\ faults' > 0)
      BY <1>1, <1>5, <2>3 DEF ReadersGetTheirEntries
    <3> QED BY <3>1, <3>2 DEF ReadersGetTheirEntries
  <2>6. at'[d] = Len(seen'[d]) + 1 /\ \A e \in Dirs : e # d => at'[e] = at[e]
    BY <1>1, <2>1, <2>3 DEF TypeOK
  <2>7. \A u \in Threads : Reading(u) => call[u].f \in Dirs \ {d}
    BY <2>1 DEF RInv, CallsOK, Reading
  <2>8. Lone'
    <3>1. \A t1, u \in Threads : Reading(t1) /\ Reading(u) => t1 = u
      BY <1>1, <1>8 DEF Lone
    <3>2. \A u \in Threads : Reading(u) =>
            /\ call[u].i = Len(seen'[call[u].f]) + 1 /\ at'[call[u].f] = call[u].i + 1
            /\ pc[u] = "take" => sdirent = <<call[u].f, call[u].i>>
      BY <1>1, <1>8, <2>3, <2>6, <2>7 DEF Lone
    <3>3. \A e \in Dirs : \/ at'[e] = 0 /\ seen'[e] = <<>>
                          \/ at'[e] = Len(seen'[e]) + 1
                          \/ \E u \in Threads : Reading(u) /\ call[u].f = e
      BY <1>1, <1>8, <2>3, <2>6 DEF Lone
    <3> QED BY <1>1, <1>6, <1>8, <2>3, <3>1, <3>2, <3>3 DEF Lone
  <2> QED BY <1>4, <2>5, <2>8 DEF RInv
<1> QED BY <1>7, <1>8

(* A reading that finds nothing changes nothing.                           *)
LEMMA ReadDirEndStep ==
  ASSUME RInv, NEW t \in Threads, NEW d \in Dirs, ReadDirEnd(t, d)
  PROVE  RInv'
<1>1. TypeOK' /\ Calls' /\ CallsOK' /\ Held' /\ Closings'
  BY DirectoriesLeaveFiles DEF ReadDirEnd, Idle, Null, RInv, TypeOK, directories
<1>2. Lone' /\ ReadersGetTheirEntries'
  BY FilesLeaveDirectories DEF ReadDirEnd, Null
<1> QED BY <1>1, <1>2 DEF RInv

-----------------------------------------------------------------------------
(* The invariant is inductive.                                             *)
LEMMA StepRInv == RInv /\ [Next]_vars => RInv'
<1> SUFFICES ASSUME RInv, [Next]_vars PROVE RInv'
  OBVIOUS
<1>1. ASSUME NEW t \in Threads, FileCalls(t) PROVE RInv'
  <2>1. ASSUME NEW f \in Files, NEW d \in Documents, Open(t, f, d) \/ OpenHalf(t, f, d)
        PROVE  RInv'
    BY <2>1, OpenStep, OpenHalfStep
  <2>2. ASSUME NEW f \in Files, CloseHalf(t, f) \/ CloseIn(t, f) PROVE RInv'
    BY <2>2, CloseHalfStep, CloseInStep
  <2>3. ASSUME NEW f \in Files, NEW r \in Regions, NEW o, NEW shared,
               LockCall(t, f, o, r, shared)
        PROVE  RInv'
    BY <2>3, LockCallStep
  <2>4. CASE CloseOut(t) \/ LockRefused(t) \/ LockWaits(t) \/ LockFails(t) \/ TryLockBusy(t)
    BY <2>4, CloseOutStep, NoLockStep
  <2>5. CASE LockGranted(t) \/ TryLock(t) \/ Unlock(t)
    BY <2>5, LockStep, UnlockStep
  <2> QED BY <1>1, <2>1, <2>2, <2>3, <2>4, <2>5 DEF FileCalls
<1>2. ASSUME NEW t \in Threads, DirCalls(t) PROVE RInv'
  BY <1>2, OpenDirStep, ReadDirStep, ReadDirSkipsStep, ReadDirEndStep, CopyNameStep, TakeNameStep DEF DirCalls
<1>3. CASE (\E f \in Files : Collect(f)) \/ OtherProcess
  BY <1>3, CollectStep, OtherProcessStep
<1>4. CASE UNCHANGED vars
  <2>1. UNCHANGED <<state, doc, fds, valid, granted, table, other, at, seen, sdirent, crowded,
                    pc, call, faults>>
    BY <1>4 DEF vars, files, locks, directories
  <2>2. TypeOK' /\ Calls' /\ CallsOK' /\ Held' /\ Closings'
    BY <2>1 DEF RInv, TypeOK, Calls, CallsOK, Held, Closings
  <2>3. Lone' /\ ReadersGetTheirEntries'
    BY <2>1, FilesLeaveDirectories DEF directories, NoFault
  <2> QED BY <2>2, <2>3 DEF RInv
<1> QED BY <1>1, <1>2, <1>3, <1>4 DEF Next, Locking, Listing

(* It holds of every state of every behaviour.                             *)
LEMMA AlwaysRInv == Spec => []RInv
BY InitRInv, StepRInv, PTL DEF Spec

(* The resolver's files, locks and directories keep to their types; what   *)
(* the kernel has granted the Java VM takes for valid, and without faults a*)
(* file that is closed leaves no descriptor open.                          *)
THEOREM ResolverTypeOK == Spec => []TypeOK
<1>1. RInv => TypeOK
  BY DEF RInv
<1> QED BY <1>1, AlwaysRInv, PTL

(* As long as no two threads have been in resolver_readdir at a time, each *)
(* directory is read as its own entries, in order, each once, although all *)
(* go through one static entry; null stands for one of them only after the *)
(* listener has thrown an exception.                                       *)
THEOREM ResolverReadersGetTheirEntries == Spec => []ReadersGetTheirEntries
<1>1. RInv => ReadersGetTheirEntries
  BY DEF RInv
<1> QED BY <1>1, AlwaysRInv, PTL

-----------------------------------------------------------------------------
\* What a step takes away from the locks, a descriptor of the same document goes
\* with or comes with.
LocksFollow ==
  \A f \in Files :
    \/ granted[f] \subseteq granted'[f]
    \/ \E g \in Files : doc'[g] = doc[f] /\ fds'[g] # fds[g]
    \/ \E t \in Threads : /\ Unlock(t) /\ doc[call[t].f] = doc[f]
                          /\ granted[f] \ {call[t].r} \subseteq granted'[f]

(* Descriptors that are closed are of the document whose locks go.         *)
LEMMA CloseFollows ==
  ASSUME RInv, NEW f \in Files, NEW S \in SUBSET {"pfd", "out", "in"}, CloseFds(f, S), doc' = doc
  PROVE  LocksFollow
BY CloseFdsKeeps DEF LocksFollow

(* A lock is lost only when a descriptor of its document is opened or      *)
(* closed or its region of that document is unlocked, whatever files of    *)
(* other documents do with the same region.                                *)
THEOREM ResolverLocksFollowTheirDocument == Spec => LocksFollowTheirDocument
<1>1. RInv /\ [Next]_vars => [LocksFollow]_vars
  <2> SUFFICES ASSUME RInv, Next PROVE LocksFollow
    OBVIOUS
  <2>1. ASSUME NEW t \in Threads, FileCalls(t) PROVE LocksFollow
    <3>1. ASSUME NEW f \in Files, NEW d \in Documents, Open(t, f, d) PROVE LocksFollow
      <4>1. fds[f] = {} /\ fds'[f] = {"out", "in"} /\ doc'[f] = d
        BY <3>1 DEF RInv, TypeOK, Held, Open
      <4>2. \A g \in Files : granted'[g] = IF doc[g] = d THEN {} ELSE granted[g]
        BY <3>1 DEF Open, Dropped
      <4> QED BY <4>1, <4>2 DEF LocksFollow
    <3>2. ASSUME NEW f \in Files, NEW d \in Documents, OpenHalf(t, f, d) PROVE LocksFollow
      BY <3>2 DEF OpenHalf, locks, LocksFollow
    <3>3. ASSUME NEW f \in Files, CloseHalf(t, f) PROVE LocksFollow
      BY <3>3 DEF CloseHalf, locks, LocksFollow
    <3>4. ASSUME NEW f \in Files, CloseIn(t, f) PROVE LocksFollow
      <4>1. \E S \in SUBSET {"pfd", "out", "in"} : CloseFds(f, S)
        BY <3>4 DEF CloseIn
      <4> QED BY <3>4, <4>1, CloseFollows DEF CloseIn
    <3>5. CASE CloseOut(t)
      <4>1. PICK f \in Files : f = call[t].f
        BY <3>5 DEF RInv, CallsOK, CloseOut
      <4>2. \E S \in SUBSET {"pfd", "out", "in"} : CloseFds(f, S)
        BY <3>5, <4>1 DEF CloseOut, Rest
      <4> QED BY <3>5, <4>2, CloseFollows DEF CloseOut
    <3>6. ASSUME NEW f \in Files, NEW r \in Regions, NEW o, NEW shared,
                 LockCall(t, f, o, r, shared)
          PROVE  LocksFollow
      BY <3>6 DEF LockCall, files, locks, LocksFollow
    <3>7. CASE LockRefused(t) \/ LockWaits(t) \/ LockFails(t) \/ TryLockBusy(t)
      BY <3>7 DEF LockRefused, LockWaits, LockFails, TryLockBusy, files, locks, LocksFollow
    <3>8. CASE LockGranted(t) \/ TryLock(t)
      <4>1. PICK f \in Files, r \in Regions : Acquire(f, r)
        BY <3>8 DEF RInv, CallsOK, LockGranted, TryLock, Entered
      <4> QED BY <4>1 DEF RInv, Calls, Acquire, LocksFollow
    <3>9. CASE Unlock(t)
      BY <3>9 DEF Unlock, Found, locks, LocksFollow
    <3> QED
      BY <2>1, <3>1, <3>2, <3>3, <3>4, <3>5, <3>6, <3>7, <3>8, <3>9 DEF FileCalls
  <2>2. ASSUME NEW t \in Threads, DirCalls(t) PROVE LocksFollow
    <3>1. granted' = granted
      BY <2>2 DEF DirCalls, OpenDir, CloseDir, ReadDir, ReadDirSkips, ReadDirEnd, Null,
                   CopyName, TakeName, files, locks
    <3> QED BY <3>1 DEF LocksFollow
  <2>3. ASSUME NEW f \in Files, Collect(f) PROVE LocksFollow
    <3>1. \E S \in SUBSET {"pfd", "out", "in"} : CloseFds(f, S)
      BY <2>3 DEF RInv, TypeOK, Collect
    <3> QED BY <2>3, <3>1, CloseFollows DEF Collect
  <2>4. CASE OtherProcess
    BY <2>4 DEF OtherProcess, files, locks, LocksFollow
  <2> QED BY <2>1, <2>2, <2>3, <2>4 DEF Next, Locking, Listing
<1>2. LocksFollowTheirDocument <=> [][LocksFollow]_vars
  BY PTL DEF LocksFollowTheirDocument, LocksFollow
<1> QED BY <1>1, <1>2, AlwaysRInv, PTL DEF Spec
=============================================================================

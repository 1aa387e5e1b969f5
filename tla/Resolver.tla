------------------------------- MODULE Resolver -------------------------------
(***************************************************************************)
(* The bridge by which of_core reads documents of Android: threads of      *)
(* of_core call resolver_..., which calls the listener the application has *)
(* set, which calls a ResolverFile or a ResolverDir. Modelled are opening  *)
(* and closing, the locks on regions of a document, and the reading of     *)
(* directories through the static buffer of resolver_readdir.              *)
(*                                                                         *)
(* Locks are those of the kernel: one process, ours or the other, holds a  *)
(* region, and closing any descriptor of a document gives up all the locks *)
(* the process has on it.                                                  *)
(***************************************************************************)
EXTENDS Naturals, Sequences

CONSTANTS
  Threads,    (* of of_core, attached to the Java VM                         *)
  Files,      (* ResolverFile objects; each is made once                     *)
  Documents,  (* what they are opened on                                     *)
  Regions,    (* disjoint pairs of position and size                         *)
  Dirs,       (* ResolverDir objects                                         *)
  Entries,    (* bound: the number of entries of a directory                 *)
  MaxFaults   (* bound: calls of the Android framework that fail             *)

ASSUME ResolverBounds == Entries \in Nat /\ MaxFaults \in Nat

VARIABLES
  state,    (* of each file: "none", "whole", "half", "closing" or "gone"    *)
  doc,      (* the document of each file                                     *)
  fds,      (* its descriptors: "pfd" is that of the listener                *)
  valid,    (* regions it has a FileLock for that the Java VM takes as valid *)
  granted,  (* regions it has a lock of the kernel for                       *)
  table,    (* hashtable, static: pairs of the file of a lock and its region *)
  other,    (* documents and regions another process has locked              *)
  at,       (* the cursor of each directory, 0 if closed                     *)
  seen,     (* history: what its readers have got, until crowded             *)
  sdirent,  (* static: the entry resolver_readdir copied last                *)
  pc, call, (* of each thread                                                *)
  faults,
  crowded   (* history: two threads have been in resolver_readdir at a time  *)

locks == <<valid, granted, table>>
files == <<state, doc, fds, locks>>
directories == <<at, seen, sdirent, crowded>>
vars == <<files, other, directories, pc, call, faults>>

NoCall == [op |-> "none", f |-> "none"]
\* setResolverListener has been called.
Init ==
  /\ state = [f \in Files |-> "none"] /\ doc = [f \in Files |-> "none"]
  /\ fds = [f \in Files |-> {}]
  /\ valid = [f \in Files |-> {}] /\ granted = [f \in Files |-> {}] /\ table = {}
  /\ other = {}
  /\ at = [d \in Dirs |-> 0] /\ seen = [d \in Dirs |-> <<>>] /\ sdirent = <<>> /\ crowded = FALSE
  /\ pc = [t \in Threads |-> "idle"] /\ call = [t \in Threads |-> NoCall]
  /\ faults = 0

Fault == faults < MaxFaults /\ faults' = faults + 1
NoFault == UNCHANGED faults
Idle(t) == pc[t] = "idle"
Goto(t, where, c) == pc' = [pc EXCEPT ![t] = where] /\ call' = [call EXCEPT ![t] = c]
Return(t) == Goto(t, "idle", NoCall)

-----------------------------------------------------------------------------
\* The locks on regions that are left when a descriptor of d is closed.
Dropped(d) == [f \in Files |-> IF doc[f] = d THEN {} ELSE granted[f]]
\* Descriptors S of f are closed, and with "out" the channel that locks.
CloseFds(f, S) ==
  /\ fds' = [fds EXCEPT ![f] = @ \ S]
  /\ granted' = IF S \cap fds[f] = {} THEN granted ELSE Dropped(doc[f])
  /\ valid' = IF "out" \in S THEN [valid EXCEPT ![f] = {}] ELSE valid

(* resolver_open: the ResolverFile has two duplicates of the descriptor of *)
(* the listener, which it closes.                                          *)
Open(t, f, d) ==
  /\ Idle(t) /\ state[f] = "none"
  /\ state' = [state EXCEPT ![f] = "whole"] /\ doc' = [doc EXCEPT ![f] = d]
  /\ fds' = [fds EXCEPT ![f] = {"out", "in"}] /\ granted' = Dropped(d)
  /\ UNCHANGED <<valid, table, other, directories, pc, call, faults>>

(* A duplicate cannot be made, or the descriptor not closed: the           *)
(* constructor says so and the file is returned as it is.                  *)
OpenHalf(t, f, d) ==
  /\ Idle(t) /\ state[f] = "none" /\ Fault /\ doc' = [doc EXCEPT ![f] = d]
  /\ \E S \in {{"pfd"}, {"pfd", "out"}, {"pfd", "out", "in"}} :
       /\ fds' = [fds EXCEPT ![f] = S]
       /\ state' = [state EXCEPT ![f] = IF "in" \in S THEN "whole" ELSE "half"]
  /\ UNCHANGED <<locks, other, directories, pc, call>>

Delete(f) == state' = [state EXCEPT ![f] = "gone"]

(* resolver_close. A file without its streams throws a NullPointerException *)
(* that nobody catches but resolver_close.                                 *)
CloseHalf(t, f) ==
  /\ Idle(t) /\ state[f] = "half" /\ Delete(f)
  /\ UNCHANGED <<doc, fds, locks, other, directories, pc, call, faults>>

CloseIn(t, f) ==
  /\ Idle(t) /\ state[f] = "whole"
  /\ \/ /\ NoFault /\ CloseFds(f, {"in"}) /\ state' = [state EXCEPT ![f] = "closing"]
        /\ Goto(t, "close", [op |-> "close", f |-> f])
     \/ \* fis.close() throws: fos is not closed
        /\ Fault /\ Delete(f) /\ UNCHANGED <<pc, call>>
        /\ \E S \in SUBSET {"in"} : CloseFds(f, S)
  /\ UNCHANGED <<doc, table, other, directories>>

\* Mutant: close() does not close fos.
InOnly == {}
Rest == {"out"}

CloseOut(t) ==
  /\ pc[t] = "close" /\ Delete(call[t].f)
  /\ \/ NoFault /\ CloseFds(call[t].f, Rest)
     \/ Fault /\ \E S \in SUBSET {"out"} : CloseFds(call[t].f, S)
  /\ Return(t) /\ UNCHANGED <<doc, table, other, directories>>

(* The garbage collector closes what a file has left open, but for the     *)
(* stream of a lock that hashtable still has.                              *)
Collect(f) ==
  /\ state[f] = "gone" /\ \A t \in Threads : call[t].f # f
  /\ \E S \in SUBSET fds[f] \ {{}} :
       ("out" \in S => \A e \in table : e[1] # f) /\ CloseFds(f, S)
  /\ UNCHANGED <<state, doc, table, other, directories, pc, call, faults>>

-----------------------------------------------------------------------------
\* resolver_lock, resolver_trylock and resolver_unlock
LockCall(t, f, o, r, shared) ==
  /\ Idle(t) /\ state[f] \in {"whole", "half"}
  /\ Goto(t, "enter", [op |-> o, f |-> f, r |-> r, shared |-> shared])
  /\ UNCHANGED <<files, other, directories, faults>>

\* lock, trylock and unlock are synchronized: nobody else is in lock.
Entered(t) ==
  /\ pc[t] = "enter"
  /\ \A u \in Threads : pc[u] = "wait" => call[u].f # call[t].f
\* This program has, or waits for, a lock on the region.
Overlaps(f, r) ==
  \E g \in Files : /\ doc[g] = doc[f]
                   /\ \/ r \in valid[g]
                      \/ \E u \in Threads : pc[u] = "wait" /\ call[u].f = g /\ call[u].r = r
\* An exception instead of a lock: the channel is closed, or only writes.
Refused(c) == "out" \notin fds[c.f] \/ c.shared \/ Overlaps(c.f, c.r)
Busy(c) == <<doc[c.f], c.r>> \in other

Acquire(f, r) ==
  /\ valid' = [valid EXCEPT ![f] = @ \cup {r}] /\ granted' = [granted EXCEPT ![f] = @ \cup {r}]
  /\ table' = table \cup {<<f, r>>}
  /\ UNCHANGED <<state, doc, fds, other, directories>>

LockRefused(t) ==
  /\ Entered(t) /\ call[t].op \in {"lock", "tryLock"} /\ Refused(call[t])
  /\ Return(t) /\ UNCHANGED <<files, other, directories, faults>>

LockWaits(t) ==
  /\ Entered(t) /\ call[t].op = "lock" /\ ~Refused(call[t])
  /\ Goto(t, "wait", call[t]) /\ UNCHANGED <<files, other, directories, faults>>

LockGranted(t) ==
  /\ pc[t] = "wait" /\ "out" \in fds[call[t].f] /\ ~Busy(call[t])
  /\ Acquire(call[t].f, call[t].r) /\ Return(t) /\ NoFault

\* The file is closed while its lock is waited for, or the kernel refuses.
LockFails(t) ==
  /\ pc[t] = "wait" /\ (("out" \notin fds[call[t].f] /\ NoFault) \/ Fault)
  /\ Return(t) /\ UNCHANGED <<files, other, directories>>

(* tryLock returns null, which hashtable throws a NullPointerException at, *)
(* or the kernel refuses. resolver_trylock returns 0 all the same.         *)
TryLockBusy(t) ==
  /\ Entered(t) /\ call[t].op = "tryLock" /\ ~Refused(call[t])
  /\ (Busy(call[t]) /\ NoFault) \/ Fault
  /\ Return(t) /\ UNCHANGED <<files, other, directories>>

TryLock(t) ==
  /\ Entered(t) /\ call[t].op = "tryLock" /\ ~Refused(call[t]) /\ ~Busy(call[t])
  /\ Acquire(call[t].f, call[t].r) /\ Return(t) /\ NoFault

\* Mutant: keys are equal when position and size are.
SameRegion(r) == {e \in table : e[2] = r}
(* A HashKey is equal to itself only: its equals does not override that of *)
(* Object, and no lock is found.                                           *)
Found(r) == {e \in table : FALSE}

Unlock(t) ==
  /\ Entered(t) /\ call[t].op = "unlock"
  /\ \/ Found(call[t].r) = {} /\ UNCHANGED locks
     \/ \E e \in Found(call[t].r) :
          /\ table' = table \ {e}
          /\ valid' = [valid EXCEPT ![e[1]] = @ \ {e[2]}]
          /\ granted' = [granted EXCEPT ![e[1]] = @ \ {e[2]}]
  /\ Return(t) /\ UNCHANGED <<state, doc, fds, other, directories, faults>>

\* Another process, on any region we do not have.
OtherProcess ==
  /\ \E d \in Documents, r \in Regions :
       \/ /\ \A f \in Files : doc[f] = d => r \notin granted[f]
          /\ other' = other \cup {<<d, r>>}
       \/ other' = other \ {<<d, r>>}
  /\ UNCHANGED <<files, directories, pc, call, faults>>

-----------------------------------------------------------------------------
Reading(u) == pc[u] \in {"copy", "take"}

OpenDir(t, d) ==
  /\ Idle(t) /\ at[d] = 0
  /\ at' = [at EXCEPT ![d] = 1] /\ seen' = [seen EXCEPT ![d] = <<>>]
  /\ UNCHANGED <<files, other, sdirent, crowded, pc, call, faults>>

CloseDir(t, d) ==
  /\ Idle(t) /\ at[d] # 0 /\ \A u \in Threads : Reading(u) => call[u].f # d
  /\ at' = [at EXCEPT ![d] = 0] /\ seen' = [seen EXCEPT ![d] = <<>>]
  /\ UNCHANGED <<files, other, sdirent, crowded, pc, call, faults>>

Missing == <<"null">>
ReadCall(d, i) == [op |-> "readDir", f |-> d, i |-> i]
(* resolver_readdir, by one thread at a time for one directory: the        *)
(* listener moves the cursor and returns the entry.                        *)
ReadDir(t, d) ==
  /\ Idle(t) /\ at[d] \in 1 .. Entries /\ \A u \in Threads : Reading(u) => call[u].f # d
  /\ at' = [at EXCEPT ![d] = @ + 1] /\ Goto(t, "copy", ReadCall(d, at[d]))
  /\ crowded' = (crowded \/ \E u \in Threads : Reading(u))
  /\ seen' = IF crowded' THEN [e \in Dirs |-> <<>>] ELSE seen
  /\ UNCHANGED <<files, other, sdirent, faults>>

\* Its name is copied into sdirent; two copies at a time may mix.
CopyName(t) ==
  /\ pc[t] = "copy" /\ Goto(t, "take", call[t])
  /\ \/ sdirent' = <<call[t].f, call[t].i>>
     \/ (\E u \in Threads \ {t} : pc[u] = "copy") /\ sdirent' = <<"torn">>
  /\ UNCHANGED <<files, other, at, seen, crowded, faults>>

\* of_core takes it from there.
TakeName(t) ==
  /\ pc[t] = "take"
  /\ seen' = IF crowded THEN seen ELSE [seen EXCEPT ![call[t].f] = Append(@, sdirent)]
  /\ Return(t) /\ UNCHANGED <<files, other, at, sdirent, crowded, faults>>

\* Mutant: the buffer is returned whether or not there is an entry.
Buffer(t, d) == Goto(t, "take", ReadCall(d, at[d]))
Null(t, d) == UNCHANGED <<pc, call>>

(* The listener throws an exception after moveToNext, where the name is    *)
(* read: of_core gets null, and the next call goes on with the next entry. *)
ReadDirSkips(t, d) ==
  /\ Idle(t) /\ at[d] \in 1 .. Entries /\ \A u \in Threads : Reading(u) => call[u].f # d
  /\ Fault /\ at' = [at EXCEPT ![d] = @ + 1] /\ Null(t, d)
  /\ seen' = IF crowded THEN seen ELSE [seen EXCEPT ![d] = Append(@, Missing)]
  /\ UNCHANGED <<files, other, sdirent, crowded>>

\* No entry is left, or the listener has thrown an exception before moveToNext.
ReadDirEnd(t, d) ==
  /\ Idle(t) /\ at[d] # 0 /\ \A u \in Threads : Reading(u) => call[u].f # d
  /\ (at[d] > Entries /\ NoFault) \/ Fault
  /\ Null(t, d) /\ UNCHANGED <<files, other, directories>>

-----------------------------------------------------------------------------
FileCalls(t) ==
  \/ \E f \in Files :
       \/ \E d \in Documents : Open(t, f, d) \/ OpenHalf(t, f, d)
       \/ CloseHalf(t, f) \/ CloseIn(t, f)
       \/ \E r \in Regions : \/ LockCall(t, f, "unlock", r, FALSE)
                            \/ \E shared \in BOOLEAN, o \in {"lock", "tryLock"} : LockCall(t, f, o, r, shared)
  \/ CloseOut(t)
  \/ LockRefused(t) \/ LockWaits(t) \/ LockGranted(t) \/ LockFails(t)
  \/ TryLockBusy(t) \/ TryLock(t) \/ Unlock(t)

DirCalls(t) ==
  \/ \E d \in Dirs : OpenDir(t, d) \/ CloseDir(t, d) \/ ReadDir(t, d) \/ ReadDirSkips(t, d)
                       \/ ReadDirEnd(t, d)
  \/ CopyName(t) \/ TakeName(t)

Locking ==
  \/ \E t \in Threads : FileCalls(t)
  \/ \E f \in Files : Collect(f)
  \/ OtherProcess
Listing == \E t \in Threads : DirCalls(t)

Next == Locking \/ Listing

Spec == Init /\ [][Next]_vars

-----------------------------------------------------------------------------
(* Type correctness; the Java VM takes for valid all that the kernel has   *)
(* granted, and a file whose calls have all succeeded leaves no descriptor *)
(* open when resolver_close returns.                                       *)
TypeOK ==
  /\ state \in [Files -> {"none", "whole", "half", "closing", "gone"}]
  /\ doc \in [Files -> Documents \cup {"none"}]
  /\ fds \in [Files -> SUBSET {"pfd", "out", "in"}]
  /\ valid \in [Files -> SUBSET Regions]
  /\ \A f \in Files : /\ granted[f] \subseteq valid[f]
                      /\ faults = 0 /\ state[f] = "gone" => fds[f] = {}
  /\ table \subseteq Files \X Regions /\ other \subseteq Documents \X Regions
  /\ at \in [Dirs -> 0 .. Entries + 1]
  /\ pc \in [Threads -> {"idle", "close", "enter", "wait", "copy", "take"}]
  /\ faults \in 0 .. MaxFaults /\ crowded \in BOOLEAN

(* A lock is lost only when a descriptor of the same document is opened or *)
(* closed, or its region of that document is unlocked, never by a call for *)
(* another document, although hashtable is one for all files and its keys  *)
(* name a region and no file.                                              *)
LocksFollowTheirDocument ==
  [][\A f \in Files :
       \/ granted[f] \subseteq granted'[f]
       \/ \E g \in Files : doc'[g] = doc[f] /\ fds'[g] # fds[g]
       \/ \E t \in Threads : /\ Unlock(t) /\ doc[call[t].f] = doc[f]
                             /\ granted[f] \ {call[t].r} \subseteq granted'[f]]_vars

(* As long as no two threads have been in resolver_readdir at a time, each *)
(* directory is read as its own entries, in order, each once; null stands  *)
(* for one of them only after the listener has thrown an exception.        *)
ReadersGetTheirEntries ==
  \A d \in Dirs : \A i \in 1 .. Len(seen[d]) :
    seen[d][i] = <<d, i>> \/ (seen[d][i] = Missing /\ faults > 0)
=============================================================================

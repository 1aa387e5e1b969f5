--------------------------- MODULE DirectoryStream --------------------------
(***************************************************************************)
(* FileDirectoryStream, the Directory it reads and the native findFile and *)
(* findClose: a background search of a directory whose entries are queued  *)
(* for a consumer.                                                         *)
(*                                                                         *)
(* The search runs in a thread of its own (findFiles, inside a             *)
(* FutureTask); the consumer's thread calls getListing and close at any    *)
(* time. The two share the fields state, lastError,                        *)
(* fileLinkedBlockingQueue and fileTask without a lock, so each read and   *)
(* each write of one of these fields is a step of its own.                 *)
(***************************************************************************)
EXTENDS Integers, SequencesExt

CONSTANTS
  Directories,  (* directories: sequences of "file" and "hidden" entries     *)
  Batch         (* 10: the consumer is told after Batch + 1 more entries     *)

ASSUME DirectoriesAssumption == Directories \subseteq Seq({"file", "hidden"})
ASSUME BatchAssumption == Batch \in Nat

VARIABLES
  entries,    (* the directory: "." and ".." count as hidden                 *)
  sought,     (* what the search goes through: the directory, once known to  *)
              (* be one, or else the path itself as the only entry           *)
  pos,        (* entries of sought the server has delivered                  *)
  failed,     (* the request whose failure the search took for an answer     *)
  handle,     (* the search handle in Directory: "invalid" (-1) or "open"    *)
  pc,         (* where the search thread is in findFiles                     *)
  file,       (* local: the entry found, 0 for null                          *)
  count,      (* local: entries since the last notification                  *)
  thrown,     (* the exception on its way out of findFiles                   *)
  task,       (* the FutureTask: "new" until run or cancelled                *)
  fileTask,   (* whether the field fileTask still refers to it               *)
  hasQueue,   (* whether the field fileLinkedBlockingQueue is not null       *)
  queue,      (* the entries queued, as positions in sought                  *)
  state,      (* LOADING or FRESH                                            *)
  lastError,  (* whether lastError has been set                              *)
  closing,    (* steps of close() the consumer has taken                     *)
  listing,    (* what the last getListing returned or threw                  *)
  unseen      (* entries queued since the consumer was last notified         *)

search == <<entries, sought, pos, failed, handle, file>>
shared == <<task, fileTask, hasQueue, queue, state, lastError>>
consumer == <<closing, listing>>
vars == <<search, pc, count, thrown, shared, consumer, unseen>>

Exceptions == {"SecurityException", "FileNotFoundException"}

Init ==
  /\ entries \in Directories /\ sought = <<>> /\ pos = 0 /\ failed = "none"
  /\ handle = "invalid"
  /\ pc = "started" /\ file = 0 /\ count = 0 /\ thrown = "none"
  /\ task = "new" /\ fileTask = TRUE /\ hasQueue = TRUE /\ queue = <<>>
  /\ state = "LOADING" /\ lastError = FALSE
  /\ closing = 0 /\ listing = [kind |-> "none", files |-> <<>>] /\ unseen = 0

-----------------------------------------------------------------------------
Goto(p) == pc' = p

Visible(k) == sought[k] = "file"

\* FutureTask.run: a task cancelled before it runs never calls findFiles.
Run ==
  /\ pc = "started"
  /\ IF task = "new" THEN Goto("ask") ELSE Goto("finished")
  /\ UNCHANGED <<search, count, thrown, shared, consumer, unseen>>

(* The first findFile asks for the attributes of the path. Unless they say *)
(* directory, the path is searched without the wildcard and finds itself;  *)
(* a request that fails is not told from an answer.                        *)
Ask ==
  /\ pc = "ask"
  /\ \/ sought' = entries /\ UNCHANGED failed
     \/ sought' \in {<<"file">>, <<"hidden">>} /\ failed' = "attributes"
  /\ Goto("find")
  /\ UNCHANGED <<entries, pos, handle, file, count, thrown, shared, consumer, unseen>>

\* Mutant: the error string is not fetched.
KeepError == UNCHANGED lastError
\* lastError = dir.getLastErrorString()
RecordError == lastError' = TRUE

(* OfcFindFirstFileW has failed: findFile throws, the handle stays -1, and *)
(* the catch block of findFiles begins.                                    *)
FindFirstFails ==
  /\ pc = "find" /\ handle = "invalid"
  /\ \E e \in Exceptions : thrown' = e
  /\ RecordError
  /\ Goto("fresh")
  /\ UNCHANGED <<search, count, task, fileTask, hasQueue, queue, state, consumer,
                 unseen>>

\* Mutant: entries are skipped for being hidden only when they come first.
FoundUnlessFirst(k) == k \in pos + 1 .. Len(sought) /\ (pos = 0 => Visible(k))
                       /\ \A j \in pos + 1 .. k - 1 : ~Visible(j)

\* The next entry a search at pos finds: hidden ones are passed over.
Found(k) == /\ k \in pos + 1 .. Len(sought) /\ Visible(k)
            /\ \A j \in pos + 1 .. k - 1 : ~Visible(j)

(* findFile: opens the search if need be and returns the next entry. There *)
(* is a first entry whenever FindFirst succeeds.                           *)
FindEntry ==
  /\ pc = "find"
  /\ \E k \in 1 .. Len(sought) : Found(k) /\ pos' = k /\ file' = k
  /\ handle' = "open"
  /\ Goto("check")
  /\ UNCHANGED <<entries, sought, failed, count, thrown, shared, consumer, unseen>>

(* findFile returns null: the entries are used up, or FindNext fails for   *)
(* another reason, which the code does not tell apart.                     *)
FindNothing ==
  /\ pc = "find" /\ Len(sought) > 0
  /\ LET Left == \E k \in pos + 1 .. Len(sought) : Visible(k)
     IN  /\ Left => handle = "open" \/ ~Visible(1)
         /\ failed' = IF Left THEN "next" ELSE failed
         /\ pos' = IF Left THEN pos ELSE Len(sought)
  /\ file' = 0
  /\ handle' = "open"
  /\ Goto("fresh")
  /\ UNCHANGED <<entries, sought, count, thrown, shared, consumer, unseen>>

\* A null field is dereferenced: the exception leaves findFiles uncaught.
NullPointer ==
  /\ thrown' = "NullPointerException"
  /\ Goto("leave")
  /\ UNCHANGED <<search, count, shared, consumer, unseen>>

\* fileTask.isCancelled()
Check ==
  /\ pc = "check" /\ fileTask
  /\ Goto(IF task = "cancelled" THEN "counted" ELSE "offer")
  /\ UNCHANGED <<search, count, thrown, shared, consumer, unseen>>
CheckNull == pc = "check" /\ ~fileTask /\ NullPointer

\* Mutant: the newest entry goes to the front.
Pushed == <<file>> \o queue
Offered == Append(queue, file)

\* fileLinkedBlockingQueue.offer(file)
Offer ==
  /\ pc = "offer" /\ hasQueue
  /\ queue' = Offered /\ unseen' = unseen + 1
  /\ Goto("counted")
  /\ UNCHANGED <<search, count, thrown, task, fileTask, hasQueue, state, lastError,
                 consumer>>
OfferNull == pc = "offer" /\ ~hasQueue /\ NullPointer

\* Mutant: the count is only reset, never compared.
NotDue == FALSE
\* count++ >= 10
Due == count >= Batch

\* The listener is notified after every Batch + 1 entries, and not otherwise.
Count ==
  /\ pc = "counted"
  /\ IF Due THEN count' = 0 /\ unseen' = 0 ELSE count' = count + 1 /\ UNCHANGED unseen
  /\ Goto("find")
  /\ UNCHANGED <<search, thrown, shared, consumer>>

\* state = State.FRESH
SetFresh ==
  /\ pc = "fresh"
  /\ state' = "FRESH"
  /\ Goto("close")
  /\ UNCHANGED <<search, count, thrown, task, fileTask, hasQueue, queue, lastError,
                 consumer, unseen>>

\* Mutant: the handle is left alone.
KeepHandle == UNCHANGED handle
\* findClose: a handle other than -1 is closed and forgotten.
CloseHandle == handle' = "invalid"

\* dir.close()
CloseDirectory ==
  /\ pc = "close"
  /\ CloseHandle
  /\ Goto("last")
  /\ UNCHANGED <<entries, sought, pos, failed, file, count, thrown, shared, consumer,
                 unseen>>

\* Mutant: the last entries are not announced.
Silent == UNCHANGED unseen
\* listener.onNotifyEvent()
Notify == unseen' = 0

\* The last listener.onNotifyEvent().
NotifyLast ==
  /\ pc = "last"
  /\ Notify
  /\ Goto("leave")
  /\ UNCHANGED <<search, count, thrown, shared, consumer>>

\* findFiles returns or throws: FutureTask keeps the outcome unless cancelled.
Leave ==
  /\ pc = "leave"
  /\ task' = IF task # "new" THEN task ELSE IF thrown = "none" THEN "ran" ELSE "failed"
  /\ Goto("finished")
  /\ UNCHANGED <<search, count, thrown, fileTask, hasQueue, queue, state, lastError,
                 consumer, unseen>>

FindFiles ==
  \/ Run \/ Ask \/ FindFirstFails \/ FindEntry \/ FindNothing \/ Check \/ CheckNull
  \/ Offer \/ OfferNull \/ Count \/ SetFresh \/ CloseDirectory \/ NotifyLast \/ Leave

-----------------------------------------------------------------------------
(* getListing, by a consumer that has not begun to close the stream: the   *)
(* exception of a search that is over, or what is queued so far.           *)
GetListing ==
  /\ closing = 0
  /\ listing' = IF task = "failed" THEN [kind |-> thrown, files |-> <<>>]
                ELSE [kind |-> "array", files |-> queue]
  /\ UNCHANGED <<search, pc, count, thrown, shared, closing, unseen>>

\* close(): fileTask.cancel(true), which a task that is over ignores.
CloseCancel ==
  /\ closing = 0
  /\ task' = IF task = "new" THEN "cancelled" ELSE task
  /\ closing' = 1
  /\ UNCHANGED <<search, pc, count, thrown, fileTask, hasQueue, queue, state,
                 lastError, listing, unseen>>

\* fileLinkedBlockingQueue.clear()
CloseClear ==
  /\ closing = 1 /\ closing' = 2
  /\ queue' = <<>>
  /\ UNCHANGED <<search, pc, count, thrown, task, fileTask, hasQueue, state,
                 lastError, listing, unseen>>

CloseQueue ==
  /\ closing = 2 /\ closing' = 3
  /\ hasQueue' = FALSE
  /\ UNCHANGED <<search, pc, count, thrown, task, fileTask, queue, state, lastError,
                 listing, unseen>>

CloseTask ==
  /\ closing = 3 /\ closing' = 4
  /\ fileTask' = FALSE
  /\ UNCHANGED <<search, pc, count, thrown, task, hasQueue, queue, state, lastError,
                 listing, unseen>>

Close == CloseCancel \/ CloseClear \/ CloseQueue \/ CloseTask

\* The search is over and the stream is closed.
Over == pc = "finished" /\ closing = 4 /\ UNCHANGED vars

Next == FindFiles \/ GetListing \/ Close \/ Over

(* The search thread runs, and a consumer that began to close goes on. No  *)
(* consumer has to ask for a listing or to close the stream.               *)
Fairness == WF_vars(FindFiles) /\ WF_vars(CloseClear \/ CloseQueue \/ CloseTask)

Spec == Init /\ [][Next]_vars /\ Fairness

-----------------------------------------------------------------------------
(* Type correctness.                                                       *)
TypeOK ==
  /\ entries \in Directories /\ sought \in Seq({"file", "hidden"})
  /\ pos \in 0 .. Len(sought) /\ failed \in {"none", "attributes", "next"}
  /\ handle \in {"invalid", "open"} /\ file \in 0 .. Len(sought)
  /\ pc \in {"started", "ask", "find", "check", "offer", "counted", "fresh", "close",
             "last", "leave", "finished"}
  /\ count \in 0 .. Batch
  /\ thrown \in Exceptions \cup {"none", "NullPointerException"}
  /\ task \in {"new", "ran", "failed", "cancelled"}
  /\ fileTask \in BOOLEAN /\ hasQueue \in BOOLEAN /\ lastError \in BOOLEAN
  /\ queue \in Seq(1 .. Len(sought)) /\ state \in {"LOADING", "FRESH"}
  /\ closing \in 0 .. 4 /\ unseen \in 0 .. Len(sought)
  /\ listing \in [kind : Exceptions \cup {"none", "array"}, files : Seq(1 .. Len(sought))]

\* The queue holds those of the first n entries sought that a listing shows,
\* each once and in the server's order.
Holds(n) ==
  /\ \A a, b \in 1 .. Len(queue) : a < b => queue[a] < queue[b]
  /\ \A k \in 1 .. Len(sought) :
       (\E a \in 1 .. Len(queue) : queue[a] = k) <=> k <= n /\ Visible(k)

(* What a stream holds that says FRESH, without an exception, after a      *)
(* search nobody disturbed: every entry of the directory that is to be     *)
(* shown, once, in the server's order, with the state published after the  *)
(* last of them; only the first of them if FindNext has failed; and the    *)
(* directory itself, or nothing, if its attributes could not be asked for. *)
FreshIsComplete ==
  closing = 0 /\ state = "FRESH" /\ thrown = "none" =>
    /\ IF failed = "attributes" THEN Len(sought) = 1 ELSE sought = entries
    /\ Holds(IF failed = "next" THEN pos ELSE Len(sought))

(* A search that failed has its error in place before it says FRESH, and   *)
(* once it is over getListing throws it instead of returning nothing.      *)
FailureIsReported ==
  /\ state = "FRESH" /\ thrown \in Exceptions => lastError
  /\ closing = 0 /\ pc = "finished" /\ thrown # "none" => task = "failed"

(* Successive listings of a stream only grow at the end, until the search  *)
(* fails: no entry shown before disappears or moves.                       *)
ListingsGrow ==
  [][listing'.kind = "array" =>
       /\ listing.kind \in {"none", "array"}
       /\ IsPrefix(listing.files, listing'.files)]_listing

(* The search handle outlives the search only when close() took the queue  *)
(* or the task away from under it; a stream left open never leaks it.      *)
HandleReleased ==
  pc = "finished" /\ handle = "open" =>
    thrown = "NullPointerException" /\ closing >= 3

(* A stream that is not closed becomes FRESH and tells its consumer after  *)
(* the last entry has been queued.                                         *)
ConsumerIsTold ==
  <>(closing > 0 \/ (state = "FRESH" /\ unseen = 0 /\ pc = "finished"))
=============================================================================

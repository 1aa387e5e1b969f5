------------------------------- MODULE FileOps -------------------------------
(***************************************************************************)
(* com.connectedway.io.File and the native methods of FileSystem behind    *)
(* it: an application thread that makes, removes, renames and lists files  *)
(* on a server other clients change. Each request to the server is a step. *)
(* What a File keeps of its path between calls is the matter of FileCache. *)
(***************************************************************************)
EXTENDS FileServer

CONSTANT Hidden     (* paths of hidden files, which listings leave out       *)

ASSUME HiddenAssumption == Hidden \subseteq Paths

VARIABLES
  pc,        (* where the call under way is, "idle" between calls            *)
  target,    (* the path it is made on, the root when there is none          *)
  at,        (* mkdirs: the path of the innermost call under way             *)
  attr,      (* mkdirs: the attributes cached by the parent Files it made    *)
  todo,      (* listing: entries the search has yet to pass                  *)
  found,     (* listing: the entries queued in hList, with their kinds       *)
  answer,    (* the call made last, and what it returned                     *)
  recent,    (* history: kinds at each path since the call began             *)
  made, removed,  (* history: paths the call has made, and removed           *)
  before,    (* history: what mkdirs had to make when it began               *)
  calm,      (* history: no fault, no other client since the call began      *)
  failed     (* history: a request of the call has failed                    *)

locals == <<at, attr, todo, found>>
history == <<recent, made, removed, before, calm, failed>>
vars == <<server, pc, target, locals, answer, history>>

Known == Kinds \cup {"unset"}
NoAttributes == [p \in Paths \cup {Root} |-> "unset"]
Listings == {"list", "listFiles"}
NoAnswer == [op |-> "none", ret |-> "none"]
\* What is at each path, as the history of a call that begins.
Now == [p \in Paths |-> {tree[p]}]

Init ==
  /\ ServerInit
  /\ pc = "idle" /\ target = Root /\ at = Root
  /\ attr = NoAttributes /\ todo = {} /\ found = {} /\ answer = NoAnswer
  /\ recent = Now
  /\ made = {} /\ removed = {} /\ before = {} /\ calm = FALSE
  /\ failed = FALSE

-----------------------------------------------------------------------------
\* Histories.
Watch == recent' = [p \in Paths |-> recent[p] \cup {tree'[p]}]
Record ==
  /\ Watch
  /\ calm' = (calm /\ faults' = faults) /\ failed' = (failed \/ faults' # faults)
  /\ made' = made \cup {p \in Paths : tree[p] = "none" /\ tree'[p] # "none"}
  /\ removed' = removed \cup {p \in Paths : tree[p] # "none" /\ tree'[p] = "none"}
  /\ UNCHANGED before

\* The call made last is over and done with.
Forget ==
  /\ target' = Root /\ at' = Root /\ answer' = NoAnswer
  /\ attr' = NoAttributes /\ todo' = {} /\ found' = {}
  /\ recent' = Now /\ made' = {} /\ removed' = {} /\ before' = {} /\ calm' = FALSE
  /\ failed' = FALSE

Return(o, r) == pc' = "idle" /\ answer' = [op |-> o, ret |-> r]
Goto(p) == pc' = p /\ UNCHANGED answer
Bool(ok) == IF ok THEN "true" ELSE "false"

\* get_boolean_attributes(p) gives k: no attributes when the request fails.
Attributes(p, k) ==
  /\ UNCHANGED <<tree, doomed, changes>>
  /\ (k = KindIn(tree, p) /\ NoFault) \/ (k = "none" /\ Fault)

Begin(p, start) ==
  /\ pc = "idle" /\ Goto(start)
  /\ target' = p /\ at' = p
  /\ attr' = NoAttributes /\ todo' = {} /\ found' = {}
  /\ recent' = Now /\ made' = {} /\ removed' = {} /\ calm' = TRUE
  /\ failed' = FALSE
  /\ UNCHANGED server

-----------------------------------------------------------------------------
(* createNewFile(), mkdir() and renameTo(): one request each. A file that  *)
(* cannot be created is reported by an exception, also when there is one.  *)
OneRequest(possible, t) ==
  /\ pc = "idle"
  /\ \E ok \in BOOLEAN : Request(possible, t, ok)
  /\ Forget /\ UNCHANGED <<pc, doomed, changes>>
CreateNewFile(p) == OneRequest(CanAdd(p), With(p, "file"))
Mkdir(p) == OneRequest(CanAdd(p), With(p, "dir"))
\* Directories that are not empty stay where they are in this model.
RenameTo(p, q) ==
  OneRequest(CanRemove(p) /\ CanAdd(q) /\ Parent[q] # p,
             [With(p, "none") EXCEPT ![q] = tree[p]])

-----------------------------------------------------------------------------
\* p and the paths above it: what every set has that has p and, below the root,
\* the parents of its members.
Lineage ==
  [p \in Paths |-> {q \in Paths : \A S \in SUBSET Paths :
     p \in S /\ (\A r \in S : Parent[r] \in S \cup {Root}) => q \in S}]
\* The directories that have to be made for p to be one.
Missing(p) == IF \E q \in Lineage[p] : tree[q] = "file" THEN {}
              ELSE {q \in Lineage[p] : tree[q] = "none"}
\* The path whose call of mkdirs called mkdirs on p.
Caller(p) == CHOOSE q \in Lineage[target] : Parent[q] = p

BeginMkdirs(p) == Begin(p, "probe") /\ before' = Missing(p)

\* Mutants: the root is not the end; a missing parent is left missing.
GoesUpAlways(q, k) == k = "none"
GoesUpNever(q, k) == FALSE
\* !parent.exists(), and parent.mkdirs() finds a parent of its own.
GoesUp(q, k) == k = "none" /\ q # Root

\* A new parent File is asked whether it exists.
MkdirsProbe ==
  /\ pc = "probe"
  /\ LET q == Parent[at] IN
     \E k \in Kinds :
       /\ Attributes(q, k)
       /\ attr' = [attr EXCEPT ![q] = k]
       /\ IF GoesUp(q, k) THEN at' = q /\ Goto("probe") ELSE at' = at /\ Goto("make")
  /\ Record
  /\ UNCHANGED <<target, todo, found>>

\* The innermost call of mkdirs returns r.
MkdirsReturns(r) ==
  IF at = target THEN at' = at /\ Return("mkdirs", r)
  ELSE at' = Caller(at) /\ Goto("make")

\* parent.isDirectory(), from its cache: mkdir() is called.
MkdirsMakes ==
  /\ pc = "make" /\ attr[Parent[at]] = "dir"
  /\ \E ok \in BOOLEAN :
       Request(CanAdd(at), With(at, "dir"), ok) /\ MkdirsReturns(Bool(ok))
  /\ Record
  /\ UNCHANGED <<doomed, changes, target, attr, todo, found>>

\* Mutant: a parent that is there will do.
ParentExists == Bool(attr[Parent[at]] # "none")
NotMade == "false"

MkdirsSkips ==
  /\ pc = "make" /\ attr[Parent[at]] # "dir"
  /\ MkdirsReturns(NotMade)
  /\ UNCHANGED server /\ Record
  /\ UNCHANGED <<target, attr, todo, found>>

-----------------------------------------------------------------------------
BeginDelete(p) == Begin(p, "kind") /\ before' = {}

\* delete asks what it is to delete.
DeleteKind ==
  /\ pc = "kind"
  /\ \E k \in Kinds :
       Attributes(target, k) /\ Goto(IF k = "dir" THEN "rmdir" ELSE "unlink")
  /\ Record /\ UNCHANGED <<target, locals>>

\* OfcDeleteFileW
DeleteFile ==
  /\ pc = "unlink"
  /\ \E ok \in BOOLEAN :
       /\ Request(tree[target] = "file", With(target, "none"), ok)
       /\ Return("delete", Bool(ok))
  /\ Record /\ UNCHANGED <<doomed, changes, target, locals>>

CanRemoveDirectory == tree[target] = "dir" /\ CanRemove(target)

\* OfcRemoveDirectoryW, whose result is overwritten.
RemoveDirectory ==
  /\ pc = "rmdir" /\ Goto("open")
  /\ \E ok \in BOOLEAN : Request(CanRemoveDirectory, With(target, "none"), ok)
  /\ Record /\ UNCHANGED <<doomed, changes, target, locals>>

\* The directory is opened to be deleted when its handle is closed.
OpenToDelete ==
  /\ pc = "open" /\ CanRemoveDirectory /\ Goto("close")
  /\ doomed' = doomed \cup {target} /\ UNCHANGED <<tree, changes, faults>>
  /\ Record /\ UNCHANGED <<target, locals>>

\* Mutant: a directory that cannot be opened is taken to be gone.
TakenToBeGone == "true"
NoHandle == "false"

OpenToDeleteFails ==
  /\ pc = "open" /\ Return("delete", NoHandle)
  /\ (~CanRemoveDirectory /\ NoFault) \/ Fault
  /\ UNCHANGED <<tree, doomed, changes>>
  /\ Record /\ UNCHANGED <<target, locals>>

CloseDeletes ==
  /\ pc = "close"
  /\ doomed' = doomed \ {target} /\ UNCHANGED changes
  /\ \E ok \in BOOLEAN : Request(TRUE, With(target, "none"), ok) /\ Return("delete", Bool(ok))
  /\ Record /\ UNCHANGED <<target, locals>>

-----------------------------------------------------------------------------
BeginList(p, o) == Begin(p, o) /\ before' = {}

\* Both listings ask first whether they list a directory.
ListKind(o) ==
  /\ pc = o
  /\ \E k \in Kinds :
       /\ Attributes(target, k)
       /\ pc' = IF k = "dir" THEN "first" ELSE "self"
       /\ answer' = [op |-> o, ret |-> "none"]
  /\ Record /\ UNCHANGED <<target, locals>>

\* Mutant: what was found before the failure is returned.
FoundSoFar == "array"
(* What a search that failed returns: listFiles null; list an array with a *)
(* null for each entry it had found, which is an empty one if it had none. *)
Failed == IF answer.op = "listFiles" THEN "null" ELSE IF found = {} THEN "array" ELSE "nulls"

\* OfcFindFirstFileW, of the entries of a directory.
ListFirst ==
  /\ pc = "first" /\ tree[target] = "dir" /\ Goto("next")
  /\ todo' = Children(target)
  /\ UNCHANGED server /\ Record /\ UNCHANGED <<target, at, attr, found>>

\* A path taken for a file: the search finds the path itself.
ListSelf ==
  /\ pc = "self" /\ tree[target] # "none" /\ Goto("next")
  /\ found' = IF target \in Hidden THEN {} ELSE {[path |-> target, kind |-> tree[target]]}
  /\ UNCHANGED server /\ Record /\ UNCHANGED <<target, at, attr, todo>>

\* OfcFindNextFileW passes p: there or not, hidden or not.
ListNext(p) ==
  /\ pc = "next" /\ p \in todo /\ Goto("next")
  /\ todo' = todo \ {p}
  /\ found' = IF tree[p] = "none" \/ p \in Hidden THEN found
              ELSE found \cup {[path |-> p, kind |-> tree[p]]}
  /\ UNCHANGED server /\ Record /\ UNCHANGED <<target, at, attr>>

\* OFC_ERROR_NO_MORE_FILES
ListEnd ==
  /\ pc = "next" /\ todo = {} /\ Return(answer.op, "array")
  /\ UNCHANGED server /\ Record /\ UNCHANGED <<target, locals>>

ListFails ==
  /\ pc \in {"self", "first", "next"} /\ Return(answer.op, Failed)
  /\ \/ pc = "first" /\ tree[target] # "dir" /\ NoFault
     \/ pc = "self" /\ tree[target] = "none" /\ NoFault
     \/ Fault
  /\ UNCHANGED <<tree, doomed, changes>>
  /\ Record /\ UNCHANGED <<target, locals>>

-----------------------------------------------------------------------------
\* Another client, at any time.
Interference ==
  /\ OtherClient /\ Watch /\ calm' = FALSE
  /\ UNCHANGED <<pc, target, locals, answer, made, removed, before, failed>>

FileCalls(p) ==
  \/ \E q \in Paths : RenameTo(p, q)
  \/ CreateNewFile(p) \/ Mkdir(p)
  \/ BeginMkdirs(p) \/ BeginDelete(p) \/ \E o \in Listings : BeginList(p, o)

Steps ==
  \/ MkdirsProbe \/ MkdirsMakes \/ MkdirsSkips
  \/ DeleteKind \/ DeleteFile \/ RemoveDirectory \/ OpenToDelete \/ OpenToDeleteFails
  \/ CloseDeletes
  \/ (\E o \in Listings : ListKind(o)) \/ ListSelf \/ ListFirst
  \/ (\E p \in Paths : ListNext(p)) \/ ListEnd \/ ListFails

Next == (\E p \in Paths : FileCalls(p)) \/ Steps \/ Interference

Spec == Init /\ [][Next]_vars

-----------------------------------------------------------------------------
(* Type correctness.                                                       *)
TypeOK ==
  /\ ServerOK
  /\ pc \in {"idle", "probe", "make", "kind", "unlink", "rmdir", "open", "close",
             "self", "first", "next"} \cup Listings
  /\ target \in Paths \cup {Root}
  /\ IF target = Root THEN at = Root ELSE at \in Lineage[target]
  /\ attr \in [Paths \cup {Root} -> Known]
  /\ todo \subseteq Children(target)
  /\ found \subseteq [path : Children(target) \cup {target}, kind : {"file", "dir"}]
  /\ answer.ret \in {"none", "true", "false", "array", "null", "nulls"}
  /\ recent \in [Paths -> (SUBSET Kinds) \ {{}}]
  /\ made \subseteq Paths /\ removed \subseteq Paths /\ before \subseteq Paths
  /\ calm \in BOOLEAN /\ failed \in BOOLEAN

Returned(o) == pc = "idle" /\ answer.op = o

(* A delete that returns true has removed what it was called for, although *)
(* it asks first what that is and takes up to four requests.               *)
DeleteTrueMeansRemoved == Returned("delete") /\ answer.ret = "true" => removed = {target}

(* A mkdirs that nothing disturbs makes one of the directories missing, so *)
(* that an application that calls it often enough gets them all.           *)
MkdirsGetsNearer == Returned("mkdirs") /\ calm /\ before # {} => made # {}

(* mkdirs returns true only if it has made the directory it is called for, *)
(* whoever else makes directories there at the same time.                  *)
MkdirsTrueMeansMade == Returned("mkdirs") /\ answer.ret = "true" => target \in made

\* A request of the call has failed, or its target was no directory for a while.
Misled == failed \/ recent[target] # {"dir"}
\* The entries found are of the target, with all that is visible and there to stay.
Whole ==
  /\ \A e \in found : e.path \in Children(target)
  /\ \A p \in Children(target) \ Hidden :
       "none" \notin recent[p] => \E e \in found : e.path = p

(* An array that a listing returns has only entries as they were at some   *)
(* time of the call. Of a target that is a directory throughout, and if no *)
(* request fails, it has every visible entry that was there all the time;  *)
(* otherwise it may have the target itself for its only entry, or be empty *)
(* when list fails. Without such a reason, there is an array.              *)
ListingIsTrue ==
  \A o \in Listings : Returned(o) =>
    IF answer.ret = "array"
    THEN /\ \A e \in found : e.kind \in recent[e.path]
         /\ \/ Whole
            \/ Misled /\ found # {} /\ \A e \in found : e.path = target
            \/ Misled /\ found = {} /\ (o = "list" \/ target \in Hidden)
    ELSE Misled
=============================================================================

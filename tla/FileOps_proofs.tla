--------------------------- MODULE FileOps_proofs ---------------------------
(***************************************************************************)
(* Proofs about FileOps, for every tree of paths and any bounds: its types,*)
(* DeleteTrueMeansRemoved, MkdirsGetsNearer, MkdirsTrueMeansMade and       *)
(* ListingIsTrue; and about FileCache: KnownWasTrue. The invariants behind *)
(* them say what a call under way has done and learnt by each of its steps,*)
(* and what no other client can undo before the next one.                  *)
(***************************************************************************)
EXTENDS MCFileOps, TLAPS

Mkdirs == {"probe", "make"}
Deleting == {"kind", "unlink", "rmdir", "open", "close"}
Found == {"self", "first", "next"}

\* A call under way has a path, and its history goes on; its answer is of the path.
UnderWay ==
  /\ pc # "idle" => \A p \in Paths : tree[p] \in recent[p]
  /\ pc # "idle" \/ answer.op # "none" => target \in Paths

\* Only a directory whose handle is open is doomed; nothing is put into it.
Doomed ==
  /\ doomed = IF pc = "close" THEN {target} ELSE {}
  /\ pc = "close" => tree[target] = "dir" /\ IsEmpty(tree, target)

\* delete removes nothing but its target.
RemovesTarget == pc \in Deleting => removed \subseteq {target}

\* While nothing disturbs a mkdirs that has something to make and has not made
\* it yet, what was missing is missing, and the innermost call is on a part of it.
Searches ==
  calm /\ pc \in Mkdirs /\ before # {} /\ made = {} =>
    /\ before = Missing(target)
    /\ tree[at] = "none"
    /\ pc = "make" => attr[Parent[at]] = "dir" /\ IsDir(tree, Parent[at])

\* What a search may have found: entries of its directory, none missing that it
\* has passed, or the path itself when there was a reason to take it for a file.
Passed ==
  /\ \A e \in found : e.kind \in recent[e.path]
  /\ \/ /\ \A e \in found : e.path \in Children(target)
        /\ \A p \in Children(target) \ (Hidden \cup todo) :
             "none" \notin recent[p] => \E e \in found : e.path = p
     \/ Misled /\ todo = {} /\ found # {} /\ \A e \in found : e.path = target
     \/ Misled /\ todo = {} /\ found = {} /\ target \in Hidden

\* A search has found nothing before it begins, and goes on as it should.
Passes ==
  /\ pc \in Found => answer.op \in Listings
  /\ pc \in Listings \cup {"self", "first"} => found = {} /\ todo = {}
  /\ pc = "self" => Misled
  /\ pc = "next" => Passed

Answers == DeleteTrueMeansRemoved /\ MkdirsGetsNearer /\ MkdirsTrueMeansMade /\ ListingIsTrue

IInv == TypeOK /\ UnderWay /\ Doomed /\ RemovesTarget /\ Searches /\ Passes /\ Answers

\* The abbreviations every step below needs.
USE DEF Goto, Return, Mkdirs, Deleting, Found, Listings

-----------------------------------------------------------------------------
(* A path is in its lineage, and so is the parent of what is, up to the    *)
(* root.                                                                   *)
LEMMA LineageGoesUp ==
  ASSUME NEW p \in Paths
  PROVE  /\ Lineage[p] \subseteq Paths /\ p \in Lineage[p]
         /\ \A q \in Lineage[p] : Parent[q] \in Lineage[p] \cup {Root}
<1>1. Lineage[p] = {q \in Paths : \A S \in SUBSET Paths :
                      p \in S /\ (\A r \in S : Parent[r] \in S \cup {Root}) => q \in S}
  BY DEF Lineage
<1>2. Lineage[p] \subseteq Paths /\ p \in Lineage[p]
  BY <1>1
<1>3. ASSUME NEW q \in Lineage[p] PROVE Parent[q] \in Lineage[p] \cup {Root}
  BY <1>1, <1>3, ParentAssumption
<1> QED BY <1>2, <1>3

(* A set that has p and all parents of its members has the lineage of p.   *)
LEMMA LineageIsLeast ==
  ASSUME NEW p \in Paths, NEW S \in SUBSET Paths, p \in S,
         \A r \in S : Parent[r] \in S \cup {Root}
  PROVE  Lineage[p] \subseteq S
BY DEF Lineage

(* Every call of mkdirs but the outermost has a caller.                    *)
LEMMA CallerExists ==
  ASSUME NEW p \in Paths, NEW q \in Lineage[p], q # p
  PROVE  \E r \in Lineage[p] : Parent[r] = q
<1> SUFFICES ASSUME \A r \in Lineage[p] : Parent[r] # q PROVE FALSE
  OBVIOUS
<1>1. /\ Lineage[p] \ {q} \in SUBSET Paths /\ p \in Lineage[p] \ {q}
      /\ \A r \in Lineage[p] \ {q} : Parent[r] \in (Lineage[p] \ {q}) \cup {Root}
  BY LineageGoesUp
<1>2. Lineage[p] \subseteq Lineage[p] \ {q}
  BY <1>1, LineageIsLeast
<1> QED BY <1>2

(* When something of a path is missing, the path is, and no file is in the *)
(* way.                                                                    *)
LEMMA MissingMeans ==
  ASSUME ServerOK, NEW p \in Paths, Missing(p) # {}
  PROVE  tree[p] = "none" /\ \A q \in Lineage[p] : tree[q] # "file"
<1>1. \A q \in Lineage[p] : tree[q] # "file"
  BY DEF Missing
<1>2. Lineage[p] \subseteq Paths /\ p \in Lineage[p]
      /\ \A q \in Lineage[p] : Parent[q] \in Lineage[p] \cup {Root}
  BY LineageGoesUp
<1> DEFINE S == {q \in Lineage[p] : tree[q] # "none"}
<1>3. \A r \in S : Parent[r] \in S \cup {Root}
  BY <1>2, RootAssumption DEF ServerOK, IsTree, IsDir, KindIn
<1>4. p \notin S
  <2>1. p \in S => Lineage[p] \subseteq S
    BY <1>2, <1>3, LineageIsLeast
  <2> QED BY <2>1 DEF Missing
<1> QED BY <1>1, <1>2, <1>4

-----------------------------------------------------------------------------
(* Every change of the tree leaves it one.                                 *)
LEMMA AddKeepsTree ==
  ASSUME ServerOK, NEW p \in Paths, CanAdd(p), NEW k \in {"file", "dir"}
  PROVE  With(p, k) \in [Paths -> Kinds] /\ IsTree(With(p, k))
BY RootAssumption, ParentAssumption
   DEF ServerOK, CanAdd, With, IsTree, IsDir, KindIn, Kinds

(* What has nothing below it can go.                                       *)
LEMMA RemoveKeepsTree ==
  ASSUME ServerOK, NEW p \in Paths, IsEmpty(tree, p)
  PROVE  With(p, "none") \in [Paths -> Kinds] /\ IsTree(With(p, "none"))
BY RootAssumption, ParentAssumption
   DEF ServerOK, IsEmpty, Children, With, IsTree, IsDir, KindIn, Kinds

(* A file has nothing below it.                                            *)
LEMMA FileIsEmpty ==
  ASSUME ServerOK, NEW p \in Paths, tree[p] = "file" PROVE IsEmpty(tree, p)
BY RootAssumption DEF ServerOK, IsEmpty, Children, IsTree, IsDir, KindIn

(* What has nothing below it can move to where there is room.              *)
LEMMA RenameKeepsTree ==
  ASSUME ServerOK, NEW p \in Paths, NEW q \in Paths, CanRemove(p), CanAdd(q), Parent[q] # p
  PROVE  LET t == [With(p, "none") EXCEPT ![q] = tree[p]]
         IN  t \in [Paths -> Kinds] /\ IsTree(t)
BY RootAssumption, ParentAssumption
   DEF ServerOK, CanRemove, CanAdd, IsEmpty, Children, With, IsTree, IsDir, KindIn, Kinds

(* What the history records.                                               *)
LEMMA WatchKeeps ==
  ASSUME TypeOK, Watch, tree' \in [Paths -> Kinds]
  PROVE  /\ recent' \in [Paths -> (SUBSET Kinds) \ {{}}]
         /\ \A p \in Paths : tree'[p] \in recent'[p] /\ recent[p] \subseteq recent'[p]
BY DEF TypeOK, Watch

(* A reason to be misled does not go away.                                 *)
LEMMA MisledStays ==
  ASSUME TypeOK, target \in Paths, Misled, target' = target, failed => failed',
         recent[target] \subseteq recent'[target]
  PROVE  Misled'
BY DEF TypeOK, Misled

(* A call under way has given no answer yet.                               *)
LEMMA NoAnswerYet == ASSUME pc' # "idle" PROVE Answers'
BY DEF Answers, DeleteTrueMeansRemoved, MkdirsGetsNearer, MkdirsTrueMeansMade, ListingIsTrue,
       Returned

-----------------------------------------------------------------------------
(* Nothing is under way, and nothing has been answered.                    *)
LEMMA InitIInv == Init => IInv
<1> SUFFICES ASSUME Init PROVE IInv
  OBVIOUS
<1>1. ServerOK
  BY ServerBounds DEF Init, ServerInit, ServerOK
<1>2. Now \in [Paths -> (SUBSET Kinds) \ {{}}]
  BY <1>1 DEF ServerOK, Now
<1>3. TypeOK
  BY <1>1, <1>2 DEF Init, TypeOK, NoAttributes, Known, NoAnswer
<1>4. Answers
  BY DEF Init, NoAnswer, Answers, DeleteTrueMeansRemoved, MkdirsGetsNearer,
     MkdirsTrueMeansMade, ListingIsTrue, Returned
<1> QED
  BY <1>1, <1>3, <1>4 DEF Init, ServerInit, IInv, UnderWay, Doomed, RemovesTarget, Searches,
     Passes, NoAnswer

(* A call of one request changes the tree, and is forgotten.               *)
LEMMA OneRequestStep ==
  ASSUME IInv, NEW possible \in BOOLEAN, NEW t,
         possible => t \in [Paths -> Kinds] /\ IsTree(t),
         pc = "idle", \E ok \in BOOLEAN : Request(possible, t, ok),
         Forget, UNCHANGED <<pc, doomed, changes>>
  PROVE  IInv'
<1>1. tree' = tree \/ (possible /\ tree' = t)
  BY DEF Request
<1>2. faults' \in 0 .. MaxFaults
  BY ServerBounds DEF Request, NoFault, Fault, IInv, TypeOK, ServerOK
<1>3. ServerOK'
  BY <1>1, <1>2 DEF IInv, TypeOK, ServerOK, IsTree, IsDir, KindIn
<1>4. Now \in [Paths -> (SUBSET Kinds) \ {{}}]
  BY DEF IInv, TypeOK, ServerOK, Now
<1>5. TypeOK'
  BY <1>3, <1>4 DEF IInv, TypeOK, Forget, NoAttributes, Known, NoAnswer, Children
<1>6. Answers'
  BY DEF Forget, NoAnswer, Answers, DeleteTrueMeansRemoved, MkdirsGetsNearer,
     MkdirsTrueMeansMade, ListingIsTrue, Returned
<1> QED
  BY <1>3, <1>5, <1>6 DEF IInv, UnderWay, Doomed, RemovesTarget, Searches, Passes, Forget, NoAnswer

(* createNewFile(), mkdir() and renameTo().                                *)
LEMMA SingleStep ==
  ASSUME IInv, NEW p \in Paths, CreateNewFile(p) \/ Mkdir(p) \/ \E q \in Paths : RenameTo(p, q)
  PROVE  IInv'
<1>1. ServerOK
  BY DEF IInv, TypeOK
<1>2. CASE CreateNewFile(p)
  <2>1. PICK possible, t : possible \in BOOLEAN /\ possible = CanAdd(p) /\ t = With(p, "file")
    BY DEF CanAdd
  <2>2. possible => t \in [Paths -> Kinds] /\ IsTree(t)
    BY <1>1, <2>1, AddKeepsTree
  <2> QED BY <1>2, <2>1, <2>2, OneRequestStep DEF CreateNewFile, OneRequest
<1>3. CASE Mkdir(p)
  <2>1. PICK possible, t : possible \in BOOLEAN /\ possible = CanAdd(p) /\ t = With(p, "dir")
    BY DEF CanAdd
  <2>2. possible => t \in [Paths -> Kinds] /\ IsTree(t)
    BY <1>1, <2>1, AddKeepsTree
  <2> QED BY <1>3, <2>1, <2>2, OneRequestStep DEF Mkdir, OneRequest
<1>4. ASSUME NEW q \in Paths, RenameTo(p, q) PROVE IInv'
  <2>1. PICK possible \in BOOLEAN : possible = (CanRemove(p) /\ CanAdd(q) /\ Parent[q] # p)
    OBVIOUS
  <2>2. PICK t : t = [With(p, "none") EXCEPT ![q] = tree[p]]
    OBVIOUS
  <2>3. possible => t \in [Paths -> Kinds] /\ IsTree(t)
    BY <1>1, <2>1, <2>2, RenameKeepsTree
  <2> QED BY <1>4, <2>1, <2>2, <2>3, OneRequestStep DEF RenameTo, OneRequest
<1> QED BY <1>2, <1>3, <1>4

(* A call begins: its history does, and nothing is cached or found.        *)
LEMMA BeginStep ==
  ASSUME IInv, NEW p \in Paths, NEW start \in {"probe", "kind"} \cup Listings, Begin(p, start),
         before' \in SUBSET Paths,
         start = "probe" => before' = Missing(p)
  PROVE  IInv'
<1>1. ServerOK' /\ UNCHANGED <<tree, doomed>> /\ pc' = start /\ start # "idle"
  BY DEF IInv, TypeOK, Begin, server, ServerOK, IsTree, IsDir, KindIn
<1>2. Now \in [Paths -> (SUBSET Kinds) \ {{}}] /\ \A q \in Paths : tree[q] \in Now[q]
  BY DEF IInv, TypeOK, ServerOK, Now
<1>3. p \in Lineage[p] /\ p # Root
  BY LineageGoesUp, RootAssumption
<1>4. TypeOK'
  BY <1>1, <1>2, <1>3 DEF IInv, TypeOK, Begin, NoAttributes, Known, Children
<1>5. UnderWay' /\ Doomed' /\ RemovesTarget' /\ Passes'
  BY <1>1, <1>2 DEF IInv, UnderWay, Doomed, RemovesTarget, Passes, Begin
<1>6. Searches'
  <2>1. start = "probe" /\ before' # {} => tree[p] = "none"
    BY MissingMeans DEF IInv, TypeOK
  <2> QED BY <1>1, <2>1 DEF Searches, Begin, Missing
<1>7. Answers'
  BY <1>1, NoAnswerYet
<1> QED BY <1>4, <1>5, <1>6, <1>7 DEF IInv

-----------------------------------------------------------------------------
(* What a step of a call under way records.                                *)
LEMMA RecordKeeps ==
  ASSUME TypeOK, Record, ServerOK'
  PROVE  /\ recent' \in [Paths -> (SUBSET Kinds) \ {{}}]
         /\ \A p \in Paths : tree'[p] \in recent'[p] /\ recent[p] \subseteq recent'[p]
         /\ made' \in SUBSET Paths /\ removed' \in SUBSET Paths /\ before' = before
         /\ made \subseteq made' /\ (tree' = tree => made' = made /\ removed' = removed)
         /\ calm' \in BOOLEAN /\ (calm' => calm /\ faults' = faults)
         /\ failed' \in BOOLEAN /\ (failed => failed') /\ (faults' # faults => failed')
<1>1. tree' \in [Paths -> Kinds]
  BY DEF ServerOK
<1> QED BY <1>1, WatchKeeps DEF Record, TypeOK

(* What a step of a call under way leaves true when the tree stays.        *)
LEMMA QuietServer ==
  ASSUME TypeOK, tree' = tree, doomed' \in SUBSET Paths, changes' = changes, NoFault \/ Fault
  PROVE  ServerOK'
BY ServerBounds DEF TypeOK, ServerOK, IsTree, IsDir, KindIn, NoFault, Fault

(* The attributes asked for leave the server as it is.                     *)
LEMMA AskServer ==
  ASSUME TypeOK, NEW p, NEW k \in Kinds, Attributes(p, k)
  PROVE  /\ ServerOK' /\ tree' = tree /\ doomed' = doomed
         /\ faults' = faults => k = KindIn(tree, p)
<1>1. faults \in Nat
  BY ServerBounds DEF TypeOK, ServerOK
<1>2. faults' = faults => k = KindIn(tree, p)
  BY <1>1 DEF Attributes, Fault
<1> QED BY <1>2, QuietServer DEF Attributes, TypeOK, ServerOK

(* mkdirs goes up while a parent is missing, and then turns round.         *)
LEMMA MkdirsProbeStep == ASSUME IInv, MkdirsProbe PROVE IInv'
<1> DEFINE q == Parent[at]
<1>1. PICK k \in Kinds :
        /\ Attributes(q, k)
        /\ attr' = [attr EXCEPT ![q] = k]
        /\ IF GoesUp(q, k) THEN at' = q /\ pc' = "probe" ELSE at' = at /\ pc' = "make"
  BY DEF MkdirsProbe
<1>2. /\ TypeOK /\ pc = "probe" /\ target \in Paths /\ at \in Lineage[target] /\ at \in Paths
      /\ q \in Lineage[target] \cup {Root} /\ q \in Paths \cup {Root}
  BY LineageGoesUp, RootAssumption DEF IInv, TypeOK, UnderWay, MkdirsProbe
<1>3. /\ ServerOK' /\ tree' = tree /\ doomed' = doomed
      /\ faults' = faults => k = KindIn(tree, q)
  BY <1>1, <1>2, AskServer
<1>4. /\ recent' \in [Paths -> (SUBSET Kinds) \ {{}}]
      /\ \A p \in Paths : tree'[p] \in recent'[p]
      /\ made' = made /\ made' \in SUBSET Paths /\ removed' \in SUBSET Paths /\ before' = before
      /\ calm' \in BOOLEAN /\ (calm' => calm /\ faults' = faults)
      /\ failed' \in BOOLEAN
  BY <1>2, <1>3, RecordKeeps DEF MkdirsProbe
<1>5. UNCHANGED <<target, todo, found, answer>> /\ pc' \in {"probe", "make"}
  BY <1>1 DEF MkdirsProbe
<1>6. TypeOK'
  <2>1. at' \in Lineage[target]
    BY <1>1, <1>2 DEF GoesUp
  <2>2. attr' \in [Paths \cup {Root} -> Known]
    BY <1>1, <1>2 DEF TypeOK, Known
  <2> QED BY <1>2, <1>3, <1>4, <1>5, <2>1, <2>2, RootAssumption DEF TypeOK, Children
<1>7. UnderWay' /\ Doomed' /\ RemovesTarget' /\ Passes'
  BY <1>2, <1>3, <1>4, <1>5 DEF IInv, UnderWay, Doomed, RemovesTarget, Passes
<1>8. Searches'
  <2> SUFFICES ASSUME calm', before # {}, made = {}
               PROVE  /\ before = Missing(target)
                      /\ tree[at'] = "none"
                      /\ pc' = "make" => attr'[Parent[at']] = "dir" /\ IsDir(tree, Parent[at'])
    BY <1>3, <1>4, <1>5 DEF Searches, Missing, IsDir, KindIn
  <2>1. before = Missing(target) /\ tree[at] = "none" /\ k = KindIn(tree, q)
    BY <1>2, <1>3, <1>4 DEF IInv, Searches
  <2>2. q # Root => tree[q] # "file"
    BY <1>2, <2>1, MissingMeans DEF TypeOK
  <2>3. CASE GoesUp(q, k)
    BY <1>1, <2>1, <2>3 DEF GoesUp, KindIn
  <2>4. CASE ~GoesUp(q, k)
    <3>1. k = "dir"
      BY <2>1, <2>2, <2>4 DEF GoesUp, KindIn, Kinds
    <3>2. attr'[q] = "dir" /\ IsDir(tree, q)
      BY <1>1, <1>2, <2>1, <3>1 DEF TypeOK, IsDir
    <3> QED BY <1>1, <2>1, <2>4, <3>2
  <2> QED BY <2>3, <2>4
<1>9. Answers'
  BY <1>5, NoAnswerYet
<1> QED BY <1>6, <1>7, <1>8, <1>9 DEF IInv

(* Where the innermost call of mkdirs returns to.                          *)
LEMMA ReturnsTo ==
  ASSUME TypeOK, target \in Paths, NEW r, MkdirsReturns(r)
  PROVE  /\ at' \in Lineage[target] /\ pc' \in {"idle", "make"}
         /\ at = target => pc' = "idle" /\ answer' = [op |-> "mkdirs", ret |-> r]
         /\ at # target => pc' = "make" /\ answer' = answer
<1>1. at \in Lineage[target]
  BY RootAssumption DEF TypeOK
<1>2. at # target => Caller(at) \in Lineage[target]
  BY <1>1, CallerExists DEF Caller
<1> QED BY <1>1, <1>2 DEF MkdirsReturns

(* mkdir() is called: undisturbed, the first one makes a directory.        *)
LEMMA MkdirsMakesStep == ASSUME IInv, MkdirsMakes PROVE IInv'
<1>1. PICK ok \in BOOLEAN :
        Request(CanAdd(at), With(at, "dir"), ok) /\ MkdirsReturns(Bool(ok))
  BY DEF MkdirsMakes
<1>2. /\ TypeOK /\ ServerOK /\ pc = "make" /\ target \in Paths /\ at \in Lineage[target]
      /\ at \in Paths /\ doomed = {}
  BY LineageGoesUp, RootAssumption DEF IInv, TypeOK, UnderWay, Doomed, MkdirsMakes
<1>3. /\ at' \in Lineage[target] /\ pc' \in {"idle", "make"}
      /\ at = target => pc' = "idle" /\ answer' = [op |-> "mkdirs", ret |-> Bool(ok)]
      /\ at # target => pc' = "make" /\ answer' = answer
  BY <1>1, <1>2, ReturnsTo
<1>4. /\ tree' = tree \/ (CanAdd(at) /\ tree' = With(at, "dir"))
      /\ ok => CanAdd(at) /\ tree' = With(at, "dir")
      /\ faults' = faults /\ CanAdd(at) => ok
      /\ faults' \in 0 .. MaxFaults
  BY <1>1, <1>2, ServerBounds DEF Request, NoFault, Fault, ServerOK
<1>5. ServerOK' /\ doomed' = doomed
  <2>1. tree' \in [Paths -> Kinds] /\ IsTree(tree')
    BY <1>2, <1>4, AddKeepsTree DEF ServerOK
  <2> QED BY <1>2, <1>4, <2>1 DEF ServerOK, MkdirsMakes, IsTree, IsDir, KindIn
<1>6. /\ recent' \in [Paths -> (SUBSET Kinds) \ {{}}]
      /\ \A p \in Paths : tree'[p] \in recent'[p]
      /\ made' \in SUBSET Paths /\ removed' \in SUBSET Paths /\ before' = before
      /\ made \subseteq made' /\ (tree' = tree => made' = made)
      /\ calm' \in BOOLEAN /\ (calm' => calm /\ faults' = faults)
      /\ failed' \in BOOLEAN
  BY <1>2, <1>5, RecordKeeps DEF MkdirsMakes
<1>7. UNCHANGED <<target, attr, todo, found>>
  BY DEF MkdirsMakes
<1>8. ok => at \in made'
  BY <1>2, <1>4 DEF MkdirsMakes, Record, CanAdd, With, ServerOK
<1>9. TypeOK'
  <2>1. answer'.ret \in {"none", "true", "false", "array", "null", "nulls"}
    BY <1>2, <1>3 DEF TypeOK, Bool
  <2> QED BY <1>2, <1>3, <1>5, <1>6, <1>7, <2>1, RootAssumption DEF TypeOK, Children
<1>10. UnderWay' /\ Doomed' /\ RemovesTarget' /\ Passes'
  BY <1>2, <1>3, <1>5, <1>6, <1>7 DEF IInv, UnderWay, Doomed, RemovesTarget, Passes
<1>11. calm' /\ before' # {} => made' # {}
  <2> SUFFICES ASSUME calm', before # {}, made = {} PROVE made' # {}
    BY <1>6
  <2>1. tree[at] = "none" /\ IsDir(tree, Parent[at])
    BY <1>2, <1>6 DEF IInv, Searches
  <2>2. CanAdd(at)
    BY <1>2, <2>1 DEF CanAdd
  <2> QED BY <1>4, <1>6, <1>8, <2>2
<1>12. Searches'
  BY <1>11 DEF Searches
<1>13. Answers'
  <2>1. CASE at = target
    BY <1>3, <1>7, <1>8, <1>11, <2>1
       DEF Answers, DeleteTrueMeansRemoved, MkdirsGetsNearer, MkdirsTrueMeansMade, ListingIsTrue,
           Returned, Bool
  <2>2. CASE at # target
    BY <1>3, <2>2, NoAnswerYet
  <2> QED BY <2>1, <2>2
<1> QED BY <1>9, <1>10, <1>12, <1>13 DEF IInv

(* Nothing is made below what is not known to be a directory.              *)
LEMMA MkdirsSkipsStep == ASSUME IInv, MkdirsSkips PROVE IInv'
<1>1. MkdirsReturns("false")
  BY DEF MkdirsSkips, NotMade
<1>2. /\ TypeOK /\ pc = "make" /\ target \in Paths /\ at \in Lineage[target] /\ at \in Paths
  BY LineageGoesUp, RootAssumption DEF IInv, TypeOK, UnderWay, MkdirsSkips
<1>3. /\ at' \in Lineage[target] /\ pc' \in {"idle", "make"}
      /\ at = target => pc' = "idle" /\ answer' = [op |-> "mkdirs", ret |-> "false"]
      /\ at # target => pc' = "make" /\ answer' = answer
  BY <1>1, <1>2, ReturnsTo
<1>4. ServerOK' /\ tree' = tree /\ doomed' = doomed /\ UNCHANGED <<target, attr, todo, found>>
  BY <1>2 DEF TypeOK, ServerOK, MkdirsSkips, server, IsTree, IsDir, KindIn
<1>5. /\ recent' \in [Paths -> (SUBSET Kinds) \ {{}}]
      /\ \A p \in Paths : tree'[p] \in recent'[p]
      /\ made' = made /\ made' \in SUBSET Paths /\ removed' \in SUBSET Paths /\ before' = before
      /\ calm' \in BOOLEAN /\ (calm' => calm /\ faults' = faults)
      /\ failed' \in BOOLEAN
  BY <1>2, <1>4, RecordKeeps DEF MkdirsSkips
<1>6. TypeOK'
  <2>1. answer'.ret \in {"none", "true", "false", "array", "null", "nulls"}
    BY <1>2, <1>3 DEF TypeOK
  <2> QED BY <1>2, <1>3, <1>4, <1>5, <2>1, RootAssumption DEF TypeOK, Children
<1>7. UnderWay' /\ Doomed' /\ RemovesTarget' /\ Passes'
  BY <1>2, <1>3, <1>4, <1>5 DEF IInv, UnderWay, Doomed, RemovesTarget, Passes
<1>8. calm' /\ before' # {} => made' # {}
  BY <1>2, <1>5 DEF IInv, Searches, MkdirsSkips
<1>9. Searches'
  BY <1>8 DEF Searches
<1>10. Answers'
  <2>1. CASE at = target
    BY <1>3, <1>8, <2>1
       DEF Answers, DeleteTrueMeansRemoved, MkdirsGetsNearer, MkdirsTrueMeansMade, ListingIsTrue,
           Returned
  <2>2. CASE at # target
    BY <1>3, <2>2, NoAnswerYet
  <2> QED BY <2>1, <2>2
<1> QED BY <1>6, <1>7, <1>9, <1>10 DEF IInv

-----------------------------------------------------------------------------
AllPc == {"idle", "probe", "make", "kind", "unlink", "rmdir", "open", "close",
          "self", "first", "next"} \cup Listings
AllAnswers == {"none", "true", "false", "array", "null", "nulls"}

(* Types, when a step changes nothing that the call has found out.         *)
LEMMA StepTypes ==
  ASSUME TypeOK, ServerOK', Record, UNCHANGED <<target, locals>>,
         pc' \in AllPc, answer'.ret \in AllAnswers
  PROVE  TypeOK'
BY RecordKeeps DEF TypeOK, locals, Children, AllPc, AllAnswers

(* A request to remove the target removes nothing else, and has removed it *)
(* when it succeeds.                                                       *)
LEMMA RemovalStep ==
  ASSUME TypeOK, target \in Paths, NEW possible \in BOOLEAN, NEW ok \in BOOLEAN,
         Request(possible, With(target, "none"), ok),
         possible => tree[target] # "none" /\ IsEmpty(tree, target),
         doomed' \in SUBSET Paths, changes' = changes, Record
  PROVE  /\ ServerOK' /\ removed' \subseteq removed \cup {target}
         /\ ok => target \in removed'
<1>1. tree' = tree \/ (possible /\ tree' = With(target, "none"))
  BY DEF Request
<1>2. ok => possible /\ tree' = With(target, "none")
  BY DEF Request
<1>3. faults' \in 0 .. MaxFaults
  BY ServerBounds DEF Request, NoFault, Fault, TypeOK, ServerOK
<1>4. tree' \in [Paths -> Kinds] /\ IsTree(tree')
  <2>1. ServerOK
    BY DEF TypeOK
  <2>2. possible => With(target, "none") \in [Paths -> Kinds] /\ IsTree(With(target, "none"))
    BY <2>1, RemoveKeepsTree
  <2> QED BY <1>1, <2>1, <2>2 DEF ServerOK
<1>5. ServerOK'
  BY <1>3, <1>4 DEF TypeOK, ServerOK, IsTree, IsDir, KindIn
<1>6. removed' = removed \cup {p \in Paths : tree[p] # "none" /\ tree'[p] = "none"}
  BY DEF Record
<1>7. removed' \subseteq removed \cup {target}
  BY <1>1, <1>6 DEF With, TypeOK, ServerOK
<1>8. ok => target \in removed'
  BY <1>2, <1>6 DEF With, TypeOK, ServerOK
<1> QED BY <1>5, <1>7, <1>8

(* Nothing has been removed before delete knows what it deletes.           *)
LEMMA DeleteKindStep == ASSUME IInv, DeleteKind PROVE IInv'
<1>1. PICK k \in Kinds : Attributes(target, k) /\ Goto(IF k = "dir" THEN "rmdir" ELSE "unlink")
  BY DEF DeleteKind
<1>2. TypeOK /\ target \in Paths /\ pc = "kind" /\ doomed = {} /\ removed \subseteq {target}
  BY DEF IInv, UnderWay, Doomed, RemovesTarget, DeleteKind
<1>3. ServerOK' /\ tree' = tree /\ doomed' = doomed
  BY <1>1, <1>2, AskServer
<1>4. Record /\ UNCHANGED <<target, locals, answer>> /\ pc' \in {"rmdir", "unlink"}
  BY <1>1 DEF DeleteKind
<1>5. TypeOK'
  BY <1>2, <1>3, <1>4, StepTypes DEF AllPc, AllAnswers, TypeOK
<1>6. UnderWay' /\ Doomed' /\ RemovesTarget' /\ Searches' /\ Passes'
  BY <1>2, <1>3, <1>4, RecordKeeps DEF UnderWay, Doomed, RemovesTarget, Searches, Passes
<1>7. Answers'
  BY <1>4, NoAnswerYet
<1> QED BY <1>5, <1>6, <1>7 DEF IInv

(* What a delete that returns has removed.                                 *)
LEMMA DeleteReturns ==
  ASSUME NEW ok \in BOOLEAN, pc' = "idle", answer' = [op |-> "delete", ret |-> Bool(ok)],
         ok => removed' = {target'}
  PROVE  Answers'
BY DEF Answers, DeleteTrueMeansRemoved, MkdirsGetsNearer, MkdirsTrueMeansMade, ListingIsTrue,
       Returned, Bool

(* A file is removed by one request.                                       *)
LEMMA DeleteFileStep == ASSUME IInv, DeleteFile PROVE IInv'
<1>1. PICK ok \in BOOLEAN :
        /\ Request(tree[target] = "file", With(target, "none"), ok)
        /\ Return("delete", Bool(ok))
  BY DEF DeleteFile
<1>2. TypeOK /\ ServerOK /\ target \in Paths /\ doomed = {} /\ removed \subseteq {target}
  BY DEF IInv, TypeOK, UnderWay, Doomed, RemovesTarget, DeleteFile
<1>3. Record /\ UNCHANGED <<target, locals, doomed, changes>>
  BY DEF DeleteFile
<1>4. PICK possible \in BOOLEAN : possible = (tree[target] = "file")
  OBVIOUS
<1>5. possible => tree[target] # "none" /\ IsEmpty(tree, target)
  BY <1>2, <1>4, FileIsEmpty
<1>6. ServerOK' /\ removed' \subseteq removed \cup {target} /\ (ok => target \in removed')
  BY <1>1, <1>2, <1>3, <1>4, <1>5, RemovalStep
<1>7. TypeOK'
  BY <1>1, <1>2, <1>3, <1>6, StepTypes DEF AllPc, AllAnswers, Bool
<1>8. UnderWay' /\ Doomed' /\ RemovesTarget' /\ Searches' /\ Passes'
  BY <1>1, <1>2, <1>3 DEF UnderWay, Doomed, RemovesTarget, Searches, Passes
<1>9. Answers'
  BY <1>1, <1>2, <1>3, <1>6, DeleteReturns
<1> QED BY <1>7, <1>8, <1>9 DEF IInv

(* An empty directory may be gone before it is opened to be deleted.       *)
LEMMA RemoveDirectoryStep == ASSUME IInv, RemoveDirectory PROVE IInv'
<1>1. PICK ok \in BOOLEAN : Request(CanRemoveDirectory, With(target, "none"), ok)
  BY DEF RemoveDirectory
<1>2. TypeOK /\ ServerOK /\ target \in Paths /\ doomed = {} /\ removed \subseteq {target}
  BY DEF IInv, TypeOK, UnderWay, Doomed, RemovesTarget, RemoveDirectory
<1>3. Record /\ UNCHANGED <<target, locals, doomed, changes, answer>> /\ pc' = "open"
  BY DEF RemoveDirectory
<1>4. PICK possible \in BOOLEAN : possible = CanRemoveDirectory
  BY DEF CanRemoveDirectory
<1>5. possible => tree[target] # "none" /\ IsEmpty(tree, target)
  BY <1>4 DEF CanRemoveDirectory, CanRemove
<1>6. ServerOK' /\ removed' \subseteq removed \cup {target}
  BY <1>1, <1>2, <1>3, <1>4, <1>5, RemovalStep
<1>7. TypeOK'
  BY <1>2, <1>3, <1>6, StepTypes DEF AllPc, AllAnswers, TypeOK
<1>8. UnderWay' /\ Doomed' /\ RemovesTarget' /\ Searches' /\ Passes'
  BY <1>2, <1>3, <1>6, RecordKeeps DEF UnderWay, Doomed, RemovesTarget, Searches, Passes
<1>9. Answers'
  BY <1>3, NoAnswerYet
<1> QED BY <1>7, <1>8, <1>9 DEF IInv

(* Once it is open to be deleted, nobody else fills or removes it.         *)
LEMMA OpenToDeleteStep == ASSUME IInv, OpenToDelete PROVE IInv'
<1>1. /\ TypeOK /\ target \in Paths /\ doomed = {} /\ removed \subseteq {target}
      /\ tree[target] = "dir" /\ IsEmpty(tree, target)
  BY DEF IInv, UnderWay, Doomed, RemovesTarget, OpenToDelete, CanRemoveDirectory, CanRemove
<1>2. /\ Record /\ UNCHANGED <<target, locals, changes, answer, tree, faults>> /\ pc' = "close"
      /\ doomed' = {target}
  BY <1>1 DEF OpenToDelete
<1>3. ServerOK'
  BY <1>1, <1>2, QuietServer DEF NoFault
<1>4. TypeOK'
  BY <1>1, <1>2, <1>3, StepTypes DEF AllPc, AllAnswers, TypeOK
<1>5. UnderWay' /\ RemovesTarget' /\ Searches' /\ Passes'
  BY <1>1, <1>2, <1>3, RecordKeeps DEF UnderWay, RemovesTarget, Searches, Passes
<1>6. Doomed'
  BY <1>1, <1>2 DEF Doomed, IsEmpty, Children
<1>7. Answers'
  BY <1>2, NoAnswerYet
<1> QED BY <1>4, <1>5, <1>6, <1>7 DEF IInv

(* A directory that could not be opened is not said to be removed.         *)
LEMMA OpenToDeleteFailsStep == ASSUME IInv, OpenToDeleteFails PROVE IInv'
<1>1. TypeOK /\ target \in Paths /\ doomed = {}
  BY DEF IInv, UnderWay, Doomed, OpenToDeleteFails
<1>2. /\ Record /\ UNCHANGED <<target, locals, doomed, changes, tree>> /\ pc' = "idle"
      /\ answer' = [op |-> "delete", ret |-> "false"] /\ (NoFault \/ Fault)
  BY DEF OpenToDeleteFails, NoHandle
<1>3. ServerOK'
  BY <1>1, <1>2, QuietServer
<1>4. TypeOK'
  BY <1>1, <1>2, <1>3, StepTypes DEF AllPc, AllAnswers
<1>5. UnderWay' /\ Doomed' /\ RemovesTarget' /\ Searches' /\ Passes'
  BY <1>1, <1>2 DEF UnderWay, Doomed, RemovesTarget, Searches, Passes
<1>6. Answers'
  BY <1>2 DEF Answers, DeleteTrueMeansRemoved, MkdirsGetsNearer, MkdirsTrueMeansMade,
     ListingIsTrue, Returned
<1> QED BY <1>4, <1>5, <1>6 DEF IInv

(* A handle that is closed removes the directory, which is still empty.    *)
LEMMA CloseDeletesStep == ASSUME IInv, CloseDeletes PROVE IInv'
<1>1. PICK ok \in BOOLEAN :
        Request(TRUE, With(target, "none"), ok) /\ Return("delete", Bool(ok))
  BY DEF CloseDeletes
<1>2. /\ TypeOK /\ target \in Paths /\ doomed = {target} /\ removed \subseteq {target}
      /\ tree[target] = "dir" /\ IsEmpty(tree, target)
  BY DEF IInv, UnderWay, Doomed, RemovesTarget, CloseDeletes
<1>3. Record /\ UNCHANGED <<target, locals, changes>> /\ doomed' = {}
  BY <1>2 DEF CloseDeletes
<1>4. ServerOK' /\ removed' \subseteq removed \cup {target} /\ (ok => target \in removed')
  BY <1>1, <1>2, <1>3, RemovalStep
<1>5. TypeOK'
  BY <1>1, <1>2, <1>3, <1>4, StepTypes DEF AllPc, AllAnswers, Bool
<1>6. UnderWay' /\ Doomed' /\ RemovesTarget' /\ Searches' /\ Passes'
  BY <1>1, <1>2, <1>3 DEF UnderWay, Doomed, RemovesTarget, Searches, Passes
<1>7. Answers'
  BY <1>1, <1>2, <1>3, <1>4, DeleteReturns
<1> QED BY <1>5, <1>6, <1>7 DEF IInv

-----------------------------------------------------------------------------
(* What a search returns: whatever is not an array needs a reason.         *)
LEMMA ListReturns ==
  ASSUME pc' = "idle", answer'.op \in Listings, ListingIsTrue' PROVE Answers'
BY DEF Answers, DeleteTrueMeansRemoved, MkdirsGetsNearer, MkdirsTrueMeansMade, Returned

(* What a step of a listing leaves true whatever it finds.                 *)
LEMMA ListStep ==
  ASSUME IInv, target \in Paths, pc \notin {"idle", "close"}, ServerOK', tree' = tree,
         doomed' = doomed, Record, target' = target, pc' \in {"idle"} \cup Found \cup Listings
  PROVE  /\ UnderWay' /\ Doomed' /\ RemovesTarget' /\ Searches' /\ (Misled => Misled')
         /\ tree[target] # "dir" \/ faults' # faults => Misled'
<1>1. \A p \in Paths : tree'[p] \in recent'[p] /\ recent[p] \subseteq recent'[p]
  BY RecordKeeps DEF IInv
<1>2. (failed => failed') /\ (faults' # faults => failed')
  BY RecordKeeps DEF IInv
<1>3. Misled => Misled'
  BY <1>1, <1>2, MisledStays DEF IInv
<1>4. tree[target] # "dir" \/ faults' # faults => Misled'
  BY <1>1, <1>2 DEF Misled
<1> QED
  BY <1>1, <1>3, <1>4 DEF IInv, UnderWay, Doomed, RemovesTarget, Searches

(* A listing learns whether it lists a directory, or is misled.            *)
LEMMA ListKindStep == ASSUME IInv, NEW o \in Listings, ListKind(o) PROVE IInv'
<1>1. PICK k \in Kinds : Attributes(target, k) /\ pc' = IF k = "dir" THEN "first" ELSE "self"
  BY DEF ListKind
<1>2. /\ TypeOK /\ target \in Paths /\ pc \notin {"idle", "close"} /\ found = {} /\ todo = {}
      /\ target # Root
  BY RootAssumption DEF IInv, UnderWay, Passes, ListKind
<1>3. /\ ServerOK' /\ tree' = tree /\ doomed' = doomed
      /\ faults' = faults => k = tree[target]
  BY <1>1, <1>2, AskServer DEF KindIn
<1>4. /\ Record /\ UNCHANGED <<target, locals>> /\ pc' \in {"first", "self"}
      /\ answer' = [op |-> o, ret |-> "none"]
  BY <1>1 DEF ListKind
<1>5. TypeOK'
  BY <1>2, <1>3, <1>4, StepTypes DEF AllPc, AllAnswers
<1>6. /\ UnderWay' /\ Doomed' /\ RemovesTarget' /\ Searches'
      /\ tree[target] # "dir" \/ faults' # faults => Misled'
  BY <1>2, <1>3, <1>4, ListStep
<1>7. Passes'
  BY <1>1, <1>2, <1>3, <1>4, <1>6 DEF Passes, locals
<1>8. Answers'
  BY <1>4, NoAnswerYet
<1> QED BY <1>5, <1>6, <1>7, <1>8 DEF IInv

(* A search begins with everything to do.                                  *)
LEMMA ListFirstStep == ASSUME IInv, ListFirst PROVE IInv'
<1>1. /\ TypeOK /\ target \in Paths /\ pc \notin {"idle", "close"} /\ answer.op \in Listings
      /\ found = {}
  BY DEF IInv, TypeOK, UnderWay, Passes, ListFirst
<1>2. /\ Record /\ UNCHANGED <<target, at, attr, found, server, tree, doomed, answer>>
      /\ pc' = "next" /\ todo' = Children(target)
  BY DEF ListFirst, server
<1>3. ServerOK'
  BY <1>1, <1>2 DEF TypeOK, ServerOK, server, IsTree, IsDir, KindIn
<1>4. TypeOK'
  BY <1>1, <1>2, <1>3, RecordKeeps DEF TypeOK, Children
<1>5. UnderWay' /\ Doomed' /\ RemovesTarget' /\ Searches'
  BY <1>1, <1>2, <1>3, ListStep
<1>6. Passes'
  BY <1>1, <1>2 DEF Passes, Passed, Children
<1>7. Answers'
  BY <1>2, NoAnswerYet
<1> QED BY <1>4, <1>5, <1>6, <1>7 DEF IInv

(* Misled, a search finds the path itself, or nothing if that is hidden.   *)
LEMMA ListSelfStep == ASSUME IInv, ListSelf PROVE IInv'
<1>1. /\ TypeOK /\ target \in Paths /\ pc \notin {"idle", "close"} /\ answer.op \in Listings
      /\ found = {} /\ todo = {} /\ Misled /\ tree[target] \in {"file", "dir"}
  BY DEF IInv, TypeOK, ServerOK, Kinds, UnderWay, Passes, ListSelf
<1>2. /\ Record /\ UNCHANGED <<target, at, attr, todo, server, tree, doomed, answer>>
      /\ pc' = "next"
      /\ found' = IF target \in Hidden THEN {} ELSE {[path |-> target, kind |-> tree[target]]}
  BY DEF ListSelf, server
<1>3. ServerOK'
  BY <1>1, <1>2 DEF TypeOK, ServerOK, server, IsTree, IsDir, KindIn
<1>4. TypeOK'
  <2>1. found' \subseteq [path : Children(target) \cup {target}, kind : {"file", "dir"}]
    BY <1>1, <1>2
  <2> QED BY <1>1, <1>2, <1>3, <2>1, RecordKeeps DEF TypeOK, Children
<1>5. UnderWay' /\ Doomed' /\ RemovesTarget' /\ Searches' /\ Misled'
  BY <1>1, <1>2, <1>3, ListStep
<1>6. Passes'
  <2>1. \A e \in found' : e.path = target /\ e.kind \in recent'[e.path]
    BY <1>1, <1>2, <1>3, RecordKeeps
  <2> QED BY <1>1, <1>2, <1>5, <2>1 DEF Passes, Passed
<1>7. Answers'
  BY <1>2, NoAnswerYet
<1> QED BY <1>4, <1>5, <1>6, <1>7 DEF IInv

(* An entry passed is found as it is, if it is visible.                    *)
LEMMA ListNextStep == ASSUME IInv, NEW p \in Paths, ListNext(p) PROVE IInv'
<1>1. /\ TypeOK /\ target \in Paths /\ pc = "next" /\ answer.op \in Listings
      /\ p \in todo /\ p \in Children(target)
      /\ tree \in [Paths -> Kinds] /\ Passed
  BY DEF IInv, TypeOK, ServerOK, UnderWay, Passes, ListNext
<1>2. /\ Record /\ UNCHANGED <<target, at, attr, server, tree, doomed, answer>>
      /\ pc' = "next" /\ todo' = todo \ {p}
      /\ found' = IF tree[p] = "none" \/ p \in Hidden THEN found
                  ELSE found \cup {[path |-> p, kind |-> tree[p]]}
  BY DEF ListNext, server
<1>3. ServerOK'
  BY <1>1, <1>2 DEF TypeOK, ServerOK, server, IsTree, IsDir, KindIn
<1>4. /\ recent' \in [Paths -> (SUBSET Kinds) \ {{}}]
      /\ \A q \in Paths : tree'[q] \in recent'[q] /\ recent[q] \subseteq recent'[q]
  BY <1>1, <1>3, <1>2, RecordKeeps
<1>5. /\ \A e \in found : e.path \in Children(target) /\ e.path \in Paths
      /\ found \subseteq [path : Children(target) \cup {target}, kind : {"file", "dir"}]
      /\ \A q \in Children(target) \ (Hidden \cup todo) :
           "none" \notin recent[q] => \E e \in found : e.path = q
  BY <1>1 DEF Passed, TypeOK, Children
<1>6. TypeOK'
  <2>1. tree[p] # "none" => tree[p] \in {"file", "dir"}
    BY <1>1 DEF Kinds
  <2>2. found' \subseteq [path : Children(target) \cup {target}, kind : {"file", "dir"}]
    BY <1>1, <1>2, <1>5, <2>1
  <2> QED BY <1>1, <1>2, <1>3, <2>2, RecordKeeps DEF TypeOK, Children
<1>7. UnderWay' /\ Doomed' /\ RemovesTarget' /\ Searches'
  BY <1>1, <1>2, <1>3, ListStep
<1>8. Passes'
  <2>1. Children(target') = Children(target) /\ Children(target) \subseteq Paths
    BY <1>2 DEF Children
  <2>2. \A e \in found' : e.kind \in recent'[e.path] /\ e.path \in Children(target)
    <3> SUFFICES ASSUME NEW e \in found'
                 PROVE  e.kind \in recent'[e.path] /\ e.path \in Children(target)
      OBVIOUS
    <3>1. CASE e \in found
      BY <1>1, <1>4, <1>5, <3>1 DEF Passed
    <3>2. CASE e = [path |-> p, kind |-> tree[p]]
      BY <1>1, <1>2, <1>4, <3>2
    <3> QED BY <1>2, <3>1, <3>2
  <2>3. ASSUME NEW q \in Children(target) \ (Hidden \cup todo'), "none" \notin recent'[q]
        PROVE  \E e \in found' : e.path = q
    <3>1. CASE q = p
      <4>1. p \notin Hidden /\ tree[p] # "none"
        BY <1>2, <1>4, <2>1, <2>3, <3>1
      <4>2. [path |-> p, kind |-> tree[p]] \in found'
        BY <1>2, <4>1
      <4> QED BY <3>1, <4>2
    <3>2. CASE q # p
      BY <1>2, <1>4, <1>5, <2>1, <2>3, <3>2
    <3> QED BY <3>1, <3>2
  <2>4. Passed'
    BY <1>2, <2>1, <2>2, <2>3 DEF Passed
  <2> QED BY <1>1, <1>2, <2>4 DEF Passes
<1>9. Answers'
  BY <1>2, NoAnswerYet
<1> QED BY <1>6, <1>7, <1>8, <1>9 DEF IInv

(* With nothing to do any more, the search shows what it has found.        *)
LEMMA ListEndStep == ASSUME IInv, ListEnd PROVE IInv'
<1>1. /\ TypeOK /\ target \in Paths /\ pc = "next" /\ answer.op \in Listings /\ todo = {}
      /\ Passed
  BY DEF IInv, UnderWay, Passes, ListEnd
<1>2. /\ Record /\ UNCHANGED <<target, locals, server, tree, doomed, found>>
      /\ pc' = "idle" /\ answer' = [op |-> answer.op, ret |-> "array"]
  BY DEF ListEnd, server, locals
<1>3. ServerOK'
  BY <1>1, <1>2 DEF TypeOK, ServerOK, server, IsTree, IsDir, KindIn
<1>4. \A q \in Paths : tree'[q] \in recent'[q] /\ recent[q] \subseteq recent'[q]
  BY <1>1, <1>3, <1>2, RecordKeeps
<1>5. TypeOK'
  BY <1>1, <1>2, <1>3, StepTypes DEF AllPc, AllAnswers
<1>6. UnderWay' /\ Doomed' /\ RemovesTarget' /\ Searches' /\ (Misled => Misled')
  BY <1>1, <1>2, <1>3, ListStep
<1>7. Passes'
  BY <1>2 DEF Passes
<1>8. ListingIsTrue'
  <2>1. Children(target') = Children(target) /\ Children(target) \subseteq Paths
    BY <1>2 DEF Children
  <2>2. \A e \in found' : e.kind \in recent'[e.path]
    <3>1. \A e \in found : e.path \in Paths
      BY <1>1, <2>1 DEF TypeOK
    <3> QED BY <1>1, <1>2, <1>4, <3>1 DEF Passed
  <2>3. \/ Whole'
        \/ Misled' /\ found' # {} /\ \A e \in found' : e.path = target'
        \/ Misled' /\ found' = {} /\ target' \in Hidden
    BY <1>1, <1>2, <1>4, <1>6, <2>1 DEF Passed, Whole
  <2> QED BY <1>2, <2>2, <2>3 DEF ListingIsTrue
<1>9. Answers'
  BY <1>1, <1>2, <1>8, ListReturns
<1> QED BY <1>5, <1>6, <1>7, <1>9 DEF IInv

(* A search that fails had a reason to, and shows nothing, or no array.    *)
LEMMA ListFailsStep == ASSUME IInv, ListFails PROVE IInv'
<1>1. /\ TypeOK /\ target \in Paths /\ pc \notin {"idle", "close"} /\ answer.op \in Listings
      /\ doomed \in SUBSET Paths /\ faults \in Nat
  BY ServerBounds DEF IInv, TypeOK, ServerOK, UnderWay, Passes, ListFails
<1>2. /\ Record /\ UNCHANGED <<target, locals, doomed, changes, tree, found>>
      /\ NoFault \/ Fault
      /\ pc' = "idle" /\ answer' = [op |-> answer.op, ret |-> Failed]
  BY DEF ListFails, locals
<1>3. answer'.op = answer.op /\ answer'.ret = Failed /\ Failed \in {"array", "null", "nulls"}
  BY <1>2 DEF Failed
<1>4. ServerOK'
  BY <1>1, <1>2, QuietServer
<1>5. TypeOK'
  BY <1>1, <1>2, <1>3, <1>4, StepTypes DEF AllPc, AllAnswers
<1>6. /\ UnderWay' /\ Doomed' /\ RemovesTarget' /\ Searches'
      /\ tree[target] # "dir" \/ faults' # faults => Misled'
  BY <1>1, <1>2, <1>4, ListStep
<1>7. Misled'
  <2>1. tree[target] # "dir" \/ Fault
    BY DEF ListFails
  <2> QED BY <1>1, <1>6, <2>1 DEF Fault
<1>8. ListingIsTrue'
  <2>1. answer'.ret = "array" => answer'.op = "list" /\ found' = {}
    BY <1>1, <1>2, <1>3 DEF Failed
  <2> QED BY <1>7, <2>1 DEF ListingIsTrue, Returned
<1>9. Passes' /\ Answers'
  BY <1>1, <1>2, <1>3, <1>8, ListReturns DEF Passes
<1> QED BY <1>5, <1>6, <1>9 DEF IInv

-----------------------------------------------------------------------------
(* Another client fills or removes no doomed directory, and what a listing *)
(* has found has still been there.                                         *)
LEMMA InterferenceStep == ASSUME IInv, Interference PROVE IInv'
<1>1. TypeOK /\ ServerOK
  BY DEF IInv, TypeOK
<1>2. PICK p \in Paths :
        \/ CanAdd(p) /\ \E k \in {"file", "dir"} : tree' = With(p, k)
        \/ CanRemove(p) /\ tree' = With(p, "none")
  BY DEF Interference, OtherClient
<1>3. tree' \in [Paths -> Kinds] /\ IsTree(tree')
  BY <1>1, <1>2, AddKeepsTree, RemoveKeepsTree DEF CanRemove
<1>4. /\ UNCHANGED <<pc, target, at, attr, todo, found, answer, made, removed, before, failed,
                      doomed, faults>>
      /\ calm' = FALSE /\ Watch
      /\ changes' \in 0 .. MaxChanges
  BY <1>1, ServerBounds DEF Interference, OtherClient, locals, ServerOK
<1>5. ServerOK'
  BY <1>1, <1>3, <1>4 DEF ServerOK, IsTree, IsDir, KindIn
<1>6. /\ recent' \in [Paths -> (SUBSET Kinds) \ {{}}]
      /\ \A q \in Paths : tree'[q] \in recent'[q] /\ recent[q] \subseteq recent'[q]
  BY <1>1, <1>3, <1>4, WatchKeeps
<1>7. TypeOK'
  BY <1>1, <1>4, <1>5, <1>6 DEF TypeOK, Children
<1>8. UnderWay' /\ RemovesTarget' /\ Searches'
  BY <1>4, <1>6 DEF IInv, UnderWay, RemovesTarget, Searches
<1>9. Doomed'
  <2> SUFFICES ASSUME pc = "close" PROVE tree'[target] = "dir" /\ IsEmpty(tree', target)
    BY <1>4 DEF IInv, Doomed, IsEmpty, Children
  <2>1. /\ doomed = {target} /\ tree[target] = "dir" /\ \A q \in Children(target) : tree[q] = "none"
        /\ target \in Paths
    BY DEF IInv, Doomed, UnderWay, IsEmpty
  <2>2. p # target /\ (CanAdd(p) => p \notin Children(target))
    BY <1>2, <2>1 DEF CanAdd, CanRemove, Children
  <2>3. \A q \in Paths : q # p => tree'[q] = tree[q]
    BY <1>1, <1>2 DEF With, ServerOK
  <2>4. CASE CanAdd(p)
    BY <2>1, <2>2, <2>3, <2>4 DEF IsEmpty, Children
  <2>5. CASE CanRemove(p)
    BY <1>1, <1>2, <2>1, <2>2, <2>5 DEF CanRemove, CanAdd, Children, IsEmpty, With, ServerOK
  <2> QED BY <1>2, <2>4, <2>5
<1>10. Children(target') = Children(target) /\ Children(target) \subseteq Paths
  BY <1>4 DEF Children
<1>11. ASSUME target \in Paths
       PROVE  /\ Misled => Misled'
              /\ (\A e \in found : e.kind \in recent[e.path])
                   => \A e \in found' : e.kind \in recent'[e.path]
  <2>1. \A e \in found : e.path \in Paths
    BY <1>1, <1>10, <1>11 DEF TypeOK
  <2> QED BY <1>1, <1>4, <1>6, <1>11, <2>1, MisledStays
<1>12. Passes'
  <2> SUFFICES ASSUME pc = "next" PROVE Passed'
    BY <1>4, <1>6, <1>11 DEF IInv, Passes, UnderWay
  <2>1. target \in Paths /\ Passed
    BY DEF IInv, Passes, UnderWay
  <2> QED BY <1>4, <1>6, <1>10, <1>11, <2>1 DEF Passed
<1>13. ListingIsTrue'
  <2> SUFFICES ASSUME NEW o \in Listings, Returned(o)
               PROVE  IF answer.ret = "array"
                      THEN /\ \A e \in found' : e.kind \in recent'[e.path]
                           /\ \/ Whole'
                              \/ Misled' /\ found # {} /\ \A e \in found : e.path = target
                              \/ Misled' /\ found = {} /\ (o = "list" \/ target \in Hidden)
                      ELSE Misled'
    BY <1>4 DEF ListingIsTrue, Returned
  <2>1. target \in Paths
    BY DEF IInv, UnderWay, Returned
  <2>2. Whole => Whole'
    BY <1>4, <1>6, <1>10 DEF Whole
  <2> QED BY <1>11, <2>1, <2>2 DEF IInv, Answers, ListingIsTrue
<1>14. Answers'
  BY <1>4, <1>13 DEF IInv, Answers, DeleteTrueMeansRemoved, MkdirsGetsNearer,
     MkdirsTrueMeansMade, Returned
<1> QED BY <1>7, <1>8, <1>9, <1>12, <1>14 DEF IInv

(* The invariant is inductive.                                             *)
LEMMA StepIInv == IInv /\ [Next]_vars => IInv'
<1> SUFFICES ASSUME IInv, [Next]_vars PROVE IInv'
  OBVIOUS
<1>1. ASSUME NEW p \in Paths, FileCalls(p) PROVE IInv'
  <2>1. CASE CreateNewFile(p) \/ Mkdir(p) \/ \E q \in Paths : RenameTo(p, q)
    BY <2>1, SingleStep
  <2>2. CASE BeginMkdirs(p)
    <3>1. Missing(p) \in SUBSET Paths
      BY LineageGoesUp DEF Missing
    <3> QED BY <2>2, <3>1, BeginStep DEF BeginMkdirs
  <2>3. CASE BeginDelete(p)
    BY <2>3, BeginStep DEF BeginDelete
  <2>4. ASSUME NEW o \in Listings, BeginList(p, o) PROVE IInv'
    BY <2>4, BeginStep DEF BeginList
  <2> QED BY <1>1, <2>1, <2>2, <2>3, <2>4 DEF FileCalls
<1>2. CASE Steps
  <2>1. CASE MkdirsProbe \/ MkdirsMakes \/ MkdirsSkips
    BY <2>1, MkdirsProbeStep, MkdirsMakesStep, MkdirsSkipsStep
  <2>2. CASE DeleteKind \/ DeleteFile \/ RemoveDirectory
    BY <2>2, DeleteKindStep, DeleteFileStep, RemoveDirectoryStep
  <2>3. CASE OpenToDelete \/ OpenToDeleteFails \/ CloseDeletes
    BY <2>3, OpenToDeleteStep, OpenToDeleteFailsStep, CloseDeletesStep
  <2>4. CASE (\E o \in Listings : ListKind(o)) \/ ListSelf \/ ListFirst
    BY <2>4, ListKindStep, ListSelfStep, ListFirstStep
  <2>5. CASE (\E p \in Paths : ListNext(p)) \/ ListEnd \/ ListFails
    BY <2>5, ListNextStep, ListEndStep, ListFailsStep
  <2> QED BY <1>2, <2>1, <2>2, <2>3, <2>4, <2>5 DEF Steps
<1>3. CASE Interference
  BY <1>3, InterferenceStep
<1>4. CASE UNCHANGED vars
  BY <1>4 DEF vars, server, locals, history, IInv, TypeOK, ServerOK, IsTree, IsDir, KindIn,
     IsEmpty, Children, UnderWay, Doomed, RemovesTarget, Searches, Missing, Passes, Answers,
     DeleteTrueMeansRemoved, MkdirsGetsNearer, MkdirsTrueMeansMade, ListingIsTrue, Returned,
     Misled, Whole, Passed
<1> QED BY <1>1, <1>2, <1>3, <1>4 DEF Next

(* It holds of every state of every behaviour.                             *)
LEMMA AlwaysIInv == Spec => []IInv
BY InitIInv, StepIInv, PTL DEF Spec

-----------------------------------------------------------------------------
(* File's calls keep to their types: the tree stays one whatever they and  *)
(* other clients do to it, and mkdirs turns round at the root.             *)
THEOREM FilesTypeOK == Spec => []TypeOK
<1>1. IInv => TypeOK
  BY DEF IInv
<1> QED BY <1>1, AlwaysIInv, PTL

(* delete returns true only when it has removed its path and nothing else, *)
(* whatever fails and whoever comes between its requests.                  *)
THEOREM FilesDeleteTrueMeansRemoved == Spec => []DeleteTrueMeansRemoved
<1>1. IInv => DeleteTrueMeansRemoved
  BY DEF IInv, Answers
<1> QED BY <1>1, AlwaysIInv, PTL

(* An undisturbed mkdirs makes at least one of the directories missing,    *)
(* however deep they are.                                                  *)
THEOREM FilesMkdirsGetsNearer == Spec => []MkdirsGetsNearer
<1>1. IInv => MkdirsGetsNearer
  BY DEF IInv, Answers
<1> QED BY <1>1, AlwaysIInv, PTL

(* mkdirs returns true only when it has made the directory it is called    *)
(* for.                                                                    *)
THEOREM FilesMkdirsTrueMeansMade == Spec => []MkdirsTrueMeansMade
<1>1. IInv => MkdirsTrueMeansMade
  BY DEF IInv, Answers
<1> QED BY <1>1, AlwaysIInv, PTL

(* An array that list or listFiles returns has only what was there. Without*)
(* a failed request, and of what is a directory throughout, it is there and*)
(* has every visible entry that was there all the time; otherwise it may be*)
(* of the path itself, or, from list, empty.                               *)
THEOREM FilesListingIsTrue == Spec => []ListingIsTrue
<1>1. IInv => ListingIsTrue
  BY DEF IInv, Answers
<1> QED BY <1>1, AlwaysIInv, PTL

-----------------------------------------------------------------------------
(* FileCache: what a File keeps of its path.                               *)

\* The histories have what is at the path, and what a search has found there.
SeenByAll ==
  /\ node \in Cache!Nodes /\ since \in [Files -> SUBSET Cache!Nodes]
  /\ \A f \in Files : node \in since[f]
  /\ searching \in {"no", "listFiles", "findFile"} /\ hit \in Cache!Nodes
  /\ sinceSearch \in SUBSET Cache!Nodes
  /\ searching # "no" => node \in sinceSearch
  /\ hit # Cache!Nothing => searching # "no" /\ hit \in sinceSearch

CachesOK ==
  /\ attributes \in [Files -> Kinds \cup {"unset"}]
  /\ size \in [Files -> Lengths \cup {Cache!Unset}] /\ date \in [Files -> Nat \cup {Cache!Unset}]
  /\ origin \in [Files -> {"no", "listFiles", "findFile"}]
  /\ nodeChanges \in Nat

\* A File from a search has nothing left to ask that the search has set.
SearchSets ==
  \A f \in Files : origin[f] # "no" =>
    /\ attributes[f] # "unset" /\ size[f] # Cache!Unset
    /\ origin[f] = "findFile" => date[f] # Cache!Unset

CacheInv == SeenByAll /\ CachesOK /\ SearchSets /\ Cache!KnownWasTrue

(* What can be at the path.                                                *)
LEMMA NodesAre ==
  ASSUME NEW n \in Cache!Nodes
  PROVE  /\ n.kind \in Kinds /\ n.length \in Lengths /\ n.length \in Nat /\ n.date \in Nat
         /\ n # Cache!Nothing => n.kind \in {"file", "dir"}
BY CacheAssumption DEF Cache!Nodes, Cache!Nothing, Cache!CacheBounds, Kinds

(* Nothing is known of the path before it is asked for.                    *)
LEMMA InitCacheInv == Cache!Init => CacheInv
BY CacheAssumption DEF Cache!Init, CacheInv, SeenByAll, CachesOK, SearchSets,
   Cache!KnownWasTrue, Cache!Nodes, Cache!Nothing, Cache!Unset, Cache!CacheBounds

(* The invariant is inductive.                                             *)
LEMMA StepCacheInv == CacheInv /\ [Cache!Next]_Cache!vars => CacheInv'
<1> SUFFICES ASSUME CacheInv, [Cache!Next]_Cache!vars PROVE CacheInv'
  OBVIOUS
<1> USE DEF CacheInv, SeenByAll, CachesOK, SearchSets, Cache!KnownWasTrue
<1>1. CASE Cache!Change
  <2>1. /\ node' \in Cache!Nodes /\ nodeChanges' \in Nat
        /\ UNCHANGED <<attributes, size, date, hit, searching, origin>>
        /\ since' = [f \in Files |-> since[f] \cup {node'}]
        /\ sinceSearch' = IF searching = "no" THEN {} ELSE sinceSearch \cup {node'}
    BY <1>1 DEF Cache!Change, Cache!caches
  <2>2. hit' # Cache!Nothing => searching # "no" /\ hit' \in sinceSearch'
    BY <2>1
  <2>3. SeenByAll' /\ CachesOK' /\ SearchSets'
    BY <2>1, <2>2
  <2>4. \A f \in Files : since[f] \subseteq since'[f]
    BY <2>1
  <2>5. Cache!KnownWasTrue'
    BY <2>1, <2>4
  <2> QED BY <2>3, <2>5
<1>2. CASE Cache!BeginSearch
  BY <1>2, CacheAssumption DEF Cache!BeginSearch, Cache!caches, Cache!Nodes
<1>3. CASE Cache!Find
  BY <1>3 DEF Cache!Find, Cache!caches
<1>4. ASSUME NEW f \in Files, Cache!Construct(f) PROVE CacheInv'
  BY <1>4 DEF Cache!Construct, Cache!search, Cache!Unset
<1>5. ASSUME NEW f \in Files, NEW g \in Files, Cache!Copy(f, g) PROVE CacheInv'
  BY <1>5 DEF Cache!Copy, Cache!search
<1>6. ASSUME NEW f \in Files, Cache!getBooleanAttributes(f) PROVE CacheInv'
  BY <1>6, NodesAre
     DEF Cache!getBooleanAttributes, Cache!Fetched, Cache!Asked, Cache!search, Cache!Nothing, Kinds
<1>7. ASSUME NEW f \in Files, Cache!getLength(f) PROVE CacheInv'
  BY <1>7, NodesAre, CacheAssumption
     DEF Cache!getLength, Cache!Fetched, Cache!Asked, Cache!search, Cache!Nothing,
         Cache!CacheBounds, Cache!Unset
<1>8. ASSUME NEW f \in Files, Cache!getLastModifiedTime(f) PROVE CacheInv'
  BY <1>8, NodesAre
     DEF Cache!getLastModifiedTime, Cache!Fetched, Cache!Asked, Cache!search, Cache!Nothing,
         Cache!Unset
<1>9. ASSUME NEW f \in Files, Cache!Keep(f) PROVE CacheInv'
  <2>1. /\ searching # "no" /\ hit \in sinceSearch
        /\ hit.kind \in {"file", "dir"} /\ hit.length \in Lengths \cap Nat /\ hit.date \in Nat
    BY <1>9, NodesAre DEF Cache!Keep
  <2>2. PICK d : d = IF searching = "findFile" THEN hit.date ELSE Cache!Unset
    OBVIOUS
  <2>3. /\ attributes' = [attributes EXCEPT ![f] = hit.kind]
        /\ size' = [size EXCEPT ![f] = hit.length]
        /\ date' = [date EXCEPT ![f] = d]
        /\ since' = [since EXCEPT ![f] = sinceSearch]
        /\ origin' = [origin EXCEPT ![f] = searching]
        /\ hit' = Cache!Nothing /\ searching' = "no" /\ sinceSearch' = {}
        /\ UNCHANGED <<node, nodeChanges>>
    BY <1>9, <2>2 DEF Cache!Keep, Cache!FoundLength, Cache!FoundDate
  <2>4. d \in Nat \cup {Cache!Unset} /\ (searching = "findFile" => d = hit.date /\ d # Cache!Unset)
    BY <2>1, <2>2 DEF Cache!Unset
  <2>5. SeenByAll' /\ CachesOK'
    BY <2>1, <2>3, <2>4 DEF Cache!Nodes, Kinds
  <2>6. SearchSets'
    BY <2>1, <2>3, <2>4 DEF Cache!Unset
  <2>7. Cache!KnownWasTrue'
    <3> SUFFICES ASSUME NEW g \in Files
        PROVE  /\ attributes'[g] \in {"file", "dir"} => \E n \in since'[g] : n.kind = attributes'[g]
               /\ size'[g] > 0 => \E n \in since'[g] : n.length = size'[g]
               /\ date'[g] > 0 => \E n \in since'[g] : n.date = date'[g]
               /\ origin'[g] # "no" /\ size'[g] # Cache!Unset =>
                    \E n \in since'[g] : /\ n.kind = attributes'[g] /\ n.length = size'[g]
                                         /\ origin'[g] = "findFile" => n.date = date'[g]
      OBVIOUS
    <3>1. CASE g = f
      BY <2>1, <2>2, <2>3, <2>4, <3>1 DEF Cache!Unset
    <3>2. CASE g # f
      BY <2>3, <3>2
    <3> QED BY <3>1, <3>2
  <2> QED BY <2>5, <2>6, <2>7
<1>10. CASE UNCHANGED Cache!vars
  BY <1>10 DEF Cache!vars, Cache!caches, Cache!search
<1> QED
  BY <1>1, <1>2, <1>3, <1>4, <1>5, <1>6, <1>7, <1>8, <1>9, <1>10 DEF Cache!Next

(* What a File answers and keeps of its path was so at some moment since it*)
(* was made or its search began; what came from one search, at one moment. *)
THEOREM FilesKnownWasTrue == Cache!Spec => []KnownWasTrue
<1>1. CacheInv => KnownWasTrue
  BY DEF CacheInv, KnownWasTrue
<1> QED BY <1>1, InitCacheInv, StepCacheInv, PTL DEF Cache!Spec
=============================================================================

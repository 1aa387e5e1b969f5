----------------------------- MODULE FileServer -----------------------------
(***************************************************************************)
(* The file server as the code in src uses it: a tree of files and         *)
(* directories that other clients change too, and a connection on which    *)
(* requests fail. It stands for the functions Ofc...W of of_core, which    *)
(* are not part of the repository.                                         *)
(***************************************************************************)
EXTENDS Integers, FiniteSets

CONSTANTS
  Paths,        (* the paths below the root                                  *)
  Root,         (* the root, always a directory                              *)
  Parent,       (* the parent of each path                                   *)
  MaxChanges,   (* bound: changes made by other clients                      *)
  MaxFaults     (* bound: requests that fail for no reason of the tree       *)

ASSUME RootAssumption == Root \notin Paths
ASSUME ParentAssumption == Parent \in [Paths -> Paths \cup {Root}]
ASSUME ServerBounds == MaxChanges \in Nat /\ MaxFaults \in Nat

VARIABLES
  tree,      (* what is at each path                                         *)
  doomed,    (* directories open for deletion when their handle is closed    *)
  changes,   (* changes of other clients so far                              *)
  faults     (* faults so far                                                *)

server == <<tree, doomed, changes, faults>>

Kinds == {"none", "file", "dir"}
Children(p) == {q \in Paths : Parent[q] = p}
KindIn(t, p) == IF p = Root THEN "dir" ELSE t[p]
IsDir(t, p) == KindIn(t, p) = "dir"
IsEmpty(t, p) == \A q \in Children(p) : t[q] = "none"
\* Every entry is in a directory.
IsTree(t) == \A p \in Paths : t[p] # "none" => IsDir(t, Parent[p])

ServerInit ==
  /\ tree \in {t \in [Paths -> Kinds] : IsTree(t)}
  /\ doomed = {} /\ changes = 0 /\ faults = 0

\* A directory that is about to go takes no new entries and is not moved.
CanAdd(p) == tree[p] = "none" /\ IsDir(tree, Parent[p]) /\ Parent[p] \notin doomed
CanRemove(p) == tree[p] # "none" /\ IsEmpty(tree, p) /\ p \notin doomed

With(p, k) == [tree EXCEPT ![p] = k]

Fault == faults < MaxFaults /\ faults' = faults + 1
NoFault == UNCHANGED faults

(* A request to change the tree into t, and whether it is reported to have *)
(* succeeded. A faulty one may have been carried out all the same.         *)
Request(possible, t, ok) ==
  \/ possible /\ ok /\ tree' = t /\ NoFault
  \/ ~possible /\ ~ok /\ tree' = tree /\ NoFault
  \/ ~ok /\ Fault /\ (tree' = tree \/ (possible /\ tree' = t))

\* Another client creates, removes or replaces an entry.
OtherClient ==
  /\ changes < MaxChanges /\ changes' = changes + 1
  /\ \E p \in Paths :
       \/ CanAdd(p) /\ \E k \in {"file", "dir"} : tree' = With(p, k)
       \/ CanRemove(p) /\ tree' = With(p, "none")
  /\ UNCHANGED <<doomed, faults>>

ServerOK ==
  /\ tree \in [Paths -> Kinds] /\ IsTree(tree) /\ doomed \subseteq Paths
  /\ changes \in 0 .. MaxChanges /\ faults \in 0 .. MaxFaults
=============================================================================

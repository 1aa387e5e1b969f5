------------------------------ MODULE FileCache ------------------------------
(***************************************************************************)
(* What the Files of one path know of it. A File keeps the attributes, the *)
(* length and the date of its path, each from the first question on, and   *)
(* never asks again; a File made from another takes over what that one has *)
(* asked, and a File made by a search has what the search found: the       *)
(* attributes and the length from listFiles, the date as well from the     *)
(* findFile of a FileDirectoryStream.                                      *)
(***************************************************************************)
EXTENDS Integers, FiniteSets

CONSTANTS
  Files,        (* the File objects the application keeps                    *)
  Lengths,      (* of files, 0 among them                                    *)
  MaxChanges,   (* bound: changes of what is at the path                     *)
  MaxFaults     (* bound: requests that fail for no reason of the path       *)

CacheBounds ==
  0 \in Lengths /\ Lengths \subseteq Nat /\ MaxChanges \in Nat /\ MaxFaults \in Nat

VARIABLES
  node,         (* what is at the path: its kind, length and date            *)
  attributes, size, date,  (* of each File, "unset" or Unset until asked for *)
  found,        (* find data of the path, while a search is made             *)
  searching,    (* which one is: "no", "listFiles" or "findFile"             *)
  changes, faults,
  since,        (* history: what has been at the path since each File, or    *)
                (* the one it is a copy of, has been made                    *)
  sinceSearch,  (* history: the same for the search under way                *)
  origin        (* history: the search each File comes from, or "no"         *)

caches == <<attributes, size, date>>
search == <<found, searching, sinceSearch>>
vars == <<node, caches, search, changes, faults, since, origin>>

Unset == -1
Nothing == [kind |-> "none", length |-> 0, date |-> 0]
Nodes ==
  {Nothing} \cup {[kind |-> "file", length |-> n, date |-> d] : n \in Lengths, d \in 1 .. MaxChanges + 1}
            \cup {[kind |-> "dir", length |-> 0, date |-> d] : d \in 1 .. MaxChanges + 1}

Init ==
  /\ node \in {n \in Nodes : n.date \in {0, 1}}
  /\ attributes = [f \in Files |-> "unset"]
  /\ size = [f \in Files |-> Unset] /\ date = [f \in Files |-> Unset]
  /\ found = Nothing /\ searching = "no" /\ sinceSearch = {}
  /\ changes = 0 /\ faults = 0
  /\ since = [f \in Files |-> {node}] /\ origin = [f \in Files |-> "no"]

(* Another client, or the application through a stream or another File, at *)
(* any time.                                                               *)
Change ==
  /\ changes < MaxChanges /\ changes' = changes + 1
  /\ node' \in {n \in Nodes : n.date \in {0, changes' + 1}} \ {node}
  /\ since' = [f \in Files |-> since[f] \cup {node'}]
  /\ sinceSearch' = IF searching = "no" THEN {} ELSE sinceSearch \cup {node'}
  /\ UNCHANGED <<caches, found, searching, faults, origin>>

(* OfcGetFileAttributesExW gives n; a request that fails leaves zeros in   *)
(* what is kept.                                                           *)
Fetched(n) ==
  \/ n = node /\ UNCHANGED faults
  \/ n = Nothing /\ faults < MaxFaults /\ faults' = faults + 1

-----------------------------------------------------------------------------
\* new File(...)
Construct(f) ==
  /\ attributes' = [attributes EXCEPT ![f] = "unset"]
  /\ size' = [size EXCEPT ![f] = Unset] /\ date' = [date EXCEPT ![f] = Unset]
  /\ since' = [since EXCEPT ![f] = {node}] /\ origin' = [origin EXCEPT ![f] = "no"]
  /\ UNCHANGED <<node, search, changes, faults>>

\* new File(file)
Copy(f, g) ==
  /\ f # g
  /\ attributes' = [attributes EXCEPT ![f] = attributes[g]]
  /\ size' = [size EXCEPT ![f] = size[g]] /\ date' = [date EXCEPT ![f] = date[g]]
  /\ since' = [since EXCEPT ![f] = since[g]]
  /\ origin' = [origin EXCEPT ![f] = origin[g]]
  /\ UNCHANGED <<node, search, changes, faults>>

Asked == UNCHANGED <<node, search, changes, since, origin>>

\* exists(), isDirectory(), isFile(), ...: the first of them asks.
getBooleanAttributes(f) ==
  /\ attributes[f] = "unset"
  /\ \E n \in {node, Nothing} : Fetched(n) /\ attributes' = [attributes EXCEPT ![f] = n.kind]
  /\ Asked /\ UNCHANGED <<size, date>>

getLength(f) ==
  /\ size[f] = Unset
  /\ \E n \in {node, Nothing} : Fetched(n) /\ size' = [size EXCEPT ![f] = n.length]
  /\ Asked /\ UNCHANGED <<attributes, date>>

getLastModifiedTime(f) ==
  /\ date[f] = Unset
  /\ \E n \in {node, Nothing} : Fetched(n) /\ date' = [date EXCEPT ![f] = n.date]
  /\ Asked /\ UNCHANGED <<attributes, size>>

-----------------------------------------------------------------------------
\* listFiles on the parent, or a FileDirectoryStream, which may find the path.
BeginSearch ==
  /\ searching' \in {"listFiles", "findFile"} /\ found' = Nothing /\ sinceSearch' = {node}
  /\ UNCHANGED <<node, caches, changes, faults, since, origin>>
Find ==
  /\ searching # "no" /\ found = Nothing /\ node # Nothing /\ found' = node
  /\ UNCHANGED <<node, caches, searching, sinceSearch, changes, faults, since, origin>>

\* Mutant: setLength is left to a later question.
LengthUnset == Unset
FoundLength == found.length
\* listFiles does not call setDate.
FoundDate == IF searching = "findFile" THEN found.date ELSE Unset

(* The application keeps the File made with setAttributes and setLength,   *)
(* and setDate, from what was found.                                       *)
Keep(f) ==
  /\ searching # "no" /\ found # Nothing
  /\ attributes' = [attributes EXCEPT ![f] = found.kind]
  /\ size' = [size EXCEPT ![f] = FoundLength] /\ date' = [date EXCEPT ![f] = FoundDate]
  /\ since' = [since EXCEPT ![f] = sinceSearch] /\ origin' = [origin EXCEPT ![f] = searching]
  /\ found' = Nothing /\ searching' = "no" /\ sinceSearch' = {}
  /\ UNCHANGED <<node, changes, faults>>

Next ==
  \/ Change \/ BeginSearch \/ Find
  \/ \E f \in Files :
       \/ Construct(f) \/ \E g \in Files : Copy(f, g)
       \/ getBooleanAttributes(f) \/ getLength(f) \/ getLastModifiedTime(f) \/ Keep(f)

Spec == Init /\ [][Next]_vars

-----------------------------------------------------------------------------
(* What a File says of its path has been so since the File, or the one it  *)
(* is a copy of, was made, or since the search it comes from began; that   *)
(* there is nothing, or of no length or date, may come of a failed request.*)
(* What a File from a search has of it was so at one moment: one that asks *)
(* by itself may mix two.                                                  *)
KnownWasTrue ==
  \A f \in Files :
    /\ attributes[f] \in {"file", "dir"} => \E n \in since[f] : n.kind = attributes[f]
    /\ size[f] > 0 => \E n \in since[f] : n.length = size[f]
    /\ date[f] > 0 => \E n \in since[f] : n.date = date[f]
    /\ origin[f] # "no" /\ size[f] # Unset =>
         \E n \in since[f] : /\ n.kind = attributes[f] /\ n.length = size[f]
                             /\ origin[f] = "findFile" => n.date = date[f]
=============================================================================

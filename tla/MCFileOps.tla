------------------------------ MODULE MCFileOps ------------------------------
(* FileOps on a directory in a directory in a directory, and a file beside *)
(* the last one, and FileCache on one path. The calls of the one and the   *)
(* questions of the other share no state: "work" says which of them a      *)
(* behaviour is about.                                                     *)
EXTENDS FileOps, TLC

CONSTANTS Files, Lengths, MaxWrites

VARIABLES work, node, attributes, size, date, hit, searching, nodeChanges, nodeFaults,
          since, sinceSearch, origin

cacheVars == <<node, attributes, size, date, hit, searching, nodeChanges, nodeFaults,
               since, sinceSearch, origin>>

Cache == INSTANCE FileCache WITH found <- hit, changes <- nodeChanges, faults <- nodeFaults,
                                 MaxChanges <- MaxWrites

Interchangeable == Permutations(Files)

MCParent == [p \in Paths |-> CASE p = "a" -> Root
                               [] p = "ab" -> "a"
                               [] p \in {"abc", "abd"} -> "ab"
                               [] OTHER -> "a"]

ASSUME CacheAssumption == Cache!CacheBounds

MCInit ==
  /\ Init /\ Cache!Init
  /\ \/ work = "calls" /\ node = Cache!Nothing
     \/ work = "questions" /\ tree = [p \in Paths |-> "none"]
MCNext ==
  \/ work = "calls" /\ Next /\ UNCHANGED <<work, cacheVars>>
  \/ work = "questions" /\ Cache!Next /\ UNCHANGED <<work, vars>>
MCSpec == MCInit /\ [][MCNext]_<<vars, cacheVars, work>>

(* What a File answers, and keeps, has been so: the attributes, length and *)
(* date a File caches by itself, from another File or from a listing.      *)
KnownWasTrue == Cache!KnownWasTrue

(* File.mkdirs: "Creates the directory named by this abstract pathname,    *)
(* including any necessary but nonexistent parent directories."            *)
MakesParents ==
  Returned("mkdirs") /\ calm /\ before # {} => made = before
=============================================================================

------------------------------ MODULE Transfer ------------------------------
(***************************************************************************)
(* What a positioned transfer of jiLen bytes promises its caller, without  *)
(* buffers, wait sets or pending counts: consecutive requests are issued,  *)
(* each byte of the array once, each against the file byte at the same     *)
(* distance from jiOffset; bytes move only on behalf of an issued request; *)
(* and the call returns only when none of its requests is outstanding, so  *)
(* that nothing moves afterwards.                                          *)
(***************************************************************************)
EXTENDS Integers, FiniteSets

CONSTANTS MaxRequest,      (* the longest request                            *)
          MaxOutstanding   (* the most requests outstanding at a time        *)

VARIABLES offset, length,  (* the arguments of the call                      *)
          next,            (* array bytes below next have been asked for     *)
          outstanding,     (* array positions of the requests in flight      *)
          moved,           (* <<p, f>>: array byte p holds file byte f       *)
          returned

vars == <<offset, length, next, outstanding, moved, returned>>

\* The array positions from a up to, and not including, b.
Span(a, b) == a .. b - 1
Pairs(S) == {<<p, offset + p>> : p \in S}

Init == /\ offset \in Nat /\ length \in Nat
        /\ next = 0 /\ outstanding = {} /\ moved = {} /\ returned = FALSE

(* Ask for the bytes up to m. The request is outstanding, or it is over at *)
(* once with the first of its bytes moved.                                 *)
Issue(m) ==
  /\ ~returned /\ next < m /\ m <= length /\ m - next <= MaxRequest
  /\ next' = m
  /\ \/ /\ Cardinality(outstanding) < MaxOutstanding
        /\ outstanding' = outstanding \cup {Span(next, m)}
        /\ moved' = moved
     \/ /\ outstanding' = outstanding
        /\ \E k \in next .. m : moved' = moved \cup Pairs(Span(next, k))
  /\ UNCHANGED <<offset, length, returned>>

\* A request ends, having moved some of its bytes.
Finish(r) ==
  /\ ~returned
  /\ outstanding' = outstanding \ {r}
  /\ \E S \in SUBSET r : moved' = moved \cup Pairs(S)
  /\ UNCHANGED <<offset, length, next, returned>>

Return == /\ ~returned /\ outstanding = {}
          /\ returned' = TRUE
          /\ UNCHANGED <<offset, length, next, outstanding, moved>>

Next == \/ \E m \in next + 1 .. next + MaxRequest : Issue(m)
        \/ \E r \in outstanding : Finish(r)
        \/ Return

Spec == Init /\ [][Next]_vars
=============================================================================

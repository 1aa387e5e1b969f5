-------------------------- MODULE MCOverlappedRead --------------------------
(* OverlappedRead on small calls.                                          *)
EXTENDS OverlappedRead

MCLens == {0, 1, 5, 7}
MCOffsets == {0, 1}
MCFileSizes == {0, 3, 4, 8}
\* Each kind of fault on its own, and all that a loop must survive together.
MCFaultModels ==
  {{}, {"nomem"}, {"error"}, {"short"}, {"sync"}, {"error", "short", "nomem"}}
\* Requests that complete at once.
MCSyncOnly == {{"sync"}}

(* The comment above the cleanup: "The pending count is zero so we've      *)
(* gotten completions either due to errors or eof on all of our            *)
(* outstanding reads and writes."                                          *)
AllCompletionsIn == pc = "returned" => \A b \in Buffers : ov[b].res # "pending"
=============================================================================

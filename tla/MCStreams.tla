------------------------------ MODULE MCStreams ------------------------------
(* Streams on a file of up to three bytes, with all the ways a line ends.   *)
EXTENDS Streams, TLC

MCContents == {<<>>, <<"cr", "lf", "x">>}
MCData == {<<"cr", "lf">>}
Interchangeable == Permutations(Objects) \cup Permutations(Handles)

(* FileWriter: "a boolean indicating whether or not to append the data     *)
(* written": what was there stays.                                         *)
Appends ==
  pc = "idle" /\ call.op \in {"write", "writeAt"} /\ call.ret = "ok" /\ kind[call.s] = "append" =>
    SubSeq(file, 1, Len(call.before)) = call.before
=============================================================================

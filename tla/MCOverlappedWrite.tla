-------------------------- MODULE MCOverlappedWrite -------------------------
(* OverlappedWrite on small calls.                                         *)
EXTENDS OverlappedWrite

MCLens == {0, 1, 5, 7}
MCOffsets == {0, 1}
MCFileSizes == {0}
MCFaultModels ==
  {{}, {"nomem"}, {"error"}, {"short"}, {"sync"}, {"error", "short", "nomem"}}
MCNoFaults == {{}}
MCOffsetOne == {1}

(* FileOutputStream.write and RandomAccessFile.write: "Writes len bytes    *)
(* from the specified byte array starting at offset off".                  *)
WritesTheSubArray == \A m \in moved : m[1] \in jiOffset .. jiOffset + jiLen - 1
=============================================================================

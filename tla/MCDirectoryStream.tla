------------------------- MODULE MCDirectoryStream --------------------------
(* DirectoryStream on every directory of at most five entries.             *)
EXTENDS DirectoryStream

MCDirectories == UNION {[1 .. n -> {"file", "hidden"}] : n \in 0 .. 5}
=============================================================================

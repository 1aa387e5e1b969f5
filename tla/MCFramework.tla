----------------------------- MODULE MCFramework -----------------------------
(* Framework with interfaces of three networks, one of them given by an     *)
(* IPv6 address, and with Files of up to three names.                        *)
EXTENDS Framework, TLC

MCNames == {"a", "h"}
MCV4 == {10, 20, 255}
MCV6 == {6}
MCLow == [a \in MCV6 |-> 20]
\* 255 is the mask of a network; under any other, all addresses are of one.
MCNet == [x \in (MCV4 \cup MCV6) \X (MCV4 \cup MCV6) |-> IF x[2] = 255 THEN x[1] \div 10 ELSE 0]

Iface(mode, ip, bcast, lmb, wins) ==
  [mode |-> mode, ip |-> ip, bcast |-> bcast, mask |-> 255, lmb |-> lmb, wins |-> wins]
MCJavaInterfaces ==
  {Iface("HMODE", 10, 20, Null, <<20, 6>>),
   Iface(Null, 20, Null, "l", Null)}
MCLmbs == {"l"}

Map(name, desc, path, type, thumbnail) ==
  [name |-> name, desc |-> desc, path |-> path, type |-> type, thumbnail |-> thumbnail]
Server == <<Sep, Sep, "a">>
MCJavaMaps ==
  {Map("h", Null, Server, t, TRUE) : t \in {Null, "WIN32", "SMB", "FILE", "ROOT", "SERVER"}}
    \cup {Map("a", <<"a">>, Null, "SMB", FALSE)}

\* Paths of up to five characters.
Words == UNION {[1 .. n -> {"a", "h", Sep, ":"}] : n \in 0 .. 5}
MCPathnames == {p \in Words : Pathname(p)}
Interchangeable == Permutations(Threads)
=============================================================================

-------------------------------- MODULE Paths --------------------------------
(***************************************************************************)
(* Pathnames, as com.connectedway.io.File and the native methods of        *)
(* FileSystem behind it take them apart and put them together. A pathname  *)
(* is a sequence of characters; a name in it is one character. OFC_PATH,   *)
(* of of_core, is a record of its parts.                                   *)
(***************************************************************************)
EXTENDS Integers, Sequences

CONSTANTS Names,    (* of devices, servers, shares, directories and files    *)
          Null

Sep == "/"
Characters == Names \cup {Sep, ":"}

(* Names are apart from each other, and only a device has a colon: what    *)
(* else a name may hold is in the choice of Names.                         *)
Pathname(p) ==
  /\ p \in Seq(Characters)
  /\ \A i \in 1 .. Len(p) - 1 : ~({p[i], p[i + 1]} \subseteq Names)
  /\ \A i \in DOMAIN p : p[i] = ":" => i = 2 /\ p[1] \in Names

ASSUME NamesAssumption == {Sep, ":", Null} \cap Names = {} /\ ~Pathname(Null)

Starts(s, p) == Len(s) <= Len(p) /\ SubSeq(p, 1, Len(s)) = s

\* The names in p from left to right, by a function: those of the first n characters.
NamesIn(p) ==
  LET upTo[n \in 0 .. Len(p)] ==
        IF n = 0 THEN <<>>
        ELSE IF p[n] \in Names THEN Append(upTo[n - 1], p[n]) ELSE upTo[n - 1]
  IN upTo[Len(p)]

-----------------------------------------------------------------------------
(* OFC_PATH: a device and a colon, two separators for a path on a server,  *)
(* one for an absolute path; a separator between names.                    *)
HasDevice(p) == Len(p) > 1 /\ p[2] = ":"
ofc_path_create(p) ==
  LET rest == IF HasDevice(p) THEN SubSeq(p, 3, Len(p)) ELSE p
  IN [device   |-> IF HasDevice(p) THEN p[1] ELSE Null,
      remote   |-> Starts(<<Sep, Sep>>, rest),
      absolute |-> Starts(<<Sep>>, rest),
      names    |-> NamesIn(rest)]

Separated(s) == [i \in 1 .. 2 * Len(s) - 1 |-> IF i % 2 = 1 THEN s[(i + 1) \div 2] ELSE Sep]
DeviceOf(q) == IF q.device # Null THEN <<q.device, ":">> ELSE <<>>
SeparatorsOf(q) ==
  IF q.remote \/ (q.device # Null /\ q.absolute) THEN <<Sep, Sep>>
  ELSE IF q.absolute THEN <<Sep>> ELSE <<>>
ofc_path_print(q) == DeviceOf(q) \o (SeparatorsOf(q) \o Separated(q.names))

\* The parent's parts come before those of the child.
ofc_path_update(child, parent) == [parent EXCEPT !.names = @ \o child.names]

(* Whether the device of the path is among the prefixes that are mapped;   *)
(* a path that is not is of an SMB server if it is remote.                 *)
ofc_path_map_device(p, prefixes) == ofc_path_create(p).device \in prefixes
IsSMB(p) == LET q == ofc_path_create(p) IN q.device = Null /\ q.remote

-----------------------------------------------------------------------------
\* FileSystem
normalize(p) ==
  LET n == ofc_path_print(ofc_path_create(p)) IN IF n = <<>> THEN p ELSE n

prefixLength(p) ==
  LET q == ofc_path_create(p)
  IN IF q.device # Null THEN 2 + (IF q.absolute THEN 2 ELSE 0)
     ELSE IF q.remote THEN 2
     ELSE IF q.absolute THEN 1 ELSE 0

resolve(parent, child) ==
  ofc_path_print(ofc_path_update(ofc_path_create(child), ofc_path_create(parent)))

\* ofc_path_absolute
isAbsolute(p) == ofc_path_create(p).absolute
\* Of a File; no path is relative to a current directory.
resolveFile(p) == ofc_path_print(ofc_path_create(p))

isRemoteFile(p, prefixes) == ofc_path_map_device(p, prefixes) \/ IsSMB(p)

-----------------------------------------------------------------------------
\* File: a File is its pathname, which is normal.
NewFile(p) == normalize(p)
NewChild(parent, child) == resolve(parent, normalize(child))

getAbsoluteFile(p) == NewFile(resolveFile(p))

\* Where the last separator is, the first position being 1; 0 for none.
LastSeparator(p) ==
  LET at == {i \in 1 .. Len(p) : p[i] = Sep}
  IN IF at = {} THEN 0 ELSE CHOOSE i \in at : \A j \in at : j <= i
getName(p) == SubSeq(p, LastSeparator(p) + 1, Len(p))

Up(p) == NewFile(SubSeq(p, 1, LastSeparator(p) - 1))
getParentFile(p, prefixes) ==
  IF Len(p) <= prefixLength(p) THEN Null
  ELSE IF LastSeparator(p) <= prefixLength(p)
       THEN NewFile(IF isRemoteFile(p, prefixes) THEN <<Sep, Sep>> ELSE <<Sep>>)
       ELSE Up(p)
=============================================================================

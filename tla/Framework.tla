------------------------------ MODULE Framework ------------------------------
(***************************************************************************)
(* The natives of com.connectedway.io.Framework by which an application    *)
(* gives of_core its maps and network interfaces and gets them back, the   *)
(* conversions between Java objects and C structures on the way, and Files *)
(* under the prefixes mapped, which are remote while the map is there.     *)
(*                                                                         *)
(* Interfaces and maps share no state: "work" says which of them a         *)
(* behaviour is about.                                                     *)
(***************************************************************************)
EXTENDS Paths, FiniteSets

CONSTANTS
  Threads,        (* of the application                                      *)
  V4, V6,         (* addresses                                               *)
  Low,            (* the IPv4 address in the first bytes of an IPv6 one      *)
  Net,            (* the network of an address under a mask                  *)
  Lmbs,           (* names of local master browsers                          *)
  JavaInterfaces, JavaMaps,  (* objects the application makes                *)
  Pathnames,      (* of which it makes Files                                 *)
  MaxInterfaces   (* bound: interfaces in of_core                            *)

Addresses == V4 \cup V6
Modes == {"BMODE", "PMODE", "MMODE", "HMODE"}
mapType == {"WIN32", "DARWIN", "LINUX", "FILEX", "NUFILE", "ANDROID", "OTHER", "SMB", "FILE",
            "PIPE", "MAILSLOT", "ROOT", "WORKGROUP", "SERVER", "BOOKMARK", "UNKNOWN"}
Maybe(S) == S \cup {Null}

ASSUME AddressAssumption ==
  /\ Low \in [V6 -> V4] /\ DOMAIN Net = Addresses \X Addresses /\ V4 \cap V6 = {}
  /\ Null \notin Addresses /\ Null \notin Lmbs
\* Any part of a Java object may be null.
InterfaceObjects ==
  [mode : Maybe(Modes), lmb : Maybe(Lmbs), ip : Maybe(Addresses), bcast : Maybe(Addresses),
   mask : Maybe(Addresses), wins : Maybe(Seq(Addresses))]
ASSUME ObjectAssumption ==
  /\ JavaInterfaces \subseteq InterfaceObjects
  /\ \A m \in JavaMaps :
       /\ m.name \in Names /\ m.type \in Maybe(mapType)
       /\ m.path = Null \/ (Pathname(m.path) /\ m.path = normalize(m.path))
  /\ \A p \in Pathnames : Pathname(p)
ASSUME FrameworkBounds == MaxInterfaces \in Nat

VARIABLES
  work,      (* "interfaces" or "maps"                                       *)
  ifaces,    (* of_core: the sequence of OFC_FRAMEWORK_INTERFACEs            *)
  maps,      (* of_core: OFC_FRAMEWORK_MAPs by prefix                        *)
  pc, call,  (* of each thread; call holds the locals of setLMB              *)
  file,      (* a File whose parents the application asks for, or Null       *)
  answer,    (* what the call made last returned                             *)
  given,     (* history: the Java objects behind ifaces, with the master set *)
             (* last, and the address it has been set for                    *)
  raced,     (* history: an interface has been removed during a setLMB       *)
  mapped,    (* history: the Java object of each map                         *)
  below      (* history: the Files that led up to file, the lowest first     *)

interfaces == <<ifaces, given, raced, pc, call>>
paths == <<maps, mapped, file, below>>
vars == <<work, interfaces, paths, answer>>

NoCall == [i |-> 0, a |-> Null, lmb |-> Null, ip |-> Null, mask |-> Null, before |-> 0]
NoAnswer == [op |-> "none", ret |-> Null]
Answer(o, r) == answer' = [op |-> o, ret |-> r]

Init ==
  /\ work \in {"interfaces", "maps"}
  /\ ifaces = <<>> /\ given = <<>> /\ raced = FALSE
  /\ pc = [t \in Threads |-> "idle"] /\ call = [t \in Threads |-> NoCall]
  /\ maps = [n \in Names |-> Null] /\ mapped = [n \in Names |-> Null]
  /\ file = Null /\ below = <<>> /\ answer = NoAnswer

-----------------------------------------------------------------------------
\* Conversions of interfaces.
\* Mutant: a null mode is taken for one.
AnyMode(j) == j.mode
interface_get_netbios_mode(j) == IF j.mode = Null THEN "BMODE" ELSE j.mode
(* For a null address nothing is written to the structure, which lies on   *)
(* the stack: any address may be there.                                    *)
AddressIn(a) == IF a = Null THEN Addresses ELSE {a}
interface_get_wins(j) == IF j.wins = Null THEN <<>> ELSE j.wins

\* The OFC_FRAMEWORK_INTERFACEs addInterface may make of j.
InterfaceIn(j) ==
  {[mode |-> interface_get_netbios_mode(j), ip |-> ip, bcast |-> bcast, mask |-> mask,
    lmb |-> j.lmb, wins |-> interface_get_wins(j)] :
     ip \in AddressIn(j.ip), bcast \in AddressIn(j.bcast), mask \in AddressIn(j.mask)}

\* Four bytes, whatever the address.
new_inet_address(a) == IF a \in V6 THEN Low[a] ELSE a
new_wins(w) == [i \in DOMAIN w |-> new_inet_address(w[i])]
\* Mutant: mask and broadcast address change places.
Swapped(c) ==
  [c EXCEPT !.ip = new_inet_address(@), !.bcast = new_inet_address(c.mask),
            !.mask = new_inet_address(c.bcast), !.wins = new_wins(@)]
new_interface(c) ==
  [c EXCEPT !.ip = new_inet_address(@), !.bcast = new_inet_address(@),
            !.mask = new_inet_address(@), !.wins = new_wins(@)]

-----------------------------------------------------------------------------
Idle(t) == work = "interfaces" /\ pc[t] = "idle"
InSetLMB == \E t \in Threads : pc[t] # "idle"

addInterface(t, j) ==
  /\ Idle(t) /\ Len(ifaces) < MaxInterfaces
  /\ \E c \in InterfaceIn(j) : ifaces' = Append(ifaces, c)
  /\ given' = Append(given, [object |-> j, for |-> Null]) /\ answer' = NoAnswer
  /\ UNCHANGED <<work, paths, raced, pc, call>>

Without(s, k) == SubSeq(s, 1, k - 1) \o SubSeq(s, k + 1, Len(s))

\* of_core has an interface of the address, or does nothing.
removeInterface(t, a) ==
  /\ Idle(t)
  /\ \E k \in DOMAIN ifaces :
       /\ ifaces[k].ip = a /\ \A i \in 1 .. k - 1 : ifaces[i].ip # a
       /\ ifaces' = Without(ifaces, k) /\ given' = Without(given, k)
  /\ raced' = (raced \/ InSetLMB) /\ answer' = NoAnswer
  /\ UNCHANGED <<work, paths, pc, call>>

\* A null array when of_core gives none.
getInterfaces(t) ==
  /\ Idle(t)
  /\ Answer("getInterfaces",
            IF ifaces = <<>> THEN Null ELSE [i \in DOMAIN ifaces |-> new_interface(ifaces[i])])
  /\ UNCHANGED <<work, paths, interfaces>>

-----------------------------------------------------------------------------
(* setLMB asks of_core for the number of interfaces and for one interface  *)
(* after the other, and then names the one to change by its number. The    *)
(* interfaces are counted from 1 here.                                     *)
setLMB(t, a, l) ==
  /\ Idle(t)
  /\ call' = [call EXCEPT ![t] = [NoCall EXCEPT !.i = 1, !.a = a, !.lmb = l, !.before = Len(ifaces)]]
  /\ pc' = [pc EXCEPT ![t] = "count"] /\ answer' = NoAnswer
  /\ UNCHANGED <<work, paths, ifaces, given, raced>>

Goto(t, where) == pc' = [pc EXCEPT ![t] = where]
SetLMBReturns(t, r) ==
  /\ Goto(t, "idle") /\ call' = [call EXCEPT ![t] = NoCall]
  /\ answer' = [op |-> "setLMB", ret |-> r, a |-> call[t].a, before |-> call[t].before]

\* ofc_persist_interface_count
Count(t) ==
  /\ pc[t] = "count"
  /\ IF call[t].i <= Len(ifaces) THEN Goto(t, "addr") /\ UNCHANGED <<call, answer>>
     ELSE SetLMBReturns(t, "false")
  /\ UNCHANGED <<work, paths, ifaces, given, raced>>

\* ofc_net_subnet_match
subnet_match(a, ip, mask) == Net[<<a, mask>>] = Net[<<ip, mask>>]

(* ofc_persist_interface_addr leaves if_ip and if_mask as they are when    *)
(* there is no such interface any more; at first they are not initialised. *)
AddrOf(c) ==
  IF c.i <= Len(ifaces) THEN {<<ifaces[c.i].ip, ifaces[c.i].mask>>}
  ELSE IF c.ip # Null THEN {<<c.ip, c.mask>>} ELSE V4 \X V4
Addr(t) ==
  /\ pc[t] = "addr"
  /\ \E got \in AddrOf(call[t]) :
     LET c == [call[t] EXCEPT !.ip = got[1], !.mask = got[2]]
     IN IF subnet_match(c.a, c.ip, c.mask)
        THEN Goto(t, "set") /\ call' = [call EXCEPT ![t] = c]
        ELSE Goto(t, "count") /\ call' = [call EXCEPT ![t] = [c EXCEPT !.i = @ + 1]]
  /\ UNCHANGED <<work, paths, ifaces, given, raced, answer>>

\* Mutant: the loop does not end with the first match.
GoOn(t) ==
  Goto(t, "count") /\ call' = [call EXCEPT ![t].i = @ + 1] /\ UNCHANGED answer
Stop(t) == SetLMBReturns(t, "true")

\* ofc_persist_set_local_master
SetLocalMaster(t) ==
  /\ pc[t] = "set" /\ Stop(t)
  /\ LET k == call[t].i
     IN IF k > Len(ifaces) THEN UNCHANGED <<ifaces, given>>
        ELSE /\ ifaces' = [ifaces EXCEPT ![k].lmb = call[t].lmb]
             /\ given' = [given EXCEPT ![k].object.lmb = call[t].lmb, ![k].for = call[t].a]
  /\ UNCHANGED <<work, paths, raced>>

-----------------------------------------------------------------------------
\* Conversions of maps. OFC_FST_ names that are not those of mapType:
Renamed == [ROOT |-> "BROWSE_WORKGROUPS", WORKGROUP |-> "BROWSE_SERVERS",
            SERVER |-> "BROWSE_SHARES", BOOKMARK |-> "BOOKMARKS"]
\* FILE is not among the names map_get_type knows.
map_get_type(t) ==
  IF t \in {Null, "FILE"} THEN "UNKNOWN"
  ELSE IF t \in DOMAIN Renamed THEN Renamed[t] ELSE t
new_map_type(f) ==
  IF \E t \in DOMAIN Renamed : Renamed[t] = f
  THEN CHOOSE t \in DOMAIN Renamed : Renamed[t] = f
  ELSE IF f \in mapType THEN f ELSE "UNKNOWN"

\* The OFC_FRAMEWORK_MAP addMap makes of m.
MapIn(m) ==
  [desc |-> m.desc, path |-> m.path, type |-> map_get_type(m.type), thumbnail |-> m.thumbnail]
ASSUME MapAssumption == \A m \in JavaMaps : Null \notin {m, MapIn(m)}

\* A null pointer becomes an empty string.
tchar2jstr(s) == IF s = Null THEN <<>> ELSE s
new_map(n, c) ==
  [name |-> n, desc |-> tchar2jstr(c.desc), path |-> NewFile(tchar2jstr(c.path)),
   type |-> new_map_type(c.type), thumbnail |-> c.thumbnail]

OnMaps == work = "maps" /\ UNCHANGED <<work, interfaces, file, below>>

(* of_core may refuse a map, and keeps one it has under the same prefix or *)
(* replaces it.                                                            *)
addMap(m) ==
  /\ OnMaps
  /\ \/ /\ maps' = [maps EXCEPT ![m.name] = MapIn(m)]
        /\ mapped' = [mapped EXCEPT ![m.name] = m] /\ Answer("addMap", "true")
     \/ UNCHANGED <<maps, mapped>> /\ Answer("addMap", "false")

removeMap(n) ==
  /\ OnMaps
  /\ maps' = [maps EXCEPT ![n] = Null] /\ mapped' = [mapped EXCEPT ![n] = Null]
  /\ answer' = NoAnswer

Prefixes == {n \in Names : maps[n] # Null}
getMaps ==
  /\ OnMaps /\ UNCHANGED <<maps, mapped>>
  /\ Answer("getMaps",
            IF Prefixes = {} THEN Null ELSE {new_map(n, maps[n]) : n \in Prefixes})

-----------------------------------------------------------------------------
OnFile == work = "maps" /\ answer' = NoAnswer /\ UNCHANGED <<work, interfaces, maps, mapped>>

MakeFile(p) == OnFile /\ file = Null /\ file' = NewFile(p) /\ below' = <<>>

\* Mutant: the prefix itself has a parent.
ParentOfPrefix(p) == IF p = <<>> THEN Null
                     ELSE IF LastSeparator(p) <= prefixLength(p) THEN NewFile(<<Sep>>) ELSE Up(p)
Parent(p) == getParentFile(p, Prefixes)

\* The application takes the parent of the File it has.
GoUp ==
  /\ OnFile /\ file # Null /\ file' = Parent(file) /\ below' = Append(below, file)

\* The application goes on with the absolute form of it.
GoAbsolute ==
  /\ OnFile /\ file # Null /\ file' = getAbsoluteFile(file) /\ UNCHANGED below

Interfaces(t) ==
  \/ \E j \in JavaInterfaces : addInterface(t, j)
  \/ \E a \in Addresses : removeInterface(t, a) \/ \E l \in Lmbs : setLMB(t, a, l)
  \/ getInterfaces(t) \/ Count(t) \/ Addr(t) \/ SetLocalMaster(t)
Maps ==
  \/ \E m \in JavaMaps : addMap(m)
  \/ \E n \in Names : removeMap(n)
  \/ getMaps \/ \E p \in Pathnames : MakeFile(p) \/ GoUp \/ GoAbsolute

Next == (\E t \in Threads : Interfaces(t)) \/ Maps

Spec == Init /\ [][Next]_vars

-----------------------------------------------------------------------------
(* Type correctness.                                                       *)
TypeOK ==
  /\ work \in {"interfaces", "maps"}
  /\ Len(ifaces) = Len(given) /\ Len(ifaces) <= MaxInterfaces
  /\ \A k \in DOMAIN ifaces :
       /\ ifaces[k].mode \in Modes /\ ifaces[k].lmb \in Maybe(Lmbs)
       /\ {ifaces[k].ip, ifaces[k].bcast, ifaces[k].mask} \subseteq Addresses
       /\ ifaces[k].wins \in Seq(Addresses) /\ given[k].for \in Maybe(Addresses)
  /\ pc \in [Threads -> {"idle", "count", "addr", "set"}]
  /\ \A t \in Threads : pc[t] = "idle" \/ call[t].i \in 1 .. MaxInterfaces + 1
  /\ raced \in BOOLEAN
  /\ \A n \in Names : (maps[n] = Null) = (mapped[n] = Null)
  /\ file = Null \/ Pathname(file)

\* Address a is in the subnet of the k-th interface.
InSubnet(a, k) == subnet_match(a, ifaces[k].ip, ifaces[k].mask)

(* As long as no interface is removed while setLMB counts through them, a  *)
(* local master browser is only ever set for the first interface in whose  *)
(* subnet the address is; and setLMB says truly whether there is one.      *)
LmbGoesToItsSubnet ==
  ~raced =>
    /\ \A k \in DOMAIN given :
         given[k].for # Null =>
           InSubnet(given[k].for, k) /\ \A i \in 1 .. k - 1 : ~InSubnet(given[k].for, i)
    /\ answer.op = "setLMB" =>
         IF answer.ret = "true" THEN \E k \in DOMAIN ifaces : InSubnet(answer.a, k)
         ELSE \A k \in 1 .. answer.before : ~InSubnet(answer.a, k)

\* What comes back for a Java array of addresses.
SameAddress(a, b) == a \in V4 => b = a
Addressed(w) == IF w = Null THEN <<>> ELSE w
\* A null mode being BMODE; of an IPv6 address nothing is said.
InterfacesComeBack ==
  answer.op = "getInterfaces" /\ answer.ret # Null =>
    /\ Len(answer.ret) = Len(given)
    /\ \A k \in DOMAIN given :
         LET j == given[k].object  b == answer.ret[k] IN
         /\ b.mode = interface_get_netbios_mode(j) /\ b.lmb = j.lmb
         /\ SameAddress(j.ip, b.ip) /\ SameAddress(j.bcast, b.bcast) /\ SameAddress(j.mask, b.mask)
         /\ Len(b.wins) = Len(Addressed(j.wins))
         /\ \A i \in DOMAIN b.wins : SameAddress(j.wins[i], b.wins[i])

\* A map to a FILE is UNKNOWN.
MapsComeBack ==
  answer.op = "getMaps" =>
    \A m \in {mapped[n] : n \in Names} \ {Null} :
      \E b \in answer.ret :
        /\ b.name = m.name /\ b.desc = tchar2jstr(m.desc) /\ b.thumbnail = m.thumbnail
        /\ b.path = tchar2jstr(m.path)
        /\ b.type = m.type \/ (b.type = "UNKNOWN" /\ m.type \in {Null, "FILE"})

(* What the application has added and not removed comes back as it was     *)
(* given: getInterfaces returns the interfaces in order, with the master   *)
(* set last, their modes and IPv4 addresses; getMaps returns every map     *)
(* with its description, path and type, except for a map to a FILE.        *)
ObjectsComeBack == InterfacesComeBack /\ MapsComeBack

(* Going up from a File, or its absolute form, visits as many parents as   *)
(* its path has names and ends, whatever maps come and go; the parents of  *)
(* an absolute File are absolute, and if it has no device, a parent and    *)
(* the name of its child make that child again.                            *)
ParentsLeadUp ==
  below # <<>> =>
    /\ Len(below) <= Len(ofc_path_create(below[1]).names) + 1
    /\ file # Null =>
         LET f == below[Len(below)] IN
         isAbsolute(f) => /\ isAbsolute(file)
                          /\ ofc_path_create(f).device = Null => NewChild(file, getName(f)) = f
=============================================================================

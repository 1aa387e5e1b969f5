--------------------------- MODULE Framework_proofs ---------------------------
(***************************************************************************)
(* Interfaces, maps and Files of the framework, for any number of threads, *)
(* interfaces and names: the inductive invariant, in three parts that      *)
(* share no variable but "answer", and the safety it gives.                *)
(***************************************************************************)
EXTENDS Framework, Paths_proofs

\* OFC_FRAMEWORK_INTERFACE
Structures ==
  [mode : Modes, lmb : Maybe(Lmbs), ip : Addresses, bcast : Addresses, mask : Addresses,
   wins : Seq(Addresses)]
Givens == [object : InterfaceObjects, for : Maybe(Addresses)]
Locals == [i : Nat, a : Maybe(Addresses), lmb : Maybe(Lmbs), ip : Maybe(Addresses),
           mask : Maybe(Addresses), before : Nat]

-----------------------------------------------------------------------------
(* The interfaces. Each structure is made of its object.                   *)
Made ==
  /\ ifaces \in Seq(Structures) /\ given \in Seq(Givens)
  /\ Len(ifaces) = Len(given) /\ Len(ifaces) <= MaxInterfaces
  /\ \A k \in 1 .. Len(ifaces) : ifaces[k] \in InterfaceIn(given[k].object)

Called(t) ==
  pc[t] # "idle" => /\ call[t].a \in Addresses /\ call[t].lmb \in Lmbs
                    /\ call[t].i \in 1 .. MaxInterfaces + 1
                    /\ pc[t] # "count" => call[t].i <= MaxInterfaces
Calls == /\ pc \in [Threads -> {"idle", "count", "addr", "set"}] /\ call \in [Threads -> Locals]
         /\ raced \in BOOLEAN /\ \A t \in Threads : Called(t)

Match(c, a) == subnet_match(a, c.ip, c.mask)
NoneBelow(s, a, k) == \A n \in 1 .. k - 1 : ~Match(s[n], a)

(* How far setLMB has counted: none of the interfaces it has passed has    *)
(* the address in its subnet, and the one it is at is still there.         *)
Counted(t) ==
  pc[t] # "idle" => /\ call[t].before <= Len(ifaces) /\ call[t].i <= Len(ifaces) + 1
                    /\ NoneBelow(ifaces, call[t].a, call[t].i)
                    /\ pc[t] # "count" => call[t].i <= Len(ifaces)
                    /\ pc[t] = "set" => Match(ifaces[call[t].i], call[t].a)
Counting == ~raced => \A t \in Threads : Counted(t)

SetForFirst ==
  ~raced => \A k \in 1 .. Len(given) :
              given[k].for # Null => /\ Match(ifaces[k], given[k].for)
                                     /\ NoneBelow(ifaces, given[k].for, k)
SaidTruly ==
  ~raced /\ answer.op = "setLMB" =>
    /\ answer.before <= Len(ifaces)
    /\ IF answer.ret = "true" THEN \E k \in 1 .. Len(ifaces) : Match(ifaces[k], answer.a)
       ELSE \A k \in 1 .. answer.before : ~Match(ifaces[k], answer.a)

InterfacesInv == Made /\ Calls /\ Counting /\ SetForFirst /\ SaidTruly /\ InterfacesComeBack

-----------------------------------------------------------------------------
(* The conversions of interfaces.                                          *)

(* A structure made of an object.                                          *)
LEMMA InterfaceInType ==
  ASSUME NEW j, NEW c, j \in InterfaceObjects, c \in InterfaceIn(j)
  PROVE  /\ c \in Structures /\ c.mode = interface_get_netbios_mode(j) /\ c.lmb = j.lmb
         /\ c.ip \in AddressIn(j.ip) /\ c.bcast \in AddressIn(j.bcast)
         /\ c.mask \in AddressIn(j.mask) /\ c.wins = interface_get_wins(j)
<1>1. PICK ip \in AddressIn(j.ip), bcast \in AddressIn(j.bcast), mask \in AddressIn(j.mask) :
        c = [mode |-> interface_get_netbios_mode(j), ip |-> ip, bcast |-> bcast, mask |-> mask,
             lmb |-> j.lmb, wins |-> interface_get_wins(j)]
  BY DEF InterfaceIn
<1>2. /\ j.mode \in Maybe(Modes) /\ j.lmb \in Maybe(Lmbs) /\ j.ip \in Maybe(Addresses)
      /\ j.bcast \in Maybe(Addresses) /\ j.mask \in Maybe(Addresses)
      /\ j.wins \in Maybe(Seq(Addresses))
  BY DEF InterfaceObjects
<1>3. ip \in Addresses /\ bcast \in Addresses /\ mask \in Addresses
  BY <1>1, <1>2 DEF AddressIn, Maybe
<1>4. interface_get_netbios_mode(j) \in Modes
  BY <1>2 DEF interface_get_netbios_mode, Maybe, Modes
<1>5. interface_get_wins(j) \in Seq(Addresses)
  BY <1>2 DEF interface_get_wins, Maybe
<1> QED BY <1>1, <1>2, <1>3, <1>4, <1>5 DEF Structures

ComesBack(j, b) ==
  /\ b.mode = interface_get_netbios_mode(j) /\ b.lmb = j.lmb
  /\ SameAddress(j.ip, b.ip) /\ SameAddress(j.bcast, b.bcast) /\ SameAddress(j.mask, b.mask)
  /\ Len(b.wins) = Len(Addressed(j.wins))
  /\ \A i \in DOMAIN b.wins : SameAddress(j.wins[i], b.wins[i])

(* An IPv4 address is the same after both conversions.                     *)
LEMMA AddressBack ==
  ASSUME NEW a, NEW c, c \in AddressIn(a) PROVE SameAddress(a, new_inet_address(c))
BY AddressAssumption DEF AddressIn, SameAddress, new_inet_address, Addresses

(* An object, made a structure and an object again, is as it was.          *)
LEMMA InterfaceBack ==
  ASSUME NEW j, NEW c, j \in InterfaceObjects, c \in InterfaceIn(j)
  PROVE  ComesBack(j, new_interface(c))
<1>1. PICK b : b = new_interface(c)
  OBVIOUS
<1>2. /\ c \in Structures /\ c.mode = interface_get_netbios_mode(j) /\ c.lmb = j.lmb
      /\ c.ip \in AddressIn(j.ip) /\ c.bcast \in AddressIn(j.bcast)
      /\ c.mask \in AddressIn(j.mask) /\ c.wins = interface_get_wins(j)
  BY InterfaceInType
<1>3. /\ b.mode = c.mode /\ b.lmb = c.lmb /\ b.ip = new_inet_address(c.ip)
      /\ b.bcast = new_inet_address(c.bcast) /\ b.mask = new_inet_address(c.mask)
      /\ b.wins = new_wins(c.wins)
  BY <1>1, <1>2 DEF new_interface, Structures
<1>4. PICK w : w = c.wins
  OBVIOUS
<1>5. /\ w \in Seq(Addresses) /\ w = interface_get_wins(j) /\ w = Addressed(j.wins)
      /\ j.wins = Null \/ w = j.wins
  BY <1>2, <1>4 DEF Structures, interface_get_wins, Addressed
<1>6. new_wins(w) = [i \in 1 .. Len(w) |-> new_inet_address(w[i])]
  BY <1>5 DEF new_wins
<1>7. /\ new_wins(w) \in Seq(Addresses) /\ Len(new_wins(w)) = Len(w)
      /\ DOMAIN new_wins(w) = 1 .. Len(w)
  <2>1. \A i \in 1 .. Len(w) : new_inet_address(w[i]) \in Addresses
    BY <1>5, AddressAssumption DEF new_inet_address, Addresses
  <2> QED BY <1>5, <1>6, <2>1
<1>8. ASSUME NEW i \in 1 .. Len(w) PROVE SameAddress(j.wins[i], new_wins(w)[i])
  <2>1. w # <<>>
    BY <1>5, <1>8
  <2>2. w = j.wins
    BY <1>5, <2>1 DEF Addressed
  <2>3. new_wins(w)[i] = new_inet_address(w[i])
    BY <1>6
  <2>4. w[i] \in V4 => new_inet_address(w[i]) = w[i]
    BY AddressAssumption DEF new_inet_address
  <2> QED BY <2>2, <2>3, <2>4 DEF SameAddress
<1> QED BY <1>1, <1>2, <1>3, <1>4, <1>5, <1>7, <1>8, AddressBack DEF ComesBack

(* The local master browser of a structure and of its object are set       *)
(* together.                                                               *)
LEMMA MasterSet ==
  ASSUME NEW j, NEW c, NEW l, j \in InterfaceObjects, c \in InterfaceIn(j), l \in Lmbs
  PROVE  /\ [j EXCEPT !.lmb = l] \in InterfaceObjects
         /\ [c EXCEPT !.lmb = l] \in InterfaceIn([j EXCEPT !.lmb = l])
         /\ [c EXCEPT !.lmb = l].ip = c.ip /\ [c EXCEPT !.lmb = l].mask = c.mask
<1>1. PICK ip \in AddressIn(j.ip), bcast \in AddressIn(j.bcast), mask \in AddressIn(j.mask) :
        c = [mode |-> interface_get_netbios_mode(j), ip |-> ip, bcast |-> bcast, mask |-> mask,
             lmb |-> j.lmb, wins |-> interface_get_wins(j)]
  BY DEF InterfaceIn
<1>2. PICK k : k = [j EXCEPT !.lmb = l]
  OBVIOUS
<1>3. /\ k \in InterfaceObjects /\ k.mode = j.mode /\ k.ip = j.ip /\ k.bcast = j.bcast
      /\ k.mask = j.mask /\ k.wins = j.wins /\ k.lmb = l
  <2>1. l \in Maybe(Lmbs)
    BY DEF Maybe
  <2> QED BY <1>2, <2>1 DEF InterfaceObjects
<1>4. interface_get_netbios_mode(k) = interface_get_netbios_mode(j)
  BY <1>3 DEF interface_get_netbios_mode
<1>5. interface_get_wins(k) = interface_get_wins(j)
  BY <1>3 DEF interface_get_wins
<1>6. [c EXCEPT !.lmb = l] =
        [mode |-> interface_get_netbios_mode(k), ip |-> ip, bcast |-> bcast, mask |-> mask,
         lmb |-> k.lmb, wins |-> interface_get_wins(k)]
  BY <1>1, <1>3, <1>4, <1>5
<1>7. [c EXCEPT !.lmb = l] \in InterfaceIn(k)
  BY <1>1, <1>3, <1>6 DEF InterfaceIn
<1> QED BY <1>1, <1>2, <1>3, <1>6, <1>7

-----------------------------------------------------------------------------
(* The steps with interfaces.                                              *)
LEMMA AddInterface ==
  ASSUME InterfacesInv, NEW t \in Threads, NEW j \in JavaInterfaces, addInterface(t, j)
  PROVE  InterfacesInv'
<1> USE FrameworkBounds
<1>1. PICK c \in InterfaceIn(j) : ifaces' = Append(ifaces, c)
  BY DEF addInterface
<1>2. PICK g, n, m : g = [object |-> j, for |-> Null] /\ n = Len(ifaces) /\ m = n + 1
  OBVIOUS
<1>3. /\ given' = Append(given, g) /\ answer' = NoAnswer /\ raced' = raced /\ pc' = pc
      /\ call' = call /\ n < MaxInterfaces
  BY <1>2 DEF addInterface, paths
<1>4. j \in InterfaceObjects /\ c \in Structures
  BY ObjectAssumption, InterfaceInType
<1>5. g \in Givens /\ g.object = j /\ g.for = Null
  BY <1>2, <1>4 DEF Givens, Maybe
<1>6. /\ ifaces \in Seq(Structures) /\ given \in Seq(Givens) /\ n \in Nat /\ Len(given) = n
      /\ \A k \in 1 .. n : ifaces[k] \in InterfaceIn(given[k].object)
  BY <1>2 DEF InterfacesInv, Made
<1>7. /\ ifaces' \in Seq(Structures) /\ Len(ifaces') = m /\ ifaces'[m] = c
      /\ \A k \in 1 .. n : ifaces'[k] = ifaces[k]
  BY <1>1, <1>2, <1>4, <1>6, AppendProperties
<1>8. /\ given' \in Seq(Givens) /\ Len(given') = m /\ given'[m] = g
      /\ \A k \in 1 .. n : given'[k] = given[k]
  BY <1>2, <1>3, <1>5, <1>6, AppendProperties
<1>9. m \in Nat /\ \A k \in 1 .. m : k \in 1 .. n \/ k = m
  BY <1>2, <1>6
<1>10. Made'
  <2>1. m <= MaxInterfaces
    BY <1>2, <1>3, <1>6
  <2>2. \A k \in 1 .. m : ifaces'[k] \in InterfaceIn(given'[k].object)
    BY <1>5, <1>6, <1>7, <1>8, <1>9
  <2> QED BY <1>7, <1>8, <2>1, <2>2 DEF Made
<1>11. Calls'
  BY <1>3 DEF InterfacesInv, Calls, Called
<1>12. Counting'
  <2> SUFFICES ASSUME ~raced, NEW u \in Threads, pc[u] # "idle" PROVE Counted(u)'
    BY <1>3 DEF Counting, Counted
  <2>1. Counted(u) /\ call[u].i \in Nat /\ call[u].before \in Nat
    BY DEF InterfacesInv, Counting, Calls, Locals
  <2>2. ASSUME NEW k \in 1 .. call[u].i - 1 PROVE ~Match(ifaces'[k], call[u].a)
    <3>1. k \in 1 .. n /\ ~Match(ifaces[k], call[u].a)
      BY <1>2, <1>6, <2>1 DEF Counted, NoneBelow
    <3> QED BY <1>7, <3>1
  <2>3. pc[u] = "set" => Match(ifaces'[call[u].i], call[u].a)
    <3> SUFFICES ASSUME pc[u] = "set" PROVE Match(ifaces'[call[u].i], call[u].a)
      OBVIOUS
    <3>1. call[u].i \in 1 .. n /\ Match(ifaces[call[u].i], call[u].a)
      BY <1>2, <1>6, <2>1 DEF Counted, InterfacesInv, Calls, Called
    <3> QED BY <1>7, <3>1
  <2>4. call[u].before <= m /\ call[u].i <= m + 1 /\ (pc[u] # "count" => call[u].i <= m)
    BY <1>2, <1>6, <2>1 DEF Counted
  <2> QED BY <1>3, <1>7, <2>2, <2>3, <2>4 DEF Counted, NoneBelow
<1>13. SetForFirst'
  <2> SUFFICES ASSUME ~raced, NEW k \in 1 .. m, given'[k].for # Null
               PROVE  /\ Match(ifaces'[k], given'[k].for)
                      /\ NoneBelow(ifaces', given'[k].for, k)
    BY <1>3, <1>8 DEF SetForFirst
  <2>1. k \in 1 .. n /\ given'[k] = given[k] /\ ifaces'[k] = ifaces[k]
    BY <1>5, <1>7, <1>8, <1>9
  <2>2. Match(ifaces[k], given[k].for) /\ NoneBelow(ifaces, given[k].for, k)
    BY <1>6, <2>1 DEF InterfacesInv, SetForFirst
  <2>3. \A i \in 1 .. k - 1 : i \in 1 .. n
    BY <1>6, <2>1
  <2> QED BY <1>7, <2>1, <2>2, <2>3 DEF NoneBelow
<1>14. SaidTruly' /\ InterfacesComeBack'
  BY <1>3 DEF SaidTruly, InterfacesComeBack, NoAnswer
<1> QED BY <1>10, <1>11, <1>12, <1>13, <1>14 DEF InterfacesInv

(* A sequence without one of its elements.                                 *)
LEMMA WithoutShape ==
  ASSUME NEW S, NEW s, NEW k, s \in Seq(S), k \in 1 .. Len(s)
  PROVE  /\ Without(s, k) \in Seq(S) /\ Len(Without(s, k)) = Len(s) - 1
         /\ \A i \in 1 .. Len(s) - 1 : Without(s, k)[i] = s[IF i < k THEN i ELSE i + 1]
<1>1. PICK n, x, y, l, h : /\ n = Len(s) /\ l = k - 1 /\ h = k + 1
                           /\ x = SubSeq(s, 1, l) /\ y = SubSeq(s, h, n)
  OBVIOUS
<1>2. /\ n \in Nat /\ l \in Nat /\ h \in Nat /\ l < n /\ h <= n + 1 /\ k \in Nat
      /\ \A i \in 1 .. l : s[i] \in S
      /\ \A i \in h .. n : s[i] \in S
  BY <1>1
<1>3. /\ x \in Seq(S) /\ Len(x) = l /\ \A i \in 1 .. l : x[i] = s[i]
  <2>1. /\ x \in Seq(S) /\ Len(x) = (IF 1 <= l THEN l - 1 + 1 ELSE 0)
        /\ \A i \in 1 .. l - 1 + 1 : x[i] = s[1 + i - 1]
    BY <1>1, <1>2, SubSeqProperties
  <2>2. ASSUME NEW i \in 1 .. l PROVE x[i] = s[i]
    <3>1. i \in 1 .. l - 1 + 1 /\ 1 + i - 1 = i
      BY <1>2
    <3> QED BY <2>1, <3>1
  <2> QED BY <1>2, <2>1, <2>2
<1>4. /\ y \in Seq(S) /\ Len(y) = n - k /\ \A i \in 1 .. n - k : y[i] = s[k + i]
  <2>1. /\ y \in Seq(S) /\ Len(y) = (IF h <= n THEN n - h + 1 ELSE 0)
        /\ \A i \in 1 .. n - h + 1 : y[i] = s[h + i - 1]
    BY <1>1, <1>2, SubSeqProperties
  <2>2. ASSUME NEW i \in 1 .. n - k PROVE y[i] = s[k + i]
    <3>1. i \in 1 .. n - h + 1 /\ h + i - 1 = k + i
      BY <1>1, <1>2
    <3> QED BY <2>1, <3>1
  <2>3. Len(y) = n - k
    BY <1>1, <1>2, <2>1
  <2> QED BY <2>1, <2>2, <2>3
<1>5. /\ x \o y \in Seq(S) /\ Len(x \o y) = Len(x) + Len(y)
      /\ \A i \in 1 .. Len(x) + Len(y) : (x \o y)[i] = IF i <= Len(x) THEN x[i] ELSE y[i - Len(x)]
  <2>1. x \in Seq(S) /\ y \in Seq(S)
    BY <1>3, <1>4
  <2> QED BY <2>1, ConcatProperties, Zenon
<1>6. Without(s, k) = x \o y
  BY <1>1 DEF Without
<1>7. PICK w : w = x \o y
  OBVIOUS
<1>8. /\ w \in Seq(S) /\ Len(w) = n - 1
      /\ \A i \in 1 .. n - 1 : w[i] = IF i <= l THEN x[i] ELSE y[i - l]
  <2>1. Len(x) = l /\ Len(y) = n - k /\ l + (n - k) = n - 1
    BY <1>1, <1>2, <1>3, <1>4
  <2> QED BY <1>5, <1>7, <2>1
<1>9. ASSUME NEW i \in 1 .. n - 1 PROVE w[i] = s[IF i < k THEN i ELSE i + 1]
  <2>1. CASE i < k
    <3>1. i <= l /\ i \in 1 .. l
      BY <1>1, <1>2, <2>1
    <3> QED BY <1>3, <1>8, <2>1, <3>1
  <2>2. CASE ~ (i < k)
    <3>1. ~ (i <= l) /\ i - l \in 1 .. n - k /\ k + (i - l) = i + 1
      BY <1>1, <1>2, <2>2
    <3> QED BY <1>4, <1>8, <2>2, <3>1
  <2> QED BY <2>1, <2>2
<1> QED BY <1>1, <1>6, <1>7, <1>8, <1>9

LEMMA RemoveInterface ==
  ASSUME InterfacesInv, NEW t \in Threads, NEW a \in Addresses, removeInterface(t, a)
  PROVE  InterfacesInv'
<1> USE FrameworkBounds
<1>1. PICK k \in DOMAIN ifaces : ifaces' = Without(ifaces, k) /\ given' = Without(given, k)
  BY DEF removeInterface
<1>2. PICK n, m : n = Len(ifaces) /\ m = n - 1
  OBVIOUS
<1>3. /\ answer' = NoAnswer /\ raced' = (raced \/ InSetLMB) /\ pc' = pc /\ call' = call
  BY DEF removeInterface, paths
<1>4. /\ ifaces \in Seq(Structures) /\ given \in Seq(Givens) /\ n \in Nat /\ Len(given) = n
      /\ k \in 1 .. n /\ n <= MaxInterfaces
      /\ \A l \in 1 .. n : ifaces[l] \in InterfaceIn(given[l].object)
  BY <1>2 DEF InterfacesInv, Made
<1> DEFINE from(i) == IF i < k THEN i ELSE i + 1
<1>5. /\ ifaces' \in Seq(Structures) /\ Len(ifaces') = m
      /\ \A i \in 1 .. m : ifaces'[i] = ifaces[from(i)]
  BY <1>1, <1>2, <1>4, WithoutShape
<1>6. /\ given' \in Seq(Givens) /\ Len(given') = m
      /\ \A i \in 1 .. m : given'[i] = given[from(i)]
  BY <1>1, <1>2, <1>4, WithoutShape
<1>7. m \in Nat /\ m <= n /\ \A i \in 1 .. m : from(i) \in 1 .. n
  BY <1>2, <1>4
<1>8. \A i, l \in 1 .. m : i < l => from(i) < from(l)
  BY <1>2, <1>4
<1> HIDE DEF from
<1>9. Made'
  <2>1. m <= MaxInterfaces
    BY <1>2, <1>4
  <2>2. \A l \in 1 .. m : ifaces'[l] \in InterfaceIn(given'[l].object)
    BY <1>4, <1>5, <1>6, <1>7
  <2> QED BY <1>5, <1>6, <2>1, <2>2 DEF Made
<1>10. Calls'
  <2>1. raced' \in BOOLEAN
    BY <1>3 DEF InterfacesInv, Calls, InSetLMB
  <2> QED BY <1>3, <2>1 DEF InterfacesInv, Calls, Called
<1>11. Counting'
  BY <1>3 DEF Counting, Counted, InSetLMB
<1>12. SetForFirst'
  <2> SUFFICES ASSUME ~raced, NEW l \in 1 .. m, given'[l].for # Null
               PROVE  /\ Match(ifaces'[l], given'[l].for)
                      /\ NoneBelow(ifaces', given'[l].for, l)
    BY <1>3, <1>6 DEF SetForFirst
  <2>1. PICK w, b : w = from(l) /\ b = given[w].for
    OBVIOUS
  <2>2. w \in 1 .. n /\ given'[l].for = b /\ b # Null /\ ifaces'[l] = ifaces[w]
    BY <1>5, <1>6, <1>7, <2>1
  <2>3. Match(ifaces[w], b) /\ NoneBelow(ifaces, b, w)
    BY <1>4, <2>1, <2>2 DEF InterfacesInv, SetForFirst
  <2>4. ASSUME NEW i \in 1 .. l - 1 PROVE ~Match(ifaces'[i], b)
    <3>1. i \in 1 .. m /\ i < l
      BY <1>7
    <3>2. from(i) \in 1 .. n /\ from(i) < w
      BY <1>7, <1>8, <2>1, <3>1
    <3>3. from(i) \in 1 .. w - 1
      BY <1>4, <2>2, <3>2
    <3> QED BY <1>5, <2>3, <3>1, <3>3 DEF NoneBelow
  <2> QED BY <2>2, <2>3, <2>4 DEF NoneBelow
<1>13. SaidTruly' /\ InterfacesComeBack'
  BY <1>3 DEF SaidTruly, InterfacesComeBack, NoAnswer
<1> QED BY <1>9, <1>10, <1>11, <1>12, <1>13 DEF InterfacesInv

LEMMA GetInterfaces ==
  ASSUME InterfacesInv, NEW t \in Threads, getInterfaces(t) PROVE InterfacesInv'
<1>1. ifaces' = ifaces /\ given' = given /\ raced' = raced /\ pc' = pc /\ call' = call
  BY DEF getInterfaces, interfaces
<1>2. PICK r : r = [i \in DOMAIN ifaces |-> new_interface(ifaces[i])]
  OBVIOUS
<1>3. /\ answer'.op = "getInterfaces"
      /\ answer'.ret = IF ifaces = <<>> THEN Null ELSE r
  BY <1>2 DEF getInterfaces, Answer
<1>4. PICK n : n = Len(ifaces)
  OBVIOUS
<1>5. /\ ifaces \in Seq(Structures) /\ given \in Seq(Givens) /\ n \in Nat /\ Len(given) = n
      /\ \A k \in 1 .. n : ifaces[k] \in InterfaceIn(given[k].object)
  BY <1>4 DEF InterfacesInv, Made
<1>6. r = [i \in 1 .. n |-> new_interface(ifaces[i])]
  BY <1>2, <1>4, <1>5
<1>7. Len(r) = n
  <2> DEFINE S == {new_interface(ifaces[i]) : i \in 1 .. n}
  <2>1. r \in [1 .. n -> S]
    BY <1>6
  <2>2. r \in Seq(S) /\ Len(r) = n
    <3> HIDE DEF S
    <3> QED BY <1>5, <2>1
  <2> QED BY <2>2
<1>8. ASSUME NEW k \in 1 .. n PROVE ComesBack(given[k].object, r[k])
  <2>1. given[k].object \in InterfaceObjects
    <3>1. given[k] \in Givens
      BY <1>5
    <3> QED BY <3>1 DEF Givens
  <2> QED BY <1>5, <1>6, <2>1, InterfaceBack
<1>9. InterfacesComeBack'
  <2> SUFFICES ASSUME answer'.ret # Null
               PROVE  /\ Len(answer'.ret) = Len(given)
                      /\ \A k \in 1 .. n : ComesBack(given[k].object, answer'.ret[k])
    BY <1>1, <1>5 DEF InterfacesComeBack, ComesBack
  <2>1. answer'.ret = r
    BY <1>3
  <2> QED BY <1>5, <1>7, <1>8, <2>1
<1>10. SaidTruly'
  BY <1>3 DEF SaidTruly
<1>11. Made' /\ Calls'
  BY <1>1 DEF InterfacesInv, Made, Calls, Called
<1>12. Counting' /\ SetForFirst'
  BY <1>1 DEF InterfacesInv, Counting, Counted, SetForFirst
<1> QED BY <1>9, <1>10, <1>11, <1>12 DEF InterfacesInv

(* setLMB starts with the first interface.                                 *)
LEMMA SetLMB ==
  ASSUME InterfacesInv, NEW t \in Threads, NEW a \in Addresses, NEW l \in Lmbs, setLMB(t, a, l)
  PROVE  InterfacesInv'
<1> USE FrameworkBounds
<1>1. PICK c : c = [NoCall EXCEPT !.i = 1, !.a = a, !.lmb = l, !.before = Len(ifaces)]
  OBVIOUS
<1>2. /\ ifaces' = ifaces /\ given' = given /\ raced' = raced /\ answer' = NoAnswer
      /\ call' = [call EXCEPT ![t] = c] /\ pc' = [pc EXCEPT ![t] = "count"]
  BY <1>1 DEF setLMB
<1>3. Len(ifaces) \in Nat
  BY DEF InterfacesInv, Made
<1>4. c = [i |-> 1, a |-> a, lmb |-> l, ip |-> Null, mask |-> Null, before |-> Len(ifaces)]
  BY <1>1 DEF NoCall
<1>5. c \in Locals
  BY <1>3, <1>4 DEF Locals, Maybe
<1>6. /\ pc' \in [Threads -> {"idle", "count", "addr", "set"}] /\ call' \in [Threads -> Locals]
      /\ pc'[t] = "count" /\ call'[t] = c
      /\ \A u \in Threads : u # t => pc'[u] = pc[u] /\ call'[u] = call[u]
  BY <1>2, <1>5 DEF InterfacesInv, Calls
<1>7. Calls'
  <2>1. Called(t)'
    <3>1. 1 \in 1 .. MaxInterfaces + 1
      OBVIOUS
    <3> QED BY <1>4, <1>6, <3>1 DEF Called
  <2>2. \A u \in Threads : u # t => Called(u)'
    BY <1>6 DEF InterfacesInv, Calls, Called
  <2> QED BY <1>2, <1>6, <2>1, <2>2 DEF Calls, InterfacesInv
<1>8. Counting'
  <2> SUFFICES ASSUME ~raced PROVE \A u \in Threads : Counted(u)'
    BY <1>2 DEF Counting
  <2>1. Counted(t)'
    <3>1. 1 .. 1 - 1 = {} /\ 1 <= Len(ifaces) + 1
      BY <1>3
    <3> QED BY <1>2, <1>3, <1>4, <1>6, <3>1 DEF Counted, NoneBelow
  <2>2. \A u \in Threads : u # t => Counted(u)'
    BY <1>2, <1>6 DEF InterfacesInv, Counting, Counted
  <2> QED BY <2>1, <2>2
<1>9. SaidTruly' /\ InterfacesComeBack'
  BY <1>2 DEF SaidTruly, InterfacesComeBack, NoAnswer
<1>10. Made' /\ SetForFirst'
  BY <1>2 DEF InterfacesInv, Made, SetForFirst
<1> QED BY <1>7, <1>8, <1>9, <1>10 DEF InterfacesInv

(* A thread that leaves setLMB.                                            *)
LEMMA Left ==
  ASSUME InterfacesInv, NEW t \in Threads, NEW r, SetLMBReturns(t, r), raced' = raced
  PROVE  /\ Calls'
         /\ \A u \in Threads : u # t => pc'[u] = pc[u] /\ call'[u] = call[u]
         /\ pc'[t] = "idle"
         /\ answer' = [op |-> "setLMB", ret |-> r, a |-> call[t].a, before |-> call[t].before]
<1>1. /\ pc' = [pc EXCEPT ![t] = "idle"] /\ call' = [call EXCEPT ![t] = NoCall]
      /\ answer' = [op |-> "setLMB", ret |-> r, a |-> call[t].a, before |-> call[t].before]
  BY DEF SetLMBReturns, Goto
<1>2. NoCall \in Locals
  BY DEF NoCall, Locals, Maybe
<1>3. /\ pc' \in [Threads -> {"idle", "count", "addr", "set"}] /\ call' \in [Threads -> Locals]
      /\ pc'[t] = "idle"
      /\ \A u \in Threads : u # t => pc'[u] = pc[u] /\ call'[u] = call[u]
  BY <1>1, <1>2 DEF InterfacesInv, Calls
<1>4. \A u \in Threads : Called(u)'
  BY <1>3 DEF InterfacesInv, Calls, Called
<1> QED BY <1>1, <1>3, <1>4 DEF InterfacesInv, Calls

LEMMA CountInv ==
  ASSUME InterfacesInv, NEW t \in Threads, Count(t) PROVE InterfacesInv'
<1> USE FrameworkBounds
<1>1. pc[t] = "count" /\ ifaces' = ifaces /\ given' = given /\ raced' = raced
  BY DEF Count
<1>2. /\ Len(ifaces) \in Nat /\ Len(ifaces) <= MaxInterfaces /\ Called(t) /\ call[t] \in Locals
      /\ Made' /\ SetForFirst'
  BY <1>1 DEF InterfacesInv, Made, Calls, SetForFirst
<1>3. call[t].i \in Nat /\ call[t].before \in Nat
  BY <1>2 DEF Locals
<1>4. CASE call[t].i <= Len(ifaces)
  <2>1. pc' = [pc EXCEPT ![t] = "addr"] /\ call' = call /\ answer' = answer
    BY <1>4 DEF Count, Goto
  <2>2. /\ pc' \in [Threads -> {"idle", "count", "addr", "set"}] /\ pc'[t] = "addr"
        /\ \A u \in Threads : u # t => pc'[u] = pc[u]
    BY <2>1 DEF InterfacesInv, Calls
  <2>3. Calls'
    <3>1. Called(t)'
      BY <1>1, <1>2, <1>3, <1>4, <2>1, <2>2 DEF Called
    <3>2. \A u \in Threads : u # t => Called(u)'
      BY <2>1, <2>2 DEF InterfacesInv, Calls, Called
    <3> QED BY <1>1, <2>1, <2>2, <3>1, <3>2 DEF InterfacesInv, Calls
  <2>4. Counting'
    <3> SUFFICES ASSUME ~raced PROVE \A u \in Threads : Counted(u)'
      BY <1>1 DEF Counting
    <3>1. Counted(t)'
      <4>1. Counted(t)
        BY DEF InterfacesInv, Counting
      <4> QED BY <1>1, <1>4, <2>1, <2>2, <4>1 DEF Counted
    <3>2. \A u \in Threads : u # t => Counted(u)'
      BY <1>1, <2>1, <2>2 DEF InterfacesInv, Counting, Counted
    <3> QED BY <3>1, <3>2
  <2>5. SaidTruly' /\ InterfacesComeBack'
    BY <1>1, <2>1 DEF InterfacesInv, SaidTruly, InterfacesComeBack
  <2> QED BY <1>2, <2>3, <2>4, <2>5 DEF InterfacesInv
<1>5. CASE ~ (call[t].i <= Len(ifaces))
  <2>1. SetLMBReturns(t, "false")
    BY <1>5 DEF Count
  <2>2. /\ Calls' /\ \A u \in Threads : u # t => pc'[u] = pc[u] /\ call'[u] = call[u]
        /\ pc'[t] = "idle"
        /\ answer' = [op |-> "setLMB", ret |-> "false", a |-> call[t].a, before |-> call[t].before]
    BY <1>1, <2>1, Left
  <2>3. Counting'
    <3> SUFFICES ASSUME ~raced PROVE \A u \in Threads : Counted(u)'
      BY <1>1 DEF Counting
    <3>1. Counted(t)'
      BY <2>2 DEF Counted
    <3>2. \A u \in Threads : u # t => Counted(u)'
      BY <1>1, <2>2 DEF InterfacesInv, Counting, Counted
    <3> QED BY <3>1, <3>2
  <2>4. SaidTruly'
    <3> SUFFICES ASSUME ~raced
                 PROVE  /\ call[t].before <= Len(ifaces)
                        /\ \A k \in 1 .. call[t].before : ~Match(ifaces[k], call[t].a)
      BY <1>1, <2>2 DEF SaidTruly
    <3>1. Counted(t)
      BY DEF InterfacesInv, Counting
    <3>2. \A k \in 1 .. call[t].before : k \in 1 .. call[t].i - 1
      BY <1>1, <1>2, <1>3, <1>5, <3>1 DEF Counted
    <3> QED BY <1>1, <3>1, <3>2 DEF Counted, NoneBelow
  <2>5. InterfacesComeBack'
    BY <2>2 DEF InterfacesComeBack
  <2> QED BY <1>2, <2>2, <2>3, <2>4, <2>5 DEF InterfacesInv
<1> QED BY <1>4, <1>5

LEMMA AddrInv ==
  ASSUME InterfacesInv, NEW t \in Threads, Addr(t) PROVE InterfacesInv'
<1> USE FrameworkBounds
<1>1. /\ pc[t] = "addr" /\ ifaces' = ifaces /\ given' = given /\ raced' = raced
      /\ answer' = answer
  BY DEF Addr
<1>2. PICK got \in AddrOf(call[t]) :
        LET c == [call[t] EXCEPT !.ip = got[1], !.mask = got[2]]
        IN IF subnet_match(c.a, c.ip, c.mask)
           THEN Goto(t, "set") /\ call' = [call EXCEPT ![t] = c]
           ELSE Goto(t, "count") /\ call' = [call EXCEPT ![t] = [c EXCEPT !.i = @ + 1]]
  BY Zenon DEF Addr
<1>3. /\ Len(ifaces) \in Nat /\ Len(ifaces) <= MaxInterfaces /\ Called(t) /\ call[t] \in Locals
      /\ Made' /\ SetForFirst' /\ SaidTruly' /\ InterfacesComeBack'
  BY <1>1 DEF InterfacesInv, Made, Calls, SetForFirst, SaidTruly, InterfacesComeBack
<1>4. PICK o : o = call[t]
  OBVIOUS
<1>5. /\ o.i \in Nat /\ o.before \in Nat /\ o.a \in Addresses /\ o.lmb \in Lmbs
      /\ o.i \in 1 .. MaxInterfaces /\ o.ip \in Maybe(Addresses) /\ o.mask \in Maybe(Addresses)
  BY <1>1, <1>3, <1>4 DEF Locals, Called
<1>6. got[1] \in Maybe(Addresses) /\ got[2] \in Maybe(Addresses)
  <2>1. CASE o.i <= Len(ifaces)
    <3>1. got = <<ifaces[o.i].ip, ifaces[o.i].mask>> /\ o.i \in 1 .. Len(ifaces)
      BY <1>2, <1>3, <1>4, <1>5, <2>1 DEF AddrOf
    <3>2. ifaces[o.i] \in Structures
      BY <3>1 DEF InterfacesInv, Made
    <3> QED BY <3>1, <3>2 DEF Structures, Maybe
  <2>2. CASE ~ (o.i <= Len(ifaces)) /\ o.ip # Null
    <3>1. got = <<o.ip, o.mask>>
      BY <1>2, <1>4, <2>2 DEF AddrOf
    <3> QED BY <1>5, <3>1
  <2>3. CASE ~ (o.i <= Len(ifaces)) /\ o.ip = Null
    <3>1. got \in V4 \X V4
      BY <1>2, <1>4, <2>3 DEF AddrOf
    <3> QED BY <3>1 DEF Maybe, Addresses
  <2> QED BY <2>1, <2>2, <2>3
<1>7. PICK c, d : /\ c = [o EXCEPT !.ip = got[1], !.mask = got[2]]
                  /\ d = [c EXCEPT !.i = @ + 1]
  OBVIOUS
<1>8. /\ c \in Locals /\ c.i = o.i /\ c.a = o.a /\ c.lmb = o.lmb /\ c.before = o.before
      /\ c.ip = got[1] /\ c.mask = got[2]
  BY <1>3, <1>4, <1>6, <1>7 DEF Locals
<1>9. d \in Locals /\ d.i = o.i + 1 /\ d.a = o.a /\ d.lmb = o.lmb /\ d.before = o.before
  <2>1. c.i + 1 \in Nat
    BY <1>5, <1>8
  <2>2. d = [c EXCEPT !.i = c.i + 1]
    BY <1>7
  <2>3. d \in Locals /\ d.i = c.i + 1 /\ d.a = c.a /\ d.lmb = c.lmb /\ d.before = c.before
    BY <1>8, <2>1, <2>2 DEF Locals
  <2> QED BY <1>8, <2>3
<1>10. ASSUME ~raced
       PROVE  /\ o.before <= Len(ifaces) /\ o.i \in 1 .. Len(ifaces) /\ NoneBelow(ifaces, o.a, o.i)
              /\ subnet_match(c.a, c.ip, c.mask) <=> Match(ifaces[o.i], o.a)
  <2>1. Counted(t)
    BY <1>10 DEF InterfacesInv, Counting
  <2>2. /\ o.before <= Len(ifaces) /\ o.i <= Len(ifaces) /\ NoneBelow(ifaces, o.a, o.i)
    BY <1>1, <1>4, <2>1 DEF Counted
  <2>3. got = <<ifaces[o.i].ip, ifaces[o.i].mask>>
    BY <1>2, <1>4, <2>2 DEF AddrOf
  <2> QED BY <1>3, <1>5, <1>8, <2>2, <2>3 DEF Match
<1>11. CASE subnet_match(c.a, c.ip, c.mask)
  <2>1. pc' = [pc EXCEPT ![t] = "set"] /\ call' = [call EXCEPT ![t] = c]
    BY <1>2, <1>4, <1>7, <1>11 DEF Goto
  <2>2. /\ pc' \in [Threads -> {"idle", "count", "addr", "set"}] /\ pc'[t] = "set"
        /\ call' \in [Threads -> Locals] /\ call'[t] = c
        /\ \A u \in Threads : u # t => pc'[u] = pc[u] /\ call'[u] = call[u]
    BY <1>8, <2>1 DEF InterfacesInv, Calls
  <2>3. Calls'
    <3>1. Called(t)'
      BY <1>5, <1>8, <2>2 DEF Called
    <3>2. \A u \in Threads : u # t => Called(u)'
      BY <2>2 DEF InterfacesInv, Calls, Called
    <3> QED BY <1>1, <2>2, <3>1, <3>2 DEF InterfacesInv, Calls
  <2>4. Counting'
    <3> SUFFICES ASSUME ~raced PROVE \A u \in Threads : Counted(u)'
      BY <1>1 DEF Counting
    <3>1. Counted(t)'
      BY <1>1, <1>3, <1>8, <1>10, <1>11, <2>2 DEF Counted
    <3>2. \A u \in Threads : u # t => Counted(u)'
      BY <1>1, <2>2 DEF InterfacesInv, Counting, Counted
    <3> QED BY <3>1, <3>2
  <2> QED BY <1>3, <2>3, <2>4 DEF InterfacesInv
<1>12. CASE ~ subnet_match(c.a, c.ip, c.mask)
  <2>1. pc' = [pc EXCEPT ![t] = "count"] /\ call' = [call EXCEPT ![t] = d]
    BY <1>2, <1>4, <1>7, <1>12 DEF Goto
  <2>2. /\ pc' \in [Threads -> {"idle", "count", "addr", "set"}] /\ pc'[t] = "count"
        /\ call' \in [Threads -> Locals] /\ call'[t] = d
        /\ \A u \in Threads : u # t => pc'[u] = pc[u] /\ call'[u] = call[u]
    BY <1>9, <2>1 DEF InterfacesInv, Calls
  <2>3. Calls'
    <3>1. Called(t)'
      BY <1>5, <1>9, <2>2 DEF Called
    <3>2. \A u \in Threads : u # t => Called(u)'
      BY <2>2 DEF InterfacesInv, Calls, Called
    <3> QED BY <1>1, <2>2, <3>1, <3>2 DEF InterfacesInv, Calls
  <2>4. Counting'
    <3> SUFFICES ASSUME ~raced PROVE \A u \in Threads : Counted(u)'
      BY <1>1 DEF Counting
    <3>1. Counted(t)'
      <4>1. /\ o.before <= Len(ifaces) /\ o.i \in 1 .. Len(ifaces)
            /\ NoneBelow(ifaces, o.a, o.i) /\ ~Match(ifaces[o.i], o.a)
        BY <1>10, <1>12
      <4>2. \A n \in 1 .. (o.i + 1) - 1 : n = o.i \/ n \in 1 .. o.i - 1
        BY <1>5
      <4>3. NoneBelow(ifaces, o.a, o.i + 1)
        BY <4>1, <4>2 DEF NoneBelow
      <4>4. o.i + 1 <= Len(ifaces) + 1
        BY <1>3, <1>5, <4>1
      <4> QED BY <1>1, <1>9, <2>2, <4>1, <4>3, <4>4 DEF Counted
    <3>2. \A u \in Threads : u # t => Counted(u)'
      BY <1>1, <2>2 DEF InterfacesInv, Counting, Counted
    <3> QED BY <3>1, <3>2
  <2> QED BY <1>3, <2>3, <2>4 DEF InterfacesInv
<1> QED BY <1>11, <1>12

(* The master of an interface set: no address or mask changes.             *)
LEMMA SetMaster ==
  ASSUME InterfacesInv, NEW t \in Threads, SetLocalMaster(t) PROVE InterfacesInv'
<1> USE FrameworkBounds
<1>1. pc[t] = "set" /\ SetLMBReturns(t, "true") /\ raced' = raced
  BY DEF SetLocalMaster, Stop
<1>2. /\ Calls' /\ \A u \in Threads : u # t => pc'[u] = pc[u] /\ call'[u] = call[u]
      /\ pc'[t] = "idle"
      /\ answer' = [op |-> "setLMB", ret |-> "true", a |-> call[t].a, before |-> call[t].before]
  BY <1>1, Left
<1>3. PICK k, a, l, n : /\ k = call[t].i /\ a = call[t].a /\ l = call[t].lmb
                        /\ n = Len(ifaces)
  OBVIOUS
<1>4. /\ ifaces \in Seq(Structures) /\ given \in Seq(Givens) /\ n \in Nat /\ Len(given) = n
      /\ n <= MaxInterfaces
      /\ \A i \in 1 .. n : ifaces[i] \in InterfaceIn(given[i].object)
  BY <1>3 DEF InterfacesInv, Made
<1>5. a \in Addresses /\ l \in Lmbs /\ k \in 1 .. MaxInterfaces + 1 /\ call[t].before \in Nat
  BY <1>1, <1>3 DEF InterfacesInv, Calls, Called, Locals
<1>6. /\ ifaces' \in Seq(Structures) /\ given' \in Seq(Givens) /\ Len(ifaces') = n
      /\ Len(given') = n
      /\ \A i \in 1 .. n : /\ ifaces'[i] \in InterfaceIn(given'[i].object)
                           /\ ifaces'[i].ip = ifaces[i].ip /\ ifaces'[i].mask = ifaces[i].mask
                           /\ given'[i].for = given[i].for \/ (i = k /\ given'[i].for = a)
  <2>1. CASE k > n
    <3>1. ifaces' = ifaces /\ given' = given
      BY <1>3, <2>1 DEF SetLocalMaster
    <3> QED BY <1>3, <1>4, <3>1
  <2>2. CASE ~ (k > n)
    <3>1. /\ ifaces' = [ifaces EXCEPT ![k].lmb = l]
          /\ given' = [given EXCEPT ![k].object.lmb = l, ![k].for = a]
      BY <1>3, <2>2 DEF SetLocalMaster
    <3>2. k \in 1 .. n
      BY <1>4, <1>5, <2>2
    <3>3. PICK c, g, j : c = ifaces[k] /\ g = given[k] /\ j = given[k].object
      OBVIOUS
    <3>4. g \in Givens /\ j = g.object /\ j \in InterfaceObjects /\ c \in InterfaceIn(j)
      <4>1. g \in Givens
        BY <1>4, <3>2, <3>3
      <4> QED BY <1>4, <3>2, <3>3, <4>1 DEF Givens
    <3>5. PICK d, h, i : /\ d = [c EXCEPT !.lmb = l] /\ i = [j EXCEPT !.lmb = l]
                         /\ h = [object |-> i, for |-> a]
      OBVIOUS
    <3>6. /\ i \in InterfaceObjects /\ d \in InterfaceIn(i) /\ d.ip = c.ip /\ d.mask = c.mask
      BY <1>5, <3>4, <3>5, MasterSet
    <3>7. d \in Structures /\ h \in Givens
      BY <1>5, <3>5, <3>6, InterfaceInType DEF Givens, Maybe
    <3>8. ifaces' = [ifaces EXCEPT ![k] = d]
      BY <3>1, <3>3, <3>5
    <3>9. given' = [given EXCEPT ![k] = h]
      <4>1. DOMAIN given = 1 .. n
        BY <1>4
      <4>2. [[given EXCEPT ![k].object.lmb = l] EXCEPT ![k].for = a] =
              [given EXCEPT ![k] = [[g EXCEPT !.object.lmb = l] EXCEPT !.for = a]]
        BY <3>2, <3>3, <4>1
      <4>3. [[g EXCEPT !.object.lmb = l] EXCEPT !.for = a] = h
        <5>1. g = [object |-> j, for |-> g.for]
          BY <3>4 DEF Givens
        <5>2. [g EXCEPT !.object.lmb = l] = [g EXCEPT !.object = i]
          BY <3>4, <3>5
        <5>3. [g EXCEPT !.object = i] = [object |-> i, for |-> g.for]
          BY <5>1
        <5>4. [[object |-> i, for |-> g.for] EXCEPT !.for = a] = h
          BY <3>5
        <5> QED BY <5>2, <5>3, <5>4
      <4> QED BY <3>1, <4>2, <4>3
    <3>10. /\ ifaces' \in Seq(Structures) /\ Len(ifaces') = n /\ ifaces'[k] = d
           /\ \A m \in 1 .. n : m # k => ifaces'[m] = ifaces[m]
      BY <1>3, <1>4, <3>2, <3>7, <3>8
    <3>11. /\ given' \in Seq(Givens) /\ Len(given') = n /\ given'[k] = h
           /\ \A m \in 1 .. n : m # k => given'[m] = given[m]
      BY <1>4, <3>2, <3>7, <3>9
    <3>12. h.object = i /\ h.for = a
      BY <3>5
    <3>13. ASSUME NEW m \in 1 .. n
           PROVE  /\ ifaces'[m] \in InterfaceIn(given'[m].object)
                  /\ ifaces'[m].ip = ifaces[m].ip /\ ifaces'[m].mask = ifaces[m].mask
                  /\ given'[m].for = given[m].for \/ (m = k /\ given'[m].for = a)
      <4>1. CASE m = k
        BY <3>3, <3>6, <3>10, <3>11, <3>12, <4>1
      <4>2. CASE m # k
        BY <1>4, <3>10, <3>11, <4>2
      <4> QED BY <4>1, <4>2
    <3> QED BY <3>10, <3>11, <3>13
  <2> QED BY <2>1, <2>2
<1>7. \A i \in 1 .. n, b \in Addresses : Match(ifaces'[i], b) <=> Match(ifaces[i], b)
  BY <1>6 DEF Match, subnet_match
<1>8. Made'
  BY <1>4, <1>6 DEF Made
<1>9. ASSUME ~raced
      PROVE  k \in 1 .. n /\ Match(ifaces[k], a) /\ NoneBelow(ifaces, a, k)
  <2>1. Counted(t)
    BY <1>9 DEF InterfacesInv, Counting
  <2> QED BY <1>1, <1>3, <1>4, <1>5, <2>1 DEF Counted
<1>10. Counting'
  <2> SUFFICES ASSUME ~raced, NEW u \in Threads, u # t, pc[u] # "idle" PROVE Counted(u)'
    BY <1>1, <1>2 DEF Counting, Counted
  <2>1. PICK o : o = call[u]
    OBVIOUS
  <2>2. Counted(u) /\ Called(u) /\ o.i \in Nat /\ o.before \in Nat /\ o.a \in Addresses
    BY <2>1 DEF InterfacesInv, Counting, Calls, Called, Locals
  <2>3. \A i \in 1 .. o.i - 1 : i \in 1 .. n
    BY <1>3, <1>4, <2>1, <2>2 DEF Counted
  <2>4. NoneBelow(ifaces', o.a, o.i)
    BY <1>7, <2>1, <2>2, <2>3 DEF Counted, NoneBelow
  <2>5. pc[u] = "set" => Match(ifaces'[o.i], o.a)
    <3> SUFFICES ASSUME pc[u] = "set" PROVE Match(ifaces'[o.i], o.a)
      OBVIOUS
    <3>1. o.i \in 1 .. n /\ Match(ifaces[o.i], o.a)
      BY <1>3, <1>4, <2>1, <2>2 DEF Counted, Called
    <3> QED BY <1>7, <2>2, <3>1
  <2> QED BY <1>2, <1>3, <1>6, <2>1, <2>2, <2>4, <2>5 DEF Counted
<1>11. SetForFirst'
  <2> SUFFICES ASSUME ~raced, NEW i \in 1 .. n, given'[i].for # Null
               PROVE  /\ Match(ifaces'[i], given'[i].for)
                      /\ NoneBelow(ifaces', given'[i].for, i)
    BY <1>1, <1>6 DEF SetForFirst
  <2>1. PICK b : b = given'[i].for
    OBVIOUS
  <2>2. b \in Addresses
    <3>1. given'[i] \in Givens
      BY <1>6
    <3> QED BY <2>1, <3>1 DEF Givens, Maybe
  <2>3. Match(ifaces[i], b) /\ NoneBelow(ifaces, b, i)
    <3>1. CASE given'[i].for = given[i].for
      BY <1>4, <2>1, <3>1 DEF InterfacesInv, SetForFirst
    <3>2. CASE i = k /\ given'[i].for = a
      BY <1>9, <2>1, <3>2
    <3> QED BY <1>6, <3>1, <3>2
  <2>4. \A m \in 1 .. i - 1 : m \in 1 .. n
    BY <1>4
  <2> QED BY <1>7, <2>1, <2>2, <2>3, <2>4 DEF NoneBelow
<1>12. SaidTruly'
  <2> SUFFICES ASSUME ~raced
               PROVE  /\ call[t].before <= Len(ifaces')
                      /\ \E i \in 1 .. Len(ifaces') : Match(ifaces'[i], a)
    BY <1>1, <1>2, <1>3 DEF SaidTruly
  <2>1. Counted(t)
    BY DEF InterfacesInv, Counting
  <2> QED BY <1>1, <1>3, <1>5, <1>6, <1>7, <1>9, <2>1 DEF Counted
<1>13. InterfacesComeBack'
  BY <1>2 DEF InterfacesComeBack
<1> QED BY <1>2, <1>8, <1>10, <1>11, <1>12, <1>13 DEF InterfacesInv

(* What leaves the interfaces alone.                                       *)
LEMMA InterfacesAlone ==
  ASSUME InterfacesInv, UNCHANGED interfaces,
         answer' = answer \/ answer'.op \notin {"setLMB", "getInterfaces"}
  PROVE  InterfacesInv'
<1>1. ifaces' = ifaces /\ given' = given /\ raced' = raced /\ pc' = pc /\ call' = call
  BY DEF interfaces
<1>2. Made' /\ Calls' /\ Counting' /\ SetForFirst'
  BY <1>1 DEF InterfacesInv, Made, Calls, Called, Counting, Counted, SetForFirst
<1>3. SaidTruly'
  BY <1>1 DEF InterfacesInv, SaidTruly
<1>4. InterfacesComeBack'
  BY <1>1 DEF InterfacesInv, InterfacesComeBack
<1> QED BY <1>2, <1>3, <1>4 DEF InterfacesInv

-----------------------------------------------------------------------------
(* The maps.                                                               *)
Kept(n) ==
  IF maps[n] = Null THEN mapped[n] = Null
  ELSE /\ mapped[n] \in JavaMaps /\ mapped[n].name = n /\ maps[n] = MapIn(mapped[n])
MapsInv ==
  /\ maps = [n \in Names |-> maps[n]] /\ mapped = [n \in Names |-> mapped[n]]
  /\ (\A n \in Names : Kept(n)) /\ MapsComeBack

(* A type is the same after both conversions, but for FILE.                *)
LEMMA TypeBack ==
  ASSUME NEW t, t \in Maybe(mapType)
  PROVE  \/ new_map_type(map_get_type(t)) = t
         \/ new_map_type(map_get_type(t)) = "UNKNOWN" /\ t \in {Null, "FILE"}
<1>1. DOMAIN Renamed = {"ROOT", "WORKGROUP", "SERVER", "BOOKMARK"}
  BY DEF Renamed
<1>2. /\ Renamed["ROOT"] = "BROWSE_WORKGROUPS" /\ Renamed["WORKGROUP"] = "BROWSE_SERVERS"
      /\ Renamed["SERVER"] = "BROWSE_SHARES" /\ Renamed["BOOKMARK"] = "BOOKMARKS"
  BY DEF Renamed
<1>3. CASE t \in {Null, "FILE"}
  <2>1. map_get_type(t) = "UNKNOWN"
    BY <1>3 DEF map_get_type
  <2>2. ~ \E u \in DOMAIN Renamed : Renamed[u] = "UNKNOWN"
    BY <1>1, <1>2
  <2>3. new_map_type("UNKNOWN") = "UNKNOWN"
    BY <2>2 DEF new_map_type
  <2> QED BY <1>3, <2>1, <2>3
<1>4. CASE t \notin {Null, "FILE"} /\ t \in DOMAIN Renamed
  <2>1. map_get_type(t) = Renamed[t]
    BY <1>4 DEF map_get_type
  <2>2. \A u \in DOMAIN Renamed : Renamed[u] = Renamed[t] => u = t
    BY <1>1, <1>2, <1>4
  <2>3. (CHOOSE u \in DOMAIN Renamed : Renamed[u] = Renamed[t]) = t
    BY <1>4, <2>2
  <2>4. new_map_type(Renamed[t]) = t
    BY <1>4, <2>3 DEF new_map_type
  <2> QED BY <2>1, <2>4
<1>5. CASE t \notin {Null, "FILE"} /\ t \notin DOMAIN Renamed
  <2>1. map_get_type(t) = t /\ t \in mapType
    BY <1>5 DEF map_get_type, Maybe
  <2>2. ~ \E u \in DOMAIN Renamed : Renamed[u] = t
    BY <1>1, <1>2, <2>1 DEF mapType
  <2>3. new_map_type(t) = t
    BY <2>1, <2>2 DEF new_map_type
  <2> QED BY <2>1, <2>3
<1> QED BY <1>3, <1>4, <1>5

MapBack(m, b) ==
  /\ b.name = m.name /\ b.desc = tchar2jstr(m.desc) /\ b.thumbnail = m.thumbnail
  /\ b.path = tchar2jstr(m.path)
  /\ b.type = m.type \/ (b.type = "UNKNOWN" /\ m.type \in {Null, "FILE"})

(* A map, made a structure and an object again, is as it was.              *)
LEMMA MapIsBack ==
  ASSUME NEW m, m \in JavaMaps PROVE MapBack(m, new_map(m.name, MapIn(m)))
<1>1. PICK b : b = new_map(m.name, MapIn(m))
  OBVIOUS
<1>2. /\ b.name = m.name /\ b.desc = tchar2jstr(m.desc) /\ b.thumbnail = m.thumbnail
      /\ b.path = NewFile(tchar2jstr(m.path)) /\ b.type = new_map_type(map_get_type(m.type))
  BY <1>1 DEF new_map, MapIn
<1>3. m.type \in Maybe(mapType) /\ (m.path = Null \/ m.path = normalize(m.path))
  BY ObjectAssumption
<1>4. NewFile(tchar2jstr(m.path)) = tchar2jstr(m.path)
  BY <1>3, EmptyStays DEF NewFile, tchar2jstr
<1> QED BY <1>1, <1>2, <1>3, <1>4, TypeBack DEF MapBack

LEMMA AddMap ==
  ASSUME MapsInv, NEW m \in JavaMaps, addMap(m) PROVE MapsInv'
<1>1. answer'.op = "addMap"
  BY DEF addMap, Answer
<1>2. MapsComeBack'
  BY <1>1 DEF MapsComeBack
<1>3. CASE UNCHANGED <<maps, mapped>>
  BY <1>2, <1>3 DEF MapsInv, Kept
<1>4. CASE maps' = [maps EXCEPT ![m.name] = MapIn(m)] /\ mapped' = [mapped EXCEPT ![m.name] = m]
  <2>1. m.name \in Names /\ m # Null /\ MapIn(m) # Null
    BY ObjectAssumption, MapAssumption
  <2>2. /\ maps' = [n \in Names |-> maps'[n]] /\ mapped' = [n \in Names |-> mapped'[n]]
        /\ maps'[m.name] = MapIn(m) /\ mapped'[m.name] = m
        /\ \A n \in Names : n # m.name => maps'[n] = maps[n] /\ mapped'[n] = mapped[n]
    BY <1>4, <2>1 DEF MapsInv
  <2>3. \A n \in Names : Kept(n)'
    BY <2>1, <2>2 DEF MapsInv, Kept
  <2> QED BY <1>2, <2>2, <2>3 DEF MapsInv
<1> QED BY <1>3, <1>4 DEF addMap

LEMMA RemoveMap ==
  ASSUME MapsInv, NEW n \in Names, removeMap(n) PROVE MapsInv'
<1>1. /\ maps' = [maps EXCEPT ![n] = Null] /\ mapped' = [mapped EXCEPT ![n] = Null]
      /\ answer' = NoAnswer
  BY DEF removeMap
<1>2. /\ maps' = [k \in Names |-> maps'[k]] /\ mapped' = [k \in Names |-> mapped'[k]]
      /\ maps'[n] = Null /\ mapped'[n] = Null
      /\ \A k \in Names : k # n => maps'[k] = maps[k] /\ mapped'[k] = mapped[k]
  BY <1>1 DEF MapsInv
<1>3. \A k \in Names : Kept(k)'
  BY <1>2 DEF MapsInv, Kept
<1>4. MapsComeBack'
  BY <1>1 DEF MapsComeBack, NoAnswer
<1> QED BY <1>2, <1>3, <1>4 DEF MapsInv

LEMMA GetMaps == ASSUME MapsInv, getMaps PROVE MapsInv'
<1>1. /\ maps' = maps /\ mapped' = mapped
      /\ answer'.ret = IF Prefixes = {} THEN Null ELSE {new_map(n, maps[n]) : n \in Prefixes}
  BY DEF getMaps, Answer
<1>2. MapsComeBack'
  <2> SUFFICES ASSUME NEW n \in Names, mapped[n] # Null
               PROVE  \E b \in answer'.ret : MapBack(mapped[n], b)
    BY <1>1 DEF MapsComeBack, MapBack
  <2>1. PICK m : m = mapped[n]
    OBVIOUS
  <2>2. maps[n] # Null /\ m \in JavaMaps /\ m.name = n /\ maps[n] = MapIn(m)
    BY <2>1 DEF MapsInv, Kept
  <2>3. n \in Prefixes
    BY <2>2 DEF Prefixes
  <2>4. new_map(m.name, MapIn(m)) \in answer'.ret
    BY <1>1, <2>2, <2>3
  <2> QED BY <2>1, <2>2, <2>4, MapIsBack
<1> QED BY <1>1, <1>2 DEF MapsInv, Kept

(* What leaves the maps alone.                                             *)
LEMMA MapsAlone ==
  ASSUME MapsInv, maps' = maps, mapped' = mapped, answer' = answer \/ answer'.op # "getMaps"
  PROVE  MapsInv'
<1>1. MapsComeBack'
  BY DEF MapsInv, MapsComeBack
<1> QED BY <1>1 DEF MapsInv, Kept

-----------------------------------------------------------------------------
(* The Files. Every File on the way up is normal, and has as many names as *)
(* there are parents left above it.                                        *)
Visited == {p \in Seq(Characters) : Normal(p)}
Climbing ==
  /\ file # Null => Normal(file)
  /\ below \in Seq(Visited)
  /\ below # <<>> => Height(below[1]) = IF file = Null THEN Len(below) - 1
                                        ELSE Len(below) + Height(file)

RisesFrom(f, g) ==
  isAbsolute(f) => /\ isAbsolute(g)
                   /\ ofc_path_create(f).device = Null => NewChild(g, getName(f)) = f
FilesInv ==
  Climbing /\ (below # <<>> /\ file # Null => RisesFrom(below[Len(below)], file))

(* A File is a sequence of characters, with some number of names.          *)
LEMMA Visits == ASSUME NEW p, Normal(p) PROVE p \in Visited /\ Height(p) \in Nat /\ p # Null
<1>1. Pathname(p)
  BY NormalStays
<1>2. p \in Seq(Characters)
  BY <1>1 DEF Pathname
<1>3. p # Null
  BY <1>1, NamesAssumption
<1>4. Height(p) \in Nat
  BY NormalShape
<1> QED BY <1>2, <1>3, <1>4 DEF Visited

LEMMA MakeFileInv ==
  ASSUME FilesInv, NEW p \in Pathnames, MakeFile(p) PROVE FilesInv'
<1>1. PICK e : e = <<>>
  OBVIOUS
<1>2. file' = normalize(p) /\ below' = e
  BY <1>1 DEF MakeFile, NewFile
<1>3. Normal(normalize(p))
  BY ObjectAssumption, Normalized
<1>4. e \in Seq(Visited)
  BY <1>1
<1> QED BY <1>1, <1>2, <1>3, <1>4 DEF FilesInv, Climbing

LEMMA GoUpInv == ASSUME FilesInv, GoUp PROVE FilesInv'
<1>1. PICK f, g, s, n : f = file /\ g = Parent(file) /\ s = below /\ n = Len(below)
  OBVIOUS
<1>2. file' = g /\ below' = Append(s, f) /\ f # Null
  BY <1>1 DEF GoUp
<1>3. Normal(f) /\ s \in Seq(Visited) /\ n \in Nat
  BY <1>1, <1>2 DEF FilesInv, Climbing
<1>4. f \in Visited /\ Height(f) \in Nat
  BY <1>3, Visits
<1>5. /\ below' \in Seq(Visited) /\ below' # <<>> /\ Len(below') = n + 1
      /\ below'[n + 1] = f /\ \A i \in 1 .. n : below'[i] = s[i]
  BY <1>1, <1>2, <1>3, <1>4, AppendProperties
<1>6. Height(below'[1]) = n + Height(f)
  <2>1. CASE s = <<>>
    <3>1. n = 0
      BY <1>1, <2>1
    <3> QED BY <1>4, <1>5, <3>1
  <2>2. CASE s # <<>>
    <3>1. 1 \in 1 .. n
      BY <1>1, <1>3, <2>2
    <3> QED BY <1>1, <1>2, <1>5, <2>2, <3>1 DEF FilesInv, Climbing
  <2> QED BY <2>1, <2>2
<1>7. Null \notin Prefixes
  BY NamesAssumption DEF Prefixes
<1>8. CASE Height(f) = 0
  <2>1. g = Null
    BY <1>1, <1>3, <1>7, <1>8, ParentShape DEF Parent
  <2>2. Height(below'[1]) = Len(below') - 1
    BY <1>3, <1>5, <1>6, <1>8
  <2> QED BY <1>2, <1>5, <2>1, <2>2 DEF FilesInv, Climbing
<1>9. CASE Height(f) # 0
  <2>1. PICK q, ps : q = ofc_path_create(f) /\ ps = Prefixes
    OBVIOUS
  <2>2. g = getParentFile(f, ps) /\ Null \notin ps
    BY <1>1, <1>7, <2>1 DEF Parent
  <2>3. /\ Normal(g) /\ Height(g) = Height(f) - 1
        /\ q.absolute => ofc_path_create(g).absolute
    BY <1>3, <1>9, <2>1, <2>2, ParentShape
  <2>4. g # Null
    BY <2>3, Visits
  <2>5. Height(below'[1]) = Len(below') + Height(g)
    <3>1. n + Height(f) = (n + 1) + (Height(f) - 1)
      BY <1>3, <1>4
    <3> QED BY <1>5, <1>6, <2>3, <3>1
  <2>6. RisesFrom(f, g)
    <3>1. ASSUME q.absolute, q.device = Null PROVE NewChild(g, getName(f)) = f
      BY <1>3, <1>9, <2>1, <2>2, <3>1, ParentAndName
    <3> QED BY <2>1, <2>3, <3>1 DEF RisesFrom, isAbsolute
  <2>7. below'[Len(below')] = f
    BY <1>5
  <2> QED BY <1>2, <1>5, <2>3, <2>4, <2>5, <2>6, <2>7 DEF FilesInv, Climbing
<1> QED BY <1>8, <1>9

LEMMA GoAbsoluteInv == ASSUME FilesInv, GoAbsolute PROVE FilesInv'
<1>1. file # Null /\ file' = getAbsoluteFile(file) /\ below' = below
  BY DEF GoAbsolute
<1>2. getAbsoluteFile(file) = file
  BY <1>1, NormalStays DEF FilesInv, Climbing
<1> QED BY <1>1, <1>2 DEF FilesInv, Climbing

LEMMA FilesAlone == ASSUME FilesInv, file' = file, below' = below PROVE FilesInv'
BY DEF FilesInv, Climbing

-----------------------------------------------------------------------------
IInv == work \in {"interfaces", "maps"} /\ InterfacesInv /\ MapsInv /\ FilesInv

(* The inductive invariant holds at first.                                 *)
THEOREM InitIInv == Init => IInv
<1> SUFFICES ASSUME Init PROVE IInv
  OBVIOUS
<1>1. PICK e : e = <<>>
  OBVIOUS
<1>2. /\ ifaces = e /\ given = e /\ raced = FALSE
      /\ pc = [t \in Threads |-> "idle"] /\ call = [t \in Threads |-> NoCall]
      /\ maps = [n \in Names |-> Null] /\ mapped = [n \in Names |-> Null]
      /\ file = Null /\ below = e /\ answer = NoAnswer /\ work \in {"interfaces", "maps"}
  BY <1>1 DEF Init
<1>3. /\ e \in Seq(Structures) /\ e \in Seq(Givens) /\ e \in Seq(Visited) /\ Len(e) = 0
  BY <1>1
<1>4. Made
  BY <1>2, <1>3, FrameworkBounds DEF Made
<1>5. Calls
  <2>1. NoCall \in Locals
    BY DEF NoCall, Locals, Maybe
  <2> QED BY <1>2, <2>1 DEF Calls, Called
<1>6. Counting /\ SetForFirst
  BY <1>2, <1>3 DEF Counting, Counted, SetForFirst
<1>7. SaidTruly /\ InterfacesComeBack /\ MapsComeBack
  BY <1>2 DEF SaidTruly, InterfacesComeBack, MapsComeBack, NoAnswer
<1>8. MapsInv
  BY <1>2, <1>7 DEF MapsInv, Kept
<1>9. FilesInv
  BY <1>1, <1>2, <1>3 DEF FilesInv, Climbing
<1> QED BY <1>2, <1>4, <1>5, <1>6, <1>7, <1>8, <1>9 DEF IInv, InterfacesInv

(* Every step of a thread with interfaces preserves it.                    *)
LEMMA InterfacesStep ==
  ASSUME IInv, NEW t \in Threads, Interfaces(t) PROVE IInv'
<1>1. InterfacesInv'
  <2>1. CASE \E j \in JavaInterfaces : addInterface(t, j)
    BY <2>1, AddInterface DEF IInv
  <2>2. CASE \E a \in Addresses : removeInterface(t, a)
    BY <2>2, RemoveInterface DEF IInv
  <2>3. CASE \E a \in Addresses, l \in Lmbs : setLMB(t, a, l)
    BY <2>3, SetLMB DEF IInv
  <2>4. CASE getInterfaces(t)
    BY <2>4, GetInterfaces DEF IInv
  <2>5. CASE Count(t)
    BY <2>5, CountInv DEF IInv
  <2>6. CASE Addr(t)
    BY <2>6, AddrInv DEF IInv
  <2>7. CASE SetLocalMaster(t)
    BY <2>7, SetMaster DEF IInv
  <2> QED BY <2>1, <2>2, <2>3, <2>4, <2>5, <2>6, <2>7 DEF Interfaces
<1>2. work' = work /\ UNCHANGED paths
  BY DEF Interfaces, addInterface, removeInterface, setLMB, getInterfaces, Count, Addr,
         SetLocalMaster
<1>3. answer' = answer \/ answer'.op # "getMaps"
  <2>1. NoAnswer.op # "getMaps"
    BY DEF NoAnswer
  <2>2. CASE \E j \in JavaInterfaces : addInterface(t, j)
    BY <2>1, <2>2 DEF addInterface
  <2>3. CASE \E a \in Addresses : removeInterface(t, a)
    BY <2>1, <2>3 DEF removeInterface
  <2>4. CASE \E a \in Addresses, l \in Lmbs : setLMB(t, a, l)
    BY <2>1, <2>4 DEF setLMB
  <2>5. CASE getInterfaces(t)
    BY <2>5 DEF getInterfaces, Answer
  <2>6. ASSUME NEW r, SetLMBReturns(t, r) PROVE answer'.op # "getMaps"
    BY <2>6 DEF SetLMBReturns
  <2>7. CASE Count(t)
    BY <2>6, <2>7 DEF Count
  <2>8. CASE Addr(t)
    BY <2>8 DEF Addr
  <2>9. CASE SetLocalMaster(t)
    BY <2>6, <2>9 DEF SetLocalMaster, Stop
  <2> QED BY <2>2, <2>3, <2>4, <2>5, <2>7, <2>8, <2>9 DEF Interfaces
<1>4. maps' = maps /\ mapped' = mapped /\ file' = file /\ below' = below
  BY <1>2 DEF paths
<1>5. MapsInv'
  BY <1>3, <1>4, MapsAlone DEF IInv
<1>6. FilesInv'
  BY <1>4, FilesAlone DEF IInv
<1> QED BY <1>1, <1>2, <1>5, <1>6 DEF IInv

(* And every step with maps and Files.                                     *)
LEMMA MapsStep == ASSUME IInv, Maps PROVE IInv'
<1> USE DEF IInv
<1>1. work' = work /\ UNCHANGED interfaces
  BY DEF Maps, addMap, removeMap, getMaps, MakeFile, GoUp, GoAbsolute, OnMaps, OnFile
<1>2. answer'.op \notin {"setLMB", "getInterfaces"}
  BY DEF Maps, addMap, removeMap, getMaps, MakeFile, GoUp, GoAbsolute, OnMaps, OnFile,
         Answer, NoAnswer
<1>3. InterfacesInv'
  BY <1>1, <1>2, InterfacesAlone
<1>4. CASE \E m \in JavaMaps : addMap(m)
  <2>1. MapsInv'
    BY <1>4, AddMap
  <2>2. file' = file /\ below' = below
    BY <1>4 DEF addMap, OnMaps
  <2> QED BY <1>1, <1>3, <2>1, <2>2, FilesAlone
<1>5. CASE \E n \in Names : removeMap(n)
  <2>1. MapsInv'
    BY <1>5, RemoveMap
  <2>2. file' = file /\ below' = below
    BY <1>5 DEF removeMap, OnMaps
  <2> QED BY <1>1, <1>3, <2>1, <2>2, FilesAlone
<1>6. CASE getMaps
  <2>1. MapsInv'
    BY <1>6, GetMaps
  <2>2. file' = file /\ below' = below
    BY <1>6 DEF getMaps, OnMaps
  <2> QED BY <1>1, <1>3, <2>1, <2>2, FilesAlone
<1>7. ASSUME OnFile PROVE MapsInv'
  <2>1. maps' = maps /\ mapped' = mapped /\ answer'.op # "getMaps"
    BY <1>7 DEF OnFile, NoAnswer
  <2> QED BY <2>1, MapsAlone
<1>8. CASE \E p \in Pathnames : MakeFile(p)
  <2>1. OnFile
    BY <1>8 DEF MakeFile
  <2> QED BY <1>1, <1>3, <1>7, <1>8, <2>1, MakeFileInv
<1>9. CASE GoUp
  <2>1. OnFile
    BY <1>9 DEF GoUp
  <2> QED BY <1>1, <1>3, <1>7, <1>9, <2>1, GoUpInv
<1>10. CASE GoAbsolute
  <2>1. OnFile
    BY <1>10 DEF GoAbsolute
  <2> QED BY <1>1, <1>3, <1>7, <1>10, <2>1, GoAbsoluteInv
<1> QED BY <1>4, <1>5, <1>6, <1>8, <1>9, <1>10 DEF Maps

(* The invariant is inductive.                                             *)
THEOREM StepIInv == IInv /\ [Next]_vars => IInv'
<1> SUFFICES ASSUME IInv, [Next]_vars PROVE IInv'
  OBVIOUS
<1>1. ASSUME NEW t \in Threads, Interfaces(t) PROVE IInv'
  BY <1>1, InterfacesStep
<1>2. CASE Maps
  BY <1>2, MapsStep
<1>3. CASE UNCHANGED vars
  <2>1. work' = work /\ UNCHANGED interfaces /\ UNCHANGED paths /\ answer' = answer
    BY <1>3 DEF vars
  <2>2. maps' = maps /\ mapped' = mapped /\ file' = file /\ below' = below
    BY <2>1 DEF paths
  <2> QED BY <2>1, <2>2, InterfacesAlone, MapsAlone, FilesAlone DEF IInv
<1> QED BY <1>1, <1>2, <1>3 DEF Next

THEOREM IInvHolds == Spec => []IInv
<1>1. Init => IInv
  BY InitIInv
<1>2. IInv /\ [Next]_vars => IInv'
  BY StepIInv
<1> QED BY <1>1, <1>2, PTL DEF Spec

-----------------------------------------------------------------------------
(* Type correctness.                                                       *)
LEMMA IInvTypeOK == IInv => TypeOK
<1> SUFFICES ASSUME IInv PROVE TypeOK
  OBVIOUS
<1>1. /\ ifaces \in Seq(Structures) /\ given \in Seq(Givens) /\ Len(ifaces) = Len(given)
      /\ Len(ifaces) <= MaxInterfaces
  BY DEF IInv, InterfacesInv, Made
<1>2. ASSUME NEW k \in DOMAIN ifaces
      PROVE  /\ ifaces[k].mode \in Modes /\ ifaces[k].lmb \in Maybe(Lmbs)
             /\ {ifaces[k].ip, ifaces[k].bcast, ifaces[k].mask} \subseteq Addresses
             /\ ifaces[k].wins \in Seq(Addresses) /\ given[k].for \in Maybe(Addresses)
  <2>1. ifaces[k] \in Structures /\ given[k] \in Givens
    BY <1>1
  <2> QED BY <2>1 DEF Structures, Givens
<1>3. /\ pc \in [Threads -> {"idle", "count", "addr", "set"}] /\ raced \in BOOLEAN
      /\ \A t \in Threads : pc[t] = "idle" \/ call[t].i \in 1 .. MaxInterfaces + 1
  BY DEF IInv, InterfacesInv, Calls, Called
<1>4. \A n \in Names : (maps[n] = Null) = (mapped[n] = Null)
  BY MapAssumption DEF IInv, MapsInv, Kept
<1>5. file = Null \/ Pathname(file)
  BY NormalStays DEF IInv, FilesInv, Climbing
<1> QED BY <1>1, <1>2, <1>3, <1>4, <1>5 DEF IInv, TypeOK

(* The local master browser is only ever set for the first interface that  *)
(* has the address in its subnet, and setLMB says truly whether there is   *)
(* one, unless an interface is removed on the way.                         *)
LEMMA IInvLmb == IInv => LmbGoesToItsSubnet
<1> SUFFICES ASSUME IInv, ~raced PROVE LmbGoesToItsSubnet
  BY DEF LmbGoesToItsSubnet
<1>1. DOMAIN given = 1 .. Len(given) /\ DOMAIN ifaces = 1 .. Len(ifaces)
  BY DEF IInv, InterfacesInv, Made
<1>2. SetForFirst /\ SaidTruly
  BY DEF IInv, InterfacesInv
<1> QED BY <1>1, <1>2 DEF LmbGoesToItsSubnet, SetForFirst, SaidTruly, Match, NoneBelow, InSubnet

(* A parent for every name, and then none; absolute Files stay absolute,   *)
(* and a parent and a name make the child.                                 *)
LEMMA IInvParents == IInv => ParentsLeadUp
<1> SUFFICES ASSUME IInv, below # <<>> PROVE ParentsLeadUp
  BY DEF ParentsLeadUp
<1>1. PICK h, n : h = Height(below[1]) /\ n = Len(below)
  OBVIOUS
<1>2. n \in Nat /\ h = IF file = Null THEN n - 1 ELSE n + Height(file)
  BY <1>1 DEF IInv, FilesInv, Climbing
<1>3. file # Null => Height(file) \in Nat
  BY Visits DEF IInv, FilesInv, Climbing
<1>4. n <= h + 1
  <2>1. CASE file = Null
    BY <1>2, <2>1
  <2>2. CASE file # Null
    BY <1>2, <1>3, <2>2
  <2> QED BY <2>1, <2>2
<1>5. file # Null => RisesFrom(below[n], file)
  BY <1>1 DEF IInv, FilesInv
<1> QED BY <1>1, <1>4, <1>5 DEF ParentsLeadUp, RisesFrom, Height

(* Spec keeps its variables in their types.                                *)
THEOREM TypeCorrect == Spec => []TypeOK
BY IInvHolds, IInvTypeOK, PTL

(* setLMB and the interfaces added and removed by any number of threads:   *)
(* the master is set where the address belongs.                            *)
THEOREM LmbSafe == Spec => []LmbGoesToItsSubnet
BY IInvHolds, IInvLmb, PTL

(* getInterfaces and getMaps return what has been added and not removed.   *)
THEOREM ComeBackSafe == Spec => []ObjectsComeBack
<1>1. IInv => ObjectsComeBack
  BY DEF IInv, InterfacesInv, MapsInv, ObjectsComeBack
<1> QED BY IInvHolds, <1>1, PTL

(* The parents of a File lead up and end.                                  *)
THEOREM ParentsSafe == Spec => []ParentsLeadUp
BY IInvHolds, IInvParents, PTL
===============================================================================

----------------------------- MODULE Paths_proofs -----------------------------
(***************************************************************************)
(* Pathnames of any length, of any names: a path taken apart and printed   *)
(* has the parts it had; a File's pathname is normal and making a File of  *)
(* it again changes nothing; a parent is a path of one name less, and with *)
(* the name of its child it makes the child.                               *)
(*                                                                         *)
(* What the names in a pathname are is defined by a recursive function of  *)
(* its length: the first section is induction over the natural numbers,    *)
(* by the least counterexample, and the second unfolds that function.      *)
(***************************************************************************)
EXTENDS Paths, SequenceTheorems, WellFoundedInduction, TLAPS

-----------------------------------------------------------------------------
(* Induction.                                                              *)
Less == {ss \in Nat \X Nat : ss[1] < ss[2]}

(* Every nonempty set of natural numbers has a least member.               *)
LEMMA NatMin ==
  ASSUME NEW T, T \subseteq Nat, T # {} PROVE \E x \in T : \A y \in T : x <= y
<1>1. IsWellFoundedOn(Less, Nat)
  BY NatLessThanWellFounded DEF OpToRel, Less
<1>2. PICK x \in T : \A y \in T : ~ (<<y, x>> \in Less)
  BY <1>1, WFMin
<1>3. ASSUME NEW y \in T PROVE x <= y
  <2>1. <<y, x>> \in Nat \X Nat /\ ~ (<<y, x>> \in Less)
    BY <1>2
  <2> QED BY <2>1 DEF Less
<1> QED BY <1>3

(* Induction over the natural numbers, for a set that says what is shown.  *)
LEMMA Induction ==
  ASSUME NEW S, 0 \in S, \A n \in Nat : n \in S => n + 1 \in S
  PROVE  Nat \subseteq S
<1> DEFINE T == Nat \ S
<1> SUFFICES ASSUME T # {} PROVE FALSE
  OBVIOUS
<1>1. PICK x \in T : \A y \in T : x <= y
  BY NatMin
<1>2. x \in Nat /\ x # 0 /\ x - 1 \in Nat /\ x = (x - 1) + 1
  BY <1>1
<1> QED BY <1>1, <1>2

-----------------------------------------------------------------------------
(* The names in a pathname.                                                *)
Walk(p, m, g) ==
  g = [n \in 0 .. m |-> IF n = 0 THEN <<>>
                        ELSE IF p[n] \in Names THEN Append(g[n - 1], p[n]) ELSE g[n - 1]]

(* The function of NamesIn exists.                                         *)
LEMMA WalkExists == ASSUME NEW p, NEW m \in Nat PROVE \E g : Walk(p, m, g)
<1> DEFINE S == {n \in Nat : \E g : Walk(p, n, g)}
<1>1. 0 \in S
  <2> DEFINE g == [n \in 0 .. 0 |-> <<>>]
  <2>1. g = [n \in 0 .. 0 |-> IF n = 0 THEN <<>>
                        ELSE IF p[n] \in Names THEN Append(g[n - 1], p[n]) ELSE g[n - 1]]
    OBVIOUS
  <2> QED BY <2>1 DEF Walk
<1>2. ASSUME NEW k \in Nat, k \in S PROVE k + 1 \in S
  <2>1. PICK g : Walk(p, k, g)
    BY <1>2
  <2> DEFINE next == IF p[k + 1] \in Names THEN Append(g[k], p[k + 1]) ELSE g[k]
  <2> DEFINE h == [n \in 0 .. k + 1 |-> IF n = k + 1 THEN next ELSE g[n]]
  <2>2. ASSUME NEW n \in 0 .. k + 1
        PROVE  h[n] = IF n = 0 THEN <<>>
                      ELSE IF p[n] \in Names THEN Append(h[n - 1], p[n]) ELSE h[n - 1]
    <3>1. CASE n = k + 1
      <4>1. n # 0 /\ n - 1 = k /\ n - 1 \in 0 .. k + 1 /\ n - 1 # k + 1
        BY <1>2, <3>1
      <4>2. h[n - 1] = g[k] /\ h[n] = next
        BY <3>1, <4>1
      <4> QED BY <3>1, <4>1, <4>2
    <3>2. CASE n # k + 1
      <4>1. n \in 0 .. k
        BY <1>2, <2>2, <3>2
      <4>2. h[n] = g[n]
        BY <2>2, <3>2
      <4>3. n # 0 => h[n - 1] = g[n - 1]
        BY <1>2, <2>2, <3>2
      <4>4. g[n] = IF n = 0 THEN <<>>
                   ELSE IF p[n] \in Names THEN Append(g[n - 1], p[n]) ELSE g[n - 1]
        BY <2>1, <4>1 DEF Walk
      <4> QED BY <4>2, <4>3, <4>4
    <3> QED BY <3>1, <3>2
  <2>3. h = [n \in 0 .. k + 1 |->
               IF n = 0 THEN <<>>
               ELSE IF p[n] \in Names THEN Append(h[n - 1], p[n]) ELSE h[n - 1]]
    <3> HIDE DEF next
    <3>1. h = [n \in 0 .. k + 1 |-> h[n]]
      OBVIOUS
    <3> HIDE DEF h
    <3> QED BY <2>2, <3>1
  <2>4. Walk(p, k + 1, h)
    <3> HIDE DEF h
    <3> QED BY <2>3 DEF Walk
  <2> HIDE DEF h
  <2> QED BY <1>2, <2>4
<1> HIDE DEF S
<1>3. Nat \subseteq S
  BY <1>1, <1>2, Induction
<1> QED BY <1>3 DEF S

LEMMA NamesWalk ==
  ASSUME NEW p, Len(p) \in Nat
  PROVE  \E g : Walk(p, Len(p), g) /\ NamesIn(p) = g[Len(p)]
<1> DEFINE w == CHOOSE g : Walk(p, Len(p), g)
<1>1. NamesIn(p) = w[Len(p)]
  BY DEF NamesIn, Walk
<1>2. Walk(p, Len(p), w)
  BY WalkExists
<1> QED BY <1>1, <1>2

(* One turn of the walk.                                                   *)
LEMMA WalkStep ==
  ASSUME NEW p, NEW m \in Nat, NEW g, Walk(p, m, g)
  PROVE  /\ g[0] = <<>>
         /\ \A n \in 1 .. m :
              /\ p[n] \in Names => g[n] = Append(g[n - 1], p[n])
              /\ p[n] \notin Names => g[n] = g[n - 1]
<1>1. \A n \in 0 .. m : g[n] = IF n = 0 THEN <<>>
                        ELSE IF p[n] \in Names THEN Append(g[n - 1], p[n]) ELSE g[n - 1]
  BY Zenon DEF Walk
<1>2. g[0] = <<>>
  BY <1>1
<1>3. \A n \in 1 .. m : n # 0 /\ n \in 0 .. m
  OBVIOUS
<1> QED BY <1>1, <1>2, <1>3

(* The names found in the first n characters, for every n.                 *)
LEMMA NamesInSteps ==
  ASSUME NEW p, p \in Seq(Characters)
  PROVE  \E g : /\ NamesIn(p) = g[Len(p)]
                /\ g[0] = <<>>
                /\ \A n \in 1 .. Len(p) :
                     /\ p[n] \in Names => g[n] = Append(g[n - 1], p[n])
                     /\ p[n] \notin Names => g[n] = g[n - 1]
<1>1. Len(p) \in Nat
  OBVIOUS
<1>2. PICK g : Walk(p, Len(p), g) /\ NamesIn(p) = g[Len(p)]
  BY <1>1, NamesWalk
<1>3. /\ g[0] = <<>>
      /\ \A n \in 1 .. Len(p) : /\ p[n] \in Names => g[n] = Append(g[n - 1], p[n])
                                /\ p[n] \notin Names => g[n] = g[n - 1]
  <2>1. PICK m : m = Len(p)
    OBVIOUS
  <2>2. m \in Nat /\ Walk(p, m, g)
    BY <1>1, <1>2, <2>1
  <2>3. /\ g[0] = <<>>
        /\ \A n \in 1 .. m : /\ p[n] \in Names => g[n] = Append(g[n - 1], p[n])
                             /\ p[n] \notin Names => g[n] = g[n - 1]
    BY <2>2, WalkStep
  <2> QED BY <2>1, <2>3, Zenon
<1> QED BY <1>2, <1>3, Zenon

(* What is found is a sequence of names.                                   *)
LEMMA NamesInType ==
  ASSUME NEW p, p \in Seq(Characters) PROVE NamesIn(p) \in Seq(Names)
<1>1. Len(p) \in Nat
  OBVIOUS
<1>2. PICK g : /\ NamesIn(p) = g[Len(p)]
               /\ g[0] = <<>>
               /\ \A n \in 1 .. Len(p) :
                    /\ p[n] \in Names => g[n] = Append(g[n - 1], p[n])
                    /\ p[n] \notin Names => g[n] = g[n - 1]
  BY NamesInSteps
<1> DEFINE S == {n \in Nat : n <= Len(p) => g[n] \in Seq(Names)}
<1>3. <<>> \in Seq(Names)
  OBVIOUS
<1>6. 0 \in S
  BY <1>2, <1>3
<1>4. ASSUME NEW k \in Nat, k \in S PROVE k + 1 \in S
  <2> SUFFICES ASSUME k + 1 <= Len(p) PROVE g[k + 1] \in Seq(Names)
    BY <1>4
  <2>1. k + 1 \in 1 .. Len(p) /\ (k + 1) - 1 = k /\ g[k] \in Seq(Names)
    BY <1>1, <1>4
  <2>2. /\ p[k + 1] \in Names => g[k + 1] = Append(g[k], p[k + 1])
        /\ p[k + 1] \notin Names => g[k + 1] = g[k]
    BY <1>2, <2>1
  <2>3. CASE p[k + 1] \in Names
    <3>1. PICK e, t : e = p[k + 1] /\ t = g[k]
      OBVIOUS
    <3>2. Append(t, e) \in Seq(Names)
      BY <2>1, <2>3, <3>1, AppendProperties
    <3> QED BY <2>2, <2>3, <3>1, <3>2
  <2> QED BY <2>1, <2>2, <2>3
<1>5. Len(p) \in S
  <2> HIDE DEF S
  <2> QED BY <1>1, <1>6, <1>4, Induction
<1> QED BY <1>2, <1>5

-----------------------------------------------------------------------------
(* Names with separators between them.                                     *)
LEMMA SeparatedShape ==
  ASSUME NEW s, s \in Seq(Names)
  PROVE  /\ Separated(s) \in Seq(Characters)
         /\ Len(Separated(s)) = IF s = <<>> THEN 0 ELSE 2 * Len(s) - 1
         /\ \A j \in 1 .. Len(s) : Separated(s)[2 * j - 1] = s[j]
         /\ \A j \in 1 .. Len(s) - 1 : Separated(s)[2 * j] = Sep
<1> DEFINE n == IF s = <<>> THEN 0 ELSE 2 * Len(s) - 1
<1>1. Len(s) \in Nat /\ n \in Nat /\ 1 .. 2 * Len(s) - 1 = 1 .. n
  OBVIOUS
<1>2. \A i \in 1 .. n : (i % 2 = 1 => (i + 1) \div 2 \in 1 .. Len(s))
  BY <1>1
<1>3. Separated(s) = [i \in 1 .. n |-> IF i % 2 = 1 THEN s[(i + 1) \div 2] ELSE Sep]
  BY <1>1 DEF Separated
<1>4. \A i \in 1 .. n : Separated(s)[i] \in Characters
  BY <1>2, <1>3 DEF Characters
<1>5. Separated(s) \in Seq(Characters) /\ Len(Separated(s)) = n
  <2> HIDE DEF n
  <2> QED BY <1>1, <1>3, <1>4
<1>6. ASSUME NEW j \in 1 .. Len(s) PROVE Separated(s)[2 * j - 1] = s[j]
  <2>1. 2 * j - 1 \in 1 .. n /\ (2 * j - 1) % 2 = 1 /\ ((2 * j - 1) + 1) \div 2 = j
    BY <1>1
  <2> QED BY <1>3, <2>1
<1>7. ASSUME NEW j \in 1 .. Len(s) - 1 PROVE Separated(s)[2 * j] = Sep
  <2>1. 2 * j \in 1 .. n /\ (2 * j) % 2 # 1
    BY <1>1
  <2> QED BY <1>3, <2>1
<1> QED BY <1>5, <1>6, <1>7

\* p has m characters that are no names and then s, separated.
Spells(p, m, s) ==
  /\ p \in Seq(Characters) /\ Len(p) = m + Len(Separated(s))
  /\ \A i \in 1 .. m : p[i] \notin Names
  /\ \A i \in 1 .. Len(Separated(s)) : p[m + i] = Separated(s)[i]

(* The names put between separators are found again.                       *)
LEMMA NamesInSpelled ==
  ASSUME NEW p, NEW m, m \in Nat, NEW s, s \in Seq(Names), Spells(p, m, s)
  PROVE  NamesIn(p) = s
<1> DEFINE k == Len(s)
<1>1. Len(p) \in Nat /\ k \in Nat
  BY DEF Spells
<1>2. PICK g : /\ NamesIn(p) = g[Len(p)]
               /\ g[0] = <<>>
               /\ \A n \in 1 .. Len(p) :
                    /\ p[n] \in Names => g[n] = Append(g[n - 1], p[n])
                    /\ p[n] \notin Names => g[n] = g[n - 1]
  BY NamesInSteps DEF Spells
<1> DEFINE B == {n \in Nat : n <= m => g[n] = <<>>}
<1>4. g[m] = <<>>
  <2>1. 0 \in B
    BY <1>2
  <2>2. ASSUME NEW n \in Nat, n \in B PROVE n + 1 \in B
    <3> SUFFICES ASSUME n + 1 <= m PROVE g[n + 1] = <<>>
      BY <2>2
    <3>1. n + 1 \in 1 .. m /\ (n + 1) - 1 = n /\ g[n] = <<>>
      BY <2>2
    <3>2. n + 1 \in 1 .. Len(p) /\ p[n + 1] \notin Names
      BY <1>1, <3>1, SeparatedShape DEF Spells
    <3> QED BY <1>2, <3>1, <3>2
  <2>3. m \in B
    <3> HIDE DEF B
    <3> QED BY <2>1, <2>2, Induction
  <2> QED BY <2>3
<1> DEFINE C == {j \in Nat : j + 1 <= k => g[m + (2 * (j + 1) - 1)] = SubSeq(s, 1, j + 1)}
<1>5. ASSUME NEW j \in 1 .. k
      PROVE  LET n == m + (2 * j - 1) IN
             /\ n \in 1 .. Len(p) /\ p[n] = s[j] /\ s[j] \in Names
             /\ j < k => n + 1 \in 1 .. Len(p) /\ p[n + 1] \notin Names
  <2>1. Len(Separated(s)) = 2 * k - 1 /\ Separated(s)[2 * j - 1] = s[j]
    BY <1>1, <1>5, SeparatedShape
  <2>2. 2 * j - 1 \in 1 .. Len(Separated(s))
    BY <1>1, <2>1
  <2>3. p[m + (2 * j - 1)] = s[j]
    BY <2>1, <2>2 DEF Spells
  <2>4. ASSUME j < k PROVE /\ m + (2 * j - 1) + 1 \in 1 .. Len(p)
                           /\ p[m + (2 * j - 1) + 1] \notin Names
    <3>1. 2 * j \in 1 .. Len(Separated(s)) /\ j \in 1 .. k - 1
      BY <1>1, <2>1, <2>4
    <3>2. p[m + 2 * j] = Sep
      BY <3>1, SeparatedShape DEF Spells
    <3>3. m + (2 * j - 1) + 1 = m + 2 * j
      BY <1>1
    <3> QED BY <1>1, <2>1, <3>1, <3>2, <3>3, NamesAssumption DEF Spells
  <2>5. m + (2 * j - 1) \in 1 .. Len(p) /\ s[j] \in Names
    BY <1>1, <2>1, <2>2 DEF Spells
  <2> QED BY <2>3, <2>4, <2>5
<1>6. 0 \in C
  <2> SUFFICES ASSUME 1 <= k PROVE g[m + 1] = SubSeq(s, 1, 1)
    OBVIOUS
  <2>1. m + 1 \in 1 .. Len(p) /\ p[m + 1] = s[1] /\ s[1] \in Names
    BY <1>1, <1>5
  <2>2. g[m + 1] = Append(<<>>, s[1])
    <3>1. PICK w : w = m + 1
      OBVIOUS
    <3>2. w \in 1 .. Len(p) /\ p[w] \in Names /\ w - 1 = m
      BY <2>1, <3>1
    <3>3. g[w] = Append(g[w - 1], p[w])
      BY <1>2, <3>2
    <3> QED BY <1>4, <2>1, <3>1, <3>2, <3>3
  <2> QED BY <1>1, <2>2
<1>7. ASSUME NEW j \in Nat, j \in C PROVE j + 1 \in C
  <2> SUFFICES ASSUME j + 2 <= k
               PROVE  g[m + (2 * (j + 2) - 1)] = SubSeq(s, 1, j + 2)
    BY <1>7
  <2> DEFINE n == m + (2 * (j + 1) - 1)
  <2>1. j + 1 \in 1 .. k /\ j + 2 \in 1 .. k /\ j + 1 < k
    BY <1>1, <1>7
  <2>2. n + 1 \in 1 .. Len(p) /\ p[n + 1] \notin Names
    BY <1>5, <2>1
  <2>3. g[n] = SubSeq(s, 1, j + 1)
    BY <1>7, <2>1
  <2>4. g[n + 1] = SubSeq(s, 1, j + 1)
    BY <1>2, <2>2, <2>3
  <2>5. /\ m + (2 * (j + 2) - 1) = n + 2 /\ n + 2 \in 1 .. Len(p)
        /\ p[n + 2] = s[j + 2] /\ s[j + 2] \in Names
    <3>1. m + (2 * (j + 2) - 1) = n + 2
      BY <1>7
    <3> QED BY <1>5, <2>1, <3>1
  <2>6. g[n + 2] = Append(g[n + 1], s[j + 2])
    <3>1. PICK w : w = n + 2
      OBVIOUS
    <3>2. w \in 1 .. Len(p) /\ p[w] \in Names /\ w - 1 = n + 1
      BY <1>7, <1>1, <2>5, <3>1
    <3>3. g[w] = Append(g[w - 1], p[w])
      BY <1>2, <3>2
    <3> QED BY <2>5, <3>1, <3>2, <3>3
  <2>7. Append(SubSeq(s, 1, j + 1), s[j + 2]) = SubSeq(s, 1, j + 2)
    BY <1>1, <2>1
  <2> QED BY <2>4, <2>5, <2>6, <2>7
<1>8. Nat \subseteq C
  <2> HIDE DEF C
  <2> QED BY <1>6, <1>7, Induction
<1>9. CASE s = <<>>
  <2>1. Len(Separated(s)) = 0
    BY <1>9, SeparatedShape
  <2>2. Len(p) = m
    BY <2>1 DEF Spells
  <2> QED BY <1>2, <1>4, <1>9, <2>2
<1>10. CASE s # <<>>
  <2>1. k - 1 \in Nat /\ (k - 1) + 1 = k /\ Len(p) = m + (2 * k - 1)
    <3>1. k \in Nat /\ k # 0
      BY <1>1, <1>10
    <3>2. Len(Separated(s)) = 2 * k - 1
      BY <1>10, SeparatedShape
    <3>3. Len(p) = m + Len(Separated(s))
      BY DEF Spells
    <3> QED BY <3>1, <3>2, <3>3
  <2>2. g[Len(p)] = SubSeq(s, 1, k)
    BY <1>8, <2>1
  <2> QED BY <1>2, <2>2
<1> QED BY <1>9, <1>10

\* What ofc_path_create makes, and what is the same printed and taken apart again.
OFCPath == [device : Names \cup {Null}, remote : BOOLEAN, absolute : BOOLEAN, names : Seq(Names)]
Canonical(q) == /\ q \in OFCPath /\ (q.remote => q.absolute)
                /\ q.device # Null => q.remote = q.absolute
Rest(q) == SeparatorsOf(q) \o Separated(q.names)
Margin(q) == Len(SeparatorsOf(q))

(* Separated names and separators take turns.                              *)
LEMMA SeparatedTurns ==
  ASSUME NEW s, s \in Seq(Names)
  PROVE  \A i \in 1 .. Len(Separated(s)) :
           /\ i % 2 = 1 => Separated(s)[i] \in Names
           /\ i % 2 = 0 => Separated(s)[i] = Sep
<1> SUFFICES ASSUME NEW i \in 1 .. Len(Separated(s))
             PROVE  /\ i % 2 = 1 => Separated(s)[i] \in Names
                    /\ i % 2 = 0 => Separated(s)[i] = Sep
  OBVIOUS
<1>1. Len(s) \in Nat /\ i \in 1 .. 2 * Len(s) - 1
  <2>1. Len(Separated(s)) = IF s = <<>> THEN 0 ELSE 2 * Len(s) - 1
    BY SeparatedShape
  <2> QED BY <2>1
<1>2. Separated(s)[i] = IF i % 2 = 1 THEN s[(i + 1) \div 2] ELSE Sep
  BY <1>1 DEF Separated
<1>3. i % 2 = 1 => (i + 1) \div 2 \in 1 .. Len(s)
  BY <1>1
<1> QED BY <1>2, <1>3

(* The separators before the names of a path.                              *)
LEMMA SeparatorsShape ==
  ASSUME NEW q, q \in OFCPath
  PROVE  /\ SeparatorsOf(q) \in Seq(Characters) /\ Margin(q) \in 0 .. 2
         /\ \A i \in 1 .. Margin(q) : SeparatorsOf(q)[i] = Sep
         /\ Margin(q) = 2 <=> q.remote \/ (q.device # Null /\ q.absolute)
         /\ Margin(q) > 0 <=> q.remote \/ q.absolute
<1>1. Sep \in Characters
  BY DEF Characters
<1>2. CASE q.remote \/ (q.device # Null /\ q.absolute)
  <2>1. SeparatorsOf(q) = <<Sep, Sep>>
    BY <1>2 DEF SeparatorsOf
  <2> QED BY <1>1, <1>2, <2>1 DEF Margin
<1>3. CASE ~(q.remote \/ (q.device # Null /\ q.absolute)) /\ q.absolute
  <2>1. SeparatorsOf(q) = <<Sep>>
    BY <1>3 DEF SeparatorsOf
  <2> QED BY <1>1, <1>3, <2>1 DEF Margin
<1>4. CASE ~q.remote /\ ~q.absolute
  <2>1. SeparatorsOf(q) = <<>>
    BY <1>4 DEF SeparatorsOf
  <2> QED BY <1>1, <1>4, <2>1 DEF Margin
<1> QED BY <1>2, <1>3, <1>4

(* A path without its device: separators, then names.                      *)
LEMMA RestShape ==
  ASSUME NEW q, q \in OFCPath
  PROVE  /\ Rest(q) \in Seq(Characters) /\ Spells(Rest(q), Margin(q), q.names)
         /\ Len(Rest(q)) = Margin(q) + Len(Separated(q.names))
         /\ \A i \in 1 .. Margin(q) : Rest(q)[i] = Sep
         /\ \A i \in 1 .. Len(Separated(q.names)) :
              Rest(q)[Margin(q) + i] = Separated(q.names)[i]
<1>1. /\ SeparatorsOf(q) \in Seq(Characters) /\ Margin(q) \in 0 .. 2
      /\ \A i \in 1 .. Margin(q) : SeparatorsOf(q)[i] = Sep
  BY SeparatorsShape
<1>2. q.names \in Seq(Names) /\ Separated(q.names) \in Seq(Characters)
  BY SeparatedShape DEF OFCPath
<1>3. PICK m, n : m = Margin(q) /\ n = Len(Separated(q.names))
  OBVIOUS
<1>4. m \in Nat /\ n \in Nat
  BY <1>1, <1>2, <1>3
<1>5. /\ Rest(q) \in Seq(Characters) /\ Len(Rest(q)) = m + n
      /\ \A i \in 1 .. m + n : Rest(q)[i] = IF i <= m THEN SeparatorsOf(q)[i]
                                            ELSE Separated(q.names)[i - m]
  BY <1>1, <1>2, <1>3, ConcatProperties DEF Rest, Margin
<1>6. \A i \in 1 .. m : Rest(q)[i] = Sep
  BY <1>1, <1>3, <1>4, <1>5
<1>7. ASSUME NEW i \in 1 .. n PROVE Rest(q)[m + i] = Separated(q.names)[i]
  <2>1. m + i \in 1 .. m + n /\ ~(m + i <= m) /\ (m + i) - m = i
    BY <1>4
  <2> QED BY <1>5, <2>1
<1>8. Sep \notin Names
  BY NamesAssumption
<1> QED BY <1>3, <1>4, <1>5, <1>6, <1>7, <1>8 DEF Spells

(* No colon is in it, and no two names are side by side.                   *)
LEMMA RestApart ==
  ASSUME NEW q, q \in OFCPath
  PROVE  /\ \A i \in 1 .. Len(Rest(q)) : Rest(q)[i] # ":"
         /\ \A i \in 1 .. Len(Rest(q)) - 1 : ~({Rest(q)[i], Rest(q)[i + 1]} \subseteq Names)
<1>1. PICK m, n, s : m = Margin(q) /\ n = Len(Separated(q.names)) /\ s = q.names
  OBVIOUS
<1>2. m \in Nat /\ n \in Nat /\ s \in Seq(Names)
  BY <1>1, SeparatorsShape, SeparatedShape DEF OFCPath
<1>3. /\ Len(Rest(q)) = m + n /\ \A i \in 1 .. m : Rest(q)[i] = Sep
      /\ \A i \in 1 .. n : Rest(q)[m + i] = Separated(s)[i]
  BY <1>1, RestShape
<1>4. \A i \in 1 .. n : /\ i % 2 = 1 => Separated(s)[i] \in Names
                        /\ i % 2 = 0 => Separated(s)[i] = Sep
  BY <1>1, <1>2, SeparatedTurns
<1>5. ASSUME NEW i \in 1 .. m + n
      PROVE  \/ i <= m /\ Rest(q)[i] = Sep
             \/ /\ i - m \in 1 .. n /\ i > m /\ (i - m) % 2 = 1 /\ Rest(q)[i] \in Names
             \/ /\ i - m \in 1 .. n /\ i > m /\ (i - m) % 2 = 0 /\ Rest(q)[i] = Sep
  <2>1. CASE i <= m
    BY <1>2, <1>3, <2>1
  <2>2. CASE i > m
    <3>1. i - m \in 1 .. n /\ m + (i - m) = i
      BY <1>2, <2>2
    <3>2. Rest(q)[i] = Separated(s)[i - m]
      BY <1>3, <3>1
    <3>3. (i - m) % 2 = 1 \/ (i - m) % 2 = 0
      BY <3>1
    <3> QED BY <1>4, <2>2, <3>1, <3>2, <3>3
  <2> QED BY <1>2, <2>1, <2>2
<1>6. ":" # Sep /\ ":" \notin Names /\ Sep \notin Names
  BY NamesAssumption DEF Sep
<1>7. ASSUME NEW i \in 1 .. (m + n) - 1 PROVE ~({Rest(q)[i], Rest(q)[i + 1]} \subseteq Names)
  <2> SUFFICES ASSUME Rest(q)[i] \in Names, Rest(q)[i + 1] \in Names PROVE FALSE
    OBVIOUS
  <2>1. i \in 1 .. m + n /\ i + 1 \in 1 .. m + n
    BY <1>2
  <2>2. i > m /\ (i - m) % 2 = 1 /\ ((i + 1) - m) % 2 = 1
    BY <1>5, <1>6, <2>1
  <2> QED BY <1>2, <2>2
<1> QED BY <1>3, <1>5, <1>6, <1>7

(* Sequences of one or two elements.                                       *)
LEMMA SeqOfOne == ASSUME NEW S, NEW s, s \in Seq(S), Len(s) = 1 PROVE s = <<s[1]>>
<1>1. s[1] \in S
  OBVIOUS
<1>2. <<s[1]>> \in Seq(S) /\ Len(<<s[1]>>) = 1 /\ \A i \in 1 .. 1 : <<s[1]>>[i] = s[i]
  BY <1>1
<1> QED BY <1>2, SeqEqual

LEMMA SeqOfTwo == ASSUME NEW S, NEW s, s \in Seq(S), Len(s) = 2 PROVE s = <<s[1], s[2]>>
<1>1. s[1] \in S /\ s[2] \in S
  BY ElementOfSeq
<1>2. /\ <<s[1], s[2]>> \in Seq(S) /\ Len(<<s[1], s[2]>>) = 2
      /\ \A i \in 1 .. 2 : <<s[1], s[2]>>[i] = s[i]
  BY <1>1
<1> QED BY <1>2, SeqEqual

(* How what is printed without a device starts.                            *)
LEMMA RestStarts ==
  ASSUME NEW q, q \in OFCPath
  PROVE  /\ Starts(<<Sep, Sep>>, Rest(q)) <=> Margin(q) = 2
         /\ Starts(<<Sep>>, Rest(q)) <=> Margin(q) > 0
<1>1. PICK r, m, n : r = Rest(q) /\ m = Margin(q) /\ n = Len(Separated(q.names))
  OBVIOUS
<1>2. /\ m \in 0 .. 2 /\ n \in Nat /\ q.names \in Seq(Names)
  BY <1>1, SeparatorsShape, SeparatedShape DEF OFCPath
<1>3. /\ r \in Seq(Characters) /\ Len(r) = m + n /\ \A i \in 1 .. m : r[i] = Sep
      /\ \A i \in 1 .. n : r[m + i] = Separated(q.names)[i]
  BY <1>1, RestShape
<1>4. n > 0 => r[m + 1] \in Names
  <2> SUFFICES ASSUME n > 0 PROVE r[m + 1] \in Names
    OBVIOUS
  <2>1. 1 \in 1 .. n /\ 1 % 2 = 1
    BY <1>2
  <2> QED BY <1>1, <1>2, <1>3, <2>1, SeparatedTurns
<1>5. Sep \notin Names
  BY NamesAssumption
<1>6. Starts(<<Sep>>, r) <=> Len(r) >= 1 /\ r[1] = Sep
  <2>1. Len(<<Sep>>) = 1
    OBVIOUS
  <2>2. ASSUME Len(r) >= 1 PROVE SubSeq(r, 1, 1) = <<r[1]>>
    <3>1. \A i \in 1 .. 1 : r[i] \in Characters
      BY <1>3, <2>2
    <3>2. /\ SubSeq(r, 1, 1) \in Seq(Characters) /\ Len(SubSeq(r, 1, 1)) = 1
          /\ \A i \in 1 .. 1 : SubSeq(r, 1, 1)[i] = r[i]
      BY <3>1, SubSeqProperties
    <3>3. PICK t : t = SubSeq(r, 1, 1)
      OBVIOUS
    <3>4. t = <<t[1]>>
      BY <3>2, <3>3, SeqOfOne
    <3> QED BY <3>2, <3>3, <3>4
  <2> QED BY <2>1, <2>2 DEF Starts
<1>7. Starts(<<Sep, Sep>>, r) <=> Len(r) >= 2 /\ r[1] = Sep /\ r[2] = Sep
  <2>1. Len(<<Sep, Sep>>) = 2
    OBVIOUS
  <2>2. ASSUME Len(r) >= 2 PROVE SubSeq(r, 1, 2) = <<r[1], r[2]>>
    <3>1. \A i \in 1 .. 2 : r[i] \in Characters
      BY <1>3, <2>2
    <3>2. /\ SubSeq(r, 1, 2) \in Seq(Characters) /\ Len(SubSeq(r, 1, 2)) = 2
          /\ \A i \in 1 .. 2 : SubSeq(r, 1, 2)[i] = r[i]
      BY <3>1, SubSeqProperties
    <3>3. PICK t : t = SubSeq(r, 1, 2)
      OBVIOUS
    <3>4. t = <<t[1], t[2]>>
      BY <3>2, <3>3, SeqOfTwo
    <3> QED BY <3>2, <3>3, <3>4
  <2> QED BY <2>1, <2>2 DEF Starts
<1>8. CASE m = 0
  BY <1>1, <1>2, <1>3, <1>4, <1>5, <1>6, <1>7, <1>8
<1>9. CASE m = 1
  BY <1>1, <1>2, <1>3, <1>4, <1>5, <1>6, <1>7, <1>9
<1>10. CASE m = 2
  BY <1>1, <1>2, <1>3, <1>6, <1>7, <1>10
<1> QED BY <1>2, <1>8, <1>9, <1>10

(* How a path starts.                                                      *)
LEMMA StartsShape ==
  ASSUME NEW r, r \in Seq(Characters)
  PROVE  /\ Starts(<<Sep>>, r) <=> Len(r) >= 1 /\ r[1] = Sep
         /\ Starts(<<Sep, Sep>>, r) <=> Len(r) >= 2 /\ r[1] = Sep /\ r[2] = Sep
<1>6. Starts(<<Sep>>, r) <=> Len(r) >= 1 /\ r[1] = Sep
  <2>1. Len(<<Sep>>) = 1
    OBVIOUS
  <2>2. ASSUME Len(r) >= 1 PROVE SubSeq(r, 1, 1) = <<r[1]>>
    <3>1. \A i \in 1 .. 1 : r[i] \in Characters
      BY <2>2
    <3>2. /\ SubSeq(r, 1, 1) \in Seq(Characters) /\ Len(SubSeq(r, 1, 1)) = 1
          /\ \A i \in 1 .. 1 : SubSeq(r, 1, 1)[i] = r[i]
      BY <3>1, SubSeqProperties
    <3>3. PICK t : t = SubSeq(r, 1, 1)
      OBVIOUS
    <3>4. t = <<t[1]>>
      BY <3>2, <3>3, SeqOfOne
    <3> QED BY <3>2, <3>3, <3>4
  <2> QED BY <2>1, <2>2 DEF Starts
<1>7. Starts(<<Sep, Sep>>, r) <=> Len(r) >= 2 /\ r[1] = Sep /\ r[2] = Sep
  <2>1. Len(<<Sep, Sep>>) = 2
    OBVIOUS
  <2>2. ASSUME Len(r) >= 2 PROVE SubSeq(r, 1, 2) = <<r[1], r[2]>>
    <3>1. \A i \in 1 .. 2 : r[i] \in Characters
      BY <2>2
    <3>2. /\ SubSeq(r, 1, 2) \in Seq(Characters) /\ Len(SubSeq(r, 1, 2)) = 2
          /\ \A i \in 1 .. 2 : SubSeq(r, 1, 2)[i] = r[i]
      BY <3>1, SubSeqProperties
    <3>3. PICK t : t = SubSeq(r, 1, 2)
      OBVIOUS
    <3>4. t = <<t[1], t[2]>>
      BY <3>2, <3>3, SeqOfTwo
    <3> QED BY <3>2, <3>3, <3>4
  <2> QED BY <2>1, <2>2 DEF Starts
<1> QED BY <1>6, <1>7

Ahead(q) == Len(DeviceOf(q))

(* What is printed: the device, if there is one, and the rest.             *)
LEMMA PrintShape ==
  ASSUME NEW q, q \in OFCPath
  PROVE  /\ ofc_path_print(q) \in Seq(Characters)
         /\ Len(ofc_path_print(q)) = Ahead(q) + Len(Rest(q))
         /\ \A i \in 1 .. Len(Rest(q)) : ofc_path_print(q)[Ahead(q) + i] = Rest(q)[i]
         /\ q.device = Null => Ahead(q) = 0 /\ ofc_path_print(q) = Rest(q)
         /\ q.device # Null => /\ q.device \in Names /\ Ahead(q) = 2
                               /\ ofc_path_print(q)[1] = q.device
                               /\ ofc_path_print(q)[2] = ":"
<1>1. PICK p, d, r : p = ofc_path_print(q) /\ d = DeviceOf(q) /\ r = Rest(q)
  OBVIOUS
<1>2. r \in Seq(Characters)
  BY <1>1, RestShape
<1>3. q.device \in Names \cup {Null}
  BY DEF OFCPath
<1>4. p = d \o r
  BY <1>1 DEF ofc_path_print, Rest
<1>5. CASE q.device = Null
  <2>1. d = <<>>
    BY <1>1, <1>5 DEF DeviceOf
  <2>2. p = r
    BY <1>2, <1>4, <2>1
  <2>3. Ahead(q) = 0
    BY <1>1, <2>1 DEF Ahead
  <2>4. Len(r) \in Nat
    BY <1>2
  <2> QED BY <1>1, <1>2, <1>5, <2>2, <2>3, <2>4
<1>6. CASE q.device # Null
  <2>1. d = <<q.device, ":">> /\ q.device \in Names
    BY <1>1, <1>3, <1>6 DEF DeviceOf
  <2>2. d \in Seq(Characters) /\ Len(d) = 2 /\ d[1] = q.device /\ d[2] = ":"
    BY <2>1 DEF Characters
  <2>3. /\ p \in Seq(Characters) /\ Len(p) = 2 + Len(r) /\ Len(r) \in Nat
        /\ \A i \in 1 .. 2 + Len(r) : p[i] = IF i <= 2 THEN d[i] ELSE r[i - 2]
    <3>1. /\ d \o r \in Seq(Characters) /\ Len(d \o r) = Len(d) + Len(r)
          /\ \A i \in 1 .. Len(d) + Len(r) : (d \o r)[i] = IF i <= Len(d) THEN d[i] ELSE r[i - Len(d)]
      BY <1>2, <2>2, ConcatProperties, Zenon
    <3>2. Len(r) \in Nat
      BY <1>2
    <3> QED BY <1>4, <2>2, <3>1, <3>2
  <2>4. p[1] = q.device /\ p[2] = ":"
    BY <2>2, <2>3
  <2>5. ASSUME NEW i \in 1 .. Len(r) PROVE p[2 + i] = r[i]
    <3>1. 2 + i \in 1 .. 2 + Len(r) /\ ~(2 + i <= 2) /\ (2 + i) - 2 = i
      BY <2>3
    <3> QED BY <2>3, <3>1
  <2>6. Ahead(q) = 2
    BY <1>1, <2>2 DEF Ahead
  <2> QED BY <1>1, <1>6, <2>1, <2>3, <2>4, <2>5, <2>6
<1> QED BY <1>5, <1>6

(* What lies behind a device.                                              *)
LEMMA Behind ==
  ASSUME NEW p, p \in Seq(Characters), HasDevice(p)
  PROVE  /\ SubSeq(p, 3, Len(p)) \in Seq(Characters)
         /\ Len(SubSeq(p, 3, Len(p))) = Len(p) - 2
         /\ \A i \in 1 .. Len(p) - 2 : SubSeq(p, 3, Len(p))[i] = p[i + 2]
<1>1. Len(p) \in Nat /\ Len(p) > 1
  BY DEF HasDevice
<1>2. \A i \in 3 .. Len(p) : p[i] \in Characters
  OBVIOUS
<1>3. PICK n : n = Len(p)
  OBVIOUS
<1>4. 3 \in Int /\ n \in Int /\ \A i \in 3 .. n : p[i] \in Characters
  BY <1>1, <1>2, <1>3
<1>5. /\ SubSeq(p, 3, n) \in Seq(Characters)
      /\ Len(SubSeq(p, 3, n)) = IF 3 <= n THEN n - 3 + 1 ELSE 0
      /\ \A i \in 1 .. n - 3 + 1 : SubSeq(p, 3, n)[i] = p[3 + i - 1]
  BY <1>4, SubSeqProperties
<1>6. ASSUME NEW i \in 1 .. n - 2 PROVE SubSeq(p, 3, n)[i] = p[i + 2]
  <2>1. i \in 1 .. n - 3 + 1 /\ 3 + i - 1 = i + 2
    BY <1>4
  <2> QED BY <1>5, <2>1
<1> QED BY <1>1, <1>3, <1>5, <1>6

(* A path printed has a device if it had one, and the same rest.           *)
LEMMA PrintDevice ==
  ASSUME NEW q, q \in OFCPath
  PROVE  /\ HasDevice(ofc_path_print(q)) <=> q.device # Null
         /\ q.device # Null => SubSeq(ofc_path_print(q), 3, Len(ofc_path_print(q))) = Rest(q)
<1>1. PICK p, r : p = ofc_path_print(q) /\ r = Rest(q)
  OBVIOUS
<1>2. r \in Seq(Characters) /\ p \in Seq(Characters) /\ Len(r) \in Nat
  BY <1>1, RestShape, PrintShape
<1>3. CASE q.device = Null
  <2>1. p = r
    BY <1>1, <1>3, PrintShape
  <2>2. \A i \in 1 .. Len(r) : r[i] # ":"
    BY <1>1, RestApart
  <2>3. ~ HasDevice(p)
    BY <1>2, <2>1, <2>2 DEF HasDevice
  <2> QED BY <1>1, <1>3, <2>3
<1>4. CASE q.device # Null
  <2>1. /\ Len(p) = 2 + Len(r) /\ p[2] = ":"
        /\ \A i \in 1 .. Len(r) : p[2 + i] = r[i]
    BY <1>1, <1>4, PrintShape
  <2>2. HasDevice(p)
    BY <1>2, <2>1 DEF HasDevice
  <2>3. PICK t : t = SubSeq(p, 3, Len(p))
    OBVIOUS
  <2>4. /\ t \in Seq(Characters) /\ Len(t) = Len(r)
        /\ \A i \in 1 .. Len(r) : t[i] = p[i + 2]
    BY <1>2, <2>1, <2>2, <2>3, Behind
  <2>5. \A i \in 1 .. Len(r) : t[i] = r[i]
    BY <2>1, <2>4
  <2>6. t = r
    BY <1>2, <2>4, <2>5, SeqEqual
  <2> QED BY <1>1, <1>4, <2>2, <2>3, <2>6
<1> QED BY <1>3, <1>4

(* A path printed and taken apart: its parts are the same, but for a       *)
(* device's separators, which are two.                                     *)
THEOREM CreatePrint ==
  ASSUME NEW q, q \in OFCPath
  PROVE  ofc_path_create(ofc_path_print(q)) =
           [device |-> q.device, remote |-> (Margin(q) = 2), absolute |-> (Margin(q) > 0),
            names |-> q.names]
<1>1. PICK p, r : p = ofc_path_print(q) /\ r = Rest(q)
  OBVIOUS
<1>2. r = IF HasDevice(p) THEN SubSeq(p, 3, Len(p)) ELSE p
  BY <1>1, PrintDevice, PrintShape
<1>3. ofc_path_create(p) =
        [device |-> IF HasDevice(p) THEN p[1] ELSE Null, remote |-> Starts(<<Sep, Sep>>, r),
         absolute |-> Starts(<<Sep>>, r), names |-> NamesIn(r)]
  BY <1>2 DEF ofc_path_create
<1>4. q.device = IF HasDevice(p) THEN p[1] ELSE Null
  BY <1>1, PrintDevice, PrintShape
<1>5. (Starts(<<Sep, Sep>>, r) <=> Margin(q) = 2) /\ (Starts(<<Sep>>, r) <=> Margin(q) > 0)
  BY <1>1, RestStarts
<1>6. Starts(<<Sep, Sep>>, r) \in BOOLEAN /\ Starts(<<Sep>>, r) \in BOOLEAN
  BY DEF Starts
<1>7. NamesIn(r) = q.names
  <2>1. Margin(q) \in Nat /\ q.names \in Seq(Names) /\ Spells(r, Margin(q), q.names)
    BY <1>1, SeparatorsShape, RestShape DEF OFCPath
  <2> QED BY <2>1, NamesInSpelled
<1> QED BY <1>1, <1>3, <1>4, <1>5, <1>6, <1>7

(* What is printed is a pathname.                                          *)
LEMMA PrintPathname ==
  ASSUME NEW q, q \in OFCPath PROVE Pathname(ofc_path_print(q))
<1>1. PICK p, r, d : p = ofc_path_print(q) /\ r = Rest(q) /\ d = Ahead(q)
  OBVIOUS
<1>2. r \in Seq(Characters) /\ p \in Seq(Characters) /\ Len(r) \in Nat /\ Len(p) \in Nat
  BY <1>1, RestShape, PrintShape
<1>3. /\ \A i \in 1 .. Len(r) : r[i] # ":"
      /\ \A i \in 1 .. Len(r) - 1 : ~({r[i], r[i + 1]} \subseteq Names)
  BY <1>1, RestApart
<1>4. CASE q.device = Null
  <2>1. p = r
    BY <1>1, <1>4, PrintShape
  <2>2. DOMAIN p = 1 .. Len(p)
    BY <1>2
  <2> QED BY <1>1, <1>2, <1>3, <2>1, <2>2 DEF Pathname
<1>5. CASE q.device # Null
  <2>1. /\ Len(p) = 2 + Len(r) /\ p[2] = ":" /\ p[1] \in Names
        /\ \A i \in 1 .. Len(r) : p[2 + i] = r[i]
    BY <1>1, <1>5, PrintShape
  <2>2. ASSUME NEW i \in 3 .. Len(p) PROVE i - 2 \in 1 .. Len(r) /\ p[i] = r[i - 2]
    <3>1. i - 2 \in 1 .. Len(r) /\ 2 + (i - 2) = i
      BY <1>2, <2>1
    <3> QED BY <2>1, <3>1
  <2>3. ":" \notin Names
    BY NamesAssumption
  <2>4. ASSUME NEW i \in 1 .. Len(p) - 1 PROVE ~({p[i], p[i + 1]} \subseteq Names)
    <3>1. CASE i = 1
      BY <2>1, <2>3, <3>1
    <3>2. CASE i = 2
      BY <2>1, <2>3, <3>2
    <3>3. CASE i >= 3
      <4>1. i \in 3 .. Len(p) /\ i + 1 \in 3 .. Len(p) /\ (i + 1) - 2 = (i - 2) + 1
        BY <1>2, <3>3
      <4>2. p[i] = r[i - 2] /\ p[i + 1] = r[(i - 2) + 1] /\ i - 2 \in 1 .. Len(r) - 1
        BY <1>2, <2>1, <2>2, <4>1
      <4> QED BY <1>3, <4>2
    <3> QED BY <1>2, <3>1, <3>2, <3>3
  <2>5. ASSUME NEW i \in DOMAIN p, p[i] = ":" PROVE i = 2 /\ p[1] \in Names
    <3>1. i \in 1 .. Len(p)
      BY <1>2, <2>5
    <3>2. i # 1
      BY <2>1, <2>3, <2>5
    <3>3. ~ (i >= 3)
      BY <1>2, <1>3, <2>2, <2>5, <3>1
    <3> QED BY <1>2, <2>1, <3>1, <3>2, <3>3
  <2> QED BY <1>1, <1>2, <2>4, <2>5 DEF Pathname
<1> QED BY <1>4, <1>5

(* A path that starts with a name has one.                                 *)
LEMMA NamesInFound ==
  ASSUME NEW p, p \in Seq(Characters), Len(p) > 0, p[1] \in Names PROVE NamesIn(p) # <<>>
<1>1. Len(p) \in Nat
  OBVIOUS
<1>2. PICK g : /\ NamesIn(p) = g[Len(p)]
               /\ g[0] = <<>>
               /\ \A n \in 1 .. Len(p) :
                    /\ p[n] \in Names => g[n] = Append(g[n - 1], p[n])
                    /\ p[n] \notin Names => g[n] = g[n - 1]
  BY NamesInSteps
<1> DEFINE S == {n \in Nat : n + 1 <= Len(p) => g[n + 1] \in Seq(Names) /\ g[n + 1] # <<>>}
<1>3. 0 \in S
  <2>1. 1 \in 1 .. Len(p)
    BY <1>1
  <2>2. g[1] = Append(<<>>, p[1])
    BY <1>2, <2>1
  <2>3. PICK t, e : t = <<>> /\ e = p[1]
    OBVIOUS
  <2>4. t \in Seq(Names) /\ e \in Names
    BY <2>3
  <2>6. Append(t, e) \in Seq(Names) /\ Append(t, e) # <<>>
    BY <2>4, AppendProperties
  <2>7. g[1] = Append(t, e)
    BY <2>2, <2>3
  <2>5. g[0 + 1] \in Seq(Names) /\ g[0 + 1] # <<>>
    <3> HIDE DEF S
    <3>1. 0 + 1 = 1
      OBVIOUS
    <3>2. g[1] \in Seq(Names) /\ g[1] # <<>>
      BY <2>6, <2>7, Zenon
    <3> QED BY <3>1, <3>2
  <2> QED BY <2>5
<1>4. ASSUME NEW k \in Nat, k \in S PROVE k + 1 \in S
  <2> SUFFICES ASSUME k + 2 <= Len(p) PROVE g[k + 2] \in Seq(Names) /\ g[k + 2] # <<>>
    BY <1>4
  <2>1. k + 2 \in 1 .. Len(p) /\ (k + 2) - 1 = k + 1 /\ g[k + 1] \in Seq(Names) /\ g[k + 1] # <<>>
    BY <1>1, <1>4
  <2>2. /\ p[k + 2] \in Names => g[k + 2] = Append(g[k + 1], p[k + 2])
        /\ p[k + 2] \notin Names => g[k + 2] = g[k + 1]
    BY <1>2, <2>1
  <2>3. CASE p[k + 2] \in Names
    <3>1. PICK e, t : e = p[k + 2] /\ t = g[k + 1]
      OBVIOUS
    <3>2. Append(t, e) \in Seq(Names) /\ Append(t, e) # <<>>
      BY <2>1, <2>3, <3>1, AppendProperties
    <3> QED BY <2>2, <2>3, <3>1, <3>2
  <2> QED BY <2>1, <2>2, <2>3
<1>5. Len(p) - 1 \in S
  <2>1. Len(p) - 1 \in Nat
    BY <1>1
  <2> HIDE DEF S
  <2> QED BY <1>3, <1>4, <2>1, Induction
<1>6. (Len(p) - 1) + 1 = Len(p)
  BY <1>1
<1> QED BY <1>2, <1>5, <1>6

(* What a pathname is taken apart into.                                    *)
LEMMA CreateType ==
  ASSUME NEW p, Pathname(p)
  PROVE  /\ ofc_path_create(p) \in OFCPath
         /\ ofc_path_create(p).remote => ofc_path_create(p).absolute
<1>1. PICK r : r = IF HasDevice(p) THEN SubSeq(p, 3, Len(p)) ELSE p
  OBVIOUS
<1>2. p \in Seq(Characters)
  BY DEF Pathname
<1>3. r \in Seq(Characters)
  BY <1>1, <1>2, Behind
<1>4. HasDevice(p) => p[1] \in Names
  <2> SUFFICES ASSUME HasDevice(p) PROVE p[1] \in Names
    OBVIOUS
  <2>1. Len(p) \in Nat /\ Len(p) > 1 /\ p[2] = ":" /\ DOMAIN p = 1 .. Len(p)
    BY <1>2 DEF HasDevice
  <2>2. 2 \in DOMAIN p
    BY <2>1
  <2> QED BY <2>1, <2>2 DEF Pathname
<1>5. ofc_path_create(p) =
        [device |-> IF HasDevice(p) THEN p[1] ELSE Null, remote |-> Starts(<<Sep, Sep>>, r),
         absolute |-> Starts(<<Sep>>, r), names |-> NamesIn(r)]
  BY <1>1 DEF ofc_path_create
<1>6. Starts(<<Sep, Sep>>, r) \in BOOLEAN /\ Starts(<<Sep>>, r) \in BOOLEAN
  BY DEF Starts
<1>7. Starts(<<Sep, Sep>>, r) => Starts(<<Sep>>, r)
  <2>1. Len(r) \in Nat
    BY <1>3
  <2> QED BY <1>3, <2>1, StartsShape
<1>8. NamesIn(r) \in Seq(Names)
  BY <1>3, NamesInType
<1> QED BY <1>4, <1>5, <1>6, <1>7, <1>8 DEF OFCPath

\* A path that is printed as it is.
Normal(p) == Canonical(ofc_path_create(p)) /\ p = ofc_path_print(ofc_path_create(p))

(* What is printed is normal.                                              *)
LEMMA PrintNormal ==
  ASSUME NEW q, q \in OFCPath, q.remote => q.absolute
  PROVE  /\ Normal(ofc_path_print(q))
         /\ Canonical(q) => ofc_path_create(ofc_path_print(q)) = q
<1>1. PICK p, e, m : p = ofc_path_print(q) /\ e = ofc_path_create(p) /\ m = Margin(q)
  OBVIOUS
<1>2. e = [device |-> q.device, remote |-> (m = 2), absolute |-> (m > 0), names |-> q.names]
  BY <1>1, CreatePrint
<1>3. /\ m \in 0 .. 2
      /\ m = 2 <=> q.remote \/ (q.device # Null /\ q.absolute)
      /\ m > 0 <=> q.remote \/ q.absolute
  BY <1>1, SeparatorsShape
<1>4. /\ q.device \in Names \cup {Null} /\ q.names \in Seq(Names)
      /\ q.remote \in BOOLEAN /\ q.absolute \in BOOLEAN
  BY DEF OFCPath
<1>5. /\ e.device = q.device /\ e.names = q.names /\ e.remote = (m = 2) /\ e.absolute = (m > 0)
      /\ e \in OFCPath
  <2>1. (m = 2) \in BOOLEAN /\ (m > 0) \in BOOLEAN
    OBVIOUS
  <2> QED BY <1>2, <1>4, <2>1 DEF OFCPath
<1>6. Canonical(e)
  <2>1. e.remote => e.absolute
    BY <1>3, <1>5
  <2>2. e.device # Null => e.remote = e.absolute
    BY <1>3, <1>5
  <2> QED BY <1>5, <2>1, <2>2 DEF Canonical
<1>7. SeparatorsOf(e) = SeparatorsOf(q)
  <2>1. (e.remote \/ (e.device # Null /\ e.absolute)) <=> (q.remote \/ (q.device # Null /\ q.absolute))
    BY <1>3, <1>5
  <2>2. e.absolute <=> q.absolute
    BY <1>3, <1>5
  <2> QED BY <2>1, <2>2 DEF SeparatorsOf
<1>8. ofc_path_print(e) = p
  BY <1>1, <1>5, <1>7 DEF ofc_path_print, DeviceOf
<1>9. ASSUME Canonical(q) PROVE e = q
  <2>1. (m = 2) = q.remote /\ (m > 0) = q.absolute
    BY <1>3, <1>4, <1>9 DEF Canonical
  <2>2. q = [device |-> q.device, remote |-> q.remote, absolute |-> q.absolute, names |-> q.names]
    BY DEF OFCPath
  <2> QED BY <1>2, <2>1, <2>2
<1> QED BY <1>1, <1>6, <1>8, <1>9 DEF Normal

(* Only the empty path is printed as the empty path.                       *)
LEMMA PrintEmpty ==
  ASSUME NEW p, Pathname(p), ofc_path_print(ofc_path_create(p)) = <<>> PROVE p = <<>>
<1> SUFFICES ASSUME p # <<>> PROVE FALSE
  OBVIOUS
<1>1. PICK q : q = ofc_path_create(p)
  OBVIOUS
<1>2. q \in OFCPath /\ ofc_path_print(q) = <<>>
  BY <1>1, CreateType
<1>3. p \in Seq(Characters) /\ Len(p) \in Nat /\ Len(p) > 0 /\ DOMAIN p = 1 .. Len(p) /\ 1 \in DOMAIN p
  BY DEF Pathname
<1>4. PICK r, m, k, s : /\ r = Rest(q) /\ m = Margin(q) /\ s = q.names
                        /\ k = Len(Separated(q.names))
  OBVIOUS
<1>5. Len(r) = m + k /\ m \in Nat /\ k \in Nat /\ s \in Seq(Names)
  BY <1>2, <1>4, RestShape, SeparatorsShape, SeparatedShape DEF OFCPath
<1>6. Len(ofc_path_print(q)) = 0
  BY <1>2
<1>7. q.device = Null /\ m = 0 /\ k = 0
  <2>1. Len(ofc_path_print(q)) = Ahead(q) + (m + k)
    BY <1>2, <1>4, <1>5, PrintShape
  <2>2. q.device # Null => Ahead(q) = 2
    BY <1>2, PrintShape
  <2>3. q.device = Null => Ahead(q) = 0
    BY <1>2, PrintShape
  <2> QED BY <1>5, <1>6, <2>1, <2>2, <2>3
<1>8. s = <<>>
  <2>1. k = IF s = <<>> THEN 0 ELSE 2 * Len(s) - 1
    BY <1>4, <1>5, SeparatedShape
  <2> QED BY <1>5, <1>7, <2>1
<1>9. ~ HasDevice(p)
  <2>1. q.device = IF HasDevice(p) THEN p[1] ELSE Null
    BY <1>1 DEF ofc_path_create
  <2>2. HasDevice(p) => p[1] \in Names
    <3> SUFFICES ASSUME HasDevice(p) PROVE p[1] \in Names
      OBVIOUS
    <3>1. 2 \in DOMAIN p /\ p[2] = ":"
      BY <1>3 DEF HasDevice
    <3> QED BY <3>1 DEF Pathname
  <2> QED BY <1>7, <2>1, <2>2, NamesAssumption
<1>10. q.names = NamesIn(p) /\ q.absolute = Starts(<<Sep>>, p)
  BY <1>1, <1>9 DEF ofc_path_create
<1>11. p[1] \notin Names
  BY <1>3, <1>4, <1>8, <1>10, NamesInFound
<1>12. p[1] # Sep
  <2>1. ~ q.absolute
    <3>1. Margin(q) > 0 <=> q.remote \/ q.absolute
      BY <1>2, SeparatorsShape
    <3>2. ~ (Margin(q) > 0)
      BY <1>4, <1>7
    <3> QED BY <3>1, <3>2
  <2>2. ~ Starts(<<Sep>>, p)
    BY <1>10, <2>1
  <2> QED BY <1>3, <2>2, StartsShape
<1>13. p[1] # ":"
  BY <1>3 DEF Pathname
<1> QED BY <1>3, <1>11, <1>12, <1>13 DEF Characters

(* A pathname made normal is normal, and has the same names.               *)
LEMMA Normalized ==
  ASSUME NEW p, Pathname(p)
  PROVE  normalize(p) = ofc_path_print(ofc_path_create(p)) /\ Normal(normalize(p))
<1>1. normalize(p) = ofc_path_print(ofc_path_create(p))
  BY PrintEmpty DEF normalize
<1>2. PICK q : q = ofc_path_create(p)
  OBVIOUS
<1>3. q \in OFCPath /\ (q.remote => q.absolute)
  BY <1>2, CreateType
<1>4. Normal(ofc_path_print(q))
  BY <1>3, PrintNormal
<1> QED BY <1>1, <1>2, <1>4

(* A normal path is a pathname and stays as it is.                         *)
LEMMA NormalStays ==
  ASSUME NEW p, Normal(p)
  PROVE  /\ Pathname(p) /\ normalize(p) = p /\ getAbsoluteFile(p) = p
         /\ ofc_path_create(p) \in OFCPath
<1>1. PICK q : q = ofc_path_create(p)
  OBVIOUS
<1>2. q \in OFCPath /\ p = ofc_path_print(q)
  BY <1>1 DEF Normal, Canonical
<1>3. Pathname(p)
  BY <1>2, PrintPathname
<1>4. normalize(p) = p
  BY <1>1, <1>2 DEF normalize
<1>5. getAbsoluteFile(p) = p
  BY <1>1, <1>2, <1>4 DEF getAbsoluteFile, resolveFile, NewFile
<1> QED BY <1>1, <1>2, <1>3, <1>4, <1>5

(* normalize is idempotent.                                                *)
THEOREM NormalizeTwice ==
  ASSUME NEW p, Pathname(p) PROVE normalize(normalize(p)) = normalize(p)
BY Normalized, NormalStays

(* The last separator is the one that no other is behind.                  *)
LEMMA LastSeparatorIs ==
  ASSUME NEW p, NEW k, p \in Seq(Characters), k \in 0 .. Len(p), k = 0 \/ p[k] = Sep,
         \A i \in 1 .. Len(p) : p[i] = Sep => i <= k
  PROVE  LastSeparator(p) = k
<1> DEFINE at == {i \in 1 .. Len(p) : p[i] = Sep}
<1>1. Len(p) \in Nat
  OBVIOUS
<1>2. LastSeparator(p) = IF at = {} THEN 0 ELSE CHOOSE i \in at : \A j \in at : j <= i
  BY DEF LastSeparator
<1>3. CASE k = 0
  <2>1. at = {}
    BY <1>1, <1>3
  <2> QED BY <1>2, <1>3, <2>1
<1>4. CASE k # 0
  <2>1. k \in at /\ \A j \in at : j <= k
    BY <1>1, <1>4
  <2>2. \A i \in at : (\A j \in at : j <= i) => i = k
    BY <1>1, <2>1
  <2>3. (CHOOSE i \in at : \A j \in at : j <= i) = k
    <3> HIDE DEF at
    <3> QED BY <2>1, <2>2
  <2>4. at # {}
    BY <2>1
  <2> HIDE DEF at
  <2> QED BY <1>2, <2>3, <2>4
<1> QED BY <1>3, <1>4

\* What is printed before the names.
Heading(q) == DeviceOf(q) \o SeparatorsOf(q)

LEMMA Headed ==
  ASSUME NEW q, q \in OFCPath
  PROVE  /\ Heading(q) \in Seq(Characters) /\ Len(Heading(q)) = Ahead(q) + Margin(q)
         /\ ofc_path_print(q) = Heading(q) \o Separated(q.names)
         /\ Ahead(q) = IF q.device = Null THEN 0 ELSE 2
         /\ Margin(q) > 0 => Heading(q)[Ahead(q) + Margin(q)] = Sep
         /\ Margin(q) = 0 => \A i \in 1 .. Ahead(q) + Margin(q) : Heading(q)[i] # Sep
<1>1. PICK d, e, u : d = DeviceOf(q) /\ e = SeparatorsOf(q) /\ u = Separated(q.names)
  OBVIOUS
<1>2. /\ e \in Seq(Characters) /\ Len(e) = Margin(q) /\ Margin(q) \in 0 .. 2
      /\ \A i \in 1 .. Margin(q) : e[i] = Sep
  BY <1>1, SeparatorsShape DEF Margin
<1>3. u \in Seq(Characters)
  BY <1>1, SeparatedShape DEF OFCPath
<1>4. /\ d \in Seq(Characters) /\ Len(d) = Ahead(q)
      /\ Ahead(q) = IF q.device = Null THEN 0 ELSE 2
      /\ \A i \in 1 .. Ahead(q) : d[i] # Sep
  <2>1. Len(d) = Ahead(q)
    BY <1>1 DEF Ahead
  <2>2. CASE q.device = Null
    <3>1. d = <<>>
      BY <1>1, <2>2 DEF DeviceOf
    <3> QED BY <2>1, <2>2, <3>1
  <2>3. CASE q.device # Null
    <3>1. d = <<q.device, ":">> /\ q.device \in Names
      BY <1>1, <2>3 DEF DeviceOf, OFCPath
    <3>2. q.device # Sep /\ ":" # Sep
      BY <3>1, NamesAssumption DEF Sep
    <3> QED BY <2>1, <2>3, <3>1, <3>2 DEF Characters
  <2> QED BY <2>2, <2>3
<1>5. ofc_path_print(q) = Heading(q) \o u
  <2>1. (d \o e) \o u = d \o (e \o u)
    <3>1. d \in Seq(Characters) /\ e \in Seq(Characters) /\ u \in Seq(Characters)
      BY <1>2, <1>3, <1>4
    <3> QED BY <3>1, ConcatAssociative
  <2>2. ofc_path_print(q) = d \o (e \o u) /\ Heading(q) = d \o e
    BY <1>1 DEF ofc_path_print, Heading
  <2> QED BY <2>1, <2>2
<1>6. PICK a, m : a = Len(d) /\ m = Len(e)
  OBVIOUS
<1>7. a \in 0 .. 2 /\ m \in 0 .. 2
  BY <1>2, <1>4, <1>6
<1>8. /\ Heading(q) \in Seq(Characters) /\ Len(Heading(q)) = a + m
      /\ \A i \in 1 .. a + m : Heading(q)[i] = IF i <= a THEN d[i] ELSE e[i - a]
  <2>1. Heading(q) = d \o e
    BY <1>1 DEF Heading
  <2>2. /\ d \o e \in Seq(Characters) /\ Len(d \o e) = Len(d) + Len(e)
        /\ \A i \in 1 .. Len(d) + Len(e) : (d \o e)[i] = IF i <= Len(d) THEN d[i] ELSE e[i - Len(d)]
    BY <1>2, <1>4, ConcatProperties, Zenon
  <2> QED BY <1>6, <2>1, <2>2
<1>9. m > 0 => Heading(q)[a + m] = Sep
  <2> SUFFICES ASSUME m > 0 PROVE Heading(q)[a + m] = Sep
    OBVIOUS
  <2>1. a + m \in 1 .. a + m /\ ~ (a + m <= a) /\ (a + m) - a = m /\ m \in 1 .. Margin(q)
    BY <1>2, <1>6, <1>7
  <2> QED BY <1>2, <1>8, <2>1
<1>10. m = 0 => \A i \in 1 .. a + m : Heading(q)[i] # Sep
  <2> SUFFICES ASSUME m = 0, NEW i \in 1 .. a + m PROVE Heading(q)[i] # Sep
    OBVIOUS
  <2>1. i <= a /\ i \in 1 .. Ahead(q)
    BY <1>4, <1>6, <1>7
  <2> QED BY <1>4, <1>8, <2>1
<1> QED BY <1>1, <1>2, <1>4, <1>5, <1>6, <1>8, <1>9, <1>10

Height(p) == Len(ofc_path_create(p).names)

(* A normal path: the prefix, and the names separated behind it.           *)
LEMMA NormalShape ==
  ASSUME NEW p, Normal(p)
  PROVE  LET q == ofc_path_create(p)  d == prefixLength(p) IN
         /\ p \in Seq(Characters) /\ d \in Nat /\ Height(p) \in Nat
         /\ d = Ahead(q) + Margin(q)
         /\ Len(p) = IF Height(p) = 0 THEN d ELSE d + 2 * Height(p) - 1
         /\ \A j \in 1 .. Height(p) : p[d + 2 * j - 1] = q.names[j]
         /\ \A j \in 1 .. Height(p) - 1 : p[d + 2 * j] = Sep
         /\ Margin(q) > 0 => p[d] = Sep
         /\ Margin(q) = 0 => \A i \in 1 .. d : p[i] # Sep
         /\ Margin(q) > 0 <=> q.absolute
<1>1. PICK q, d, k, u, h : /\ q = ofc_path_create(p) /\ d = prefixLength(p) /\ k = Height(p)
                           /\ u = Separated(q.names) /\ h = Heading(q)
  OBVIOUS
<1>2. q \in OFCPath /\ p = ofc_path_print(q) /\ Canonical(q) /\ k = Len(q.names)
  BY <1>1 DEF Normal, Canonical, Height
<1>3. PICK m, a : m = Margin(q) /\ a = Ahead(q)
  OBVIOUS
<1>4. /\ q.device \in Names \cup {Null} /\ q.names \in Seq(Names)
      /\ q.remote \in BOOLEAN /\ q.absolute \in BOOLEAN /\ k \in Nat
  BY <1>2 DEF OFCPath
<1>5. /\ m \in 0 .. 2 /\ (m = 2 <=> q.remote \/ (q.device # Null /\ q.absolute))
      /\ (m > 0 <=> q.remote \/ q.absolute) /\ a = IF q.device = Null THEN 0 ELSE 2
  BY <1>2, <1>3, SeparatorsShape, Headed
<1>6. /\ q.remote => q.absolute
      /\ q.device # Null => q.remote = q.absolute
  BY <1>2 DEF Canonical
<1>7. d = a + m
  <2>1. d = IF q.device # Null THEN 2 + (IF q.absolute THEN 2 ELSE 0)
            ELSE IF q.remote THEN 2 ELSE IF q.absolute THEN 1 ELSE 0
    BY <1>1 DEF prefixLength
  <2>2. CASE q.device # Null
    <3>1. a = 2 /\ m = (IF q.absolute THEN 2 ELSE 0)
      BY <1>5, <1>6, <2>2
    <3> QED BY <2>1, <2>2, <3>1
  <2>3. CASE q.device = Null
    <3>1. a = 0 /\ m = (IF q.remote THEN 2 ELSE IF q.absolute THEN 1 ELSE 0)
      BY <1>5, <1>6, <2>3
    <3> QED BY <2>1, <2>3, <3>1
  <2> QED BY <2>2, <2>3
<1>8. /\ h \in Seq(Characters) /\ Len(h) = d /\ p = h \o u
      /\ m > 0 => h[d] = Sep
      /\ m = 0 => \A i \in 1 .. d : h[i] # Sep
  BY <1>1, <1>2, <1>3, <1>7, Headed
<1>9. /\ u \in Seq(Characters) /\ Len(u) = (IF k = 0 THEN 0 ELSE 2 * k - 1)
      /\ \A j \in 1 .. k : u[2 * j - 1] = q.names[j]
      /\ \A j \in 1 .. k - 1 : u[2 * j] = Sep
  <2>1. k = 0 <=> q.names = <<>>
    BY <1>2, <1>4
  <2> QED BY <1>1, <1>2, <1>4, <2>1, SeparatedShape
<1>10. PICK n : n = Len(u)
  OBVIOUS
<1>11. n \in Nat /\ d \in Nat
  BY <1>5, <1>7, <1>9, <1>10
<1>12. /\ p \in Seq(Characters) /\ Len(p) = d + n
       /\ \A i \in 1 .. d + n : p[i] = IF i <= d THEN h[i] ELSE u[i - d]
  <2>1. /\ h \o u \in Seq(Characters) /\ Len(h \o u) = Len(h) + Len(u)
        /\ \A i \in 1 .. Len(h) + Len(u) : (h \o u)[i] = IF i <= Len(h) THEN h[i] ELSE u[i - Len(h)]
    <3>1. h \in Seq(Characters) /\ u \in Seq(Characters)
      BY <1>8, <1>9
    <3> QED BY <3>1, ConcatProperties, Zenon
  <2>2. p = h \o u /\ Len(h) = d
    BY <1>8
  <2> QED BY <1>10, <2>1, <2>2
<1>13. ASSUME NEW i \in 1 .. n PROVE p[d + i] = u[i]
  <2>1. d + i \in 1 .. d + n /\ ~ (d + i <= d) /\ (d + i) - d = i
    BY <1>11
  <2> QED BY <1>12, <2>1
<1>14. ASSUME NEW j \in 1 .. k PROVE p[d + 2 * j - 1] = q.names[j]
  <2>1. 2 * j - 1 \in 1 .. n /\ d + (2 * j - 1) = d + 2 * j - 1
    BY <1>4, <1>9, <1>10, <1>11
  <2> QED BY <1>9, <1>13, <2>1
<1>15. ASSUME NEW j \in 1 .. k - 1 PROVE p[d + 2 * j] = Sep
  <2>1. 2 * j \in 1 .. n
    BY <1>4, <1>9, <1>10, <1>11
  <2> QED BY <1>9, <1>13, <2>1
<1>16. \A i \in 1 .. d : p[i] = h[i]
  BY <1>11, <1>12
<1>17. m > 0 => p[d] = Sep
  <2>1. m > 0 => d \in 1 .. d
    BY <1>5, <1>7, <1>11
  <2> QED BY <1>8, <1>16, <2>1
<1>18. m = 0 => \A i \in 1 .. d : p[i] # Sep
  BY <1>8, <1>16
<1>19. m > 0 <=> q.absolute
  BY <1>5, <1>6
<1>20. Len(p) = IF k = 0 THEN d ELSE d + 2 * k - 1
  BY <1>4, <1>9, <1>10, <1>11, <1>12
<1> QED BY <1>1, <1>3, <1>4, <1>7, <1>11, <1>12, <1>14, <1>15, <1>17, <1>18, <1>19, <1>20

(* Where the last separator of a normal path is.                           *)
LEMMA LastSeparatorOf ==
  ASSUME NEW p, Normal(p), Height(p) # 0
  PROVE  LET q == ofc_path_create(p)  d == prefixLength(p)  k == Height(p) IN
         LastSeparator(p) = IF k > 1 THEN d + 2 * k - 2 ELSE IF Margin(q) > 0 THEN d ELSE 0
<1>1. PICK q, d, k, m : /\ q = ofc_path_create(p) /\ d = prefixLength(p) /\ k = Height(p)
                        /\ m = Margin(q)
  OBVIOUS
<1>2. q \in OFCPath
  BY <1>1 DEF Normal, Canonical
<1>3. q.names \in Seq(Names) /\ Len(q.names) = k /\ m \in 0 .. 2
  BY <1>1, <1>2, SeparatorsShape DEF OFCPath, Height
<1>4. /\ p \in Seq(Characters) /\ d \in Nat /\ k \in Nat /\ k # 0 /\ d >= m
      /\ Len(p) = d + 2 * k - 1
      /\ \A j \in 1 .. k : p[d + 2 * j - 1] = q.names[j]
      /\ \A j \in 1 .. k - 1 : p[d + 2 * j] = Sep
      /\ m > 0 => p[d] = Sep
      /\ m = 0 => \A i \in 1 .. d : p[i] # Sep
  <2>1. Ahead(q) \in Nat
    BY <1>2, Headed
  <2>2. /\ p \in Seq(Characters) /\ d \in Nat /\ k \in Nat /\ d = Ahead(q) + m
        /\ Len(p) = IF k = 0 THEN d ELSE d + 2 * k - 1
    BY <1>1, NormalShape
  <2>3. /\ \A j \in 1 .. k : p[d + 2 * j - 1] = q.names[j]
        /\ \A j \in 1 .. k - 1 : p[d + 2 * j] = Sep
    <3>1. PICK s : s = q.names
      OBVIOUS
    <3>2. /\ \A j \in 1 .. k : p[d + 2 * j - 1] = s[j]
          /\ \A j \in 1 .. k - 1 : p[d + 2 * j] = Sep
      BY <1>1, <3>1, NormalShape, SMTT(30)
    <3> QED BY <3>1, <3>2
  <2>4. /\ m > 0 => p[d] = Sep
        /\ m = 0 => \A i \in 1 .. d : p[i] # Sep
    BY <1>1, NormalShape
  <2>5. d >= m /\ k # 0
    BY <1>1, <1>3, <2>1, <2>2
  <2> QED BY <2>2, <2>3, <2>4, <2>5
<1>5. p[d + 2 * k - 1] # Sep
  <2>1. k \in 1 .. k /\ q.names[k] \in Names
    BY <1>3, <1>4
  <2> QED BY <1>4, <2>1, NamesAssumption
<1>6. CASE k > 1
  <2>1. k - 1 \in 1 .. k - 1 /\ d + 2 * (k - 1) = d + 2 * k - 2
    BY <1>4, <1>6
  <2>2. p[d + 2 * k - 2] = Sep
    BY <1>4, <2>1
  <2>3. ASSUME NEW i \in 1 .. Len(p), p[i] = Sep PROVE i <= d + 2 * k - 2
    <3>1. i # d + 2 * k - 1
      BY <1>5, <2>3
    <3> QED BY <1>4, <3>1
  <2>4. PICK w : w = d + 2 * k - 2
    OBVIOUS
  <2>5. w \in 0 .. Len(p)
    BY <1>4, <1>6, <2>4
  <2>6. LastSeparator(p) = w
    BY <1>4, <2>2, <2>3, <2>4, <2>5, LastSeparatorIs
  <2> QED BY <1>1, <1>6, <2>4, <2>6
<1>7. CASE k = 1
  <2>1. Len(p) = d + 1 /\ p[d + 1] # Sep
    BY <1>4, <1>5, <1>7
  <2>2. CASE m > 0
    <3>1. ASSUME NEW i \in 1 .. Len(p), p[i] = Sep PROVE i <= d
      <4>1. i # d + 1
        BY <2>1, <3>1
      <4> QED BY <1>4, <2>1, <4>1
    <3>2. d \in 0 .. Len(p)
      BY <1>4, <2>1
    <3>3. LastSeparator(p) = d
      BY <1>4, <2>2, <3>1, <3>2, LastSeparatorIs
    <3> QED BY <1>1, <1>7, <2>2, <3>3
  <2>3. CASE m = 0
    <3>1. ASSUME NEW i \in 1 .. Len(p) PROVE p[i] # Sep
      <4>1. i = d + 1 \/ i \in 1 .. d
        BY <1>4, <2>1
      <4> QED BY <1>4, <2>1, <2>3, <4>1
    <3>2. 0 \in 0 .. Len(p)
      BY <1>4, <2>1
    <3>3. LastSeparator(p) = 0
      BY <1>4, <3>1, <3>2, LastSeparatorIs
    <3> QED BY <1>1, <1>7, <2>3, <3>3
  <2> QED BY <1>3, <2>2, <2>3
<1> QED BY <1>4, <1>6, <1>7

\* Without its last name.
Above(q) == [q EXCEPT !.names = SubSeq(@, 1, Len(@) - 1)]

LEMMA AboveType ==
  ASSUME NEW q, Canonical(q), q.names # <<>>
  PROVE  /\ Canonical(Above(q)) /\ Len(Above(q).names) = Len(q.names) - 1
         /\ Above(q).device = q.device /\ Above(q).absolute = q.absolute
         /\ Above(q).remote = q.remote /\ Above(q).names = SubSeq(q.names, 1, Len(q.names) - 1)
         /\ Len(q.names) \in Nat /\ Len(q.names) > 0
<1>1. /\ q \in OFCPath /\ (q.remote => q.absolute) /\ (q.device # Null => q.remote = q.absolute)
  BY DEF Canonical
<1>2. PICK s, t : s = q.names /\ t = SubSeq(s, 1, Len(s) - 1)
  OBVIOUS
<1>3. s \in Seq(Names) /\ Len(s) \in Nat /\ Len(s) > 0
  BY <1>1, <1>2 DEF OFCPath
<1>4. \A i \in 1 .. Len(s) - 1 : s[i] \in Names
  BY <1>3
<1>5. t \in Seq(Names) /\ Len(t) = Len(s) - 1
  BY <1>2, <1>3, <1>4, SubSeqProperties
<1>6. /\ Above(q) = [q EXCEPT !.names = t]
  BY <1>2 DEF Above
<1>7. /\ Above(q).device = q.device /\ Above(q).absolute = q.absolute
      /\ Above(q).remote = q.remote /\ Above(q).names = t /\ Above(q) \in OFCPath
  BY <1>1, <1>5, <1>6 DEF OFCPath
<1> QED BY <1>1, <1>2, <1>3, <1>5, <1>7 DEF Canonical

(* Separated names without the last one and the separator before it.       *)
LEMMA SeparatedAbove ==
  ASSUME NEW s, s \in Seq(Names), Len(s) > 1
  PROVE  SubSeq(Separated(s), 1, 2 * Len(s) - 3) = Separated(SubSeq(s, 1, Len(s) - 1))
<1>1. PICK k, u, t, v, w : /\ k = Len(s) /\ u = Separated(s) /\ t = SubSeq(s, 1, Len(s) - 1)
                           /\ v = Separated(t) /\ w = SubSeq(u, 1, 2 * k - 3)
  OBVIOUS
<1>2. k \in Nat /\ k > 1
  BY <1>1
<1>3. t \in Seq(Names) /\ Len(t) = k - 1 /\ \A i \in 1 .. k - 1 : t[i] = s[i]
  <2>1. \A i \in 1 .. k - 1 : s[i] \in Names
    BY <1>1
  <2> QED BY <1>1, <1>2, <2>1, SubSeqProperties
<1>4. u = [i \in 1 .. 2 * k - 1 |-> IF i % 2 = 1 THEN s[(i + 1) \div 2] ELSE Sep]
  BY <1>1 DEF Separated
<1>5. v = [i \in 1 .. 2 * k - 3 |-> IF i % 2 = 1 THEN t[(i + 1) \div 2] ELSE Sep]
  <2>1. 2 * (k - 1) - 1 = 2 * k - 3
    BY <1>2
  <2> QED BY <1>1, <1>3, <2>1 DEF Separated
<1>6. u \in Seq(Characters) /\ Len(u) = 2 * k - 1
  <2>1. s # <<>>
    BY <1>1, <1>2
  <2> QED BY <1>1, <2>1, SeparatedShape
<1>7. v \in Seq(Characters) /\ Len(v) = 2 * k - 3
  <2>1. t # <<>> /\ 2 * (k - 1) - 1 = 2 * k - 3
    BY <1>2, <1>3
  <2>2. v \in Seq(Characters) /\ Len(v) = IF t = <<>> THEN 0 ELSE 2 * Len(t) - 1
    BY <1>1, <1>3, SeparatedShape
  <2> QED BY <1>3, <2>1, <2>2
<1>8. /\ w \in Seq(Characters) /\ Len(w) = 2 * k - 3
      /\ \A i \in 1 .. 2 * k - 3 : w[i] = u[i]
  <2>1. PICK n : n = 2 * k - 3
    OBVIOUS
  <2>2. n \in Nat /\ \A i \in 1 .. n : u[i] \in Characters
    BY <1>2, <1>6, <2>1
  <2>3. /\ w \in Seq(Characters) /\ Len(w) = (IF 1 <= n THEN n - 1 + 1 ELSE 0)
        /\ \A i \in 1 .. n - 1 + 1 : w[i] = u[1 + i - 1]
    BY <1>1, <2>1, <2>2, SubSeqProperties
  <2>4. ASSUME NEW i \in 1 .. n PROVE w[i] = u[i]
    <3>1. i \in 1 .. n - 1 + 1 /\ 1 + i - 1 = i
      BY <2>2
    <3> QED BY <2>3, <3>1
  <2> QED BY <2>1, <2>2, <2>3, <2>4
<1>9. ASSUME NEW i \in 1 .. 2 * k - 3 PROVE w[i] = v[i]
  <2>1. i \in 1 .. 2 * k - 1
    BY <1>2
  <2>2. i % 2 = 1 => (i + 1) \div 2 \in 1 .. k - 1
    BY <1>2
  <2>3. w[i] = IF i % 2 = 1 THEN s[(i + 1) \div 2] ELSE Sep
    BY <1>4, <1>8, <2>1
  <2>4. v[i] = IF i % 2 = 1 THEN t[(i + 1) \div 2] ELSE Sep
    BY <1>5
  <2> QED BY <1>3, <2>2, <2>3, <2>4
<1>10. w = v
  BY <1>7, <1>8, <1>9, SeqEqual
<1> QED BY <1>1, <1>10

\* The first part of two sequences put together.
LEMMA SubSeqConcat ==
  ASSUME NEW S, NEW h, NEW u, NEW n, NEW m,
         h \in Seq(S), u \in Seq(S), n \in 0 .. Len(u), m = Len(h) + n
  PROVE  SubSeq(h \o u, 1, m) = h \o SubSeq(u, 1, n)
<1>1. PICK c, d, k, l, v, w : /\ c = h \o u /\ d = Len(h) /\ l = Len(u) /\ k = d + n
                              /\ v = SubSeq(u, 1, n) /\ w = SubSeq(c, 1, k)
  OBVIOUS
<1>2. d \in Nat /\ l \in Nat /\ n \in Nat /\ k \in Nat /\ n <= l
  BY <1>1
<1>3. /\ c \in Seq(S) /\ Len(c) = d + l
      /\ \A i \in 1 .. d + l : c[i] = IF i <= d THEN h[i] ELSE u[i - d]
  <2>1. /\ h \o u \in Seq(S) /\ Len(h \o u) = Len(h) + Len(u)
        /\ \A i \in 1 .. Len(h) + Len(u) : (h \o u)[i] = IF i <= Len(h) THEN h[i] ELSE u[i - Len(h)]
    BY ConcatProperties, Zenon
  <2> QED BY <1>1, <2>1
<1>4. v \in Seq(S) /\ Len(v) = n /\ \A i \in 1 .. n : v[i] = u[i]
  <2>1. \A i \in 1 .. n : u[i] \in S
    BY <1>1, <1>2
  <2>2. /\ v \in Seq(S) /\ Len(v) = (IF 1 <= n THEN n - 1 + 1 ELSE 0)
        /\ \A i \in 1 .. n - 1 + 1 : v[i] = u[1 + i - 1]
    BY <1>1, <1>2, <2>1, SubSeqProperties
  <2>3. ASSUME NEW i \in 1 .. n PROVE v[i] = u[i]
    <3>1. i \in 1 .. n - 1 + 1 /\ 1 + i - 1 = i
      BY <1>2
    <3> QED BY <2>2, <3>1
  <2> QED BY <1>2, <2>2, <2>3
<1>5. w \in Seq(S) /\ Len(w) = k /\ \A i \in 1 .. k : w[i] = c[i]
  <2>1. \A i \in 1 .. k : c[i] \in S
    BY <1>1, <1>2, <1>3
  <2>2. /\ w \in Seq(S) /\ Len(w) = (IF 1 <= k THEN k - 1 + 1 ELSE 0)
        /\ \A i \in 1 .. k - 1 + 1 : w[i] = c[1 + i - 1]
    BY <1>1, <1>2, <2>1, SubSeqProperties
  <2>3. ASSUME NEW i \in 1 .. k PROVE w[i] = c[i]
    <3>1. i \in 1 .. k - 1 + 1 /\ 1 + i - 1 = i
      BY <1>2
    <3> QED BY <2>2, <3>1
  <2> QED BY <1>2, <2>2, <2>3
<1>6. /\ h \o v \in Seq(S) /\ Len(h \o v) = d + n
      /\ \A i \in 1 .. d + n : (h \o v)[i] = IF i <= d THEN h[i] ELSE v[i - d]
  <2>1. /\ h \o v \in Seq(S) /\ Len(h \o v) = Len(h) + Len(v)
        /\ \A i \in 1 .. Len(h) + Len(v) : (h \o v)[i] = IF i <= Len(h) THEN h[i] ELSE v[i - Len(h)]
    BY <1>4, ConcatProperties, Zenon
  <2> QED BY <1>1, <1>4, <2>1
<1>7. ASSUME NEW i \in 1 .. k PROVE w[i] = (h \o v)[i]
  <2>1. i \in 1 .. d + n /\ i \in 1 .. d + l
    BY <1>1, <1>2
  <2>2. ~ (i <= d) => i - d \in 1 .. n
    BY <1>2, <2>1
  <2> QED BY <1>3, <1>4, <1>5, <1>6, <2>1, <2>2
<1>8. w = h \o v
  <2>1. Len(w) = Len(h \o v)
    BY <1>1, <1>5, <1>6
  <2>2. \A i \in 1 .. Len(w) : w[i] = (h \o v)[i]
    BY <1>5, <1>7
  <2>3. PICK x : x = h \o v
    OBVIOUS
  <2>4. w = x
    BY <1>5, <1>6, <2>1, <2>2, <2>3, SeqEqual
  <2> QED BY <2>3, <2>4
<1> QED BY <1>1, <1>8

(* A path of more than one name up to its last separator.                  *)
LEMMA Shorter ==
  ASSUME NEW p, Normal(p), Height(p) > 1
  PROVE  SubSeq(p, 1, LastSeparator(p) - 1) = ofc_path_print(Above(ofc_path_create(p)))
<1>1. PICK q, d, k, u, h, s : /\ q = ofc_path_create(p) /\ d = prefixLength(p) /\ k = Height(p)
                              /\ s = q.names /\ u = Separated(s) /\ h = Heading(q)
  OBVIOUS
<1>2. q \in OFCPath /\ p = ofc_path_print(q) /\ Canonical(q) /\ k = Len(s) /\ s \in Seq(Names)
  BY <1>1 DEF Normal, Canonical, Height, OFCPath
<1>3. k \in Nat /\ k > 1 /\ s # <<>>
  BY <1>1, <1>2
<1>4. h \in Seq(Characters) /\ Len(h) = d /\ p = h \o u /\ d \in Nat
  BY <1>1, <1>2, Headed, NormalShape
<1>5. LastSeparator(p) = d + 2 * k - 2
  BY <1>1, <1>3, LastSeparatorOf
<1>6. PICK n : n = 2 * k - 3
  OBVIOUS
<1>7. u \in Seq(Characters) /\ n \in 0 .. Len(u)
  <2>1. u \in Seq(Characters) /\ Len(u) = IF s = <<>> THEN 0 ELSE 2 * Len(s) - 1
    BY <1>1, <1>2, SeparatedShape
  <2> QED BY <1>2, <1>3, <1>6, <2>1
<1>14. PICK m : m = Len(h) + n
  OBVIOUS
<1>8. SubSeq(h \o u, 1, m) = h \o SubSeq(u, 1, n)
  <2>1. h \in Seq(Characters) /\ u \in Seq(Characters) /\ n \in 0 .. Len(u)
    BY <1>4, <1>7
  <2> QED BY <2>1, <1>14, SubSeqConcat
<1>9. SubSeq(u, 1, n) = Separated(SubSeq(s, 1, k - 1))
  BY <1>1, <1>2, <1>3, <1>6, SeparatedAbove
<1>10. /\ Above(q) \in OFCPath /\ Above(q).names = SubSeq(s, 1, k - 1)
       /\ Above(q).device = q.device /\ Above(q).absolute = q.absolute
       /\ Above(q).remote = q.remote
  BY <1>1, <1>2, <1>3, AboveType DEF Canonical
<1>11. Heading(Above(q)) = h
  BY <1>1, <1>10 DEF Heading, DeviceOf, SeparatorsOf
<1>12. ofc_path_print(Above(q)) = h \o Separated(SubSeq(s, 1, k - 1))
  BY <1>10, <1>11, Headed
<1>13. LastSeparator(p) - 1 = d + n
  BY <1>3, <1>4, <1>5, <1>6
<1> QED BY <1>1, <1>4, <1>8, <1>9, <1>12, <1>13, <1>14

(* The paths with nothing but separators, and with nothing but a name.     *)
RootPath(r) == [device |-> Null, remote |-> r, absolute |-> TRUE, names |-> <<>>]
Root(r) == IF r THEN <<Sep, Sep>> ELSE <<Sep>>

LEMMA Roots ==
  ASSUME NEW r, r \in BOOLEAN
  PROVE  Normal(Root(r)) /\ ofc_path_create(Root(r)) = RootPath(r) /\ NewFile(Root(r)) = Root(r)
<1>1. PICK q, e : q = RootPath(r) /\ e = <<>>
  OBVIOUS
<1>2. e \in Seq(Names)
  BY <1>1
<1>3. q \in OFCPath /\ Canonical(q)
  <2>1. q = [device |-> Null, remote |-> r, absolute |-> TRUE, names |-> e]
    BY <1>1 DEF RootPath
  <2> QED BY <1>2, <2>1 DEF OFCPath, Canonical
<1>4. ofc_path_print(q) = Root(r)
  <2>1. DeviceOf(q) = <<>> /\ SeparatorsOf(q) = Root(r)
    BY <1>1 DEF RootPath, DeviceOf, SeparatorsOf, Root
  <2>2. PICK v : v = Separated(q.names)
    OBVIOUS
  <2>3. v \in Seq(Characters) /\ Len(v) = 0
    <3>1. q.names = e
      BY <1>1 DEF RootPath
    <3>2. Separated(e) \in Seq(Characters) /\ Len(Separated(e)) = IF e = <<>> THEN 0 ELSE 2 * Len(e) - 1
      BY <1>2, SeparatedShape
    <3> QED BY <1>1, <2>2, <3>1, <3>2
  <2>4. v = <<>>
    BY <2>3
  <2>5. Root(r) \in Seq(Characters)
    <3>1. Sep \in Characters
      BY DEF Characters
    <3>2. <<Sep, Sep>> \in Seq(Characters) /\ <<Sep>> \in Seq(Characters)
      BY <3>1
    <3> QED BY <3>2 DEF Root
  <2> QED BY <2>1, <2>2, <2>4, <2>5, ConcatEmptySeq DEF ofc_path_print
<1>5. Normal(Root(r)) /\ ofc_path_create(Root(r)) = q
  BY <1>3, <1>4, PrintNormal DEF Canonical
<1> QED BY <1>1, <1>5, NormalStays DEF NewFile

NamePath(c) == [device |-> Null, remote |-> FALSE, absolute |-> FALSE, names |-> <<c>>]

LEMMA NameAlone ==
  ASSUME NEW c, c \in Names
  PROVE  Normal(<<c>>) /\ ofc_path_create(<<c>>).names = <<c>>
<1>1. PICK q, s : q = NamePath(c) /\ s = <<c>>
  OBVIOUS
<1>2. s \in Seq(Names) /\ Len(s) = 1 /\ s[1] = c /\ s # <<>>
  BY <1>1
<1>3. q \in OFCPath /\ Canonical(q) /\ q.names = s
  <2>1. q = [device |-> Null, remote |-> FALSE, absolute |-> FALSE, names |-> s]
    BY <1>1 DEF NamePath
  <2> QED BY <1>2, <2>1 DEF OFCPath, Canonical
<1>4. ofc_path_print(q) = s
  <2>1. DeviceOf(q) = <<>> /\ SeparatorsOf(q) = <<>>
    BY <1>1 DEF NamePath, DeviceOf, SeparatorsOf
  <2>2. PICK v : v = Separated(s)
    OBVIOUS
  <2>3. /\ v \in Seq(Characters) /\ Len(v) = (IF s = <<>> THEN 0 ELSE 2 * Len(s) - 1)
        /\ \A j \in 1 .. Len(s) : v[2 * j - 1] = s[j]
    BY <1>2, <2>2, SeparatedShape
  <2>4. Len(v) = 1 /\ v[1] = c
    <3>1. 1 \in 1 .. Len(s) /\ 2 * 1 - 1 = 1
      BY <1>2
    <3> QED BY <1>2, <2>3, <3>1
  <2>5. v = s
    BY <1>1, <2>3, <2>4, SeqOfOne
  <2>6. ofc_path_print(q) = <<>> \o (<<>> \o v)
    BY <1>3, <2>1, <2>2 DEF ofc_path_print
  <2>7. <<>> \o v = v
    BY <2>3, ConcatEmptySeq
  <2> QED BY <2>5, <2>6, <2>7
<1>5. Normal(s) /\ ofc_path_create(s) = q
  BY <1>3, <1>4, PrintNormal DEF Canonical
<1> QED BY <1>1, <1>3, <1>5

(* The empty path, which is normal too.                                    *)
EmptyPath == [device |-> Null, remote |-> FALSE, absolute |-> FALSE, names |-> <<>>]

LEMMA EmptyStays == normalize(<<>>) = <<>>
<1>1. PICK q, e : q = EmptyPath /\ e = <<>>
  OBVIOUS
<1>2. e \in Seq(Names)
  BY <1>1
<1>3. q \in OFCPath /\ Canonical(q) /\ q.names = e
  <2>1. q = [device |-> Null, remote |-> FALSE, absolute |-> FALSE, names |-> e]
    BY <1>1 DEF EmptyPath
  <2> QED BY <1>2, <2>1 DEF OFCPath, Canonical
<1>4. ofc_path_print(q) = <<>>
  <2>1. DeviceOf(q) = <<>> /\ SeparatorsOf(q) = <<>>
    BY <1>1 DEF EmptyPath, DeviceOf, SeparatorsOf
  <2>2. PICK v : v = Separated(e)
    OBVIOUS
  <2>3. v \in Seq(Characters) /\ Len(v) = IF e = <<>> THEN 0 ELSE 2 * Len(e) - 1
    BY <1>2, <2>2, SeparatedShape
  <2>4. v = <<>>
    BY <1>1, <2>3
  <2>5. ofc_path_print(q) = <<>> \o (<<>> \o v)
    BY <1>3, <2>1, <2>2 DEF ofc_path_print
  <2>6. <<>> \o v = v
    BY <2>3, ConcatEmptySeq
  <2> QED BY <2>4, <2>5, <2>6
<1>5. Normal(<<>>)
  BY <1>3, <1>4, PrintNormal DEF Canonical
<1> QED BY <1>5, NormalStays

(* The parent of a normal path: none if it has no name, and otherwise a    *)
(* normal path of one name less, absolute if it was; without a device it   *)
(* is the path without its last name.                                      *)
THEOREM ParentShape ==
  ASSUME NEW p, NEW prefixes, Normal(p), Null \notin prefixes
  PROVE  LET q == ofc_path_create(p)  f == getParentFile(p, prefixes) IN
         IF Height(p) = 0 THEN f = Null
         ELSE /\ Normal(f) /\ Height(f) = Height(p) - 1
              /\ q.absolute => ofc_path_create(f).absolute
              /\ q.absolute /\ q.device = Null => f = ofc_path_print(Above(q))
<1>1. PICK q, f, d, k, l : /\ q = ofc_path_create(p) /\ f = getParentFile(p, prefixes)
                           /\ d = prefixLength(p) /\ k = Height(p) /\ l = LastSeparator(p)
  OBVIOUS
<1>2. /\ q \in OFCPath /\ Canonical(q) /\ k = Len(q.names) /\ k \in Nat /\ d \in Nat
      /\ Len(p) = IF k = 0 THEN d ELSE d + 2 * k - 1
  BY <1>1, NormalShape DEF Normal, Canonical, Height
<1>3. f = IF Len(p) <= d THEN Null
          ELSE IF l <= d THEN NewFile(Root(isRemoteFile(p, prefixes))) ELSE Up(p)
  BY <1>1 DEF getParentFile, Root
<1>4. CASE k = 0
  <2>1. f = Null
    BY <1>2, <1>3, <1>4
  <2> QED BY <1>1, <1>4, <2>1
<1>5. CASE k = 1
  <2>1. PICK r : r = isRemoteFile(p, prefixes)
    OBVIOUS
  <2>2. r \in BOOLEAN /\ (q.device = Null => r = q.remote)
    <3>1. r = (q.device \in prefixes \/ (q.device = Null /\ q.remote))
      BY <1>1, <2>1 DEF isRemoteFile, ofc_path_map_device, IsSMB
    <3>2. q.remote \in BOOLEAN
      BY <1>2 DEF OFCPath
    <3> QED BY <3>1, <3>2
  <2>3. l = IF Margin(q) > 0 THEN d ELSE 0
    <3>1. l = IF k > 1 THEN d + 2 * k - 2 ELSE IF Margin(q) > 0 THEN d ELSE 0
      <4>1. Height(p) # 0
        BY <1>1, <1>5
      <4> QED BY <1>1, <4>1, LastSeparatorOf
    <3> QED BY <1>5, <3>1
  <2>4. ~ (Len(p) <= d) /\ l <= d
    BY <1>2, <1>5, <2>3
  <2>5. f = Root(r)
    BY <1>3, <2>1, <2>2, <2>4, Roots
  <2>6. Normal(f) /\ ofc_path_create(f) = RootPath(r)
    BY <2>2, <2>5, Roots
  <2>7. Height(f) = k - 1 /\ ofc_path_create(f).absolute
    BY <1>5, <2>6 DEF Height, RootPath
  <2>8. ASSUME q.absolute, q.device = Null PROVE f = ofc_path_print(Above(q))
    <3>1. q.names # <<>> /\ Len(q.names) - 1 = 0
      <4>1. q.names \in Seq(Names) /\ Len(q.names) = 1
        BY <1>2, <1>5 DEF OFCPath
      <4> QED BY <4>1
    <3>2. /\ Above(q) \in OFCPath /\ Above(q).device = Null /\ Above(q).absolute = q.absolute
          /\ Above(q).remote = q.remote /\ Len(Above(q).names) = 0
      BY <1>2, <1>5, <2>8, <3>1, AboveType DEF Canonical
    <3>3. Above(q).names \in Seq(Names) /\ q.absolute = TRUE
      BY <1>2, <2>8, <3>2 DEF OFCPath
    <3>4. Above(q).names = <<>>
      BY <3>2, <3>3
    <3>5. Above(q) = [device |-> Above(q).device, remote |-> Above(q).remote,
                      absolute |-> Above(q).absolute, names |-> Above(q).names]
      BY <3>2 DEF OFCPath
    <3>6. Above(q) = RootPath(r)
      BY <2>2, <2>8, <3>2, <3>3, <3>4, <3>5 DEF RootPath
    <3>7. f = ofc_path_print(RootPath(r))
      BY <2>6 DEF Normal
    <3> QED BY <3>6, <3>7
  <2> QED BY <1>1, <1>5, <2>6, <2>7, <2>8
<1>6. CASE k > 1
  <2>1. l = d + 2 * k - 2
    <3>1. l = IF k > 1 THEN d + 2 * k - 2 ELSE IF Margin(q) > 0 THEN d ELSE 0
      BY <1>1, <1>6, LastSeparatorOf
    <3> QED BY <1>6, <3>1
  <2>2. ~ (Len(p) <= d) /\ ~ (l <= d)
    BY <1>2, <1>6, <2>1
  <2>3. q.names # <<>>
    BY <1>2, <1>6
  <2>4. /\ Canonical(Above(q)) /\ Above(q) \in OFCPath /\ Len(Above(q).names) = k - 1
        /\ Above(q).absolute = q.absolute /\ (Above(q).remote => Above(q).absolute)
    BY <1>2, <2>3, AboveType DEF Canonical
  <2>5. PICK u : u = ofc_path_print(Above(q))
    OBVIOUS
  <2>6. Normal(u) /\ ofc_path_create(u) = Above(q)
    BY <2>4, <2>5, PrintNormal
  <2>7. f = u
    <3>1. SubSeq(p, 1, LastSeparator(p) - 1) = u
      BY <1>1, <1>6, <2>5, Shorter
    <3>2. f = Up(p)
      BY <1>3, <2>2
    <3> QED BY <2>6, <3>1, <3>2, NormalStays DEF Up, NewFile
  <2>8. Height(f) = k - 1 /\ (q.absolute => ofc_path_create(f).absolute)
    BY <2>4, <2>6, <2>7 DEF Height
  <2> QED BY <1>1, <1>6, <2>5, <2>6, <2>7, <2>8
<1>7. k = 0 \/ k = 1 \/ k > 1
  <2>1. k \in Nat
    BY <1>2
  <2> QED BY <2>1
<1> QED BY <1>4, <1>5, <1>6, <1>7

(* The name of a path is its last name.                                    *)
LEMMA NameOf ==
  ASSUME NEW p, Normal(p), Height(p) # 0, ofc_path_create(p).absolute
  PROVE  getName(p) = <<ofc_path_create(p).names[Height(p)]>>
<1>1. PICK q, d, k, l, w : /\ q = ofc_path_create(p) /\ d = prefixLength(p) /\ k = Height(p)
                           /\ l = LastSeparator(p) /\ w = getName(p)
  OBVIOUS
<1>2. /\ p \in Seq(Characters) /\ k \in Nat /\ d \in Nat /\ k # 0
      /\ Len(p) = IF k = 0 THEN d ELSE d + 2 * k - 1
      /\ \A j \in 1 .. k : p[d + 2 * j - 1] = q.names[j]
      /\ Margin(q) > 0 <=> q.absolute
  BY <1>1, NormalShape
<1>3. l = d + 2 * k - 2
  <2>1. l = IF k > 1 THEN d + 2 * k - 2 ELSE IF Margin(q) > 0 THEN d ELSE 0
    BY <1>1, LastSeparatorOf
  <2>2. Margin(q) > 0
    BY <1>1, <1>2
  <2> QED BY <1>2, <2>1, <2>2
<1>4. PICK m, n : m = l + 1 /\ n = Len(p)
  OBVIOUS
<1>5. m = n /\ n \in Nat /\ n > 0 /\ m = d + 2 * k - 1
  BY <1>2, <1>3, <1>4
<1>6. w = SubSeq(p, m, n)
  BY <1>1, <1>4 DEF getName
<1>7. \A i \in m .. n : p[i] \in Characters
  BY <1>2, <1>4, <1>5
<1>8. /\ w \in Seq(Characters) /\ Len(w) = (IF m <= n THEN n - m + 1 ELSE 0)
      /\ \A i \in 1 .. n - m + 1 : w[i] = p[m + i - 1]
  <2>1. m \in Int /\ n \in Int
    BY <1>5
  <2> QED BY <1>6, <1>7, <2>1, SubSeqProperties
<1>9. Len(w) = 1 /\ w[1] = p[m]
  <2>1. 1 \in 1 .. n - m + 1 /\ m + 1 - 1 = m /\ n - m + 1 = 1
    BY <1>5
  <2>2. Len(w) = 1
    <3>1. m <= n /\ n - m + 1 = 1
      BY <1>5
    <3>2. Len(w) = n - m + 1
      BY <1>8, <3>1, Zenon
    <3> QED BY <3>1, <3>2
  <2>3. w[1] = p[m + 1 - 1]
    BY <1>8, <2>1
  <2> QED BY <2>1, <2>2, <2>3
<1>10. p[m] = q.names[k]
  <2>1. k \in 1 .. k
    BY <1>2
  <2> QED BY <1>2, <1>5, <2>1
<1>11. w = <<w[1]>>
  BY <1>8, <1>9, SeqOfOne
<1> QED BY <1>1, <1>9, <1>10, <1>11

(* All but the last of a sequence, and the last, are the sequence.         *)
LEMMA FrontAndLast ==
  ASSUME NEW S, NEW s, s \in Seq(S), s # <<>>
  PROVE  SubSeq(s, 1, Len(s) - 1) \o <<s[Len(s)]>> = s
<1>1. PICK n, t, e : n = Len(s) /\ t = SubSeq(s, 1, n - 1) /\ e = <<s[n]>>
  OBVIOUS
<1>2. n \in Nat /\ n > 0
  BY <1>1
<1>3. PICK m : m = n - 1
  OBVIOUS
<1>4. m \in Nat /\ \A i \in 1 .. m : s[i] \in S
  BY <1>1, <1>2, <1>3
<1>5. /\ t \in Seq(S) /\ Len(t) = (IF 1 <= m THEN m - 1 + 1 ELSE 0)
      /\ \A i \in 1 .. m - 1 + 1 : t[i] = s[1 + i - 1]
  BY <1>1, <1>3, <1>4, SubSeqProperties
<1>6. ASSUME NEW i \in 1 .. m PROVE t[i] = s[i]
  <2>1. i \in 1 .. m - 1 + 1 /\ 1 + i - 1 = i
    BY <1>4
  <2> QED BY <1>5, <2>1
<1>7. e \in Seq(S) /\ Len(e) = 1 /\ e[1] = s[n]
  BY <1>1, <1>2
<1>8. /\ t \o e \in Seq(S) /\ Len(t \o e) = Len(t) + Len(e)
      /\ \A i \in 1 .. Len(t) + Len(e) : (t \o e)[i] = IF i <= Len(t) THEN t[i] ELSE e[i - Len(t)]
  BY <1>5, <1>7, ConcatProperties, Zenon
<1>9. Len(t) = m /\ n = m + 1
  BY <1>2, <1>3, <1>4, <1>5
<1>10. ASSUME NEW i \in 1 .. n PROVE (t \o e)[i] = s[i]
  <2>1. i <= m => i \in 1 .. m
    BY <1>4
  <2>2. ~(i <= m) => i = n /\ i - m = 1
    BY <1>4, <1>9
  <2> QED BY <1>4, <1>6, <1>7, <1>8, <1>9, <2>1, <2>2
<1>11. PICK x : x = t \o e
  OBVIOUS
<1>12. x \in Seq(S) /\ Len(x) = n /\ \A i \in 1 .. n : x[i] = s[i]
  <2>1. Len(t \o e) = n
    BY <1>7, <1>8, <1>9
  <2> QED BY <1>8, <1>10, <1>11, <2>1
<1>13. x = s
  BY <1>1, <1>12, SeqEqual
<1> QED BY <1>1, <1>11, <1>13

(* A parent and the name of its child make the child again.                *)
THEOREM ParentAndName ==
  ASSUME NEW p, NEW prefixes, Normal(p), Null \notin prefixes, Height(p) # 0,
         ofc_path_create(p).absolute, ofc_path_create(p).device = Null
  PROVE  NewChild(getParentFile(p, prefixes), getName(p)) = p
<1>1. PICK q, f, k, c : /\ q = ofc_path_create(p) /\ f = getParentFile(p, prefixes)
                        /\ k = Height(p) /\ c = q.names[k]
  OBVIOUS
<1>2. q \in OFCPath /\ Canonical(q) /\ p = ofc_path_print(q) /\ k = Len(q.names)
  BY <1>1 DEF Normal, Canonical, Height
<1>3. q.names \in Seq(Names) /\ q.names # <<>>
  BY <1>1, <1>2 DEF OFCPath
<1>4. c \in Names
  BY <1>1, <1>2, <1>3
<1>5. getName(p) = <<c>>
  BY <1>1, NameOf
<1>6. f = ofc_path_print(Above(q))
  BY <1>1, ParentShape
<1>7. Canonical(Above(q)) /\ Above(q) \in OFCPath /\ (Above(q).remote => Above(q).absolute)
  BY <1>2, <1>3, AboveType DEF Canonical
<1>8. ofc_path_create(f) = Above(q)
  BY <1>6, <1>7, PrintNormal
<1>9. normalize(<<c>>) = <<c>> /\ ofc_path_create(<<c>>).names = <<c>>
  BY <1>4, NameAlone, NormalStays
<1>10. Above(q).names \o <<c>> = q.names
  <2>1. PICK s : s = q.names
    OBVIOUS
  <2>2. s \in Seq(Names) /\ s # <<>> /\ c = s[Len(s)]
    BY <1>1, <1>2, <1>3, <2>1
  <2>3. SubSeq(s, 1, Len(s) - 1) \o <<s[Len(s)]>> = s
    BY <2>2, FrontAndLast
  <2>4. Above(q).names = SubSeq(s, 1, Len(s) - 1)
    BY <1>2, <1>3, <2>1, AboveType
  <2> QED BY <2>1, <2>2, <2>3, <2>4
<1>11. [Above(q) EXCEPT !.names = @ \o <<c>>] = q
  <2>1. PICK t : t = SubSeq(q.names, 1, Len(q.names) - 1)
    OBVIOUS
  <2>2. Above(q) = [q EXCEPT !.names = t]
    BY <2>1 DEF Above
  <2>3. [Above(q) EXCEPT !.names = @ \o <<c>>] = [Above(q) EXCEPT !.names = q.names]
    BY <1>10
  <2> QED BY <1>2, <2>2, <2>3 DEF OFCPath
<1>12. ofc_path_update(ofc_path_create(<<c>>), Above(q)) = q
  BY <1>9, <1>11 DEF ofc_path_update
<1>13. NewChild(f, <<c>>) = ofc_path_print(q)
  BY <1>8, <1>9, <1>12 DEF NewChild, resolve
<1> QED BY <1>1, <1>2, <1>5, <1>13

(* What resolve makes of a parent and a child is the parent with the names *)
(* of both: on the same device and server, absolute if the parent is, and  *)
(* normal, so that a File made of it has that path.                        *)
THEOREM ResolveJoins ==
  ASSUME NEW p, NEW c, Pathname(p), Pathname(c)
  PROVE  LET q == ofc_path_create(p)  r == resolve(p, c) IN
         /\ Normal(r)
         /\ ofc_path_create(r).names = q.names \o ofc_path_create(c).names
         /\ ofc_path_create(r).device = q.device
         /\ ofc_path_create(r).absolute = q.absolute
         /\ q.remote => ofc_path_create(r).remote
<1>1. PICK q, d, u, r : /\ q = ofc_path_create(p) /\ d = ofc_path_create(c)
                        /\ u = ofc_path_update(d, q) /\ r = resolve(p, c)
  OBVIOUS
<1>2. q \in OFCPath /\ d \in OFCPath /\ (q.remote => q.absolute)
  BY <1>1, CreateType
<1>3. u = [q EXCEPT !.names = q.names \o d.names] /\ r = ofc_path_print(u)
  BY <1>1 DEF ofc_path_update, resolve
<1>4. /\ u \in OFCPath /\ u.names = q.names \o d.names /\ u.device = q.device
      /\ u.remote = q.remote /\ u.absolute = q.absolute
  <2>1. q.names \in Seq(Names) /\ d.names \in Seq(Names)
    BY <1>2 DEF OFCPath
  <2>2. q.names \o d.names \in Seq(Names)
    BY <2>1
  <2>3. /\ q.device \in Names \cup {Null} /\ q.remote \in BOOLEAN /\ q.absolute \in BOOLEAN
        /\ q = [device |-> q.device, remote |-> q.remote, absolute |-> q.absolute, names |-> q.names]
    BY <1>2 DEF OFCPath
  <2>4. u = [device |-> q.device, remote |-> q.remote, absolute |-> q.absolute,
             names |-> q.names \o d.names]
    BY <1>3, <2>3
  <2> QED BY <2>2, <2>3, <2>4 DEF OFCPath
<1>5. Normal(r)
  BY <1>2, <1>3, <1>4, PrintNormal
<1>6. ofc_path_create(r) =
        [device |-> u.device, remote |-> (Margin(u) = 2), absolute |-> (Margin(u) > 0),
         names |-> u.names]
  BY <1>3, <1>4, CreatePrint
<1>7. (Margin(u) > 0) = u.absolute /\ (u.remote => Margin(u) = 2)
  BY <1>2, <1>4, SeparatorsShape DEF OFCPath
<1>8. ofc_path_create(r).names = u.names /\ ofc_path_create(r).device = u.device
  BY <1>6
<1>9. ofc_path_create(r).absolute = u.absolute /\ (u.remote => ofc_path_create(r).remote)
  <2>1. ofc_path_create(r).absolute = (Margin(u) > 0)
    BY <1>6
  <2>2. ofc_path_create(r).remote = (Margin(u) = 2)
    BY <1>6
  <2> QED BY <1>7, <2>1, <2>2
<1> QED BY <1>1, <1>4, <1>5, <1>8, <1>9
===============================================================================

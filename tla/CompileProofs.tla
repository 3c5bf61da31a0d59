---------------------------- MODULE CompileProofs ----------------------------
(***************************************************************************)
(* Proofs about BoneTable and CompileSession.                                *)
(*                                                                         *)
(* The bones: what a step computes it computes with a fold over a sequence,  *)
(* so the first half of the module is about folds (a fold of a step that     *)
(* stays within a set stays within it, and its values are linked by the      *)
(* step), about Ancestors, whose recursion is well founded where parents     *)
(* come before their children, and about each operator the steps use.  The   *)
(* inductive invariant BoneInv adds to the three properties where the weight *)
(* of a bone of the model goes (MapInv), that what is compiled so far is     *)
(* made of whole vertices on bones with the flag of their level (VertsInv,   *)
(* LodsInv), that replacements are chained before they are used (FixupInv),  *)
(* and that parents come first (SortInv).  NamesInv, that no name is in the  *)
(* table twice, needs nothing of it that is about weights.                   *)
(*                                                                         *)
(* The sessions: FolderAsFound speaks of the end only; that no temporary     *)
(* gameinfo.txt is left then rests on there being a session that made it     *)
(* and has not cleaned up, whenever there is one (Folder).  LogWhole rests   *)
(* on what every pump has read and what is left in its pipe being the lines  *)
(* of its stream in order, as long as it did not fail (Pump).                *)
(***************************************************************************)
EXTENDS MCCompile, FiniteSetTheorems, SequenceTheorems, WellFoundedInduction, TLAPS

-----------------------------------------------------------------------------
(* Induction and recursion on natural numbers *)

\* A set of naturals that is not empty has a least element.
LEMMA LeastNatural ==
  ASSUME NEW T, T \subseteq Nat, T # {}
  PROVE  \E m \in T : \A k \in T : m <= k
<1> DEFINE R == StrictSubsetOrdering(Nat)
           F == FiniteSubsetsOf(Nat)
           U == {0 .. k : k \in T}
<1>1. IsWellFoundedOn(R, F)
  BY FS_StrictSubsetOrderingWellFounded
<1>2. U \subseteq F /\ U # {}
  <2>1. \A k \in T : k \in Nat /\ IsFiniteSet(0 .. k)
    BY FS_Interval
  <2>2. \A k \in T : (0 .. k) \in SUBSET Nat
    OBVIOUS
  <2>3. \A k \in T : (0 .. k) \in F
    BY <2>1, <2>2 DEF FiniteSubsetsOf
  <2> QED BY <2>3
<1>3. \E x \in U : \A y \in U : ~ (<<y, x>> \in R)
  <2> HIDE DEF R, F, U
  <2> QED BY <1>1, <1>2, WFMin
<1>4. PICK m \in T : \A k \in T : ~ (<<0 .. k, 0 .. m>> \in R)
  BY <1>3
<1>5. ASSUME NEW k \in T, k < m
      PROVE  FALSE
  <2>1. m \in 0 .. m /\ m \notin 0 .. k
    BY <1>5
  <2>2. (0 .. k) \subseteq (0 .. m)
    BY <1>5
  <2>3. (0 .. k) \in SUBSET Nat /\ (0 .. m) \in SUBSET Nat
    BY <1>5
  <2>4. <<0 .. k, 0 .. m>> \in R
    BY <2>1, <2>2, <2>3 DEF StrictSubsetOrdering
  <2> QED BY <1>4, <2>4
<1> QED BY <1>5

\* Induction: a set with 0 that is closed under successor has every natural.
LEMMA NaturalsUpward ==
  ASSUME NEW S, 0 \in S, \A n \in Nat : n \in S => n + 1 \in S
  PROVE  Nat \subseteq S
<1> DEFINE T == Nat \ S
<1> SUFFICES ASSUME T # {} PROVE FALSE
  OBVIOUS
<1>1. PICK m \in T : \A k \in T : m <= k
  BY LeastNatural
<1>2. m - 1 \in Nat /\ m - 1 \notin T
  BY <1>1
<1> QED BY <1>2

\* D[k] makes the k-th value from the one before, within S; g is what it makes.
StepWithin(D, S, n) == \A k \in 1 .. n : \A x \in S : D[k][x] \in S

RecursiveOn(g, first, D, S, n) ==
  /\ g \in [0 .. n -> S] /\ g[0] = first
  /\ \A k \in 1 .. n : g[k] = D[k][g[k - 1]]

\* Primitive recursion: for every first value in S, and every step D within S,
\* the function they describe exists, on 0 .. n for every n.
LEMMA PrimitiveRecursion ==
  ASSUME NEW S, NEW first, first \in S, NEW D, NEW n, n \in Nat, StepWithin(D, S, n)
  PROVE  \E g : RecursiveOn(g, first, D, S, n)
<1> USE DEF StepWithin, RecursiveOn
<1> DEFINE Found(m) ==
             \E g \in [0 .. m -> S] : g[0] = first /\ \A k \in 1 .. m : g[k] = D[k][g[k - 1]]
           Ok == {m \in Nat : m <= n => Found(m)}
<1>1. 0 \in Ok
  <2> DEFINE g == [k \in 0 .. 0 |-> first]
  <2>1. g \in [0 .. 0 -> S] /\ g[0] = first /\ 1 .. 0 = {}
    OBVIOUS
  <2>2. Found(0)
    <3> HIDE DEF g
    <3> QED BY <2>1
  <2> QED BY <2>2
<1>2. ASSUME NEW m \in Nat, m \in Ok, m + 1 <= n
      PROVE  m + 1 \in Ok
  <2>1. PICK g \in [0 .. m -> S] :
          g[0] = first /\ \A k \in 1 .. m : g[k] = D[k][g[k - 1]]
    BY <1>2
  <2> DEFINE h == [k \in 0 .. m + 1 |-> IF k = m + 1 THEN D[m + 1][g[m]] ELSE g[k]]
  <2>2. h \in [0 .. m + 1 -> S]
    <3>1. D[m + 1][g[m]] \in S
      BY <1>2
    <3>2. \A k \in 0 .. m + 1 : k # m + 1 => g[k] \in S
      OBVIOUS
    <3> QED BY <3>1, <3>2
  <2>3. h[0] = first
    BY <2>1
  <2>4. ASSUME NEW k \in 1 .. m + 1
        PROVE  h[k] = D[k][h[k - 1]]
    <3>1. h[k - 1] = g[k - 1]
      OBVIOUS
    <3>2. CASE k = m + 1
      BY <3>1, <3>2
    <3>3. CASE k # m + 1
      BY <2>1, <3>1, <3>3
    <3> QED BY <3>2, <3>3
  <2>5. Found(m + 1)
    <3> HIDE DEF h
    <3> QED BY <2>2, <2>3, <2>4
  <2> HIDE DEF Found
  <2> QED BY <2>5
<1>3. Nat \subseteq Ok
  <2>1. \A m \in Nat : m \in Ok => m + 1 \in Ok
    <3> HIDE DEF Found
    <3>1. ASSUME NEW m \in Nat, ~ (m + 1 <= n)
          PROVE  m + 1 \in Ok
      BY <3>1
    <3> QED BY <1>2, <3>1
  <2> HIDE DEF Ok
  <2> QED BY <1>1, <2>1, NaturalsUpward
<1> QED BY <1>3

-----------------------------------------------------------------------------
(* Greatest and least, and the bones above a bone *)

\* A set of naturals with a bound has a greatest element, one that is not empty a
\* least one.
LEMMA MaxOf ==
  ASSUME NEW S, S \subseteq Nat, S # {}, NEW bound \in Nat, \A x \in S : x <= bound
  PROVE  Max(S) \in S /\ \A x \in S : x <= Max(S)
<1> DEFINE T == {n \in Nat : \E x \in S : n = bound - x}
<1>1. T \subseteq Nat /\ T # {}
  <2>1. PICK x \in S : TRUE
    OBVIOUS
  <2>2. bound - x \in Nat
    BY <2>1
  <2>3. bound - x \in T
    BY <2>1, <2>2
  <2> QED BY <2>3
<1>2. PICK m \in T : \A k \in T : m <= k
  <2> HIDE DEF T
  <2> QED BY <1>1, LeastNatural
<1>3. PICK x \in S : m = bound - x
  BY <1>2
<1>4. ASSUME NEW y \in S
      PROVE  y <= x
  <2>1. bound - y \in T
    OBVIOUS
  <2>2. bound - x <= bound - y
    BY <1>2, <1>3, <2>1
  <2> QED BY <2>2
<1>5. \E y \in S : \A z \in S : y >= z
  BY <1>4
<1> HIDE DEF T
<1>6. Max(S) \in S /\ \A z \in S : Max(S) >= z
  BY <1>5 DEF Max
<1> QED BY <1>6

\* The least of a set of naturals.
LEMMA MinOf ==
  ASSUME NEW S, S \subseteq Nat, S # {}
  PROVE  Min(S) \in S /\ \A x \in S : Min(S) <= x
<1>1. \E y \in S : \A z \in S : y <= z
  BY LeastNatural
<1> QED BY <1>1 DEF Min

\* The parents of a sequence of bones in which they come before their children.
Ordered(parents) ==
  parents \in Seq(Nat) /\ \A k \in DOMAIN parents : parents[k] < k

\* The recursion of Ancestors is well founded.
LEMMA AncestorsRecursion ==
  ASSUME NEW parents, Ordered(parents)
  PROVE  \E up : /\ \A i : Ancestors(parents, i) = up[i] \ {0}
                 /\ up[0] = {}
                 /\ \A k \in 1 .. Len(parents) : up[k] = {parents[k]} \cup up[parents[k]]
<1> DEFINE n == Len(parents)
           S == [0 .. n -> SUBSET Nat]
           first == [k \in 0 .. n |-> {}]
           D == [k \in 1 .. n |->
                   [h \in S |-> [h EXCEPT ![k] = {parents[k]} \cup h[parents[k]]]]]
           Up(u) == [k \in 0 .. n |-> IF k = 0 THEN {} ELSE {parents[k]} \cup u[parents[k]]]
<1>1. n \in Nat /\ \A k \in 1 .. n : parents[k] \in Nat /\ parents[k] < k
  BY DEF Ordered
<1>2. \A k \in 1 .. n, h \in S :
        D[k][h] = [h EXCEPT ![k] = {parents[k]} \cup h[parents[k]]] /\ D[k][h] \in S
  BY <1>1
<1>3. first \in S
  OBVIOUS
<1>4. PICK g : RecursiveOn(g, first, D, S, n)
  <2>1. StepWithin(D, S, n)
    BY <1>2 DEF StepWithin
  <2> HIDE DEF D, S, first, n
  <2> QED BY <2>1, <1>1, <1>3, PrimitiveRecursion
<1>5. /\ \A k \in 0 .. n : g[k] \in S
      /\ g[0] = first
      /\ \A k \in 1 .. n : g[k] = [g[k - 1] EXCEPT ![k] = {parents[k]} \cup g[k - 1][parents[k]]]
  <2>1. /\ \A k \in 0 .. n : g[k] \in S
        /\ g[0] = first
        /\ \A k \in 1 .. n : g[k] = D[k][g[k - 1]]
    <3> HIDE DEF D, S, first
    <3> QED BY <1>4, <1>1 DEF RecursiveOn
  <2>2. \A k \in 1 .. n : k - 1 \in 0 .. n
    BY <1>1
  <2> HIDE DEF D, S, first, n
  <2> QED BY <2>1, <2>2, <1>2
<1>6. ASSUME NEW m \in 0 .. n, NEW j \in 0 .. n, j <= m
      PROVE  g[m][j] = g[j][j]
  <2> DEFINE Ok == {d \in Nat : \A i \in 0 .. n : i <= d /\ d <= n => g[d][i] = g[i][i]}
  <2> HIDE DEF first, D
  <2>1. 0 \in Ok
    OBVIOUS
  <2>2. ASSUME NEW d \in Nat, d \in Ok
        PROVE  d + 1 \in Ok
    <3> SUFFICES ASSUME NEW i \in 0 .. n, i <= d + 1, d + 1 <= n
                 PROVE  g[d + 1][i] = g[i][i]
      OBVIOUS
    <3>1. CASE i = d + 1
      BY <3>1
    <3>2. CASE i # d + 1
      <4>1. i <= d /\ d + 1 \in 1 .. n /\ (d + 1) - 1 = d /\ d \in 0 .. n
        BY <3>2, <1>1
      <4>2. g[d + 1] = [g[d] EXCEPT ![d + 1] = {parents[d + 1]} \cup g[d][parents[d + 1]]]
        BY <4>1, <1>5
      <4>3. g[d] \in S
        BY <4>1, <1>5
      <4>4. g[d + 1][i] = g[d][i]
        BY <4>2, <4>3, <3>2
      <4>5. g[d][i] = g[i][i]
        BY <2>2, <4>1
      <4> QED BY <4>4, <4>5
    <3> QED BY <3>1, <3>2
  <2>3. Nat \subseteq Ok
    <3> HIDE DEF Ok
    <3> QED BY <2>1, <2>2, NaturalsUpward
  <2>4. m \in Ok
    <3> HIDE DEF Ok
    <3> QED BY <2>3, <1>1
  <2>5. m <= n
    BY <1>1
  <2> QED BY <1>6, <2>4, <2>5
<1> DEFINE u0 == [k \in 0 .. n |-> g[k][k]]
<1>7. u0 = Up(u0)
  <2>1. u0[0] = {}
    BY <1>5, <1>1
  <2>2. ASSUME NEW k \in 1 .. n
        PROVE  u0[k] = {parents[k]} \cup u0[parents[k]]
    <3>1. parents[k] \in 0 .. n /\ k - 1 \in 0 .. n /\ parents[k] <= k - 1 /\ k \in 0 .. n
      BY <1>1
    <3>2. g[k - 1] \in S /\ g[k] = [g[k - 1] EXCEPT ![k] = {parents[k]} \cup g[k - 1][parents[k]]]
      BY <1>5, <3>1
    <3>3. g[k][k] = {parents[k]} \cup g[k - 1][parents[k]]
      <4> HIDE DEF D, first
      <4> QED BY <3>1, <3>2
    <3>4. g[k - 1][parents[k]] = g[parents[k]][parents[k]]
      BY <1>6, <3>1
    <3>5. u0[k] = g[k][k] /\ u0[parents[k]] = g[parents[k]][parents[k]]
      BY <3>1
    <3> QED BY <3>3, <3>4, <3>5
  <2>3. \A k \in 0 .. n : u0[k] = IF k = 0 THEN {} ELSE {parents[k]} \cup u0[parents[k]]
    <3> HIDE DEF u0
    <3>1. \A k \in 0 .. n : k # 0 => k \in 1 .. n
      BY <1>1
    <3> QED BY <2>1, <2>2, <3>1
  <2>4. u0 = [k \in 0 .. n |-> u0[k]]
    OBVIOUS
  <2> HIDE DEF u0
  <2> QED BY <2>3, <2>4
<1> DEFINE up == CHOOSE u : u = Up(u)
<1>8. up = Up(up)
  <2> HIDE DEF u0, Up
  <2> QED BY <1>7
<1>9. \A i : Ancestors(parents, i) = up[i] \ {0}
  BY DEF Ancestors
<1>10. up[0] = {} /\ \A k \in 1 .. n : up[k] = {parents[k]} \cup up[parents[k]]
  <2> HIDE DEF up
  <2>1. \A k \in 0 .. n : up[k] = IF k = 0 THEN {} ELSE {parents[k]} \cup up[parents[k]]
    BY <1>8
  <2>2. 0 \in 0 .. n /\ \A k \in 1 .. n : k \in 0 .. n /\ k # 0
    BY <1>1
  <2> HIDE DEF n
  <2> QED BY <2>1, <2>2
<1> HIDE DEF up, n
<1> QED BY <1>9, <1>10 DEF n

\* The bones above a bone: its parent and those above that, all before it.
LEMMA AncestorsStep ==
  ASSUME NEW parents, Ordered(parents), NEW i \in 1 .. Len(parents)
  PROVE  /\ Ancestors(parents, i) =
              IF parents[i] = 0 THEN {} ELSE {parents[i]} \cup Ancestors(parents, parents[i])
         /\ Ancestors(parents, i) \subseteq 1 .. i - 1
<1>1. PICK up : /\ \A k : Ancestors(parents, k) = up[k] \ {0}
                /\ up[0] = {}
                /\ \A k \in 1 .. Len(parents) : up[k] = {parents[k]} \cup up[parents[k]]
  BY AncestorsRecursion
<1>2. Len(parents) \in Nat /\ \A k \in 1 .. Len(parents) : parents[k] \in Nat /\ parents[k] < k
  BY DEF Ordered
<1>3. Ancestors(parents, i) =
        IF parents[i] = 0 THEN {} ELSE {parents[i]} \cup Ancestors(parents, parents[i])
  <2>1. up[i] = {parents[i]} \cup up[parents[i]]
    BY <1>1
  <2>2. CASE parents[i] = 0
    BY <1>1, <2>1, <2>2
  <2>3. CASE parents[i] # 0
    BY <1>1, <2>1, <2>3
  <2> QED BY <2>2, <2>3
<1> DEFINE Ok == {m \in Nat : \A k \in 1 .. Len(parents) : k <= m => up[k] \subseteq 0 .. k - 1}
<1>4. 0 \in Ok
  OBVIOUS
<1>5. ASSUME NEW m \in Nat, m \in Ok
      PROVE  m + 1 \in Ok
  <2> SUFFICES ASSUME NEW k \in 1 .. Len(parents), k <= m + 1
               PROVE  up[k] \subseteq 0 .. k - 1
    OBVIOUS
  <2>1. CASE parents[k] = 0
    <3>1. up[k] = {0}
      BY <1>1, <2>1
    <3> QED BY <3>1
  <2>2. CASE parents[k] # 0
    <3>1. parents[k] \in 1 .. Len(parents) /\ parents[k] <= m /\ parents[k] \in 0 .. k - 1
      BY <1>2, <2>2
    <3>2. up[parents[k]] \subseteq 0 .. parents[k] - 1
      BY <1>5, <3>1
    <3>3. 0 .. parents[k] - 1 \subseteq 0 .. k - 1
      BY <3>1
    <3>4. up[k] = {parents[k]} \cup up[parents[k]]
      BY <1>1
    <3> QED BY <3>1, <3>2, <3>3, <3>4
  <2> QED BY <2>1, <2>2
<1>6. i \in Ok
  <2> HIDE DEF Ok
  <2> QED BY <1>2, <1>4, <1>5, NaturalsUpward
<1>7. up[i] \subseteq 0 .. i - 1
  BY <1>2, <1>6
<1> QED BY <1>1, <1>3, <1>7

\* Bones of which parents come before children.
ParentsFirst(bones) ==
  /\ Len(bones) \in Nat /\ DOMAIN bones = 1 .. Len(bones)
  /\ \A k \in DOMAIN bones : bones[k].parent \in Nat /\ bones[k].parent < k

\* The parents of such bones, as Above hands them to Ancestors.
LEMMA ParentsOrdered ==
  ASSUME NEW bones, ParentsFirst(bones)
  PROVE  /\ Ordered([k \in DOMAIN bones |-> bones[k].parent])
         /\ Len([k \in DOMAIN bones |-> bones[k].parent]) = Len(bones)
<1> DEFINE parents == [k \in 1 .. Len(bones) |-> bones[k].parent]
<1>1. parents \in Seq(Nat) /\ Len(parents) = Len(bones)
  BY DEF ParentsFirst
<1> QED BY <1>1 DEF ParentsFirst, Ordered

\* Above a bone are its parent and what is above that, all of it before the bone.
LEMMA AboveStep ==
  ASSUME NEW bones, ParentsFirst(bones), NEW i \in DOMAIN bones
  PROVE  /\ Above(bones, i) = IF bones[i].parent = 0 THEN {}
                              ELSE {bones[i].parent} \cup Above(bones, bones[i].parent)
         /\ Above(bones, i) \subseteq 1 .. i - 1
         /\ Above(bones, i) \subseteq DOMAIN bones
<1> DEFINE parents == [k \in DOMAIN bones |-> bones[k].parent]
<1>1. Ordered(parents) /\ Len(parents) = Len(bones) /\ parents[i] = bones[i].parent
  BY ParentsOrdered
<1>2. i \in 1 .. Len(parents) /\ DOMAIN bones = 1 .. Len(bones)
  BY <1>1 DEF ParentsFirst
<1>3. \A k : Above(bones, k) = Ancestors(parents, k)
  BY DEF Above
<1> HIDE DEF parents
<1>4. /\ Above(bones, i) = IF bones[i].parent = 0 THEN {}
                           ELSE {bones[i].parent} \cup Above(bones, bones[i].parent)
      /\ Above(bones, i) \subseteq 1 .. i - 1
  BY <1>1, <1>2, <1>3, AncestorsStep
<1>5. 1 .. i - 1 \subseteq DOMAIN bones
  BY <1>2 DEF ParentsFirst
<1> QED BY <1>4, <1>5

\* The bones on the way up from a bone are a line: of two of them the one before is
\* above the other.
LEMMA AboveLine ==
  ASSUME NEW bones, ParentsFirst(bones), NEW i \in DOMAIN bones,
         NEW a \in {i} \cup Above(bones, i), NEW b \in {i} \cup Above(bones, i), a < b
  PROVE  a \in Above(bones, b)
<1> DEFINE Ok == {m \in Nat : \A k \in DOMAIN bones : k <= m =>
                    \A x, y \in {k} \cup Above(bones, k) : x < y => x \in Above(bones, y)}
<1>0. DOMAIN bones \subseteq Nat \ {0}
  BY DEF ParentsFirst
<1>1. 0 \in Ok
  BY <1>0
<1>2. ASSUME NEW m \in Nat, m \in Ok
      PROVE  m + 1 \in Ok
  <2> SUFFICES ASSUME NEW k \in DOMAIN bones, k <= m + 1,
                      NEW x \in {k} \cup Above(bones, k), NEW y \in {k} \cup Above(bones, k), x < y
               PROVE  x \in Above(bones, y)
    OBVIOUS
  <2>0. Above(bones, k) \subseteq 1 .. k - 1 /\ k \in Nat
    BY AboveStep, <1>0
  <2>1. x # k /\ x \in Above(bones, k)
    BY <2>0
  <2>2. CASE y = k
    BY <2>1, <2>2
  <2>3. CASE y # k
    <3> DEFINE p == bones[k].parent
    <3>1. p # 0 /\ Above(bones, k) = {p} \cup Above(bones, p)
      BY AboveStep, <2>1
    <3>2. p \in DOMAIN bones /\ p <= m
      BY <3>1 DEF ParentsFirst
    <3> HIDE DEF p
    <3>3. x \in {p} \cup Above(bones, p) /\ y \in {p} \cup Above(bones, p)
      BY <2>1, <2>3, <3>1
    <3> QED BY <1>2, <3>2, <3>3
  <2> QED BY <2>2, <2>3
<1>3. i \in Ok
  <2> HIDE DEF Ok
  <2> QED BY <1>0, <1>1, <1>2, NaturalsUpward
<1>4. i <= i
  BY <1>0
<1> QED BY <1>3, <1>4

\* Where the parents are the same, so are the bones above.
LEMMA AboveSame ==
  ASSUME NEW t, NEW u, DOMAIN t = DOMAIN u, \A k \in DOMAIN t : t[k].parent = u[k].parent
  PROVE  \A i : Above(t, i) = Above(u, i)
<1>1. [k \in DOMAIN t |-> t[k].parent] = [k \in DOMAIN u |-> u[k].parent]
  OBVIOUS
<1> QED BY <1>1 DEF Above

\* What begins within S, and every step leaves within S, stays there.
LEMMA StaysWithin ==
  ASSUME NEW n \in Nat, NEW f, f = [k \in 0 .. n |-> f[k]], NEW S, f[0] \in S,
         \A k \in 1 .. n : f[k - 1] \in S => f[k] \in S
  PROVE  f \in [0 .. n -> S]
<1> DEFINE Ok == {k \in Nat : k <= n => f[k] \in S}
<1>1. 0 \in Ok
  OBVIOUS
<1>2. ASSUME NEW k \in Nat, k \in Ok
      PROVE  k + 1 \in Ok
  <2> SUFFICES ASSUME k + 1 <= n
               PROVE  f[k + 1] \in S
    OBVIOUS
  <2>1. k + 1 \in 1 .. n /\ (k + 1) - 1 = k /\ f[k] \in S
    BY <1>2
  <2> QED BY <2>1
<1>3. Nat \subseteq Ok
  <2> HIDE DEF Ok
  <2> QED BY <1>1, <1>2, NaturalsUpward
<1>4. \A k \in 0 .. n : f[k] \in S
  BY <1>3
<1> QED BY <1>4

\* The values a fold of AddImport goes through; the folds of the other steps
\* follow in the same way.
LEMMA ImportFold ==
  ASSUME NEW S, NEW base \in S, NEW s, Len(s) \in Nat,
         \A k \in 1 .. Len(s) : \A t \in S : AddImport(t, s[k]) \in S
  PROVE  Fold(AddImport, base, s) \in S
<1> DEFINE n == Len(s)
           D == [k \in 1 .. n |-> [t \in S |-> AddImport(t, s[k])]]
           Step(g) == [k \in 0 .. n |-> IF k = 0 THEN base
                         ELSE CHOOSE y \in {AddImport(t, s[k]) : t \in {g[k - 1]}} : TRUE]
           f == CHOOSE g : g = Step(g)
<1>1. ASSUME NEW g, NEW k
      PROVE  (CHOOSE y \in {AddImport(t, s[k]) : t \in {g[k - 1]}} : TRUE) = AddImport(g[k - 1], s[k])
  <2>1. {AddImport(t, s[k]) : t \in {g[k - 1]}} = {AddImport(g[k - 1], s[k])}
    OBVIOUS
  <2> QED BY <2>1
<1>2. \A k \in 1 .. n : \A t \in S : D[k][t] = AddImport(t, s[k]) /\ D[k][t] \in S
  OBVIOUS
<1>3. PICK g \in [0 .. n -> S] : g[0] = base /\ \A k \in 1 .. n : g[k] = D[k][g[k - 1]]
  <2>1. StepWithin(D, S, n)
    BY <1>2 DEF StepWithin
  <2> HIDE DEF D
  <2> QED BY <2>1, PrimitiveRecursion DEF RecursiveOn
<1>4. g = Step(g)
  <2>1. ASSUME NEW k \in 1 .. n
        PROVE  g[k] = CHOOSE y \in {AddImport(t, s[k]) : t \in {g[k - 1]}} : TRUE
    <3>1. k - 1 \in 0 .. n
      OBVIOUS
    <3>2. g[k - 1] \in S
      BY <3>1
    <3> HIDE DEF D
    <3> QED BY <1>1, <1>2, <1>3, <3>2
  <2>2. \A k \in 0 .. n : k # 0 => k \in 1 .. n
    OBVIOUS
  <2>3. g = [k \in 0 .. n |-> g[k]]
    OBVIOUS
  <2>4. \A k \in 0 .. n : g[k] = Step(g)[k]
    BY <1>3, <2>1, <2>2
  <2> QED BY <2>3, <2>4
<1>5. f = Step(f)
  <2> HIDE DEF Step
  <2> QED BY <1>4
<1>6. Fold(AddImport, base, s) = f[n]
  BY DEF Fold
<1> HIDE DEF f
<1>7. f[0] = base /\ \A k \in 1 .. n : f[k] = AddImport(f[k - 1], s[k])
  <2>1. ASSUME NEW k \in 1 .. n
        PROVE  f[k] = AddImport(f[k - 1], s[k])
    <3>1. f[k] = CHOOSE y \in {AddImport(t, s[k]) : t \in {f[k - 1]}} : TRUE
      BY <1>5
    <3> QED BY <1>1, <3>1
  <2> QED BY <1>5, <2>1
<1>8. f \in [0 .. n -> S]
  <2>1. f = [k \in 0 .. n |-> f[k]]
    BY <1>5
  <2>2. f[0] \in S /\ \A k \in 1 .. n : f[k - 1] \in S => f[k] \in S
    BY <1>7
  <2> QED BY <2>1, <2>2, StaysWithin
<1> QED BY <1>6, <1>7, <1>8

\* The tables AddSource goes through,
LEMMA BoneFold ==
  ASSUME NEW i, NEW S, NEW base \in S, NEW s, Len(s) \in Nat,
         \A k \in 1 .. Len(s) : \A t \in S : AddBone(i, t, s[k]) \in S
  PROVE  s = Indices(project.sources[i].bones) => AddSource(base, i) \in S
<1> DEFINE n == Len(s)
           D == [k \in 1 .. n |-> [t \in S |-> AddBone(i, t, s[k])]]
           Step(g) == [k \in 0 .. n |-> IF k = 0 THEN base
                         ELSE CHOOSE y \in {AddBone(i, t, s[k]) : t \in {g[k - 1]}} : TRUE]
           f == CHOOSE g : g = Step(g)
<1>1. ASSUME NEW g, NEW k
      PROVE  (CHOOSE y \in {AddBone(i, t, s[k]) : t \in {g[k - 1]}} : TRUE) = AddBone(i, g[k - 1], s[k])
  <2>1. {AddBone(i, t, s[k]) : t \in {g[k - 1]}} = {AddBone(i, g[k - 1], s[k])}
    OBVIOUS
  <2> QED BY <2>1
<1>2. \A k \in 1 .. n : \A t \in S : D[k][t] = AddBone(i, t, s[k]) /\ D[k][t] \in S
  OBVIOUS
<1>3. PICK g \in [0 .. n -> S] : g[0] = base /\ \A k \in 1 .. n : g[k] = D[k][g[k - 1]]
  <2>1. StepWithin(D, S, n)
    BY <1>2 DEF StepWithin
  <2> HIDE DEF D
  <2> QED BY <2>1, PrimitiveRecursion DEF RecursiveOn
<1>4. g = Step(g)
  <2>1. ASSUME NEW k \in 1 .. n
        PROVE  g[k] = CHOOSE y \in {AddBone(i, t, s[k]) : t \in {g[k - 1]}} : TRUE
    <3>1. k - 1 \in 0 .. n
      OBVIOUS
    <3>2. g[k - 1] \in S
      BY <3>1
    <3> HIDE DEF D
    <3> QED BY <1>1, <1>2, <1>3, <3>2
  <2>2. \A k \in 0 .. n : k # 0 => k \in 1 .. n
    OBVIOUS
  <2>3. g = [k \in 0 .. n |-> g[k]]
    OBVIOUS
  <2>4. \A k \in 0 .. n : g[k] = Step(g)[k]
    BY <1>3, <2>1, <2>2
  <2> QED BY <2>3, <2>4
<1>5. f = Step(f)
  <2> HIDE DEF Step
  <2> QED BY <1>4
<1>6. s = Indices(project.sources[i].bones) => AddSource(base, i) = f[n]
  BY DEF AddSource, Fold
<1> HIDE DEF f
<1>7. f[0] = base /\ \A k \in 1 .. n : f[k] = AddBone(i, f[k - 1], s[k])
  <2>1. ASSUME NEW k \in 1 .. n
        PROVE  f[k] = AddBone(i, f[k - 1], s[k])
    <3>1. f[k] = CHOOSE y \in {AddBone(i, t, s[k]) : t \in {f[k - 1]}} : TRUE
      BY <1>5
    <3> QED BY <1>1, <3>1
  <2> QED BY <1>5, <2>1
<1>8. f \in [0 .. n -> S]
  <2>1. f = [k \in 0 .. n |-> f[k]]
    BY <1>5
  <2>2. f[0] \in S /\ \A k \in 1 .. n : f[k - 1] \in S => f[k] \in S
    BY <1>7
  <2> QED BY <2>1, <2>2, StaysWithin
<1> QED BY <1>6, <1>7, <1>8

\* and BuildGlobalBonetable, from the imported bones;
LEMMA SourceFold ==
  ASSUME NEW S, NEW base \in S, NEW s, Len(s) \in Nat,
         \A k \in 1 .. Len(s) : \A t \in S : AddSource(t, s[k]) \in S
  PROVE  Fold(AddSource, base, s) \in S
<1> DEFINE n == Len(s)
           D == [k \in 1 .. n |-> [t \in S |-> AddSource(t, s[k])]]
           Step(g) == [k \in 0 .. n |-> IF k = 0 THEN base
                         ELSE CHOOSE y \in {AddSource(t, s[k]) : t \in {g[k - 1]}} : TRUE]
           f == CHOOSE g : g = Step(g)
<1>1. ASSUME NEW g, NEW k
      PROVE  (CHOOSE y \in {AddSource(t, s[k]) : t \in {g[k - 1]}} : TRUE) = AddSource(g[k - 1], s[k])
  <2>1. {AddSource(t, s[k]) : t \in {g[k - 1]}} = {AddSource(g[k - 1], s[k])}
    OBVIOUS
  <2> QED BY <2>1
<1>2. \A k \in 1 .. n : \A t \in S : D[k][t] = AddSource(t, s[k]) /\ D[k][t] \in S
  OBVIOUS
<1>3. PICK g \in [0 .. n -> S] : g[0] = base /\ \A k \in 1 .. n : g[k] = D[k][g[k - 1]]
  <2>1. StepWithin(D, S, n)
    BY <1>2 DEF StepWithin
  <2> HIDE DEF D
  <2> QED BY <2>1, PrimitiveRecursion DEF RecursiveOn
<1>4. g = Step(g)
  <2>1. ASSUME NEW k \in 1 .. n
        PROVE  g[k] = CHOOSE y \in {AddSource(t, s[k]) : t \in {g[k - 1]}} : TRUE
    <3>1. k - 1 \in 0 .. n
      OBVIOUS
    <3>2. g[k - 1] \in S
      BY <3>1
    <3> HIDE DEF D
    <3> QED BY <1>1, <1>2, <1>3, <3>2
  <2>2. \A k \in 0 .. n : k # 0 => k \in 1 .. n
    OBVIOUS
  <2>3. g = [k \in 0 .. n |-> g[k]]
    OBVIOUS
  <2>4. \A k \in 0 .. n : g[k] = Step(g)[k]
    BY <1>3, <2>1, <2>2
  <2> QED BY <2>3, <2>4
<1>5. f = Step(f)
  <2> HIDE DEF Step
  <2> QED BY <1>4
<1>6. Fold(AddSource, base, s) = f[n]
  BY DEF Fold
<1> HIDE DEF f
<1>7. f[0] = base /\ \A k \in 1 .. n : f[k] = AddSource(f[k - 1], s[k])
  <2>1. ASSUME NEW k \in 1 .. n
        PROVE  f[k] = AddSource(f[k - 1], s[k])
    <3>1. f[k] = CHOOSE y \in {AddSource(t, s[k]) : t \in {f[k - 1]}} : TRUE
      BY <1>5
    <3> QED BY <1>1, <3>1
  <2> QED BY <1>5, <2>1
<1>8. f \in [0 .. n -> S]
  <2>1. f = [k \in 0 .. n |-> f[k]]
    BY <1>5
  <2>2. f[0] \in S /\ \A k \in 1 .. n : f[k - 1] \in S => f[k] \in S
    BY <1>7
  <2> QED BY <2>1, <2>2, StaysWithin
<1> QED BY <1>6, <1>7, <1>8

\* those of ForceHierarchy.
LEMMA ForceFold ==
  ASSUME NEW S, NEW base \in S, NEW s, Len(s) \in Nat,
         \A k \in 1 .. Len(s) : \A t \in S : ForceParent(t, s[k]) \in S
  PROVE  Fold(ForceParent, base, s) \in S
<1> DEFINE n == Len(s)
           D == [k \in 1 .. n |-> [t \in S |-> ForceParent(t, s[k])]]
           Step(g) == [k \in 0 .. n |-> IF k = 0 THEN base
                         ELSE CHOOSE y \in {ForceParent(t, s[k]) : t \in {g[k - 1]}} : TRUE]
           f == CHOOSE g : g = Step(g)
<1>1. ASSUME NEW g, NEW k
      PROVE  (CHOOSE y \in {ForceParent(t, s[k]) : t \in {g[k - 1]}} : TRUE) = ForceParent(g[k - 1], s[k])
  <2>1. {ForceParent(t, s[k]) : t \in {g[k - 1]}} = {ForceParent(g[k - 1], s[k])}
    OBVIOUS
  <2> QED BY <2>1
<1>2. \A k \in 1 .. n : \A t \in S : D[k][t] = ForceParent(t, s[k]) /\ D[k][t] \in S
  OBVIOUS
<1>3. PICK g \in [0 .. n -> S] : g[0] = base /\ \A k \in 1 .. n : g[k] = D[k][g[k - 1]]
  <2>1. StepWithin(D, S, n)
    BY <1>2 DEF StepWithin
  <2> HIDE DEF D
  <2> QED BY <2>1, PrimitiveRecursion DEF RecursiveOn
<1>4. g = Step(g)
  <2>1. ASSUME NEW k \in 1 .. n
        PROVE  g[k] = CHOOSE y \in {ForceParent(t, s[k]) : t \in {g[k - 1]}} : TRUE
    <3>1. k - 1 \in 0 .. n
      OBVIOUS
    <3>2. g[k - 1] \in S
      BY <3>1
    <3> HIDE DEF D
    <3> QED BY <1>1, <1>2, <1>3, <3>2
  <2>2. \A k \in 0 .. n : k # 0 => k \in 1 .. n
    OBVIOUS
  <2>3. g = [k \in 0 .. n |-> g[k]]
    OBVIOUS
  <2>4. \A k \in 0 .. n : g[k] = Step(g)[k]
    BY <1>3, <2>1, <2>2
  <2> QED BY <2>3, <2>4
<1>5. f = Step(f)
  <2> HIDE DEF Step
  <2> QED BY <1>4
<1>6. Fold(ForceParent, base, s) = f[n]
  BY DEF Fold
<1> HIDE DEF f
<1>7. f[0] = base /\ \A k \in 1 .. n : f[k] = ForceParent(f[k - 1], s[k])
  <2>1. ASSUME NEW k \in 1 .. n
        PROVE  f[k] = ForceParent(f[k - 1], s[k])
    <3>1. f[k] = CHOOSE y \in {ForceParent(t, s[k]) : t \in {f[k - 1]}} : TRUE
      BY <1>5
    <3> QED BY <1>1, <3>1
  <2> QED BY <1>5, <2>1
<1>8. f \in [0 .. n -> S]
  <2>1. f = [k \in 0 .. n |-> f[k]]
    BY <1>5
  <2>2. f[0] \in S /\ \A k \in 1 .. n : f[k - 1] \in S => f[k] \in S
    BY <1>7
  <2> QED BY <2>1, <2>2, StaysWithin
<1> QED BY <1>6, <1>7, <1>8

\* The replacements a collapsed tree adds to,
LEMMA BelowFold ==
  ASSUME NEW name, NEW r, NEW S, NEW base \in S, NEW s, Len(s) \in Nat,
         \A k \in 1 .. Len(s) : \A t \in S : ReplaceBelow(t, r, s[k]) \in S
  PROVE  r = Find(table, name) /\ r # 0 /\ s = Indices(table) => TreeReplacements(base, name) \in S
<1> DEFINE n == Len(s)
           D == [k \in 1 .. n |-> [t \in S |-> ReplaceBelow(t, r, s[k])]]
           Step(g) == [k \in 0 .. n |-> IF k = 0 THEN base
                         ELSE CHOOSE y \in {ReplaceBelow(t, r, s[k]) : t \in {g[k - 1]}} : TRUE]
           f == CHOOSE g : g = Step(g)
<1>1. ASSUME NEW g, NEW k
      PROVE  (CHOOSE y \in {ReplaceBelow(t, r, s[k]) : t \in {g[k - 1]}} : TRUE) = ReplaceBelow(g[k - 1], r, s[k])
  <2>1. {ReplaceBelow(t, r, s[k]) : t \in {g[k - 1]}} = {ReplaceBelow(g[k - 1], r, s[k])}
    OBVIOUS
  <2> QED BY <2>1
<1>2. \A k \in 1 .. n : \A t \in S : D[k][t] = ReplaceBelow(t, r, s[k]) /\ D[k][t] \in S
  OBVIOUS
<1>3. PICK g \in [0 .. n -> S] : g[0] = base /\ \A k \in 1 .. n : g[k] = D[k][g[k - 1]]
  <2>1. StepWithin(D, S, n)
    BY <1>2 DEF StepWithin
  <2> HIDE DEF D
  <2> QED BY <2>1, PrimitiveRecursion DEF RecursiveOn
<1>4. g = Step(g)
  <2>1. ASSUME NEW k \in 1 .. n
        PROVE  g[k] = CHOOSE y \in {ReplaceBelow(t, r, s[k]) : t \in {g[k - 1]}} : TRUE
    <3>1. k - 1 \in 0 .. n
      OBVIOUS
    <3>2. g[k - 1] \in S
      BY <3>1
    <3> HIDE DEF D
    <3> QED BY <1>1, <1>2, <1>3, <3>2
  <2>2. \A k \in 0 .. n : k # 0 => k \in 1 .. n
    OBVIOUS
  <2>3. g = [k \in 0 .. n |-> g[k]]
    OBVIOUS
  <2>4. \A k \in 0 .. n : g[k] = Step(g)[k]
    BY <1>3, <2>1, <2>2
  <2> QED BY <2>3, <2>4
<1>5. f = Step(f)
  <2> HIDE DEF Step
  <2> QED BY <1>4
<1>6. r = Find(table, name) /\ r # 0 /\ s = Indices(table) => TreeReplacements(base, name) = f[n]
  BY DEF TreeReplacements, Fold
<1> HIDE DEF f
<1>7. f[0] = base /\ \A k \in 1 .. n : f[k] = ReplaceBelow(f[k - 1], r, s[k])
  <2>1. ASSUME NEW k \in 1 .. n
        PROVE  f[k] = ReplaceBelow(f[k - 1], r, s[k])
    <3>1. f[k] = CHOOSE y \in {ReplaceBelow(t, r, s[k]) : t \in {f[k - 1]}} : TRUE
      BY <1>5
    <3> QED BY <1>1, <3>1
  <2> QED BY <1>5, <2>1
<1>8. f \in [0 .. n -> S]
  <2>1. f = [k \in 0 .. n |-> f[k]]
    BY <1>5
  <2>2. f[0] \in S /\ \A k \in 1 .. n : f[k - 1] \in S => f[k] \in S
    BY <1>7
  <2> QED BY <2>1, <2>2, StaysWithin
<1> QED BY <1>6, <1>7, <1>8

\* those all of them do;
LEMMA TreesFold ==
  ASSUME NEW S, NEW base \in S, NEW s, Len(s) \in Nat,
         \A k \in 1 .. Len(s) : \A t \in S : TreeReplacements(t, s[k]) \in S
  PROVE  Fold(TreeReplacements, base, s) \in S
<1> DEFINE n == Len(s)
           D == [k \in 1 .. n |-> [t \in S |-> TreeReplacements(t, s[k])]]
           Step(g) == [k \in 0 .. n |-> IF k = 0 THEN base
                         ELSE CHOOSE y \in {TreeReplacements(t, s[k]) : t \in {g[k - 1]}} : TRUE]
           f == CHOOSE g : g = Step(g)
<1>1. ASSUME NEW g, NEW k
      PROVE  (CHOOSE y \in {TreeReplacements(t, s[k]) : t \in {g[k - 1]}} : TRUE) = TreeReplacements(g[k - 1], s[k])
  <2>1. {TreeReplacements(t, s[k]) : t \in {g[k - 1]}} = {TreeReplacements(g[k - 1], s[k])}
    OBVIOUS
  <2> QED BY <2>1
<1>2. \A k \in 1 .. n : \A t \in S : D[k][t] = TreeReplacements(t, s[k]) /\ D[k][t] \in S
  OBVIOUS
<1>3. PICK g \in [0 .. n -> S] : g[0] = base /\ \A k \in 1 .. n : g[k] = D[k][g[k - 1]]
  <2>1. StepWithin(D, S, n)
    BY <1>2 DEF StepWithin
  <2> HIDE DEF D
  <2> QED BY <2>1, PrimitiveRecursion DEF RecursiveOn
<1>4. g = Step(g)
  <2>1. ASSUME NEW k \in 1 .. n
        PROVE  g[k] = CHOOSE y \in {TreeReplacements(t, s[k]) : t \in {g[k - 1]}} : TRUE
    <3>1. k - 1 \in 0 .. n
      OBVIOUS
    <3>2. g[k - 1] \in S
      BY <3>1
    <3> HIDE DEF D
    <3> QED BY <1>1, <1>2, <1>3, <3>2
  <2>2. \A k \in 0 .. n : k # 0 => k \in 1 .. n
    OBVIOUS
  <2>3. g = [k \in 0 .. n |-> g[k]]
    OBVIOUS
  <2>4. \A k \in 0 .. n : g[k] = Step(g)[k]
    BY <1>3, <2>1, <2>2
  <2> QED BY <2>3, <2>4
<1>5. f = Step(f)
  <2> HIDE DEF Step
  <2> QED BY <1>4
<1>6. Fold(TreeReplacements, base, s) = f[n]
  BY DEF Fold
<1> HIDE DEF f
<1>7. f[0] = base /\ \A k \in 1 .. n : f[k] = TreeReplacements(f[k - 1], s[k])
  <2>1. ASSUME NEW k \in 1 .. n
        PROVE  f[k] = TreeReplacements(f[k - 1], s[k])
    <3>1. f[k] = CHOOSE y \in {TreeReplacements(t, s[k]) : t \in {f[k - 1]}} : TRUE
      BY <1>5
    <3> QED BY <1>1, <3>1
  <2> QED BY <1>5, <2>1
<1>8. f \in [0 .. n -> S]
  <2>1. f = [k \in 0 .. n |-> f[k]]
    BY <1>5
  <2>2. f[0] \in S /\ \A k \in 1 .. n : f[k - 1] \in S => f[k] \in S
    BY <1>7
  <2> QED BY <2>1, <2>2, StaysWithin
<1> QED BY <1>6, <1>7, <1>8

\* those one replacement is put to use on,
LEMMA ChainFold ==
  ASSUME NEW i, NEW S, NEW base \in S, NEW s, Len(s) \in Nat,
         \A k \in 1 .. Len(s) : \A t \in S : ChainReplacement(t, i, s[k]) \in S
  PROVE  s = Indices(base) => ChainTo(base, i) \in S
<1> DEFINE n == Len(s)
           D == [k \in 1 .. n |-> [t \in S |-> ChainReplacement(t, i, s[k])]]
           Step(g) == [k \in 0 .. n |-> IF k = 0 THEN base
                         ELSE CHOOSE y \in {ChainReplacement(t, i, s[k]) : t \in {g[k - 1]}} : TRUE]
           f == CHOOSE g : g = Step(g)
<1>1. ASSUME NEW g, NEW k
      PROVE  (CHOOSE y \in {ChainReplacement(t, i, s[k]) : t \in {g[k - 1]}} : TRUE) = ChainReplacement(g[k - 1], i, s[k])
  <2>1. {ChainReplacement(t, i, s[k]) : t \in {g[k - 1]}} = {ChainReplacement(g[k - 1], i, s[k])}
    OBVIOUS
  <2> QED BY <2>1
<1>2. \A k \in 1 .. n : \A t \in S : D[k][t] = ChainReplacement(t, i, s[k]) /\ D[k][t] \in S
  OBVIOUS
<1>3. PICK g \in [0 .. n -> S] : g[0] = base /\ \A k \in 1 .. n : g[k] = D[k][g[k - 1]]
  <2>1. StepWithin(D, S, n)
    BY <1>2 DEF StepWithin
  <2> HIDE DEF D
  <2> QED BY <2>1, PrimitiveRecursion DEF RecursiveOn
<1>4. g = Step(g)
  <2>1. ASSUME NEW k \in 1 .. n
        PROVE  g[k] = CHOOSE y \in {ChainReplacement(t, i, s[k]) : t \in {g[k - 1]}} : TRUE
    <3>1. k - 1 \in 0 .. n
      OBVIOUS
    <3>2. g[k - 1] \in S
      BY <3>1
    <3> HIDE DEF D
    <3> QED BY <1>1, <1>2, <1>3, <3>2
  <2>2. \A k \in 0 .. n : k # 0 => k \in 1 .. n
    OBVIOUS
  <2>3. g = [k \in 0 .. n |-> g[k]]
    OBVIOUS
  <2>4. \A k \in 0 .. n : g[k] = Step(g)[k]
    BY <1>3, <2>1, <2>2
  <2> QED BY <2>3, <2>4
<1>5. f = Step(f)
  <2> HIDE DEF Step
  <2> QED BY <1>4
<1>6. s = Indices(base) => ChainTo(base, i) = f[n]
  BY DEF ChainTo, Fold
<1> HIDE DEF f
<1>7. f[0] = base /\ \A k \in 1 .. n : f[k] = ChainReplacement(f[k - 1], i, s[k])
  <2>1. ASSUME NEW k \in 1 .. n
        PROVE  f[k] = ChainReplacement(f[k - 1], i, s[k])
    <3>1. f[k] = CHOOSE y \in {ChainReplacement(t, i, s[k]) : t \in {f[k - 1]}} : TRUE
      BY <1>5
    <3> QED BY <1>1, <3>1
  <2> QED BY <1>5, <2>1
<1>8. f \in [0 .. n -> S]
  <2>1. f = [k \in 0 .. n |-> f[k]]
    BY <1>5
  <2>2. f[0] \in S /\ \A k \in 1 .. n : f[k - 1] \in S => f[k] \in S
    BY <1>7
  <2> QED BY <2>1, <2>2, StaysWithin
<1> QED BY <1>6, <1>7, <1>8

\* and those a pass makes.
LEMMA FixupFold ==
  ASSUME NEW S, NEW base \in S, NEW s, Len(s) \in Nat,
         \A k \in 1 .. Len(s) : \A t \in S : ChainTo(t, s[k]) \in S
  PROVE  s = Indices(base) => FixupPass(base) \in S
<1> DEFINE n == Len(s)
           D == [k \in 1 .. n |-> [t \in S |-> ChainTo(t, s[k])]]
           Step(g) == [k \in 0 .. n |-> IF k = 0 THEN base
                         ELSE CHOOSE y \in {ChainTo(t, s[k]) : t \in {g[k - 1]}} : TRUE]
           f == CHOOSE g : g = Step(g)
<1>1. ASSUME NEW g, NEW k
      PROVE  (CHOOSE y \in {ChainTo(t, s[k]) : t \in {g[k - 1]}} : TRUE) = ChainTo(g[k - 1], s[k])
  <2>1. {ChainTo(t, s[k]) : t \in {g[k - 1]}} = {ChainTo(g[k - 1], s[k])}
    OBVIOUS
  <2> QED BY <2>1
<1>2. \A k \in 1 .. n : \A t \in S : D[k][t] = ChainTo(t, s[k]) /\ D[k][t] \in S
  OBVIOUS
<1>3. PICK g \in [0 .. n -> S] : g[0] = base /\ \A k \in 1 .. n : g[k] = D[k][g[k - 1]]
  <2>1. StepWithin(D, S, n)
    BY <1>2 DEF StepWithin
  <2> HIDE DEF D
  <2> QED BY <2>1, PrimitiveRecursion DEF RecursiveOn
<1>4. g = Step(g)
  <2>1. ASSUME NEW k \in 1 .. n
        PROVE  g[k] = CHOOSE y \in {ChainTo(t, s[k]) : t \in {g[k - 1]}} : TRUE
    <3>1. k - 1 \in 0 .. n
      OBVIOUS
    <3>2. g[k - 1] \in S
      BY <3>1
    <3> HIDE DEF D
    <3> QED BY <1>1, <1>2, <1>3, <3>2
  <2>2. \A k \in 0 .. n : k # 0 => k \in 1 .. n
    OBVIOUS
  <2>3. g = [k \in 0 .. n |-> g[k]]
    OBVIOUS
  <2>4. \A k \in 0 .. n : g[k] = Step(g)[k]
    BY <1>3, <2>1, <2>2
  <2> QED BY <2>3, <2>4
<1>5. f = Step(f)
  <2> HIDE DEF Step
  <2> QED BY <1>4
<1>6. s = Indices(base) => FixupPass(base) = f[n]
  BY DEF FixupPass, Fold
<1> HIDE DEF f
<1>7. f[0] = base /\ \A k \in 1 .. n : f[k] = ChainTo(f[k - 1], s[k])
  <2>1. ASSUME NEW k \in 1 .. n
        PROVE  f[k] = ChainTo(f[k - 1], s[k])
    <3>1. f[k] = CHOOSE y \in {ChainTo(t, s[k]) : t \in {f[k - 1]}} : TRUE
      BY <1>5
    <3> QED BY <1>1, <3>1
  <2> QED BY <1>5, <2>1
<1>8. f \in [0 .. n -> S]
  <2>1. f = [k \in 0 .. n |-> f[k]]
    BY <1>5
  <2>2. f[0] \in S /\ \A k \in 1 .. n : f[k - 1] \in S => f[k] \in S
    BY <1>7
  <2> QED BY <2>1, <2>2, StaysWithin
<1> QED BY <1>6, <1>7, <1>8

\* The weights of a vertex on their way into the table,
Influences(f, base, s) ==
  f[0] = base /\ \A k \in 1 .. Len(s) : f[k] = AddInfluence(f[k - 1], s[k])

\* The values a fold of AddInfluence goes through; those of the next four as well.
LEMMA InfluenceFold ==
  ASSUME NEW S, NEW base \in S, NEW s, Len(s) \in Nat,
         \A k \in 1 .. Len(s) : \A t \in S : AddInfluence(t, s[k]) \in S
  PROVE  \E f \in [0 .. Len(s) -> S] : Influences(f, base, s) /\ (Fold(AddInfluence, base, s) = f[Len(s)])
<1> DEFINE n == Len(s)
           D == [k \in 1 .. n |-> [t \in S |-> AddInfluence(t, s[k])]]
           Step(g) == [k \in 0 .. n |-> IF k = 0 THEN base
                         ELSE CHOOSE y \in {AddInfluence(t, s[k]) : t \in {g[k - 1]}} : TRUE]
           f == CHOOSE g : g = Step(g)
<1>1. ASSUME NEW g, NEW k
      PROVE  (CHOOSE y \in {AddInfluence(t, s[k]) : t \in {g[k - 1]}} : TRUE) = AddInfluence(g[k - 1], s[k])
  <2>1. {AddInfluence(t, s[k]) : t \in {g[k - 1]}} = {AddInfluence(g[k - 1], s[k])}
    OBVIOUS
  <2> QED BY <2>1
<1>2. \A k \in 1 .. n : \A t \in S : D[k][t] = AddInfluence(t, s[k]) /\ D[k][t] \in S
  OBVIOUS
<1>3. PICK g \in [0 .. n -> S] : g[0] = base /\ \A k \in 1 .. n : g[k] = D[k][g[k - 1]]
  <2>1. StepWithin(D, S, n)
    BY <1>2 DEF StepWithin
  <2> HIDE DEF D
  <2> QED BY <2>1, PrimitiveRecursion DEF RecursiveOn
<1>4. g = Step(g)
  <2>1. ASSUME NEW k \in 1 .. n
        PROVE  g[k] = CHOOSE y \in {AddInfluence(t, s[k]) : t \in {g[k - 1]}} : TRUE
    <3>1. k - 1 \in 0 .. n
      OBVIOUS
    <3>2. g[k - 1] \in S
      BY <3>1
    <3> HIDE DEF D
    <3> QED BY <1>1, <1>2, <1>3, <3>2
  <2>2. \A k \in 0 .. n : k # 0 => k \in 1 .. n
    OBVIOUS
  <2>3. g = [k \in 0 .. n |-> g[k]]
    OBVIOUS
  <2>4. \A k \in 0 .. n : g[k] = Step(g)[k]
    BY <1>3, <2>1, <2>2
  <2> QED BY <2>3, <2>4
<1>5. f = Step(f)
  <2> HIDE DEF Step
  <2> QED BY <1>4
<1>6. Fold(AddInfluence, base, s) = f[n]
  BY DEF Fold
<1> HIDE DEF f
<1>7. f[0] = base /\ \A k \in 1 .. n : f[k] = AddInfluence(f[k - 1], s[k])
  <2>1. ASSUME NEW k \in 1 .. n
        PROVE  f[k] = AddInfluence(f[k - 1], s[k])
    <3>1. f[k] = CHOOSE y \in {AddInfluence(t, s[k]) : t \in {f[k - 1]}} : TRUE
      BY <1>5
    <3> QED BY <1>1, <3>1
  <2> QED BY <1>5, <2>1
<1>8. f \in [0 .. n -> S]
  <2>1. f = [k \in 0 .. n |-> f[k]]
    BY <1>5
  <2>2. f[0] \in S /\ \A k \in 1 .. n : f[k - 1] \in S => f[k] \in S
    BY <1>7
  <2> QED BY <2>1, <2>2, StaysWithin
<1> QED BY <1>6, <1>7, <1>8 DEF Influences

\* while they are sorted,
SortSteps(f, base, s, by) ==
  f[0] = base /\ \A k \in 1 .. Len(s) : f[k] = InsertInfluence(by, f[k - 1], s[k])

\* InsertInfluence.
LEMMA SortFold ==
  ASSUME NEW by, NEW S, NEW base \in S, NEW s, Len(s) \in Nat,
         \A k \in 1 .. Len(s) : \A t \in S : InsertInfluence(by, t, s[k]) \in S
  PROVE  \E f \in [0 .. Len(s) -> S] : SortSteps(f, base, s, by) /\ (base = <<>> => SortBoneWeight(by, s) = f[Len(s)])
<1> DEFINE n == Len(s)
           D == [k \in 1 .. n |-> [t \in S |-> InsertInfluence(by, t, s[k])]]
           Step(g) == [k \in 0 .. n |-> IF k = 0 THEN base
                         ELSE CHOOSE y \in {InsertInfluence(by, t, s[k]) : t \in {g[k - 1]}} : TRUE]
           f == CHOOSE g : g = Step(g)
<1>1. ASSUME NEW g, NEW k
      PROVE  (CHOOSE y \in {InsertInfluence(by, t, s[k]) : t \in {g[k - 1]}} : TRUE) = InsertInfluence(by, g[k - 1], s[k])
  <2>1. {InsertInfluence(by, t, s[k]) : t \in {g[k - 1]}} = {InsertInfluence(by, g[k - 1], s[k])}
    OBVIOUS
  <2> QED BY <2>1
<1>2. \A k \in 1 .. n : \A t \in S : D[k][t] = InsertInfluence(by, t, s[k]) /\ D[k][t] \in S
  OBVIOUS
<1>3. PICK g \in [0 .. n -> S] : g[0] = base /\ \A k \in 1 .. n : g[k] = D[k][g[k - 1]]
  <2>1. StepWithin(D, S, n)
    BY <1>2 DEF StepWithin
  <2> HIDE DEF D
  <2> QED BY <2>1, PrimitiveRecursion DEF RecursiveOn
<1>4. g = Step(g)
  <2>1. ASSUME NEW k \in 1 .. n
        PROVE  g[k] = CHOOSE y \in {InsertInfluence(by, t, s[k]) : t \in {g[k - 1]}} : TRUE
    <3>1. k - 1 \in 0 .. n
      OBVIOUS
    <3>2. g[k - 1] \in S
      BY <3>1
    <3> HIDE DEF D
    <3> QED BY <1>1, <1>2, <1>3, <3>2
  <2>2. \A k \in 0 .. n : k # 0 => k \in 1 .. n
    OBVIOUS
  <2>3. g = [k \in 0 .. n |-> g[k]]
    OBVIOUS
  <2>4. \A k \in 0 .. n : g[k] = Step(g)[k]
    BY <1>3, <2>1, <2>2
  <2> QED BY <2>3, <2>4
<1>5. f = Step(f)
  <2> HIDE DEF Step
  <2> QED BY <1>4
<1>6. base = <<>> => SortBoneWeight(by, s) = f[n]
  BY DEF SortBoneWeight, Fold
<1> HIDE DEF f
<1>7. f[0] = base /\ \A k \in 1 .. n : f[k] = InsertInfluence(by, f[k - 1], s[k])
  <2>1. ASSUME NEW k \in 1 .. n
        PROVE  f[k] = InsertInfluence(by, f[k - 1], s[k])
    <3>1. f[k] = CHOOSE y \in {InsertInfluence(by, t, s[k]) : t \in {f[k - 1]}} : TRUE
      BY <1>5
    <3> QED BY <1>1, <3>1
  <2> QED BY <1>5, <2>1
<1>8. f \in [0 .. n -> S]
  <2>1. f = [k \in 0 .. n |-> f[k]]
    BY <1>5
  <2>2. f[0] \in S /\ \A k \in 1 .. n : f[k - 1] \in S => f[k] \in S
    BY <1>7
  <2> QED BY <2>1, <2>2, StaysWithin
<1> QED BY <1>6, <1>7, <1>8 DEF SortSteps

\* and while neighbours become one.
Merges(f, base, s) ==
  f[0] = base /\ \A k \in 1 .. Len(s) : f[k] = MergeNeighbours(f[k - 1], s[k])

\* MergeNeighbours.
LEMMA MergeFold ==
  ASSUME NEW S, NEW base \in S, NEW s, Len(s) \in Nat,
         \A k \in 1 .. Len(s) : \A t \in S : MergeNeighbours(t, s[k]) \in S
  PROVE  \E f \in [0 .. Len(s) -> S] : Merges(f, base, s) /\ (Fold(MergeNeighbours, base, s) = f[Len(s)])
<1> DEFINE n == Len(s)
           D == [k \in 1 .. n |-> [t \in S |-> MergeNeighbours(t, s[k])]]
           Step(g) == [k \in 0 .. n |-> IF k = 0 THEN base
                         ELSE CHOOSE y \in {MergeNeighbours(t, s[k]) : t \in {g[k - 1]}} : TRUE]
           f == CHOOSE g : g = Step(g)
<1>1. ASSUME NEW g, NEW k
      PROVE  (CHOOSE y \in {MergeNeighbours(t, s[k]) : t \in {g[k - 1]}} : TRUE) = MergeNeighbours(g[k - 1], s[k])
  <2>1. {MergeNeighbours(t, s[k]) : t \in {g[k - 1]}} = {MergeNeighbours(g[k - 1], s[k])}
    OBVIOUS
  <2> QED BY <2>1
<1>2. \A k \in 1 .. n : \A t \in S : D[k][t] = MergeNeighbours(t, s[k]) /\ D[k][t] \in S
  OBVIOUS
<1>3. PICK g \in [0 .. n -> S] : g[0] = base /\ \A k \in 1 .. n : g[k] = D[k][g[k - 1]]
  <2>1. StepWithin(D, S, n)
    BY <1>2 DEF StepWithin
  <2> HIDE DEF D
  <2> QED BY <2>1, PrimitiveRecursion DEF RecursiveOn
<1>4. g = Step(g)
  <2>1. ASSUME NEW k \in 1 .. n
        PROVE  g[k] = CHOOSE y \in {MergeNeighbours(t, s[k]) : t \in {g[k - 1]}} : TRUE
    <3>1. k - 1 \in 0 .. n
      OBVIOUS
    <3>2. g[k - 1] \in S
      BY <3>1
    <3> HIDE DEF D
    <3> QED BY <1>1, <1>2, <1>3, <3>2
  <2>2. \A k \in 0 .. n : k # 0 => k \in 1 .. n
    OBVIOUS
  <2>3. g = [k \in 0 .. n |-> g[k]]
    OBVIOUS
  <2>4. \A k \in 0 .. n : g[k] = Step(g)[k]
    BY <1>3, <2>1, <2>2
  <2> QED BY <2>3, <2>4
<1>5. f = Step(f)
  <2> HIDE DEF Step
  <2> QED BY <1>4
<1>6. Fold(MergeNeighbours, base, s) = f[n]
  BY DEF Fold
<1> HIDE DEF f
<1>7. f[0] = base /\ \A k \in 1 .. n : f[k] = MergeNeighbours(f[k - 1], s[k])
  <2>1. ASSUME NEW k \in 1 .. n
        PROVE  f[k] = MergeNeighbours(f[k - 1], s[k])
    <3>1. f[k] = CHOOSE y \in {MergeNeighbours(t, s[k]) : t \in {f[k - 1]}} : TRUE
      BY <1>5
    <3> QED BY <1>1, <3>1
  <2> QED BY <1>5, <2>1
<1>8. f \in [0 .. n -> S]
  <2>1. f = [k \in 0 .. n |-> f[k]]
    BY <1>5
  <2>2. f[0] \in S /\ \A k \in 1 .. n : f[k - 1] \in S => f[k] \in S
    BY <1>7
  <2> QED BY <2>1, <2>2, StaysWithin
<1> QED BY <1>6, <1>7, <1>8 DEF Merges

\* The mappings on the way to that of a level,
Entries(f, base, s) ==
  f[0] = base /\ \A k \in 1 .. Len(s) : f[k] = EnterReplacement(f[k - 1], s[k])

\* EnterReplacement.
LEMMA EnterFold ==
  ASSUME NEW S, NEW base \in S, NEW s, Len(s) \in Nat,
         \A k \in 1 .. Len(s) : \A t \in S : EnterReplacement(t, s[k]) \in S
  PROVE  \E f \in [0 .. Len(s) -> S] : Entries(f, base, s) /\ (Fold(EnterReplacement, base, s) = f[Len(s)])
<1> DEFINE n == Len(s)
           D == [k \in 1 .. n |-> [t \in S |-> EnterReplacement(t, s[k])]]
           Step(g) == [k \in 0 .. n |-> IF k = 0 THEN base
                         ELSE CHOOSE y \in {EnterReplacement(t, s[k]) : t \in {g[k - 1]}} : TRUE]
           f == CHOOSE g : g = Step(g)
<1>1. ASSUME NEW g, NEW k
      PROVE  (CHOOSE y \in {EnterReplacement(t, s[k]) : t \in {g[k - 1]}} : TRUE) = EnterReplacement(g[k - 1], s[k])
  <2>1. {EnterReplacement(t, s[k]) : t \in {g[k - 1]}} = {EnterReplacement(g[k - 1], s[k])}
    OBVIOUS
  <2> QED BY <2>1
<1>2. \A k \in 1 .. n : \A t \in S : D[k][t] = EnterReplacement(t, s[k]) /\ D[k][t] \in S
  OBVIOUS
<1>3. PICK g \in [0 .. n -> S] : g[0] = base /\ \A k \in 1 .. n : g[k] = D[k][g[k - 1]]
  <2>1. StepWithin(D, S, n)
    BY <1>2 DEF StepWithin
  <2> HIDE DEF D
  <2> QED BY <2>1, PrimitiveRecursion DEF RecursiveOn
<1>4. g = Step(g)
  <2>1. ASSUME NEW k \in 1 .. n
        PROVE  g[k] = CHOOSE y \in {EnterReplacement(t, s[k]) : t \in {g[k - 1]}} : TRUE
    <3>1. k - 1 \in 0 .. n
      OBVIOUS
    <3>2. g[k - 1] \in S
      BY <3>1
    <3> HIDE DEF D
    <3> QED BY <1>1, <1>2, <1>3, <3>2
  <2>2. \A k \in 0 .. n : k # 0 => k \in 1 .. n
    OBVIOUS
  <2>3. g = [k \in 0 .. n |-> g[k]]
    OBVIOUS
  <2>4. \A k \in 0 .. n : g[k] = Step(g)[k]
    BY <1>3, <2>1, <2>2
  <2> QED BY <2>3, <2>4
<1>5. f = Step(f)
  <2> HIDE DEF Step
  <2> QED BY <1>4
<1>6. Fold(EnterReplacement, base, s) = f[n]
  BY DEF Fold
<1> HIDE DEF f
<1>7. f[0] = base /\ \A k \in 1 .. n : f[k] = EnterReplacement(f[k - 1], s[k])
  <2>1. ASSUME NEW k \in 1 .. n
        PROVE  f[k] = EnterReplacement(f[k - 1], s[k])
    <3>1. f[k] = CHOOSE y \in {EnterReplacement(t, s[k]) : t \in {f[k - 1]}} : TRUE
      BY <1>5
    <3> QED BY <1>1, <3>1
  <2> QED BY <1>5, <2>1
<1>8. f \in [0 .. n -> S]
  <2>1. f = [k \in 0 .. n |-> f[k]]
    BY <1>5
  <2>2. f[0] \in S /\ \A k \in 1 .. n : f[k - 1] \in S => f[k] \in S
    BY <1>7
  <2> QED BY <2>1, <2>2, StaysWithin
<1> QED BY <1>6, <1>7, <1>8 DEF Entries

\* and the tables MarkProceduralBoneChain goes through.
Marks(f, base, s) ==
  f[0] = base /\ \A k \in 1 .. Len(s) : f[k] = MarkChain(f[k - 1], s[k])

\* MarkChain.
LEMMA MarkFold ==
  ASSUME NEW S, NEW base \in S, NEW s, Len(s) \in Nat,
         \A k \in 1 .. Len(s) : \A t \in S : MarkChain(t, s[k]) \in S
  PROVE  \E f \in [0 .. Len(s) -> S] : Marks(f, base, s) /\ (Fold(MarkChain, base, s) = f[Len(s)])
<1> DEFINE n == Len(s)
           D == [k \in 1 .. n |-> [t \in S |-> MarkChain(t, s[k])]]
           Step(g) == [k \in 0 .. n |-> IF k = 0 THEN base
                         ELSE CHOOSE y \in {MarkChain(t, s[k]) : t \in {g[k - 1]}} : TRUE]
           f == CHOOSE g : g = Step(g)
<1>1. ASSUME NEW g, NEW k
      PROVE  (CHOOSE y \in {MarkChain(t, s[k]) : t \in {g[k - 1]}} : TRUE) = MarkChain(g[k - 1], s[k])
  <2>1. {MarkChain(t, s[k]) : t \in {g[k - 1]}} = {MarkChain(g[k - 1], s[k])}
    OBVIOUS
  <2> QED BY <2>1
<1>2. \A k \in 1 .. n : \A t \in S : D[k][t] = MarkChain(t, s[k]) /\ D[k][t] \in S
  OBVIOUS
<1>3. PICK g \in [0 .. n -> S] : g[0] = base /\ \A k \in 1 .. n : g[k] = D[k][g[k - 1]]
  <2>1. StepWithin(D, S, n)
    BY <1>2 DEF StepWithin
  <2> HIDE DEF D
  <2> QED BY <2>1, PrimitiveRecursion DEF RecursiveOn
<1>4. g = Step(g)
  <2>1. ASSUME NEW k \in 1 .. n
        PROVE  g[k] = CHOOSE y \in {MarkChain(t, s[k]) : t \in {g[k - 1]}} : TRUE
    <3>1. k - 1 \in 0 .. n
      OBVIOUS
    <3>2. g[k - 1] \in S
      BY <3>1
    <3> HIDE DEF D
    <3> QED BY <1>1, <1>2, <1>3, <3>2
  <2>2. \A k \in 0 .. n : k # 0 => k \in 1 .. n
    OBVIOUS
  <2>3. g = [k \in 0 .. n |-> g[k]]
    OBVIOUS
  <2>4. \A k \in 0 .. n : g[k] = Step(g)[k]
    BY <1>3, <2>1, <2>2
  <2> QED BY <2>3, <2>4
<1>5. f = Step(f)
  <2> HIDE DEF Step
  <2> QED BY <1>4
<1>6. Fold(MarkChain, base, s) = f[n]
  BY DEF Fold
<1> HIDE DEF f
<1>7. f[0] = base /\ \A k \in 1 .. n : f[k] = MarkChain(f[k - 1], s[k])
  <2>1. ASSUME NEW k \in 1 .. n
        PROVE  f[k] = MarkChain(f[k - 1], s[k])
    <3>1. f[k] = CHOOSE y \in {MarkChain(t, s[k]) : t \in {f[k - 1]}} : TRUE
      BY <1>5
    <3> QED BY <1>1, <3>1
  <2> QED BY <1>5, <2>1
<1>8. f \in [0 .. n -> S]
  <2>1. f = [k \in 0 .. n |-> f[k]]
    BY <1>5
  <2>2. f[0] \in S /\ \A k \in 1 .. n : f[k - 1] \in S => f[k] \in S
    BY <1>7
  <2> QED BY <2>1, <2>2, StaysWithin
<1> QED BY <1>6, <1>7, <1>8 DEF Marks

-----------------------------------------------------------------------------
(* The project, the table, and what finds a bone in it *)

\* The parts of a project, as far as the proofs need them.
LEMMA ProjectFacts ==
  ASSUME IsProject(project)
  PROVE  /\ project.sources \in Seq([active : BOOLEAN, bones : Seq(NamedBone), verts : Seq(Seq(Influence))])
         /\ 1 \in DOMAIN project.sources
         /\ Model.bones \in Seq(NamedBone) /\ ParentsFirst(Model.bones)
         /\ Model.verts \in Seq(Seq(Influence))
         /\ \A v \in DOMAIN Model.verts : \A x \in Range(Model.verts[v]) : x.bone \in DOMAIN Model.bones
         /\ Len(project.lods) \in 1 .. 3 /\ DOMAIN project.lods = 1 .. Len(project.lods)
         /\ \A l \in DOMAIN project.lods :
              /\ project.lods[l].replacebone \in Seq(Replacement)
              /\ project.lods[l].bonetreecollapse \in Seq(STRING)
              /\ project.lods[l].uses \subseteq DOMAIN Model.verts
<1> DEFINE Source == [active : BOOLEAN, bones : Seq(NamedBone), verts : Seq(Seq(Influence))]
<1>1. /\ project.sources \in Seq(Source) /\ project.sources # <<>>
      /\ \A s \in Range(project.sources) :
           /\ \A j \in DOMAIN s.bones : s.bones[j].parent < j
           /\ \A v \in DOMAIN s.verts : \A x \in Range(s.verts[v]) : x.bone \in DOMAIN s.bones
  BY DEF IsProject
<1>2. 1 \in DOMAIN project.sources
  <2> HIDE DEF Source
  <2> QED BY <1>1
<1>3. Model \in Source /\ Model \in Range(project.sources)
  <2> HIDE DEF Source
  <2> QED BY <1>1, <1>2 DEF Model, Range
<1>4. Model.bones \in Seq(NamedBone) /\ Model.verts \in Seq(Seq(Influence))
  BY <1>3
<1>5. /\ \A j \in DOMAIN Model.bones : Model.bones[j].parent < j
      /\ \A v \in DOMAIN Model.verts : \A x \in Range(Model.verts[v]) : x.bone \in DOMAIN Model.bones
  <2> HIDE DEF Source
  <2> QED BY <1>1, <1>3
<1>6. ParentsFirst(Model.bones)
  <2>1. \A b \in NamedBone : b.parent \in Nat
    BY DEF NamedBone
  <2>2. /\ Len(Model.bones) \in Nat /\ DOMAIN Model.bones = 1 .. Len(Model.bones)
        /\ \A k \in DOMAIN Model.bones : Model.bones[k] \in NamedBone
    BY <1>4
  <2> QED BY <1>5, <2>1, <2>2 DEF ParentsFirst
<1>7. Len(LodFlag) = 3
  BY DEF LodFlag
<1>8. /\ project.lods \in Seq([replacebone : Seq(Replacement), bonetreecollapse : Seq(STRING), uses : SUBSET Nat])
      /\ Len(project.lods) \in 1 .. Len(LodFlag)
      /\ \A l \in DOMAIN project.lods : project.lods[l].uses \subseteq DOMAIN project.sources[1].verts
  BY DEF IsProject
<1>9. \A l \in DOMAIN project.lods : project.lods[l].uses \subseteq DOMAIN Model.verts
  BY <1>8 DEF Model
<1>10. /\ Len(project.lods) \in 1 .. 3 /\ DOMAIN project.lods = 1 .. Len(project.lods)
       /\ \A l \in DOMAIN project.lods :
            /\ project.lods[l].replacebone \in Seq(Replacement)
            /\ project.lods[l].bonetreecollapse \in Seq(STRING)
  <2> DEFINE Level == [replacebone : Seq(Replacement), bonetreecollapse : Seq(STRING), uses : SUBSET Nat]
  <2>1. \A x \in Level : x.replacebone \in Seq(Replacement) /\ x.bonetreecollapse \in Seq(STRING)
    OBVIOUS
  <2>2. project.lods \in Seq(Level) /\ Len(project.lods) \in 1 .. 3
    BY <1>7, <1>8
  <2> HIDE DEF Level
  <2>3. \A l \in DOMAIN project.lods : project.lods[l] \in Level
    BY <2>2
  <2> QED BY <2>1, <2>2, <2>3
<1> QED BY <1>1, <1>2, <1>4, <1>5, <1>6, <1>9, <1>10

\* A bone is renamed once.
LEMMA RenamedOnce ==
  ASSUME IsProject(project)
  PROVE  /\ \A name : RenameBone(RenameBone(name)) = RenameBone(name)
         /\ \A name \in STRING : RenameBone(name) \in STRING
<1>1. Range(project.rename) \cap DOMAIN project.rename = {} /\ Range(project.rename) \subseteq STRING
  BY DEF IsProject
<1>2. \A name \in DOMAIN project.rename : project.rename[name] \in Range(project.rename)
  BY DEF Range
<1> QED BY <1>1, <1>2 DEF RenameBone

\* The tables, with parents of the table or none.
Tables == {t \in Seq(Bone) : \A i \in DOMAIN t : t[i].parent <= Len(t)}

\* What is in a table: bones with parents in it.
LEMMA TableShape ==
  ASSUME NEW t \in Tables
  PROVE  /\ Len(t) \in Nat /\ DOMAIN t = 1 .. Len(t)
         /\ \A i \in DOMAIN t : t[i] \in Bone /\ t[i].parent \in 0 .. Len(t)
<1>1. t \in Seq(Bone) /\ \A i \in DOMAIN t : t[i].parent <= Len(t)
  BY DEF Tables
<1>2. Len(t) \in Nat /\ DOMAIN t = 1 .. Len(t) /\ \A i \in DOMAIN t : t[i] \in Bone
  BY <1>1
<1>3. \A b \in Bone : b.parent \in Nat
  BY DEF Bone
<1> QED BY <1>1, <1>2, <1>3

\* A function on 1 .. n is a table of n bones if its values are such bones.
LEMMA TablesIf ==
  ASSUME NEW t, NEW n \in Nat, t = [i \in 1 .. n |-> t[i]],
         \A i \in 1 .. n : t[i] \in Bone /\ t[i].parent <= n
  PROVE  t \in Tables /\ Len(t) = n
<1>1. t \in [1 .. n -> Bone]
  OBVIOUS
<1>2. t \in Seq(Bone) /\ Len(t) = n
  BY <1>1
<1> QED BY <1>2 DEF Tables

\* What Find finds.
LEMMA FindFacts ==
  ASSUME NEW t, Len(t) \in Nat, DOMAIN t = 1 .. Len(t), NEW name
  PROVE  /\ Find(t, name) \in 0 .. Len(t)
         /\ Find(t, name) # 0 => Find(t, name) \in DOMAIN t /\ t[Find(t, name)].name = RenameBone(name)
         /\ Find(t, name) = 0 <=> RenameBone(name) \notin Names(t)
<1> DEFINE hits == {i \in DOMAIN t : t[i].name = RenameBone(name)}
<1>1. Find(t, name) = IF hits = {} THEN 0 ELSE Min(hits)
  BY DEF Find
<1>2. hits = {} <=> RenameBone(name) \notin Names(t)
  BY DEF Names
<1>3. hits # {} => Min(hits) \in hits
  <2>1. hits \subseteq Nat
    OBVIOUS
  <2> HIDE DEF hits
  <2> QED BY <2>1, MinOf
<1>4. hits \subseteq DOMAIN t /\ \A i \in hits : i # 0 /\ t[i].name = RenameBone(name)
  OBVIOUS
<1> HIDE DEF hits
<1>5. CASE hits = {}
  BY <1>1, <1>2, <1>5
<1>6. CASE hits # {}
  BY <1>1, <1>2, <1>3, <1>4, <1>6
<1> QED BY <1>5, <1>6

\* u is t with more flags.
Grown(t, u) ==
  /\ DOMAIN u = DOMAIN t /\ Len(u) = Len(t)
  /\ \A i \in DOMAIN t :
       u[i].name = t[i].name /\ u[i].parent = t[i].parent /\ t[i].flags \subseteq u[i].flags

\* A grown table has the same names, the same ancestors and the same order.
LEMMA GrownSame ==
  ASSUME NEW t, NEW u, Grown(t, u)
  PROVE  /\ \A name : Find(u, name) = Find(t, name)
         /\ Names(u) = Names(t)
         /\ \A i : Above(u, i) = Above(t, i)
         /\ ParentsFirst(t) => ParentsFirst(u)
<1>1. ASSUME NEW name
      PROVE  Find(u, name) = Find(t, name)
  <2>1. {i \in DOMAIN u : u[i].name = RenameBone(name)} = {i \in DOMAIN t : t[i].name = RenameBone(name)}
    BY DEF Grown
  <2> QED BY <2>1 DEF Find
<1>2. Names(u) = Names(t)
  BY DEF Names, Grown
<1>3. \A i : Above(u, i) = Above(t, i)
  <2>1. DOMAIN t = DOMAIN u /\ \A k \in DOMAIN t : t[k].parent = u[k].parent
    BY DEF Grown
  <2> QED BY <2>1, AboveSame
<1>4. ParentsFirst(t) => ParentsFirst(u)
  BY DEF Grown, ParentsFirst
<1> QED BY <1>1, <1>2, <1>3, <1>4

\* Growing twice is growing.
LEMMA GrownOn ==
  ASSUME NEW t, NEW u, NEW w, Grown(t, u), Grown(u, w)
  PROVE  Grown(t, w)
BY DEF Grown

\* The flags F are added to a table.
Retagged(t, F) == [i \in DOMAIN t |-> [t[i] EXCEPT !.flags = @ \cup F[i]]]

\* Adding flags is growing.
LEMMA FlagsAdded ==
  ASSUME NEW t \in Tables, NEW F, \A i \in DOMAIN t : F[i] \subseteq AllFlags, NEW u,
         u = Retagged(t, F)
  PROVE  /\ u \in Tables /\ Grown(t, u)
         /\ \A i \in DOMAIN t : u[i].flags = t[i].flags \cup F[i]
<1>1. Len(t) \in Nat /\ DOMAIN t = 1 .. Len(t) /\ \A i \in DOMAIN t : t[i] \in Bone /\ t[i].parent <= Len(t)
  BY TableShape
<1>2. ASSUME NEW i \in DOMAIN t
      PROVE  /\ u[i] \in Bone /\ u[i].name = t[i].name /\ u[i].parent = t[i].parent
             /\ u[i].flags = t[i].flags \cup F[i]
  <2>1. PICK b \in Bone : b = t[i]
    BY <1>1
  <2>2. PICK more \in SUBSET AllFlags : more = F[i]
    OBVIOUS
  <2>3. u[i] = [b EXCEPT !.flags = @ \cup more]
    BY <2>1, <2>2 DEF Retagged
  <2> QED BY <2>1, <2>2, <2>3 DEF Bone
<1>3. u = [i \in 1 .. Len(t) |-> u[i]]
  BY <1>1 DEF Retagged
<1>4. u \in Tables /\ Len(u) = Len(t)
  <2>1. \A i \in 1 .. Len(t) : u[i] \in Bone /\ u[i].parent <= Len(t)
    BY <1>1, <1>2
  <2> QED BY <1>1, <1>3, <2>1, TablesIf
<1>5. Grown(t, u)
  BY <1>2, <1>4 DEF Grown
<1> QED BY <1>2, <1>4, <1>5

-----------------------------------------------------------------------------
(* The table is built and sorted *)

\* A bone behind the others.
LEMMA TableAppended ==
  ASSUME NEW t \in Tables, NEW b \in Bone, b.parent <= Len(t)
  PROVE  Append(t, b) \in Tables
<1>1. t \in Seq(Bone) /\ Len(t) \in Nat /\ \A i \in DOMAIN t : t[i].parent <= Len(t)
  BY DEF Tables
<1>2. /\ Append(t, b) \in Seq(Bone) /\ Len(Append(t, b)) = Len(t) + 1
      /\ \A i \in DOMAIN Append(t, b) : (i \in DOMAIN t /\ Append(t, b)[i] = t[i]) \/ Append(t, b)[i] = b
  BY <1>1
<1>3. \A x \in Bone : x.parent \in Nat
  BY DEF Bone
<1>4. \A i \in DOMAIN t : t[i] \in Bone
  BY <1>1
<1>5. ASSUME NEW i \in DOMAIN Append(t, b)
      PROVE  Append(t, b)[i].parent <= Len(t) + 1
  <2>1. CASE i \in DOMAIN t /\ Append(t, b)[i] = t[i]
    BY <1>1, <1>3, <1>4, <2>1
  <2>2. CASE Append(t, b)[i] = b
    BY <1>1, <1>3, <2>2
  <2> QED BY <1>2, <2>1, <2>2
<1> QED BY <1>2, <1>5 DEF Tables

\* A bone in the place of another.
LEMMA TablePut ==
  ASSUME NEW t \in Tables, NEW k \in DOMAIN t, NEW b \in Bone, b.parent <= Len(t)
  PROVE  [t EXCEPT ![k] = b] \in Tables
<1>1. t \in Seq(Bone) /\ \A i \in DOMAIN t : t[i].parent <= Len(t)
  BY DEF Tables
<1>2. [t EXCEPT ![k] = b] \in Seq(Bone) /\ Len([t EXCEPT ![k] = b]) = Len(t)
  BY <1>1
<1>3. \A i \in DOMAIN [t EXCEPT ![k] = b] : [t EXCEPT ![k] = b][i].parent <= Len(t)
  BY <1>1
<1> QED BY <1>2, <1>3 DEF Tables

\* A $definebone adds a bone at most.
LEMMA ImportTyped ==
  ASSUME IsProject(project), NEW t \in Tables,
         NEW imp \in [name : STRING, parent : STRING \cup {None}]
  PROVE  AddImport(t, imp) \in Tables
<1>1. Len(t) \in Nat /\ DOMAIN t = 1 .. Len(t) /\ \A i \in DOMAIN t : t[i] \in Bone /\ t[i].parent \in 0 .. Len(t)
  BY TableShape
<1>2. Find(t, imp.name) \in 0 .. Len(t) /\ Find(t, imp.parent) \in 0 .. Len(t)
  BY <1>1, FindFacts
<1> DEFINE k == Find(t, imp.name)
           p == IF imp.parent = None THEN 0 ELSE Find(t, imp.parent)
           new == [name |-> imp.name, flags |-> {}, keep |-> TRUE, parent |-> p]
<1>3. AddImport(t, imp) = IF k = 0 THEN Append(t, new) ELSE [t EXCEPT ![k].keep = TRUE]
  BY DEF AddImport
<1>4. CASE k = 0
  <2>1. p \in 0 .. Len(t)
    BY <1>1, <1>2
  <2>2. new \in Bone /\ new.parent <= Len(t)
    <3> HIDE DEF p
    <3> QED BY <1>1, <2>1 DEF Bone
  <2> QED BY <1>3, <1>4, <2>2, TableAppended
<1>5. CASE k # 0
  <2> DEFINE b == [t[k] EXCEPT !.keep = TRUE]
  <2>1. k \in DOMAIN t
    BY <1>1, <1>2, <1>5
  <2>2. b \in Bone /\ b.parent <= Len(t)
    <3>1. t[k] \in Bone /\ t[k].parent <= Len(t)
      BY <1>1, <2>1
    <3> HIDE DEF k
    <3> QED BY <3>1 DEF Bone
  <2>3. [t EXCEPT ![k].keep = TRUE] = [t EXCEPT ![k] = b]
    OBVIOUS
  <2> HIDE DEF b, k
  <2>4. [t EXCEPT ![k] = b] \in Tables
    BY <2>1, <2>2, TablePut
  <2> QED BY <1>3, <1>5, <2>3, <2>4
<1> QED BY <1>4, <1>5

\* What is there of the flags of the sources once they are tagged.
FlagsTyped ==
  \A i \in DOMAIN project.sources : \A j \in DOMAIN project.sources[i].bones :
    boneflags[i][j] \subseteq AllFlags

\* A bone of a source adds a bone or flags at most.
LEMMA BoneAddedTyped ==
  ASSUME IsProject(project), FlagsTyped, NEW i \in DOMAIN project.sources,
         NEW j \in DOMAIN project.sources[i].bones, NEW t \in Tables
  PROVE  AddBone(i, t, j) \in Tables
<1>1. Len(t) \in Nat /\ DOMAIN t = 1 .. Len(t) /\ \A m \in DOMAIN t : t[m] \in Bone /\ t[m].parent \in 0 .. Len(t)
  BY TableShape
<1> DEFINE s == project.sources[i]
           k == Find(t, NameIn(s, j))
           n == s.bones[j].parent
           p == IF n = 0 THEN 0 ELSE Find(t, NameIn(s, n))
           new == [name |-> NameIn(s, j), flags |-> boneflags[i][j], keep |-> FALSE, parent |-> p]
<1>2. k \in 0 .. Len(t) /\ p \in 0 .. Len(t)
  BY <1>1, FindFacts
<1>3. NameIn(s, j) \in STRING
  <2>1. s.bones \in Seq(NamedBone)
    <3> DEFINE Source == [active : BOOLEAN, bones : Seq(NamedBone), verts : Seq(Seq(Influence))]
    <3>1. \A x \in Source : x.bones \in Seq(NamedBone)
      OBVIOUS
    <3>2. project.sources \in Seq(Source)
      BY ProjectFacts
    <3> HIDE DEF Source
    <3>3. project.sources[i] \in Source
      BY <3>2
    <3> QED BY <3>1, <3>3
  <2>2. s.bones[j] \in NamedBone
    BY <2>1
  <2>3. s.bones[j].name \in STRING
    BY <2>2 DEF NamedBone
  <2> QED BY <2>3, RenamedOnce DEF NameIn
<1>4. AddBone(i, t, j) =
        CASE boneref[i][j] = {}             -> t
          [] boneref[i][j] # {} /\ k = 0    -> Append(t, new)
          [] boneref[i][j] # {} /\ k # 0    -> [t EXCEPT ![k].flags = @ \cup boneflags[i][j]]
  BY DEF AddBone
<1>5. PICK more \in SUBSET AllFlags : more = boneflags[i][j]
  BY DEF FlagsTyped
<1>6. CASE boneref[i][j] = {}
  BY <1>4, <1>6
<1>7. CASE boneref[i][j] # {} /\ k = 0
  <2>1. new \in Bone /\ new.parent <= Len(t)
    <3> HIDE DEF p, s
    <3> QED BY <1>1, <1>2, <1>3, <1>5 DEF Bone
  <2>2. Append(t, new) \in Tables
    <3> HIDE DEF new
    <3> QED BY <2>1, TableAppended
  <2>3. AddBone(i, t, j) = Append(t, new)
    <3> HIDE DEF new, k
    <3> QED BY <1>4, <1>7
  <2> QED BY <2>2, <2>3
<1>8. CASE boneref[i][j] # {} /\ k # 0
  <2> DEFINE b == [t[k] EXCEPT !.flags = @ \cup more]
  <2>1. k \in DOMAIN t
    BY <1>1, <1>2, <1>8
  <2>2. b \in Bone /\ b.parent <= Len(t)
    <3>1. t[k] \in Bone /\ t[k].parent <= Len(t)
      BY <1>1, <2>1
    <3> HIDE DEF k
    <3> QED BY <3>1 DEF Bone
  <2>3. [t EXCEPT ![k].flags = @ \cup boneflags[i][j]] = [t EXCEPT ![k] = b]
    BY <1>5
  <2>4. [t EXCEPT ![k] = b] \in Tables
    <3> HIDE DEF b, k
    <3> QED BY <2>1, <2>2, TablePut
  <2>5. AddBone(i, t, j) = [t EXCEPT ![k].flags = @ \cup boneflags[i][j]]
    <3> HIDE DEF new, k
    <3> QED BY <1>4, <1>8
  <2> QED BY <2>3, <2>4, <2>5
<1> QED BY <1>6, <1>7, <1>8

\* Indices of a sequence.
LEMMA IndicesOf ==
  ASSUME NEW s, Len(s) \in Nat
  PROVE  /\ Indices(s) \in Seq(Nat) /\ Len(Indices(s)) = Len(s) /\ DOMAIN Indices(s) = 1 .. Len(s)
         /\ \A k \in 1 .. Len(s) : Indices(s)[k] = k
<1>1. Indices(s) = [k \in 1 .. Len(s) |-> k]
  BY DEF Indices
<1>2. Indices(s) \in [1 .. Len(s) -> Nat]
  BY <1>1
<1> QED BY <1>1, <1>2

\* So does a source, for each of its bones.
LEMMA SourceAddedTyped ==
  ASSUME IsProject(project), FlagsTyped, NEW i \in DOMAIN project.sources, NEW t \in Tables
  PROVE  AddSource(t, i) \in Tables
<1>1. \E n \in Nat : Len(project.sources[i].bones) = n /\ DOMAIN project.sources[i].bones = 1 .. n
  <2> DEFINE Source == [active : BOOLEAN, bones : Seq(NamedBone), verts : Seq(Seq(Influence))]
  <2>1. \A x \in Source : x.bones \in Seq(NamedBone)
    OBVIOUS
  <2>2. project.sources \in Seq(Source)
    BY ProjectFacts
  <2> HIDE DEF Source
  <2>3. project.sources[i] \in Source
    BY <2>2
  <2> QED BY <2>1, <2>3
<1>2. PICK s : s = Indices(project.sources[i].bones)
  OBVIOUS
<1>3. /\ Len(s) \in Nat
      /\ \A k \in 1 .. Len(s) : s[k] \in DOMAIN project.sources[i].bones
  BY <1>1, <1>2, IndicesOf
<1>4. \A k \in 1 .. Len(s) : \A u \in Tables : AddBone(i, u, s[k]) \in Tables
  BY <1>3, BoneAddedTyped
<1> QED BY <1>2, <1>3, <1>4, BoneFold

\* BuildGlobalBonetable builds a table.
LEMMA TableBuilt ==
  ASSUME IsProject(project), FlagsTyped
  PROVE  Fold(AddSource, TagImported(Fold(AddImport, <<>>, project.definebone)),
              Indices(project.sources)) \in Tables
<1> DEFINE ImportRecord == [name : STRING, parent : STRING \cup {None}]
<1>1. project.definebone \in Seq(ImportRecord)
  BY DEF IsProject
<1>2. <<>> \in Tables
  <2>1. <<>> \in Seq(Bone) /\ DOMAIN <<>> = {}
    OBVIOUS
  <2> QED BY <2>1 DEF Tables
<1>3. PICK t : t = Fold(AddImport, <<>>, project.definebone)
  OBVIOUS
<1>4. t \in Tables
  <2>1. PICK s : s = project.definebone
    OBVIOUS
  <2>2. Len(s) \in Nat /\ \A k \in 1 .. Len(s) : s[k] \in ImportRecord
    <3> HIDE DEF ImportRecord
    <3> QED BY <1>1, <2>1
  <2>3. \A k \in 1 .. Len(s) : \A u \in Tables : AddImport(u, s[k]) \in Tables
    BY <2>2, ImportTyped
  <2>4. Fold(AddImport, <<>>, s) \in Tables
    BY <1>2, <2>2, <2>3, ImportFold
  <2> QED BY <1>3, <2>1, <2>4
<1>5. TagImported(t) \in Tables
  <2> DEFINE F == [i \in DOMAIN t |-> IF t[i].name \in project.bonemerge THEN {"merge"} ELSE {}]
  <2>1. \A i \in DOMAIN t : F[i] \subseteq AllFlags
    BY DEF AllFlags
  <2>2. TagImported(t) = Retagged(t, F)
    BY DEF TagImported, Retagged
  <2> HIDE DEF F
  <2> QED BY <1>4, <2>1, <2>2, FlagsAdded
<1>6. PICK s : s = Indices(project.sources)
  OBVIOUS
<1>7. Len(s) \in Nat /\ \A k \in 1 .. Len(s) : s[k] \in DOMAIN project.sources
  <2>1. Len(project.sources) \in Nat /\ DOMAIN project.sources = 1 .. Len(project.sources)
    BY DEF IsProject
  <2> QED BY <1>6, <2>1, IndicesOf
<1>8. \A k \in 1 .. Len(s) : \A u \in Tables : AddSource(u, s[k]) \in Tables
  BY <1>7, SourceAddedTyped
<1>9. PICK u \in Tables : u = TagImported(t)
  BY <1>5
<1>10. Fold(AddSource, u, s) \in Tables
  BY <1>7, <1>8, SourceFold
<1> QED BY <1>3, <1>6, <1>9, <1>10

\* A $hierarchy whose bones are known forces one parent.
LEMMA ForceTyped ==
  ASSUME NEW t \in Tables, NEW h
  PROVE  ForceParent(t, h) \in Tables
<1>1. Len(t) \in Nat /\ DOMAIN t = 1 .. Len(t) /\ \A i \in DOMAIN t : t[i] \in Bone /\ t[i].parent \in 0 .. Len(t)
  BY TableShape
<1> DEFINE k == Find(t, h.child)
           p == IF h.parent = None THEN 0 ELSE Find(t, h.parent)
           b == [t[k] EXCEPT !.parent = p]
<1>2. p \in 0 .. Len(t)
  BY <1>1, FindFacts
<1>3. ForceParent(t, h) = [t EXCEPT ![k] = b]
  BY DEF ForceParent
<1>4. CASE k \in DOMAIN t
  <2>1. b \in Bone /\ b.parent <= Len(t)
    <3>1. t[k] \in Bone
      BY <1>1, <1>4
    <3> HIDE DEF k, p
    <3> QED BY <1>1, <1>2, <3>1 DEF Bone
  <2> HIDE DEF b, k
  <2> QED BY <1>3, <1>4, <2>1, TablePut
<1>5. CASE k \notin DOMAIN t
  <2>1. [t EXCEPT ![k] = b] = t
    <3>1. t \in Seq(Bone)
      BY DEF Tables
    <3> HIDE DEF k, b
    <3> QED BY <1>5, <3>1
  <2> QED BY <1>3, <2>1
<1> QED BY <1>4, <1>5

\* ForceHierarchy leaves a table, or says that a bone is unknown.
LEMMA TableForced ==
  ASSUME NEW t \in Tables, IsProject(project)
  PROVE  Fold(ForceParent, t, project.hierarchy) \in Tables
<1>1. PICK s : s = project.hierarchy
  OBVIOUS
<1>2. Len(s) \in Nat
  <2> DEFINE Pair == [child : STRING, parent : STRING \cup {None}]
  <2>1. s \in Seq(Pair)
    BY <1>1 DEF IsProject
  <2> HIDE DEF Pair
  <2> QED BY <2>1
<1>3. \A k \in 1 .. Len(s) : \A u \in Tables : ForceParent(u, s[k]) \in Tables
  BY ForceTyped
<1> QED BY <1>1, <1>2, <1>3, ForceFold

\* A bone and its parent change places within the table.
LEMMA SwapTyped ==
  ASSUME NEW t \in Tables, NEW i \in DOMAIN t, t[i].parent # 0
  PROVE  Swap(t, i) \in Tables
<1>1. Len(t) \in Nat /\ DOMAIN t = 1 .. Len(t) /\ \A k \in DOMAIN t : t[k] \in Bone /\ t[k].parent \in 0 .. Len(t)
  BY TableShape
<1> DEFINE j == t[i].parent
           s == [k \in DOMAIN t |-> t[Relink(k, i, j)]]
           u == [k \in DOMAIN t |->
                   IF k < i THEN s[k] ELSE [s[k] EXCEPT !.parent = Relink(@, i, j)]]
<1>2. j \in DOMAIN t
  BY <1>1
<1>3. \A k \in 0 .. Len(t) : Relink(k, i, j) \in 0 .. Len(t) /\ (k # 0 => Relink(k, i, j) # 0)
  <2> HIDE DEF j
  <2> QED BY <1>1, <1>2 DEF Relink
<1>4. ASSUME NEW k \in DOMAIN t
      PROVE  u[k] \in Bone /\ u[k].parent <= Len(t)
  <2>1. Relink(k, i, j) \in DOMAIN t
    BY <1>1, <1>3
  <2>2. PICK b \in Bone : b = s[k] /\ b.parent \in 0 .. Len(t)
    BY <1>1, <2>1
  <2>3. Relink(b.parent, i, j) \in 0 .. Len(t)
    BY <1>3, <2>2
  <2>4. u[k] = IF k < i THEN b ELSE [b EXCEPT !.parent = Relink(b.parent, i, j)]
    BY <2>2
  <2> HIDE DEF u, s, j
  <2>5. CASE k < i
    BY <1>1, <2>2, <2>4, <2>5
  <2>6. CASE ~(k < i)
    <3>1. u[k] = [b EXCEPT !.parent = Relink(b.parent, i, j)]
      BY <2>4, <2>6
    <3> QED BY <1>1, <2>2, <2>3, <3>1 DEF Bone
  <2> QED BY <2>5, <2>6
<1>5. Swap(t, i) = u
  BY DEF Swap
<1>6. u = [k \in 1 .. Len(t) |-> u[k]]
  BY <1>1
<1> HIDE DEF u
<1> QED BY <1>1, <1>4, <1>5, <1>6, TablesIf

\* A sequence with one element taken out, and with one put in.
LEMMA RemovedAt ==
  ASSUME NEW S, NEW s \in Seq(S), NEW k \in DOMAIN s
  PROVE  /\ RemoveAt(s, k) \in Seq(S) /\ Len(RemoveAt(s, k)) = Len(s) - 1
         /\ \A i \in DOMAIN RemoveAt(s, k) : RemoveAt(s, k)[i] = IF i < k THEN s[i] ELSE s[i + 1]
<1> DEFINE a == SubSeq(s, 1, k - 1)
           b == SubSeq(s, k + 1, Len(s))
<1>1. Len(s) \in Nat /\ k \in 1 .. Len(s)
  OBVIOUS
<1>2. a \in Seq(S) /\ Len(a) = k - 1 /\ \A i \in 1 .. k - 1 : a[i] = s[i]
  BY <1>1
<1>3. b \in Seq(S) /\ Len(b) = Len(s) - k /\ \A i \in 1 .. Len(s) - k : b[i] = s[i + k]
  BY <1>1
<1>4. RemoveAt(s, k) = a \o b
  BY DEF RemoveAt
<1> HIDE DEF a, b
<1>5. a \o b \in Seq(S) /\ Len(a \o b) = Len(s) - 1
  BY <1>1, <1>2, <1>3
<1>6. ASSUME NEW i \in 1 .. Len(s) - 1
      PROVE  (a \o b)[i] = IF i < k THEN s[i] ELSE s[i + 1]
  <2>0. (a \o b)[i] = IF i <= k - 1 THEN a[i] ELSE b[i - (k - 1)]
    <3>1. \A x \in 1 .. Len(a) + Len(b) : (a \o b)[x] = IF x <= Len(a) THEN a[x] ELSE b[x - Len(a)]
      BY <1>2, <1>3, ConcatProperties
    <3>2. i \in 1 .. Len(a) + Len(b)
      BY <1>1, <1>2, <1>3
    <3> QED BY <1>2, <3>1, <3>2
  <2>1. CASE i < k
    <3>1. i <= k - 1 /\ i \in 1 .. k - 1
      BY <1>1, <2>1
    <3> QED BY <1>2, <2>0, <2>1, <3>1
  <2>2. CASE ~(i < k)
    <3>1. (a \o b)[i] = b[i - (k - 1)]
      <4>1. ~(i <= k - 1)
        BY <1>1, <2>2
      <4> QED BY <2>0, <4>1
    <3>2. i - (k - 1) \in 1 .. Len(s) - k /\ i - (k - 1) + k = i + 1
      BY <1>1, <2>2
    <3>3. b[i - (k - 1)] = s[i + 1]
      BY <1>3, <3>2
    <3> QED BY <2>2, <3>1, <3>3
  <2> QED BY <2>1, <2>2
<1>7. DOMAIN (a \o b) = 1 .. Len(s) - 1
  BY <1>5
<1> QED BY <1>4, <1>5, <1>6, <1>7

\* What InsertAt makes of a sequence, place by place.
LEMMA InsertedAt ==
  ASSUME NEW S, NEW s \in Seq(S), NEW k \in 1 .. Len(s) + 1, NEW e \in S
  PROVE  /\ InsertAt(s, k, e) \in Seq(S) /\ Len(InsertAt(s, k, e)) = Len(s) + 1
         /\ \A i \in 1 .. Len(s) + 1 :
              InsertAt(s, k, e)[i] = IF i < k THEN s[i] ELSE IF i = k THEN e ELSE s[i - 1]
<1>0. PICK a, b, m : a = SubSeq(s, 1, k - 1) /\ b = SubSeq(s, k, Len(s)) /\ m = <<e>>
  OBVIOUS
<1>1. Len(s) \in Nat
  OBVIOUS
<1>2. a \in Seq(S) /\ Len(a) = k - 1 /\ \A i \in 1 .. k - 1 : a[i] = s[i]
  BY <1>0, <1>1
<1>3. b \in Seq(S) /\ Len(b) = Len(s) + 1 - k /\ \A i \in 1 .. Len(s) + 1 - k : b[i] = s[i + k - 1]
  BY <1>0, <1>1
<1>4. m \in Seq(S) /\ Len(m) = 1 /\ m[1] = e
  BY <1>0
<1>5. InsertAt(s, k, e) = (a \o m) \o b
  BY <1>0 DEF InsertAt
<1>6. PICK c : c = a \o m
  OBVIOUS
<1>7. c \in Seq(S) /\ Len(c) = k /\ \A i \in 1 .. k : c[i] = IF i < k THEN s[i] ELSE e
  <2>1. a \o m \in Seq(S)
    BY <1>2, <1>4, ConcatProperties
  <2>2. Len(a \o m) = Len(a) + Len(m)
    BY <1>2, <1>4, ConcatProperties
  <2>3. \A i \in 1 .. Len(a) + Len(m) : (a \o m)[i] = IF i <= Len(a) THEN a[i] ELSE m[i - Len(a)]
    BY <1>2, <1>4, ConcatProperties
  <2>4. k - (k - 1) = 1
    BY <1>1
  <2>5. ASSUME NEW i \in 1 .. k
        PROVE  (a \o m)[i] = IF i < k THEN s[i] ELSE e
    <3>0. i \in 1 .. Len(a) + Len(m)
      BY <1>1, <1>2, <1>4
    <3>1. (a \o m)[i] = IF i <= k - 1 THEN a[i] ELSE m[i - (k - 1)]
      BY <1>2, <2>3, <3>0
    <3>2. CASE i < k
      <4>1. i \in 1 .. k - 1 /\ i <= k - 1
        BY <1>1, <3>2
      <4>2. (a \o m)[i] = a[i]
        BY <3>1, <4>1
      <4> QED BY <1>2, <3>2, <4>1, <4>2
    <3>3. CASE i = k
      <4>1. ~(i <= k - 1) /\ i - (k - 1) = 1
        BY <1>1, <3>3
      <4> QED BY <1>4, <3>1, <3>3, <4>1
    <3>4. i < k \/ i = k
      BY <1>1
    <3> QED BY <3>2, <3>3, <3>4
  <2> QED BY <1>1, <1>2, <1>4, <1>6, <2>1, <2>2, <2>5
<1>8. c \o b \in Seq(S) /\ Len(c \o b) = Len(s) + 1
  <2>1. c \o b \in Seq(S) /\ Len(c \o b) = Len(c) + Len(b)
    BY <1>3, <1>7, ConcatProperties
  <2> QED BY <1>1, <1>3, <1>7, <2>1
<1>9. ASSUME NEW i \in 1 .. Len(s) + 1
      PROVE  (c \o b)[i] = IF i < k THEN s[i] ELSE IF i = k THEN e ELSE s[i - 1]
  <2>1. CASE i <= k
    <3>1. (c \o b)[i] = c[i] /\ i \in 1 .. k
      <4>1. i \in 1 .. Len(c) + Len(b)
        BY <1>1, <1>3, <1>7
      <4>2. (c \o b)[i] = IF i <= Len(c) THEN c[i] ELSE b[i - Len(c)]
        BY <1>3, <1>7, <4>1, ConcatProperties
      <4> QED BY <1>1, <1>7, <2>1, <4>2
    <3>2. c[i] = IF i < k THEN s[i] ELSE e
      BY <1>7, <3>1
    <3>3. CASE i < k
      BY <3>1, <3>2, <3>3
    <3>4. CASE i = k
      BY <1>1, <3>1, <3>2, <3>4
    <3>5. i < k \/ i = k
      BY <1>1, <2>1
    <3> QED BY <3>3, <3>4, <3>5
  <2>2. CASE i > k
    <3>1. (c \o b)[i] = b[i - k]
      <4>1. i \in 1 .. Len(c) + Len(b)
        BY <1>1, <1>3, <1>7
      <4>2. (c \o b)[i] = IF i <= Len(c) THEN c[i] ELSE b[i - Len(c)]
        BY <1>3, <1>7, <4>1, ConcatProperties
      <4> QED BY <1>1, <1>7, <2>2, <4>2
    <3>2. i - k \in 1 .. Len(s) + 1 - k /\ (i - k) + k - 1 = i - 1
      BY <1>1, <2>2
    <3>3. b[i - k] = s[i - 1]
      BY <1>3, <3>2
    <3>4. ~(i < k) /\ i # k
      BY <1>1, <2>2
    <3> QED BY <3>1, <3>3, <3>4
  <2>3. i <= k \/ i > k
    BY <1>1
  <2> QED BY <2>1, <2>2, <2>3
<1> QED BY <1>5, <1>6, <1>8, <1>9

\* A bone is removed, and parents still come first.
LEMMA BoneRemoved ==
  ASSUME table \in Tables, ParentsFirst(table), NEW k \in DOMAIN table
  PROVE  RemoveBone(k) \in Tables /\ ParentsFirst(RemoveBone(k))
<1>1. /\ Len(table) \in Nat /\ DOMAIN table = 1 .. Len(table) /\ table \in Seq(Bone)
      /\ \A i \in DOMAIN table : table[i] \in Bone /\ table[i].parent \in Nat /\ table[i].parent < i
  BY TableShape DEF ParentsFirst, Tables
<1>2. PICK n \in Nat : n = Len(table) - 1
  <2>1. Len(table) - 1 \in Nat
    BY <1>1
  <2> QED BY <2>1
<1>3. PICK s : s = RemoveAt(table, k)
  OBVIOUS
<1>4. /\ Len(s) = n /\ s \in Seq(Bone)
      /\ \A i \in DOMAIN s : s[i] = IF i < k THEN table[i] ELSE table[i + 1]
  BY <1>1, <1>2, <1>3, RemovedAt
<1>5. DOMAIN s = 1 .. n
  BY <1>4
<1>6. PICK u : u = [i \in 1 .. n |-> [s[i] EXCEPT !.parent =
                     IF @ = k THEN table[k].parent ELSE IF @ > k THEN @ - 1 ELSE @]]
  OBVIOUS
<1>7. RemoveBone(k) = u
  BY <1>3, <1>5, <1>6 DEF RemoveBone
<1>8. ASSUME NEW i \in 1 .. n
      PROVE  u[i] \in Bone /\ u[i].parent < i
  <2>1. PICK b \in Bone : b = s[i]
    BY <1>4, <1>5
  <2>2. PICK m \in DOMAIN table : b = table[m] /\ m = IF i < k THEN i ELSE i + 1
    BY <1>1, <1>2, <1>4, <1>5, <2>1
  <2>3. PICK p \in Nat : p = b.parent
    BY <1>1, <2>2
  <2>4. PICK q \in Nat : q = table[k].parent
    BY <1>1
  <2>5. p < m /\ q < k /\ k \in 1 .. n + 1 /\ m \in 1 .. n + 1
    BY <1>1, <1>2, <2>2, <2>3, <2>4
  <2>6. PICK r : r = IF p = k THEN q ELSE IF p > k THEN p - 1 ELSE p
    OBVIOUS
  <2>7. r \in Nat /\ r < i
    BY <2>2, <2>5, <2>6
  <2>8. u[i] = [b EXCEPT !.parent = r]
    BY <1>6, <2>1, <2>3, <2>4, <2>6
  <2> QED BY <2>1, <2>7, <2>8 DEF Bone
<1>9. u = [i \in 1 .. n |-> u[i]] /\ DOMAIN u = 1 .. n
  BY <1>6
<1>10. \A i \in 1 .. n : u[i] \in Bone /\ u[i].parent \in Nat /\ u[i].parent < i /\ u[i].parent <= n
  <2>1. \A b \in Bone : b.parent \in Nat
    BY DEF Bone
  <2> QED BY <1>8, <2>1
<1>11. u \in Tables /\ Len(u) = n
  BY <1>9, <1>10, TablesIf
<1> QED BY <1>7, <1>9, <1>10, <1>11 DEF ParentsFirst

-----------------------------------------------------------------------------
(* The weights of a vertex *)

\* The weights of a vertex, in the order they are kept.
Weights == Seq(Influence)

\* Weights are on numbered bones and are natural numbers.
LEMMA WeightsShape ==
  ASSUME NEW w \in Weights
  PROVE  /\ Len(w) \in Nat /\ DOMAIN w = 1 .. Len(w)
         /\ \A k \in 1 .. Len(w) : w[k] \in Influence /\ w[k].bone \in Nat /\ w[k].weight \in Nat
<1>1. Len(w) \in Nat /\ DOMAIN w = 1 .. Len(w) /\ \A k \in 1 .. Len(w) : w[k] \in Influence
  BY DEF Weights
<1>2. \A x \in Influence : x.bone \in Nat /\ x.weight \in Nat
  BY DEF Influence
<1> QED BY <1>1, <1>2

\* g sums up the weights from the first.
SumOn(w, g) ==
  /\ g \in [0 .. Len(w) -> Nat] /\ g[0] = 0
  /\ \A k \in 1 .. Len(w) : g[k] = g[k - 1] + w[k].weight

\* The sum that Total describes exists.
LEMMA SumExists ==
  ASSUME NEW w \in Weights
  PROVE  \E g : SumOn(w, g)
<1>1. Len(w) \in Nat /\ \A k \in 1 .. Len(w) : w[k].weight \in Nat
  BY WeightsShape
<1> DEFINE n == Len(w)
           D == [k \in 1 .. n |-> [x \in Nat |-> x + w[k].weight]]
<1>2. \A k \in 1 .. n : \A x \in Nat : D[k][x] = x + w[k].weight /\ D[k][x] \in Nat
  BY <1>1
<1>3. StepWithin(D, Nat, n)
  BY <1>2 DEF StepWithin
<1>4. PICK g : RecursiveOn(g, 0, D, Nat, n)
  <2> HIDE DEF D, n
  <2>1. n \in Nat
    BY <1>1 DEF n
  <2> QED BY <1>3, <2>1, PrimitiveRecursion
<1>5. g \in [0 .. n -> Nat] /\ g[0] = 0 /\ \A k \in 1 .. n : g[k] = D[k][g[k - 1]]
  <2> HIDE DEF D, n
  <2> QED BY <1>4 DEF RecursiveOn
<1>6. ASSUME NEW k \in 1 .. n
      PROVE  g[k] = g[k - 1] + w[k].weight
  <2>1. k - 1 \in 0 .. n
    BY <1>1
  <2>2. g[k - 1] \in Nat
    BY <1>5, <2>1
  <2> HIDE DEF D
  <2> QED BY <1>2, <1>5, <2>2
<1> QED BY <1>5, <1>6 DEF SumOn

\* The sum is the one Total speaks of.
LEMMA TotalIs ==
  ASSUME NEW w \in Weights, NEW g, SumOn(w, g)
  PROVE  Total(w) = g[Len(w)] /\ Total(w) \in Nat
<1>1. Len(w) \in Nat /\ \A k \in 1 .. Len(w) : w[k].weight \in Nat
  BY WeightsShape
<1> DEFINE n == Len(w)
           Step(h) == [k \in 0 .. n |-> IF k = 0 THEN 0 ELSE h[k - 1] + w[k].weight]
           sum == CHOOSE h : h = Step(h)
<1>2. g \in [0 .. n -> Nat] /\ g[0] = 0 /\ \A k \in 1 .. n : g[k] = g[k - 1] + w[k].weight
  BY DEF SumOn
<1>3. g = Step(g)
  <2>1. \A k \in 0 .. n : g[k] = Step(g)[k]
    <3>1. \A k \in 0 .. n : k # 0 => k \in 1 .. n
      BY <1>1
    <3> QED BY <1>2, <3>1
  <2>2. g = [k \in 0 .. n |-> g[k]]
    BY <1>2
  <2> QED BY <2>1, <2>2
<1>4. sum = Step(sum)
  <2> HIDE DEF Step
  <2> QED BY <1>3
<1>5. Total(w) = sum[n]
  BY DEF Total
<1> HIDE DEF sum
<1>6. sum[0] = 0 /\ \A k \in 1 .. n : sum[k] = sum[k - 1] + w[k].weight
  <2>1. \A k \in 0 .. n : sum[k] = IF k = 0 THEN 0 ELSE sum[k - 1] + w[k].weight
    BY <1>4
  <2>2. 0 \in 0 .. n /\ \A k \in 1 .. n : k # 0 /\ k \in 0 .. n
    BY <1>1
  <2> QED BY <2>1, <2>2
<1> DEFINE Ok == {k \in Nat : k <= n => sum[k] = g[k]}
<1>7. 0 \in Ok
  BY <1>2, <1>6
<1>8. ASSUME NEW k \in Nat, k \in Ok
      PROVE  k + 1 \in Ok
  <2> SUFFICES ASSUME k + 1 <= n
               PROVE  sum[k + 1] = g[k + 1]
    OBVIOUS
  <2>1. k + 1 \in 1 .. n /\ (k + 1) - 1 = k /\ sum[k] = g[k]
    BY <1>1, <1>8
  <2> QED BY <1>2, <1>6, <2>1
<1>9. Nat \subseteq Ok
  <2> HIDE DEF Ok
  <2> QED BY <1>7, <1>8, NaturalsUpward
<1>10. n \in Nat /\ n \in 0 .. n
  BY <1>1
<1>11. sum[n] = g[n]
  BY <1>9, <1>10
<1>12. g[n] \in Nat
  BY <1>2, <1>10
<1> QED BY <1>5, <1>11, <1>12

\* Adding d at m and everything behind it.
LEMMA TotalGrows ==
  ASSUME NEW w \in Weights, NEW u \in Weights, NEW m \in 1 .. Len(w), NEW d \in Nat,
         Len(u) = Len(w), u[m].weight = w[m].weight + d,
         \A k \in 1 .. Len(w) : k # m => u[k].weight = w[k].weight
  PROVE  Total(u) = Total(w) + d
<1>1. Len(w) \in Nat /\ \A k \in 1 .. Len(w) : w[k].weight \in Nat /\ u[k].weight \in Nat
  BY WeightsShape
<1>2. PICK g : SumOn(w, g)
  BY SumExists
<1>3. g \in [0 .. Len(w) -> Nat] /\ g[0] = 0 /\ \A k \in 1 .. Len(w) : g[k] = g[k - 1] + w[k].weight
  BY <1>2 DEF SumOn
<1>4. PICK h : h = [k \in 0 .. Len(w) |-> IF k < m THEN g[k] ELSE g[k] + d]
  OBVIOUS
<1>5. h \in [0 .. Len(w) -> Nat] /\ h[0] = 0
  BY <1>1, <1>3, <1>4
<1>6. ASSUME NEW k \in 1 .. Len(w)
      PROVE  h[k] = h[k - 1] + u[k].weight
  <2>1. k - 1 \in 0 .. Len(w) /\ k \in 0 .. Len(w)
    BY <1>1
  <2>2. /\ h[k] = IF k < m THEN g[k] ELSE g[k] + d
        /\ h[k - 1] = IF k - 1 < m THEN g[k - 1] ELSE g[k - 1] + d
        /\ g[k] = g[k - 1] + w[k].weight /\ g[k - 1] \in Nat /\ w[k].weight \in Nat
    BY <1>1, <1>3, <1>4, <2>1
  <2>3. CASE k < m
    <3>1. k - 1 < m /\ u[k].weight = w[k].weight
      BY <1>1, <2>3
    <3> QED BY <2>2, <2>3, <3>1
  <2>4. CASE k = m
    <3>1. k - 1 < m /\ ~(k < m) /\ u[k].weight = w[k].weight + d
      BY <1>1, <2>4
    <3>2. h[k] = g[k - 1] + w[k].weight + d /\ h[k - 1] = g[k - 1]
      BY <2>2, <3>1
    <3> QED BY <1>1, <2>2, <3>1, <3>2
  <2>5. CASE k > m
    <3>1. ~(k - 1 < m) /\ ~(k < m) /\ u[k].weight = w[k].weight
      BY <1>1, <2>5
    <3>2. h[k] = g[k - 1] + w[k].weight + d /\ h[k - 1] = g[k - 1] + d
      BY <2>2, <3>1
    <3> QED BY <1>1, <2>2, <3>1, <3>2
  <2>6. k < m \/ k = m \/ k > m
    BY <1>1
  <2> QED BY <2>3, <2>4, <2>5, <2>6
<1>7. SumOn(u, h)
  BY <1>5, <1>6 DEF SumOn
<1>8. h[Len(w)] = g[Len(w)] + d
  BY <1>1, <1>4
<1> QED BY <1>2, <1>7, <1>8, TotalIs

\* One more weight, wherever it is put.
LEMMA TotalInserted ==
  ASSUME NEW w \in Weights, NEW u \in Weights, NEW m \in 1 .. Len(w) + 1, NEW x \in Influence,
         Len(u) = Len(w) + 1,
         \A k \in 1 .. Len(w) + 1 : u[k] = IF k < m THEN w[k] ELSE IF k = m THEN x ELSE w[k - 1]
  PROVE  Total(u) = Total(w) + x.weight
<1>1. /\ Len(w) \in Nat /\ x.weight \in Nat
      /\ \A k \in 1 .. Len(w) : w[k].weight \in Nat
  BY WeightsShape DEF Influence
<1>2. PICK g : SumOn(w, g)
  BY SumExists
<1>3. g \in [0 .. Len(w) -> Nat] /\ g[0] = 0 /\ \A k \in 1 .. Len(w) : g[k] = g[k - 1] + w[k].weight
  BY <1>2 DEF SumOn
<1>4. PICK h : h = [k \in 0 .. Len(w) + 1 |-> IF k < m THEN g[k] ELSE g[k - 1] + x.weight]
  OBVIOUS
<1>5. h \in [0 .. Len(w) + 1 -> Nat] /\ h[0] = 0
  <2>1. ASSUME NEW k \in 0 .. Len(w) + 1
        PROVE  h[k] \in Nat
    <3>1. CASE k < m
      <4>1. k \in 0 .. Len(w)
        BY <1>1, <3>1
      <4>2. h[k] = g[k]
        BY <1>4, <3>1
      <4> QED BY <1>3, <4>1, <4>2
    <3>2. CASE ~(k < m)
      <4>1. k - 1 \in 0 .. Len(w)
        BY <1>1, <3>2
      <4>2. h[k] = g[k - 1] + x.weight
        BY <1>4, <3>2
      <4>3. g[k - 1] \in Nat
        BY <1>3, <4>1
      <4> QED BY <1>1, <4>2, <4>3
    <3> QED BY <3>1, <3>2
  <2> QED BY <1>1, <1>3, <1>4, <2>1
<1>6. ASSUME NEW k \in 1 .. Len(w) + 1
      PROVE  h[k] = h[k - 1] + u[k].weight
  <2>1. k - 1 \in 0 .. Len(w) + 1 /\ k \in 0 .. Len(w) + 1
    BY <1>1
  <2>2. /\ h[k] = IF k < m THEN g[k] ELSE g[k - 1] + x.weight
        /\ h[k - 1] = IF k - 1 < m THEN g[k - 1] ELSE g[(k - 1) - 1] + x.weight
    BY <1>4, <2>1
  <2>3. CASE k < m
    <3>1. k \in 1 .. Len(w) /\ k - 1 < m
      BY <1>1, <2>3
    <3>2. g[k] = g[k - 1] + w[k].weight /\ u[k] = w[k]
      BY <1>3, <2>3, <3>1
    <3> QED BY <2>2, <2>3, <3>1, <3>2
  <2>4. CASE k = m
    <3>1. k - 1 < m /\ ~(k < m)
      BY <1>1, <2>4
    <3>2. u[k] = x
      BY <2>4, <3>1
    <3> QED BY <2>2, <3>1, <3>2
  <2>5. CASE k > m
    <3>1. k - 1 \in 1 .. Len(w) /\ ~(k - 1 < m) /\ ~(k < m) /\ k # m
      BY <1>1, <2>5
    <3>2. g[k - 1] = g[(k - 1) - 1] + w[k - 1].weight /\ u[k] = w[k - 1]
      BY <1>3, <3>1
    <3>3. g[(k - 1) - 1] \in Nat /\ w[k - 1].weight \in Nat
      <4>1. (k - 1) - 1 \in 0 .. Len(w)
        BY <1>1, <3>1
      <4> QED BY <1>1, <1>3, <3>1, <4>1
    <3>4. /\ h[k] = g[k - 1] + x.weight
          /\ h[k - 1] = g[(k - 1) - 1] + x.weight
      BY <2>2, <3>1
    <3> QED BY <1>1, <3>2, <3>3, <3>4
  <2>6. k < m \/ k = m \/ k > m
    BY <1>1
  <2> QED BY <2>3, <2>4, <2>5, <2>6
<1>7. SumOn(u, h)
  BY <1>5, <1>6 DEF SumOn
<1>8. h[Len(w) + 1] = g[Len(w)] + x.weight
  <2>1. Len(w) + 1 \in 0 .. Len(w) + 1 /\ ~(Len(w) + 1 < m) /\ (Len(w) + 1) - 1 = Len(w)
    BY <1>1
  <2> QED BY <1>4, <2>1
<1> QED BY <1>2, <1>7, <1>8, TotalIs

\* Only the weights count, not their bones.
LEMMA TotalSame ==
  ASSUME NEW w \in Weights, NEW u \in Weights, Len(u) = Len(w),
         \A k \in 1 .. Len(w) : u[k].weight = w[k].weight
  PROVE  Total(u) = Total(w)
<1>1. PICK g : SumOn(w, g)
  BY SumExists
<1>2. SumOn(u, g)
  BY <1>1 DEF SumOn
<1> QED BY <1>1, <1>2, TotalIs

\* The total of nothing, and of one more.
LEMMA TotalSteps ==
  /\ <<>> \in Weights /\ Total(<<>>) = 0
  /\ \A w \in Weights : \A x \in Influence :
       Append(w, x) \in Weights /\ Total(Append(w, x)) = Total(w) + x.weight
<1>1. <<>> \in Weights /\ Len(<<>>) = 0
  BY EmptySeq DEF Weights
<1>2. Total(<<>>) = 0
  <2>1. PICK g : SumOn(<<>>, g)
    BY <1>1, SumExists
  <2>2. g[0] = 0
    BY <2>1 DEF SumOn
  <2> QED BY <1>1, <2>1, <2>2, TotalIs
<1>3. ASSUME NEW w \in Weights, NEW x \in Influence
      PROVE  Append(w, x) \in Weights /\ Total(Append(w, x)) = Total(w) + x.weight
  <2>1. Len(w) \in Nat
    BY WeightsShape
  <2>2. PICK u : u = Append(w, x)
    OBVIOUS
  <2>3. u \in Weights /\ Len(u) = Len(w) + 1 /\ \A k \in 1 .. Len(w) + 1 : u[k] = IF k < Len(w) + 1 THEN w[k] ELSE x
    BY <2>1, <2>2 DEF Weights
  <2>4. PICK m \in 1 .. Len(w) + 1 : m = Len(w) + 1
    BY <2>1
  <2>5. \A k \in 1 .. Len(w) + 1 : u[k] = IF k < m THEN w[k] ELSE IF k = m THEN x ELSE w[k - 1]
    BY <2>1, <2>3, <2>4
  <2>6. Total(u) = Total(w) + x.weight
    BY <2>3, <2>5, TotalInserted
  <2> QED BY <2>2, <2>3, <2>6
<1> QED BY <1>1, <1>2, <1>3

\* The bones a vertex has weights of.
BonesOf(w) == {w[k].bone : k \in DOMAIN w}

\* AddInfluence adds to the total what it adds, and no bone twice.
LEMMA InfluenceAdded ==
  ASSUME NEW w \in Weights, Distinct(w), NEW x \in Influence
  PROVE  /\ AddInfluence(w, x) \in Weights /\ Distinct(AddInfluence(w, x))
         /\ Total(AddInfluence(w, x)) = Total(w) + x.weight
         /\ BonesOf(AddInfluence(w, x)) = BonesOf(w) \cup {x.bone}
<1>1. /\ Len(w) \in Nat /\ DOMAIN w = 1 .. Len(w) /\ x.bone \in Nat /\ x.weight \in Nat
      /\ \A k \in 1 .. Len(w) : w[k] \in Influence /\ w[k].bone \in Nat /\ w[k].weight \in Nat
  BY WeightsShape DEF Influence
<1>2. CASE \E m \in DOMAIN w : w[m].bone = x.bone
  <2>1. PICK m \in 1 .. Len(w) : w[m].bone = x.bone
    BY <1>1, <1>2
  <2>2. \A k \in 1 .. Len(w) : w[k].bone = x.bone <=> k = m
    BY <1>1, <2>1 DEF Distinct
  <2>3. PICK u : u = [k \in 1 .. Len(w) |-> IF w[k].bone = x.bone
                        THEN [w[k] EXCEPT !.weight = @ + x.weight] ELSE w[k]]
    OBVIOUS
  <2>4. AddInfluence(w, x) = u
    BY <1>1, <1>2, <2>3 DEF AddInfluence
  <2>5. \A k \in 1 .. Len(w) :
          /\ u[k] \in Influence /\ u[k].bone = w[k].bone
          /\ u[k].weight = IF k = m THEN w[k].weight + x.weight ELSE w[k].weight
    BY <1>1, <2>2, <2>3 DEF Influence
  <2>6. u \in Weights /\ Len(u) = Len(w) /\ DOMAIN u = DOMAIN w
    <3>1. u \in [1 .. Len(w) -> Influence]
      BY <2>3, <2>5
    <3>2. u \in Seq(Influence) /\ Len(u) = Len(w)
      BY <1>1, <3>1
    <3> QED BY <1>1, <3>1, <3>2 DEF Weights
  <2>7. Total(u) = Total(w) + x.weight
    BY <1>1, <2>1, <2>5, <2>6, TotalGrows
  <2>8. Distinct(u)
    BY <1>1, <2>5, <2>6 DEF Distinct
  <2>9. BonesOf(u) = BonesOf(w) \cup {x.bone}
    <3>1. BonesOf(u) = BonesOf(w)
      BY <1>1, <2>5, <2>6 DEF BonesOf
    <3>2. x.bone \in BonesOf(w)
      BY <1>1, <2>1 DEF BonesOf
    <3> QED BY <3>1, <3>2
  <2> QED BY <2>4, <2>6, <2>7, <2>8, <2>9
<1>3. CASE ~(\E m \in DOMAIN w : w[m].bone = x.bone)
  <2>1. PICK u : u = Append(w, x)
    OBVIOUS
  <2>2. AddInfluence(w, x) = u
    BY <1>3, <2>1 DEF AddInfluence
  <2>3. u \in Weights /\ Total(u) = Total(w) + x.weight
    BY <2>1, TotalSteps
  <2>4. /\ Len(u) = Len(w) + 1 /\ DOMAIN u = 1 .. Len(w) + 1
        /\ \A k \in 1 .. Len(w) + 1 : u[k] = IF k \in 1 .. Len(w) THEN w[k] ELSE x
    BY <1>1, <2>1 DEF Weights
  <2>5. Distinct(u)
    <3> SUFFICES ASSUME NEW m \in 1 .. Len(w) + 1, NEW n \in 1 .. Len(w) + 1, u[m].bone = u[n].bone
                 PROVE  m = n
      BY <2>4 DEF Distinct
    <3>1. CASE m \in 1 .. Len(w) /\ n \in 1 .. Len(w)
      BY <1>1, <2>4, <3>1 DEF Distinct
    <3>2. CASE m \in 1 .. Len(w) /\ n \notin 1 .. Len(w)
      BY <1>1, <1>3, <2>4, <3>2
    <3>3. CASE m \notin 1 .. Len(w) /\ n \in 1 .. Len(w)
      BY <1>1, <1>3, <2>4, <3>3
    <3>4. CASE m \notin 1 .. Len(w) /\ n \notin 1 .. Len(w)
      BY <1>1, <3>4
    <3> QED BY <3>1, <3>2, <3>3, <3>4
  <2>6. BonesOf(u) = BonesOf(w) \cup {x.bone}
    <3>1. \A k \in DOMAIN w : k \in DOMAIN u /\ u[k] = w[k]
      BY <1>1, <2>4
    <3>2. Len(w) + 1 \in DOMAIN u /\ u[Len(w) + 1] = x
      BY <1>1, <2>4
    <3>3. \A k \in DOMAIN u : k \in DOMAIN w \/ u[k] = x
      BY <1>1, <2>4
    <3> QED BY <3>1, <3>2, <3>3 DEF BonesOf
  <2> QED BY <2>2, <2>3, <2>5, <2>6
<1> QED BY <1>2, <1>3

\* The weights of a vertex on their way into the table keep their sum and their
\* bones, and no bone is left with two.
LEMMA Gathered ==
  ASSUME NEW s \in Weights
  PROVE  LET r == Fold(AddInfluence, <<>>, s)
         IN  r \in Weights /\ Distinct(r) /\ Total(r) = Total(s) /\ BonesOf(r) \subseteq BonesOf(s)
<1> DEFINE T == {w \in Weights : Distinct(w)}
<1>1. Len(s) \in Nat /\ DOMAIN s = 1 .. Len(s) /\ \A k \in 1 .. Len(s) : s[k] \in Influence
  BY WeightsShape
<1>2. <<>> \in T
  BY TotalSteps DEF Distinct
<1>3. \A k \in 1 .. Len(s) : \A t \in T : AddInfluence(t, s[k]) \in T
  BY <1>1, InfluenceAdded
<1>4. PICK f \in [0 .. Len(s) -> T] :
        Influences(f, <<>>, s) /\ Fold(AddInfluence, <<>>, s) = f[Len(s)]
  <2> HIDE DEF T
  <2> QED BY <1>1, <1>2, <1>3, InfluenceFold
<1>5. PICK g : SumOn(s, g)
  BY SumExists
<1> DEFINE Ok == {k \in Nat : k <= Len(s) => Total(f[k]) = g[k] /\ BonesOf(f[k]) \subseteq BonesOf(s)}
<1>6. 0 \in Ok
  <2>1. f[0] = <<>> /\ g[0] = 0
    BY <1>4, <1>5 DEF Influences, SumOn
  <2>2. BonesOf(<<>>) = {}
    BY DEF BonesOf
  <2> QED BY <2>1, <2>2, TotalSteps
<1>7. ASSUME NEW k \in Nat, k \in Ok
      PROVE  k + 1 \in Ok
  <2> SUFFICES ASSUME k + 1 <= Len(s)
               PROVE  Total(f[k + 1]) = g[k + 1] /\ BonesOf(f[k + 1]) \subseteq BonesOf(s)
    OBVIOUS
  <2>1. k + 1 \in 1 .. Len(s) /\ (k + 1) - 1 = k /\ k \in 0 .. Len(s)
    BY <1>1
  <2>2. Total(f[k]) = g[k] /\ BonesOf(f[k]) \subseteq BonesOf(s)
    BY <1>7, <2>1
  <2>3. f[k + 1] = AddInfluence(f[k], s[k + 1]) /\ g[k + 1] = g[k] + s[k + 1].weight
    BY <1>4, <1>5, <2>1 DEF Influences, SumOn
  <2>4. f[k] \in Weights /\ Distinct(f[k]) /\ s[k + 1] \in Influence
    BY <1>1, <1>4, <2>1
  <2>5. s[k + 1].bone \in BonesOf(s)
    BY <1>1, <2>1 DEF BonesOf
  <2> QED BY <2>2, <2>3, <2>4, <2>5, InfluenceAdded
<1>8. Nat \subseteq Ok
  <2> HIDE DEF Ok
  <2> QED BY <1>6, <1>7, NaturalsUpward
<1>9. Len(s) \in 0 .. Len(s)
  BY <1>1
<1>10. Total(f[Len(s)]) = Total(s) /\ BonesOf(f[Len(s)]) \subseteq BonesOf(s)
  BY <1>1, <1>5, <1>8, TotalIs
<1> QED BY <1>4, <1>9, <1>10

\* The weights of a vertex are moved to other bones.
LEMMA MovedTo ==
  ASSUME NEW w \in Weights, NEW map, \A b \in BonesOf(w) : map[b] \in Nat
  PROVE  /\ Moved(w, map) \in Weights /\ Total(Moved(w, map)) = Total(w)
         /\ BonesOf(Moved(w, map)) = {map[b] : b \in BonesOf(w)}
<1>1. /\ Len(w) \in Nat /\ DOMAIN w = 1 .. Len(w)
      /\ \A k \in 1 .. Len(w) : w[k] \in Influence /\ w[k].bone \in Nat /\ w[k].weight \in Nat
  BY WeightsShape
<1>2. PICK u : u = Moved(w, map)
  OBVIOUS
<1>3. u = [k \in 1 .. Len(w) |-> [w[k] EXCEPT !.bone = map[@]]]
  BY <1>1, <1>2 DEF Moved
<1>4. \A k \in 1 .. Len(w) : map[w[k].bone] \in Nat
  BY <1>1 DEF BonesOf
<1>5. \A k \in 1 .. Len(w) :
        u[k] \in Influence /\ u[k].bone = map[w[k].bone] /\ u[k].weight = w[k].weight
  BY <1>1, <1>3, <1>4 DEF Influence
<1>6. u \in Weights /\ Len(u) = Len(w) /\ DOMAIN u = DOMAIN w
  <2>1. u \in [1 .. Len(w) -> Influence]
    BY <1>3, <1>5
  <2>2. u \in Seq(Influence) /\ Len(u) = Len(w)
    BY <1>1, <2>1
  <2> QED BY <1>1, <2>1, <2>2 DEF Weights
<1>7. Total(u) = Total(w)
  BY <1>5, <1>6, TotalSame
<1>8. BonesOf(u) = {map[b] : b \in BonesOf(w)}
  BY <1>1, <1>5, <1>6 DEF BonesOf
<1> QED BY <1>2, <1>6, <1>7, <1>8

\* The weights stand in the order of their bones.
Rising(w) == \A m, n \in 1 .. Len(w) : m < n => w[m].bone <= w[n].bone

\* InsertInfluence puts one weight in its place, by weight or by index.
LEMMA InfluenceInserted ==
  ASSUME NEW by, NEW w \in Weights, NEW x \in Influence
  PROVE  LET u == InsertInfluence(by, w, x)
         IN  /\ u \in Weights /\ Total(u) = Total(w) + x.weight
             /\ BonesOf(u) = BonesOf(w) \cup {x.bone}
             /\ Distinct(w) /\ x.bone \notin BonesOf(w) => Distinct(u)
             /\ by = "index" /\ Rising(w) => Rising(u)
<1>1. /\ Len(w) \in Nat /\ DOMAIN w = 1 .. Len(w) /\ x.bone \in Nat
      /\ \A k \in 1 .. Len(w) : w[k] \in Influence /\ w[k].bone \in Nat
  BY WeightsShape DEF Influence
<1> DEFINE before == {n \in DOMAIN w : SortKey(by, w[n]) <= SortKey(by, x)}
<1>2. PICK top : top = Max({0} \cup before)
  OBVIOUS
<1>3. top \in {0} \cup before /\ top \in Nat /\ \A n \in before : n <= top
  <2>1. {0} \cup before \subseteq Nat /\ {0} \cup before # {}
        /\ \A n \in {0} \cup before : n <= Len(w)
    BY <1>1
  <2> HIDE DEF before
  <2> QED BY <1>1, <1>2, <2>1, MaxOf
<1>4. PICK m : m = 1 + top
  OBVIOUS
<1>5. m \in 1 .. Len(w) + 1
  BY <1>1, <1>3, <1>4
<1>6. PICK u : u = InsertAt(w, m, x)
  OBVIOUS
<1>7. InsertInfluence(by, w, x) = u
  BY <1>2, <1>4, <1>6 DEF InsertInfluence
<1>8. /\ u \in Weights /\ Len(u) = Len(w) + 1
      /\ \A k \in 1 .. Len(w) + 1 : u[k] = IF k < m THEN w[k] ELSE IF k = m THEN x ELSE w[k - 1]
  <2>1. w \in Seq(Influence)
    BY DEF Weights
  <2>2. u \in Seq(Influence)
    BY <1>5, <1>6, <2>1, InsertedAt
  <2>3. /\ Len(u) = Len(w) + 1
        /\ \A k \in 1 .. Len(w) + 1 : u[k] = IF k < m THEN w[k] ELSE IF k = m THEN x ELSE w[k - 1]
    BY <1>5, <1>6, <2>1, InsertedAt
  <2> QED BY <2>2, <2>3 DEF Weights
<1>9. Total(u) = Total(w) + x.weight
  BY <1>5, <1>8, TotalInserted
<1>10. DOMAIN u = 1 .. Len(w) + 1
  BY <1>8, WeightsShape
<1>11. \A k \in 1 .. Len(w) + 1 :
         /\ k < m => k \in 1 .. Len(w) /\ u[k] = w[k]
         /\ k = m => u[k] = x
         /\ k > m => k - 1 \in 1 .. Len(w) /\ u[k] = w[k - 1]
  BY <1>1, <1>5, <1>8
<1>12. BonesOf(u) = BonesOf(w) \cup {x.bone}
  <2>1. ASSUME NEW k \in DOMAIN u
        PROVE  u[k].bone \in BonesOf(w) \cup {x.bone}
    <3>1. k < m \/ k = m \/ k > m
      BY <1>5, <1>10
    <3> QED BY <1>1, <1>10, <1>11, <3>1 DEF BonesOf
  <2>2. ASSUME NEW k \in DOMAIN w
        PROVE  \E n \in DOMAIN u : u[n].bone = w[k].bone
    <3>1. CASE k < m
      BY <1>1, <1>10, <1>11, <3>1
    <3>2. CASE ~(k < m)
      <4>1. k + 1 \in DOMAIN u /\ k + 1 > m /\ (k + 1) - 1 = k
        BY <1>1, <1>5, <1>10, <3>2
      <4>2. u[k + 1] = w[(k + 1) - 1]
        BY <1>10, <1>11, <4>1
      <4> QED BY <4>1, <4>2
    <3> QED BY <3>1, <3>2
  <2>3. m \in DOMAIN u /\ u[m].bone = x.bone
    BY <1>5, <1>10, <1>11
  <2> QED BY <2>1, <2>2, <2>3 DEF BonesOf
<1>13. ASSUME Distinct(w), x.bone \notin BonesOf(w)
       PROVE  Distinct(u)
  <2>1. \A k \in 1 .. Len(w) : w[k].bone # x.bone
    BY <1>1, <1>13 DEF BonesOf
  <2>2. \A i, k \in 1 .. Len(w) : w[i].bone = w[k].bone => i = k
    BY <1>1, <1>13 DEF Distinct
  <2> SUFFICES ASSUME NEW i \in 1 .. Len(w) + 1, NEW k \in 1 .. Len(w) + 1, u[i].bone = u[k].bone
               PROVE  i = k
    BY <1>10 DEF Distinct
  <2>3. (i < m \/ i = m \/ i > m) /\ (k < m \/ k = m \/ k > m)
    BY <1>5
  <2>4. ASSUME NEW q \in 1 .. Len(w) + 1, q # m
        PROVE  u[q].bone # x.bone
    <3>1. q < m \/ q > m
      BY <1>5, <2>4
    <3> QED BY <1>11, <2>1, <3>1
  <2>5. CASE i = m \/ k = m
    BY <1>11, <2>4, <2>5
  <2>6. CASE i < m /\ k < m
    BY <1>11, <2>2, <2>6
  <2>7. CASE i > m /\ k > m
    <3>1. i - 1 = k - 1
      BY <1>11, <2>2, <2>7
    <3> QED BY <3>1
  <2>8. CASE i < m /\ k > m
    <3>1. i = k - 1
      BY <1>11, <2>2, <2>8
    <3> QED BY <1>5, <2>8, <3>1
  <2>9. CASE i > m /\ k < m
    <3>1. i - 1 = k
      BY <1>11, <2>2, <2>9
    <3> QED BY <1>5, <2>9, <3>1
  <2> QED BY <2>3, <2>5, <2>6, <2>7, <2>8, <2>9
<1>14. ASSUME by = "index", Rising(w)
       PROVE  Rising(u)
  <2>1. \A k \in 1 .. Len(w) : k \in before <=> w[k].bone <= x.bone
    BY <1>1, <1>14 DEF SortKey
  <2>2. \A i, k \in 1 .. Len(w) : i <= k => w[i].bone <= w[k].bone
    <3>1. \A i, k \in 1 .. Len(w) : i <= k => i = k \/ i < k
      BY <1>1
    <3> QED BY <1>1, <1>14, <3>1 DEF Rising
  <2>3. \A k \in 1 .. Len(w) : k < m => w[k].bone <= x.bone
    <3> SUFFICES ASSUME NEW k \in 1 .. Len(w), k < m
                 PROVE  w[k].bone <= x.bone
      OBVIOUS
    <3> HIDE DEF before
    <3>1. top \in before /\ top \in 1 .. Len(w) /\ k <= top
      BY <1>3, <1>4, <1>5
    <3>2. w[top].bone <= x.bone /\ w[k].bone <= w[top].bone
      BY <2>1, <2>2, <3>1
    <3>3. w[k].bone \in Nat /\ w[top].bone \in Nat
      BY <1>1, <3>1
    <3> QED BY <1>1, <3>2, <3>3
  <2>4. \A k \in 1 .. Len(w) : ~(k < m) => x.bone <= w[k].bone
    <3> SUFFICES ASSUME NEW k \in 1 .. Len(w), ~(k < m)
                 PROVE  x.bone <= w[k].bone
      OBVIOUS
    <3> HIDE DEF before
    <3>0. top \in Nat
      BY <1>3
    <3>1. ~(k <= top)
      BY <1>4, <3>0
    <3>2. k \notin before
      BY <1>3, <3>1
    <3>3. ~(w[k].bone <= x.bone) /\ w[k].bone \in Nat
      BY <1>1, <2>1, <3>2
    <3> QED BY <1>1, <3>3
  <2> HIDE DEF before
  <2> SUFFICES ASSUME NEW i \in 1 .. Len(w) + 1, NEW k \in 1 .. Len(w) + 1, i < k
               PROVE  u[i].bone <= u[k].bone
    BY <1>8 DEF Rising
  <2>5. CASE k < m
    <3>1. i < m
      BY <1>5, <2>5
    <3> QED BY <1>1, <1>11, <2>2, <2>5, <3>1
  <2>6. CASE k = m
    BY <1>11, <2>3, <2>6
  <2>7. CASE k > m /\ i < m
    <3>1. i <= k - 1
      OBVIOUS
    <3> QED BY <1>11, <2>2, <2>7, <3>1
  <2>8. CASE k > m /\ i = m
    <3>1. ~(k - 1 < m)
      BY <1>5, <2>8
    <3> QED BY <1>11, <2>4, <2>8, <3>1
  <2>9. CASE k > m /\ i > m
    <3>1. i - 1 <= k - 1
      OBVIOUS
    <3> QED BY <1>11, <2>2, <2>9, <3>1
  <2>10. (k < m \/ k = m \/ k > m) /\ (i < m \/ i = m \/ i > m)
    BY <1>5
  <2> QED BY <2>5, <2>6, <2>7, <2>8, <2>9, <2>10
<1> QED BY <1>7, <1>8, <1>9, <1>12, <1>13, <1>14

\* Sorting keeps the sum and the bones, and by index it sorts.
LEMMA SortedBy ==
  ASSUME NEW by, NEW s \in Weights
  PROVE  LET r == SortBoneWeight(by, s)
         IN  /\ r \in Weights /\ Total(r) = Total(s) /\ BonesOf(r) = BonesOf(s)
             /\ Distinct(s) => Distinct(r)
             /\ by = "index" => Rising(r)
<1>1. /\ Len(s) \in Nat /\ DOMAIN s = 1 .. Len(s)
      /\ \A k \in 1 .. Len(s) : s[k] \in Influence /\ s[k].bone \in Nat
  BY WeightsShape
<1>2. <<>> \in Weights
  BY TotalSteps
<1>3. \A k \in 1 .. Len(s) : \A t \in Weights : InsertInfluence(by, t, s[k]) \in Weights
  BY <1>1, InfluenceInserted
<1>4. PICK f \in [0 .. Len(s) -> Weights] :
        SortSteps(f, <<>>, s, by) /\ SortBoneWeight(by, s) = f[Len(s)]
  <2>1. PICK b \in Weights : b = <<>>
    BY <1>2
  <2>2. PICK f \in [0 .. Len(s) -> Weights] :
          SortSteps(f, b, s, by) /\ (b = <<>> => SortBoneWeight(by, s) = f[Len(s)])
    BY <1>1, <1>3, SortFold
  <2> QED BY <2>1, <2>2
<1>5. PICK g : SumOn(s, g)
  BY SumExists
<1> DEFINE BonesUpTo(k) == {s[j].bone : j \in 1 .. k}
           Good(k) == /\ Total(f[k]) = g[k] /\ BonesOf(f[k]) = BonesUpTo(k)
                      /\ Distinct(s) => Distinct(f[k])
                      /\ by = "index" => Rising(f[k])
           Ok == {k \in Nat : k <= Len(s) => Good(k)}
<1>6. 0 \in Ok
  <2>1. f[0] = <<>> /\ g[0] = 0
    BY <1>4, <1>5 DEF SortSteps, SumOn
  <2>2. BonesOf(<<>>) = {} /\ Distinct(<<>>) /\ Rising(<<>>) /\ BonesUpTo(0) = {}
    BY DEF BonesOf, Distinct, Rising
  <2>3. Good(0)
    BY <2>1, <2>2, TotalSteps
  <2> HIDE DEF Good
  <2> QED BY <2>3
<1>7. ASSUME NEW k \in Nat, k \in Ok
      PROVE  k + 1 \in Ok
  <2> SUFFICES ASSUME k + 1 <= Len(s)
               PROVE  Good(k + 1)
    OBVIOUS
  <2>1. k + 1 \in 1 .. Len(s) /\ (k + 1) - 1 = k /\ k \in 0 .. Len(s)
    BY <1>1
  <2>2. Good(k)
    <3> HIDE DEF Good
    <3> QED BY <1>1, <1>7, <2>1
  <2>3. f[k + 1] = InsertInfluence(by, f[k], s[k + 1]) /\ g[k + 1] = g[k] + s[k + 1].weight
    BY <1>4, <1>5, <2>1 DEF SortSteps, SumOn
  <2>4. f[k] \in Weights /\ s[k + 1] \in Influence
    BY <1>1, <1>4, <2>1
  <2>5. PICK u : u = InsertInfluence(by, f[k], s[k + 1])
    OBVIOUS
  <2>6. /\ Total(u) = Total(f[k]) + s[k + 1].weight
        /\ BonesOf(u) = BonesOf(f[k]) \cup {s[k + 1].bone}
        /\ Distinct(f[k]) /\ s[k + 1].bone \notin BonesOf(f[k]) => Distinct(u)
        /\ by = "index" /\ Rising(f[k]) => Rising(u)
    BY <2>4, <2>5, InfluenceInserted
  <2>7. BonesUpTo(k + 1) = BonesUpTo(k) \cup {s[k + 1].bone}
    <3>1. 1 .. k + 1 = (1 .. k) \cup {k + 1}
      OBVIOUS
    <3> QED BY <3>1
  <2>8. Distinct(s) => s[k + 1].bone \notin BonesUpTo(k)
    <3> SUFFICES ASSUME Distinct(s), NEW j \in 1 .. k, s[k + 1].bone = s[j].bone
                 PROVE  FALSE
      OBVIOUS
    <3>1. j \in 1 .. Len(s) /\ j # k + 1
      BY <1>1, <2>1
    <3> QED BY <1>1, <2>1, <3>1 DEF Distinct
  <2> HIDE DEF BonesUpTo
  <2> QED BY <2>2, <2>3, <2>5, <2>6, <2>7, <2>8
<1>8. Nat \subseteq Ok
  <2> HIDE DEF Ok
  <2> QED BY <1>6, <1>7, NaturalsUpward
<1>9. Good(Len(s)) /\ Len(s) \in 0 .. Len(s)
  <2> HIDE DEF Good
  <2> QED BY <1>1, <1>8
<1>10. BonesUpTo(Len(s)) = BonesOf(s)
  BY <1>1 DEF BonesOf
<1>11. Total(s) = g[Len(s)]
  BY <1>5, TotalIs
<1> HIDE DEF BonesUpTo
<1> QED BY <1>4, <1>9, <1>10, <1>11

\* No two weights of a bone, and in the order of the bones.
Climbing(w) == \A m, n \in 1 .. Len(w) : m < n => w[m].bone < w[n].bone

\* Where indices climb no bone comes twice.
LEMMA ClimbingDistinct ==
  ASSUME NEW w \in Weights, Climbing(w)
  PROVE  Distinct(w)
<1>1. Len(w) \in Nat /\ DOMAIN w = 1 .. Len(w) /\ \A k \in 1 .. Len(w) : w[k].bone \in Nat
  BY WeightsShape
<1> SUFFICES ASSUME NEW m \in 1 .. Len(w), NEW n \in 1 .. Len(w), w[m].bone = w[n].bone, m # n
             PROVE  FALSE
  BY <1>1 DEF Distinct
<1>2. w[m].bone < w[n].bone \/ w[n].bone < w[m].bone
  <2>1. m < n \/ n < m
    OBVIOUS
  <2> QED BY <2>1 DEF Climbing
<1> QED BY <1>1, <1>2

\* Merging a weight of the same or a later bone keeps the indices climbing.
LEMMA NeighbourMerged ==
  ASSUME NEW w \in Weights, Climbing(w), NEW x \in Influence,
         w # <<>> => w[Len(w)].bone <= x.bone
  PROVE  LET u == MergeNeighbours(w, x)
         IN  /\ u \in Weights /\ Total(u) = Total(w) + x.weight
             /\ BonesOf(u) = BonesOf(w) \cup {x.bone}
             /\ Climbing(u) /\ u # <<>> /\ u[Len(u)].bone = x.bone
<1>1. /\ Len(w) \in Nat /\ DOMAIN w = 1 .. Len(w) /\ x.bone \in Nat /\ x.weight \in Nat
      /\ \A k \in 1 .. Len(w) : w[k] \in Influence /\ w[k].bone \in Nat /\ w[k].weight \in Nat
  BY WeightsShape DEF Influence
<1>2. w # <<>> => Len(w) \in 1 .. Len(w)
  <2>1. w \in Seq(Influence)
    BY DEF Weights
  <2> QED BY <1>1, <2>1
<1>3. CASE w # <<>> /\ w[Len(w)].bone = x.bone
  <2>1. PICK m \in 1 .. Len(w) : m = Len(w)
    BY <1>2, <1>3
  <2>2. PICK u : u = [w EXCEPT ![m].weight = @ + x.weight]
    OBVIOUS
  <2>3. MergeNeighbours(w, x) = u
    BY <1>3, <2>1, <2>2 DEF MergeNeighbours, Last
  <2>4. w \in [1 .. Len(w) -> Influence]
    <3>1. w \in Seq(Influence)
      BY DEF Weights
    <3> QED BY <3>1
  <2>5. u \in [1 .. Len(w) -> Influence]
        /\ \A k \in 1 .. Len(w) :
             /\ u[k].bone = w[k].bone
             /\ u[k].weight = IF k = m THEN w[k].weight + x.weight ELSE w[k].weight
    BY <1>1, <2>2, <2>4 DEF Influence
  <2>6. u \in Weights /\ Len(u) = Len(w) /\ DOMAIN u = DOMAIN w
    <3>0. Len(w) \in Nat /\ u \in [1 .. Len(w) -> Influence]
      BY <1>1, <2>5
    <3>1. u \in Seq(Influence) /\ Len(u) = Len(w)
      BY <3>0
    <3> QED BY <1>1, <2>5, <3>1 DEF Weights
  <2>7. Total(u) = Total(w) + x.weight
    BY <1>1, <2>5, <2>6, TotalGrows
  <2>8. Climbing(u)
    BY <2>5, <2>6 DEF Climbing
  <2>9. BonesOf(u) = BonesOf(w) \cup {x.bone}
    <3>1. BonesOf(u) = BonesOf(w)
      BY <1>1, <2>5, <2>6 DEF BonesOf
    <3>2. x.bone \in BonesOf(w)
      BY <1>1, <1>3, <2>1 DEF BonesOf
    <3> QED BY <3>1, <3>2
  <2>10. u # <<>> /\ u[Len(u)].bone = x.bone
    <3>1. Len(u) # 0
      BY <2>1, <2>6
    <3> QED BY <1>3, <2>1, <2>5, <2>6, <3>1, EmptySeq
  <2> QED BY <2>3, <2>6, <2>7, <2>8, <2>9, <2>10
<1>4. CASE ~(w # <<>> /\ w[Len(w)].bone = x.bone)
  <2>1. PICK u : u = Append(w, x)
    OBVIOUS
  <2>2. MergeNeighbours(w, x) = u
    BY <1>4, <2>1 DEF MergeNeighbours, Last
  <2>3. u \in Weights /\ Total(u) = Total(w) + x.weight
    BY <2>1, TotalSteps
  <2>4. /\ Len(u) = Len(w) + 1 /\ DOMAIN u = 1 .. Len(w) + 1 /\ u # <<>>
        /\ \A k \in 1 .. Len(w) + 1 : u[k] = IF k \in 1 .. Len(w) THEN w[k] ELSE x
    BY <1>1, <2>1 DEF Weights
  <2>5. \A k \in 1 .. Len(w) : w[k].bone < x.bone
    <3> SUFFICES ASSUME NEW k \in 1 .. Len(w)
                 PROVE  w[k].bone < x.bone
      OBVIOUS
    <3>1. w # <<>>
      BY EmptySeq
    <3>2. w[Len(w)].bone < x.bone /\ Len(w) \in 1 .. Len(w)
      BY <1>1, <1>2, <1>4, <3>1
    <3>3. Len(w) \in Nat
      BY <1>1
    <3>4. k = Len(w) \/ k < Len(w)
      BY <3>3
    <3>5. k < Len(w) => w[k].bone < w[Len(w)].bone
      BY <3>2 DEF Climbing
    <3>6. w[k].bone \in Nat /\ w[Len(w)].bone \in Nat /\ x.bone \in Nat
      BY <1>1, <3>2
    <3>7. CASE k = Len(w)
      BY <3>2, <3>7
    <3>8. CASE k < Len(w)
      BY <3>2, <3>5, <3>6, <3>8
    <3> QED BY <3>4, <3>7, <3>8
  <2>6. Climbing(u)
    <3> SUFFICES ASSUME NEW m \in 1 .. Len(w) + 1, NEW n \in 1 .. Len(w) + 1, m < n
                 PROVE  u[m].bone < u[n].bone
      BY <2>4 DEF Climbing
    <3>1. m \in 1 .. Len(w)
      BY <1>1
    <3>2. CASE n \in 1 .. Len(w)
      BY <2>4, <3>1, <3>2 DEF Climbing
    <3>3. CASE n \notin 1 .. Len(w)
      BY <2>4, <2>5, <3>1, <3>3
    <3> QED BY <3>2, <3>3
  <2>7. BonesOf(u) = BonesOf(w) \cup {x.bone}
    <3>1. \A k \in DOMAIN w : k \in DOMAIN u /\ u[k] = w[k]
      BY <1>1, <2>4
    <3>2. Len(w) + 1 \in DOMAIN u /\ u[Len(w) + 1] = x
      BY <1>1, <2>4
    <3>3. \A k \in DOMAIN u : k \in DOMAIN w \/ u[k] = x
      BY <1>1, <2>4
    <3> QED BY <3>1, <3>2, <3>3 DEF BonesOf
  <2>8. u[Len(u)].bone = x.bone
    BY <1>1, <2>4
  <2> QED BY <2>2, <2>3, <2>4, <2>6, <2>7, <2>8
<1> QED BY <1>3, <1>4

\* Where a bone has more than one weight they become one, and the sum stays.
LEMMA BonesCollapsed ==
  ASSUME NEW w \in Weights
  PROVE  LET r == CollapseBoneWeights(w)
         IN  r \in Weights /\ Distinct(r) /\ Total(r) = Total(w) /\ BonesOf(r) \subseteq BonesOf(w)
<1>1. PICK s : s = SortBoneWeight("index", w)
  OBVIOUS
<1>2. PICK by : by = "index"
  OBVIOUS
<1>3. s \in Weights /\ Total(s) = Total(w) /\ BonesOf(s) = BonesOf(w) /\ Rising(s)
  <2>1. s = SortBoneWeight(by, w)
    BY <1>1, <1>2
  <2> QED BY <1>2, <2>1, SortedBy
<1>4. /\ Len(s) \in Nat /\ DOMAIN s = 1 .. Len(s)
      /\ \A k \in 1 .. Len(s) : s[k] \in Influence /\ s[k].bone \in Nat
  BY <1>3, WeightsShape
<1>5. \A k \in 1 .. Len(s) : \A t \in Weights : MergeNeighbours(t, s[k]) \in Weights
  <2> SUFFICES ASSUME NEW k \in 1 .. Len(s), NEW t \in Weights
               PROVE  MergeNeighbours(t, s[k]) \in Weights
    OBVIOUS
  <2>1. PICK x \in Influence : x = s[k]
    BY <1>4
  <2>2. Len(t) \in Nat /\ t \in [1 .. Len(t) -> Influence] /\ t \in Seq(Influence)
    BY DEF Weights
  <2>3. Append(t, x) \in Weights
    BY TotalSteps
  <2>4. ASSUME t # <<>>
        PROVE  [t EXCEPT ![Len(t)].weight = @ + x.weight] \in Weights
    <3>1. PICK m \in 1 .. Len(t) : m = Len(t)
      <4>1. Len(t) \in Nat \ {0}
        BY <2>2, <2>4, EmptySeq
      <4> QED BY <4>1
    <3>2. t[m] \in Influence
      BY <2>2
    <3>3. [t[m] EXCEPT !.weight = @ + x.weight] \in Influence
      BY <3>2 DEF Influence
    <3>4. [t EXCEPT ![m].weight = @ + x.weight] = [t EXCEPT ![m] = [t[m] EXCEPT !.weight = @ + x.weight]]
      OBVIOUS
    <3>5. [t EXCEPT ![m] = [t[m] EXCEPT !.weight = @ + x.weight]] \in Seq(Influence)
      BY <2>2, <3>3, ExceptSeq
    <3> QED BY <3>1, <3>4, <3>5 DEF Weights
  <2> QED BY <2>1, <2>3, <2>4 DEF MergeNeighbours
<1>6. PICK f \in [0 .. Len(s) -> Weights] :
        Merges(f, <<>>, s) /\ Fold(MergeNeighbours, <<>>, s) = f[Len(s)]
  BY <1>4, <1>5, TotalSteps, MergeFold
<1>7. PICK g : SumOn(s, g)
  BY <1>3, SumExists
<1> DEFINE Good(k) == /\ Total(f[k]) = g[k] /\ BonesOf(f[k]) \subseteq BonesOf(s) /\ Climbing(f[k])
                      /\ k = 0 => f[k] = <<>>
                      /\ k # 0 => f[k] # <<>> /\ f[k][Len(f[k])].bone = s[k].bone
           Ok == {k \in Nat : k <= Len(s) => Good(k)}
<1>8. 0 \in Ok
  <2>1. f[0] = <<>> /\ g[0] = 0
    BY <1>6, <1>7 DEF Merges, SumOn
  <2>2. BonesOf(<<>>) = {} /\ Climbing(<<>>)
    BY DEF BonesOf, Climbing
  <2>3. Good(0)
    BY <2>1, <2>2, TotalSteps
  <2> HIDE DEF Good
  <2> QED BY <2>3
<1>9. ASSUME NEW k \in Nat, k \in Ok
      PROVE  k + 1 \in Ok
  <2> SUFFICES ASSUME k + 1 <= Len(s)
               PROVE  Good(k + 1)
    OBVIOUS
  <2>1. k + 1 \in 1 .. Len(s) /\ (k + 1) - 1 = k /\ k \in 0 .. Len(s) /\ k + 1 # 0
    BY <1>4
  <2>2. Good(k)
    <3> HIDE DEF Good
    <3> QED BY <1>4, <1>9, <2>1
  <2>3. f[k + 1] = MergeNeighbours(f[k], s[k + 1]) /\ g[k + 1] = g[k] + s[k + 1].weight
    BY <1>6, <1>7, <2>1 DEF Merges, SumOn
  <2>4. f[k] \in Weights /\ s[k + 1] \in Influence
    BY <1>4, <1>6, <2>1
  <2>5. f[k] # <<>> => f[k][Len(f[k])].bone <= s[k + 1].bone
    <3> SUFFICES ASSUME k # 0
                 PROVE  s[k].bone <= s[k + 1].bone
      BY <2>2
    <3>1. k \in 1 .. Len(s) /\ k < k + 1
      BY <2>1
    <3> QED BY <1>3, <2>1, <3>1 DEF Rising
  <2>6. PICK u : u = MergeNeighbours(f[k], s[k + 1])
    OBVIOUS
  <2>7. /\ Total(u) = Total(f[k]) + s[k + 1].weight
        /\ BonesOf(u) = BonesOf(f[k]) \cup {s[k + 1].bone}
        /\ Climbing(u) /\ u # <<>> /\ u[Len(u)].bone = s[k + 1].bone
    BY <2>2, <2>4, <2>5, <2>6, NeighbourMerged
  <2>8. s[k + 1].bone \in BonesOf(s)
    BY <1>4, <2>1 DEF BonesOf
  <2> QED BY <2>1, <2>2, <2>3, <2>6, <2>7, <2>8
<1>10. Nat \subseteq Ok
  <2> HIDE DEF Ok
  <2> QED BY <1>8, <1>9, NaturalsUpward
<1>11. Good(Len(s)) /\ Len(s) \in 0 .. Len(s)
  <2> HIDE DEF Good
  <2> QED BY <1>4, <1>10
<1>12. Total(s) = g[Len(s)]
  BY <1>3, <1>7, TotalIs
<1>13. f[Len(s)] \in Weights /\ Climbing(f[Len(s)]) /\ Total(f[Len(s)]) = Total(w)
       /\ BonesOf(f[Len(s)]) \subseteq BonesOf(w)
  BY <1>3, <1>6, <1>11, <1>12
<1>14. CollapseBoneWeights(w) = f[Len(s)]
  BY <1>1, <1>6 DEF CollapseBoneWeights
<1> QED BY <1>13, <1>14, ClimbingDistinct

\* What a vertex of a level of detail is left with.
LEMMA LevelVertex ==
  ASSUME NEW w \in Weights, NEW map, \A b \in BonesOf(w) : map[b] \in Nat
  PROVE  LET r == SortBoneWeight("weight", CollapseBoneWeights(Moved(w, map)))
         IN  /\ r \in Weights /\ Distinct(r) /\ Total(r) = Total(w)
             /\ BonesOf(r) \subseteq {map[b] : b \in BonesOf(w)}
<1>1. PICK m : m = Moved(w, map)
  OBVIOUS
<1>2. m \in Weights /\ Total(m) = Total(w) /\ BonesOf(m) = {map[b] : b \in BonesOf(w)}
  BY <1>1, MovedTo
<1>3. PICK c : c = CollapseBoneWeights(m)
  OBVIOUS
<1>4. c \in Weights /\ Distinct(c) /\ Total(c) = Total(m) /\ BonesOf(c) \subseteq BonesOf(m)
  BY <1>2, <1>3, BonesCollapsed
<1>5. PICK by : by = "weight"
  OBVIOUS
<1>6. PICK r : r = SortBoneWeight(by, c)
  OBVIOUS
<1>7. r \in Weights /\ Distinct(r) /\ Total(r) = Total(c) /\ BonesOf(r) = BonesOf(c)
  BY <1>4, <1>6, SortedBy
<1>8. r = SortBoneWeight("weight", CollapseBoneWeights(Moved(w, map)))
  BY <1>1, <1>3, <1>5, <1>6
<1>9. r \in Weights /\ Distinct(r) /\ Total(r) = Total(w) /\ BonesOf(r) \subseteq {map[b] : b \in BonesOf(w)}
  BY <1>2, <1>4, <1>7
<1> QED BY <1>8, <1>9

-----------------------------------------------------------------------------
(* Replacements, and the bones a level is mapped to *)

\* $bonetreecollapse turns into replacements.
LEMMA TreesTyped ==
  ASSUME table \in Tables, NEW reps \in Seq(Replacement), NEW names \in Seq(STRING)
  PROVE  Fold(TreeReplacements, reps, names) \in Seq(Replacement)
<1>1. Len(table) \in Nat /\ DOMAIN table = 1 .. Len(table) /\ \A i \in DOMAIN table : table[i].name \in STRING
  BY TableShape DEF Bone
<1>2. PICK T : T = Seq(Replacement)
  OBVIOUS
<1>3. PICK s : s = Indices(table)
  OBVIOUS
<1>4. Len(s) \in Nat /\ \A k \in 1 .. Len(s) : s[k] \in DOMAIN table
  BY <1>1, <1>3, IndicesOf
<1>5. ASSUME NEW t \in T, NEW name
      PROVE  TreeReplacements(t, name) \in T
  <2>1. PICK r : r = Find(table, name)
    OBVIOUS
  <2>2. CASE r = 0
    BY <2>1, <2>2 DEF TreeReplacements
  <2>3. CASE r # 0
    <3>1. r \in DOMAIN table
      BY <1>1, <2>1, <2>3, FindFacts
    <3>2. ASSUME NEW k \in 1 .. Len(s), NEW u \in T
          PROVE  ReplaceBelow(u, r, s[k]) \in T
      <4>1. PICK x : x = [src |-> table[s[k]].name, dst |-> table[r].name]
        OBVIOUS
      <4>2. x \in Replacement
        BY <1>1, <1>4, <3>1, <4>1 DEF Replacement
      <4>3. Append(u, x) \in T
        BY <1>2, <4>2
      <4> QED BY <4>1, <4>3 DEF ReplaceBelow
    <3> QED BY <1>3, <1>4, <2>1, <2>3, <3>2, BelowFold
  <2> QED BY <2>2, <2>3
<1>6. Len(names) \in Nat /\ \A k \in 1 .. Len(names) : \A t \in T : TreeReplacements(t, names[k]) \in T
  BY <1>5
<1> QED BY <1>2, <1>6, TreesFold

\* A pass over the replacements changes where they go to, not how many they are.
LEMMA FixupTyped ==
  ASSUME NEW reps \in Seq(Replacement)
  PROVE  FixupPass(reps) \in Seq(Replacement)
<1>1. PICK n \in Nat : n = Len(reps)
  OBVIOUS
<1> DEFINE T == {r \in Seq(Replacement) : Len(r) = n}
<1>2. ASSUME NEW t \in T, NEW i \in 1 .. n, NEW j \in 1 .. n
      PROVE  ChainReplacement(t, i, j) \in T
  <2>1. t \in Seq(Replacement) /\ Len(t) = n /\ t[i] \in Replacement /\ t[j] \in Replacement
    OBVIOUS
  <2>2. PICK x : x = [t[j] EXCEPT !.dst = t[i].dst]
    OBVIOUS
  <2>3. x \in Replacement
    BY <2>1, <2>2 DEF Replacement
  <2>4. [t EXCEPT ![j].dst = t[i].dst] = [t EXCEPT ![j] = x]
    BY <2>2
  <2>5. [t EXCEPT ![j] = x] \in Seq(Replacement) /\ Len([t EXCEPT ![j] = x]) = n
    BY <2>1, <2>3, ExceptSeq
  <2> QED BY <2>1, <2>4, <2>5 DEF ChainReplacement
<1>3. ASSUME NEW t \in T, NEW i \in 1 .. n
      PROVE  ChainTo(t, i) \in T
  <2>1. PICK s : s = Indices(t)
    OBVIOUS
  <2>2. Len(s) = n /\ \A k \in 1 .. n : s[k] \in 1 .. n
    BY <1>1, <2>1, IndicesOf
  <2>3. \A k \in 1 .. Len(s) : \A u \in T : ChainReplacement(u, i, s[k]) \in T
    BY <1>2, <2>2
  <2> HIDE DEF T
  <2> QED BY <1>1, <2>1, <2>2, <2>3, ChainFold
<1>4. reps \in T
  BY <1>1
<1>5. PICK s : s = Indices(reps)
  OBVIOUS
<1>6. Len(s) = n /\ \A k \in 1 .. n : s[k] \in 1 .. n
  BY <1>1, <1>5, IndicesOf
<1>7. \A k \in 1 .. Len(s) : \A u \in T : ChainTo(u, s[k]) \in T
  BY <1>3, <1>6
<1>8. FixupPass(reps) \in T
  <2> HIDE DEF T
  <2> QED BY <1>1, <1>4, <1>5, <1>6, <1>7, FixupFold
<1> QED BY <1>8

\* The replacements of which both bones are in the table.
Takes(r) == Find(table, r.src) # 0 /\ Find(table, r.dst) # 0

\* A bone that no such replacement names as the one to go stays; one that is replaced
\* becomes the destination of a replacement.
LEMMA MappingOf ==
  ASSUME table \in Tables, NEW reps \in Seq(Replacement)
  PROVE  LET map == Fold(EnterReplacement, Indices(table), reps)
         IN  \A b \in DOMAIN table :
               /\ map[b] \in DOMAIN table
               /\ \/ map[b] = b /\ \A i \in DOMAIN reps : Takes(reps[i]) => Find(table, reps[i].src) # b
                  \/ \E i \in DOMAIN reps : Takes(reps[i]) /\ map[b] = Find(table, reps[i].dst)
<1>1. Len(table) \in Nat /\ DOMAIN table = 1 .. Len(table)
  BY TableShape
<1>2. PICK N : N = DOMAIN table
  OBVIOUS
<1>3. PICK T : T = [N -> N]
  OBVIOUS
<1>4. PICK base : base = Indices(table)
  OBVIOUS
<1>5. base \in T /\ \A b \in N : base[b] = b
  BY <1>1, <1>2, <1>3, <1>4 DEF Indices
<1>6. PICK n \in Nat : n = Len(reps) /\ DOMAIN reps = 1 .. n
  OBVIOUS
<1>7. \A name : Find(table, name) # 0 => Find(table, name) \in N
  BY <1>1, <1>2, FindFacts
<1>8. ASSUME NEW t \in T, NEW r
      PROVE  /\ EnterReplacement(t, r) \in T
             /\ \A b \in N : EnterReplacement(t, r)[b] =
                  IF Takes(r) /\ b = Find(table, r.src) THEN Find(table, r.dst) ELSE t[b]
  <2>1. PICK j, k : j = Find(table, r.src) /\ k = Find(table, r.dst)
    OBVIOUS
  <2>2. EnterReplacement(t, r) = IF j # 0 /\ k # 0 THEN [t EXCEPT ![j] = k] ELSE t
    BY <2>1 DEF EnterReplacement
  <2>3. CASE j # 0 /\ k # 0
    <3>1. j \in N /\ k \in N
      BY <1>7, <2>1, <2>3
    <3>2. [t EXCEPT ![j] = k] \in T /\ \A b \in N : [t EXCEPT ![j] = k][b] = IF b = j THEN k ELSE t[b]
      BY <1>3, <3>1
    <3>3. EnterReplacement(t, r) = [t EXCEPT ![j] = k] /\ Takes(r)
      BY <2>1, <2>2, <2>3 DEF Takes
    <3> QED BY <2>1, <3>2, <3>3
  <2>4. CASE ~(j # 0 /\ k # 0)
    BY <2>1, <2>2, <2>4 DEF Takes
  <2> QED BY <2>3, <2>4
<1>9. PICK f \in [0 .. n -> T] :
        Entries(f, base, reps) /\ Fold(EnterReplacement, base, reps) = f[n]
  <2>1. Len(reps) \in Nat /\ \A k \in 1 .. Len(reps) : \A t \in T : EnterReplacement(t, reps[k]) \in T
    BY <1>6, <1>8
  <2>2. PICK f \in [0 .. Len(reps) -> T] :
          Entries(f, base, reps) /\ (Fold(EnterReplacement, base, reps) = f[Len(reps)])
    <3>1. base \in T
      BY <1>5
    <3> QED BY <2>1, <3>1, EnterFold
  <2> QED BY <1>6, <2>2
<1> DEFINE Good(k) == \A b \in N :
             \/ f[k][b] = b /\ \A i \in 1 .. k : Takes(reps[i]) => Find(table, reps[i].src) # b
             \/ \E i \in 1 .. k : Takes(reps[i]) /\ f[k][b] = Find(table, reps[i].dst)
           Ok == {k \in Nat : k <= n => Good(k)}
<1>10. 0 \in Ok
  <2>1. f[0] = base
    BY <1>9 DEF Entries
  <2> QED BY <1>5, <2>1
<1>11. ASSUME NEW k \in Nat, k \in Ok
       PROVE  k + 1 \in Ok
  <2> SUFFICES ASSUME k + 1 <= n, NEW b \in N
               PROVE  \/ f[k + 1][b] = b /\ \A i \in 1 .. k + 1 : Takes(reps[i]) => Find(table, reps[i].src) # b
                      \/ \E i \in 1 .. k + 1 : Takes(reps[i]) /\ f[k + 1][b] = Find(table, reps[i].dst)
    OBVIOUS
  <2>1. k + 1 \in 1 .. n /\ (k + 1) - 1 = k /\ k \in 0 .. n /\ 1 .. k + 1 = (1 .. k) \cup {k + 1}
    OBVIOUS
  <2>2. \/ f[k][b] = b /\ \A i \in 1 .. k : Takes(reps[i]) => Find(table, reps[i].src) # b
        \/ \E i \in 1 .. k : Takes(reps[i]) /\ f[k][b] = Find(table, reps[i].dst)
    BY <1>11, <2>1
  <2>3. f[k + 1] = EnterReplacement(f[k], reps[k + 1])
    BY <1>6, <1>9, <2>1 DEF Entries
  <2>4. PICK r : r = reps[k + 1]
    OBVIOUS
  <2>5. f[k + 1][b] = IF Takes(r) /\ b = Find(table, r.src) THEN Find(table, r.dst) ELSE f[k][b]
    <3>1. PICK t \in T : t = f[k]
      BY <1>9, <2>1
    <3>2. f[k + 1] = EnterReplacement(t, r)
      BY <2>3, <2>4, <3>1
    <3>3. EnterReplacement(t, r)[b] =
            IF Takes(r) /\ b = Find(table, r.src) THEN Find(table, r.dst) ELSE t[b]
      BY <1>8
    <3> QED BY <3>1, <3>2, <3>3
  <2>6. CASE Takes(r) /\ b = Find(table, r.src)
    BY <2>1, <2>4, <2>5, <2>6
  <2>7. CASE ~(Takes(r) /\ b = Find(table, r.src))
    <3>1. f[k + 1][b] = f[k][b]
      BY <2>5, <2>7
    <3> QED BY <2>1, <2>2, <2>4, <2>7, <3>1
  <2> QED BY <2>6, <2>7
<1>12. Nat \subseteq Ok
  <2> HIDE DEF Ok
  <2> QED BY <1>10, <1>11, NaturalsUpward
<1>13. Good(n) /\ f[n] \in [N -> N]
  <2>1. n \in Ok /\ n \in 0 .. n
    BY <1>6, <1>12
  <2> QED BY <1>3, <1>9, <2>1
<1> QED BY <1>2, <1>4, <1>6, <1>9, <1>13

\* Where no replacement is chained to another and every bone named is in the table,
\* by its name there, no bone is mapped to one that is replaced by another.
LEMMA ReplacedUnused ==
  ASSUME table \in Tables, NEW reps \in Seq(Replacement), ~Chained(reps),
         \A r \in Range(reps) : NamesBone(r.src) /\ NamesBone(r.dst),
         NEW b \in DOMAIN table, NEW r \in Range(reps), r.src # r.dst
  PROVE  Fold(EnterReplacement, Indices(table), reps)[b] # Find(table, r.src)
<1>1. Len(table) \in Nat /\ DOMAIN table = 1 .. Len(table)
  BY TableShape
<1>2. PICK m \in DOMAIN reps : r = reps[m]
  BY DEF Range
<1>3. \A i \in DOMAIN reps : NamesBone(reps[i].src) /\ NamesBone(reps[i].dst)
  BY DEF Range
<1>4. ASSUME NEW name, NamesBone(name)
      PROVE  Find(table, name) # 0 /\ table[Find(table, name)].name = name
  <2>1. RenameBone(name) = name /\ name \in Names(table)
    BY <1>4 DEF NamesBone, RenameBone
  <2> QED BY <1>1, <2>1, FindFacts
<1>5. \A i \in DOMAIN reps : Takes(reps[i])
  BY <1>3, <1>4 DEF Takes
<1>6. PICK map : map = Fold(EnterReplacement, Indices(table), reps)
  OBVIOUS
<1>7. \/ map[b] = b /\ \A i \in DOMAIN reps : Takes(reps[i]) => Find(table, reps[i].src) # b
      \/ \E i \in DOMAIN reps : Takes(reps[i]) /\ map[b] = Find(table, reps[i].dst)
  BY <1>6, MappingOf
<1>8. CASE map[b] = b /\ \A i \in DOMAIN reps : Takes(reps[i]) => Find(table, reps[i].src) # b
  BY <1>2, <1>5, <1>6, <1>8
<1>9. CASE \E i \in DOMAIN reps : Takes(reps[i]) /\ map[b] = Find(table, reps[i].dst)
  <2>1. PICK i \in DOMAIN reps : map[b] = Find(table, reps[i].dst)
    BY <1>9
  <2> SUFFICES ASSUME map[b] = Find(table, reps[m].src)
               PROVE  FALSE
    BY <1>2, <1>6
  <2>2. reps[i].dst = reps[m].src
    BY <1>3, <1>4, <2>1
  <2>3. i = m
    BY <2>2 DEF Chained
  <2> QED BY <1>2, <2>2, <2>3
<1> QED BY <1>7, <1>8, <1>9

-----------------------------------------------------------------------------
(* What a bone is used for *)

\* FlagsUp gives every bone the flags in the mask of those below it.
LEMMA UsedAbove ==
  ASSUME NEW t \in Tables, NEW mask
  PROVE  /\ FlagsUp(t, mask) \in Tables /\ Grown(t, FlagsUp(t, mask))
         /\ \A k \in DOMAIN t : \A i \in DOMAIN t :
              i \in {k} \cup Above(t, k) => t[k].flags \cap mask \subseteq FlagsUp(t, mask)[i].flags
<1> DEFINE F == [i \in DOMAIN t |-> UNION {t[k].flags \cap mask : k \in Below(t, i)}]
<1>1. \A i \in DOMAIN t : t[i].flags \subseteq AllFlags
  BY TableShape DEF Bone
<1>2. \A i \in DOMAIN t : Below(t, i) \subseteq DOMAIN t
  BY DEF Below
<1>3. \A i \in DOMAIN t : F[i] \subseteq AllFlags
  BY <1>1, <1>2
<1>4. PICK u : u = FlagsUp(t, mask)
  OBVIOUS
<1>5. u = Retagged(t, F)
  BY <1>4 DEF FlagsUp, Retagged
<1>6. ASSUME NEW k \in DOMAIN t, NEW i \in DOMAIN t, i \in {k} \cup Above(t, k)
      PROVE  t[k].flags \cap mask \subseteq F[i]
  <2>1. k \in Below(t, i)
    BY <1>6 DEF Below
  <2> QED BY <2>1
<1> HIDE DEF F
<1>7. u \in Tables /\ Grown(t, u) /\ \A i \in DOMAIN t : u[i].flags = t[i].flags \cup F[i]
  BY <1>3, <1>5, FlagsAdded
<1> QED BY <1>4, <1>6, <1>7

\* MarkBonesUsedByLod gives the bones of a level the flag of the level.
LEMMA UsedByLod ==
  ASSUME NEW t \in Tables, NEW l \in 1 .. 3, NEW ws
  PROVE  /\ MarkBonesUsedByLod(t, l, ws) \in Tables /\ Grown(t, MarkBonesUsedByLod(t, l, ws))
         /\ \A v \in DOMAIN ws : \A x \in Range(ws[v]) :
              x.bone \in DOMAIN t => LodFlag[l] \in MarkBonesUsedByLod(t, l, ws)[x.bone].flags
<1> DEFINE F == [i \in DOMAIN t |->
                   IF \E v \in DOMAIN ws : \E x \in Range(ws[v]) : x.bone = i THEN {LodFlag[l]} ELSE {}]
<1>1. LodFlag[l] \in AllFlags
  <2>1. DOMAIN LodFlag = 1 .. 3
    BY DEF LodFlag
  <2> QED BY <2>1 DEF AllFlags, Range
<1>2. \A i \in DOMAIN t : F[i] \subseteq AllFlags
  BY <1>1
<1>3. PICK u : u = MarkBonesUsedByLod(t, l, ws)
  OBVIOUS
<1>4. u = Retagged(t, F)
  BY <1>3 DEF MarkBonesUsedByLod, Retagged
<1>5. ASSUME NEW v \in DOMAIN ws, NEW x \in Range(ws[v]), x.bone \in DOMAIN t
      PROVE  LodFlag[l] \in F[x.bone]
  BY <1>5
<1> HIDE DEF F
<1>6. u \in Tables /\ Grown(t, u) /\ \A i \in DOMAIN t : u[i].flags = t[i].flags \cup F[i]
  BY <1>2, <1>4, FlagsAdded
<1> QED BY <1>3, <1>5, <1>6

\* The control of a procedural bone that is left is left.
Controlled == \A n \in Procedural : Control(table, n) # 0

\* A procedural bone that is left and all that is used with it are in the table.
LEMMA ChainBones ==
  ASSUME table \in Tables, ParentsFirst(table), Controlled, NEW n \in Procedural
  PROVE  ProceduralBone(table, n) \in DOMAIN table /\ UsedWith(table, n) \subseteq DOMAIN table
<1>1. Len(table) \in Nat /\ DOMAIN table = 1 .. Len(table)
  BY TableShape
<1>2. ProceduralBone(table, n) # 0 /\ Control(table, n) # 0
  BY DEF Controlled, Procedural
<1>3. ProceduralBone(table, n) \in DOMAIN table /\ Control(table, n) \in DOMAIN table
  BY <1>1, <1>2, FindFacts DEF ProceduralBone, Control
<1> QED BY <1>3, AboveStep DEF UsedWith

\* u is t with the flags of procedural bone n on all that is used with it.
PassedOn(t, n, u) ==
  LET p == ProceduralBone(table, n)
  IN  /\ n \in QuatInterp =>
           \A i \in DOMAIN table :
             u[i].flags = IF i \in {p} \cup UsedWith(table, n)
                            THEN t[i].flags \cup (t[p].flags \cap UsedMask) ELSE t[i].flags
      /\ n \notin QuatInterp => u = t

\* MarkChain passes the flags of one procedural bone on.
LEMMA ChainStep ==
  ASSUME table \in Tables, ParentsFirst(table), Controlled,
         NEW t \in Tables, Grown(table, t), NEW n
  PROVE  LET u == MarkChain(t, n)
         IN  u \in Tables /\ Grown(table, u) /\ Grown(t, u) /\ PassedOn(t, n, u)
<1>1. DOMAIN t = DOMAIN table
  BY DEF Grown
<1>2. CASE n \notin QuatInterp
  <2>1. MarkChain(t, n) = t
    BY <1>2 DEF MarkChain
  <2>2. Grown(t, t)
    BY DEF Grown
  <2> QED BY <1>2, <2>1, <2>2 DEF PassedOn
<1>3. CASE n \in QuatInterp
  <2>1. n \in Procedural
    BY <1>3 DEF QuatInterp
  <2>2. PICK p, used : p = ProceduralBone(table, n) /\ used = UsedWith(table, n)
    OBVIOUS
  <2>3. p \in DOMAIN table
    BY <2>1, <2>2, ChainBones
  <2>4. ProceduralBone(t, n) = p /\ UsedWith(t, n) = used
    BY <2>2, GrownSame DEF ProceduralBone, UsedWith, Control
  <2>5. PICK more \in SUBSET AllFlags : more = t[p].flags \cap UsedMask
    <3>1. t[p].flags \subseteq AllFlags
      BY <1>1, <2>3, TableShape DEF Bone
    <3> QED BY <3>1
  <2>6. PICK u : u = MarkChain(t, n)
    OBVIOUS
  <2>7. u = [i \in DOMAIN t |-> IF i \in {p} \cup used THEN [t[i] EXCEPT !.flags = @ \cup more] ELSE t[i]]
    BY <1>3, <2>4, <2>5, <2>6 DEF MarkChain
  <2> DEFINE F == [i \in DOMAIN t |-> IF i \in {p} \cup used THEN more ELSE {}]
             w == [i \in DOMAIN t |-> [t[i] EXCEPT !.flags = @ \cup F[i]]]
  <2>8. u = w
    <3>1. ASSUME NEW i \in DOMAIN t
          PROVE  u[i] = w[i]
      <4>1. CASE i \in {p} \cup used
        BY <2>7, <4>1
      <4>2. CASE i \notin {p} \cup used
        <5>1. PICK b \in Bone : b = t[i]
          BY TableShape
        <5>2. [b EXCEPT !.flags = @ \cup {}] = b
          BY DEF Bone
        <5>3. w[i] = [b EXCEPT !.flags = @ \cup {}]
          BY <4>2, <5>1
        <5>4. u[i] = b
          BY <2>7, <4>2, <5>1
        <5> QED BY <5>2, <5>3, <5>4
      <4> QED BY <4>1, <4>2
    <3> HIDE DEF w
    <3>2. w = [i \in DOMAIN t |-> w[i]] /\ u = [i \in DOMAIN t |-> u[i]]
      BY <2>7 DEF w
    <3> QED BY <3>1, <3>2
  <2>9. \A i \in DOMAIN t : F[i] \subseteq AllFlags
    OBVIOUS
  <2>10. \A i \in DOMAIN t : F[i] = IF i \in {p} \cup used THEN more ELSE {}
    OBVIOUS
  <2>11. u = Retagged(t, F)
    BY <2>8 DEF Retagged
  <2> HIDE DEF F, w
  <2>12. u \in Tables /\ Grown(t, u) /\ \A i \in DOMAIN t : u[i].flags = t[i].flags \cup F[i]
    BY <2>9, <2>11, FlagsAdded
  <2>13. Grown(table, u)
    BY <2>12, GrownOn
  <2>14. \A i \in DOMAIN table :
           u[i].flags = IF i \in {p} \cup used THEN t[i].flags \cup (t[p].flags \cap UsedMask) ELSE t[i].flags
    BY <1>1, <2>5, <2>10, <2>12
  <2>15. PassedOn(t, n, u)
    BY <1>3, <2>2, <2>14 DEF PassedOn
  <2> QED BY <2>6, <2>12, <2>13, <2>15
<1> QED BY <1>2, <1>3

\* What a quaternion bone is used for goes to all that is used with it, and stays
\* there as long as no later chain adds to the flags of the bone.
LEMMA ChainMarked ==
  ASSUME IsProject(project), table \in Tables, ParentsFirst(table), Controlled
  PROVE  LET u == Fold(MarkChain, table, Indices(project.procedural))
         IN  /\ u \in Tables /\ Grown(table, u)
             /\ \A n \in QuatInterp :
                  (\A m \in QuatInterp : m > n => ProceduralBone(table, n) \notin UsedWith(table, m)) =>
                    \A i \in UsedWith(table, n) :
                      u[ProceduralBone(table, n)].flags \cap UsedMask \subseteq u[i].flags
<1>1. PICK N \in Nat : N = Len(project.procedural) /\ DOMAIN project.procedural = 1 .. N
  <2> DEFINE ProcRecord == [kind : STRING, bone : STRING, control : STRING, parent : STRING,
                      controlparent : STRING]
  <2>1. project.procedural \in Seq(ProcRecord)
    BY DEF IsProject
  <2> HIDE DEF ProcRecord
  <2> QED BY <2>1
<1>2. PICK s : s = Indices(project.procedural)
  OBVIOUS
<1>3. Len(s) = N /\ \A k \in 1 .. N : s[k] = k
  BY <1>1, <1>2, IndicesOf
<1>4. PICK T : T = {t \in Tables : Grown(table, t)}
  OBVIOUS
<1>5. table \in T
  BY <1>4 DEF Grown
<1>6. \A k \in 1 .. Len(s) : \A t \in T : MarkChain(t, s[k]) \in T
  BY <1>4, ChainStep
<1>7. PICK f \in [0 .. Len(s) -> T] :
        Marks(f, table, s) /\ (Fold(MarkChain, table, s) = f[Len(s)])
  <2>1. Len(s) \in Nat
    BY <1>1, <1>3
  <2> QED BY <1>5, <1>6, <2>1, MarkFold
<1>8. f[0] = table /\ \A k \in 1 .. N : f[k] = MarkChain(f[k - 1], k)
  BY <1>3, <1>7 DEF Marks
<1>9. \A k \in 0 .. N : f[k] \in Tables /\ Grown(table, f[k])
  BY <1>3, <1>4, <1>7
<1>10. ASSUME NEW n \in QuatInterp,
              \A m \in QuatInterp : m > n => ProceduralBone(table, n) \notin UsedWith(table, m),
              NEW i \in UsedWith(table, n)
       PROVE  f[N][ProceduralBone(table, n)].flags \cap UsedMask \subseteq f[N][i].flags
  <2>1. n \in Procedural /\ n \in 1 .. N
    BY <1>1 DEF QuatInterp, Procedural
  <2>2. PICK p : p = ProceduralBone(table, n)
    OBVIOUS
  <2>3. p \in DOMAIN table /\ i \in DOMAIN table
    BY <2>1, <2>2, ChainBones
  <2> DEFINE Good(k) == f[k][p].flags \cap UsedMask \subseteq f[k][i].flags
             Ok == {k \in Nat : n <= k /\ k <= N => Good(k)}
  <2>4. 0 \in Ok
    BY <2>1
  <2>5. ASSUME NEW k \in Nat, k \in Ok
        PROVE  k + 1 \in Ok
    <3> SUFFICES ASSUME n <= k + 1, k + 1 <= N
                 PROVE  f[k + 1][p].flags \cap UsedMask \subseteq f[k + 1][i].flags
      OBVIOUS
    <3>1. k + 1 \in 1 .. N /\ (k + 1) - 1 = k /\ k \in 0 .. N /\ n \in Nat
      BY <1>1, <2>1
    <3>2. PICK t : t = f[k]
      OBVIOUS
    <3>3. PICK u : u = MarkChain(t, k + 1)
      OBVIOUS
    <3>4. f[k + 1] = u /\ t \in Tables /\ Grown(table, t)
      BY <1>8, <1>9, <3>1, <3>2, <3>3
    <3>5. PICK q : q = ProceduralBone(table, k + 1)
      OBVIOUS
    <3>6. /\ k + 1 \in QuatInterp =>
               \A j \in DOMAIN table :
                 u[j].flags = IF j \in {q} \cup UsedWith(table, k + 1)
                                THEN t[j].flags \cup (t[q].flags \cap UsedMask) ELSE t[j].flags
          /\ k + 1 \notin QuatInterp => u = t
      <4>1. PICK m : m = k + 1
        OBVIOUS
      <4>2. u = MarkChain(t, m) /\ q = ProceduralBone(table, m)
        BY <3>3, <3>5, <4>1
      <4>3. PassedOn(t, m, u)
        BY <3>4, <4>2, ChainStep
      <4> QED BY <3>5, <4>1, <4>3 DEF PassedOn
    <3>7. CASE n = k + 1
      <4>1. q = p /\ k + 1 \in QuatInterp /\ i \in UsedWith(table, k + 1)
        BY <1>10, <2>2, <3>5, <3>7
      <4>2. /\ u[i].flags = t[i].flags \cup (t[p].flags \cap UsedMask)
            /\ u[p].flags = t[p].flags \cup (t[p].flags \cap UsedMask)
        BY <2>3, <3>6, <4>1
      <4> QED BY <3>4, <4>2
    <3>8. CASE n <= k
      <4>1. t[p].flags \cap UsedMask \subseteq t[i].flags
        BY <2>5, <3>1, <3>2, <3>8
      <4>2. CASE k + 1 \notin QuatInterp
        BY <3>4, <3>6, <4>1, <4>2
      <4>3. CASE k + 1 \in QuatInterp
        <5>1. k + 1 > n
          BY <3>1, <3>8
        <5>2. p \notin UsedWith(table, k + 1)
          BY <1>10, <2>2, <4>3, <5>1
        <5>3. u[p].flags \subseteq t[p].flags
          BY <2>3, <3>6, <4>3, <5>2
        <5>4. t[i].flags \subseteq u[i].flags
          BY <2>3, <3>6, <4>3
        <5> QED BY <3>4, <4>1, <5>3, <5>4
      <4> QED BY <4>2, <4>3
    <3>9. n = k + 1 \/ n <= k
      BY <3>1
    <3> QED BY <3>7, <3>8, <3>9
  <2>6. Nat \subseteq Ok
    <3> HIDE DEF Ok
    <3> QED BY <2>4, <2>5, NaturalsUpward
  <2>7. Good(N)
    <3>1. n <= N /\ N <= N
      BY <1>1, <2>1
    <3> HIDE DEF Good
    <3> QED BY <2>6, <3>1
  <2> QED BY <2>2, <2>7
<1>11. f[N] \in Tables /\ Grown(table, f[N]) /\ Fold(MarkChain, table, s) = f[N]
  BY <1>3, <1>7, <1>9
<1> QED BY <1>2, <1>10, <1>11

-----------------------------------------------------------------------------
(* The inductive invariant *)

\* The stages up to MapSourcesToGlobalBonetable, and those after it.
BeforeMap == {"tag", "build", "force", "sort", "chain", "collapse", "procedural", "map"}
Finishing == {"parents", "remap", "mark", "hitboxes", "done"}
AfterMap == {"trees", "fixup", "vertices", "unify"} \cup Finishing

\* What the variables are.
BoneTypeOK ==
  /\ IsProject(project)
  /\ stage \in BeforeMap \cup AfterMap \cup {"error"}
  /\ table \in Tables /\ at \in Nat \ {0} /\ passes \in Nat /\ swapped \in BOOLEAN
  /\ stage # "tag" => FlagsTyped
  /\ DOMAIN replace = DOMAIN project.lods
  /\ \A l \in DOMAIN replace : replace[l] \in Seq(Replacement)

\* Parents come before their children once the table is sorted: it is left alone by
\* a pass that began at its first bone and swapped none, and where a bone is removed
\* its children get a parent before it.
SortInv ==
  /\ stage = "sort" /\ ~swapped => at = 1
  /\ stage = "chain" => \A i \in DOMAIN table : table[i].parent <= i
  /\ stage \in {"collapse", "procedural", "map"} \cup AfterMap \/ global # <<>> => ParentsFirst(table)

\* What there is at every stage.
ProgressInv ==
  /\ stage \in BeforeMap => global = <<>>
  /\ stage \in AfterMap => global # <<>>
  /\ stage \in BeforeMap \cup {"trees", "fixup", "vertices"} => verts = <<>> /\ lods = <<>>
  /\ stage \in {"unify"} \cup Finishing => DOMAIN verts = DOMAIN Model.verts
  /\ lods \in Seq(Range(lods)) /\ Len(lods) <= Len(project.lods)
  /\ stage = "unify" => Len(lods) < Len(project.lods)

\* TagProceduralBones let no bone pass whose control is missing.
ControlInv == stage \in {"map"} \cup AfterMap => Controlled

\* Replacements are used only when nothing is left to chain.
FixupInv ==
  stage \in {"vertices", "unify"} \cup Finishing => \A l \in DOMAIN replace : ~Chained(replace[l])

\* A bone of the model is mapped to where its weight goes.
MapInv ==
  global # <<>> =>
    \A j \in DOMAIN Model.bones :
      /\ global[1][j] \in Nat
      /\ table # <<>> => global[1][j] \in DOMAIN table /\ GoesTo(j, global[1][j])

\* A vertex in the table has its weight on the bones its bones were mapped to.
VertsInv ==
  \A v \in DOMAIN verts :
    /\ v \in DOMAIN Model.verts /\ global # <<>>
    /\ verts[v] \in Weights /\ Distinct(verts[v]) /\ Total(verts[v]) = Total(Model.verts[v])
    /\ BonesOf(verts[v]) \subseteq {global[1][j] : j \in BonesOf(Model.verts[v])}

\* A level is made of whole vertices on bones of the table that carry its flag.
LodsInv ==
  table # <<>> =>
    \A l \in DOMAIN lods : \A v \in DOMAIN lods[l] :
      /\ lods[l][v] \in Weights /\ Distinct(lods[l][v])
      /\ Total(lods[l][v]) = Total(Model.verts[v])
      /\ \A b \in BonesOf(lods[l][v]) : b \in DOMAIN table /\ LodFlag[l] \in table[b].flags

\* The inductive invariant.
BoneInv ==
  /\ BoneTypeOK /\ SortInv /\ ProgressInv /\ ControlInv /\ FixupInv
  /\ MapInv /\ VertsInv /\ LodsInv /\ ReplacedGone /\ BonesSetUp

\* Before the bones are mapped most of it says nothing.
LEMMA EarlyKept ==
  ASSUME stage' \in BeforeMap \cup {"error"}, global' = <<>>, verts' = <<>>, lods' = <<>>
  PROVE  FixupInv' /\ MapInv' /\ VertsInv' /\ LodsInv' /\ ReplacedGone' /\ BonesSetUp'
<1>1. /\ stage' \notin {"vertices", "unify"} \cup Finishing
      /\ stage' \notin {"remap", "mark", "hitboxes", "done"} /\ stage' \notin {"hitboxes", "done"}
  BY DEF BeforeMap, Finishing
<1>2. DOMAIN verts' = {} /\ DOMAIN lods' = {}
  OBVIOUS
<1>3. FixupInv' /\ BonesSetUp'
  BY <1>1 DEF FixupInv, BonesSetUp
<1>4. MapInv' /\ VertsInv' /\ LodsInv' /\ ReplacedGone'
  BY <1>2 DEF MapInv, VertsInv, LodsInv, ReplacedGone
<1> QED BY <1>3, <1>4

\* What is said of the table stays true when flags are added.
LEMMA MapKept ==
  ASSUME project' = project, global' = global, Grown(table, table'),
         table' # <<>> => table # <<>>, MapInv
  PROVE  MapInv'
<1>1. Model' = Model
  BY DEF Model
<1>2. Names(table') = Names(table)
  BY GrownSame
<1>3. \A m : NameIn(Model, m)' = NameIn(Model, m)
  BY <1>1 DEF NameIn, RenameBone
<1>4. ASSUME NEW j \in DOMAIN Model.bones, NEW x \in DOMAIN table, GoesTo(j, x)
      PROVE  GoesTo(j, x)'
  <2>1. table'[x].name = table[x].name
    BY DEF Grown
  <2> QED BY <1>1, <1>2, <1>3, <1>4, <2>1 DEF GoesTo
<1>5. DOMAIN table' = DOMAIN table
  BY DEF Grown
<1> QED BY <1>1, <1>4, <1>5 DEF MapInv

\* Nothing is said of the table here.
LEMMA VertsKept ==
  ASSUME project' = project, global' = global, verts' = verts, VertsInv
  PROVE  VertsInv'
BY DEF VertsInv, Model

\* A bone of a level keeps the flag of the level.
LEMMA LodsKept ==
  ASSUME project' = project, lods' = lods, Grown(table, table'),
         table' # <<>> => table # <<>>, LodsInv
  PROVE  LodsInv'
<1>1. Model' = Model
  BY DEF Model
<1>2. DOMAIN table' = DOMAIN table /\ \A i \in DOMAIN table : table[i].flags \subseteq table'[i].flags
  BY DEF Grown
<1> QED BY <1>1, <1>2 DEF LodsInv

\* What a name stands for stays what it was when flags are added.
LEMMA NamesKept ==
  ASSUME project' = project, Grown(table, table')
  PROVE  /\ \A name : NamesBone(name)' = NamesBone(name)
         /\ \A name : Find(table, name)' = Find(table, name)
<1>1. Names(table') = Names(table)
  BY GrownSame
<1>2. \A name : NamesBone(name)' = NamesBone(name)
  BY <1>1 DEF NamesBone
<1>3. \A name : Find(table, name)' = Find(table, name)
  <2> SUFFICES ASSUME NEW name
               PROVE  Find(table, name)' = Find(table, name)
    OBVIOUS
  <2>1. RenameBone(name)' = RenameBone(name)
    BY DEF RenameBone
  <2>2. {i \in DOMAIN table' : table'[i].name = RenameBone(name)'} = {i \in DOMAIN table : table[i].name = RenameBone(name)}
    BY <2>1 DEF Grown
  <2> QED BY <2>2 DEF Find
<1> QED BY <1>2, <1>3

\* So does what is replaced.
LEMMA ReplacedKept ==
  ASSUME project' = project, lods' = lods, replace' = replace, Grown(table, table'), ReplacedGone
  PROVE  ReplacedGone'
<1>1. /\ \A name : NamesBone(name)' = NamesBone(name)
      /\ \A name : Find(table, name)' = Find(table, name)
  BY NamesKept
<1> QED BY <1>1 DEF ReplacedGone

\* So do the procedural bones and what is used with them.
LEMMA ControlledKept ==
  ASSUME project' = project, Grown(table, table')
  PROVE  /\ Procedural' = Procedural /\ QuatInterp' = QuatInterp
         /\ Controlled => Controlled'
         /\ \A n : ProceduralBone(table, n)' = ProceduralBone(table, n)
         /\ \A n : Control(table, n)' = Control(table, n)
         /\ \A n : UsedWith(table, n)' = UsedWith(table, n)
<1>1. \A name : Find(table, name)' = Find(table, name)
  BY NamesKept
<1>2. \A n : ProceduralBone(table, n)' = ProceduralBone(table, n) /\ Control(table, n)' = Control(table, n)
  BY <1>1 DEF ProceduralBone, Control
<1>3. Procedural' = Procedural
  BY <1>2 DEF Procedural
<1>4. QuatInterp' = QuatInterp
  BY <1>3 DEF QuatInterp
<1>5. \A i : Above(table', i) = Above(table, i)
  BY GrownSame
<1>6. \A n : UsedWith(table, n)' = UsedWith(table, n)
  BY <1>2, <1>5 DEF UsedWith
<1>7. Controlled => Controlled'
  BY <1>2, <1>3 DEF Controlled
<1> QED BY <1>2, <1>3, <1>4, <1>6, <1>7

-----------------------------------------------------------------------------
(* The steps up to the mapping of the bones *)

\* Before the map there are no vertices and no levels.
LEMMA EarlyProgress ==
  ASSUME IsProject(project), project' = project, stage' \in BeforeMap \cup {"error"},
         global' = <<>>, verts' = <<>>, lods' = <<>>
  PROVE  ProgressInv'
<1>1. stage' \notin AfterMap /\ stage' \notin {"unify"} \cup Finishing /\ stage' # "unify"
  BY DEF BeforeMap, AfterMap, Finishing
<1>2. lods' \in Seq(Range(lods')) /\ Len(lods') = 0
  BY EmptySeq
<1>3. Len(project.lods) >= 0
  BY ProjectFacts
<1> QED BY <1>1, <1>2, <1>3 DEF ProgressInv

\* What an early step leaves to show.
EarlyParts == BoneTypeOK /\ SortInv /\ ControlInv

\* An early step has only the table to answer for.
LEMMA EarlyStep ==
  ASSUME BoneInv, stage \in BeforeMap, stage' \in BeforeMap \cup {"error"},
         project' = project, global' = global, verts' = verts, lods' = lods, EarlyParts'
  PROVE  BoneInv'
<1>1. global = <<>> /\ verts = <<>> /\ lods = <<>> /\ IsProject(project)
  BY DEF BoneInv, ProgressInv, BoneTypeOK
<1>2. FixupInv' /\ MapInv' /\ VertsInv' /\ LodsInv' /\ ReplacedGone' /\ BonesSetUp'
  BY <1>1, EarlyKept
<1>3. ProgressInv'
  BY <1>1, EarlyProgress
<1> QED BY <1>2, <1>3 DEF BoneInv, EarlyParts

\* It holds at the start.
LEMMA InitEstablishes ==
  ASSUME Init
  PROVE  BoneInv
<1>1. /\ IsProject(project) /\ stage = "tag" /\ table = <<>> /\ at = 1 /\ passes = 0
      /\ swapped = FALSE /\ global = <<>> /\ verts = <<>> /\ lods = <<>>
      /\ replace = [l \in DOMAIN project.lods |-> project.lods[l].replacebone]
  BY DEF Init
<1>2. <<>> \in Tables
  <2>1. <<>> \in Seq(Bone) /\ DOMAIN <<>> = {}
    BY EmptySeq
  <2> QED BY <2>1 DEF Tables
<1>3. \A l \in DOMAIN project.lods : project.lods[l].replacebone \in Seq(Replacement)
  BY <1>1, ProjectFacts
<1>4. BoneTypeOK
  <2>1. stage \in BeforeMap /\ (stage # "tag" => FlagsTyped)
    BY <1>1 DEF BeforeMap
  <2>2. DOMAIN replace = DOMAIN project.lods /\ \A l \in DOMAIN replace : replace[l] \in Seq(Replacement)
    BY <1>1, <1>3
  <2>3. at \in Nat \ {0}
    BY <1>1
  <2>4. passes \in Nat
    BY <1>1
  <2>5. swapped \in BOOLEAN
    BY <1>1
  <2> QED BY <1>1, <1>2, <2>1, <2>2, <2>3, <2>4, <2>5 DEF BoneTypeOK
<1>5. SortInv /\ ControlInv /\ FixupInv /\ BonesSetUp
  BY <1>1 DEF SortInv, ControlInv, FixupInv, BonesSetUp, AfterMap, Finishing
<1>6. ProgressInv
  <2>1. lods \in Seq(Range(lods)) /\ Len(lods) = 0
    BY <1>1, EmptySeq
  <2>2. Len(project.lods) >= 0
    BY <1>1, ProjectFacts
  <2> QED BY <1>1, <2>1, <2>2 DEF ProgressInv, AfterMap, Finishing
<1>7. DOMAIN verts = {} /\ DOMAIN lods = {}
  BY <1>1
<1>8. MapInv /\ VertsInv /\ LodsInv /\ ReplacedGone
  BY <1>1, <1>7 DEF MapInv, VertsInv, LodsInv, ReplacedGone
<1> QED BY <1>4, <1>5, <1>6, <1>8 DEF BoneInv

\* The flags of the sources are flags.
LEMMA TagStep ==
  ASSUME BoneInv, TagUsedBones
  PROVE  BoneInv'
<1>1. /\ stage = "tag" /\ stage' = "build" /\ project' = project /\ table' = table /\ at' = at
      /\ passes' = passes /\ swapped' = swapped /\ global' = global /\ replace' = replace
      /\ verts' = verts /\ lods' = lods
      /\ boneflags' = [n \in DOMAIN project.sources |-> BoneFlags(project.sources[n])]
  BY DEF TagUsedBones, weights
<1>2. BoneTypeOK
  BY DEF BoneInv
<1>3. ASSUME NEW i \in DOMAIN project.sources, NEW j \in DOMAIN project.sources[i].bones
      PROVE  boneflags'[i][j] \subseteq AllFlags
  <2>1. LodFlag[1] \in AllFlags /\ "att" \in AllFlags /\ "merge" \in AllFlags
    BY DEF AllFlags, LodFlag, Range
  <2>2. PICK s : s = project.sources[i]
    OBVIOUS
  <2>3. BoneFlags(s)[j] \subseteq {LodFlag[1], "att", "merge"}
    BY <2>2 DEF BoneFlags
  <2>4. boneflags'[i] = BoneFlags(s)
    BY <1>1, <2>2
  <2> QED BY <2>1, <2>3, <2>4
<1>4. FlagsTyped'
  BY <1>1, <1>3 DEF FlagsTyped
<1>5. BoneTypeOK'
  BY <1>1, <1>2, <1>4 DEF BoneTypeOK, BeforeMap
<1>6. SortInv' /\ ControlInv'
  <2>1. global = <<>>
    BY <1>1 DEF BoneInv, ProgressInv, BeforeMap
  <2> QED BY <1>1, <2>1 DEF SortInv, ControlInv, AfterMap, Finishing
<1>7. stage \in BeforeMap /\ stage' \in BeforeMap
  BY <1>1 DEF BeforeMap
<1> QED BY <1>1, <1>5, <1>6, <1>7, EarlyStep DEF EarlyParts

\* The table is built.
LEMMA BuildStep ==
  ASSUME BoneInv, BuildGlobalBonetable
  PROVE  BoneInv'
<1>1. /\ stage = "build" /\ stage' = "force" /\ project' = project /\ boneflags' = boneflags
      /\ at' = at /\ passes' = passes /\ swapped' = swapped /\ global' = global
      /\ replace' = replace /\ verts' = verts /\ lods' = lods
      /\ table' = Fold(AddSource, TagImported(Fold(AddImport, <<>>, project.definebone)),
                       Indices(project.sources))
  BY DEF BuildGlobalBonetable, weights, tags
<1>2. BoneTypeOK
  BY DEF BoneInv
<1>3. IsProject(project) /\ FlagsTyped
  BY <1>1, <1>2 DEF BoneTypeOK
<1>4. table' \in Tables
  BY <1>1, <1>3, TableBuilt
<1>5. FlagsTyped'
  BY <1>1, <1>3 DEF FlagsTyped
<1>6. BoneTypeOK'
  BY <1>1, <1>2, <1>4, <1>5 DEF BoneTypeOK, BeforeMap
<1>7. SortInv' /\ ControlInv'
  <2>1. global = <<>>
    BY <1>1 DEF BoneInv, ProgressInv, BeforeMap
  <2> QED BY <1>1, <2>1 DEF SortInv, ControlInv, AfterMap, Finishing
<1>8. stage \in BeforeMap /\ stage' \in BeforeMap
  BY <1>1 DEF BeforeMap
<1> QED BY <1>1, <1>6, <1>7, <1>8, EarlyStep DEF EarlyParts

\* The hierarchy is forced.
LEMMA ForceStep ==
  ASSUME BoneInv, ForceHierarchy
  PROVE  BoneInv'
<1>1. /\ stage = "force" /\ project' = project /\ boneflags' = boneflags /\ global' = global
      /\ replace' = replace /\ verts' = verts /\ lods' = lods
      /\ \/ stage' = "error" /\ table' = table /\ at' = at /\ passes' = passes /\ swapped' = swapped
         \/ /\ table' = Fold(ForceParent, table, project.hierarchy)
            /\ stage' = "sort" /\ at' = 1 /\ passes' = 1 /\ swapped' = FALSE
  BY DEF ForceHierarchy, weights, tags
<1>2. BoneTypeOK
  BY DEF BoneInv
<1>3. table' \in Tables
  BY <1>1, <1>2, TableForced DEF BoneTypeOK
<1>4. FlagsTyped'
  BY <1>1, <1>2 DEF FlagsTyped, BoneTypeOK
<1>5. BoneTypeOK'
  <2>1. at' \in Nat \ {0}
    BY <1>1, <1>2 DEF BoneTypeOK
  <2>2. passes' \in Nat
    BY <1>1, <1>2 DEF BoneTypeOK
  <2>3. swapped' \in BOOLEAN
    BY <1>1, <1>2 DEF BoneTypeOK
  <2> QED BY <1>1, <1>2, <1>3, <1>4, <2>1, <2>2, <2>3 DEF BoneTypeOK, BeforeMap
<1>6. SortInv' /\ ControlInv'
  <2>1. global = <<>>
    BY <1>1 DEF BoneInv, ProgressInv, BeforeMap
  <2> QED BY <1>1, <2>1 DEF SortInv, ControlInv, AfterMap, Finishing
<1>7. stage \in BeforeMap /\ stage' \in BeforeMap \cup {"error"}
  BY <1>1 DEF BeforeMap
<1> QED BY <1>1, <1>5, <1>6, <1>7, EarlyStep DEF EarlyParts

\* The first bone that stands before its parent is swapped with it.
LEMMA SwapStep ==
  ASSUME BoneInv, SortSwap
  PROVE  BoneInv'
<1>1. /\ stage = "sort" /\ stage' = stage /\ project' = project /\ boneflags' = boneflags
      /\ global' = global /\ replace' = replace /\ verts' = verts /\ lods' = lods
      /\ passes' = passes /\ LateParents # {} /\ table' = Swap(table, Min(LateParents))
      /\ at' = Min(LateParents) + 1 /\ swapped' = TRUE
  BY DEF SortSwap, weights, tags
<1>2. BoneTypeOK
  BY DEF BoneInv
<1>3. /\ Len(table) \in Nat /\ DOMAIN table = 1 .. Len(table)
      /\ \A i \in DOMAIN table : table[i].parent \in 0 .. Len(table)
  BY <1>2, TableShape DEF BoneTypeOK
<1>4. PICK i : i = Min(LateParents)
  OBVIOUS
<1>5. i \in DOMAIN table /\ table[i].parent # 0 /\ i \in Nat
  <2>1. LateParents \subseteq DOMAIN table /\ LateParents \subseteq Nat
    BY <1>3 DEF LateParents
  <2>2. i \in LateParents
    BY <1>1, <1>4, <2>1, MinOf
  <2>3. table[i].parent > i
    BY <2>2 DEF LateParents
  <2> QED BY <1>3, <2>1, <2>2, <2>3
<1>6. table' \in Tables
  BY <1>1, <1>2, <1>4, <1>5, SwapTyped DEF BoneTypeOK
<1>7. FlagsTyped'
  BY <1>1, <1>2 DEF FlagsTyped, BoneTypeOK
<1>8. BoneTypeOK'
  BY <1>1, <1>2, <1>4, <1>5, <1>6, <1>7 DEF BoneTypeOK
<1>9. SortInv' /\ ControlInv'
  <2>1. global = <<>>
    BY <1>1 DEF BoneInv, ProgressInv, BeforeMap
  <2> QED BY <1>1, <2>1 DEF SortInv, ControlInv, AfterMap, Finishing
<1>10. stage \in BeforeMap /\ stage' \in BeforeMap
  BY <1>1 DEF BeforeMap
<1> QED BY <1>1, <1>8, <1>9, <1>10, EarlyStep DEF EarlyParts

\* A pass that swapped none began at the first bone: no parent comes later.
LEMMA PassStep ==
  ASSUME BoneInv, SortPass
  PROVE  BoneInv'
<1>1. /\ stage = "sort" /\ project' = project /\ boneflags' = boneflags /\ table' = table
      /\ global' = global /\ replace' = replace /\ verts' = verts /\ lods' = lods
      /\ LateParents = {} /\ at' = 1 /\ swapped' = FALSE
      /\ stage' = IF passes > CircularLimit THEN "error" ELSE IF swapped THEN "sort" ELSE "chain"
      /\ passes' = IF stage' = "sort" THEN passes + 1 ELSE passes
  BY DEF SortPass, weights, tags
<1>2. BoneTypeOK
  BY DEF BoneInv
<1>3. FlagsTyped'
  BY <1>1, <1>2 DEF FlagsTyped, BoneTypeOK
<1>4. stage' \in {"error", "sort", "chain"} /\ (stage' = "chain" => ~swapped)
  <2>1. CASE passes > CircularLimit
    BY <1>1, <2>1
  <2>2. CASE ~(passes > CircularLimit)
    BY <1>1, <2>2
  <2> QED BY <2>1, <2>2
<1>5. BoneTypeOK'
  <2>1. at' \in Nat \ {0}
    BY <1>1, <1>2 DEF BoneTypeOK
  <2>2. passes' \in Nat
    BY <1>1, <1>2 DEF BoneTypeOK
  <2>3. swapped' \in BOOLEAN
    BY <1>1, <1>2 DEF BoneTypeOK
  <2> QED BY <1>1, <1>2, <1>3, <1>4, <2>1, <2>2, <2>3 DEF BoneTypeOK, BeforeMap
<1>6. stage' = "chain" => \A i \in DOMAIN table : table[i].parent <= i
  <2> SUFFICES ASSUME stage' = "chain", NEW i \in DOMAIN table
               PROVE  table[i].parent <= i
    OBVIOUS
  <2>1. at = 1
    BY <1>1, <1>4 DEF BoneInv, SortInv
  <2>2. i \in Nat /\ i >= 1 /\ table[i].parent \in Nat
    BY <1>2, TableShape DEF BoneTypeOK
  <2>3. ~(table[i].parent > i)
    BY <1>1, <2>1, <2>2 DEF LateParents
  <2> QED BY <2>2, <2>3
<1>7. SortInv' /\ ControlInv'
  <2>1. global = <<>>
    BY <1>1 DEF BoneInv, ProgressInv, BeforeMap
  <2> QED BY <1>1, <1>4, <1>6, <2>1 DEF SortInv, ControlInv, AfterMap, Finishing
<1>8. stage \in BeforeMap /\ stage' \in BeforeMap \cup {"error"}
  BY <1>1, <1>4 DEF BeforeMap
<1> QED BY <1>1, <1>5, <1>7, <1>8, EarlyStep DEF EarlyParts

\* Flags are told upwards; the order stays.
LEMMA FlagStep ==
  ASSUME BoneInv, FlagParents
  PROVE  BoneInv'
<1>1. /\ stage = "chain" /\ stage' = "collapse" /\ project' = project /\ boneflags' = boneflags
      /\ global' = global /\ replace' = replace /\ verts' = verts /\ lods' = lods /\ at' = 1
      /\ passes' = passes /\ swapped' = swapped
      /\ table' = FlagsUp(table, AllFlags) /\ \A i \in DOMAIN table : table[i].parent # i
  BY DEF FlagParents, weights, tags
<1>2. BoneTypeOK
  BY DEF BoneInv
<1>3. FlagsTyped'
  BY <1>1, <1>2 DEF FlagsTyped, BoneTypeOK
<1>4. table' \in Tables /\ Grown(table, table')
  BY <1>1, <1>2, UsedAbove DEF BoneTypeOK
<1>5. BoneTypeOK'
  BY <1>1, <1>2, <1>3, <1>4 DEF BoneTypeOK, BeforeMap
<1>6. ParentsFirst(table')
  <2>1. \A i \in DOMAIN table : table[i].parent <= i
    BY <1>1 DEF BoneInv, SortInv
  <2>2. /\ Len(table) \in Nat /\ DOMAIN table = 1 .. Len(table)
        /\ \A i \in DOMAIN table : table[i].parent \in 0 .. Len(table)
    BY <1>2, TableShape DEF BoneTypeOK
  <2>3. ParentsFirst(table)
    BY <1>1, <2>1, <2>2 DEF ParentsFirst
  <2> QED BY <1>4, <2>3, GrownSame
<1>7. SortInv' /\ ControlInv'
  BY <1>1, <1>6 DEF SortInv, ControlInv, AfterMap, Finishing
<1>8. stage \in BeforeMap /\ stage' \in BeforeMap
  BY <1>1 DEF BeforeMap
<1> QED BY <1>1, <1>5, <1>7, <1>8, EarlyStep DEF EarlyParts

\* A bone is removed, and its children go to its parent, before them still.
LEMMA CollapseStep ==
  ASSUME BoneInv, CollapseBones
  PROVE  BoneInv'
<1>1. /\ stage = "collapse" /\ stage' \in {"collapse", "procedural"} /\ project' = project
      /\ boneflags' = boneflags /\ global' = global /\ replace' = replace /\ verts' = verts
      /\ lods' = lods /\ passes' = passes /\ swapped' = swapped /\ at' \in {at, at + 1}
      /\ table' = table \/ (at <= Len(table) /\ table' = RemoveBone(at))
  <2>1. BoneTypeOK
    BY DEF BoneInv
  <2>2. at \in Nat /\ Len(table) \in Nat
    BY <2>1, TableShape DEF BoneTypeOK
  <2> QED BY <2>2 DEF CollapseBones, weights, tags
<1>2. BoneTypeOK
  BY DEF BoneInv
<1>3. FlagsTyped'
  BY <1>1, <1>2 DEF FlagsTyped, BoneTypeOK
<1>4. table' \in Tables /\ ParentsFirst(table')
  <2>1. table \in Tables /\ ParentsFirst(table)
    BY <1>1, <1>2 DEF BoneTypeOK, BoneInv, SortInv
  <2>2. ASSUME at <= Len(table)
        PROVE  at \in DOMAIN table
    <3>1. DOMAIN table = 1 .. Len(table) /\ Len(table) \in Nat /\ at \in Nat \ {0}
      BY <1>2, TableShape DEF BoneTypeOK
    <3> QED BY <2>2, <3>1
  <2> QED BY <1>1, <2>1, <2>2, BoneRemoved
<1>5. BoneTypeOK'
  <2>1. at' \in Nat \ {0}
    BY <1>1, <1>2 DEF BoneTypeOK
  <2> QED BY <1>1, <1>2, <1>3, <1>4, <2>1 DEF BoneTypeOK, BeforeMap
<1>6. SortInv' /\ ControlInv'
  BY <1>1, <1>4 DEF SortInv, ControlInv, AfterMap, Finishing
<1>7. stage \in BeforeMap /\ stage' \in BeforeMap
  BY <1>1 DEF BeforeMap
<1> QED BY <1>1, <1>5, <1>6, <1>7, EarlyStep DEF EarlyParts

\* Procedural bones are flagged, and each has its control.
LEMMA ProceduralStep ==
  ASSUME BoneInv, TagProceduralBones
  PROVE  BoneInv'
<1> DEFINE F == [i \in DOMAIN table |->
                   IF \E n \in Procedural : ProceduralBone(table, n) = i THEN {"proc"} ELSE {}]
<1>1. /\ stage = "procedural" /\ stage' \in {"error", "map"} /\ project' = project
      /\ boneflags' = boneflags /\ global' = global /\ replace' = replace /\ verts' = verts
      /\ lods' = lods /\ at' = at /\ passes' = passes /\ swapped' = swapped
      /\ stage' = "map" => Controlled
      /\ table' = table \/ table' = Retagged(table, F)
  BY DEF TagProceduralBones, weights, tags, Controlled, Retagged
<1>2. BoneTypeOK
  BY DEF BoneInv
<1>3. FlagsTyped'
  BY <1>1, <1>2 DEF FlagsTyped, BoneTypeOK
<1>4. table' \in Tables /\ Grown(table, table')
  <2>1. \A i \in DOMAIN table : F[i] \subseteq AllFlags
    BY DEF AllFlags
  <2>2. table \in Tables /\ Grown(table, table)
    BY <1>2 DEF BoneTypeOK, Grown
  <2> HIDE DEF F
  <2>3. CASE table' = table
    BY <2>2, <2>3
  <2>4. CASE table' = Retagged(table, F)
    BY <2>1, <2>2, <2>4, FlagsAdded
  <2> QED BY <1>1, <2>3, <2>4
<1> HIDE DEF F
<1>5. BoneTypeOK'
  BY <1>1, <1>2, <1>3, <1>4 DEF BoneTypeOK, BeforeMap
<1>6. SortInv'
  <2>1. ParentsFirst(table)
    BY <1>1 DEF BoneInv, SortInv
  <2>2. ParentsFirst(table')
    BY <1>4, <2>1, GrownSame
  <2> QED BY <1>1, <2>2 DEF SortInv
<1>7. ControlInv'
  <2>1. stage' = "map" => Controlled'
    BY <1>1, <1>4, ControlledKept
  <2> QED BY <1>1, <2>1 DEF ControlInv, AfterMap, Finishing
<1>8. stage \in BeforeMap /\ stage' \in BeforeMap \cup {"error"}
  BY <1>1 DEF BeforeMap
<1> QED BY <1>1, <1>5, <1>6, <1>7, <1>8, EarlyStep DEF EarlyParts

-----------------------------------------------------------------------------
(* The steps from the mapping of the bones on *)

\* A bone of a source goes to the nearest bone that is left.
LEMMA NearestIs ==
  ASSUME IsProject(project), table \in Tables, NEW j \in DOMAIN Model.bones
  PROVE  /\ Nearest(Model, j) \in Nat
         /\ table # <<>> => Nearest(Model, j) \in DOMAIN table /\ GoesTo(j, Nearest(Model, j))
<1> DEFINE up == {j} \cup Above(Model.bones, j)
           near == {m \in up : Find(table, NameIn(Model, m)) # 0}
           kept == {m \in up : NameIn(Model, m) \in Names(table)}
<1>1. Len(table) \in Nat /\ DOMAIN table = 1 .. Len(table)
  BY TableShape
<1>2. ParentsFirst(Model.bones)
  BY ProjectFacts
<1>3. \A m : RenameBone(NameIn(Model, m)) = NameIn(Model, m)
  BY RenamedOnce DEF NameIn
<1>4. near = kept
  <2>1. \A m : Find(table, NameIn(Model, m)) # 0 <=> NameIn(Model, m) \in Names(table)
    BY <1>1, <1>3, FindFacts
  <2> QED BY <2>1
<1>5. up \subseteq 1 .. j /\ up \subseteq Nat /\ j \in Nat
  <2>1. j \in Nat /\ j >= 1
    <3>1. DOMAIN Model.bones = 1 .. Len(Model.bones) /\ Len(Model.bones) \in Nat
      BY <1>2 DEF ParentsFirst
    <3> QED BY <3>1
  <2>2. Above(Model.bones, j) \subseteq 1 .. j - 1
    BY <1>2, AboveStep
  <2> QED BY <2>1, <2>2
<1>6. Nearest(Model, j) = IF near = {} THEN 1 ELSE Find(table, NameIn(Model, Max(near)))
  BY DEF Nearest
<1>7. GoesTo(j, Nearest(Model, j)) <=>
        (kept # {} => \E m \in kept : /\ NameIn(Model, m) = table[Nearest(Model, j)].name
                                      /\ kept \subseteq {m} \cup Above(Model.bones, m))
  BY DEF GoesTo
<1>8. CASE near = {}
  <2>1. table # <<>> => 1 \in DOMAIN table
    BY <1>1
  <2> QED BY <1>4, <1>6, <1>7, <1>8, <2>1
<1>9. CASE near # {}
  <2>1. PICK m : m = Max(near)
    OBVIOUS
  <2>2. m \in near /\ \A x \in near : x <= m
    <3>1. near \subseteq Nat /\ \A x \in near : x <= j
      BY <1>5
    <3> QED BY <1>5, <1>9, <2>1, <3>1, MaxOf
  <2>3. PICK k : k = Find(table, NameIn(Model, m))
    OBVIOUS
  <2>4. Nearest(Model, j) = k /\ k # 0
    BY <1>6, <1>9, <2>1, <2>2, <2>3
  <2>5. k \in DOMAIN table /\ k \in Nat /\ table[k].name = NameIn(Model, m)
    BY <1>1, <1>3, <2>3, <2>4, FindFacts
  <2>6. kept \subseteq {m} \cup Above(Model.bones, m)
    <3> SUFFICES ASSUME NEW x \in kept, x # m
                 PROVE  x \in Above(Model.bones, m)
      OBVIOUS
    <3>1. x \in up /\ m \in up /\ x < m
      BY <1>4, <1>5, <2>2
    <3> QED BY <1>2, <3>1, AboveLine
  <2> HIDE DEF up
  <2> QED BY <1>4, <1>7, <2>2, <2>4, <2>5, <2>6
<1> QED BY <1>8, <1>9

\* Every bone of every source is mapped to the table.
LEMMA MapStep ==
  ASSUME BoneInv, MapSourcesToGlobalBonetable
  PROVE  BoneInv'
<1>1. /\ stage = "map" /\ stage' = "trees" /\ project' = project /\ boneflags' = boneflags
      /\ table' = table /\ at' = at /\ passes' = passes /\ swapped' = swapped
      /\ replace' = replace /\ verts' = verts /\ lods' = lods
      /\ global' = [s \in DOMAIN project.sources |->
           [j \in DOMAIN project.sources[s].bones |-> Nearest(project.sources[s], j)]]
  BY DEF MapSourcesToGlobalBonetable, weights, tags
<1>2. BoneTypeOK /\ IsProject(project) /\ table \in Tables
  BY DEF BoneInv, BoneTypeOK
<1>3. FlagsTyped'
  BY <1>1, <1>2 DEF FlagsTyped, BoneTypeOK
<1>4. BoneTypeOK'
  BY <1>1, <1>2, <1>3 DEF BoneTypeOK, AfterMap
<1>5. global = <<>> /\ verts = <<>> /\ lods = <<>> /\ ParentsFirst(table) /\ Controlled
  BY <1>1 DEF BoneInv, ProgressInv, SortInv, ControlInv, BeforeMap
<1>6. Model' = Model /\ 1 \in DOMAIN project.sources
  BY <1>1, <1>2, ProjectFacts DEF Model
<1>7. global' # <<>> /\ \A j \in DOMAIN Model.bones : global'[1][j] = Nearest(Model, j)
  BY <1>1, <1>6 DEF Model
<1>8. SortInv' /\ ControlInv'
  <2>1. Grown(table, table')
    BY <1>1 DEF Grown
  <2> QED BY <1>1, <1>5, <2>1, ControlledKept DEF SortInv, ControlInv
<1>9. ProgressInv'
  <2>1. lods \in Seq(Range(lods)) /\ Len(lods) = 0 /\ Len(project.lods) >= 0
    BY <1>2, <1>5, ProjectFacts, EmptySeq
  <2> QED BY <1>1, <1>5, <1>7, <2>1 DEF ProgressInv, BeforeMap, Finishing
<1>10. FixupInv' /\ BonesSetUp'
  BY <1>1 DEF FixupInv, BonesSetUp, Finishing
<1>11. MapInv'
  <2> SUFFICES ASSUME NEW j \in DOMAIN Model.bones
               PROVE  /\ global'[1][j] \in Nat
                      /\ table # <<>> => global'[1][j] \in DOMAIN table /\ GoesTo(j, global[1][j])'
    BY <1>1, <1>6 DEF MapInv
  <2>1. PICK x : x = Nearest(Model, j)
    OBVIOUS
  <2>2. x \in Nat /\ (table # <<>> => x \in DOMAIN table /\ GoesTo(j, x))
    BY <1>2, <2>1, NearestIs
  <2>3. \A m : NameIn(Model, m)' = NameIn(Model, m)
    BY <1>1, <1>6 DEF NameIn, RenameBone
  <2>4. GoesTo(j, x)' <=> GoesTo(j, x)
    BY <1>1, <1>6, <2>3 DEF GoesTo
  <2>5. global'[1][j] = x
    BY <1>7, <2>1
  <2>6. GoesTo(j, global[1][j])' <=> GoesTo(j, x)'
    BY <2>5 DEF GoesTo
  <2> QED BY <2>2, <2>4, <2>5, <2>6
<1>12. DOMAIN verts' = {} /\ DOMAIN lods' = {}
  BY <1>1, <1>5
<1>13. VertsInv' /\ LodsInv' /\ ReplacedGone'
  BY <1>12 DEF VertsInv, LodsInv, ReplacedGone
<1> QED BY <1>4, <1>8, <1>9, <1>10, <1>11, <1>13 DEF BoneInv

\* What the later steps, which add to the flags of the table at most, leave as it was.
LEMMA LateTyped ==
  ASSUME BoneInv, stage \in AfterMap, stage' \in AfterMap \cup {"error"},
         project' = project, boneflags' = boneflags, at' = at, passes' = passes,
         swapped' = swapped, global' = global, table' \in Tables, Grown(table, table'),
         DOMAIN replace' = DOMAIN replace, \A l \in DOMAIN replace : replace'[l] \in Seq(Replacement)
  PROVE  /\ BoneTypeOK' /\ SortInv' /\ ControlInv' /\ MapInv'
         /\ (table' = <<>>) = (table = <<>>)
<1>1. BoneTypeOK
  BY DEF BoneInv
<1>2. stage # "tag" /\ stage' # "tag" /\ stage' # "sort" /\ stage' # "chain"
  BY DEF AfterMap, Finishing
<1>3. FlagsTyped'
  BY <1>1, <1>2 DEF FlagsTyped, BoneTypeOK
<1>4. BoneTypeOK'
  BY <1>1, <1>3 DEF BoneTypeOK
<1>5. ParentsFirst(table) /\ Controlled
  BY DEF BoneInv, SortInv, ControlInv
<1>6. SortInv' /\ ControlInv'
  BY <1>2, <1>5, GrownSame, ControlledKept DEF SortInv, ControlInv
<1>7. (table' = <<>>) = (table = <<>>)
  <2>1. table \in Seq(Bone) /\ table' \in Seq(Bone) /\ Len(table') = Len(table)
    BY <1>1 DEF BoneTypeOK, Tables, Grown
  <2> QED BY <2>1, EmptySeq
<1>8. MapInv'
  BY <1>7, MapKept DEF BoneInv
<1> QED BY <1>4, <1>6, <1>7, <1>8

\* Replacements are added.
LEMMA TreesStep ==
  ASSUME BoneInv, ConvertBoneTreeCollapses
  PROVE  BoneInv'
<1>1. /\ stage = "trees" /\ stage' = "fixup" /\ project' = project /\ boneflags' = boneflags
      /\ table' = table /\ at' = at /\ passes' = passes /\ swapped' = swapped
      /\ global' = global /\ verts' = verts /\ lods' = lods
      /\ replace' = [l \in DOMAIN replace |->
           Fold(TreeReplacements, replace[l], project.lods[l].bonetreecollapse)]
  BY DEF ConvertBoneTreeCollapses, weights, tags
<1>2. BoneTypeOK /\ table \in Tables /\ IsProject(project)
  BY DEF BoneInv, BoneTypeOK
<1>3. verts = <<>> /\ lods = <<>> /\ global # <<>>
  BY <1>1 DEF BoneInv, ProgressInv, AfterMap
<1>4. stage \in AfterMap /\ stage' \in AfterMap
  BY <1>1 DEF AfterMap
<1>5. Grown(table, table')
  BY <1>1 DEF Grown
<1>6. DOMAIN replace' = DOMAIN replace /\ \A l \in DOMAIN replace : replace'[l] \in Seq(Replacement)
  <2>1. \A l \in DOMAIN replace : project.lods[l].bonetreecollapse \in Seq(STRING) /\ replace[l] \in Seq(Replacement)
    BY <1>2, ProjectFacts DEF BoneTypeOK
  <2> QED BY <1>1, <1>2, <2>1, TreesTyped
<1>7. BoneTypeOK' /\ SortInv' /\ ControlInv' /\ MapInv'
  BY <1>1, <1>2, <1>4, <1>5, <1>6, LateTyped
<1>8. ProgressInv'
  BY <1>1, <1>3 DEF BoneInv, ProgressInv, AfterMap, BeforeMap, Finishing
<1>9. FixupInv' /\ BonesSetUp'
  BY <1>1 DEF FixupInv, BonesSetUp, Finishing
<1>10. DOMAIN verts' = {} /\ DOMAIN lods' = {}
  BY <1>1, <1>3
<1>11. VertsInv' /\ LodsInv' /\ ReplacedGone'
  BY <1>10 DEF VertsInv, LodsInv, ReplacedGone
<1> QED BY <1>7, <1>8, <1>9, <1>11 DEF BoneInv

\* Replacements are chained, or there is nothing to chain.
LEMMA FixupStep ==
  ASSUME BoneInv, FixupReplacedBones
  PROVE  BoneInv'
<1>1. /\ stage = "fixup" /\ project' = project /\ boneflags' = boneflags
      /\ table' = table /\ at' = at /\ passes' = passes /\ swapped' = swapped
      /\ global' = global /\ verts' = verts /\ lods' = lods
      /\ \/ stage' = "fixup" /\ replace' = [l \in DOMAIN replace |-> FixupPass(replace[l])]
         \/ /\ stage' = "vertices" /\ replace' = replace
            /\ \A l \in DOMAIN replace : ~Chained(replace[l])
  BY DEF FixupReplacedBones, weights, tags
<1>2. BoneTypeOK /\ table \in Tables
  BY DEF BoneInv, BoneTypeOK
<1>3. verts = <<>> /\ lods = <<>> /\ global # <<>>
  BY <1>1 DEF BoneInv, ProgressInv, AfterMap
<1>4. stage \in AfterMap /\ stage' \in AfterMap
  BY <1>1 DEF AfterMap
<1>5. Grown(table, table')
  BY <1>1 DEF Grown
<1>6. DOMAIN replace' = DOMAIN replace /\ \A l \in DOMAIN replace : replace'[l] \in Seq(Replacement)
  BY <1>1, <1>2, FixupTyped DEF BoneTypeOK
<1>7. BoneTypeOK' /\ SortInv' /\ ControlInv' /\ MapInv'
  BY <1>1, <1>2, <1>4, <1>5, <1>6, LateTyped
<1>8. ProgressInv'
  BY <1>1, <1>3 DEF BoneInv, ProgressInv, AfterMap, BeforeMap, Finishing
<1>9. FixupInv' /\ BonesSetUp'
  BY <1>1 DEF FixupInv, BonesSetUp, Finishing
<1>10. DOMAIN verts' = {} /\ DOMAIN lods' = {}
  BY <1>1, <1>3
<1>11. VertsInv' /\ LodsInv' /\ ReplacedGone'
  BY <1>10 DEF VertsInv, LodsInv, ReplacedGone
<1> QED BY <1>7, <1>8, <1>9, <1>11 DEF BoneInv

\* The vertices of the model come into the table whole.
LEMMA VerticesStep ==
  ASSUME BoneInv, RemapVerticesToGlobalBones
  PROVE  BoneInv'
<1>1. /\ stage = "vertices" /\ stage' = "unify" /\ project' = project /\ boneflags' = boneflags
      /\ table' = table /\ at' = at /\ passes' = passes /\ swapped' = swapped
      /\ global' = global /\ replace' = replace /\ lods' = lods
      /\ verts' = [v \in DOMAIN Model.verts |->
                     Fold(AddInfluence, <<>>, Moved(Model.verts[v], global[1]))]
  BY DEF RemapVerticesToGlobalBones, weights, tags
<1>2. BoneTypeOK /\ table \in Tables /\ IsProject(project)
  BY DEF BoneInv, BoneTypeOK
<1>3. lods = <<>> /\ global # <<>>
  BY <1>1 DEF BoneInv, ProgressInv, AfterMap
<1>4. stage \in AfterMap /\ stage' \in AfterMap
  BY <1>1 DEF AfterMap
<1>5. Grown(table, table')
  BY <1>1 DEF Grown
<1>6. DOMAIN replace' = DOMAIN replace /\ \A l \in DOMAIN replace : replace'[l] \in Seq(Replacement)
  BY <1>1, <1>2 DEF BoneTypeOK
<1>7. BoneTypeOK' /\ SortInv' /\ ControlInv' /\ MapInv'
  BY <1>1, <1>2, <1>4, <1>5, <1>6, LateTyped
<1>8. Model' = Model
  BY <1>1 DEF Model
<1>9. ProgressInv'
  <2>1. lods \in Seq(Range(lods)) /\ Len(lods) = 0
    BY <1>3, EmptySeq
  <2>2. DOMAIN verts' = DOMAIN Model'.verts
    BY <1>1, <1>8
  <2>3. Len(project.lods) \in 1 .. 3
    BY <1>2, ProjectFacts
  <2>4. Len(lods) < Len(project.lods) /\ Len(lods) <= Len(project.lods)
    BY <2>1, <2>3
  <2> QED BY <1>1, <1>3, <2>1, <2>2, <2>4 DEF ProgressInv, BeforeMap
<1>10. FixupInv' /\ BonesSetUp'
  BY <1>1 DEF FixupInv, BonesSetUp, BoneInv
<1>11. DOMAIN lods' = {}
  BY <1>1, <1>3
<1>12. LodsInv' /\ ReplacedGone'
  BY <1>11 DEF LodsInv, ReplacedGone
<1>13. VertsInv'
  <2>1. \A j \in DOMAIN Model.bones : global[1][j] \in Nat
    BY <1>3 DEF BoneInv, MapInv
  <2>2. ASSUME NEW v \in DOMAIN Model.verts
        PROVE  /\ verts'[v] \in Weights /\ Distinct(verts'[v])
               /\ Total(verts'[v]) = Total(Model.verts[v])
               /\ BonesOf(verts'[v]) \subseteq {global[1][j] : j \in BonesOf(Model.verts[v])}
    <3>1. PICK w : w = Model.verts[v]
      OBVIOUS
    <3>2. w \in Weights /\ \A x \in Range(w) : x.bone \in DOMAIN Model.bones
      BY <1>2, <3>1, ProjectFacts DEF Weights
    <3>3. \A b \in BonesOf(w) : global[1][b] \in Nat
      BY <2>1, <3>2 DEF BonesOf, Range
    <3>4. PICK g : g = global[1]
      OBVIOUS
    <3>5. PICK m : m = Moved(w, g)
      OBVIOUS
    <3>6. m \in Weights /\ Total(m) = Total(w) /\ BonesOf(m) = {g[b] : b \in BonesOf(w)}
      BY <3>2, <3>3, <3>4, <3>5, MovedTo
    <3>7. verts'[v] = Fold(AddInfluence, <<>>, m)
      BY <1>1, <3>1, <3>4, <3>5
    <3>8. verts'[v] \in Weights /\ Distinct(verts'[v]) /\ Total(verts'[v]) = Total(m) /\ BonesOf(verts'[v]) \subseteq BonesOf(m)
      BY <3>6, <3>7, Gathered
    <3> QED BY <3>1, <3>4, <3>6, <3>8
  <2>3. DOMAIN verts' = DOMAIN Model.verts
    BY <1>1
  <2> SUFFICES ASSUME NEW v \in DOMAIN verts'
               PROVE  /\ v \in DOMAIN Model'.verts /\ global' # <<>>
                      /\ verts'[v] \in Weights /\ Distinct(verts'[v])
                      /\ Total(verts'[v]) = Total(Model'.verts[v])
                      /\ BonesOf(verts'[v]) \subseteq {global'[1][j] : j \in BonesOf(Model'.verts[v])}
    BY DEF VertsInv
  <2>4. Model'.verts[v] = Model.verts[v] /\ global' = global /\ v \in DOMAIN Model.verts
    BY <1>1, <1>8, <2>3
  <2>5. {global'[1][j] : j \in BonesOf(Model'.verts[v])} = {global[1][j] : j \in BonesOf(Model.verts[v])}
    BY <2>4
  <2>6. Total(Model'.verts[v]) = Total(Model.verts[v])
    BY <2>4
  <2>7. v \in DOMAIN Model'.verts /\ global' # <<>>
    BY <1>1, <1>3, <1>8, <2>3
  <2> QED BY <2>2, <2>4, <2>5, <2>6, <2>7
<1> QED BY <1>7, <1>9, <1>10, <1>12, <1>13 DEF BoneInv

\* What is in a sequence is in its range, one more included.
LEMMA AppendRange ==
  ASSUME NEW s, s \in Seq(Range(s)), NEW e
  PROVE  /\ Append(s, e) \in Seq(Range(Append(s, e))) /\ Len(Append(s, e)) = Len(s) + 1
         /\ DOMAIN Append(s, e) = DOMAIN s \cup {Len(s) + 1}
         /\ \A k \in DOMAIN s : Append(s, e)[k] = s[k]
         /\ Append(s, e)[Len(s) + 1] = e
<1>1. PICK n \in Nat : n = Len(s) /\ DOMAIN s = 1 .. n
  OBVIOUS
<1>2. PICK R : R = Range(s) \cup {e}
  OBVIOUS
<1>3. s \in Seq(R)
  BY <1>2
<1>4. PICK u : u = Append(s, e)
  OBVIOUS
<1>5. /\ u \in Seq(R) /\ Len(u) = n + 1 /\ DOMAIN u = 1 .. n + 1
      /\ \A k \in 1 .. n : u[k] = s[k] /\ u[n + 1] = e
  BY <1>1, <1>2, <1>3, <1>4
<1>6. u = [k \in 1 .. n + 1 |-> u[k]]
  BY <1>5
<1>7. u[n + 1] = e
  BY <1>1, <1>3, <1>4
<1>8. \A k \in 1 .. n + 1 : u[k] \in Range(u)
  BY <1>5 DEF Range
<1>9. u \in Seq(Range(u))
  <2>1. PICK T : T = Range(u)
    OBVIOUS
  <2>2. [k \in 1 .. n + 1 |-> u[k]] \in Seq(T)
    BY <1>8, <2>1
  <2> QED BY <1>6, <2>1, <2>2
<1>10. 1 .. n + 1 = (1 .. n) \cup {n + 1}
  OBVIOUS
<1> QED BY <1>1, <1>4, <1>5, <1>7, <1>9, <1>10

\* A level is made from them, its bones replaced and flagged.
LEMMA UnifyStep ==
  ASSUME BoneInv, UnifyLODs
  PROVE  BoneInv'
<1>1. PICK l : l = Len(lods) + 1
  OBVIOUS
<1>2. PICK map : map = Fold(EnterReplacement, Indices(table), replace[l])
  OBVIOUS
<1>3. PICK level : level = [v \in project.lods[l].uses |->
                      SortBoneWeight("weight", CollapseBoneWeights(Moved(verts[v], map)))]
  OBVIOUS
<1>4. /\ stage = "unify" /\ project' = project /\ boneflags' = boneflags /\ at' = at
      /\ passes' = passes /\ swapped' = swapped /\ global' = global /\ replace' = replace
      /\ verts' = verts /\ lods' = Append(lods, level)
      /\ table' = MarkBonesUsedByLod(table, l, lods'[l])
      /\ stage' = IF l = Len(project.lods) THEN "parents" ELSE "unify"
  BY <1>1, <1>2, <1>3 DEF UnifyLODs, BuildBoneLODMapping, tags
<1>5. BoneTypeOK /\ table \in Tables /\ IsProject(project)
  BY DEF BoneInv, BoneTypeOK
<1>6. stage \in AfterMap /\ stage' \in AfterMap
  BY <1>4 DEF AfterMap, Finishing
<1>7. /\ DOMAIN verts = DOMAIN Model.verts /\ global # <<>>
      /\ lods \in Seq(Range(lods)) /\ Len(lods) < Len(project.lods)
  BY <1>4, <1>6 DEF BoneInv, ProgressInv
<1>8. /\ Len(project.lods) \in 1 .. 3 /\ DOMAIN project.lods = 1 .. Len(project.lods)
      /\ Len(lods) \in Nat /\ DOMAIN lods = 1 .. Len(lods)
  BY <1>5, <1>7, ProjectFacts
<1>9. l \in 1 .. 3 /\ l \in DOMAIN project.lods /\ l \in DOMAIN replace /\ l \notin DOMAIN lods
  <2>1. l \in 1 .. 3 /\ l \in 1 .. Len(project.lods) /\ l \notin 1 .. Len(lods)
    <3>1. PICK a \in Nat : a = Len(lods)
      BY <1>8
    <3>2. PICK b \in 1 .. 3 : b = Len(project.lods)
      BY <1>8
    <3>3. a < b /\ l = a + 1
      BY <1>1, <1>7, <3>1, <3>2
    <3>4. b \in Nat /\ b <= 3
      OBVIOUS
    <3>5. l \in Nat /\ 1 <= l /\ l <= b /\ l <= 3 /\ ~(l <= a)
      BY <3>3, <3>4
    <3>6. l \in 1 .. 3 /\ l \in 1 .. b /\ l \notin 1 .. a
      BY <3>4, <3>5
    <3> QED BY <3>1, <3>2, <3>6
  <2> QED BY <1>5, <1>8, <2>1 DEF BoneTypeOK
<1>10. /\ lods' \in Seq(Range(lods')) /\ Len(lods') = l /\ DOMAIN lods' = DOMAIN lods \cup {l}
       /\ \A k \in DOMAIN lods : lods'[k] = lods[k]
       /\ lods'[l] = level
  BY <1>1, <1>4, <1>7, AppendRange
<1>11. table' = MarkBonesUsedByLod(table, l, level)
  BY <1>4, <1>10
<1>12. /\ table' \in Tables /\ Grown(table, table')
       /\ \A v \in DOMAIN level : \A x \in Range(level[v]) :
            x.bone \in DOMAIN table => LodFlag[l] \in table'[x.bone].flags
  BY <1>5, <1>9, <1>11, UsedByLod
<1>13. DOMAIN replace' = DOMAIN replace /\ \A k \in DOMAIN replace : replace'[k] \in Seq(Replacement)
  BY <1>4, <1>5 DEF BoneTypeOK
<1>14. /\ BoneTypeOK' /\ SortInv' /\ ControlInv' /\ MapInv'
       /\ (table' = <<>>) = (table = <<>>)
  BY <1>4, <1>6, <1>12, <1>13, LateTyped
<1>15. Model' = Model
  BY <1>4 DEF Model
<1>16. ProgressInv'
  <2>1. Len(lods') <= Len(project.lods) /\ (stage' = "unify" => Len(lods') < Len(project.lods))
    <3>1. l <= Len(project.lods) /\ l \in Nat
      BY <1>8, <1>9
    <3> QED BY <1>4, <1>8, <1>10, <3>1
  <2>2. stage' \notin BeforeMap \cup {"trees", "fixup", "vertices"} /\ stage' \notin BeforeMap
    BY <1>4 DEF BeforeMap
  <2> QED BY <1>4, <1>7, <1>10, <1>15, <2>1, <2>2 DEF ProgressInv
<1>17. FixupInv' /\ BonesSetUp' /\ ~Chained(replace[l])
  BY <1>4, <1>9 DEF FixupInv, BonesSetUp, BoneInv
<1>18. VertsInv'
  BY <1>4, VertsKept DEF BoneInv
\* The vertices of the new level.
<1>19. ASSUME NEW v \in DOMAIN level, table # <<>>
       PROVE  /\ level[v] \in Weights /\ Distinct(level[v]) /\ Total(level[v]) = Total(Model.verts[v])
              /\ BonesOf(level[v]) \subseteq {map[b] : b \in DOMAIN table}
              /\ BonesOf(level[v]) \subseteq DOMAIN table
  <2>1. v \in DOMAIN verts /\ DOMAIN level = project.lods[l].uses
    BY <1>3, <1>5, <1>7, <1>9, ProjectFacts
  <2>2. PICK w : w = verts[v]
    OBVIOUS
  <2>3. /\ w \in Weights /\ Total(w) = Total(Model.verts[v]) /\ v \in DOMAIN Model.verts
        /\ BonesOf(w) \subseteq {global[1][j] : j \in BonesOf(Model.verts[v])}
    BY <2>1, <2>2 DEF BoneInv, VertsInv
  <2>4. BonesOf(w) \subseteq DOMAIN table
    <3>1. BonesOf(Model.verts[v]) \subseteq DOMAIN Model.bones
      BY <1>5, <2>3, ProjectFacts DEF BonesOf, Range
    <3>2. \A j \in DOMAIN Model.bones : global[1][j] \in DOMAIN table
      BY <1>7, <1>19 DEF BoneInv, MapInv
    <3> QED BY <2>3, <3>1, <3>2
  <2>5. \A b \in DOMAIN table : map[b] \in DOMAIN table /\ map[b] \in Nat
    <3>1. replace[l] \in Seq(Replacement)
      BY <1>5, <1>9 DEF BoneTypeOK
    <3>2. DOMAIN table \subseteq Nat
      BY <1>5, TableShape
    <3> QED BY <1>2, <1>5, <3>1, <3>2, MappingOf
  <2>6. level[v] = SortBoneWeight("weight", CollapseBoneWeights(Moved(w, map)))
    BY <1>3, <2>1, <2>2
  <2>7. /\ level[v] \in Weights /\ Distinct(level[v]) /\ Total(level[v]) = Total(w)
        /\ BonesOf(level[v]) \subseteq {map[b] : b \in BonesOf(w)}
    BY <2>3, <2>4, <2>5, <2>6, LevelVertex
  <2> QED BY <2>3, <2>4, <2>5, <2>7
<1>20. LodsInv'
  <2> SUFFICES ASSUME table' # <<>>, NEW k \in DOMAIN lods', NEW v \in DOMAIN lods'[k]
               PROVE  /\ lods'[k][v] \in Weights /\ Distinct(lods'[k][v])
                      /\ Total(lods'[k][v]) = Total(Model'.verts[v])
                      /\ \A b \in BonesOf(lods'[k][v]) : b \in DOMAIN table' /\ LodFlag[k] \in table'[b].flags
    BY DEF LodsInv
  <2>1. /\ table # <<>> /\ DOMAIN table' = DOMAIN table
        /\ \A i \in DOMAIN table : table[i].flags \subseteq table'[i].flags
    BY <1>12, <1>14 DEF Grown
  <2>2. Total(Model'.verts[v]) = Total(Model.verts[v])
    BY <1>15
  <2>3. CASE k \in DOMAIN lods
    <3>1. PICK w : w = lods[k][v] /\ v \in DOMAIN lods[k]
      BY <1>10, <2>3
    <3>2. /\ w \in Weights /\ Distinct(w) /\ Total(w) = Total(Model.verts[v])
          /\ \A b \in BonesOf(w) : b \in DOMAIN table /\ LodFlag[k] \in table[b].flags
      BY <2>1, <2>3, <3>1 DEF BoneInv, LodsInv
    <3>3. lods'[k][v] = w
      BY <1>10, <2>3, <3>1
    <3> QED BY <2>1, <2>2, <3>2, <3>3
  <2>4. CASE k = l
    <3>1. PICK w : w = level[v] /\ v \in DOMAIN level
      BY <1>10, <2>4
    <3>2. /\ w \in Weights /\ Distinct(w) /\ Total(w) = Total(Model.verts[v])
          /\ BonesOf(w) \subseteq DOMAIN table
      BY <1>19, <2>1, <3>1
    <3>3. \A b \in BonesOf(w) : LodFlag[k] \in table'[b].flags
      <4>1. \A x \in Range(w) : x.bone \in DOMAIN table => LodFlag[l] \in table'[x.bone].flags
        BY <1>12, <3>1
      <4> QED BY <2>4, <3>2, <4>1 DEF BonesOf, Range
    <3>4. lods'[k][v] = w
      BY <1>10, <2>4, <3>1
    <3> QED BY <2>1, <2>2, <3>2, <3>3, <3>4
  <2> QED BY <1>10, <2>3, <2>4
<1>21. ReplacedGone'
  <2>1. /\ \A name : NamesBone(name)' = NamesBone(name)
        /\ \A name : Find(table, name)' = Find(table, name)
    BY <1>4, <1>12, NamesKept
  <2> DEFINE Gone(k) ==
               (\A r \in Range(replace[k]) : NamesBone(r.src) /\ NamesBone(r.dst)) =>
                 \A v \in DOMAIN lods'[k] : \A x \in Range(lods'[k][v]) :
                   \A r \in Range(replace[k]) : r.src # r.dst => x.bone # Find(table, r.src)
  <2>4. (\A k \in DOMAIN lods' : Gone(k)) => ReplacedGone'
    <3> SUFFICES ASSUME \A k \in DOMAIN lods' : Gone(k)
                 PROVE  ReplacedGone'
      OBVIOUS
    <3>1. replace' = replace
      BY <1>4
    <3> QED BY <2>1, <3>1 DEF ReplacedGone
  <2> SUFFICES ASSUME NEW k \in DOMAIN lods',
                      \A r \in Range(replace[k]) : NamesBone(r.src) /\ NamesBone(r.dst),
                      NEW v \in DOMAIN lods'[k], NEW x \in Range(lods'[k][v]),
                      NEW r \in Range(replace[k]), r.src # r.dst
               PROVE  x.bone # Find(table, r.src)
    BY <2>4
  <2>2. CASE k \in DOMAIN lods
    <3>1. lods'[k] = lods[k]
      BY <1>10, <2>2
    <3> QED BY <2>2, <3>1 DEF BoneInv, ReplacedGone
  <2>3. CASE k = l
    <3>1. v \in DOMAIN level /\ x \in Range(level[v])
      BY <1>10, <2>3
    <3>2. table # <<>>
      <4>1. r.src \in Names(table)
        BY DEF NamesBone
      <4> QED BY <4>1 DEF Names
    <3>3. PICK b \in DOMAIN table : x.bone = map[b]
      <4>1. x.bone \in BonesOf(level[v])
        BY <3>1 DEF BonesOf, Range
      <4> QED BY <1>19, <3>1, <3>2, <4>1
    <3>4. replace[l] \in Seq(Replacement)
      BY <1>5, <1>9 DEF BoneTypeOK
    <3> QED BY <1>2, <1>5, <1>17, <2>3, <3>3, <3>4, ReplacedUnused
  <2> QED BY <1>10, <2>2, <2>3
<1> QED BY <1>14, <1>16, <1>17, <1>18, <1>20, <1>21 DEF BoneInv

\* A step that leaves the levels as they are.
LEMMA LevelsKept ==
  ASSUME BoneInv, stage \in Finishing,
         stage' \in {"remap", "mark", "hitboxes", "done", "error"},
         project' = project, boneflags' = boneflags, at' = at, passes' = passes,
         swapped' = swapped, global' = global, replace' = replace, verts' = verts, lods' = lods,
         table' \in Tables, Grown(table, table'), BonesSetUp'
  PROVE  BoneInv'
<1>1. stage \in AfterMap /\ stage' \in AfterMap \cup {"error"} /\ stage \in Finishing
  BY DEF AfterMap, Finishing
<1>2. DOMAIN replace' = DOMAIN replace /\ \A k \in DOMAIN replace : replace'[k] \in Seq(Replacement)
  BY DEF BoneInv, BoneTypeOK
<1>3. /\ BoneTypeOK' /\ SortInv' /\ ControlInv' /\ MapInv'
      /\ (table' = <<>>) = (table = <<>>)
  BY <1>1, <1>2, LateTyped
<1>4. ProgressInv'
  <2>1. stage' \notin BeforeMap \cup {"trees", "fixup", "vertices", "unify"} /\ stage' \notin BeforeMap
    BY DEF BeforeMap
  <2>2. DOMAIN verts' = DOMAIN Model'.verts
    BY <1>1 DEF BoneInv, ProgressInv, Model
  <2>3. global # <<>> /\ lods \in Seq(Range(lods)) /\ Len(lods) <= Len(project.lods)
    BY <1>1 DEF BoneInv, ProgressInv
  <2> QED BY <2>1, <2>2, <2>3 DEF ProgressInv
<1>5. FixupInv'
  BY <1>1 DEF BoneInv, FixupInv
<1>6. VertsInv'
  BY VertsKept DEF BoneInv
<1>7. LodsInv'
  BY <1>3, LodsKept DEF BoneInv
<1>8. ReplacedGone'
  BY ReplacedKept DEF BoneInv
<1> QED BY <1>3, <1>4, <1>5, <1>6, <1>7, <1>8 DEF BoneInv

\* Every bone a level's vertices move with is used by the level, and all above it.
LevelsUsed ==
  table # <<>> =>
    \A l \in DOMAIN lods : \A v \in DOMAIN lods[l] : \A x \in Range(lods[l][v]) :
      \A i \in {x.bone} \cup Above(table, x.bone) : LodFlag[l] \in table[i].flags

\* That stays so when flags are added.
LEMMA LevelsUsedKept ==
  ASSUME table \in Tables, ParentsFirst(table), LodsInv, LevelsUsed,
         table' \in Tables, Grown(table, table'), lods' = lods
  PROVE  LevelsUsed'
<1> SUFFICES ASSUME table' # <<>>, NEW l \in DOMAIN lods, NEW v \in DOMAIN lods[l],
                    NEW x \in Range(lods[l][v]), NEW i \in {x.bone} \cup Above(table', x.bone)
             PROVE  LodFlag[l] \in table'[i].flags
  BY DEF LevelsUsed
<1>1. table # <<>>
  <2>1. table \in Seq(Bone) /\ table' \in Seq(Bone) /\ Len(table') = Len(table)
    BY DEF Tables, Grown
  <2> QED BY <2>1, EmptySeq
<1>2. x.bone \in DOMAIN table
  <2>1. x.bone \in BonesOf(lods[l][v])
    BY DEF BonesOf, Range
  <2> QED BY <1>1, <2>1 DEF LodsInv
<1>3. i \in {x.bone} \cup Above(table, x.bone)
  BY GrownSame
<1>4. i \in DOMAIN table
  BY <1>2, <1>3, AboveStep
<1>5. LodFlag[l] \in table[i].flags
  BY <1>1, <1>3 DEF LevelsUsed
<1> QED BY <1>4, <1>5 DEF Grown

\* The bones above those of a level get its flag.
LEMMA ParentsStep ==
  ASSUME BoneInv, MarkParentBoneLODs
  PROVE  BoneInv'
<1>1. /\ stage = "parents" /\ stage' = "remap" /\ project' = project /\ boneflags' = boneflags
      /\ at' = at /\ passes' = passes /\ swapped' = swapped /\ global' = global
      /\ replace' = replace /\ verts' = verts /\ lods' = lods
      /\ table' = FlagsUp(table, Range(LodFlag))
  BY DEF MarkParentBoneLODs, weights, tags
<1>2. BoneTypeOK /\ table \in Tables /\ IsProject(project)
  BY DEF BoneInv, BoneTypeOK
<1>3. stage \in AfterMap
  BY <1>1 DEF AfterMap, Finishing
<1>4. ParentsFirst(table) /\ LodsInv /\ DOMAIN lods \subseteq 1 .. 3
  <2>1. ParentsFirst(table) /\ LodsInv
    BY <1>3 DEF BoneInv, SortInv
  <2>2. PICK a \in Nat : a = Len(lods) /\ DOMAIN lods = 1 .. a
    BY DEF BoneInv, ProgressInv
  <2>3. PICK b \in 1 .. 3 : b = Len(project.lods)
    BY <1>2, ProjectFacts
  <2>4. a <= b
    BY <2>2, <2>3 DEF BoneInv, ProgressInv
  <2>5. 1 .. a \subseteq 1 .. 3
    BY <2>4
  <2> QED BY <2>1, <2>2, <2>5
<1>5. /\ table' \in Tables /\ Grown(table, table')
      /\ \A k \in DOMAIN table : \A i \in DOMAIN table :
           i \in {k} \cup Above(table, k) => table[k].flags \cap Range(LodFlag) \subseteq table'[i].flags
  BY <1>1, <1>2, UsedAbove
<1>6. LevelsUsed'
  <2> SUFFICES ASSUME table' # <<>>, NEW l \in DOMAIN lods, NEW v \in DOMAIN lods[l],
                      NEW x \in Range(lods[l][v]), NEW i \in {x.bone} \cup Above(table', x.bone)
               PROVE  LodFlag[l] \in table'[i].flags
    BY <1>1 DEF LevelsUsed
  <2>1. table # <<>>
    <3>1. table \in Seq(Bone) /\ table' \in Seq(Bone) /\ Len(table') = Len(table)
      BY <1>2, <1>5 DEF Tables, Grown
    <3> QED BY <3>1, EmptySeq
  <2>2. x.bone \in DOMAIN table /\ LodFlag[l] \in table[x.bone].flags
    <3>1. x.bone \in BonesOf(lods[l][v])
      BY DEF BonesOf, Range
    <3> QED BY <1>4, <2>1, <3>1 DEF LodsInv
  <2>3. i \in {x.bone} \cup Above(table, x.bone)
    BY <1>5, GrownSame
  <2>4. i \in DOMAIN table
    BY <1>4, <2>2, <2>3, AboveStep
  <2>5. LodFlag[l] \in Range(LodFlag)
    <3>1. l \in 1 .. 3
      BY <1>4
    <3> QED BY <3>1 DEF LodFlag, Range
  <2> QED BY <1>5, <2>2, <2>3, <2>4, <2>5
<1>7. BonesSetUp'
  BY <1>1, <1>6 DEF BonesSetUp, LevelsUsed
<1>8. stage \in Finishing
  BY <1>1 DEF Finishing
<1> QED BY <1>1, <1>5, <1>7, <1>8, LevelsKept

\* Procedural bones are looked up.
LEMMA RemapStep ==
  ASSUME BoneInv, RemapProceduralBones
  PROVE  BoneInv'
<1>1. /\ stage = "remap" /\ stage' \in {"mark", "error"} /\ project' = project
      /\ boneflags' = boneflags /\ table' = table
      /\ at' = at /\ passes' = passes /\ swapped' = swapped /\ global' = global
      /\ replace' = replace /\ verts' = verts /\ lods' = lods
  BY DEF RemapProceduralBones, weights, tags
<1>2. table' \in Tables /\ Grown(table, table')
  BY <1>1 DEF Grown, BoneInv, BoneTypeOK
<1>3. BonesSetUp'
  <2>1. stage' \notin {"hitboxes", "done"}
    BY <1>1
  <2> QED BY <1>1, <2>1 DEF BoneInv, BonesSetUp
<1>4. stage \in Finishing
  BY <1>1 DEF Finishing
<1> QED BY <1>1, <1>2, <1>3, <1>4, LevelsKept

\* What a procedural bone is used for, what it is used with is used for.
LEMMA MarkStep ==
  ASSUME BoneInv, MarkProceduralBoneChain
  PROVE  BoneInv'
<1>1. /\ stage = "mark" /\ stage' = "hitboxes" /\ project' = project /\ boneflags' = boneflags
      /\ at' = at /\ passes' = passes /\ swapped' = swapped /\ global' = global
      /\ replace' = replace /\ verts' = verts /\ lods' = lods
      /\ table' = Fold(MarkChain, table, Indices(project.procedural))
  BY DEF MarkProceduralBoneChain, weights, tags
<1>2. BoneTypeOK /\ table \in Tables /\ IsProject(project)
  BY DEF BoneInv, BoneTypeOK
<1>3. stage \in AfterMap
  BY <1>1 DEF AfterMap, Finishing
<1>4. ParentsFirst(table) /\ Controlled /\ LodsInv /\ LevelsUsed
  BY <1>1, <1>3 DEF BoneInv, SortInv, ControlInv, BonesSetUp, LevelsUsed
<1>5. /\ table' \in Tables /\ Grown(table, table')
      /\ \A n \in QuatInterp :
           (\A m \in QuatInterp : m > n => ProceduralBone(table, n) \notin UsedWith(table, m)) =>
             \A i \in UsedWith(table, n) :
               table'[ProceduralBone(table, n)].flags \cap UsedMask \subseteq table'[i].flags
  BY <1>1, <1>2, <1>4, ChainMarked
<1>6. LevelsUsed'
  BY <1>1, <1>2, <1>4, <1>5, LevelsUsedKept
<1>7. /\ QuatInterp' = QuatInterp
      /\ \A n : ProceduralBone(table, n)' = ProceduralBone(table, n)
      /\ \A n : UsedWith(table, n)' = UsedWith(table, n)
  BY <1>1, <1>5, ControlledKept
<1>8. BonesSetUp'
  <2>1. Passed \subseteq UsedMask
    BY DEF Passed
  <2>2. \A n \in QuatInterp :
          (\A m \in QuatInterp : m > n => ProceduralBone(table, n) \notin UsedWith(table, m)) =>
            \A i \in UsedWith(table, n) :
              table'[ProceduralBone(table, n)].flags \cap Passed \subseteq table'[i].flags
    BY <1>5, <2>1
  <2> QED BY <1>1, <1>6, <1>7, <2>2 DEF BonesSetUp, LevelsUsed
<1>9. stage \in Finishing
  BY <1>1 DEF Finishing
<1> QED BY <1>1, <1>5, <1>8, <1>9, LevelsKept

\* Setting up hit boxes adds no flag but theirs.
LEMMA HitFlags ==
  ASSUME table \in Tables, SetupHitBoxes
  PROVE  /\ table' \in Tables /\ Grown(table, table')
         /\ \A i \in DOMAIN table : table'[i].flags \cap Passed = table[i].flags \cap Passed
<1>1. CASE table' = table
  BY <1>1 DEF Grown
<1>2. CASE table' # table
  <2>1. PICK hit \in HitBones :
          table' = [i \in DOMAIN table |-> [table[i] EXCEPT !.flags =
                     @ \cup (IF Below(table, i) \cap hit # {} THEN {"hit"} ELSE {})]]
    BY <1>2 DEF SetupHitBoxes
  <2> DEFINE F == [i \in DOMAIN table |-> IF Below(table, i) \cap hit # {} THEN {"hit"} ELSE {}]
  <2>2. table' = Retagged(table, F)
    BY <2>1 DEF Retagged
  <2>3. \A i \in DOMAIN table : F[i] \subseteq {"hit"} /\ F[i] \subseteq AllFlags
    BY DEF AllFlags
  <2> HIDE DEF F
  <2>4. /\ table' \in Tables /\ Grown(table, table')
        /\ \A i \in DOMAIN table : table'[i].flags = table[i].flags \cup F[i]
    BY <2>2, <2>3, FlagsAdded
  <2>5. "hit" \notin Passed
    BY DEF Passed
  <2> QED BY <2>3, <2>4, <2>5
<1> QED BY <1>1, <1>2

\* What the chains were marked with stays: hit boxes add a use that is not passed on.
LEMMA HitBoxStep ==
  ASSUME BoneInv, SetupHitBoxes
  PROVE  BoneInv'
<1>1. /\ stage = "hitboxes" /\ stage' \in {"done", "error"} /\ project' = project
      /\ boneflags' = boneflags /\ at' = at /\ passes' = passes /\ swapped' = swapped
      /\ global' = global /\ replace' = replace /\ verts' = verts /\ lods' = lods
  BY DEF SetupHitBoxes, weights, tags
<1>2. table \in Tables
  BY DEF BoneInv, BoneTypeOK
<1>3. stage \in AfterMap /\ stage \in Finishing
  BY <1>1 DEF AfterMap, Finishing
<1>4. ParentsFirst(table) /\ Controlled /\ LodsInv /\ LevelsUsed
  BY <1>1, <1>3 DEF BoneInv, SortInv, ControlInv, BonesSetUp, LevelsUsed
<1>5. /\ table' \in Tables /\ Grown(table, table')
      /\ \A i \in DOMAIN table : table'[i].flags \cap Passed = table[i].flags \cap Passed
  BY <1>2, HitFlags
<1>6. LevelsUsed'
  BY <1>1, <1>2, <1>4, <1>5, LevelsUsedKept
<1>7. /\ QuatInterp' = QuatInterp
      /\ \A n : ProceduralBone(table, n)' = ProceduralBone(table, n)
      /\ \A n : UsedWith(table, n)' = UsedWith(table, n)
  BY <1>1, <1>5, ControlledKept
<1>8. ASSUME NEW n \in QuatInterp,
             \A m \in QuatInterp : m > n => ProceduralBone(table, n) \notin UsedWith(table, m),
             NEW i \in UsedWith(table, n)
      PROVE  table'[ProceduralBone(table, n)].flags \cap Passed \subseteq table'[i].flags
  <2>1. ProceduralBone(table, n) \in DOMAIN table /\ i \in DOMAIN table
    <3>1. n \in Procedural
      BY DEF QuatInterp
    <3> QED BY <1>2, <1>4, <3>1, ChainBones
  <2>2. table[ProceduralBone(table, n)].flags \cap Passed \subseteq table[i].flags
    BY <1>1, <1>8 DEF BoneInv, BonesSetUp
  <2> QED BY <1>5, <2>1, <2>2
<1>9. BonesSetUp'
  BY <1>1, <1>6, <1>7, <1>8 DEF BonesSetUp, LevelsUsed
<1> QED BY <1>1, <1>3, <1>5, <1>9, LevelsKept

\* A step of something else.
LEMMA BonesIdle ==
  ASSUME BoneInv, vars' = vars
  PROVE  BoneInv'
<1>1. /\ stage' = stage /\ project' = project /\ boneflags' = boneflags /\ table' = table
      /\ at' = at /\ passes' = passes /\ swapped' = swapped /\ global' = global
      /\ replace' = replace /\ verts' = verts /\ lods' = lods
  BY DEF vars, tags, weights
<1>2. Grown(table, table')
  BY <1>1 DEF Grown
<1>3. BoneTypeOK' /\ SortInv'
  <2>1. BoneTypeOK /\ SortInv
    BY DEF BoneInv
  <2>2. stage # "tag" => FlagsTyped'
    BY <1>1, <2>1 DEF BoneTypeOK, FlagsTyped
  <2> QED BY <1>1, <2>1, <2>2 DEF BoneTypeOK, SortInv
<1>4. ProgressInv'
  BY <1>1 DEF BoneInv, ProgressInv, Model
<1>5. ControlInv'
  BY <1>1, <1>2, ControlledKept DEF BoneInv, ControlInv
<1>6. FixupInv'
  BY <1>1 DEF BoneInv, FixupInv
<1>7. MapInv' /\ VertsInv' /\ LodsInv' /\ ReplacedGone'
  BY <1>1, <1>2, MapKept, VertsKept, LodsKept, ReplacedKept DEF BoneInv
<1>8. BonesSetUp'
  <2>1. /\ QuatInterp' = QuatInterp
        /\ \A n : ProceduralBone(table, n)' = ProceduralBone(table, n)
        /\ \A n : UsedWith(table, n)' = UsedWith(table, n)
    BY <1>1, <1>2, ControlledKept
  <2> QED BY <1>1, <2>1 DEF BoneInv, BonesSetUp
<1> QED BY <1>3, <1>4, <1>5, <1>6, <1>7, <1>8 DEF BoneInv

\* No step of SimplifyModel breaks the invariant.
LEMMA BonesNext ==
  ASSUME BoneInv, [Next]_vars
  PROVE  BoneInv'
<1>1. CASE TagUsedBones
  BY <1>1, TagStep
<1>2. CASE BuildGlobalBonetable
  BY <1>2, BuildStep
<1>3. CASE ForceHierarchy
  BY <1>3, ForceStep
<1>4. CASE SortSwap
  BY <1>4, SwapStep
<1>5. CASE SortPass
  BY <1>5, PassStep
<1>6. CASE FlagParents
  BY <1>6, FlagStep
<1>7. CASE CollapseBones
  BY <1>7, CollapseStep
<1>8. CASE TagProceduralBones
  BY <1>8, ProceduralStep
<1>9. CASE MapSourcesToGlobalBonetable
  BY <1>9, MapStep
<1>10. CASE ConvertBoneTreeCollapses
  BY <1>10, TreesStep
<1>11. CASE FixupReplacedBones
  BY <1>11, FixupStep
<1>12. CASE RemapVerticesToGlobalBones
  BY <1>12, VerticesStep
<1>13. CASE UnifyLODs
  BY <1>13, UnifyStep
<1>14. CASE MarkParentBoneLODs
  BY <1>14, ParentsStep
<1>15. CASE RemapProceduralBones
  BY <1>15, RemapStep
<1>16. CASE MarkProceduralBoneChain
  BY <1>16, MarkStep
<1>17. CASE SetupHitBoxes
  BY <1>17, HitBoxStep
<1>18. CASE UNCHANGED vars
  BY <1>18, BonesIdle
<1> QED
  BY <1>1, <1>2, <1>3, <1>4, <1>5, <1>6, <1>7, <1>8, <1>9, <1>10, <1>11, <1>12, <1>13, <1>14,
     <1>15, <1>16, <1>17, <1>18 DEF Next

\* In every compile that follows SimplifyModel the invariant holds at every step,
\* whatever the script and the sources are: parents stand before their children from
\* the end of EnforceHierarchy on, a bone of the model is mapped to the nearest one
\* above it that is left, and every level is made of whole vertices.
THEOREM BoneSpecInv == Spec => []BoneInv
<1>1. Init => BoneInv
  BY InitEstablishes
<1>2. BoneInv /\ [Next]_vars => BoneInv'
  BY BonesNext
<1> QED BY <1>1, <1>2, PTL DEF Spec

\* RemapVerticesToGlobalBones and CreateLODVertsInDictionary keep the total weight of
\* every vertex of the model, give no bone two weights, name bones of the table only,
\* and leave the weight of a collapsed bone to the nearest one above it that is left.
THEOREM BoneSpecWeights == Spec => []WeightsKept
<1>1. ASSUME BoneInv, table # <<>>, NEW v \in DOMAIN verts
      PROVE  /\ Total(verts[v]) = Total(Model.verts[v]) /\ Distinct(verts[v])
             /\ \A x \in Range(verts[v]) :
                  /\ x.bone \in DOMAIN table
                  /\ \E y \in Range(Model.verts[v]) : GoesTo(y.bone, x.bone)
  <2>1. IsProject(project) /\ VertsInv /\ MapInv
    BY <1>1 DEF BoneInv, BoneTypeOK
  <2>2. /\ v \in DOMAIN Model.verts /\ global # <<>>
        /\ Distinct(verts[v]) /\ Total(verts[v]) = Total(Model.verts[v])
        /\ BonesOf(verts[v]) \subseteq {global[1][j] : j \in BonesOf(Model.verts[v])}
    BY <2>1 DEF VertsInv
  <2>3. ASSUME NEW x \in Range(verts[v])
        PROVE  /\ x.bone \in DOMAIN table
               /\ \E y \in Range(Model.verts[v]) : GoesTo(y.bone, x.bone)
    <3>1. x.bone \in BonesOf(verts[v])
      BY DEF BonesOf, Range
    <3>2. PICK j \in BonesOf(Model.verts[v]) : x.bone = global[1][j]
      BY <2>2, <3>1
    <3>3. PICK y \in Range(Model.verts[v]) : y.bone = j
      BY DEF BonesOf, Range
    <3>4. j \in DOMAIN Model.bones
      BY <2>1, <2>2, <3>3, ProjectFacts
    <3>5. global[1][j] \in DOMAIN table /\ GoesTo(j, global[1][j])
      BY <1>1, <2>1, <2>2, <3>4 DEF MapInv
    <3> QED BY <3>2, <3>3, <3>5
  <2> QED BY <2>2, <2>3
<1>2. ASSUME BoneInv, table # <<>>, NEW l \in DOMAIN lods, NEW v \in DOMAIN lods[l]
      PROVE  /\ Total(lods[l][v]) = Total(Model.verts[v]) /\ Distinct(lods[l][v])
             /\ \A x \in Range(lods[l][v]) : x.bone \in DOMAIN table
  <2>1. LodsInv
    BY <1>2 DEF BoneInv
  <2>2. \A x \in Range(lods[l][v]) : x.bone \in BonesOf(lods[l][v])
    BY DEF BonesOf, Range
  <2> QED BY <1>2, <2>1, <2>2 DEF LodsInv
<1>3. BoneInv => WeightsKept
  BY <1>1, <1>2 DEF WeightsKept
<1> QED BY <1>3, BoneSpecInv, PTL

\* What FixupReplacedBones chained is what BuildBoneLODMapping enters: no vertex of a
\* level is left on a bone the script replaces at that level, as long as the bones
\* it names are in the table.
THEOREM BoneSpecReplaced == Spec => []ReplacedGone
<1>1. BoneInv => ReplacedGone
  BY DEF BoneInv
<1> QED BY <1>1, BoneSpecInv, PTL

\* MarkParentBoneLODs leaves every bone a level of detail moves vertices with, and all
\* above it, with that level's flag, and MarkProceduralBoneChain passes on what a bone
\* of a quaternion controller is used for, to its control and the bones above; in the
\* finished table that still holds of every use but those by a hit box, which are set
\* up afterwards, and of every bone no later controller adds a use to.
THEOREM BoneSpecSetUp == Spec => []BonesSetUp
<1>1. BoneInv => BonesSetUp
  BY DEF BoneInv
<1> QED BY <1>1, BoneSpecInv, PTL

\* Once EnforceHierarchy is through, no bone stands before its parent, and once the
\* bones above every bone have been told of its flags none is its own parent: every
\* loop that computes a bone from its parent in one pass over the table may do so,
\* through every removal of CollapseBones.
THEOREM BoneSpecSorted ==
  Spec => [](Sorted => \A i \in DOMAIN table : table[i].parent < i \/ (stage = "chain" /\ table[i].parent = i))
<1> DEFINE P == Sorted => \A i \in DOMAIN table :
                  table[i].parent < i \/ (stage = "chain" /\ table[i].parent = i)
<1>1. BoneInv => P
  <2> SUFFICES ASSUME BoneInv, Sorted, NEW i \in DOMAIN table
               PROVE  table[i].parent < i \/ (stage = "chain" /\ table[i].parent = i)
    OBVIOUS
  <2>1. i \in Nat /\ table[i].parent \in Nat
    BY TableShape DEF BoneInv, BoneTypeOK
  <2>2. CASE stage = "chain"
    BY <2>1, <2>2 DEF BoneInv, SortInv
  <2>3. CASE stage # "chain"
    <3>1. stage \in {"collapse", "procedural", "map"} \cup AfterMap
      BY <2>3 DEF Sorted, BoneInv, BoneTypeOK, BeforeMap
    <3>2. ParentsFirst(table)
      BY <3>1 DEF BoneInv, SortInv
    <3> QED BY <3>2 DEF ParentsFirst
  <2> QED BY <2>2, <2>3
<1> HIDE DEF P
<1>2. Spec => []P
  BY <1>1, BoneSpecInv, PTL
<1> QED BY <1>2 DEF P

-----------------------------------------------------------------------------
(* The names in the table, and the skeleton they make *)

\* No bone is in the table twice.
Unique(t) == \A i, j \in DOMAIN t : t[i].name = t[j].name => i = j

\* $definebone names bones as they are named in the end.
ImportsPlain ==
  \A i \in DOMAIN project.definebone : project.definebone[i].name \notin DOMAIN project.rename

NamesInv == ImportsPlain => Unique(table)

\* Names that stay where they are stay unique.
LEMMA UniqueSame ==
  ASSUME NEW t, NEW u, Unique(t), DOMAIN u = DOMAIN t, \A i \in DOMAIN t : u[i].name = t[i].name
  PROVE  Unique(u)
BY DEF Unique

\* A name that is not there yet comes behind the others.
LEMMA UniqueAppended ==
  ASSUME NEW t \in Tables, Unique(t), NEW b \in Bone, b.name \notin Names(t)
  PROVE  Unique(Append(t, b))
<1>1. t \in Seq(Bone) /\ Len(t) \in Nat /\ DOMAIN t = 1 .. Len(t)
  BY DEF Tables
<1>2. PICK u : u = Append(t, b)
  OBVIOUS
<1>3. /\ DOMAIN u = 1 .. Len(t) + 1 /\ u[Len(t) + 1] = b
      /\ \A i \in 1 .. Len(t) : u[i] = t[i]
  BY <1>1, <1>2
<1>4. \A i \in 1 .. Len(t) : t[i].name # b.name
  BY <1>1 DEF Names
<1>5. ASSUME NEW i \in DOMAIN u, NEW j \in DOMAIN u, u[i].name = u[j].name
      PROVE  i = j
  <2>1. /\ i \in 1 .. Len(t) \/ i = Len(t) + 1
        /\ j \in 1 .. Len(t) \/ j = Len(t) + 1
    BY <1>1, <1>3
  <2>2. CASE i \in 1 .. Len(t) /\ j \in 1 .. Len(t)
    BY <1>1, <1>3, <1>5, <2>2 DEF Unique
  <2>3. CASE i \in 1 .. Len(t) /\ j = Len(t) + 1
    BY <1>3, <1>4, <1>5, <2>3
  <2>4. CASE i = Len(t) + 1 /\ j \in 1 .. Len(t)
    BY <1>3, <1>4, <1>5, <2>4
  <2> QED BY <2>1, <2>2, <2>3, <2>4
<1> QED BY <1>2, <1>5 DEF Unique

\* Importing a bone adds it once.
LEMMA ImportUnique ==
  ASSUME IsProject(project), NEW t \in Tables, Unique(t),
         NEW imp \in [name : STRING, parent : STRING \cup {None}],
         imp.name \notin DOMAIN project.rename
  PROVE  Unique(AddImport(t, imp))
<1>1. Len(t) \in Nat /\ DOMAIN t = 1 .. Len(t)
  BY TableShape
<1>2. RenameBone(imp.name) = imp.name
  BY DEF RenameBone
<1>3. PICK k : k = Find(t, imp.name)
  OBVIOUS
<1>4. PICK p : p = IF imp.parent = None THEN 0 ELSE Find(t, imp.parent)
  OBVIOUS
<1>5. PICK new : new = [name |-> imp.name, flags |-> {}, keep |-> TRUE, parent |-> p]
  OBVIOUS
<1>6. AddImport(t, imp) = IF k = 0 THEN Append(t, new) ELSE [t EXCEPT ![k].keep = TRUE]
  BY <1>3, <1>4, <1>5 DEF AddImport
<1>7. CASE k = 0
  <2>1. imp.name \notin Names(t)
    <3>1. PICK name : name = imp.name
      OBVIOUS
    <3>2. Find(t, name) = 0 /\ RenameBone(name) = name
      BY <1>2, <1>3, <1>7, <3>1
    <3>3. name \notin Names(t)
      BY <1>1, <3>2, FindFacts
    <3> QED BY <3>1, <3>3
  <2>2. p \in Nat
    <3>1. Find(t, imp.parent) \in 0 .. Len(t)
      BY <1>1, FindFacts
    <3> QED BY <1>1, <1>4, <3>1
  <2>3. new \in Bone /\ new.name = imp.name
    BY <1>5, <2>2 DEF Bone
  <2> QED BY <1>6, <1>7, <2>1, <2>3, UniqueAppended
<1>8. CASE k # 0
  <2>1. PICK u : u = [t EXCEPT ![k].keep = TRUE]
    OBVIOUS
  <2>2. DOMAIN u = DOMAIN t /\ \A i \in DOMAIN t : u[i].name = t[i].name
    <3>1. \A i \in DOMAIN t : t[i] \in Bone
      BY TableShape
    <3> QED BY <2>1, <3>1 DEF Bone
  <2> QED BY <1>6, <1>8, <2>1, <2>2, UniqueSame
<1> QED BY <1>7, <1>8

\* So does adding a bone of a source.
LEMMA BoneUnique ==
  ASSUME IsProject(project), FlagsTyped, NEW i \in DOMAIN project.sources,
         NEW j \in DOMAIN project.sources[i].bones, NEW t \in Tables, Unique(t)
  PROVE  Unique(AddBone(i, t, j))
<1>1. Len(t) \in Nat /\ DOMAIN t = 1 .. Len(t)
  BY TableShape
<1>2. PICK s : s = project.sources[i]
  OBVIOUS
<1>3. PICK name : name = NameIn(s, j)
  OBVIOUS
<1>4. name \in STRING /\ RenameBone(name) = name
  <2>1. s.bones \in Seq(NamedBone)
    <3> DEFINE SourceRecord == [active : BOOLEAN, bones : Seq(NamedBone), verts : Seq(Seq(Influence))]
    <3>1. \A x \in SourceRecord : x.bones \in Seq(NamedBone)
      OBVIOUS
    <3>2. project.sources \in Seq(SourceRecord)
      BY ProjectFacts
    <3> HIDE DEF SourceRecord
    <3>3. s \in SourceRecord
      BY <1>2, <3>2
    <3> QED BY <3>1, <3>3
  <2>2. s.bones[j] \in NamedBone
    BY <1>2, <2>1
  <2>3. s.bones[j].name \in STRING
    BY <2>2 DEF NamedBone
  <2> QED BY <1>3, <2>3, RenamedOnce DEF NameIn
<1>5. PICK k : k = Find(t, name)
  OBVIOUS
<1>6. PICK p : p = IF s.bones[j].parent = 0 THEN 0 ELSE Find(t, NameIn(s, s.bones[j].parent))
  OBVIOUS
<1>7. PICK new : new = [name |-> name, flags |-> boneflags[i][j], keep |-> FALSE, parent |-> p]
  OBVIOUS
<1>8. AddBone(i, t, j) =
        CASE boneref[i][j] = {}             -> t
          [] boneref[i][j] # {} /\ k = 0    -> Append(t, new)
          [] boneref[i][j] # {} /\ k # 0    -> [t EXCEPT ![k].flags = @ \cup boneflags[i][j]]
  BY <1>2, <1>3, <1>5, <1>6, <1>7 DEF AddBone
<1>9. CASE boneref[i][j] = {}
  BY <1>8, <1>9
<1>10. CASE boneref[i][j] # {} /\ k = 0
  <2>1. name \notin Names(t)
    BY <1>1, <1>4, <1>5, <1>10, FindFacts
  <2>2. p \in Nat
    <3>1. Find(t, NameIn(s, s.bones[j].parent)) \in 0 .. Len(t)
      BY <1>1, FindFacts
    <3> QED BY <1>1, <1>6, <3>1
  <2>3. boneflags[i][j] \in SUBSET AllFlags
    BY DEF FlagsTyped
  <2>4. new \in Bone /\ new.name = name
    BY <1>4, <1>7, <2>2, <2>3 DEF Bone
  <2>5. AddBone(i, t, j) = Append(t, new)
    BY <1>8, <1>10
  <2> QED BY <2>1, <2>4, <2>5, UniqueAppended
<1>11. CASE boneref[i][j] # {} /\ k # 0
  <2>1. PICK u : u = [t EXCEPT ![k].flags = @ \cup boneflags[i][j]]
    OBVIOUS
  <2>2. DOMAIN u = DOMAIN t /\ \A m \in DOMAIN t : u[m].name = t[m].name
    <3>1. \A m \in DOMAIN t : t[m] \in Bone
      BY TableShape
    <3> QED BY <2>1, <3>1 DEF Bone
  <2>3. AddBone(i, t, j) = u
    BY <1>8, <1>11, <2>1
  <2> QED BY <2>2, <2>3, UniqueSame
<1> QED BY <1>9, <1>10, <1>11

\* BuildGlobalBonetable has every name once.
LEMMA BuiltUnique ==
  ASSUME IsProject(project), FlagsTyped, ImportsPlain
  PROVE  Unique(Fold(AddSource, TagImported(Fold(AddImport, <<>>, project.definebone)),
                     Indices(project.sources)))
<1> DEFINE Import2 == [name : STRING, parent : STRING \cup {None}]
           U == {t \in Tables : Unique(t)}
<1>1. <<>> \in U
  <2>1. <<>> \in Seq(Bone) /\ DOMAIN <<>> = {}
    BY EmptySeq
  <2> QED BY <2>1 DEF Tables, Unique
<1>2. PICK t : t = Fold(AddImport, <<>>, project.definebone)
  OBVIOUS
<1>3. t \in U
  <2>1. PICK s : s = project.definebone
    OBVIOUS
  <2>2. Len(s) \in Nat /\ \A k \in 1 .. Len(s) : s[k] \in Import2 /\ k \in DOMAIN s
    <3>1. s \in Seq(Import2)
      BY <2>1 DEF IsProject
    <3> HIDE DEF Import2
    <3> QED BY <3>1
  <2>3. ASSUME NEW k \in 1 .. Len(s), NEW u \in U
        PROVE  AddImport(u, s[k]) \in U
    <3>1. s[k].name \notin DOMAIN project.rename
      BY <2>1, <2>2 DEF ImportsPlain
    <3> QED BY <2>2, <3>1, ImportTyped, ImportUnique
  <2>4. Fold(AddImport, <<>>, s) \in U
    <3> HIDE DEF U
    <3> QED BY <1>1, <2>2, <2>3, ImportFold
  <2> QED BY <1>2, <2>1, <2>4
<1>4. TagImported(t) \in U
  <2> DEFINE F == [i \in DOMAIN t |-> IF t[i].name \in project.bonemerge THEN {"merge"} ELSE {}]
  <2>1. \A i \in DOMAIN t : F[i] \subseteq AllFlags
    BY DEF AllFlags
  <2>2. TagImported(t) = Retagged(t, F)
    BY DEF TagImported, Retagged
  <2> HIDE DEF F
  <2>3. PICK u : u = TagImported(t)
    OBVIOUS
  <2>4. u \in Tables /\ Grown(t, u)
    BY <1>3, <2>1, <2>2, <2>3, FlagsAdded
  <2>5. Unique(u)
    BY <1>3, <2>4, UniqueSame DEF Grown
  <2> QED BY <2>3, <2>4, <2>5
<1>5. PICK s : s = Indices(project.sources)
  OBVIOUS
<1>6. Len(s) \in Nat /\ \A k \in 1 .. Len(s) : s[k] \in DOMAIN project.sources
  <2>1. Len(project.sources) \in Nat /\ DOMAIN project.sources = 1 .. Len(project.sources)
    BY DEF IsProject
  <2> QED BY <1>5, <2>1, IndicesOf
<1>7. ASSUME NEW i \in DOMAIN project.sources, NEW u \in U
      PROVE  AddSource(u, i) \in U
  <2>1. \E n \in Nat : Len(project.sources[i].bones) = n /\ DOMAIN project.sources[i].bones = 1 .. n
    <3> DEFINE SourceRecord == [active : BOOLEAN, bones : Seq(NamedBone), verts : Seq(Seq(Influence))]
    <3>1. \A x \in SourceRecord : x.bones \in Seq(NamedBone)
      OBVIOUS
    <3>2. project.sources \in Seq(SourceRecord)
      BY ProjectFacts
    <3> HIDE DEF SourceRecord
    <3>3. project.sources[i] \in SourceRecord
      BY <3>2
    <3> QED BY <3>1, <3>3
  <2>2. PICK b : b = Indices(project.sources[i].bones)
    OBVIOUS
  <2>3. Len(b) \in Nat /\ \A k \in 1 .. Len(b) : b[k] \in DOMAIN project.sources[i].bones
    BY <2>1, <2>2, IndicesOf
  <2>4. \A k \in 1 .. Len(b) : \A v \in U : AddBone(i, v, b[k]) \in U
    BY <2>3, BoneAddedTyped, BoneUnique
  <2> HIDE DEF U
  <2> QED BY <2>2, <2>3, <2>4, BoneFold
<1>8. \A k \in 1 .. Len(s) : \A u \in U : AddSource(u, s[k]) \in U
  BY <1>6, <1>7
<1>9. PICK u \in U : u = TagImported(t)
  BY <1>4
<1>10. Fold(AddSource, u, s) \in U
  <2> HIDE DEF U
  <2> QED BY <1>6, <1>8, SourceFold
<1> QED BY <1>2, <1>5, <1>9, <1>10

\* Forcing parents renames none.
LEMMA ForcedUnique ==
  ASSUME NEW t \in Tables, Unique(t), IsProject(project)
  PROVE  Unique(Fold(ForceParent, t, project.hierarchy))
<1> DEFINE U == {u \in Tables : Unique(u)}
<1>1. PICK s : s = project.hierarchy
  OBVIOUS
<1>2. Len(s) \in Nat
  <2> DEFINE PairRecord == [child : STRING, parent : STRING \cup {None}]
  <2>1. s \in Seq(PairRecord)
    BY <1>1 DEF IsProject
  <2> HIDE DEF PairRecord
  <2> QED BY <2>1
<1>3. ASSUME NEW k \in 1 .. Len(s), NEW u \in U
      PROVE  ForceParent(u, s[k]) \in U
  <2>1. PICK v : v = ForceParent(u, s[k])
    OBVIOUS
  <2>2. DOMAIN v = DOMAIN u /\ \A i \in DOMAIN u : v[i].name = u[i].name
    <3>1. \A i \in DOMAIN u : u[i] \in Bone
      BY TableShape
    <3> QED BY <2>1, <3>1 DEF ForceParent, Bone
  <2>3. Unique(v)
    BY <2>2, UniqueSame
  <2> QED BY <2>1, <2>3, ForceTyped
<1>4. Fold(ForceParent, t, s) \in U
  <2> HIDE DEF U
  <2>1. t \in U
    BY DEF U
  <2> QED BY <1>2, <1>3, <2>1, ForceFold
<1> QED BY <1>1, <1>4

\* Two bones change places.
LEMMA SwapUnique ==
  ASSUME NEW t \in Tables, Unique(t), NEW i \in DOMAIN t, t[i].parent # 0
  PROVE  Unique(Swap(t, i))
<1>1. /\ Len(t) \in Nat /\ DOMAIN t = 1 .. Len(t)
      /\ \A k \in DOMAIN t : t[k] \in Bone /\ t[k].parent \in 0 .. Len(t)
  BY TableShape
<1>2. PICK j : j = t[i].parent
  OBVIOUS
<1>3. j \in DOMAIN t
  BY <1>1, <1>2
<1>4. PICK s : s = [k \in DOMAIN t |-> t[Relink(k, i, j)]]
  OBVIOUS
<1>5. PICK u : u = Swap(t, i)
  OBVIOUS
<1>6. u = [k \in DOMAIN t |-> IF k < i THEN s[k] ELSE [s[k] EXCEPT !.parent = Relink(@, i, j)]]
  BY <1>2, <1>4, <1>5 DEF Swap
<1>7. \A k \in DOMAIN t : Relink(k, i, j) \in DOMAIN t
  BY <1>3 DEF Relink
<1>8. ASSUME NEW k \in DOMAIN t
      PROVE  u[k].name = t[Relink(k, i, j)].name
  <2>1. s[k] = t[Relink(k, i, j)] /\ s[k] \in Bone
    BY <1>1, <1>4, <1>7
  <2>2. u[k] = IF k < i THEN s[k] ELSE [s[k] EXCEPT !.parent = Relink(s[k].parent, i, j)]
    BY <1>6
  <2>3. [s[k] EXCEPT !.parent = Relink(s[k].parent, i, j)].name = s[k].name
    BY <2>1 DEF Bone
  <2> QED BY <2>1, <2>2, <2>3
<1>9. DOMAIN u = DOMAIN t
  BY <1>6
<1>10. \A k, m \in DOMAIN t : Relink(k, i, j) = Relink(m, i, j) => k = m
  BY DEF Relink
<1> QED BY <1>5, <1>7, <1>8, <1>9, <1>10 DEF Unique

\* What RemoveBone leaves, bone by bone.
LEMMA RemovedBone ==
  ASSUME table \in Tables, NEW k \in DOMAIN table
  PROVE  /\ DOMAIN RemoveBone(k) = 1 .. Len(table) - 1
         /\ \A i \in 1 .. Len(table) - 1 : \E m \in DOMAIN table :
              /\ m = IF i < k THEN i ELSE i + 1
              /\ RemoveBone(k)[i].name = table[m].name
              /\ RemoveBone(k)[i].parent = IF table[m].parent = k THEN table[k].parent
                                           ELSE IF table[m].parent > k THEN table[m].parent - 1
                                           ELSE table[m].parent
<1>1. /\ Len(table) \in Nat /\ DOMAIN table = 1 .. Len(table) /\ table \in Seq(Bone)
      /\ \A i \in DOMAIN table : table[i] \in Bone
  BY TableShape DEF Tables
<1>2. PICK n \in Nat : n = Len(table) - 1
  <2>1. Len(table) - 1 \in Nat
    BY <1>1
  <2> QED BY <2>1
<1>3. PICK s : s = RemoveAt(table, k)
  OBVIOUS
<1>4. /\ Len(s) = n /\ s \in Seq(Bone)
      /\ \A i \in DOMAIN s : s[i] = IF i < k THEN table[i] ELSE table[i + 1]
  BY <1>1, <1>2, <1>3, RemovedAt
<1>5. DOMAIN s = 1 .. n
  BY <1>4
<1>6. PICK u : u = [i \in 1 .. n |-> [s[i] EXCEPT !.parent =
                     IF @ = k THEN table[k].parent ELSE IF @ > k THEN @ - 1 ELSE @]]
  OBVIOUS
<1>7. RemoveBone(k) = u
  BY <1>3, <1>5, <1>6 DEF RemoveBone
<1>8. ASSUME NEW i \in 1 .. n
      PROVE  \E m \in DOMAIN table :
              /\ m = IF i < k THEN i ELSE i + 1
              /\ u[i].name = table[m].name
              /\ u[i].parent = IF table[m].parent = k THEN table[k].parent
                               ELSE IF table[m].parent > k THEN table[m].parent - 1
                               ELSE table[m].parent
  <2>1. PICK b \in Bone : b = s[i]
    BY <1>4, <1>5
  <2>2. PICK m \in DOMAIN table : b = table[m] /\ m = IF i < k THEN i ELSE i + 1
    BY <1>1, <1>2, <1>4, <1>5, <2>1
  <2>3. PICK r : r = IF b.parent = k THEN table[k].parent ELSE IF b.parent > k THEN b.parent - 1 ELSE b.parent
    OBVIOUS
  <2>4. u[i] = [b EXCEPT !.parent = r]
    BY <1>6, <2>1, <2>3
  <2>5. u[i].name = b.name /\ u[i].parent = r
    BY <2>1, <2>4 DEF Bone
  <2> QED BY <2>2, <2>3, <2>5
<1> QED BY <1>2, <1>6, <1>7, <1>8

\* A bone that is removed leaves the names of the others.
LEMMA RemovedUnique ==
  ASSUME table \in Tables, NEW k \in DOMAIN table, Unique(table)
  PROVE  Unique(RemoveBone(k))
<1>1. DOMAIN table = 1 .. Len(table) /\ Len(table) \in Nat /\ k \in Nat
  BY TableShape
<1>2. PICK u : u = RemoveBone(k)
  OBVIOUS
<1>3. /\ DOMAIN u = 1 .. Len(table) - 1
      /\ \A i \in 1 .. Len(table) - 1 : \E m \in DOMAIN table :
           m = (IF i < k THEN i ELSE i + 1) /\ u[i].name = table[m].name
  BY <1>2, RemovedBone
<1>4. ASSUME NEW i \in DOMAIN u, NEW j \in DOMAIN u, u[i].name = u[j].name
      PROVE  i = j
  <2>1. PICK m \in DOMAIN table : m = (IF i < k THEN i ELSE i + 1) /\ u[i].name = table[m].name
    BY <1>3
  <2>2. PICK n \in DOMAIN table : n = (IF j < k THEN j ELSE j + 1) /\ u[j].name = table[n].name
    BY <1>3
  <2>3. m = n
    BY <1>4, <2>1, <2>2 DEF Unique
  <2>4. i \in Nat /\ j \in Nat
    BY <1>1, <1>3
  <2> QED BY <1>1, <2>1, <2>2, <2>3, <2>4
<1> QED BY <1>2, <1>4 DEF Unique

\* Only flags change: the names stay what they are.
LEMMA NamesGrown ==
  ASSUME NamesInv, project' = project, table' = table \/ Grown(table, table')
  PROVE  NamesInv'
<1> SUFFICES ASSUME ImportsPlain'
             PROVE  Unique(table')
  BY DEF NamesInv
<1>1. Unique(table)
  BY DEF NamesInv, ImportsPlain
<1>2. CASE table' = table
  BY <1>1, <1>2
<1>3. CASE Grown(table, table')
  BY <1>1, <1>3, UniqueSame DEF Grown
<1> QED BY <1>2, <1>3

\* No step of SimplifyModel puts a name into the table that is there already.
LEMMA NamesNext ==
  ASSUME BoneInv, NamesInv, [Next]_vars
  PROVE  NamesInv'
<1>1. IsProject(project) /\ table \in Tables /\ BoneTypeOK
  BY DEF BoneInv, BoneTypeOK
<1>2. CASE TagUsedBones
  BY <1>2, NamesGrown DEF TagUsedBones
<1>3. CASE BuildGlobalBonetable
  <2> SUFFICES ASSUME ImportsPlain'
               PROVE  Unique(table')
    BY DEF NamesInv
  <2>1. /\ stage = "build" /\ project' = project
        /\ table' = Fold(AddSource, TagImported(Fold(AddImport, <<>>, project.definebone)),
                         Indices(project.sources))
    BY <1>3 DEF BuildGlobalBonetable
  <2>2. FlagsTyped /\ ImportsPlain
    BY <1>1, <2>1 DEF BoneTypeOK, ImportsPlain
  <2> QED BY <1>1, <2>1, <2>2, BuiltUnique
<1>4. CASE ForceHierarchy
  <2>1. project' = project /\ (table' = table \/ table' = Fold(ForceParent, table, project.hierarchy))
    BY <1>4 DEF ForceHierarchy
  <2>2. CASE table' = table
    BY <2>1, <2>2, NamesGrown
  <2>3. CASE table' = Fold(ForceParent, table, project.hierarchy)
    BY <1>1, <2>1, <2>3, ForcedUnique DEF NamesInv, ImportsPlain
  <2> QED BY <2>1, <2>2, <2>3
<1>5. CASE SortSwap
  <2>1. project' = project /\ LateParents # {} /\ table' = Swap(table, Min(LateParents))
    BY <1>5 DEF SortSwap
  <2>2. PICK i : i = Min(LateParents)
    OBVIOUS
  <2>3. i \in DOMAIN table /\ table[i].parent # 0
    <3>1. /\ DOMAIN table = 1 .. Len(table) /\ Len(table) \in Nat
          /\ \A k \in DOMAIN table : table[k].parent \in 0 .. Len(table)
      BY <1>1, TableShape
    <3>2. LateParents \subseteq Nat
      BY <3>1 DEF LateParents
    <3>3. i \in LateParents
      BY <2>1, <2>2, <3>2, MinOf
    <3> QED BY <3>1, <3>3 DEF LateParents
  <2> QED BY <1>1, <2>1, <2>2, <2>3, SwapUnique DEF NamesInv, ImportsPlain
<1>6. CASE SortPass
  BY <1>6, NamesGrown DEF SortPass
<1>7. CASE FlagParents
  <2>1. project' = project /\ table' = FlagsUp(table, AllFlags)
    BY <1>7 DEF FlagParents
  <2> QED BY <1>1, <2>1, UsedAbove, NamesGrown
<1>8. CASE CollapseBones
  <2>1. /\ project' = project
        /\ table' = table \/ (at <= Len(table) /\ table' = RemoveBone(at))
    <3>1. at \in Nat /\ Len(table) \in Nat
      BY <1>1, TableShape DEF BoneTypeOK
    <3> QED BY <1>8, <3>1 DEF CollapseBones
  <2>2. CASE table' = table
    BY <2>1, <2>2, NamesGrown
  <2>3. CASE at <= Len(table) /\ table' = RemoveBone(at)
    <3>1. at \in DOMAIN table
      BY <1>1, <2>3, TableShape DEF BoneTypeOK
    <3> QED BY <1>1, <2>1, <2>3, <3>1, RemovedUnique DEF NamesInv, ImportsPlain
  <2> QED BY <2>1, <2>2, <2>3
<1>9. CASE TagProceduralBones
  <2> DEFINE F == [i \in DOMAIN table |->
                     IF \E n \in Procedural : ProceduralBone(table, n) = i THEN {"proc"} ELSE {}]
  <2>1. project' = project /\ (table' = table \/ table' = Retagged(table, F))
    BY <1>9 DEF TagProceduralBones, Retagged
  <2>2. \A i \in DOMAIN table : F[i] \subseteq AllFlags
    BY DEF AllFlags
  <2> HIDE DEF F
  <2> QED BY <1>1, <2>1, <2>2, FlagsAdded, NamesGrown
<1>10. CASE MapSourcesToGlobalBonetable
  BY <1>10, NamesGrown DEF MapSourcesToGlobalBonetable
<1>11. CASE ConvertBoneTreeCollapses
  BY <1>11, NamesGrown DEF ConvertBoneTreeCollapses
<1>12. CASE FixupReplacedBones
  BY <1>12, NamesGrown DEF FixupReplacedBones
<1>13. CASE RemapVerticesToGlobalBones
  BY <1>13, NamesGrown DEF RemapVerticesToGlobalBones
<1>14. CASE UnifyLODs
  <2>1. PICK l : l = Len(lods) + 1
    OBVIOUS
  <2>2. project' = project /\ table' = MarkBonesUsedByLod(table, l, lods'[l])
    BY <1>14, <2>1 DEF UnifyLODs
  <2>3. l \in 1 .. 3
    <3>1. stage = "unify"
      BY <1>14 DEF UnifyLODs
    <3>2. lods \in Seq(Range(lods)) /\ Len(lods) < Len(project.lods)
      BY <3>1 DEF BoneInv, ProgressInv
    <3>3. Len(lods) \in Nat /\ Len(project.lods) \in 1 .. 3
      BY <1>1, <3>2, ProjectFacts
    <3>4. PICK a \in Nat : a = Len(lods)
      BY <3>3
    <3>5. PICK b \in 1 .. 3 : b = Len(project.lods)
      BY <3>3
    <3>6. a < b /\ l = a + 1
      BY <2>1, <3>2, <3>4, <3>5
    <3> QED BY <3>6
  <2> QED BY <1>1, <2>2, <2>3, UsedByLod, NamesGrown
<1>15. CASE MarkParentBoneLODs
  <2>1. project' = project /\ table' = FlagsUp(table, Range(LodFlag))
    BY <1>15 DEF MarkParentBoneLODs
  <2> QED BY <1>1, <2>1, UsedAbove, NamesGrown
<1>16. CASE RemapProceduralBones
  BY <1>16, NamesGrown DEF RemapProceduralBones
<1>17. CASE MarkProceduralBoneChain
  <2>1. /\ stage = "mark" /\ project' = project
        /\ table' = Fold(MarkChain, table, Indices(project.procedural))
    BY <1>17 DEF MarkProceduralBoneChain
  <2>2. ParentsFirst(table) /\ Controlled
    <3>1. stage \in AfterMap
      BY <2>1 DEF AfterMap, Finishing
    <3> QED BY <3>1 DEF BoneInv, SortInv, ControlInv
  <2>3. Grown(table, table')
    BY <1>1, <2>1, <2>2, ChainMarked
  <2> QED BY <2>1, <2>3, NamesGrown
<1>18. CASE SetupHitBoxes
  <2>1. project' = project
    BY <1>18 DEF SetupHitBoxes
  <2>2. Grown(table, table')
    BY <1>1, <1>18, HitFlags
  <2> QED BY <2>1, <2>2, NamesGrown
<1>19. CASE UNCHANGED vars
  BY <1>19, NamesGrown DEF vars
<1> QED
  BY <1>2, <1>3, <1>4, <1>5, <1>6, <1>7, <1>8, <1>9, <1>10, <1>11, <1>12, <1>13, <1>14, <1>15,
     <1>16, <1>17, <1>18, <1>19 DEF Next

\* The one index of a name.
LEMMA NamedIs ==
  ASSUME NEW t, Unique(t), NEW i \in DOMAIN t
  PROVE  Named(t, t[i].name) = i
<1>1. \E k \in DOMAIN t : t[k].name = t[i].name
  OBVIOUS
<1>2. Named(t, t[i].name) \in DOMAIN t /\ t[Named(t, t[i].name)].name = t[i].name
  BY <1>1 DEF Named
<1> QED BY <1>2 DEF Unique

\* Where a bone is removed, what it carried is carried by its parent.
LEMMA RemovedKin ==
  ASSUME table \in Tables, ParentsFirst(table), Unique(table), NEW k \in DOMAIN table,
         table' = RemoveBone(k)
  PROVE  SameKin
<1>1. /\ Len(table) \in Nat /\ DOMAIN table = 1 .. Len(table) /\ k \in Nat
      /\ \A i \in DOMAIN table : table[i].name \in STRING /\ table[i].parent \in 0 .. Len(table)
  BY TableShape DEF Bone
<1>2. PICK u : u = table'
  OBVIOUS
<1>3. Unique(u)
  BY <1>2, RemovedUnique
<1>4. /\ DOMAIN u = 1 .. Len(table) - 1
      /\ \A i \in 1 .. Len(table) - 1 : \E m \in DOMAIN table :
           /\ m = IF i < k THEN i ELSE i + 1
           /\ u[i].name = table[m].name
           /\ u[i].parent = IF table[m].parent = k THEN table[k].parent
                            ELSE IF table[m].parent > k THEN table[m].parent - 1
                            ELSE table[m].parent
  BY <1>2, RemovedBone
<1>5. ASSUME NEW m \in DOMAIN table, m # k
      PROVE  LET i == IF m < k THEN m ELSE m - 1
             IN  i \in DOMAIN u /\ u[i].name = table[m].name
  <2>1. PICK i : i = IF m < k THEN m ELSE m - 1
    OBVIOUS
  <2>2. i \in 1 .. Len(table) - 1 /\ m = IF i < k THEN i ELSE i + 1
    BY <1>1, <1>5, <2>1
  <2>3. u[i].name = table[m].name
    BY <1>4, <2>2
  <2> QED BY <1>4, <2>1, <2>2, <2>3
<1>6. table[k].name \notin Names(u)
  <2>1. ASSUME NEW i \in DOMAIN u
        PROVE  u[i].name # table[k].name
    <3>1. PICK m \in DOMAIN table : m = (IF i < k THEN i ELSE i + 1) /\ u[i].name = table[m].name
      BY <1>4
    <3>2. i \in Nat
      BY <1>1, <1>4
    <3>3. m # k
      BY <1>1, <3>1, <3>2
    <3> QED BY <3>1, <3>3 DEF Unique
  <2> QED BY <2>1 DEF Names
<1>7. ASSUME NEW i \in DOMAIN u
      PROVE  Parent(u, u[i].name) = NextOfKin(u[i].name)
  <2>1. PICK m \in DOMAIN table :
          /\ m = IF i < k THEN i ELSE i + 1
          /\ u[i].name = table[m].name
          /\ u[i].parent = IF table[m].parent = k THEN table[k].parent
                           ELSE IF table[m].parent > k THEN table[m].parent - 1
                           ELSE table[m].parent
    BY <1>4
  <2>2. PICK b : b = u[i].name
    OBVIOUS
  <2>3. Named(u, b) = i /\ Named(table, b) = m
    BY <1>3, <2>1, <2>2, NamedIs
  <2>4. PICK p \in 0 .. Len(table) : p = table[m].parent
    BY <1>1
  <2>5. PICK q \in 0 .. Len(table) : q = u[i].parent
    <3>1. table[k].parent \in 0 .. Len(table)
      BY <1>1
    <3> QED BY <1>1, <2>1, <2>4, <3>1
  <2>6. /\ Parent(table, b) = IF p = 0 THEN None ELSE table[p].name
        /\ Parent(u, b) = IF q = 0 THEN None ELSE u[q].name
    BY <2>3, <2>4, <2>5 DEF Parent
  <2>7. q = IF p = k THEN table[k].parent ELSE IF p > k THEN p - 1 ELSE p
    BY <2>1, <2>4, <2>5
  <2>8. PICK kin : kin = Parent(table, b)
    OBVIOUS
  <2>9. NextOfKin(b) = IF kin \in Names(u) \cup {None} THEN kin ELSE Parent(table, kin)
    BY <1>2, <2>8 DEF NextOfKin
  <2>10. CASE p = 0
    <3>1. q = 0
      BY <1>1, <2>7, <2>10
    <3> QED BY <2>2, <2>6, <2>8, <2>9, <2>10, <3>1
  <2>11. CASE p # 0 /\ p # k
    <3>1. p \in DOMAIN table
      BY <1>1, <2>11
    <3>2. q = IF p < k THEN p ELSE p - 1
      BY <1>1, <2>7, <2>11
    <3>3. q \in DOMAIN u /\ u[q].name = table[p].name
      BY <1>5, <2>11, <3>1, <3>2
    <3>4. q # 0
      BY <1>1, <1>4, <3>3
    <3>5. kin = table[p].name /\ kin \in Names(u) /\ Parent(u, b) = kin
      BY <2>6, <2>8, <2>11, <3>3, <3>4 DEF Names
    <3> QED BY <2>2, <2>9, <3>5
  <2>12. CASE p = k
    <3>1. kin = table[k].name /\ k # 0
      BY <1>1, <2>6, <2>8, <2>12
    <3>2. kin # None
      BY <1>1, <3>1, BoneAssumption
    <3>3. NextOfKin(b) = Parent(table, kin)
      BY <1>6, <2>9, <3>1, <3>2
    <3>4. Named(table, kin) = k
      BY <3>1, NamedIs
    <3>5. q = table[k].parent /\ q < k
      BY <1>1, <2>7, <2>12 DEF ParentsFirst
    <3>6. Parent(table, kin) = IF q = 0 THEN None ELSE table[q].name
      BY <3>4, <3>5 DEF Parent
    <3>7. CASE q = 0
      BY <2>2, <2>6, <3>3, <3>6, <3>7
    <3>8. CASE q # 0
      <4>1. q \in DOMAIN table /\ q # k
        BY <1>1, <3>5, <3>8
      <4>2. u[q].name = table[q].name
        BY <1>5, <3>5, <4>1
      <4> QED BY <2>2, <2>6, <3>3, <3>6, <3>8, <4>2
    <3> QED BY <3>7, <3>8
  <2> QED BY <2>10, <2>11, <2>12
<1> QED BY <1>2, <1>7 DEF SameKin, Names

\* A table that is left alone keeps its skeleton.
LEMMA KeptKin ==
  ASSUME table \in Tables, Unique(table), table' = table
  PROVE  SameKin
<1>1. /\ Len(table) \in Nat /\ DOMAIN table = 1 .. Len(table)
      /\ \A i \in DOMAIN table : table[i].parent \in 0 .. Len(table)
  BY TableShape
<1>2. ASSUME NEW i \in DOMAIN table
      PROVE  Parent(table', table[i].name) = NextOfKin(table[i].name)
  <2>1. PICK b : b = table[i].name
    OBVIOUS
  <2>2. Named(table, b) = i
    BY <2>1, NamedIs
  <2>3. Parent(table, b) \in Names(table) \cup {None}
    <3>1. table[i].parent # 0 => table[i].parent \in DOMAIN table
      BY <1>1
    <3> QED BY <2>2, <3>1 DEF Parent, Names
  <2>4. Parent(table', b) = Parent(table, b) /\ Names(table') = Names(table)
    OBVIOUS
  <2> QED BY <2>1, <2>3, <2>4 DEF NextOfKin
<1> QED BY <1>2 DEF SameKin, Names

\* The table has no name twice, from BuildGlobalBonetable through swaps and removals to
\* the end, as long as $definebone uses the names of the end: findGlobalBone then
\* finds the one bone there is.
THEOREM BoneSpecNames == Spec => [](ImportsPlain => Unique(table))
<1>1. Init => NamesInv
  BY EmptySeq DEF Init, NamesInv, Unique
<1>2. BoneInv /\ NamesInv /\ [Next]_vars => NamesInv'
  BY NamesNext
<1>3. Spec => []NamesInv
  BY <1>1, <1>2, BoneSpecInv, PTL DEF Spec
<1>4. NamesInv => (ImportsPlain => Unique(table))
  BY DEF NamesInv
<1> QED BY <1>3, <1>4, PTL

\* CollapseBones takes bones out of the skeleton one by one and leaves it otherwise as it
\* was: a bone keeps its parent, or gets that of the parent that is taken out.
THEOREM BoneSpecKin == Spec => [][(ImportsPlain /\ stage = "collapse") => SameKin]_vars
<1>1. ASSUME BoneInv, NamesInv, [Next]_vars
      PROVE  [(ImportsPlain /\ stage = "collapse") => SameKin]_vars
  <2> SUFFICES ASSUME Next, ImportsPlain, stage = "collapse"
               PROVE  SameKin
    BY <1>1
  <2>1. BoneTypeOK /\ table \in Tables /\ Unique(table)
    BY <1>1 DEF BoneInv, BoneTypeOK, NamesInv
  <2>2. ParentsFirst(table)
    BY <1>1 DEF BoneInv, SortInv
  <2>3. at \in Nat /\ at # 0 /\ Len(table) \in Nat /\ DOMAIN table = 1 .. Len(table)
    BY <2>1, TableShape DEF BoneTypeOK
  <2>4. CollapseBones
    <3>1. ~TagUsedBones
      BY DEF TagUsedBones
    <3>2. ~BuildGlobalBonetable
      BY DEF BuildGlobalBonetable
    <3>3. ~ForceHierarchy
      BY DEF ForceHierarchy
    <3>4. ~SortSwap
      BY DEF SortSwap
    <3>5. ~SortPass
      BY DEF SortPass
    <3>6. ~FlagParents
      BY DEF FlagParents
    <3>7. ~TagProceduralBones
      BY DEF TagProceduralBones
    <3>8. ~MapSourcesToGlobalBonetable
      BY DEF MapSourcesToGlobalBonetable
    <3>9. ~ConvertBoneTreeCollapses
      BY DEF ConvertBoneTreeCollapses
    <3>10. ~FixupReplacedBones
      BY DEF FixupReplacedBones
    <3>11. ~RemapVerticesToGlobalBones
      BY DEF RemapVerticesToGlobalBones
    <3>12. ~UnifyLODs
      BY DEF UnifyLODs
    <3>13. ~MarkParentBoneLODs
      BY DEF MarkParentBoneLODs
    <3>14. ~RemapProceduralBones
      BY DEF RemapProceduralBones
    <3>15. ~MarkProceduralBoneChain
      BY DEF MarkProceduralBoneChain
    <3>16. ~SetupHitBoxes
      BY DEF SetupHitBoxes
    <3> QED BY <3>1, <3>2, <3>3, <3>4, <3>5, <3>6, <3>7, <3>8, <3>9, <3>10,
               <3>11, <3>12, <3>13, <3>14, <3>15, <3>16 DEF Next
  <2>5. table' = table \/ (at <= Len(table) /\ table' = RemoveBone(at))
    BY <2>3, <2>4 DEF CollapseBones
  <2>6. CASE table' = table
    BY <2>1, <2>6, KeptKin
  <2>7. CASE at <= Len(table) /\ table' = RemoveBone(at)
    <3>1. at \in DOMAIN table
      BY <2>3, <2>7
    <3> QED BY <2>1, <2>2, <2>7, <3>1, RemovedKin
  <2> QED BY <2>5, <2>6, <2>7
<1>2. NamesInv <=> (ImportsPlain => Unique(table))
  BY DEF NamesInv
<1> QED BY <1>1, <1>2, BoneSpecInv, BoneSpecNames, PTL DEF Spec

-----------------------------------------------------------------------------
(* CompileSession: its type, its invariant, its theorems *)

USE SessionAssumption

StepNames == {"start", "create", "launch", "wait", "pumps", "finally", "returned"}
PumpStates == {"off", "reading", "ended", "failed"}

SessionTypeOK ==
  /\ gameinfo \in {None, "user", "minimal", "partial"} /\ due \in {{None}, {"user"}, {None, "user"}}
  /\ step \in [Sessions -> StepNames]
  /\ created \in [Sessions -> BOOLEAN] /\ cancelled \in [Sessions -> BOOLEAN]
  /\ captured \subseteq Sessions
  /\ tool \in [Sessions -> {"none", "running", "ended"}] /\ server \in [Sessions -> BOOLEAN]
  /\ left \in [Sessions -> [Session!Streams -> Nat]]
  /\ pipe \in [Sessions -> [Session!Streams -> Seq(Nat)]]
  /\ pump \in [Sessions -> [Session!Streams -> PumpStates]]
  /\ log \in [Sessions -> [Session!Streams -> Seq(Nat)]]
  /\ acts \in Nat /\ faults \subseteq Sessions

\* A session that created gameinfo.txt and has not cleaned up.
Owner(s) == created[s] /\ step[s] \in {"launch", "wait", "pumps", "finally"}

\* A session that created a file is past that point.
CreatedIsPast ==
  \A s \in Sessions : created[s] => step[s] \in {"launch", "wait", "pumps", "finally", "returned"}

\* Whose gameinfo.txt it is.  A file of the user's that must stay is there, and no
\* session will write or delete one.
Folder ==
  /\ faults = {} => /\ gameinfo # "partial"
                    /\ gameinfo = "minimal" => \E s \in Sessions : Owner(s)
  /\ gameinfo = "user" => "user" \in due
  /\ due = {"user"} => gameinfo = "user" /\ \A s \in Sessions : ~Session!WillReplace(s)

\* The lines read and the lines in the pipe are the lines 1, 2, ... of the stream.
InOrder(done, waiting) ==
  /\ \A n \in 1 .. Len(done) : done[n] = n
  /\ \A n \in 1 .. Len(waiting) : waiting[n] = Len(done) + n

PumpOK(phase, state, run, done, waiting) ==
  /\ state # "failed" => InOrder(done, waiting)
  /\ state = "off" => done = <<>> /\ waiting = <<>> /\ run # "running"
  /\ state = "ended" => waiting = <<>> /\ run = "ended"
  /\ phase \in {"start", "create", "launch"} => state = "off"
  /\ phase \in {"finally", "returned"} => state # "reading"

Pump ==
  \A s \in captured, x \in Session!Streams :
    PumpOK(step[s], pump[s][x], tool[s], log[s][x], pipe[s][x])

SessionIInv == SessionTypeOK /\ CreatedIsPast /\ Folder /\ Pump

-----------------------------------------------------------------------------
(* Types *)

USE DEF Session!Streams, StepNames, PumpStates

LEMMA SessionStepType ==
  ASSUME SessionTypeOK, NEW s \in Sessions, Session!SessionStep(s)
  PROVE  SessionTypeOK'
<1> USE DEF SessionTypeOK, Session!Goto, Session!toolVars, Session!pumpVars, Session!historyVars
<1>1. CASE Session!CheckGameInfo(s)
  BY <1>1 DEF Session!CheckGameInfo
<1>2. CASE Session!CreateGameInfo(s)
  BY <1>2 DEF Session!CreateGameInfo
<1>3. CASE Session!CreateFails(s)
  BY <1>3 DEF Session!CreateFails
<1>4. CASE Session!LaunchTool(s)
  BY <1>4 DEF Session!LaunchTool
<1>5. CASE Session!LaunchFails(s) \/ Session!EndWait(s) \/ Session!AwaitPumps(s)
  BY <1>5 DEF Session!LaunchFails, Session!EndWait, Session!AwaitPumps
<1>6. CASE Session!CleanUp(s)
  BY <1>6 DEF Session!CleanUp
<1> QED BY <1>1, <1>2, <1>3, <1>4, <1>5, <1>6 DEF Session!SessionStep

LEMMA HeadTailType ==
  ASSUME NEW waiting \in Seq(Nat), waiting # <<>>
  PROVE  Head(waiting) \in Nat /\ Tail(waiting) \in Seq(Nat)
OBVIOUS

LEMMA PumpStepType ==
  ASSUME SessionTypeOK, NEW s \in Sessions, NEW x \in Session!Streams, Session!PumpStep(s, x)
  PROVE  SessionTypeOK'
<1> USE DEF SessionTypeOK, Session!toolVars, Session!pumpVars, Session!historyVars
<1>1. pipe[s][x] \in Seq(Nat) /\ log[s][x] \in Seq(Nat)
  OBVIOUS
<1>2. CASE Session!PumpLine(s, x)
  <2>1. Head(pipe[s][x]) \in Nat /\ Tail(pipe[s][x]) \in Seq(Nat)
    BY <1>1, <1>2, HeadTailType DEF Session!PumpLine
  <2>2. Append(log[s][x], Head(pipe[s][x])) \in Seq(Nat)
    BY <1>1, <2>1
  <2> QED BY <1>2, <2>1, <2>2 DEF Session!PumpLine, Session!Log
<1>3. CASE Session!PumpFails(s, x)
  <2>1. Tail(pipe[s][x]) \in Seq(Nat)
    BY <1>1, <1>3, HeadTailType DEF Session!PumpFails
  <2>2. pipe' \in [Sessions -> [Session!Streams -> Seq(Nat)]]
    BY <1>3, <2>1 DEF Session!PumpFails
  <2>3. pump' \in [Sessions -> [Session!Streams -> PumpStates]]
    BY <1>3 DEF Session!PumpFails
  <2> QED BY <1>3, <2>2, <2>3 DEF Session!PumpFails
<1>4. CASE Session!PumpEnds(s, x)
  BY <1>4 DEF Session!PumpEnds
<1> QED BY <1>2, <1>3, <1>4 DEF Session!PumpStep

LEMMA NextNumber ==
  ASSUME NEW done \in Seq(Nat), NEW waiting \in Seq(Nat)
  PROVE  Len(done) + Len(waiting) + 1 \in Nat
OBVIOUS

LEMMA ToolWritesType ==
  ASSUME SessionTypeOK, NEW s \in Sessions, NEW x \in Session!Streams, Session!ToolWrites(s, x)
  PROVE  SessionTypeOK'
<1>1. pipe[s][x] \in Seq(Nat) /\ log[s][x] \in Seq(Nat) /\ left[s][x] \in Nat
  BY DEF SessionTypeOK
<1>2. Session!Written(s, x) + 1 \in Nat
  BY <1>1, NextNumber DEF Session!Written
<1>3. Append(pipe[s][x], Session!Written(s, x) + 1) \in Seq(Nat)
  BY <1>1, <1>2
<1>4. left' \in [Sessions -> [Session!Streams -> Nat]]
  <2>1. left[s][x] - 1 \in Nat
    BY <1>1 DEF Session!ToolWrites
  <2> QED BY <2>1 DEF Session!ToolWrites, SessionTypeOK
<1>5. pipe' \in [Sessions -> [Session!Streams -> Seq(Nat)]]
  BY <1>3 DEF Session!ToolWrites, SessionTypeOK
<1> QED BY <1>4, <1>5 DEF Session!ToolWrites, SessionTypeOK, Session!historyVars

LEMMA StepType ==
  ASSUME SessionTypeOK, [Session!Next]_(Session!vars)
  PROVE  SessionTypeOK'
<1> USE DEF SessionTypeOK, Session!toolVars, Session!pumpVars, Session!historyVars
<1>1. CASE UNCHANGED Session!vars
  BY <1>1 DEF Session!vars
<1>2. CASE Session!UserActs
  BY <1>2 DEF Session!UserActs
<1>3. ASSUME NEW s \in Sessions, Session!Kill(s) \/ Session!ToolExits(s) \/
             Session!ToolStartsServer(s) \/ Session!ServerEnds(s) \/ Session!Cancel(s)
      PROVE  SessionTypeOK'
  BY <1>3 DEF Session!Kill, Session!ToolExits, Session!ToolStartsServer, Session!ServerEnds,
              Session!Cancel
<1> QED BY <1>1, <1>2, <1>3, SessionStepType, PumpStepType, ToolWritesType DEF Session!Next,
      Session!ToolStep

-----------------------------------------------------------------------------
(* The game folder *)

\* An owner remains one while its session goes on.
LEMMA FolderKept ==
  ASSUME SessionTypeOK, Folder, NEW s \in Sessions, NEW next \in StepNames \ {"create"},
         step[s] # "returned", Session!Goto(s, next),
         created[s] => next \in {"launch", "wait", "pumps", "finally"},
         UNCHANGED <<gameinfo, created, due, faults>>
  PROVE  Folder'
<1>1. \A t \in Sessions : Owner(t) => Owner(t)'
  BY DEF SessionTypeOK, Session!Goto, Owner
<1>2. \A t \in Sessions : Session!WillReplace(t)' => Session!WillReplace(t)
  BY DEF SessionTypeOK, Session!Goto, Session!WillReplace
<1> QED BY <1>1, <1>2 DEF Folder

LEMMA FolderSame ==
  ASSUME Folder, UNCHANGED <<gameinfo, step, created, due, faults>>
  PROVE  Folder'
BY DEF Folder, Owner, Session!WillReplace

LEMMA CreatedIsPastStep ==
  ASSUME SessionTypeOK, CreatedIsPast, [Session!Next]_(Session!vars)
  PROVE  CreatedIsPast'
<1> USE DEF SessionTypeOK, CreatedIsPast, Session!Goto, Session!toolVars, Session!pumpVars,
            Session!historyVars
<1>1. ASSUME NEW s \in Sessions, Session!SessionStep(s)
      PROVE  CreatedIsPast'
  <2>1. CASE Session!CheckGameInfo(s) \/ Session!CreateGameInfo(s) \/ Session!CreateFails(s)
    BY <2>1 DEF Session!CheckGameInfo, Session!CreateGameInfo, Session!CreateFails
  <2>2. CASE Session!LaunchTool(s) \/ Session!LaunchFails(s) \/ Session!EndWait(s) \/
             Session!AwaitPumps(s) \/ Session!CleanUp(s)
    BY <2>2 DEF Session!LaunchTool, Session!LaunchFails, Session!EndWait, Session!AwaitPumps,
                Session!CleanUp
  <2> QED BY <1>1, <2>1, <2>2 DEF Session!SessionStep
<1>2. ASSUME NEW s \in Sessions,
             Session!Kill(s) \/ Session!ToolStep(s) \/ Session!ToolStartsServer(s) \/
             Session!ServerEnds(s) \/ Session!Cancel(s)
      PROVE  UNCHANGED <<step, created>>
  BY <1>2 DEF Session!Kill, Session!ToolStep, Session!ToolExits, Session!ToolWrites,
              Session!ToolStartsServer, Session!ServerEnds, Session!Cancel
<1>3. ASSUME NEW s \in Sessions, NEW x \in Session!Streams, Session!PumpStep(s, x)
      PROVE  UNCHANGED <<step, created>>
  BY <1>3 DEF Session!PumpStep, Session!PumpLine, Session!PumpFails, Session!PumpEnds
<1> QED BY <1>1, <1>2, <1>3 DEF Session!Next, Session!UserActs, Session!vars

LEMMA FolderStep ==
  ASSUME SessionTypeOK, CreatedIsPast, Folder, [Session!Next]_(Session!vars)
  PROVE  Folder'
<1>1. ASSUME NEW s \in Sessions, Session!SessionStep(s)
      PROVE  Folder'
  <2>1. CASE Session!CheckGameInfo(s)
    <3>1. ~created[s]
      BY <2>1 DEF Session!CheckGameInfo, CreatedIsPast
    <3>2. CASE gameinfo = None
      <4>1. \A t \in Sessions : Owner(t) => Owner(t)'
        BY <2>1, <3>1 DEF Session!CheckGameInfo, SessionTypeOK, Session!Goto, Owner
      <4>2. due # {"user"}
        BY <3>2 DEF Folder
      <4> QED BY <2>1, <4>1, <4>2 DEF Session!CheckGameInfo, Folder, Session!historyVars
    <3>3. CASE gameinfo # None
      BY <2>1, <3>1, <3>3, FolderKept DEF Session!CheckGameInfo, Session!historyVars
    <3> QED BY <3>2, <3>3
  <2>2. CASE Session!CreateGameInfo(s)
    <3>1. Owner(s)'
      BY <2>2 DEF Session!CreateGameInfo, SessionTypeOK, Session!Goto, Owner
    <3>2. due # {"user"}
      BY <2>2 DEF Session!CreateGameInfo, Folder, Session!WillReplace
    <3> QED BY <2>2, <3>1, <3>2 DEF Session!CreateGameInfo, Folder, Session!historyVars
  <2>3. CASE Session!CreateFails(s)
    <3>1. due # {"user"}
      BY <2>3 DEF Session!CreateFails, Folder, Session!WillReplace
    <3> QED BY <2>3, <3>1 DEF Session!CreateFails, Folder
  <2>4. CASE Session!LaunchTool(s)
    BY <2>4, FolderKept DEF Session!LaunchTool, Session!historyVars
  <2>5. CASE Session!LaunchFails(s) \/ Session!EndWait(s) \/ Session!AwaitPumps(s)
    BY <2>5, FolderKept DEF Session!LaunchFails, Session!EndWait, Session!AwaitPumps,
                            Session!historyVars
  <2>6. CASE Session!CleanUp(s)
    <3>1. CASE ~created[s]
      <4>1. \A t \in Sessions : Owner(t) => Owner(t)'
        BY <2>6, <3>1 DEF Session!CleanUp, SessionTypeOK, Session!Goto, Owner
      <4>2. \A t \in Sessions : Session!WillReplace(t)' => Session!WillReplace(t)
        BY <2>6, <3>1 DEF Session!CleanUp, SessionTypeOK, Session!Goto, Session!WillReplace
      <4> QED BY <2>6, <3>1, <4>1, <4>2 DEF Session!CleanUp, Folder
    <3>2. CASE created[s]
      <4>1. due # {"user"} /\ due' = due
        BY <2>6, <3>2 DEF Session!CleanUp, Folder, Session!WillReplace
      <4>2. gameinfo' = None \/ (gameinfo' = gameinfo /\ faults' = faults \cup {s})
        BY <2>6, <3>2 DEF Session!CleanUp
      <4> QED BY <4>1, <4>2 DEF Folder
    <3> QED BY <2>6, <3>1, <3>2 DEF SessionTypeOK
  <2> QED BY <1>1, <2>1, <2>2, <2>3, <2>4, <2>5, <2>6 DEF Session!SessionStep
<1>2. CASE Session!UserActs
  <2>1. gameinfo' \notin {"minimal", "partial"} /\ gameinfo' \in due' /\ UNCHANGED <<step, created>>
    BY <1>2 DEF Session!UserActs
  <2>2. due' = {"user"} => gameinfo' = "user" /\ \A s \in Sessions : ~Session!WillReplace(s)
    BY <1>2 DEF Session!UserActs
  <2> QED BY <2>1, <2>2 DEF Folder, Session!WillReplace
<1>3. ASSUME NEW s \in Sessions,
             Session!Kill(s) \/ Session!ToolStep(s) \/ Session!ToolStartsServer(s) \/
             Session!ServerEnds(s) \/ Session!Cancel(s)
      PROVE  Folder'
  BY <1>3, FolderSame
     DEF Session!Kill, Session!ToolStep, Session!ToolExits, Session!ToolWrites,
         Session!ToolStartsServer, Session!ServerEnds, Session!Cancel, Session!historyVars
<1>4. ASSUME NEW s \in Sessions, NEW x \in Session!Streams, Session!PumpStep(s, x)
      PROVE  Folder'
  BY <1>4, FolderSame DEF Session!PumpStep, Session!PumpLine, Session!PumpFails,
                          Session!PumpEnds, Session!historyVars
<1>5. CASE UNCHANGED Session!vars
  BY <1>5, FolderSame DEF Session!vars, Session!historyVars
<1> QED BY <1>1, <1>2, <1>3, <1>4, <1>5 DEF Session!Next

-----------------------------------------------------------------------------
(* The pumps *)

PumpOKAt(s, x) == PumpOK(step[s], pump[s][x], tool[s], log[s][x], pipe[s][x])

\* Only the pumps of one session are concerned.
LEMMA PumpsOf ==
  ASSUME Pump, NEW s \in Sessions, captured' = captured,
         \A t \in Sessions \ {s} :
           /\ step'[t] = step[t] /\ tool'[t] = tool[t]
           /\ pump'[t] = pump[t] /\ log'[t] = log[t] /\ pipe'[t] = pipe[t],
         s \in captured => \A x \in Session!Streams : PumpOKAt(s, x)'
  PROVE  captured \subseteq Sessions => Pump'
BY DEF Pump, PumpOKAt

\* A step of a session that leaves the pumps alone.
LEMMA PumpsGoto ==
  ASSUME SessionTypeOK, Pump, NEW s \in Sessions, NEW next \in StepNames, Session!Goto(s, next),
         UNCHANGED <<captured, tool, pump, log, pipe>>,
         next \in {"start", "create", "launch"} => step[s] \in {"start", "create", "launch"},
         next \in {"finally", "returned"} => \A x \in Session!Streams : pump[s][x] # "reading"
  PROVE  Pump'
<1>1. \A t \in Sessions : step'[t] = IF t = s THEN next ELSE step[t]
  BY DEF SessionTypeOK, Session!Goto
<1>2. ASSUME s \in captured, NEW x \in Session!Streams
      PROVE  PumpOKAt(s, x)'
  <2>1. PumpOK(step[s], pump[s][x], tool[s], log[s][x], pipe[s][x])
    BY <1>2 DEF Pump
  <2> QED BY <1>1, <2>1 DEF PumpOKAt, PumpOK
<1> QED BY <1>1, <1>2, PumpsOf DEF SessionTypeOK

LEMMA PumpSessionStep ==
  ASSUME SessionTypeOK, Pump, NEW s \in Sessions, Session!SessionStep(s)
  PROVE  Pump'
<1>1. CASE Session!CheckGameInfo(s) \/ Session!CreateGameInfo(s) \/ Session!CreateFails(s)
  BY <1>1, PumpsGoto DEF Session!CheckGameInfo, Session!CreateGameInfo, Session!CreateFails,
                         Session!toolVars, Session!pumpVars
<1>2. CASE Session!LaunchTool(s)
  <2>1. \A t \in Sessions \ {s} : step'[t] = step[t] /\ tool'[t] = tool[t] /\ pump'[t] = pump[t]
    BY <1>2 DEF Session!LaunchTool, SessionTypeOK, Session!Goto
  <2>2. ASSUME s \in captured, NEW x \in Session!Streams
        PROVE  PumpOKAt(s, x)'
    <3>1. step'[s] = "wait" /\ tool'[s] = "running" /\ pump'[s][x] = "reading"
      BY <1>2, <2>2 DEF Session!LaunchTool, SessionTypeOK, Session!Goto
    <3>2. PumpOK(step[s], pump[s][x], tool[s], log[s][x], pipe[s][x]) /\ step[s] = "launch"
      BY <1>2, <2>2 DEF Pump, Session!LaunchTool
    <3>3. InOrder(log[s][x], pipe[s][x])
      BY <3>2 DEF PumpOK
    <3> QED BY <1>2, <3>1, <3>3 DEF PumpOKAt, PumpOK, Session!LaunchTool
  <2> QED BY <1>2, <2>1, <2>2, PumpsOf DEF Session!LaunchTool, SessionTypeOK
<1>3. CASE Session!LaunchFails(s)
  <2>1. s \in captured => \A x \in Session!Streams : pump[s][x] # "reading"
    BY <1>3 DEF Session!LaunchFails, Pump, PumpOK
  <2>2. \A t \in Sessions : step'[t] = IF t = s THEN "finally" ELSE step[t]
    BY <1>3 DEF Session!LaunchFails, SessionTypeOK, Session!Goto
  <2>3. ASSUME s \in captured, NEW x \in Session!Streams
        PROVE  PumpOKAt(s, x)'
    <3>1. PumpOK(step[s], pump[s][x], tool[s], log[s][x], pipe[s][x])
      BY <2>3 DEF Pump
    <3> QED BY <1>3, <2>1, <2>2, <2>3, <3>1 DEF Session!LaunchFails, PumpOKAt, PumpOK,
                                                Session!toolVars, Session!pumpVars
  <2> QED BY <1>3, <2>2, <2>3, PumpsOf DEF Session!LaunchFails, SessionTypeOK,
                                           Session!toolVars, Session!pumpVars
<1>4. CASE Session!EndWait(s)
  BY <1>4, PumpsGoto DEF Session!EndWait, Session!toolVars, Session!pumpVars
<1>5. CASE Session!AwaitPumps(s)
  BY <1>5, PumpsGoto DEF Session!AwaitPumps, Session!toolVars, Session!pumpVars
<1>6. CASE Session!CleanUp(s)
  <2>1. \A t \in Sessions : step'[t] = IF t = s THEN "returned" ELSE step[t]
    BY <1>6 DEF Session!CleanUp, SessionTypeOK, Session!Goto
  <2>2. ASSUME s \in captured, NEW x \in Session!Streams
        PROVE  PumpOKAt(s, x)'
    <3>1. PumpOK(step[s], pump[s][x], tool[s], log[s][x], pipe[s][x]) /\ step[s] = "finally"
      BY <1>6, <2>2 DEF Pump, Session!CleanUp
    <3> QED BY <1>6, <2>1, <3>1 DEF Session!CleanUp, PumpOKAt, PumpOK, Session!toolVars,
                                    Session!pumpVars
  <2> QED BY <1>6, <2>1, <2>2, PumpsOf DEF Session!CleanUp, SessionTypeOK, Session!toolVars,
                                           Session!pumpVars
<1> QED BY <1>1, <1>2, <1>3, <1>4, <1>5, <1>6 DEF Session!SessionStep

\* Reading a line keeps the order.
LEMMA ReadInOrder ==
  ASSUME NEW done \in Seq(Nat), NEW waiting \in Seq(Nat), waiting # <<>>,
         InOrder(done, waiting)
  PROVE  InOrder(Append(done, Head(waiting)), Tail(waiting))
<1>1. Head(waiting) = Len(done) + 1
  BY DEF InOrder
<1>2. /\ Len(Append(done, Head(waiting))) = Len(done) + 1
      /\ Len(Tail(waiting)) = Len(waiting) - 1
      /\ \A n \in 1 .. Len(Tail(waiting)) : Tail(waiting)[n] = waiting[n + 1]
      /\ Len(done) \in Nat /\ Len(waiting) \in Nat
  OBVIOUS
<1>3. \A n \in 1 .. Len(done) + 1 : Append(done, Head(waiting))[n] = n
  BY <1>1 DEF InOrder
<1>4. \A n \in 1 .. Len(waiting) - 1 : Tail(waiting)[n] = (Len(done) + 1) + n
  <2> SUFFICES ASSUME NEW n \in 1 .. Len(waiting) - 1
               PROVE  Tail(waiting)[n] = (Len(done) + 1) + n
    OBVIOUS
  <2>1. waiting[n + 1] = Len(done) + (n + 1)
    BY <1>2 DEF InOrder
  <2> QED BY <1>2, <2>1
<1> QED BY <1>2, <1>3, <1>4 DEF InOrder

\* So does writing one.
LEMMA WriteInOrder ==
  ASSUME NEW done \in Seq(Nat), NEW waiting \in Seq(Nat), InOrder(done, waiting)
  PROVE  InOrder(done, Append(waiting, Len(done) + Len(waiting) + 1))
<1> DEFINE next == Len(done) + Len(waiting) + 1
<1>1. next \in Nat /\ Len(done) \in Nat /\ Len(waiting) \in Nat
  OBVIOUS
<1>2. \A n \in 1 .. Len(waiting) : waiting[n] = Len(done) + n
  BY DEF InOrder
<1>3. /\ Len(Append(waiting, next)) = Len(waiting) + 1
      /\ Append(waiting, next)[Len(waiting) + 1] = next
      /\ \A n \in 1 .. Len(waiting) : Append(waiting, next)[n] = waiting[n]
  BY <1>1
<1>4. \A n \in 1 .. Len(waiting) + 1 : Append(waiting, next)[n] = Len(done) + n
  <2> SUFFICES ASSUME NEW n \in 1 .. Len(waiting) + 1
               PROVE  Append(waiting, next)[n] = Len(done) + n
    OBVIOUS
  <2>1. CASE n \in 1 .. Len(waiting)
    BY <1>2, <1>3, <2>1
  <2>2. CASE n = Len(waiting) + 1
    <3> HIDE DEF next
    <3>1. next = Len(done) + (Len(waiting) + 1)
      BY <1>1 DEF next
    <3> QED BY <1>3, <2>2, <3>1
  <2>3. n \in 1 .. Len(waiting) \/ n = Len(waiting) + 1
    BY <1>1
  <2> QED BY <2>1, <2>2, <2>3
<1> HIDE DEF next
<1>5. InOrder(done, Append(waiting, next))
  BY <1>3, <1>4 DEF InOrder
<1> QED BY <1>5 DEF next

LEMMA PumpStepPump ==
  ASSUME SessionTypeOK, Pump, NEW s \in Sessions, NEW x \in Session!Streams,
  Session!PumpStep(s, x)
  PROVE  Pump'
<1>1. /\ captured' = captured /\ captured \subseteq Sessions
      /\ step' = step /\ tool' = tool
  BY DEF Session!PumpStep, Session!PumpLine, Session!PumpFails, Session!PumpEnds,
         SessionTypeOK, Session!toolVars
<1>2. \A t \in Sessions, y \in Session!Streams : t # s \/ y # x =>
        pump'[t][y] = pump[t][y] /\ log'[t][y] = log[t][y] /\ pipe'[t][y] = pipe[t][y]
  <2>1. CASE Session!PumpLine(s, x)
    BY <2>1 DEF Session!PumpLine, Session!Log, SessionTypeOK
  <2>2. CASE Session!PumpFails(s, x)
    BY <2>2 DEF Session!PumpFails, SessionTypeOK
  <2>3. CASE Session!PumpEnds(s, x)
    BY <2>3 DEF Session!PumpEnds, SessionTypeOK
  <2> QED BY <2>1, <2>2, <2>3 DEF Session!PumpStep
<1>3. pump[s][x] = "reading" /\ log[s][x] \in Seq(Nat) /\ pipe[s][x] \in Seq(Nat)
  BY DEF Session!PumpStep, Session!PumpLine, Session!PumpFails, Session!PumpEnds, SessionTypeOK
<1>4. ASSUME s \in captured
      PROVE  PumpOKAt(s, x)'
  <2>1. PumpOK(step[s], pump[s][x], tool[s], log[s][x], pipe[s][x])
    BY <1>4 DEF Pump
  <2>2. /\ InOrder(log[s][x], pipe[s][x])
        /\ step[s] \notin {"start", "create", "launch"}
    BY <1>3, <2>1 DEF PumpOK
  <2>3. CASE Session!PumpLine(s, x)
    <3>1. /\ log'[s][x] = Append(log[s][x], Head(pipe[s][x]))
          /\ pipe'[s][x] = Tail(pipe[s][x]) /\ pump' = pump
      BY <2>3 DEF Session!PumpLine, Session!Log, SessionTypeOK
    <3>2. InOrder(log'[s][x], pipe'[s][x])
      BY <1>3, <2>2, <2>3, <3>1, ReadInOrder DEF Session!PumpLine
    <3> QED BY <1>1, <1>3, <2>1, <3>1, <3>2 DEF PumpOKAt, PumpOK
  <2>4. CASE Session!PumpFails(s, x)
    <3>1. pump'[s][x] = "failed"
      BY <2>4 DEF Session!PumpFails, SessionTypeOK
    <3> QED BY <1>1, <2>2, <3>1 DEF PumpOKAt, PumpOK
  <2>5. CASE Session!PumpEnds(s, x)
    <3>1. /\ pump'[s][x] = "ended" /\ log' = log /\ pipe' = pipe
          /\ pipe[s][x] = <<>> /\ tool[s] = "ended"
      BY <2>5 DEF Session!PumpEnds, SessionTypeOK
    <3> QED BY <1>1, <2>2, <3>1 DEF PumpOKAt, PumpOK
  <2> QED BY <2>3, <2>4, <2>5 DEF Session!PumpStep
<1>5. ASSUME NEW t \in captured, NEW y \in Session!Streams
      PROVE  PumpOKAt(t, y)'
  <2>1. CASE t = s /\ y = x
    BY <1>4, <2>1
  <2>2. CASE t # s \/ y # x
    <3>1. PumpOK(step[t], pump[t][y], tool[t], log[t][y], pipe[t][y])
      BY DEF Pump
    <3>2. pump'[t][y] = pump[t][y] /\ log'[t][y] = log[t][y] /\ pipe'[t][y] = pipe[t][y]
      BY <1>1, <1>2, <2>2
    <3> QED BY <1>1, <3>1, <3>2 DEF PumpOKAt
  <2> QED BY <2>1, <2>2
<1> QED BY <1>1, <1>5 DEF Pump, PumpOKAt

LEMMA PumpToolWrites ==
  ASSUME SessionTypeOK, Pump, NEW s \in Sessions, NEW x \in Session!Streams,
  Session!ToolWrites(s, x)
  PROVE  Pump'
<1>1. /\ captured' = captured /\ captured \subseteq Sessions
      /\ step' = step /\ tool' = tool /\ pump' = pump /\ log' = log
  BY DEF Session!ToolWrites, SessionTypeOK
<1>2. \A t \in Sessions, y \in Session!Streams : t # s \/ y # x => pipe'[t][y] = pipe[t][y]
  BY DEF Session!ToolWrites, SessionTypeOK
<1>3. ASSUME s \in captured
      PROVE  PumpOKAt(s, x)'
  <2>1. PumpOK(step[s], pump[s][x], tool[s], log[s][x], pipe[s][x]) /\ tool[s] = "running"
    BY <1>3 DEF Pump, Session!ToolWrites
  <2>2. pump[s][x] \in {"reading", "failed"}
    <3>1. pump[s][x] \in PumpStates
      BY DEF SessionTypeOK
    <3> QED BY <2>1, <3>1 DEF PumpOK
  <2>3. /\ pipe'[s][x] = Append(pipe[s][x], Len(log[s][x]) + Len(pipe[s][x]) + 1)
        /\ log[s][x] \in Seq(Nat) /\ pipe[s][x] \in Seq(Nat)
    <3>1. pipe' = [pipe EXCEPT ![s][x] = Append(@, Session!Written(s, x) + 1)]
      BY <1>3 DEF Session!ToolWrites
    <3>2. pipe'[s][x] = Append(pipe[s][x], Session!Written(s, x) + 1)
      <4> DEFINE number == Session!Written(s, x) + 1
      <4> HIDE DEF number
      <4>1. pipe' = [pipe EXCEPT ![s][x] = Append(@, number)]
        BY <3>1 DEF number
      <4>2. pipe'[s][x] = Append(pipe[s][x], number)
        BY <4>1 DEF SessionTypeOK
      <4> QED BY <4>2 DEF number
    <3>3. log[s][x] \in Seq(Nat) /\ pipe[s][x] \in Seq(Nat)
      BY DEF SessionTypeOK
    <3> QED BY <3>2, <3>3 DEF Session!Written
  <2>4. pump[s][x] # "failed" => InOrder(log[s][x], pipe'[s][x])
    BY <2>1, <2>3, WriteInOrder DEF PumpOK
  <2> QED BY <1>1, <2>1, <2>2, <2>4 DEF PumpOKAt, PumpOK
<1>4. ASSUME NEW t \in captured, NEW y \in Session!Streams
      PROVE  PumpOKAt(t, y)'
  <2>1. CASE t = s /\ y = x
    BY <1>3, <2>1
  <2>2. CASE t # s \/ y # x
    <3>1. PumpOK(step[t], pump[t][y], tool[t], log[t][y], pipe[t][y])
      BY DEF Pump
    <3> QED BY <1>1, <1>2, <2>2, <3>1 DEF PumpOKAt
  <2> QED BY <2>1, <2>2
<1> QED BY <1>1, <1>4 DEF Pump, PumpOKAt

LEMMA PumpToolEnds ==
  ASSUME SessionTypeOK, Pump, NEW s \in Sessions, Session!Kill(s) \/ Session!ToolExits(s)
  PROVE  Pump'
<1>1. /\ captured' = captured /\ captured \subseteq Sessions
      /\ step' = step /\ pump' = pump /\ log' = log /\ pipe' = pipe
      /\ \A t \in Sessions : tool'[t] = IF t = s THEN "ended" ELSE tool[t]
  BY DEF Session!Kill, Session!ToolExits, SessionTypeOK, Session!pumpVars
<1>2. ASSUME NEW t \in captured, NEW x \in Session!Streams
      PROVE  PumpOKAt(t, x)'
  <2>1. PumpOK(step[t], pump[t][x], tool[t], log[t][x], pipe[t][x])
    BY DEF Pump
  <2> QED BY <1>1, <2>1 DEF PumpOKAt, PumpOK
<1> QED BY <1>1, <1>2 DEF Pump, PumpOKAt

LEMMA PumpSame ==
  ASSUME Pump, UNCHANGED <<captured, step, tool, pump, log, pipe>>
  PROVE  Pump'
BY DEF Pump

LEMMA PumpNext ==
  ASSUME SessionTypeOK, Pump, [Session!Next]_(Session!vars)
  PROVE  Pump'
<1>1. CASE UNCHANGED Session!vars
  BY <1>1, PumpSame DEF Session!vars, Session!toolVars, Session!pumpVars
<1>2. CASE Session!UserActs
  BY <1>2, PumpSame DEF Session!UserActs, Session!toolVars, Session!pumpVars
<1>3. ASSUME NEW s \in Sessions, Session!ToolStartsServer(s) \/ Session!ServerEnds(s) \/
             Session!Cancel(s)
      PROVE  Pump'
  BY <1>3, PumpSame DEF Session!ToolStartsServer, Session!ServerEnds, Session!Cancel,
                        Session!toolVars, Session!pumpVars
<1> QED BY <1>1, <1>2, <1>3, PumpSessionStep, PumpStepPump, PumpToolWrites, PumpToolEnds
        DEF Session!Next, Session!ToolStep

-----------------------------------------------------------------------------
(* The invariant *)

LEMMA SessionInitIInv == Session!Init => SessionIInv
<1> SUFFICES ASSUME Session!Init PROVE SessionIInv
  OBVIOUS
<1>1. SessionTypeOK
  <2>1. 0 .. MaxLines \subseteq Nat /\ <<>> \in Seq(Nat)
    OBVIOUS
  <2> QED BY <2>1 DEF Session!Init, SessionTypeOK
<1>2. CreatedIsPast /\ Folder
  BY DEF Session!Init, CreatedIsPast, Folder, Session!WillReplace
<1>3. Pump
  <2> SUFFICES ASSUME NEW s \in captured, NEW x \in Session!Streams
               PROVE  PumpOK(step[s], pump[s][x], tool[s], log[s][x], pipe[s][x])
    BY DEF Pump
  <2>1. /\ s \in Sessions /\ pump[s][x] = "off" /\ tool[s] = "none"
        /\ log[s][x] = <<>> /\ pipe[s][x] = <<>>
    BY DEF Session!Init
  <2>2. InOrder(<<>>, <<>>)
    BY DEF InOrder
  <2> QED BY <2>1, <2>2 DEF PumpOK
<1> QED BY <1>1, <1>2, <1>3 DEF SessionIInv

LEMMA SessionStepIInv == SessionIInv /\ [Session!Next]_(Session!vars) => SessionIInv'
BY StepType, CreatedIsPastStep, FolderStep, PumpNext DEF SessionIInv

\* The invariant, for any sessions, lines, pipes and acts of the user: a gameinfo.txt
\* that is not the user's has a session that will remove it, and what a pump logged and
\* what its pipe holds are the lines of its stream in order.
THEOREM SessionSpecIInv == Session!Spec => []SessionIInv
BY SessionInitIInv, SessionStepIInv, PTL DEF Session!Spec

\* However many compiles and users share the game folder, a log that a compile closes
\* has every line of both streams in order and its tool has ended: the pumps of
\* SystemProcessLauncher are awaited, cancelled or not, before the finally block.
THEOREM SessionLogWhole == Session!Spec => []LogWhole
<1>1. SessionIInv => LogWhole
  <2> SUFFICES ASSUME SessionIInv, NEW s \in captured, step[s] \in {"finally", "returned"},
  ~Session!Failed(s)
               PROVE  /\ tool[s] # "running"
                      /\ \A x \in Session!Streams :
                           /\ pipe[s][x] = <<>>
                           /\ \A n \in 1 .. Len(log[s][x]) : log[s][x][n] = n
    BY DEF LogWhole, Session!LogWhole
  <2>1. ASSUME NEW x \in Session!Streams
        PROVE  /\ tool[s] # "running" /\ pipe[s][x] = <<>>
               /\ \A n \in 1 .. Len(log[s][x]) : log[s][x][n] = n
    <3>1. PumpOK(step[s], pump[s][x], tool[s], log[s][x], pipe[s][x])
      BY DEF SessionIInv, Pump
    <3>2. pump[s][x] \in {"off", "ended"}
      BY <3>1 DEF SessionIInv, SessionTypeOK, Session!Failed, PumpOK
    <3> QED BY <3>1, <3>2 DEF PumpOK, InOrder
  <2> QED BY <2>1
<1> QED BY <1>1, SessionSpecIInv, PTL

\* When all compiles of a game folder are over and none failed on gameinfo.txt, it is
\* as they found it or as its user last left it, however many sessions saw the files of
\* others; only a file the user put in under a session that had found none and had not
\* cleaned up may be gone: WriteAllText and Delete do not look whose file it is.
THEOREM SessionFolderAsFound == Session!Spec => []FolderAsFound
<1>1. SessionIInv => FolderAsFound
  <2> SUFFICES ASSUME SessionIInv, faults = {}, \A s \in Sessions : step[s] = "returned"
               PROVE  gameinfo \in due
    BY DEF FolderAsFound, Session!FolderAsFound
  <2>1. gameinfo \in {None, "user"}
    BY DEF SessionIInv, SessionTypeOK, Folder, Owner
  <2> QED BY <2>1 DEF SessionIInv, SessionTypeOK, Folder
<1> QED BY <1>1, SessionSpecIInv, PTL

=============================================================================

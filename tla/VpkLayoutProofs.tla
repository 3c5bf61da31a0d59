--------------------------- MODULE VpkLayoutProofs ---------------------------
(***************************************************************************)
(* VpkLayout for every input, archive size and index limit: the type       *)
(* invariant, and the inductive invariant from which the properties of the *)
(* layout follow.                                                          *)
(*                                                                         *)
(* Before it, induction over the naturals and primitive recursion, for what *)
(* the packers compute from their file lists.  The usual statements take a  *)
(* predicate or an operator as a parameter; these are about a set and a     *)
(* function, which every prover can instantiate, and rest on strict         *)
(* inclusion being well founded.                                            *)
(***************************************************************************)
EXTENDS VpkLayout, FiniteSetTheorems, WellFoundedInduction, TLAPS

-----------------------------------------------------------------------------
(* Induction over data. *)

\* A set of naturals that is not empty has a least element.
LEMMA LeastNatural ==
  ASSUME NEW T, T \subseteq Nat, T # {}
  PROVE  \E m \in T : \A k \in T : m <= k
<1> DEFINE R == StrictSubsetOrdering(Nat)
           F == FiniteSubsetsOf(Nat)
           U == {0 .. k : k \in T}
<1>1. IsWellFoundedOn(R, F)
  BY FS_StrictSubsetOrderingWellFounded
<1>2. U \subseteq F /\ U # {}
  <2>1. \A k \in T : k \in Nat /\ IsFiniteSet(0 .. k)
    BY FS_Interval
  <2>2. \A k \in T : (0 .. k) \in SUBSET Nat
    OBVIOUS
  <2>3. \A k \in T : (0 .. k) \in F
    BY <2>1, <2>2 DEF FiniteSubsetsOf
  <2> QED BY <2>3
<1>3. \E x \in U : \A y \in U : ~ (<<y, x>> \in R)
  <2> HIDE DEF R, F, U
  <2> QED BY <1>1, <1>2, WFMin
<1>4. PICK m \in T : \A k \in T : ~ (<<0 .. k, 0 .. m>> \in R)
  BY <1>3
<1>5. ASSUME NEW k \in T, k < m
      PROVE  FALSE
  <2>1. m \in 0 .. m /\ m \notin 0 .. k
    BY <1>5
  <2>2. (0 .. k) \subseteq (0 .. m)
    BY <1>5
  <2>3. (0 .. k) \in SUBSET Nat /\ (0 .. m) \in SUBSET Nat
    BY <1>5
  <2>4. <<0 .. k, 0 .. m>> \in R
    BY <2>1, <2>2, <2>3 DEF StrictSubsetOrdering
  <2> QED BY <1>4, <2>4
<1> QED BY <1>5

\* Induction: a set with 0 that is closed under successor has every natural.
LEMMA NaturalsUpward ==
  ASSUME NEW S, 0 \in S, \A n \in Nat : n \in S => n + 1 \in S
  PROVE  Nat \subseteq S
<1> DEFINE T == Nat \ S
<1> SUFFICES ASSUME T # {} PROVE FALSE
  OBVIOUS
<1>1. PICK m \in T : \A k \in T : m <= k
  BY LeastNatural
<1>2. m - 1 \in Nat /\ m - 1 \notin T
  BY <1>1
<1> QED BY <1>2

\* D[k] makes the k-th value from the one before, within S; g is what it makes.
StepWithin(D, S, n) == \A k \in 1 .. n : \A x \in S : D[k][x] \in S

RecursiveOn(g, first, D, S, n) ==
  /\ g \in [0 .. n -> S] /\ g[0] = first
  /\ \A k \in 1 .. n : g[k] = D[k][g[k - 1]]

\* Primitive recursion: for every first value in S, and every step D within S,
\* the function they describe exists, on 0 .. n for every n.
LEMMA PrimitiveRecursion ==
  ASSUME NEW S, NEW first, first \in S, NEW D, NEW n, n \in Nat, StepWithin(D, S, n)
  PROVE  \E g : RecursiveOn(g, first, D, S, n)
<1> USE DEF StepWithin, RecursiveOn
<1> DEFINE Found(m) ==
             \E g \in [0 .. m -> S] : g[0] = first /\ \A k \in 1 .. m : g[k] = D[k][g[k - 1]]
           Ok == {m \in Nat : m <= n => Found(m)}
<1>1. 0 \in Ok
  <2> DEFINE g == [k \in 0 .. 0 |-> first]
  <2>1. g \in [0 .. 0 -> S] /\ g[0] = first /\ 1 .. 0 = {}
    OBVIOUS
  <2>2. Found(0)
    <3> HIDE DEF g
    <3> QED BY <2>1
  <2> QED BY <2>2
<1>2. ASSUME NEW m \in Nat, m \in Ok, m + 1 <= n
      PROVE  m + 1 \in Ok
  <2>1. PICK g \in [0 .. m -> S] :
          g[0] = first /\ \A k \in 1 .. m : g[k] = D[k][g[k - 1]]
    BY <1>2
  <2> DEFINE h == [k \in 0 .. m + 1 |-> IF k = m + 1 THEN D[m + 1][g[m]] ELSE g[k]]
  <2>2. h \in [0 .. m + 1 -> S]
    <3>1. D[m + 1][g[m]] \in S
      BY <1>2
    <3>2. \A k \in 0 .. m + 1 : k # m + 1 => g[k] \in S
      OBVIOUS
    <3> QED BY <3>1, <3>2
  <2>3. h[0] = first
    BY <2>1
  <2>4. ASSUME NEW k \in 1 .. m + 1
        PROVE  h[k] = D[k][h[k - 1]]
    <3>1. h[k - 1] = g[k - 1]
      OBVIOUS
    <3>2. CASE k = m + 1
      BY <3>1, <3>2
    <3>3. CASE k # m + 1
      BY <2>1, <3>1, <3>3
    <3> QED BY <3>2, <3>3
  <2>5. Found(m + 1)
    <3> HIDE DEF h
    <3> QED BY <2>2, <2>3, <2>4
  <2> HIDE DEF Found
  <2> QED BY <2>5
<1>3. Nat \subseteq Ok
  <2>1. \A m \in Nat : m \in Ok => m + 1 \in Ok
    <3> HIDE DEF Found
    <3>1. ASSUME NEW m \in Nat, ~ (m + 1 <= n)
          PROVE  m + 1 \in Ok
      BY <3>1
    <3> QED BY <1>2, <3>1
  <2> HIDE DEF Ok
  <2> QED BY <1>1, <2>1, NaturalsUpward
<1> QED BY <1>3

-----------------------------------------------------------------------------
(* The layout. *)

USE LayoutAssumption

(* What the steps maintain besides the properties themselves. *)

Active == phase = "placing"

\* The running values stay in range: this is why the unchecked subtraction
\* never wraps and the index never reaches the directory's.
Bounds ==
  /\ Len(placed) <= Len(sizes)
  /\ multi => archiveOffset <= MaxArchiveSize /\ archiveIndex < DirectoryArchiveIndex
  /\ ~multi => archiveOffset < UintRange /\ currentFiles = <<>> /\ archives = <<>>

\* The next free place lies behind everything placed in the current volume.
Latest ==
  \A i \in 1 .. Len(placed) : HasRoom(i) =>
    /\ multi => placed[i].archive <= archiveIndex
    /\ (~multi \/ placed[i].archive = archiveIndex) => End(placed[i]) <= archiveOffset

\* The current file list describes the current volume up to archiveOffset.
CurrentVolume ==
  (Active /\ multi) =>
    archiveOffset = IF currentFiles = <<>> THEN 0
                    ELSE End(placed[currentFiles[Len(currentFiles)]])

\* Volumes are numbered without gaps.
Numbering ==
  /\ \A v \in 1 .. Len(archives) : archives[v].index = v - 1
  /\ (Active /\ multi) => Len(archives) = archiveIndex

Listed(i, files) == \E k \in 1 .. Len(files) : files[k] = i

InClosedVolume(i) ==
  \E v \in 1 .. Len(archives) :
    archives[v].index = placed[i].archive /\ Listed(i, archives[v].files)

Covered ==
  /\ multi => \A i \in 1 .. Len(placed) : HasRoom(i) =>
       \/ InClosedVolume(i)
       \/ placed[i].archive = archiveIndex /\ Listed(i, currentFiles)
  /\ phase = "placed" => Len(placed) = Len(sizes) /\ currentFiles = <<>>

IInv ==
  /\ TypeOK /\ Bounds /\ Latest
  /\ NoOverlap /\ FitsArchive /\ IndexUnambiguous
  /\ Contiguous /\ CurrentVolume /\ Numbering /\ Covered

-----------------------------------------------------------------------------

LEMMA AppendFacts ==
  ASSUME NEW S, NEW s \in Seq(S), NEW e \in S
  PROVE  /\ Append(s, e) \in Seq(S)
         /\ Len(Append(s, e)) = Len(s) + 1
         /\ Append(s, e)[Len(s) + 1] = e
         /\ \A i \in 1 .. Len(s) : Append(s, e)[i] = s[i]
         /\ Append(s, e) # <<>>
         /\ Len(s) \in Nat
  OBVIOUS

Volume == [index : Nat, files : Seq(Nat)]

LEMMA ClosedArchivesType == TypeOK => ClosedArchives \in Seq(Volume)
  <1> SUFFICES ASSUME TypeOK PROVE ClosedArchives \in Seq(Volume)
    OBVIOUS
  <1>1. [index |-> archiveIndex, files |-> currentFiles] \in Volume
    BY DEF TypeOK, Volume
  <1>2. archives \in Seq(Volume)
    BY DEF TypeOK, Volume
  <1>3. QED
    BY <1>1, <1>2, AppendFacts DEF ClosedArchives

LEMMA InitIInv == Init => IInv
  <1> SUFFICES ASSUME NEW lengths \in Inputs, NEW isMulti \in BOOLEAN,
                      StartLayout(lengths, isMulti)
               PROVE  IInv
    BY DEF Init
  <1> USE DEF StartLayout
  <1>1. TypeOK
    BY DEF TypeOK
  <1>2. Bounds /\ Latest /\ CurrentVolume /\ Numbering
    BY DEF Bounds, Latest, CurrentVolume, Numbering
  <1>3. NoOverlap /\ FitsArchive /\ IndexUnambiguous /\ Contiguous /\ Covered
    BY DEF NoOverlap, FitsArchive, IndexUnambiguous, Contiguous, ContiguousIn, Covered
  <1>4. QED
    BY <1>1, <1>2, <1>3 DEF IInv

\* What Record appends is a placement.
LEMMA RecordType ==
  ASSUME TypeOK, Placing, NEW archive \in Nat, NEW offset \in Nat, Record(archive, offset)
  PROVE  placed' \in Seq(Placement)
  <1>1. sizes[File] \in Nat
    BY DEF TypeOK, Placing, File
  <1>2. [archive |-> archive, offset |-> offset, length |-> sizes[File]] \in Placement
    BY <1>1 DEF Placement
  <1>3. placed \in Seq(Placement)
    BY DEF TypeOK
  <1>4. QED
    BY <1>2, <1>3, AppendFacts DEF Record

\* The type invariant is inductive by itself.
LEMMA StepTypeOK == TypeOK /\ [Step]_layoutVars => TypeOK'
  <1> SUFFICES ASSUME TypeOK, [Step]_layoutVars PROVE TypeOK'
    OBVIOUS
  <1> USE DEF TypeOK
  <1>0. Placing => sizes[File] \in Nat /\ sizes[File] < UintRange /\ File \in Nat
    BY DEF Placing, File
  <1>1. CASE PlaceEmpty
    BY <1>0, <1>1 DEF PlaceEmpty, Record, Placement
  <1>2. CASE PlaceInCurrent
    <2>1. placed' \in Seq(Placement)
      BY <1>2, RecordType DEF PlaceInCurrent
    <2>2. currentFiles' \in Seq(Nat) /\ archiveOffset' \in Nat
      <3>1. File \in Nat /\ sizes[File] \in Nat
        BY <1>0, <1>2 DEF PlaceInCurrent
      <3>2. currentFiles \in Seq(Nat) /\ archiveOffset \in Nat
        OBVIOUS
      <3>3. Append(currentFiles, File) \in Seq(Nat)
        BY <3>1, <3>2, AppendFacts
      <3>4. archiveOffset + sizes[File] \in Nat
        BY <3>1, <3>2
      <3>5. QED
        BY <1>2, <3>3, <3>4 DEF PlaceInCurrent
    <2>3. QED
      BY <1>2, <2>1, <2>2 DEF PlaceInCurrent
  <1>3. CASE PlaceInNext
    <2>1. placed' \in Seq(Placement)
      BY <1>3, RecordType DEF PlaceInNext
    <2>2. archives' \in Seq([index : Nat, files : Seq(Nat)])
      BY <1>3, ClosedArchivesType DEF PlaceInNext, Volume
    <2>3. currentFiles' \in Seq(Nat) /\ archiveIndex' \in Nat /\ archiveOffset' \in Nat
      BY <1>0, <1>3 DEF PlaceInNext
    <2>4. QED
      BY <1>3, <2>1, <2>2, <2>3 DEF PlaceInNext
  <1>4. CASE PlaceSingle
    <2>1. placed' \in Seq(Placement)
      <3>1. DirectoryArchiveIndex \in Nat /\ archiveOffset \in Nat
        BY DEF LayoutAssumption
      <3>2. QED
        BY <1>4, <3>1, RecordType DEF PlaceSingle
    <2>2. archiveOffset' \in Nat
      <3>1. sizes[File] \in Nat /\ archiveOffset' = archiveOffset + sizes[File]
        BY <1>0, <1>4 DEF PlaceSingle
      <3>2. archiveOffset \in Nat
        OBVIOUS
      <3>3. QED
        BY <3>1, <3>2
    <2>3. QED
      BY <1>4, <2>1, <2>2 DEF PlaceSingle
  <1>5. CASE RejectTooLarge \/ RejectTooMany \/ OverflowSingle
    BY <1>5 DEF RejectTooLarge, RejectTooMany, OverflowSingle, Throw, Errors
  <1>6. CASE FinishLayout
    <2>1. archives' \in Seq([index : Nat, files : Seq(Nat)])
      BY <1>6, ClosedArchivesType DEF FinishLayout, Volume
    <2>2. currentFiles' \in Seq(Nat)
      BY <1>6 DEF FinishLayout
    <2>3. QED
      BY <1>6, <2>1, <2>2 DEF FinishLayout
  <1>7. CASE UNCHANGED layoutVars
    BY <1>7 DEF layoutVars
  <1>8. QED
    BY <1>1, <1>2, <1>3, <1>4, <1>5, <1>6, <1>7 DEF Step

LEMMA PlacingFacts ==
  ASSUME TypeOK, Placing
  PROVE  /\ sizes[File] \in Nat /\ sizes[File] < UintRange
         /\ File = Len(placed) + 1 /\ File \in Nat /\ File <= Len(sizes)
         /\ Len(placed) \in Nat
         /\ \A i \in 1 .. Len(placed) :
              placed[i].archive \in Nat /\ placed[i].offset \in Nat /\ placed[i].length \in Nat
  <1>1. \A i \in 1 .. Len(placed) : placed[i] \in Placement
    BY DEF TypeOK
  <1>2. /\ sizes \in Seq(0 .. UintRange - 1) /\ Len(placed) \in Nat
        /\ File = Len(placed) + 1 /\ File <= Len(sizes)
    BY DEF TypeOK, Placing, File
  <1>3. sizes[File] \in 0 .. UintRange - 1
    BY <1>2
  <1>4. /\ sizes[File] \in Nat /\ sizes[File] < UintRange /\ File \in Nat
        /\ \A i \in 1 .. Len(placed) :
             placed[i].archive \in Nat /\ placed[i].offset \in Nat /\ placed[i].length \in Nat
    <2>1. sizes[File] \in Nat /\ sizes[File] < UintRange /\ File \in Nat
      BY <1>2, <1>3 DEF LayoutAssumption
    <2>2. QED
      BY <1>1, <2>1 DEF Placement
  <1>5. QED
    BY <1>2, <1>4

\* What recording a placement changes and what it does not.
LEMMA RecordFacts ==
  ASSUME TypeOK, Placing, NEW a \in Nat, NEW o \in Nat, Record(a, o)
  PROVE  /\ Len(placed') = Len(placed) + 1
         /\ \A i \in 1 .. Len(placed) : placed'[i] = placed[i]
         /\ placed'[File].archive = a
         /\ placed'[File].offset = o
         /\ placed'[File].length = sizes[File]
  <1> DEFINE e == [archive |-> a, offset |-> o, length |-> sizes[File]]
  <1>1. e \in Placement
    BY PlacingFacts DEF Placement
  <1>2. placed \in Seq(Placement) /\ placed' = Append(placed, e)
    BY DEF TypeOK, Record
  <1>3. QED
    BY <1>1, <1>2, AppendFacts DEF File

\* ContiguousIn of the next state's placements, for lists of either state.
ContiguousNext(files, index) ==
  \A k \in 1 .. Len(files) :
    /\ files[k] \in 1 .. Len(placed')
    /\ placed'[files[k]].archive = index
    /\ placed'[files[k]].offset =
         IF k = 1 THEN 0
         ELSE placed'[files[k - 1]].offset + placed'[files[k - 1]].length

\* A volume's file list stays contiguous while placements are only appended.
LEMMA ListKept ==
  ASSUME NEW files \in Seq(Nat), NEW index \in Nat, ContiguousIn(files, index),
         TypeOK,
         Len(placed') >= Len(placed),
         Len(placed') \in Nat,
         \A i \in 1 .. Len(placed) : placed'[i] = placed[i]
  PROVE  ContiguousNext(files, index)
  <1>1. Len(placed) \in Nat /\ Len(files) \in Nat
    BY DEF TypeOK
  <1> SUFFICES ASSUME NEW k \in 1 .. Len(files)
               PROVE  /\ files[k] \in 1 .. Len(placed')
                      /\ placed'[files[k]].archive = index
                      /\ placed'[files[k]].offset =
                           IF k = 1 THEN 0 ELSE placed'[files[k - 1]].offset + placed'[files[k - 1]].length
    BY DEF ContiguousNext
  <1>2. files[k] \in 1 .. Len(placed) /\ placed'[files[k]] = placed[files[k]]
    BY DEF ContiguousIn
  <1>3. k # 1 => k - 1 \in 1 .. Len(files)
    BY <1>1
  <1>4. k # 1 => files[k - 1] \in 1 .. Len(placed) /\ placed'[files[k - 1]] = placed[files[k - 1]]
    BY <1>3 DEF ContiguousIn
  <1>5. QED
    BY <1>1, <1>2, <1>4 DEF ContiguousIn, End

LEMMA ContiguousKept ==
  ASSUME TypeOK, Contiguous,
         Len(placed') >= Len(placed),
         Len(placed') \in Nat,
         \A i \in 1 .. Len(placed) : placed'[i] = placed[i]
  PROVE  /\ \A v \in 1 .. Len(archives) : ContiguousNext(archives[v].files, archives[v].index)
         /\ ContiguousNext(currentFiles, archiveIndex)
  <1>1. ASSUME NEW v \in 1 .. Len(archives)
        PROVE  ContiguousNext(archives[v].files, archives[v].index)
    <2>1. archives[v].files \in Seq(Nat) /\ archives[v].index \in Nat
      <3>1. archives \in Seq(Volume)
        BY DEF TypeOK, Volume
      <3>2. archives[v] \in Volume
        BY <3>1
      <3>3. QED
        BY <3>2 DEF Volume
    <2>2. ContiguousIn(archives[v].files, archives[v].index)
      BY DEF Contiguous
    <2>3. QED
      BY <2>1, <2>2, ListKept
  <1>2. ContiguousNext(currentFiles, archiveIndex)
    <2>1. currentFiles \in Seq(Nat) /\ archiveIndex \in Nat
      BY DEF TypeOK
    <2>2. ContiguousIn(currentFiles, archiveIndex)
      BY DEF Contiguous
    <2>3. QED
      BY <2>1, <2>2, ListKept
  <1>3. QED
    BY <1>1, <1>2

LEMMA EmptyStep == IInv /\ PlaceEmpty => IInv'
  <1> SUFFICES ASSUME IInv, PlaceEmpty PROVE IInv'
    OBVIOUS
  <1> USE DEF PlaceEmpty
  <1>1. TypeOK'
    BY StepTypeOK DEF IInv, Step
  <1>2. /\ TypeOK /\ Placing /\ multi /\ sizes[File] = 0
        /\ Record(DirectoryArchiveIndex, 0)
    BY DEF IInv
  <1>3. /\ Len(placed') = Len(placed) + 1
        /\ \A i \in 1 .. Len(placed) : placed'[i] = placed[i]
        /\ placed'[File].length = 0 /\ placed'[File].offset = 0
    BY <1>2, RecordFacts
  <1>4. Len(placed) \in Nat /\ File = Len(placed) + 1 /\ File <= Len(sizes)
    BY <1>2, PlacingFacts
  <1>5. \A i \in 1 .. Len(placed') : i = File \/ i \in 1 .. Len(placed)
    BY <1>3, <1>4
  <1>6. Bounds' /\ Latest' /\ Numbering'
    BY <1>2, <1>3, <1>4, <1>5 DEF IInv, Bounds, Latest, Numbering, HasRoom, End, Active
  <1>7. NoOverlap' /\ FitsArchive' /\ IndexUnambiguous'
    <2>1. NoOverlap'
      BY <1>2, <1>3, <1>4, <1>5 DEF IInv, NoOverlap, HasRoom, End
    <2>2. FitsArchive'
      BY <1>2, <1>3, <1>4, <1>5 DEF IInv, FitsArchive, End, LayoutAssumption
    <2>3. IndexUnambiguous'
      BY <1>2, <1>3, <1>4, <1>5 DEF IInv, IndexUnambiguous, HasRoom
    <2>4. QED
      BY <2>1, <2>2, <2>3
  <1>8. Contiguous'
    <2>1. /\ \A v \in 1 .. Len(archives) : ContiguousNext(archives[v].files, archives[v].index)
          /\ ContiguousNext(currentFiles, archiveIndex)
      BY <1>3, <1>4, ContiguousKept DEF IInv
    <2>2. QED
      BY <2>1 DEF Contiguous, ContiguousIn, ContiguousNext, End
  <1>9. CurrentVolume'
    <2>1. currentFiles # <<>> => currentFiles[Len(currentFiles)] \in 1 .. Len(placed)
      BY <1>2 DEF IInv, Contiguous, ContiguousIn, TypeOK
    <2>2. QED
      BY <1>2, <1>3, <2>1 DEF IInv, CurrentVolume, Active, End
  <1>10. Covered'
    BY <1>2, <1>3, <1>4, <1>5 DEF IInv, Covered, InClosedVolume, Listed, HasRoom, Placing
  <1>11. QED
    BY <1>1, <1>6, <1>7, <1>8, <1>9, <1>10 DEF IInv

LEMMA CurrentStep == IInv /\ PlaceInCurrent => IInv'
  <1> SUFFICES ASSUME IInv, PlaceInCurrent PROVE IInv'
    OBVIOUS
  <1>1. TypeOK'
    BY StepTypeOK DEF IInv, Step
  <1>2. /\ TypeOK /\ Placing /\ Record(archiveIndex, archiveOffset)
        /\ archiveIndex \in Nat /\ archiveOffset \in Nat
        /\ multi = TRUE /\ multi' = TRUE /\ archiveIndex' = archiveIndex /\ sizes' = sizes
        /\ archives' = archives /\ phase' = phase /\ phase = "placing"
        /\ archiveOffset' = archiveOffset + sizes[File]
    BY DEF PlaceInCurrent, IInv, TypeOK, Placing
  <1>3. /\ Len(placed') = Len(placed) + 1
        /\ \A i \in 1 .. Len(placed) : placed'[i] = placed[i]
        /\ placed'[File].archive = archiveIndex
        /\ placed'[File].offset = archiveOffset
        /\ placed'[File].length = sizes[File]
    BY <1>2, RecordFacts
  <1>4. /\ Len(placed) \in Nat /\ File = Len(placed) + 1 /\ File <= Len(sizes)
        /\ sizes[File] \in Nat /\ sizes[File] < UintRange /\ File \in Nat
        /\ \A i \in 1 .. Len(placed) :
             placed[i].archive \in Nat /\ placed[i].offset \in Nat /\ placed[i].length \in Nat
    BY <1>2, PlacingFacts
  <1>5. \A i \in 1 .. Len(placed') : i = File \/ i \in 1 .. Len(placed)
    BY <1>3, <1>4
  <1>6. /\ sizes[File] > 0 /\ archiveOffset + sizes[File] <= MaxArchiveSize
        /\ archiveOffset <= MaxArchiveSize /\ archiveIndex < DirectoryArchiveIndex
        /\ MaxArchiveSize \in Nat /\ MaxArchiveSize < UintRange
    <2>1. archiveOffset <= MaxArchiveSize /\ archiveIndex < DirectoryArchiveIndex
      BY <1>2 DEF IInv, Bounds
    <2>2. sizes[File] \in 1 .. MaxArchiveSize /\ ~StartsNewArchive
      BY DEF PlaceInCurrent
    <2>3. QED
      BY <1>2, <1>4, <2>1, <2>2 DEF StartsNewArchive, UintSub
  <1>7. Bounds' /\ Latest' /\ Numbering'
    <2>1. Bounds'
      BY <1>2, <1>3, <1>4, <1>6 DEF Bounds
    <2>2. Latest'
      <3> SUFFICES ASSUME NEW i \in 1 .. Len(placed'), placed'[i].length > 0
                   PROVE  /\ placed'[i].archive <= archiveIndex
                          /\ placed'[i].archive = archiveIndex =>
                               placed'[i].offset + placed'[i].length <= archiveOffset'
        BY <1>2 DEF Latest, HasRoom, End
      <3>1. CASE i = File
        BY <3>1, <1>2, <1>3, <1>4
      <3>2. CASE i \in 1 .. Len(placed)
        <4>1. placed'[i] = placed[i] /\ placed[i].length > 0
          BY <3>2, <1>3
        <4>2. /\ placed[i].archive <= archiveIndex
              /\ placed[i].archive = archiveIndex =>
                   placed[i].offset + placed[i].length <= archiveOffset
          BY <3>2, <4>1, <1>2 DEF IInv, Latest, HasRoom, End
        <4>3. /\ placed[i].offset \in Nat /\ placed[i].length \in Nat
              /\ archiveOffset \in Nat /\ sizes[File] \in Nat
              /\ archiveOffset' = archiveOffset + sizes[File]
          BY <3>2, <1>2, <1>4
        <4>4. QED
          BY <4>1, <4>2, <4>3
      <3>3. QED
        BY <3>1, <3>2, <1>5
    <2>3. Numbering'
      BY <1>2 DEF IInv, Numbering, Active
    <2>4. QED
      BY <2>1, <2>2, <2>3
  <1>8. NoOverlap' /\ FitsArchive' /\ IndexUnambiguous'
    <2>1. NoOverlap'
      <3> SUFFICES ASSUME NEW i \in 1 .. Len(placed'), NEW j \in 1 .. Len(placed'), i < j,
                          placed'[i].length > 0, placed'[j].length > 0,
                          placed'[i].archive = placed'[j].archive
                   PROVE  placed'[i].offset + placed'[i].length <= placed'[j].offset
        BY DEF NoOverlap, HasRoom, End
      <3>1. i \in 1 .. Len(placed)
        BY <1>3, <1>4
      <3>2. CASE j = File
        BY <3>1, <3>2, <1>2, <1>3 DEF IInv, Latest, HasRoom, End
      <3>3. CASE j \in 1 .. Len(placed)
        BY <3>1, <3>3, <1>3 DEF IInv, NoOverlap, HasRoom, End
      <3>4. QED
        BY <3>2, <3>3, <1>5
    <2>2. FitsArchive'
      BY <1>2, <1>3, <1>4, <1>5, <1>6 DEF IInv, FitsArchive, End
    <2>3. IndexUnambiguous'
      BY <1>2, <1>3, <1>4, <1>5, <1>6 DEF IInv, IndexUnambiguous, HasRoom
    <2>4. QED
      BY <2>1, <2>2, <2>3
  <1>9. /\ currentFiles \in Seq(Nat) /\ currentFiles' = Append(currentFiles, File)
        /\ Len(currentFiles) \in Nat
        /\ Len(currentFiles') = Len(currentFiles) + 1
        /\ currentFiles'[Len(currentFiles) + 1] = File
        /\ \A k \in 1 .. Len(currentFiles) : currentFiles'[k] = currentFiles[k]
        /\ currentFiles' # <<>>
    <2>1. currentFiles \in Seq(Nat) /\ File \in Nat
      BY <1>2, <1>4 DEF TypeOK
    <2>2. currentFiles' = Append(currentFiles, File)
      BY DEF PlaceInCurrent
    <2>3. QED
      BY <2>1, <2>2, AppendFacts
  <1>10. CurrentVolume'
    BY <1>2, <1>3, <1>4, <1>9 DEF CurrentVolume, End
  <1>11. Contiguous'
    <2>1. /\ \A v \in 1 .. Len(archives) : ContiguousNext(archives[v].files, archives[v].index)
          /\ ContiguousNext(currentFiles, archiveIndex)
      BY <1>3, <1>4, ContiguousKept DEF IInv
    <2>2. archiveOffset = IF currentFiles = <<>> THEN 0
                          ELSE End(placed[currentFiles[Len(currentFiles)]])
      BY <1>2 DEF IInv, CurrentVolume, Active, Placing
    <2>3. currentFiles # <<>> =>
            /\ currentFiles[Len(currentFiles)] \in 1 .. Len(placed)
            /\ Len(currentFiles) >= 1
      BY <1>9 DEF IInv, Contiguous, ContiguousIn
    <2>4. currentFiles = <<>> => Len(currentFiles) = 0
      OBVIOUS
    <2>5. ContiguousNext(currentFiles', archiveIndex)
      <3> SUFFICES ASSUME NEW k \in 1 .. Len(currentFiles) + 1
                   PROVE  /\ currentFiles'[k] \in 1 .. Len(placed')
                          /\ placed'[currentFiles'[k]].archive = archiveIndex
                          /\ placed'[currentFiles'[k]].offset =
                               IF k = 1 THEN 0
                               ELSE placed'[currentFiles'[k - 1]].offset
                                      + placed'[currentFiles'[k - 1]].length
        BY <1>9 DEF ContiguousNext
      <3>1. CASE k \in 1 .. Len(currentFiles)
        <4>1. k # 1 => k - 1 \in 1 .. Len(currentFiles)
          BY <3>1, <1>9
        <4>2. QED
          BY <3>1, <4>1, <2>1, <1>9 DEF ContiguousNext
      <3>2. CASE k = Len(currentFiles) + 1
        <4>1. currentFiles'[k] = File /\ File \in 1 .. Len(placed')
          BY <3>2, <1>9, <1>3, <1>4
        <4>2. CASE currentFiles = <<>>
          BY <4>1, <4>2, <3>2, <2>2, <2>4, <1>3
        <4>3. CASE currentFiles # <<>>
          <5>1. k - 1 = Len(currentFiles) /\ k # 1 /\ k - 1 \in 1 .. Len(currentFiles)
            BY <3>2, <2>3, <4>3, <1>9
          <5>2. currentFiles'[k - 1] = currentFiles[Len(currentFiles)]
            BY <5>1, <1>9
          <5>3. placed'[currentFiles'[k - 1]] = placed[currentFiles[Len(currentFiles)]]
            BY <5>2, <2>3, <4>3, <1>3
          <5>4. QED
            BY <5>1, <5>3, <4>1, <4>3, <2>2, <1>3 DEF End
        <4>4. QED
          BY <4>2, <4>3
      <3>3. QED
        BY <3>1, <3>2, <1>9
    <2>6. QED
      BY <1>2, <2>1, <2>5 DEF Contiguous, ContiguousIn, ContiguousNext, End
  <1>12. Covered'
    <2>1. \E k \in 1 .. Len(currentFiles') : currentFiles'[k] = File
      BY <1>9
    <2>2. ASSUME NEW i \in 1 .. Len(placed), Listed(i, currentFiles)
          PROVE  \E k \in 1 .. Len(currentFiles') : currentFiles'[k] = i
      BY <1>9, <2>2 DEF Listed
    <2>3. ASSUME NEW i \in 1 .. Len(placed'), placed'[i].length > 0
          PROVE  \/ InClosedVolume(i)'
                 \/ (placed'[i].archive = archiveIndex /\ Listed(i, currentFiles'))
      <3>1. CASE i = File
        BY <2>1, <3>1, <1>3 DEF Listed
      <3>2. CASE i \in 1 .. Len(placed)
        <4>1. placed'[i] = placed[i] /\ HasRoom(i)
          BY <2>3, <3>2, <1>3 DEF HasRoom
        <4>2. InClosedVolume(i) \/ (placed[i].archive = archiveIndex /\ Listed(i, currentFiles))
          BY <4>1, <3>2, <1>2 DEF IInv, Covered
        <4>3. InClosedVolume(i) => InClosedVolume(i)'
          BY <4>1, <1>2 DEF InClosedVolume, Listed
        <4>4. Listed(i, currentFiles) => Listed(i, currentFiles')
          BY <2>2, <3>2 DEF Listed
        <4>5. QED
          BY <4>1, <4>2, <4>3, <4>4
      <3>3. QED
        BY <3>1, <3>2, <1>5
    <2>4. QED
      BY <2>3, <1>2 DEF Covered, HasRoom, Listed
  <1>13. QED
    BY <1>1, <1>7, <1>8, <1>10, <1>11, <1>12 DEF IInv

\* Closing a volume that has files appends it to the list.
LEMMA ClosedArchivesFacts ==
  ASSUME TypeOK, currentFiles # <<>>, archives' = ClosedArchives
  PROVE  /\ Len(archives') = Len(archives) + 1 /\ Len(archives) \in Nat
         /\ \A v \in 1 .. Len(archives) : archives'[v] = archives[v]
         /\ archives'[Len(archives) + 1].index = archiveIndex
         /\ archives'[Len(archives) + 1].files = currentFiles
  <1> DEFINE e == [index |-> archiveIndex, files |-> currentFiles]
  <1>1. e \in Volume
    BY DEF TypeOK, Volume
  <1>2. archives \in Seq(Volume) /\ archives' = Append(archives, e)
    BY DEF TypeOK, Volume, ClosedArchives
  <1>3. QED
    BY <1>1, <1>2, AppendFacts

LEMMA NextStep == IInv /\ PlaceInNext => IInv'
  <1> SUFFICES ASSUME IInv, PlaceInNext PROVE IInv'
    OBVIOUS
  <1>1. TypeOK'
    BY StepTypeOK DEF IInv, Step
  <1>2. /\ TypeOK /\ Placing /\ archiveIndex \in Nat /\ archiveOffset \in Nat
        /\ archiveOffset > 0
        /\ multi = TRUE /\ multi' = TRUE /\ archiveIndex' = archiveIndex + 1 /\ sizes' = sizes
        /\ archives' = ClosedArchives /\ phase' = phase /\ phase = "placing"
        /\ archiveOffset' = sizes[File] /\ currentFiles' = <<File>>
        /\ Record(archiveIndex + 1, 0)
    BY DEF PlaceInNext, IInv, TypeOK, Placing, StartsNewArchive
  <1>3. /\ Len(placed') = Len(placed) + 1
        /\ \A i \in 1 .. Len(placed) : placed'[i] = placed[i]
        /\ placed'[File].archive = archiveIndex + 1
        /\ placed'[File].offset = 0
        /\ placed'[File].length = sizes[File]
    <2>1. archiveIndex + 1 \in Nat
      BY <1>2
    <2>2. QED
      BY <1>2, <2>1, RecordFacts
  <1>4. /\ Len(placed) \in Nat /\ File = Len(placed) + 1 /\ File <= Len(sizes)
        /\ sizes[File] \in Nat /\ sizes[File] < UintRange /\ File \in Nat
        /\ \A i \in 1 .. Len(placed) :
             placed[i].archive \in Nat /\ placed[i].offset \in Nat /\ placed[i].length \in Nat
    BY <1>2, PlacingFacts
  <1>5. \A i \in 1 .. Len(placed') : i = File \/ i \in 1 .. Len(placed)
    BY <1>3, <1>4
  <1>6. /\ sizes[File] > 0 /\ sizes[File] <= MaxArchiveSize
        /\ archiveIndex + 1 < DirectoryArchiveIndex
        /\ MaxArchiveSize \in Nat /\ MaxArchiveSize < UintRange
    <2>1. archiveIndex < DirectoryArchiveIndex
      BY <1>2 DEF IInv, Bounds
    <2>2. sizes[File] \in 1 .. MaxArchiveSize /\ archiveIndex + 1 # DirectoryArchiveIndex
      BY DEF PlaceInNext
    <2>3. QED
      BY <1>2, <1>4, <2>1, <2>2
  <1>7. currentFiles # <<>>
    BY <1>2 DEF IInv, CurrentVolume, Active
  <1>8. /\ Len(archives') = Len(archives) + 1 /\ Len(archives) \in Nat
        /\ \A v \in 1 .. Len(archives) : archives'[v] = archives[v]
        /\ archives'[Len(archives) + 1].index = archiveIndex
        /\ archives'[Len(archives) + 1].files = currentFiles
    BY <1>2, <1>7, ClosedArchivesFacts
  <1>9. \A v \in 1 .. Len(archives') : v = Len(archives) + 1 \/ v \in 1 .. Len(archives)
    BY <1>8
  <1>10. Bounds' /\ Latest' /\ Numbering' /\ CurrentVolume'
    <2>1. Bounds'
      BY <1>2, <1>3, <1>4, <1>6 DEF Bounds
    <2>2. Latest'
      <3> SUFFICES ASSUME NEW i \in 1 .. Len(placed'), placed'[i].length > 0
                   PROVE  /\ placed'[i].archive <= archiveIndex + 1
                          /\ placed'[i].archive = archiveIndex + 1 =>
                               placed'[i].offset + placed'[i].length <= archiveOffset'
        BY <1>2 DEF Latest, HasRoom, End
      <3>1. CASE i = File
        BY <3>1, <1>2, <1>3, <1>4
      <3>2. CASE i \in 1 .. Len(placed)
        BY <3>2, <1>2, <1>3, <1>4 DEF IInv, Latest, HasRoom
      <3>3. QED
        BY <3>1, <3>2, <1>5
    <2>3. Numbering'
      BY <1>2, <1>8, <1>9 DEF IInv, Numbering, Active
    <2>4. CurrentVolume'
      BY <1>2, <1>3, <1>4 DEF CurrentVolume, End
    <2>5. QED
      BY <2>1, <2>2, <2>3, <2>4
  <1>11. NoOverlap' /\ FitsArchive' /\ IndexUnambiguous'
    <2>1. NoOverlap'
      <3> SUFFICES ASSUME NEW i \in 1 .. Len(placed'), NEW j \in 1 .. Len(placed'), i < j,
                          placed'[i].length > 0, placed'[j].length > 0,
                          placed'[i].archive = placed'[j].archive
                   PROVE  placed'[i].offset + placed'[i].length <= placed'[j].offset
        BY DEF NoOverlap, HasRoom, End
      <3>1. i \in 1 .. Len(placed)
        BY <1>3, <1>4
      <3>2. CASE j = File
        <4>1. placed[i].archive <= archiveIndex
          BY <3>1, <1>2, <1>3 DEF IInv, Latest, HasRoom
        <4>2. QED
          BY <3>1, <3>2, <4>1, <1>2, <1>3, <1>4
      <3>3. CASE j \in 1 .. Len(placed)
        BY <3>1, <3>3, <1>3 DEF IInv, NoOverlap, HasRoom, End
      <3>4. QED
        BY <3>2, <3>3, <1>5
    <2>2. FitsArchive'
      BY <1>2, <1>3, <1>4, <1>5, <1>6 DEF IInv, FitsArchive, End
    <2>3. IndexUnambiguous'
      BY <1>2, <1>3, <1>4, <1>5, <1>6 DEF IInv, IndexUnambiguous, HasRoom
    <2>4. QED
      BY <2>1, <2>2, <2>3
  <1>12. Contiguous'
    <2>1. /\ \A v \in 1 .. Len(archives) : ContiguousNext(archives[v].files, archives[v].index)
          /\ ContiguousNext(currentFiles, archiveIndex)
      BY <1>3, <1>4, ContiguousKept DEF IInv
    <2>2. ASSUME NEW v \in 1 .. Len(archives')
          PROVE  ContiguousNext(archives'[v].files, archives'[v].index)
      BY <2>1, <1>8, <1>9
    <2>3. ContiguousNext(<<File>>, archiveIndex + 1)
      BY <1>3, <1>4 DEF ContiguousNext
    <2>4. QED
      BY <1>2, <2>2, <2>3 DEF Contiguous, ContiguousIn, ContiguousNext, End
  <1>13. Covered'
    <2>1. ASSUME NEW i \in 1 .. Len(placed'), placed'[i].length > 0
          PROVE  \/ InClosedVolume(i)'
                 \/ (placed'[i].archive = archiveIndex' /\ Listed(i, currentFiles'))
      <3>1. CASE i = File
        BY <3>1, <1>2, <1>3 DEF Listed
      <3>2. CASE i \in 1 .. Len(placed)
        <4>1. placed'[i] = placed[i] /\ HasRoom(i)
          BY <2>1, <3>2, <1>3 DEF HasRoom
        <4>2. InClosedVolume(i) \/ (placed[i].archive = archiveIndex /\ Listed(i, currentFiles))
          BY <4>1, <3>2, <1>2 DEF IInv, Covered
        <4>3. InClosedVolume(i) => InClosedVolume(i)'
          BY <4>1, <1>8 DEF InClosedVolume, Listed
        <4>4. (placed[i].archive = archiveIndex /\ Listed(i, currentFiles)) => InClosedVolume(i)'
          BY <4>1, <1>8 DEF InClosedVolume, Listed
        <4>5. QED
          BY <4>2, <4>3, <4>4
      <3>3. QED
        BY <3>1, <3>2, <1>5
    <2>2. QED
      BY <2>1, <1>2 DEF Covered, HasRoom, Listed
  <1>14. QED
    BY <1>1, <1>10, <1>11, <1>12, <1>13 DEF IInv

LEMMA SingleStep == IInv /\ PlaceSingle => IInv'
  <1> SUFFICES ASSUME IInv, PlaceSingle PROVE IInv'
    OBVIOUS
  <1>1. TypeOK'
    BY StepTypeOK DEF IInv, Step
  <1>2. /\ TypeOK /\ Placing /\ archiveOffset \in Nat
        /\ multi = FALSE /\ multi' = FALSE /\ archiveIndex' = archiveIndex /\ sizes' = sizes
        /\ archives' = archives /\ currentFiles' = currentFiles
        /\ archives = <<>> /\ currentFiles = <<>>
        /\ phase' = phase /\ phase = "placing"
        /\ archiveOffset' = archiveOffset + sizes[File]
        /\ archiveOffset + sizes[File] < UintRange
        /\ Record(DirectoryArchiveIndex, archiveOffset)
    BY DEF PlaceSingle, IInv, Bounds, TypeOK, Placing
  <1>3. /\ Len(placed') = Len(placed) + 1
        /\ \A i \in 1 .. Len(placed) : placed'[i] = placed[i]
        /\ placed'[File].offset = archiveOffset
        /\ placed'[File].length = sizes[File]
    BY <1>2, RecordFacts
  <1>4. /\ Len(placed) \in Nat /\ File = Len(placed) + 1 /\ File <= Len(sizes)
        /\ sizes[File] \in Nat /\ sizes[File] < UintRange /\ File \in Nat
        /\ \A i \in 1 .. Len(placed) :
             placed[i].archive \in Nat /\ placed[i].offset \in Nat /\ placed[i].length \in Nat
    BY <1>2, PlacingFacts
  <1>5. \A i \in 1 .. Len(placed') : i = File \/ i \in 1 .. Len(placed)
    BY <1>3, <1>4
  <1>6. Bounds' /\ Numbering' /\ CurrentVolume' /\ Covered' /\ IndexUnambiguous'
    BY <1>2, <1>3, <1>4
       DEF IInv, Bounds, Numbering, CurrentVolume, Covered, IndexUnambiguous, Active
  <1>7. Latest'
    <2> SUFFICES ASSUME NEW i \in 1 .. Len(placed'), placed'[i].length > 0
                 PROVE  placed'[i].offset + placed'[i].length <= archiveOffset'
      BY <1>2 DEF Latest, HasRoom, End
    <2>1. CASE i = File
      BY <2>1, <1>2, <1>3, <1>4
    <2>2. CASE i \in 1 .. Len(placed)
      <3>1. HasRoom(i) /\ placed'[i] = placed[i]
        BY <2>2, <1>3 DEF HasRoom
      <3>2. placed[i].offset + placed[i].length <= archiveOffset
        BY <3>1, <2>2, <1>2 DEF IInv, Latest, End
      <3>3. placed[i].offset \in Nat /\ placed[i].length \in Nat
        BY <2>2, <1>4
      <3>4. archiveOffset \in Nat /\ archiveOffset' \in Nat /\ archiveOffset <= archiveOffset'
        BY <1>2, <1>4
      <3>5. placed[i].offset + placed[i].length <= archiveOffset'
        BY <3>2, <3>3, <3>4
      <3>6. QED
        BY <3>1, <3>5
    <2>3. QED
      BY <2>1, <2>2, <1>5
  <1>8. NoOverlap'
    <2> SUFFICES ASSUME NEW i \in 1 .. Len(placed'), NEW j \in 1 .. Len(placed'), i < j,
                        placed'[i].length > 0, placed'[j].length > 0,
                        placed'[i].archive = placed'[j].archive
                 PROVE  placed'[i].offset + placed'[i].length <= placed'[j].offset
      BY DEF NoOverlap, HasRoom, End
    <2>1. i \in 1 .. Len(placed)
      BY <1>3, <1>4
    <2>2. CASE j = File
      BY <2>1, <2>2, <1>2, <1>3 DEF IInv, Latest, HasRoom, End
    <2>3. CASE j \in 1 .. Len(placed)
      BY <2>1, <2>3, <1>3 DEF IInv, NoOverlap, HasRoom, End
    <2>4. QED
      BY <2>2, <2>3, <1>5
  <1>9. FitsArchive'
    BY <1>2, <1>3, <1>4, <1>5 DEF IInv, FitsArchive, End
  <1>10. Contiguous'
    BY <1>2 DEF Contiguous, ContiguousIn
  <1>11. QED
    BY <1>1, <1>6, <1>7, <1>8, <1>9, <1>10 DEF IInv

\* An exception leaves everything but the phase alone.
LEMMA ThrowStep ==
  IInv /\ (RejectTooLarge \/ RejectTooMany \/ OverflowSingle) => IInv'
  <1> SUFFICES ASSUME IInv, RejectTooLarge \/ RejectTooMany \/ OverflowSingle
               PROVE  IInv'
    OBVIOUS
  <1>1. TypeOK'
    BY StepTypeOK DEF IInv, Step
  <1>2. /\ phase' \in Errors /\ sizes' = sizes /\ multi' = multi /\ placed' = placed
        /\ archiveIndex' = archiveIndex /\ archiveOffset' = archiveOffset
        /\ currentFiles' = currentFiles /\ archives' = archives
    BY DEF RejectTooLarge, RejectTooMany, OverflowSingle, Throw, Errors
  <1>3. phase' # "placing" /\ phase' # "placed"
    BY <1>2 DEF Errors
  <1>4. Bounds' /\ Latest' /\ NoOverlap' /\ FitsArchive' /\ IndexUnambiguous'
    <2>1. Bounds'
      BY <1>2, <1>3 DEF IInv, Bounds
    <2>2. Latest' /\ IndexUnambiguous'
      BY <1>2 DEF IInv, Latest, IndexUnambiguous, HasRoom, End
    <2>3. NoOverlap' /\ FitsArchive'
      BY <1>2 DEF IInv, NoOverlap, FitsArchive, HasRoom, End
    <2>4. QED
      BY <2>1, <2>2, <2>3
  <1>5. Contiguous'
    BY <1>2 DEF IInv, Contiguous, ContiguousIn, End
  <1>6. CurrentVolume' /\ Numbering'
    BY <1>2, <1>3 DEF IInv, CurrentVolume, Numbering, Active
  <1>7. Covered'
    BY <1>2, <1>3 DEF IInv, Covered, InClosedVolume, Listed, HasRoom
  <1>8. QED
    BY <1>1, <1>4, <1>5, <1>6, <1>7 DEF IInv

LEMMA FinishStep == IInv /\ FinishLayout => IInv'
  <1> SUFFICES ASSUME IInv, FinishLayout PROVE IInv'
    OBVIOUS
  <1>1. TypeOK'
    BY StepTypeOK DEF IInv, Step
  <1>2. /\ TypeOK /\ archiveIndex \in Nat /\ Len(placed) \in Nat /\ Len(sizes) \in Nat
        /\ phase = "placing" /\ phase' = "placed" /\ sizes' = sizes /\ multi' = multi
        /\ placed' = placed /\ archiveIndex' = archiveIndex /\ archiveOffset' = archiveOffset
        /\ currentFiles' = <<>> /\ archives' = ClosedArchives
        /\ Len(placed) >= Len(sizes)
    BY DEF FinishLayout, File, IInv, TypeOK
  <1>3. Bounds' /\ Latest' /\ NoOverlap' /\ FitsArchive' /\ IndexUnambiguous' /\ CurrentVolume'
    <2>1. ~multi => archives' = <<>>
      BY <1>2 DEF IInv, Bounds, ClosedArchives
    <2>2. QED
      BY <1>2, <2>1 DEF IInv, Bounds, Latest, NoOverlap, FitsArchive, IndexUnambiguous,
                        CurrentVolume, HasRoom, End, Active
  <1>4. /\ \A v \in 1 .. Len(archives) : ContiguousNext(archives[v].files, archives[v].index)
        /\ ContiguousNext(currentFiles, archiveIndex)
    BY <1>2, ContiguousKept DEF IInv
  <1>5. CASE currentFiles = <<>>
    <2>1. archives' = archives
      BY <1>2, <1>5 DEF ClosedArchives
    <2>2. Contiguous'
      BY <1>2, <1>4, <2>1 DEF Contiguous, ContiguousIn, ContiguousNext, End
    <2>3. Numbering'
      BY <1>2, <2>1 DEF IInv, Numbering, Active
    <2>4. Covered'
      <3>1. \A i \in 1 .. Len(placed) : Listed(i, currentFiles) => FALSE
        BY <1>5 DEF Listed
      <3>2. \A i \in 1 .. Len(placed) : (multi /\ HasRoom(i)) => InClosedVolume(i)
        BY <3>1 DEF IInv, Covered
      <3>3. \A i : InClosedVolume(i) => InClosedVolume(i)'
        BY <1>2, <2>1 DEF InClosedVolume
      <3>4. Len(placed) = Len(sizes)
        BY <1>2 DEF IInv, Bounds
      <3>5. QED
        BY <1>2, <3>2, <3>3, <3>4 DEF Covered, HasRoom
    <2>5. QED
      BY <1>1, <1>3, <2>2, <2>3, <2>4 DEF IInv
  <1>6. CASE currentFiles # <<>>
    <2>0. multi = TRUE
      BY <1>2, <1>6 DEF IInv, Bounds, TypeOK
    <2>1. /\ Len(archives') = Len(archives) + 1 /\ Len(archives) \in Nat
          /\ \A v \in 1 .. Len(archives) : archives'[v] = archives[v]
          /\ archives'[Len(archives) + 1].index = archiveIndex
          /\ archives'[Len(archives) + 1].files = currentFiles
      BY <1>2, <1>6, ClosedArchivesFacts
    <2>2. \A v \in 1 .. Len(archives') : v = Len(archives) + 1 \/ v \in 1 .. Len(archives)
      BY <2>1
    <2>3. Contiguous'
      <3>1. ASSUME NEW v \in 1 .. Len(archives')
            PROVE  ContiguousNext(archives'[v].files, archives'[v].index)
        BY <1>4, <2>1, <2>2
      <3>2. QED
        BY <1>2, <3>1 DEF Contiguous, ContiguousIn, ContiguousNext, End
    <2>4. Numbering'
      BY <1>2, <2>0, <2>1, <2>2 DEF IInv, Numbering, Active
    <2>5. Covered'
      <3>1. ASSUME NEW i \in 1 .. Len(placed), HasRoom(i)
            PROVE  InClosedVolume(i)'
        <4>1. InClosedVolume(i) \/ (placed[i].archive = archiveIndex /\ Listed(i, currentFiles))
          BY <2>0, <3>1 DEF IInv, Covered
        <4>2. InClosedVolume(i) => InClosedVolume(i)'
          BY <1>2, <2>1 DEF InClosedVolume, Listed
        <4>3. (placed[i].archive = archiveIndex /\ Listed(i, currentFiles)) => InClosedVolume(i)'
          BY <1>2, <2>1 DEF InClosedVolume, Listed
        <4>4. QED
          BY <4>1, <4>2, <4>3
      <3>2. Len(placed) = Len(sizes)
        BY <1>2 DEF IInv, Bounds
      <3>3. QED
        BY <3>1, <3>2, <1>2 DEF Covered, HasRoom
    <2>6. QED
      BY <1>1, <1>3, <2>3, <2>4, <2>5 DEF IInv
  <1>7. QED
    BY <1>5, <1>6

LEMMA StutterStep == IInv /\ UNCHANGED layoutVars => IInv'
  <1> SUFFICES ASSUME IInv, UNCHANGED layoutVars PROVE IInv'
    OBVIOUS
  <1>1. TypeOK'
    BY StepTypeOK DEF IInv
  <1>2. Bounds' /\ Latest' /\ NoOverlap' /\ FitsArchive' /\ IndexUnambiguous'
    <2>1. Bounds' /\ Latest' /\ IndexUnambiguous'
      BY DEF layoutVars, IInv, Bounds, Latest, IndexUnambiguous, HasRoom, End
    <2>2. NoOverlap' /\ FitsArchive'
      BY DEF layoutVars, IInv, NoOverlap, FitsArchive, HasRoom, End
    <2>3. QED
      BY <2>1, <2>2
  <1>3. Contiguous' /\ CurrentVolume' /\ Numbering'
    BY DEF layoutVars, IInv, Contiguous, ContiguousIn, CurrentVolume, Numbering, End, Active
  <1>4. Covered'
    BY DEF layoutVars, IInv, Covered, InClosedVolume, Listed, HasRoom
  <1>5. QED
    BY <1>1, <1>2, <1>3, <1>4 DEF IInv

LEMMA LayoutInvariant == Spec => []IInv
  <1>1. IInv /\ [Step]_layoutVars => IInv'
    BY EmptyStep, CurrentStep, NextStep, SingleStep, ThrowStep, FinishStep, StutterStep
       DEF Step
  <1>2. QED
    BY InitIInv, <1>1, PTL DEF Spec

-----------------------------------------------------------------------------

\* Every variable of the layout keeps its type.
THEOREM LayoutTypeCorrect == Spec => []TypeOK
  <1>1. Init => TypeOK
    BY InitIInv DEF IInv
  <1>2. QED
    BY <1>1, StepTypeOK, PTL DEF Spec

\* AssignOffsetsMultiFile and AssignOffsetsSingleFile never give a byte of a
\* volume to two files.
THEOREM LayoutNoOverlap == Spec => []NoOverlap
  <1>1. IInv => NoOverlap
    BY DEF IInv
  <1>2. QED
    BY <1>1, LayoutInvariant, PTL

\* Every placement can be addressed and none passes MaxArchiveSize, whatever
\* the sizes: the unchecked uint subtraction never wraps.
THEOREM LayoutFits == Spec => []FitsArchive
  <1>1. IInv => FitsArchive
    BY DEF IInv
  <1>2. QED
    BY <1>1, LayoutInvariant, PTL

\* No file with data is given the index that means "in the directory file".
THEOREM LayoutIndexUnambiguous == Spec => []IndexUnambiguous
  <1>1. IInv => IndexUnambiguous
    BY DEF IInv
  <1>2. QED
    BY <1>1, LayoutInvariant, PTL

\* The offsets of the tree are the positions an append-only writer reaches.
THEOREM LayoutContiguous == Spec => []Contiguous
  <1>1. IInv => Contiguous
    BY DEF IInv
  <1>2. QED
    BY <1>1, LayoutInvariant, PTL

\* A finished layout lists every file with data in the volume its entry names,
\* and the volumes are numbered without gaps.
THEOREM LayoutEveryFileWritten == Spec => []EveryFileWritten
  <1>1. IInv => EveryFileWritten
    <2> SUFFICES ASSUME IInv, phase = "placed", multi PROVE EveryFileWritten
      BY DEF EveryFileWritten
    <2>1. currentFiles = <<>> /\ Len(placed) = Len(sizes)
      BY DEF IInv, Covered
    <2>2. \A i : ~Listed(i, currentFiles)
      BY <2>1 DEF Listed
    <2>3. \A i \in 1 .. Len(placed) : HasRoom(i) => InClosedVolume(i)
      BY <2>2 DEF IInv, Covered
    <2>4. QED
      BY <2>1, <2>3 DEF IInv, Numbering, EveryFileWritten, InClosedVolume, Listed
  <1>2. QED
    BY <1>1, LayoutInvariant, PTL

-----------------------------------------------------------------------------
(* What a packer relies on besides. *)

\* An entry has the length it was given.  In a single file the entries follow one
\* another without gaps; a numbered volume never has the directory's index.
Chained ==
  /\ \A i \in 1 .. Len(placed) :
       /\ placed[i].length = sizes[i]
       /\ ~multi => /\ placed[i].archive = DirectoryArchiveIndex
                    /\ placed[i].offset = IF i = 1 THEN 0 ELSE End(placed[i - 1])
  /\ ~multi /\ Active => archiveOffset = IF placed = <<>> THEN 0 ELSE End(placed[Len(placed)])
  /\ multi => \A v \in 1 .. Len(archives) : archives[v].index < DirectoryArchiveIndex

LEMMA ChainedInit == Init => Chained
  BY DEF Init, StartLayout, Chained

LEMMA ChainedStep ==
  ASSUME IInv, Chained, [Step]_layoutVars
  PROVE  Chained'
  <1>1. TypeOK /\ Bounds /\ Numbering
    BY DEF IInv
  <1>2. ASSUME Placing, NEW a \in Nat, NEW o \in Nat, Record(a, o), sizes' = sizes, multi' = multi,
               ~multi => a = DirectoryArchiveIndex /\ o = archiveOffset
                         /\ archiveOffset' = archiveOffset + sizes[File],
               Active,
               multi => \A v \in 1 .. Len(archives') : archives'[v].index < DirectoryArchiveIndex
        PROVE  Chained'
    <2>1. /\ Len(placed') = Len(placed) + 1
          /\ \A i \in 1 .. Len(placed) : placed'[i] = placed[i]
          /\ placed'[File].archive = a
          /\ placed'[File].offset = o
          /\ placed'[File].length = sizes[File]
      BY <1>1, <1>2, RecordFacts
    <2>2. File = Len(placed) + 1 /\ Len(placed) \in Nat /\ archiveOffset \in Nat /\ sizes[File] \in Nat
      BY <1>1, <1>2, PlacingFacts DEF TypeOK
    <2>3. placed = <<>> <=> Len(placed) = 0
      BY <1>1 DEF TypeOK
    <2>4. placed' # <<>>
      BY <2>1, <2>2
    <2>5. ASSUME NEW i \in 1 .. Len(placed')
          PROVE  /\ placed'[i].length = sizes'[i]
                 /\ ~multi' => /\ placed'[i].archive = DirectoryArchiveIndex
                               /\ placed'[i].offset = IF i = 1 THEN 0 ELSE End(placed'[i - 1])
      <3>1. CASE i \in 1 .. Len(placed)
        <4>1. placed'[i] = placed[i] /\ (i # 1 => placed'[i - 1] = placed[i - 1])
          BY <2>1, <2>2, <3>1
        <4>2. /\ placed[i].length = sizes[i]
              /\ ~multi => /\ placed[i].archive = DirectoryArchiveIndex
                           /\ placed[i].offset = IF i = 1 THEN 0 ELSE End(placed[i - 1])
          BY <3>1 DEF Chained
        <4> QED BY <1>2, <4>1, <4>2 DEF End
      <3>2. CASE i = File
        <4>1. i = 1 <=> Len(placed) = 0
          BY <2>2, <3>2
        <4>2. i # 1 => placed'[i - 1] = placed[Len(placed)]
          BY <2>1, <2>2, <3>2
        <4>3. ~multi => archiveOffset = IF placed = <<>> THEN 0 ELSE End(placed[Len(placed)])
          BY <1>2 DEF Chained
        <4>4. placed'[i].length = sizes[i] /\ placed'[i].archive = a /\ placed'[i].offset = o
          BY <2>1, <3>2
        <4>5. ~multi => o = IF i = 1 THEN 0 ELSE End(placed'[i - 1])
          BY <1>2, <2>3, <4>1, <4>2, <4>3 DEF End
        <4> QED BY <1>2, <4>4, <4>5
      <3> QED BY <2>1, <2>2, <3>1, <3>2
    <2>6. ~multi => archiveOffset' = End(placed'[Len(placed')])
      BY <1>2, <2>1, <2>2 DEF End
    <2> QED BY <1>2, <2>4, <2>5, <2>6 DEF Chained, End
  <1>3. \A v \in 1 .. Len(archives) : archives[v].index = v - 1
    BY <1>1 DEF Numbering
  <1>4. Active /\ multi => Len(archives) = archiveIndex /\ archiveIndex < DirectoryArchiveIndex
    BY <1>1 DEF Numbering, Bounds
  <1>5. CASE PlaceEmpty
    BY <1>2, <1>5 DEF PlaceEmpty, Placing, Active, Chained
  <1>6. CASE PlaceInCurrent
    BY <1>1, <1>2, <1>6 DEF PlaceInCurrent, Placing, Active, Chained, TypeOK
  <1>7. Active /\ multi /\ archives' = ClosedArchives =>
          \A v \in 1 .. Len(archives') : archives'[v].index < DirectoryArchiveIndex
    <2>1. CASE currentFiles = <<>>
      BY <2>1 DEF ClosedArchives, Chained
    <2>2. CASE currentFiles # <<>>
      <3> HAVE Active /\ multi /\ archives' = ClosedArchives
      <3>1. /\ Len(archives') = Len(archives) + 1 /\ Len(archives) \in Nat
            /\ \A v \in 1 .. Len(archives) : archives'[v] = archives[v]
            /\ archives'[Len(archives) + 1].index = archiveIndex
        BY <1>1, <2>2, ClosedArchivesFacts
      <3> TAKE v \in 1 .. Len(archives')
      <3> QED BY <1>4, <3>1 DEF Chained
    <2> QED BY <2>1, <2>2
  <1>8. CASE PlaceInNext
    BY <1>1, <1>2, <1>7, <1>8 DEF PlaceInNext, Placing, Active, TypeOK
  <1>9. CASE PlaceSingle
    BY <1>1, <1>2, <1>9 DEF PlaceSingle, Placing, Active, TypeOK
  <1>10. CASE RejectTooLarge \/ RejectTooMany \/ OverflowSingle
    <2>1. phase' # "placing" /\ UNCHANGED <<sizes, multi, placed, archives>>
      BY <1>10 DEF RejectTooLarge, RejectTooMany, OverflowSingle, Throw
    <2> QED BY <2>1 DEF Chained, Active, End
  <1>11. CASE FinishLayout
    <2>1. phase' # "placing" /\ UNCHANGED <<sizes, multi, placed>> /\ archives' = ClosedArchives /\ Active
      BY <1>11 DEF FinishLayout, Active
    <2> QED BY <1>7, <2>1 DEF Chained, Active, End
  <1>12. CASE UNCHANGED layoutVars
    BY <1>12 DEF layoutVars, Chained, Active, End
  <1> QED BY <1>5, <1>6, <1>8, <1>9, <1>10, <1>11, <1>12 DEF Step

=============================================================================

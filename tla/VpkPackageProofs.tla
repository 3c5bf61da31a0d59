--------------------------- MODULE VpkPackageProofs ---------------------------
(***************************************************************************)
(* VpkPackage for every number of files, every content, every preload and   *)
(* archive size and any number of pack and unpack runs: where a pack run    *)
(* stands in its list of file operations, what it has written by then, and  *)
(* what an open reader may rely on.                                         *)
(*                                                                         *)
(* The list of operations is the concatenation of pieces, one or two        *)
(* operations for a file and a list of them for a volume.  The invariant    *)
(* says, for each kind of package, which pieces are left and that the files *)
(* of the pieces already done are stored as their entries will say.         *)
(***************************************************************************)
EXTENDS VpkPackage, SequenceTheorems, TLAPS

LP == INSTANCE VpkLayoutProofs WITH Inputs <- {}

-----------------------------------------------------------------------------
(* What is left of a list of pieces. *)

RestOf(s, k) == FlattenSeq(SubSeq(s, k, Len(s)))

Operations == {"create", "placeholder", "preload", "data", "hash", "copy", "inline",
               "finalize", "close", "commit"}

Items == [op : Operations, arg : Nat]

ReadPiece(op, f) ==
  IF PreloadBytes(f) > 0 THEN <<Item("preload", f), Item(op, f)>> ELSE <<Item(op, f)>>

ReadPieces(op, fs) == [k \in 1 .. Len(fs) |-> ReadPiece(op, fs[k])]

CopyPieces ==
  [f \in Files |-> IF EntryLength(f) > 0 THEN <<Item("copy", f)>> ELSE <<>>]

InlinePieces ==
  [f \in Files |->
    IF EntryLength(f) = 0 /\ PreloadBytes(f) > 0 THEN <<Item("inline", f)>> ELSE <<>>]

VolumePieces == [v \in 1 .. Len(archives) |-> VolumeProgram(archives[v])]

FinalItems == [f \in Files |-> Item("finalize", f)]

Create == <<Item("create", Dir)>>
Commit == <<Item("commit", Dir)>>

\* The k-th file of a list and all after it; half: its preload is read already.
ReadTodo(op, fs, k, half, rest) ==
  IF half THEN <<Item(op, fs[k])>> \o (RestOf(ReadPieces(op, fs), k + 1) \o rest)
  ELSE RestOf(ReadPieces(op, fs), k) \o rest

-----------------------------------------------------------------------------
(* What is known of a file of the run. *)

NoFile == [f \in Files |-> [crc |-> <<>>, preload |-> <<>>]]

Entry == {e \in [crc : Seq(Byte), preload : Seq(Byte), archive : Nat, offset : Nat, length : Nat] :
            e.length > 0 => e.archive \in Volumes}

\* Its preload is that of the source, unless somebody edited it.
Ready(f) == f \notin touched => file[f].preload = SubSeq(src[f], 1, PreloadBytes(f))

\* Its entry will describe the bytes stored for it and, if nobody edited it, those
\* of the source.  The MD5 mode promises nothing for a file somebody edited.
Good(f) ==
  /\ (mode # "singleMd5" \/ f \notin touched) =>
       /\ StoredData(FinalEntry(f)) \in Seq(Byte)
       /\ file[f].preload \o StoredData(FinalEntry(f)) = file[f].crc
  /\ f \notin touched => file[f].crc = src[f]

AllGood(D) == \A f \in D : Good(f)

\* After the hashing pass.
Hashed(f) ==
  f \notin touched => /\ file[f].crc = src[f]
                      /\ file[f].preload = SubSeq(src[f], 1, PreloadBytes(f))

\* How much of an output file the files before the k-th take.
Filled(fs, k) ==
  IF k = 1 THEN 0 ELSE placed[fs[k - 1]].offset + placed[fs[k - 1]].length

\* The run appends to volume w, which holds n bytes by now.
Holds(w, n) == writing = w /\ data[w] \in Seq(Byte) /\ Len(data[w]) = n

FilesBelow(v) ==
  {f \in Files : \E u \in 1 .. v - 1 :
                   \E j \in 1 .. Len(archives[u].files) : archives[u].files[j] = f}

FilesBefore(fs, k) == {f \in Files : \E j \in 1 .. k - 1 : fs[j] = f}

-----------------------------------------------------------------------------
(* Where a run stands. *)

\* One file: the placeholder, the data, the final entries.
SingleStart == todo = SingleProgram

SingleHolder ==
  /\ todo = <<Item("placeholder", Dir)>> \o ReadTodo("data", InOrder, 1, FALSE, FinalItems)
  /\ Holds(Dir, 0) /\ md5 = None

SingleData(k, half) ==
  /\ half => k <= NumFiles /\ PreloadBytes(k) > 0 /\ Ready(k)
  /\ todo = ReadTodo("data", InOrder, k, half, FinalItems)
  /\ Holds(Dir, Filled(InOrder, k)) /\ tree \in [Files -> Entry] /\ md5 = None
  /\ AllGood(1 .. k - 1)

SingleFinal(k) ==
  /\ todo = SubSeq(FinalItems, k, NumFiles)
  /\ writing = Dir /\ tree \in [Files -> Entry] /\ md5 = None
  /\ AllGood(Files)
  /\ \A f \in 1 .. k - 1 : tree[f] = FinalEntry(f)

AtSingle ==
  \/ SingleStart \/ SingleHolder
  \/ \E k \in 1 .. NumFiles + 1 : (\E half \in BOOLEAN : SingleData(k, half)) \/ SingleFinal(k)

\* One file with MD5 sections: the hashing pass, the copying pass, the directory.
Md5Hash(k, half) ==
  /\ half => k <= NumFiles /\ PreloadBytes(k) > 0 /\ Ready(k)
  /\ todo = ReadTodo("hash", InOrder, k, half, Create \o (CopyEach \o Commit))
  /\ \A f \in 1 .. k - 1 : Hashed(f)

Md5Copy(k) ==
  /\ todo = RestOf(CopyPieces, k) \o Commit
  /\ Holds(Dir, Filled(InOrder, k))
  /\ \A f \in Files : Hashed(f)
  /\ AllGood(1 .. k - 1)

\* The directory is written.
Committed ==
  /\ todo = <<>> /\ writing = Dir
  /\ tree = FinalTree /\ md5 = Md5Sections
  /\ AllGood(Files)

AtSingleMd5 ==
  \/ \E k \in 1 .. NumFiles + 1 : (\E half \in BOOLEAN : Md5Hash(k, half)) \/ Md5Copy(k)
  \/ Committed

\* Numbered volumes: each volume, the files without data, the directory.
VolumesLeft(v) ==
  /\ todo = RestOf(VolumePieces, v) \o (InlineEach \o (Create \o Commit))
  /\ AllGood(FilesBelow(v))

\* What follows the files of a volume.
AfterVolume(v) ==
  <<Item("close", archives[v].index)>>
    \o (RestOf(VolumePieces, v + 1) \o (InlineEach \o (Create \o Commit)))

InVolume(v, k, half) ==
  LET fs == archives[v].files
  IN  /\ half => k <= Len(fs) /\ PreloadBytes(fs[k]) > 0 /\ Ready(fs[k])
      /\ todo = ReadTodo("data", fs, k, half, AfterVolume(v))
      /\ Holds(archives[v].index, Filled(fs, k))
      /\ AllGood((FilesBelow(v) \cup FilesBefore(fs, k)) \ (IF half THEN {fs[k]} ELSE {}))

InlineLeft(k) ==
  /\ todo = RestOf(InlinePieces, k) \o (Create \o Commit)
  /\ AllGood({f \in Files : f < k \/ EntryLength(f) > 0})

CommitLeft ==
  /\ todo = Commit
  /\ Holds(Dir, 0)
  /\ AllGood(Files)

AtMulti ==
  \/ \E v \in 1 .. Len(archives) + 1 : VolumesLeft(v)
  \/ \E v \in 1 .. Len(archives) : \E k \in 1 .. Len(archives[v].files) + 1 :
       \E half \in BOOLEAN : InVolume(v, k, half)
  \/ \E k \in 1 .. NumFiles + 1 : InlineLeft(k)
  \/ CommitLeft \/ Committed

-----------------------------------------------------------------------------
(* The invariant. *)

TypeOK ==
  /\ mode \in {"single", "singleMd5", "multi"}
  /\ src \in [Files -> Seq(Byte)]
  /\ data \in [Volumes -> Seq(Byte) \cup {None}]
  /\ tree \in [Files -> Entry] \cup {None}
  /\ stage \in {"idle", "layout", "writing"}
  /\ lengths \in [Files -> 0 .. UintRange - 1]
  /\ file \in [Files -> [crc : Seq(Byte), preload : Seq(Byte)]]
  /\ writing \in Volumes \cup {None}
  /\ result \in {"none", "ok", "failed"}
  /\ status \in {"idle", "reading", "ok", "failed"}
  /\ next \in Nat
  /\ out \in [Files -> Seq(Byte) \cup {None}]
  /\ touched \subseteq Files
  /\ made \in [Files -> SUBSET Seq(Byte)]

\* The layout, while it is computed and for as long as the run writes.
LaidOut ==
  /\ LP!IInv /\ LP!Chained
  /\ stage = "idle" => L!StartLayout(<<>>, FALSE)
  /\ stage # "idle" => /\ sizes = [f \in Files |-> EntryLength(f)]
                       /\ multi = (mode = "multi")
  /\ stage = "writing" => phase = "placed"

\* What the run knows of the sources.
Collected ==
  /\ stage # "writing" => file = NoFile /\ writing = None
  /\ stage # "idle" => \A f \in Files \ touched : Len(src[f]) = lengths[f]
  /\ \A f \in Files : PreloadBytes(f) = 0 => file[f].preload = <<>>
  /\ mode = "multi" => \A f \in Files : lengths[f] = 0 => file[f].crc = <<>>

Standing ==
  stage = "writing" =>
    CASE mode = "single"     -> AtSingle
      [] mode = "singleMd5" -> AtSingleMd5
      [] mode = "multi"      -> AtMulti

\* Every checksum in sight is of something read from that source.
Read ==
  \A f \in Files :
    /\ <<>> \in made[f] /\ file[f].crc \in made[f]
    /\ tree # None => tree[f].crc \in made[f]

\* What a run that succeeded leaves.
Reported ==
  /\ result = "ok" => stage = "idle"
  /\ SuccessVerifies /\ UntouchedRoundTrip

\* What an open reader relies on, and what it delivered.
Held ==
  /\ Reading => /\ Dir \in opened /\ writing # Dir
                /\ tree # None /\ entries = tree
                /\ options.crc => \A f \in 1 .. next - 1 : f \in Files => out[f] = tree[f].crc
  /\ NothingInvented

IInv ==
  /\ TypeOK /\ LaidOut /\ Collected /\ Standing
  /\ Read /\ Reported /\ Held

-----------------------------------------------------------------------------
(* What VpkLayoutProofs proves about induction, for this module's constants. *)

LEMMA LayoutConstants ==
  /\ UintRange \in Nat \ {0} /\ MaxArchiveSize \in 1 .. UintRange - 1
  /\ DirectoryArchiveIndex \in Nat \ {0}
  BY PackageAssumption

LEMMA Least ==
  ASSUME NEW T, T \subseteq Nat, T # {}
  PROVE  \E m \in T : \A k \in T : m <= k
  BY LP!LeastNatural, LayoutConstants

LEMMA Upward ==
  ASSUME NEW T, 0 \in T, \A n \in Nat : n \in T => n + 1 \in T
  PROVE  Nat \subseteq T
  BY LP!NaturalsUpward, LayoutConstants

LEMMA Recursion ==
  ASSUME NEW S, NEW first, first \in S, NEW D, NEW n, n \in Nat, LP!StepWithin(D, S, n)
  PROVE  \E g : LP!RecursiveOn(g, first, D, S, n)
  BY LP!PrimitiveRecursion, LayoutConstants

-----------------------------------------------------------------------------
(* Concatenating a sequence of pieces, from the front. *)

Pieces(S) == Seq(Seq(S))

LEMMA PieceFacts ==
  ASSUME NEW S, NEW s \in Pieces(S)
  PROVE  /\ Len(s) \in Nat
         /\ \A k \in 1 .. Len(s) : s[k] \in Seq(S)
         /\ s # <<>> => Len(s) # 0
  BY DEF Pieces

LEMMA PieceTail ==
  ASSUME NEW S, NEW s \in Pieces(S), s # <<>>
  PROVE  /\ Tail(s) \in Pieces(S) /\ Len(Tail(s)) = Len(s) - 1
         /\ \A k \in 1 .. Len(s) - 1 : Tail(s)[k] = s[k + 1]
         /\ Len(s) = 1 => Tail(s) = <<>>
         /\ Len(s) # 1 => Tail(s) # <<>>
<1>1. /\ Tail(s) \in Seq(Seq(S)) /\ Len(Tail(s)) = Len(s) - 1
      /\ \A k \in 1 .. Len(Tail(s)) : Tail(s)[k] = s[k + 1]
  BY HeadTailProperties DEF Pieces
<1>2. Tail(s) = <<>> <=> Len(Tail(s)) = 0
  <2> DEFINE Q == Seq(S)
  <2>1. Tail(s) \in Seq(Q)
    BY <1>1
  <2> HIDE DEF Q
  <2> QED BY <2>1, EmptySeq
<1> QED BY <1>1, <1>2, PieceFacts DEF Pieces

Flattens(g, s) == g = [i \in 1 .. Len(s) |-> IF i = 1 THEN s[i] ELSE g[i - 1] \o s[i]]

LEMMA FlattensExists ==
  ASSUME NEW S, NEW s \in Pieces(S)
  PROVE  \E g : Flattens(g, s)
<1> DEFINE n == Len(s)
           D == [k \in 1 .. n |-> [x \in Seq(S) |-> x \o s[k]]]
<1>1. n \in Nat /\ <<>> \in Seq(S) /\ \A k \in 1 .. n : s[k] \in Seq(S)
  BY PieceFacts
<1>d. n = Len(s)
  OBVIOUS
<1> HIDE DEF n
<1>2. ASSUME NEW k \in 1 .. n, NEW x \in Seq(S)
      PROVE  x \o s[k] \in Seq(S) /\ D[k][x] = x \o s[k]
  BY <1>1, ConcatProperties
<1> HIDE DEF D
<1>3. LP!StepWithin(D, Seq(S), n)
  BY <1>2 DEF LP!StepWithin
<1>4. PICK g : LP!RecursiveOn(g, <<>>, D, Seq(S), n)
  <2> DEFINE Q == Seq(S)
  <2>1. <<>> \in Q /\ LP!StepWithin(D, Q, n)
    BY <1>1, <1>3
  <2> HIDE DEF Q
  <2>2. \E g : LP!RecursiveOn(g, <<>>, D, Q, n)
    BY <1>1, <2>1, Recursion
  <2> QED BY <2>2 DEF Q
<1>5. /\ g \in [0 .. n -> Seq(S)] /\ g[0] = <<>>
      /\ \A k \in 1 .. n : g[k] = D[k][g[k - 1]]
  BY <1>4 DEF LP!RecursiveOn
<1>6. ASSUME NEW k \in 1 .. n
      PROVE  g[k] = IF k = 1 THEN s[k] ELSE g[k - 1] \o s[k]
  <2>1. k - 1 \in 0 .. n
    BY <1>1
  <2>2. g[k - 1] \in Seq(S)
    BY <1>5, <2>1
  <2>3. g[k] = g[k - 1] \o s[k]
    BY <1>2, <1>5, <2>2
  <2>4. k = 1 => g[k - 1] = <<>>
    BY <1>5
  <2>5. s[k] \in Seq(S)
    BY <1>1
  <2>6. <<>> \o s[k] = s[k]
    BY <2>5, ConcatEmptySeq
  <2> QED BY <2>3, <2>4, <2>6
<1> DEFINE h == [k \in 1 .. n |-> g[k]]
<1>7. ASSUME NEW k \in 1 .. n
      PROVE  h[k] = IF k = 1 THEN s[k] ELSE h[k - 1] \o s[k]
  <2>1. k # 1 => k - 1 \in 1 .. n
    BY <1>1
  <2> QED BY <1>6, <2>1
<1>8. h = [k \in 1 .. n |-> IF k = 1 THEN s[k] ELSE h[k - 1] \o s[k]]
  <2>1. h = [k \in 1 .. n |-> h[k]]
    OBVIOUS
  <2> HIDE DEF h
  <2> QED BY <1>7, <2>1
<1> HIDE DEF h
<1> QED BY <1>8, <1>d DEF Flattens

\* The concatenation is the last value of a function that Flattens.
LEMMA FlattenAsFunction ==
  ASSUME NEW S, NEW s \in Pieces(S), s # <<>>
  PROVE  \E g : Flattens(g, s) /\ FlattenSeq(s) = g[Len(s)]
<1> DEFINE F == CHOOSE g : Flattens(g, s)
<1>1. Flattens(F, s)
  BY FlattensExists
<1>2. Len(s) # 0
  BY PieceFacts
<1>3. FlattenSeq(s) = F[Len(s)]
  BY <1>2 DEF FlattenSeq, Flattens
<1> HIDE DEF F
<1> QED BY <1>1, <1>3

LEMMA FlattensFacts ==
  ASSUME NEW S, NEW s \in Pieces(S), NEW g, Flattens(g, s)
  PROVE  /\ \A i \in 1 .. Len(s) : g[i] \in Seq(S)
         /\ \A i \in 1 .. Len(s) : g[i] = IF i = 1 THEN s[i] ELSE g[i - 1] \o s[i]
<1> DEFINE n == Len(s)
<1>1. \A i \in 1 .. n : g[i] = IF i = 1 THEN s[i] ELSE g[i - 1] \o s[i]
  BY DEF Flattens
<1>2. n \in Nat /\ \A i \in 1 .. n : s[i] \in Seq(S)
  BY PieceFacts
<1> DEFINE T == {i \in Nat : i + 1 \in 1 .. n => g[i + 1] \in Seq(S)}
<1> SUFFICES \A i \in 1 .. n : g[i] \in Seq(S)
  BY <1>1
<1> HIDE DEF n
<1>3. 0 \in T
  BY <1>1, <1>2
<1>4. ASSUME NEW i \in Nat, i \in T
      PROVE  i + 1 \in T
  <2> SUFFICES ASSUME i + 2 \in 1 .. n PROVE g[i + 2] \in Seq(S)
    OBVIOUS
  <2>1. g[i + 1] \in Seq(S)
    BY <1>2, <1>4
  <2>2. s[i + 2] \in Seq(S)
    BY <1>2
  <2>3. g[i + 2] = g[i + 1] \o s[i + 2]
    <3>1. i + 2 # 1 /\ (i + 2) - 1 = i + 1
      OBVIOUS
    <3> QED BY <1>1, <3>1
  <2> QED BY <2>1, <2>2, <2>3, ConcatProperties
<1>5. Nat \subseteq T
  <2> HIDE DEF T
  <2> QED BY <1>3, <1>4, Upward
<1>6. ASSUME NEW i \in 1 .. n
      PROVE  g[i] \in Seq(S)
  <2>1. i - 1 \in Nat
    BY <1>2
  <2>2. i - 1 \in T
    BY <1>5, <2>1
  <2>3. (i - 1) + 1 = i
    BY <1>2
  <2> QED BY <2>2, <2>3
<1> QED BY <1>6

\* The first piece, and the concatenation of the others.
LEMMA FlattenFromFront ==
  ASSUME NEW S, NEW s \in Pieces(S), s # <<>>
  PROVE  /\ FlattenSeq(s) = s[1] \o FlattenSeq(Tail(s))
         /\ FlattenSeq(s) \in Seq(S)
<1> DEFINE n == Len(s)
           t == Tail(s)
<1>1. PICK g : Flattens(g, s) /\ FlattenSeq(s) = g[n]
  BY FlattenAsFunction
<1>2. /\ \A i \in 1 .. n : g[i] \in Seq(S)
      /\ \A i \in 1 .. n : g[i] = IF i = 1 THEN s[i] ELSE g[i - 1] \o s[i]
  BY <1>1, FlattensFacts
<1>3. /\ t \in Pieces(S) /\ Len(t) = n - 1
      /\ n \in Nat /\ n # 0
      /\ \A i \in 1 .. n - 1 : t[i] = s[i + 1]
      /\ \A i \in 1 .. n : s[i] \in Seq(S)
      /\ n = 1 => t = <<>>
      /\ n # 1 => t # <<>>
  BY PieceFacts, PieceTail
<1> HIDE DEF n, t
<1>4. s[1] \in Seq(S)
  BY <1>3
<1>5. CASE n = 1
  <2>1. FlattenSeq(t) = <<>>
    BY <1>3, <1>5 DEF FlattenSeq
  <2>2. s[1] \o <<>> = s[1]
    BY <1>4, ConcatEmptySeq
  <2>3. FlattenSeq(s) = s[1]
    BY <1>1, <1>2, <1>5
  <2> QED BY <1>4, <2>1, <2>2, <2>3 DEF t
<1>6. CASE n # 1
  <2>2. PICK h : Flattens(h, t) /\ FlattenSeq(t) = h[Len(t)]
    BY <1>3, <1>6, FlattenAsFunction
  <2>3. /\ \A i \in 1 .. n - 1 : h[i] \in Seq(S)
        /\ \A i \in 1 .. n - 1 : h[i] = IF i = 1 THEN t[i] ELSE h[i - 1] \o t[i]
    <3>1. /\ \A i \in 1 .. Len(t) : h[i] \in Seq(S)
          /\ \A i \in 1 .. Len(t) : h[i] = IF i = 1 THEN t[i] ELSE h[i - 1] \o t[i]
      BY <1>3, <2>2, FlattensFacts
    <3> QED BY <1>3, <3>1
  <2> DEFINE T == {i \in Nat : i + 1 \in 1 .. n - 1 => g[i + 2] = s[1] \o h[i + 1]}
  <2>4. 0 \in T
    <3>0. 1 \in 1 .. n - 1 /\ 1 \in 1 .. n /\ 2 \in 1 .. n /\ 2 # 1 /\ 2 - 1 = 1
      BY <1>3, <1>6
    <3>1. g[2] = g[1] \o s[2] /\ g[1] = s[1]
      BY <1>2, <3>0
    <3>2. h[1] = s[2]
      BY <1>3, <2>3, <3>0
    <3>3. 0 + 1 = 1 /\ 0 + 2 = 2
      OBVIOUS
    <3>4. g[0 + 2] = s[1] \o h[0 + 1]
      BY <3>1, <3>2, <3>3
    <3> QED BY <3>4
  <2>5. ASSUME NEW i \in Nat, i \in T
        PROVE  i + 1 \in T
    <3> SUFFICES ASSUME i + 2 \in 1 .. n - 1 PROVE g[i + 3] = s[1] \o h[i + 2]
      <4>1. (i + 1) + 1 = i + 2 /\ (i + 1) + 2 = i + 3 /\ i + 1 \in Nat
        OBVIOUS
      <4> QED BY <4>1
    <3>0. /\ i + 3 \in 1 .. n /\ i + 3 # 1 /\ (i + 3) - 1 = i + 2
          /\ i + 2 # 1 /\ (i + 2) - 1 = i + 1 /\ (i + 2) + 1 = i + 3
          /\ i + 1 \in 1 .. n - 1
      BY <1>3
    <3>1. g[i + 2] = s[1] \o h[i + 1]
      BY <2>5, <3>0
    <3>2. g[i + 3] = g[i + 2] \o s[i + 3]
      BY <1>2, <3>0
    <3>4. h[i + 2] = h[i + 1] \o s[i + 3]
      <4>1. h[i + 2] = h[i + 1] \o t[i + 2]
        BY <2>3, <3>0
      <4>2. t[i + 2] = s[i + 3]
        BY <1>3, <3>0
      <4> QED BY <4>1, <4>2
    <3>5. h[i + 1] \in Seq(S)
      BY <2>3, <3>0
    <3>6. s[i + 3] \in Seq(S)
      BY <1>3, <3>0
    <3>7. (s[1] \o h[i + 1]) \o s[i + 3] = s[1] \o (h[i + 1] \o s[i + 3])
      <4>1. \A a, b, c \in Seq(S) : (a \o b) \o c = a \o (b \o c)
        BY ConcatAssociative
      <4> QED BY <1>4, <3>5, <3>6, <4>1
    <3> QED BY <3>1, <3>2, <3>4, <3>7
  <2>6. Nat \subseteq T
    <3> HIDE DEF T
    <3> QED BY <2>4, <2>5, Upward
  <2>7. n - 2 \in Nat /\ (n - 2) + 1 = n - 1 /\ (n - 2) + 2 = n /\ n - 1 \in 1 .. n - 1
    BY <1>3, <1>6
  <2>8. n - 2 \in T
    BY <2>6, <2>7
  <2>9. g[n] = s[1] \o h[n - 1] /\ h[n - 1] \in Seq(S)
    BY <2>3, <2>7, <2>8
  <2>10. s[1] \o h[n - 1] \in Seq(S)
    BY <1>4, <2>9, ConcatProperties
  <2> QED BY <1>1, <1>3, <2>2, <2>9, <2>10 DEF t
<1> QED BY <1>5, <1>6

\* What is left after the k-th piece is what follows it in what was left before.
LEMMA RestOfFacts ==
  ASSUME NEW S, NEW s \in Pieces(S), NEW k \in 1 .. Len(s) + 1
  PROVE  /\ RestOf(s, k) \in Seq(S)
         /\ k <= Len(s) => RestOf(s, k) = s[k] \o RestOf(s, k + 1)
         /\ k = Len(s) + 1 => RestOf(s, k) = <<>>
         /\ RestOf(s, 1) = FlattenSeq(s)
<1> DEFINE n == Len(s)
<1>1. n \in Nat
  BY PieceFacts
<1>2. RestOf(s, 1) = FlattenSeq(s)
  <2>1. SubSeq(s, 1, Len(s)) = s
    BY SubSeqFull DEF Pieces
  <2> QED BY <2>1 DEF RestOf
<1>3. CASE k = n + 1
  <2>1. SubSeq(s, k, n) = <<>>
    BY <1>1, <1>3, SubSeqEmpty
  <2>2. RestOf(s, k) = <<>>
    BY <2>1 DEF RestOf, FlattenSeq
  <2>3. ~ (k <= n) /\ <<>> \in Seq(S)
    BY <1>1, <1>3
  <2> QED BY <1>2, <2>2, <2>3
<1>4. CASE k # n + 1
  <2>0. k \in 1 .. n /\ n \in k .. n /\ k \in Int /\ n \in Int /\ k <= n
    BY <1>1, <1>4
  <2> DEFINE u == SubSeq(s, k, n)
  <2>1. u \in Pieces(S) /\ Len(u) = n - k + 1
    <3>1. \A i \in k .. n : s[i] \in Seq(S)
      BY <1>1, <2>0, PieceFacts
    <3>2. /\ SubSeq(s, k, n) \in Seq(Seq(S))
          /\ Len(SubSeq(s, k, n)) = IF k <= n THEN n - k + 1 ELSE 0
      <4> DEFINE Q == Seq(S)
      <4>1. \A i \in k .. n : s[i] \in Q
        BY <3>1
      <4> HIDE DEF Q, n
      <4>2. SubSeq(s, k, n) \in Seq(Q)
        BY <2>0, <4>1, SubSeqProperties
      <4>3. Len(SubSeq(s, k, n)) = IF k <= n THEN n - k + 1 ELSE 0
        BY <2>0, <4>1, SubSeqProperties
      <4> QED BY <4>2, <4>3 DEF Q
    <3> QED BY <2>0, <3>2 DEF Pieces
  <2>2. Head(u) = s[k] /\ Tail(u) = SubSeq(s, k + 1, n)
    <3> DEFINE Q == Seq(S)
    <3>1. s \in Seq(Q)
      BY DEF Pieces
    <3> HIDE DEF Q
    <3> QED BY <2>0, <3>1, HeadTailOfSubSeq
  <2>3. u # <<>> /\ u[1] = Head(u)
    <3>1. Len(u) # 0
      BY <2>0, <2>1
    <3> HIDE DEF u
    <3> QED BY <3>1
  <2>4. FlattenSeq(u) = u[1] \o FlattenSeq(Tail(u)) /\ FlattenSeq(u) \in Seq(S)
    <3> HIDE DEF u
    <3> QED BY <2>1, <2>3, FlattenFromFront
  <2>5. RestOf(s, k) = FlattenSeq(u) /\ RestOf(s, k + 1) = FlattenSeq(Tail(u))
    <3> HIDE DEF u
    <3>1. u = SubSeq(s, k, n)
      BY DEF u
    <3> QED BY <2>2, <3>1 DEF RestOf
  <2> HIDE DEF u
  <2> QED BY <1>2, <1>4, <2>2, <2>3, <2>4, <2>5
<1> QED BY <1>1, <1>3, <1>4

\* Empty pieces can be skipped.
LEMMA SkipEmpty ==
  ASSUME NEW S, NEW s \in Pieces(S), NEW k \in 1 .. Len(s) + 1
  PROVE  \E m \in k .. Len(s) + 1 :
           /\ RestOf(s, m) = RestOf(s, k)
           /\ \A j \in k .. m - 1 : s[j] = <<>>
           /\ m <= Len(s) => s[m] # <<>>
<1> DEFINE n == Len(s)
           T == {m \in k .. n + 1 : m = n + 1 \/ s[m] # <<>>}
<1>0. n \in Nat /\ k \in 1 .. n + 1
  BY PieceFacts
<1>f. \A j \in 1 .. n : RestOf(s, j) = s[j] \o RestOf(s, j + 1) /\ RestOf(s, j + 1) \in Seq(S)
  <2> TAKE j \in 1 .. n
  <2>1. j \in 1 .. Len(s) + 1 /\ j + 1 \in 1 .. Len(s) + 1 /\ j <= Len(s)
    BY <1>0
  <2> QED BY <2>1, RestOfFacts
<1> SUFFICES \E m \in k .. n + 1 :
               /\ RestOf(s, m) = RestOf(s, k)
               /\ \A j \in k .. m - 1 : s[j] = <<>>
               /\ m <= n => s[m] # <<>>
  OBVIOUS
<1> HIDE DEF n
<1>1. PICK m \in T : \A j \in T : m <= j
  <2>1. T \subseteq Nat /\ T # {}
    <3>1. n + 1 \in T
      BY <1>0
    <3> QED BY <1>0, <3>1
  <2> HIDE DEF T
  <2> QED BY <2>1, Least
<1>2. m \in k .. n + 1 /\ (m <= n => s[m] # <<>>)
  BY <1>0, <1>1
<1>3. \A j \in k .. m - 1 : j \in 1 .. n /\ s[j] = <<>>
  BY <1>0, <1>1, <1>2
<1> DEFINE U == {i \in Nat : k + i <= m => RestOf(s, k + i) = RestOf(s, k)}
<1>4. 0 \in U
  <2>1. k + 0 = k
    BY <1>0
  <2> QED BY <2>1
<1>5. ASSUME NEW i \in Nat, i \in U
      PROVE  i + 1 \in U
  <2> SUFFICES ASSUME k + (i + 1) <= m PROVE RestOf(s, k + (i + 1)) = RestOf(s, k)
    OBVIOUS
  <2>1. k + i \in k .. m - 1 /\ k + (i + 1) = (k + i) + 1 /\ k + i <= m
    BY <1>0, <1>2
  <2>2. s[k + i] = <<>> /\ k + i \in 1 .. n
    BY <1>3, <2>1
  <2>3. RestOf(s, k + i) = s[k + i] \o RestOf(s, (k + i) + 1) /\ RestOf(s, (k + i) + 1) \in Seq(S)
    BY <1>f, <2>2
  <2>4. RestOf(s, k + i) = RestOf(s, k)
    BY <1>5, <2>1
  <2>5. <<>> \o RestOf(s, (k + i) + 1) = RestOf(s, (k + i) + 1)
    BY <2>3, ConcatEmptySeq
  <2> QED BY <2>1, <2>2, <2>3, <2>4, <2>5
<1>6. Nat \subseteq U
  <2> HIDE DEF U
  <2> QED BY <1>4, <1>5, Upward
<1>7. m - k \in Nat /\ k + (m - k) = m /\ m <= m
  BY <1>0, <1>2
<1>8. RestOf(s, m) = RestOf(s, k)
  BY <1>6, <1>7
<1> QED BY <1>2, <1>3, <1>8

LEMMA ConsFacts ==
  ASSUME NEW S, NEW i \in S, NEW t \in Seq(S)
  PROVE  /\ <<i>> \o t \in Seq(S) /\ <<i>> \o t # <<>>
         /\ Head(<<i>> \o t) = i /\ Tail(<<i>> \o t) = t
<1>1. <<i>> \in Seq(S) /\ Len(<<i>>) = 1 /\ <<i>>[1] = i
  OBVIOUS
<1>2. /\ <<i>> \o t \in Seq(S) /\ Len(<<i>> \o t) = 1 + Len(t) /\ Len(t) \in Nat
      /\ \A j \in 1 .. 1 + Len(t) : (<<i>> \o t)[j] = IF j <= 1 THEN <<i>>[j] ELSE t[j - 1]
  BY <1>1, ConcatProperties
<1> DEFINE u == <<i>> \o t
<1>3. u \in Seq(S) /\ u # <<>> /\ u[1] = i
  <2> QED BY <1>1, <1>2
<1>4. Head(u) = i /\ Tail(u) \in Seq(S) /\ Len(Tail(u)) = Len(t) /\ \A j \in 1 .. Len(t) : Tail(u)[j] = t[j]
  <2>1. \A j \in 1 .. Len(t) : u[j + 1] = t[j]
    BY <1>2
  <2>2. Len(u) = Len(t) + 1 /\ Len(t) \in Nat
    BY <1>2
  <2> HIDE DEF u
  <2> QED BY <1>3, <2>1, <2>2, HeadTailProperties
<1>5. Tail(u) = t
  <2> HIDE DEF u
  <2> QED BY <1>4, SeqEqual
<1> QED BY <1>3, <1>4, <1>5

(* The pieces, and what stands at the head of what is left. *)

LEMMA NumberFacts ==
  /\ NumFiles \in Nat /\ NumFiles >= 1 /\ Preload \in Nat
  /\ Dir \in Nat /\ Dir >= 1 /\ Dir \in Volumes
  /\ UintRange \in Nat /\ UintRange >= 1
  /\ \A f \in Files : f \in Nat /\ f >= 1 /\ f <= NumFiles
<1>1. /\ NumFiles \in Nat /\ NumFiles >= 1 /\ Preload \in Nat
      /\ DirectoryArchiveIndex \in Nat /\ DirectoryArchiveIndex >= 1
      /\ UintRange \in Nat /\ UintRange >= 1
  <2>1. NumFiles \in Nat \ {0} /\ Preload \in Nat
    BY PackageAssumption
  <2> QED BY <2>1, LayoutConstants
<1>2. Dir \in Nat /\ Dir >= 1 /\ Dir \in Volumes
  BY <1>1 DEF Dir, Volumes
<1>3. \A f \in Files : f \in Nat /\ f >= 1 /\ f <= NumFiles
  BY <1>1 DEF Files
<1> QED BY <1>1, <1>2, <1>3

LEMMA NoneFacts ==
  None \notin Seq(Byte) /\ None \notin [Files -> Seq(Byte)] /\ None \notin Volumes
  BY PackageAssumption

LEMMA TreeIsNotNone == None \notin [Files -> Entry]
<1>1. None \notin [Files -> [crc : Seq(Byte), preload : Seq(Byte),
                           archive : Nat, offset : Nat, length : Nat]]
  BY PackageAssumption
<1>2. Entry \subseteq [crc : Seq(Byte), preload : Seq(Byte), archive : Nat, offset : Nat, length : Nat]
  BY DEF Entry
<1> QED BY <1>1, <1>2

LEMMA InputFacts ==
  Contents \subseteq Seq(Byte) /\ Modes \subseteq {"single", "singleMd5", "multi"}
  BY PackageAssumption

\* A length is cut into the preload and what the entry counts.
LEMMA LengthFacts ==
  ASSUME NEW f \in Files, lengths[f] \in Nat
  PROVE  /\ PreloadBytes(f) \in Nat /\ EntryLength(f) \in Nat
         /\ PreloadBytes(f) + EntryLength(f) = lengths[f]
         /\ lengths[f] = 0 => PreloadBytes(f) = 0
<1>1. Preload \in Nat
  BY NumberFacts
<1>2. CASE lengths[f] <= Preload
  BY <1>1, <1>2 DEF PreloadBytes, EntryLength
<1>3. CASE ~ (lengths[f] <= Preload)
  BY <1>1, <1>3 DEF PreloadBytes, EntryLength
<1> QED BY <1>2, <1>3

LEMMA ItemType ==
  ASSUME NEW op \in Operations, NEW a \in Nat
  PROVE  Item(op, a) \in Items
  BY DEF Item, Items

LEMMA OneItem ==
  ASSUME NEW S, NEW i \in S
  PROVE  <<i>> \in Seq(S)
  OBVIOUS

\* A function to the pieces is a sequence of pieces.
LEMMA PiecesAre ==
  ASSUME NEW S, NEW n \in Nat, NEW s \in [1 .. n -> Seq(S)]
  PROVE  s \in Pieces(S) /\ Len(s) = n
<1> DEFINE Q == Seq(S)
<1>1. s \in [1 .. n -> Q]
  OBVIOUS
<1> HIDE DEF Q
<1>2. s \in Seq(Q) /\ Len(s) = n
  BY <1>1
<1> QED BY <1>2 DEF Q, Pieces

Lead(t, op, a, rest) == t # <<>> /\ Head(t) = Item(op, a) /\ Tail(t) = rest

LEMMA LeadCons ==
  ASSUME NEW op \in Operations, NEW a \in Nat, NEW t \in Seq(Items)
  PROVE  /\ Lead(<<Item(op, a)>> \o t, op, a, t)
         /\ <<Item(op, a)>> \o t \in Seq(Items)
<1>1. Item(op, a) \in Items
  BY ItemType
<1> QED BY <1>1, ConsFacts DEF Lead

LEMMA ReadPiecesFacts ==
  ASSUME NEW op \in Operations, NEW fs \in Seq(Nat)
  PROVE  /\ ReadPieces(op, fs) \in Pieces(Items)
         /\ Len(ReadPieces(op, fs)) = Len(fs) /\ Len(fs) \in Nat
         /\ \A k \in 1 .. Len(fs) : ReadPieces(op, fs)[k] = ReadPiece(op, fs[k])
         /\ \A k \in 1 .. Len(fs) : fs[k] \in Nat
<1> DEFINE n == Len(fs)
<1>1. n \in Nat /\ \A k \in 1 .. n : fs[k] \in Nat
  OBVIOUS
<1>2. ASSUME NEW k \in 1 .. n
      PROVE  ReadPiece(op, fs[k]) \in Seq(Items)
  <2>1. Item("preload", fs[k]) \in Items /\ Item(op, fs[k]) \in Items
    BY <1>1, ItemType DEF Operations
  <2> QED BY <2>1 DEF ReadPiece
<1> HIDE DEF n
<1>3. ReadPieces(op, fs) \in [1 .. n -> Seq(Items)]
  BY <1>2 DEF ReadPieces, n
<1>4. ReadPieces(op, fs) \in Pieces(Items) /\ Len(ReadPieces(op, fs)) = n
  BY <1>1, <1>3, PiecesAre
<1> QED BY <1>1, <1>4 DEF n, ReadPieces

LEMMA Associative ==
  ASSUME NEW a \in Seq(Items), NEW b \in Seq(Items), NEW c \in Seq(Items)
  PROVE  (a \o b) \o c = a \o (b \o c)
  BY ConcatAssociative

LEMMA Closed ==
  ASSUME NEW a \in Seq(Items), NEW b \in Seq(Items)
  PROVE  a \o b \in Seq(Items)
  BY ConcatProperties

LEMMA ConcatOne ==
  ASSUME NEW i \in Items, NEW a \in Seq(Items), NEW b \in Seq(Items)
  PROVE  /\ (<<i>> \o a) \o b = <<i>> \o (a \o b)
         /\ a \o b \in Seq(Items)
<1>1. <<i>> \in Seq(Items)
  BY OneItem
<1> QED BY <1>1, ConcatAssociative, ConcatProperties

LEMMA ReadTodoFacts ==
  ASSUME NEW op \in Operations, NEW fs \in Seq(Nat), NEW k \in 1 .. Len(fs) + 1,
         NEW half \in BOOLEAN, NEW rest \in Seq(Items), half => k <= Len(fs)
  PROVE  /\ ReadTodo(op, fs, k, half, rest) \in Seq(Items)
         /\ (k <= Len(fs) /\ (half \/ ~ (PreloadBytes(fs[k]) > 0))) =>
              Lead(ReadTodo(op, fs, k, half, rest), op, fs[k], ReadTodo(op, fs, k + 1, FALSE, rest))
         /\ (k <= Len(fs) /\ ~half /\ PreloadBytes(fs[k]) > 0) =>
              Lead(ReadTodo(op, fs, k, half, rest), "preload", fs[k], ReadTodo(op, fs, k, TRUE, rest))
         /\ (k = Len(fs) + 1) => ReadTodo(op, fs, k, half, rest) = rest
<1> DEFINE s == ReadPieces(op, fs)
           n == Len(fs)
<1>1. /\ s \in Pieces(Items) /\ Len(s) = n /\ n \in Nat
      /\ \A j \in 1 .. n : s[j] = ReadPiece(op, fs[j]) /\ fs[j] \in Nat
  BY ReadPiecesFacts
<1>2. k \in 1 .. n + 1 /\ (half => k <= n)
  OBVIOUS
<1> HIDE DEF n, s
<1>3. CASE k = n + 1
  <2>1. ~half /\ ~ (k <= n)
    BY <1>1, <1>2, <1>3
  <2>2. RestOf(s, k) = <<>>
    BY <1>1, <1>2, <1>3, RestOfFacts
  <2>3. ReadTodo(op, fs, k, half, rest) = <<>> \o rest
    BY <2>1, <2>2 DEF ReadTodo, s
  <2>4. ReadTodo(op, fs, k, half, rest) = rest
    BY <2>3, ConcatEmptySeq
  <2> QED BY <2>1, <2>4 DEF n
<1>4. CASE k # n + 1
  <2>1. k \in 1 .. n /\ k <= n /\ k + 1 \in 1 .. n + 1
    BY <1>1, <1>2, <1>4
  <2>2. s[k] = ReadPiece(op, fs[k]) /\ fs[k] \in Nat
    BY <1>1, <2>1
  <2> DEFINE r == RestOf(s, k + 1)
             i == Item(op, fs[k])
             p == Item("preload", fs[k])
  <2>3. RestOf(s, k) = s[k] \o r /\ r \in Seq(Items)
    BY <1>1, <1>2, <2>1, RestOfFacts
  <2>4. i \in Items /\ p \in Items
    BY <2>2, ItemType DEF Operations
  <2>5. r \o rest \in Seq(Items)
    BY <2>3, ConcatProperties
  <2>6. ReadTodo(op, fs, k + 1, FALSE, rest) = r \o rest
    BY DEF ReadTodo, s
  <2>7. ReadTodo(op, fs, k, TRUE, rest) = <<i>> \o (r \o rest)
    BY DEF ReadTodo, s
  <2>8. Lead(<<i>> \o (r \o rest), op, fs[k], r \o rest) /\ <<i>> \o (r \o rest) \in Seq(Items)
    <3> HIDE DEF r
    <3> QED BY <2>2, <2>5, LeadCons
  <2>9. CASE half
    BY <1>3, <1>4, <2>6, <2>7, <2>8, <2>9 DEF n
  <2>10. CASE ~half /\ ~ (PreloadBytes(fs[k]) > 0)
    <3>1. s[k] = <<i>>
      BY <2>2, <2>10 DEF ReadPiece
    <3>2. ReadTodo(op, fs, k, half, rest) = (<<i>> \o r) \o rest
      BY <2>3, <2>10, <3>1 DEF ReadTodo, s
    <3>3. ReadTodo(op, fs, k, half, rest) = <<i>> \o (r \o rest)
      <4> HIDE DEF r, i
      <4> QED BY <2>3, <2>4, <3>2, ConcatOne
    <3> QED BY <1>4, <2>6, <2>8, <2>10, <3>3 DEF n
  <2>11. CASE ~half /\ PreloadBytes(fs[k]) > 0
    <3>1. s[k] = <<p, i>>
      BY <2>2, <2>11 DEF ReadPiece
    <3>2. <<p, i>> = <<p>> \o <<i>> /\ <<i>> \in Seq(Items)
      <4> HIDE DEF i, p
      <4>1. <<p>> \in Seq(Items) /\ <<i>> \in Seq(Items) /\ <<p, i>> \in Seq(Items)
        BY <2>4
      <4>2. /\ Len(<<p>> \o <<i>>) = Len(<<p, i>>)
            /\ \A j \in 1 .. Len(<<p>> \o <<i>>) : (<<p>> \o <<i>>)[j] = <<p, i>>[j]
            /\ <<p>> \o <<i>> \in Seq(Items)
        BY <2>4, <4>1
      <4> QED BY <4>1, <4>2, SeqEqual
    <3>3. ReadTodo(op, fs, k, half, rest) = ((<<p>> \o <<i>>) \o r) \o rest
      BY <2>3, <2>11, <3>1, <3>2 DEF ReadTodo, s
    <3>4. ((<<p>> \o <<i>>) \o r) \o rest = <<p>> \o (<<i>> \o (r \o rest))
      <4> HIDE DEF r, i, p
      <4>1. (<<p>> \o <<i>>) \o r = <<p>> \o (<<i>> \o r) /\ <<i>> \o r \in Seq(Items)
        BY <2>3, <2>4, <3>2, ConcatOne
      <4>2. (<<p>> \o (<<i>> \o r)) \o rest = <<p>> \o ((<<i>> \o r) \o rest)
        BY <2>4, <4>1, ConcatOne
      <4>3. (<<i>> \o r) \o rest = <<i>> \o (r \o rest)
        BY <2>3, <2>4, ConcatOne
      <4> QED BY <4>1, <4>2, <4>3
    <3>5. Lead(<<p>> \o (<<i>> \o (r \o rest)), "preload", fs[k], <<i>> \o (r \o rest))
          /\ <<p>> \o (<<i>> \o (r \o rest)) \in Seq(Items)
      <4> HIDE DEF r, i
      <4> QED BY <2>2, <2>8, LeadCons DEF Operations
    <3> QED BY <1>4, <2>7, <2>11, <3>3, <3>4, <3>5 DEF n
  <2> QED BY <2>9, <2>10, <2>11
<1> QED BY <1>3, <1>4

\* Nothing is left of a list of files behind its last.
LEMMA ReadTodoEnd ==
  \A op \in Operations : \A fs \in Seq(Nat) : \A rest \in Seq(Items) : \A k :
    k = Len(fs) + 1 => ReadTodo(op, fs, k, FALSE, rest) = rest
<1> SUFFICES ASSUME NEW op \in Operations, NEW fs \in Seq(Nat), NEW rest \in Seq(Items),
                    NEW k, k = Len(fs) + 1
             PROVE  ReadTodo(op, fs, k, FALSE, rest) = rest
  OBVIOUS
<1>1. Len(fs) \in Nat /\ k \in 1 .. Len(fs) + 1 /\ FALSE \in BOOLEAN
  OBVIOUS
<1> QED BY <1>1, ReadTodoFacts

LEMMA DataEnd ==
  \A fs, rest, k : fs \in Seq(Nat) /\ rest \in Seq(Items) /\ k = Len(fs) + 1
                    => ReadTodo("data", fs, k, FALSE, rest) = rest
<1>1. "data" \in Operations
  BY DEF Operations
<1> QED BY <1>1, ReadTodoEnd, Zenon

LEMMA Pair ==
  ASSUME NEW i \in Items, NEW j \in Items
  PROVE  <<i, j>> = <<i>> \o <<j>>
<1>1. <<i>> \in Seq(Items) /\ <<j>> \in Seq(Items) /\ <<i, j>> \in Seq(Items)
  OBVIOUS
<1>2. /\ Len(<<i>> \o <<j>>) = Len(<<i, j>>)
      /\ \A k \in 1 .. Len(<<i>> \o <<j>>) : (<<i>> \o <<j>>)[k] = <<i, j>>[k]
      /\ <<i>> \o <<j>> \in Seq(Items)
  BY <1>1
<1> QED BY <1>1, <1>2, SeqEqual

\* A piece of one operation stands at the head of what is left.
LEMMA RestLead ==
  ASSUME NEW s \in Pieces(Items), NEW k \in 1 .. Len(s), NEW rest \in Seq(Items),
         NEW op \in Operations, NEW a \in Nat, s[k] = <<Item(op, a)>>
  PROVE  Lead(RestOf(s, k) \o rest, op, a, RestOf(s, k + 1) \o rest)
<1>1. Len(s) \in Nat
  BY PieceFacts
<1>2. k \in 1 .. Len(s) + 1 /\ k + 1 \in 1 .. Len(s) + 1 /\ k <= Len(s)
  BY <1>1
<1>3. RestOf(s, k) = <<Item(op, a)>> \o RestOf(s, k + 1) /\ RestOf(s, k + 1) \in Seq(Items)
  BY <1>2, RestOfFacts
<1>4. Item(op, a) \in Items
  BY ItemType
<1>5. RestOf(s, k) \o rest = <<Item(op, a)>> \o (RestOf(s, k + 1) \o rest)
  <2> PICK i : i = Item(op, a)
    OBVIOUS
  <2> PICK t : t = RestOf(s, k + 1)
    OBVIOUS
  <2>1. i \in Items /\ t \in Seq(Items) /\ RestOf(s, k) = <<i>> \o t
    BY <1>3, <1>4
  <2>2. (<<i>> \o t) \o rest = <<i>> \o (t \o rest)
    BY <2>1, ConcatOne
  <2> QED BY <2>1, <2>2
<1>6. RestOf(s, k + 1) \o rest \in Seq(Items)
  BY <1>3, ConcatProperties
<1> QED BY <1>5, <1>6, LeadCons

LEMMA ConstantTodo ==
  /\ Create \in Seq(Items) /\ Commit \in Seq(Items) /\ Create \o Commit \in Seq(Items)
  /\ <<Item("create", Dir), Item("commit", Dir)>> = Create \o Commit
  /\ InOrder \in Seq(Nat) /\ Len(InOrder) = NumFiles
  /\ \A f \in Files : InOrder[f] = f /\ f \in Nat
  /\ FinalItems \in Seq(Items) /\ Len(FinalItems) = NumFiles
  /\ \A k \in Files : Lead(SubSeq(FinalItems, k, NumFiles), "finalize", k, SubSeq(FinalItems, k + 1, NumFiles))
  /\ SubSeq(FinalItems, NumFiles + 1, NumFiles) = <<>>
  /\ SubSeq(FinalItems, 1, NumFiles) = FinalItems
<1>1. Item("create", Dir) \in Items /\ Item("commit", Dir) \in Items
  BY ItemType, NumberFacts DEF Operations
<1>2. Create \in Seq(Items) /\ Commit \in Seq(Items)
  BY <1>1 DEF Create, Commit
<1>3. Create \o Commit \in Seq(Items)
  BY <1>2, ConcatProperties
<1>4. <<Item("create", Dir), Item("commit", Dir)>> = Create \o Commit
  BY <1>1, Pair DEF Create, Commit
<1>5. NumFiles \in Nat /\ \A f \in Files : f \in Nat
  BY NumberFacts
<1>6. InOrder \in Seq(Nat) /\ Len(InOrder) = NumFiles /\ \A f \in Files : InOrder[f] = f
  <2>1. InOrder \in [1 .. NumFiles -> Nat]
    BY <1>5 DEF InOrder, Files
  <2> QED BY <1>5, <2>1 DEF InOrder, Files
<1>7. \A k \in Files : Item("finalize", k) \in Items
  BY <1>5, ItemType DEF Operations
<1>8. FinalItems \in Seq(Items) /\ Len(FinalItems) = NumFiles /\ \A k \in Files : FinalItems[k] = Item("finalize", k)
  <2>1. FinalItems \in [1 .. NumFiles -> Items]
    BY <1>7 DEF FinalItems, Files
  <2> QED BY <1>5, <2>1 DEF FinalItems, Files
<1>9. ASSUME NEW k \in Files
      PROVE  Lead(SubSeq(FinalItems, k, NumFiles), "finalize", k, SubSeq(FinalItems, k + 1, NumFiles))
  <2>1. k \in 1 .. Len(FinalItems) /\ NumFiles \in k .. Len(FinalItems) /\ NumFiles = Len(FinalItems)
    BY <1>5, <1>8 DEF Files
  <2>2. /\ Head(SubSeq(FinalItems, k, NumFiles)) = FinalItems[k]
        /\ Tail(SubSeq(FinalItems, k, NumFiles)) = SubSeq(FinalItems, k + 1, NumFiles)
    BY <1>8, <2>1, HeadTailOfSubSeq
  <2>3. SubSeq(FinalItems, k, NumFiles) # <<>>
    <3>1. \A i \in k .. NumFiles : FinalItems[i] \in Items
      BY <1>8, <2>1
    <3>2. Len(SubSeq(FinalItems, k, NumFiles)) = NumFiles - k + 1 /\ k <= NumFiles /\ k \in Nat
      BY <2>1, <3>1, <1>5, SubSeqProperties
    <3>3. Len(SubSeq(FinalItems, k, NumFiles)) # 0
      BY <1>5, <3>2
    <3>4. Len(<<>>) = 0
      OBVIOUS
    <3> DEFINE u == SubSeq(FinalItems, k, NumFiles)
    <3>5. Len(u) # 0
      BY <3>3
    <3> HIDE DEF u
    <3>6. u # <<>>
      BY <3>4, <3>5
    <3> QED BY <3>6 DEF u
  <2> QED BY <1>8, <2>2, <2>3 DEF Lead
<1>10. SubSeq(FinalItems, NumFiles + 1, NumFiles) = <<>>
  BY <1>5, SubSeqEmpty
<1>11. SubSeq(FinalItems, 1, NumFiles) = FinalItems
  BY <1>8, SubSeqFull
<1> QED BY <1>2, <1>3, <1>4, <1>5, <1>6, <1>8, <1>9, <1>10, <1>11

\* ReadEach lists the pieces of all its files.
LEMMA ReadEachIs ==
  ASSUME NEW op \in Operations, NEW fs \in Seq(Nat)
  PROVE  /\ ReadEach(op, fs) = RestOf(ReadPieces(op, fs), 1)
         /\ ReadEach(op, fs) \in Seq(Items)
<1>1. ReadPieces(op, fs) \in Pieces(Items) /\ 1 \in 1 .. Len(ReadPieces(op, fs)) + 1
  BY ReadPiecesFacts
<1>2. RestOf(ReadPieces(op, fs), 1) = FlattenSeq(ReadPieces(op, fs)) /\ RestOf(ReadPieces(op, fs), 1) \in Seq(Items)
  BY <1>1, RestOfFacts
<1>3. ReadEach(op, fs) = FlattenSeq(ReadPieces(op, fs))
  BY DEF ReadEach, ReadPieces, ReadPiece
<1> QED BY <1>2, <1>3

LEMMA CopyFacts ==
  /\ CopyPieces \in Pieces(Items) /\ Len(CopyPieces) = NumFiles
  /\ \A f \in Files : CopyPieces[f] = IF EntryLength(f) > 0 THEN <<Item("copy", f)>> ELSE <<>>
  /\ CopyEach = RestOf(CopyPieces, 1) /\ CopyEach \in Seq(Items)
<1>1. NumFiles \in Nat /\ \A f \in Files : Item("copy", f) \in Items
  BY NumberFacts, ItemType DEF Operations
<1>2. CopyPieces \in [1 .. NumFiles -> Seq(Items)]
  BY <1>1 DEF CopyPieces, Files
<1>3. CopyPieces \in Pieces(Items) /\ Len(CopyPieces) = NumFiles
  BY <1>1, <1>2, PiecesAre
<1>4. \A f \in Files : CopyPieces[f] = IF EntryLength(f) > 0 THEN <<Item("copy", f)>> ELSE <<>>
  BY DEF CopyPieces
<1>5. CopyEach = FlattenSeq(CopyPieces)
  BY DEF CopyEach, CopyPieces
<1>6. RestOf(CopyPieces, 1) = FlattenSeq(CopyPieces) /\ RestOf(CopyPieces, 1) \in Seq(Items)
  <2>1. 1 \in 1 .. Len(CopyPieces) + 1
    BY <1>1, <1>3
  <2> QED BY <1>3, <2>1, RestOfFacts
<1> QED BY <1>3, <1>4, <1>5, <1>6

LEMMA InlineFacts ==
  /\ InlinePieces \in Pieces(Items) /\ Len(InlinePieces) = NumFiles
  /\ \A f \in Files :
       InlinePieces[f] = IF EntryLength(f) = 0 /\ PreloadBytes(f) > 0 THEN <<Item("inline", f)>> ELSE <<>>
  /\ InlineEach = RestOf(InlinePieces, 1) /\ InlineEach \in Seq(Items)
<1>1. NumFiles \in Nat /\ \A f \in Files : Item("inline", f) \in Items
  BY NumberFacts, ItemType DEF Operations
<1>2. InlinePieces \in [1 .. NumFiles -> Seq(Items)]
  BY <1>1 DEF InlinePieces, Files
<1>3. InlinePieces \in Pieces(Items) /\ Len(InlinePieces) = NumFiles
  BY <1>1, <1>2, PiecesAre
<1>4. \A f \in Files :
        InlinePieces[f] = IF EntryLength(f) = 0 /\ PreloadBytes(f) > 0 THEN <<Item("inline", f)>> ELSE <<>>
  BY DEF InlinePieces
<1>5. InlineEach = FlattenSeq(InlinePieces)
  BY DEF InlineEach, InlinePieces
<1>6. RestOf(InlinePieces, 1) = FlattenSeq(InlinePieces) /\ RestOf(InlinePieces, 1) \in Seq(Items)
  <2>1. 1 \in 1 .. Len(InlinePieces) + 1
    BY <1>1, <1>3
  <2> QED BY <1>3, <2>1, RestOfFacts
<1> QED BY <1>3, <1>4, <1>5, <1>6

LEMMA VolumeFacts ==
  ASSUME archives \in Seq([index : Nat, files : Seq(Nat)])
  PROVE  /\ Len(archives) \in Nat
         /\ \A v \in 1 .. Len(archives) + 1 :
              RestOf(VolumePieces, v) \o (InlineEach \o (Create \o Commit)) \in Seq(Items)
         /\ RestOf(VolumePieces, Len(archives) + 1) \o (InlineEach \o (Create \o Commit))
              = InlineEach \o (Create \o Commit)
         /\ MultiProgram = RestOf(VolumePieces, 1) \o (InlineEach \o (Create \o Commit))
         /\ \A v \in 1 .. Len(archives) :
              /\ AfterVolume(v) \in Seq(Items)
              /\ Lead(AfterVolume(v), "close", archives[v].index,
                      RestOf(VolumePieces, v + 1) \o (InlineEach \o (Create \o Commit)))
              /\ Lead(RestOf(VolumePieces, v) \o (InlineEach \o (Create \o Commit)),
                      "create", archives[v].index,
                      ReadTodo("data", archives[v].files, 1, FALSE, AfterVolume(v)))
<1> DEFINE n == Len(archives)
           end == InlineEach \o (Create \o Commit)
           s == VolumePieces
<1>1. n \in Nat /\ \A v \in 1 .. n : archives[v].index \in Nat /\ archives[v].files \in Seq(Nat)
  <2> DEFINE A == [index : Nat, files : Seq(Nat)]
  <2>1. n \in Nat /\ \A v \in 1 .. n : archives[v] \in A
    <3>1. archives \in Seq(A)
      OBVIOUS
    <3> HIDE DEF A
    <3> QED BY <3>1
  <2> QED BY <2>1
<1>2. end \in Seq(Items)
  BY InlineFacts, ConstantTodo, ConcatProperties
<1>3. ASSUME NEW v \in 1 .. n
      PROVE  /\ Item("create", archives[v].index) \in Items /\ Item("close", archives[v].index) \in Items
             /\ ReadEach("data", archives[v].files) \in Seq(Items)
             /\ ReadEach("data", archives[v].files) = RestOf(ReadPieces("data", archives[v].files), 1)
             /\ VolumeProgram(archives[v]) \in Seq(Items)
  <2>1. archives[v].index \in Nat /\ archives[v].files \in Seq(Nat)
    BY <1>1
  <2>2. Item("create", archives[v].index) \in Items /\ Item("close", archives[v].index) \in Items
    BY <2>1, ItemType DEF Operations
  <2>3. /\ ReadEach("data", archives[v].files) \in Seq(Items)
        /\ ReadEach("data", archives[v].files) = RestOf(ReadPieces("data", archives[v].files), 1)
    BY <2>1, ReadEachIs DEF Operations
  <2>4. <<Item("create", archives[v].index)>> \o ReadEach("data", archives[v].files) \in Seq(Items)
    BY <2>2, <2>3, ConsFacts
  <2>5. VolumeProgram(archives[v]) \in Seq(Items)
    BY <2>2, <2>4, OneItem, ConcatProperties DEF VolumeProgram
  <2> QED BY <2>2, <2>3, <2>5
<1>4. s \in Pieces(Items) /\ Len(s) = n
  <2>1. s \in [1 .. n -> Seq(Items)]
    BY <1>3 DEF VolumePieces
  <2> QED BY <1>1, <2>1, PiecesAre
<1>5. ASSUME NEW v \in 1 .. n
      PROVE  s[v] = VolumeProgram(archives[v])
  BY DEF VolumePieces
<1> HIDE DEF n, s
<1>6. ASSUME NEW v \in 1 .. n + 1
      PROVE  RestOf(s, v) \in Seq(Items) /\ RestOf(s, v) \o end \in Seq(Items)
  <2>1. RestOf(s, v) \in Seq(Items)
    BY <1>4, RestOfFacts
  <2> HIDE DEF end
  <2> QED BY <1>2, <2>1, ConcatProperties
<1>7. RestOf(s, n + 1) \o end = end
  <2>1. n + 1 \in 1 .. Len(s) + 1 /\ n + 1 = Len(s) + 1
    BY <1>1, <1>4
  <2>2. RestOf(s, n + 1) = <<>>
    BY <1>4, <2>1, RestOfFacts
  <2> HIDE DEF end
  <2> QED BY <1>2, <2>2, ConcatEmptySeq
<1>8. MultiProgram = RestOf(s, 1) \o end
  <2>1. 1 \in 1 .. Len(s) + 1
    BY <1>1, <1>4
  <2>2. RestOf(s, 1) = FlattenSeq(s) /\ RestOf(s, 1) \in Seq(Items)
    BY <1>4, <2>1, RestOfFacts
  <2>3. MultiProgram = (FlattenSeq(s) \o InlineEach) \o (Create \o Commit)
    BY ConstantTodo DEF MultiProgram, s, VolumePieces
  <2>4. InlineEach \in Seq(Items) /\ Create \o Commit \in Seq(Items)
    BY InlineFacts, ConstantTodo
  <2>5. (FlattenSeq(s) \o InlineEach) \o (Create \o Commit) = FlattenSeq(s) \o (InlineEach \o (Create \o Commit))
    <3>1. \A a \in Seq(Items) : (a \o InlineEach) \o (Create \o Commit) = a \o (InlineEach \o (Create \o Commit))
      BY <2>4, Associative
    <3> QED BY <2>2, <3>1
  <2> QED BY <2>2, <2>3, <2>5
<1>9. ASSUME NEW v \in 1 .. n
      PROVE  /\ AfterVolume(v) \in Seq(Items)
             /\ Lead(AfterVolume(v), "close", archives[v].index, RestOf(s, v + 1) \o end)
             /\ Lead(RestOf(s, v) \o end, "create", archives[v].index,
                     ReadTodo("data", archives[v].files, 1, FALSE, AfterVolume(v)))
  <2>1. v + 1 \in 1 .. n + 1 /\ v \in 1 .. n + 1 /\ v \in 1 .. Len(s) + 1 /\ v <= Len(s)
    BY <1>1, <1>4
  <2> DEFINE r == RestOf(s, v + 1)
             c == Item("create", archives[v].index)
             x == Item("close", archives[v].index)
             e == ReadEach("data", archives[v].files)
  <2>2. r \in Seq(Items) /\ r \o end \in Seq(Items)
    BY <1>6, <2>1
  <2>3. archives[v].index \in Nat /\ c \in Items /\ x \in Items /\ e \in Seq(Items)
    BY <1>1, <1>3
  <2>4. AfterVolume(v) = <<x>> \o (r \o end)
    BY DEF AfterVolume, s
  <2>5. /\ AfterVolume(v) \in Seq(Items)
        /\ Lead(AfterVolume(v), "close", archives[v].index, r \o end)
    <3> HIDE DEF r, end
    <3> QED BY <2>2, <2>3, <2>4, LeadCons DEF Operations
  <2>6. ReadTodo("data", archives[v].files, 1, FALSE, AfterVolume(v)) = e \o AfterVolume(v)
    BY <1>3 DEF ReadTodo
  <2>7. RestOf(s, v) \o end = <<c>> \o (e \o AfterVolume(v))
    <3>1. RestOf(s, v) = ((<<c>> \o e) \o <<x>>) \o r
      BY <1>4, <1>5, <2>1, RestOfFacts DEF VolumeProgram
    <3>2. <<c>> \in Seq(Items) /\ <<x>> \in Seq(Items)
      BY <2>3, OneItem
    <3> HIDE DEF c, e, x, r, end
    <3>4. (((<<c>> \o e) \o <<x>>) \o r) \o end = (<<c>> \o e) \o (<<x>> \o (r \o end))
      <4>1. <<c>> \o e \in Seq(Items) /\ (<<c>> \o e) \o <<x>> \in Seq(Items)
        BY <2>3, <3>2, Closed
      <4>2. (((<<c>> \o e) \o <<x>>) \o r) \o end = ((<<c>> \o e) \o <<x>>) \o (r \o end)
        <5>1. r \in Seq(Items) /\ end \in Seq(Items)
          BY <1>2, <2>2
        <5> PICK a : a = (<<c>> \o e) \o <<x>>
          OBVIOUS
        <5>2. a \in Seq(Items)
          BY <4>1
        <5>3. (a \o r) \o end = a \o (r \o end)
          BY <5>1, <5>2, Associative
        <5> QED BY <5>3
      <4>4. ((<<c>> \o e) \o <<x>>) \o (r \o end) = (<<c>> \o e) \o (<<x>> \o (r \o end))
        <5>1. PICK a, b, d : a = <<c>> \o e /\ b = <<x>> /\ d = r \o end
          OBVIOUS
        <5>2. a \in Seq(Items) /\ b \in Seq(Items) /\ d \in Seq(Items)
          BY <2>2, <3>2, <4>1, <5>1, Zenon
        <5>3. (a \o b) \o d = a \o (b \o d)
          BY <5>2, Associative
        <5> QED BY <5>1, <5>3
      <4> QED BY <4>2, <4>4
    <3>5. (<<c>> \o e) \o (<<x>> \o (r \o end)) = <<c>> \o (e \o (<<x>> \o (r \o end)))
      <4>1. <<x>> \o (r \o end) \in Seq(Items)
        BY <2>2, <3>2, Closed
      <4> QED BY <2>3, <3>2, <4>1, Associative
    <3> QED BY <2>4, <3>1, <3>4, <3>5
  <2>8. e \o AfterVolume(v) \in Seq(Items)
    BY <2>3, <2>5, ConcatProperties
  <2>9. Lead(RestOf(s, v) \o end, "create", archives[v].index, e \o AfterVolume(v))
    <3> HIDE DEF e, end
    <3> QED BY <2>3, <2>7, <2>8, LeadCons DEF Operations, c
  <2> QED BY <2>5, <2>6, <2>9
<1> QED BY <1>1, <1>6, <1>7, <1>8, <1>9 DEF n, s

LEMMA SingleProgramFacts ==
  /\ Lead(SingleProgram, "create", Dir,
          <<Item("placeholder", Dir)>> \o ReadTodo("data", InOrder, 1, FALSE, FinalItems))
  /\ Lead(<<Item("placeholder", Dir)>> \o ReadTodo("data", InOrder, 1, FALSE, FinalItems),
          "placeholder", Dir, ReadTodo("data", InOrder, 1, FALSE, FinalItems))
  /\ SingleMd5Program = ReadTodo("hash", InOrder, 1, FALSE, Create \o (CopyEach \o Commit))
  /\ Create \o (CopyEach \o Commit) \in Seq(Items)
  /\ Lead(Create \o (CopyEach \o Commit), "create", Dir, RestOf(CopyPieces, 1) \o Commit)
<1> DEFINE c == Item("create", Dir)
           p == Item("placeholder", Dir)
           e == ReadEach("data", InOrder)
           h == ReadEach("hash", InOrder)
<1>1. c \in Items /\ p \in Items /\ Dir \in Nat
  BY ItemType, NumberFacts DEF Operations
<1>2. e \in Seq(Items) /\ e \o FinalItems = ReadTodo("data", InOrder, 1, FALSE, FinalItems)
  BY ConstantTodo, ReadEachIs DEF Operations, ReadTodo
<1>3. h \in Seq(Items)
      /\ h \o (Create \o (CopyEach \o Commit))
           = ReadTodo("hash", InOrder, 1, FALSE, Create \o (CopyEach \o Commit))
  BY ConstantTodo, ReadEachIs DEF Operations, ReadTodo
<1>4. SingleProgram = (<<c, p>> \o e) \o FinalItems
  BY DEF SingleProgram, FinalItems
<1>5. SingleMd5Program = ((h \o Create) \o CopyEach) \o Commit
  BY DEF SingleMd5Program, Create, Commit
<1>7. CopyEach \in Seq(Items) /\ Create \in Seq(Items) /\ Commit \in Seq(Items) /\ FinalItems \in Seq(Items)
  BY CopyFacts, ConstantTodo
<1>8. CopyEach = RestOf(CopyPieces, 1) /\ Create = <<c>>
  BY CopyFacts DEF Create
<1> HIDE DEF c, p, e, h
<1>9. SingleProgram = <<c>> \o (<<p>> \o (e \o FinalItems)) /\ <<p>> \o (e \o FinalItems) \in Seq(Items)
  <2>1. <<c>> \in Seq(Items) /\ <<p>> \in Seq(Items) /\ <<c, p>> = <<c>> \o <<p>>
    BY <1>1, OneItem, Pair
  <2>0. <<c>> \o <<p>> \in Seq(Items) /\ e \o FinalItems \in Seq(Items)
    BY <1>2, <1>7, <2>1, Closed
  <2>2. ((<<c>> \o <<p>>) \o e) \o FinalItems = (<<c>> \o <<p>>) \o (e \o FinalItems)
    <3> PICK a, d : a = <<c>> \o <<p>> /\ d = FinalItems
      OBVIOUS
    <3>1. a \in Seq(Items) /\ e \in Seq(Items) /\ d \in Seq(Items)
      BY <1>2, <1>7, <2>0
    <3>2. (a \o e) \o d = a \o (e \o d)
      BY <3>1, Associative
    <3> QED BY <3>2
  <2>3. (<<c>> \o <<p>>) \o (e \o FinalItems) = <<c>> \o (<<p>> \o (e \o FinalItems))
    BY <2>0, <2>1, Associative
  <2> QED BY <1>4, <2>0, <2>1, <2>2, <2>3, Closed
<1>10. SingleMd5Program = h \o (Create \o (CopyEach \o Commit)) /\ Create \o (CopyEach \o Commit) \in Seq(Items)
  <2>0. h \o Create \in Seq(Items) /\ CopyEach \o Commit \in Seq(Items)
    BY <1>3, <1>7, Closed
  <2>1. ((h \o Create) \o CopyEach) \o Commit = (h \o Create) \o (CopyEach \o Commit)
    <3>1. \A a \in Seq(Items) : (a \o CopyEach) \o Commit = a \o (CopyEach \o Commit)
      BY <1>7, Associative
    <3> QED BY <2>0, <3>1
  <2>2. (h \o Create) \o (CopyEach \o Commit) = h \o (Create \o (CopyEach \o Commit))
    BY <1>3, <1>7, <2>0, Associative
  <2> QED BY <1>5, <1>7, <2>0, <2>1, <2>2, Closed
<1>11. e \o FinalItems \in Seq(Items) /\ CopyEach \o Commit \in Seq(Items)
  BY <1>2, <1>7, Closed
<1>12. Lead(<<c>> \o (<<p>> \o (e \o FinalItems)), "create", Dir, <<p>> \o (e \o FinalItems))
  BY <1>1, <1>9, LeadCons DEF Operations, c
<1>13. Lead(<<p>> \o (e \o FinalItems), "placeholder", Dir, e \o FinalItems)
  BY <1>1, <1>11, LeadCons DEF Operations, p
<1>14. Lead(<<c>> \o (CopyEach \o Commit), "create", Dir, CopyEach \o Commit)
  BY <1>1, <1>11, LeadCons DEF Operations, c
<1> QED BY <1>2, <1>3, <1>8, <1>9, <1>10, <1>12, <1>13, <1>14 DEF p

-----------------------------------------------------------------------------
(* What the writer is given by the layout. *)

LEMMA LayoutSteps ==
  ASSUME LP!IInv, LP!Chained, L!Step
  PROVE  LP!IInv' /\ LP!Chained'
<1>1. LP!Step
  BY DEF L!Step, LP!Step, L!PlaceEmpty, LP!PlaceEmpty, L!PlaceInCurrent, LP!PlaceInCurrent,
         L!PlaceInNext, LP!PlaceInNext, L!PlaceSingle, LP!PlaceSingle, L!RejectTooLarge,
         LP!RejectTooLarge, L!RejectTooMany, LP!RejectTooMany, L!OverflowSingle, LP!OverflowSingle,
         L!FinishLayout, LP!FinishLayout, L!Placing, LP!Placing, L!File, LP!File,
         L!StartsNewArchive, LP!StartsNewArchive, L!UintSub, LP!UintSub, L!Record, LP!Record,
         L!ClosedArchives, LP!ClosedArchives, L!Throw, LP!Throw
<1>2. LP!Step => LP!IInv'
  BY LayoutConstants, LP!EmptyStep, LP!CurrentStep, LP!NextStep, LP!SingleStep, LP!ThrowStep,
     LP!FinishStep DEF LP!Step
<1>3. LP!Chained'
  BY <1>1, LayoutConstants, LP!ChainedStep
<1> QED BY <1>1, <1>2, <1>3

\* The values the layout starts from satisfy its invariant, whatever the sizes.
LEMMA LayoutStart ==
  ASSUME NEW s \in Seq(0 .. UintRange - 1), NEW m \in BOOLEAN, L!StartLayout(s, m)
  PROVE  LP!IInv /\ LP!Chained
<1> USE DEF L!StartLayout
<1>1. LP!TypeOK
  BY LayoutConstants DEF LP!TypeOK
<1>2. LP!Bounds /\ LP!Latest /\ LP!CurrentVolume /\ LP!Numbering
  BY LayoutConstants DEF LP!Bounds, LP!Latest, LP!CurrentVolume, LP!Numbering
<1>3. LP!NoOverlap /\ LP!FitsArchive /\ LP!IndexUnambiguous /\ LP!Contiguous /\ LP!Covered
  BY DEF LP!NoOverlap, LP!FitsArchive, LP!IndexUnambiguous, LP!Contiguous, LP!ContiguousIn, LP!Covered
<1>4. LP!Chained
  BY DEF LP!Chained
<1> QED BY <1>1, <1>2, <1>3, <1>4 DEF LP!IInv

LEMMA LayoutStartNext ==
  ASSUME NEW s \in Seq(0 .. UintRange - 1), NEW m \in BOOLEAN, L!StartLayout(s, m)'
  PROVE  LP!IInv' /\ LP!Chained'
<1> USE DEF L!StartLayout
<1>1. LP!TypeOK'
  BY LayoutConstants DEF LP!TypeOK
<1>2. LP!Bounds' /\ LP!Latest' /\ LP!CurrentVolume' /\ LP!Numbering'
  BY LayoutConstants DEF LP!Bounds, LP!Latest, LP!CurrentVolume, LP!Numbering
<1>3. LP!NoOverlap' /\ LP!FitsArchive' /\ LP!IndexUnambiguous' /\ LP!Contiguous' /\ LP!Covered'
  BY DEF LP!NoOverlap, LP!FitsArchive, LP!IndexUnambiguous, LP!Contiguous, LP!ContiguousIn, LP!Covered
<1>4. LP!Chained'
  BY DEF LP!Chained
<1> QED BY <1>1, <1>2, <1>3, <1>4 DEF LP!IInv

\* Every file has a place of its length; in one file the places follow each other,
\* in numbered volumes those of each volume's list do, and the lists together
\* have every file with data.
Plan ==
  /\ \A f \in Files : /\ placed[f].archive \in Nat /\ placed[f].offset \in Nat
                      /\ placed[f].length = EntryLength(f)
  /\ mode # "multi" => /\ archives = <<>>
                       /\ \A f \in Files : /\ placed[f].archive = Dir
                                           /\ placed[f].offset = Filled(InOrder, f)
  /\ archives \in Seq([index : Nat, files : Seq(Nat)])
  /\ \A v \in 1 .. Len(archives) :
       /\ archives[v].index = v - 1 /\ archives[v].index < Dir /\ archives[v].files \in Seq(Nat)
       /\ \A k \in 1 .. Len(archives[v].files) :
            /\ archives[v].files[k] \in Files
            /\ placed[archives[v].files[k]].archive = v - 1
            /\ placed[archives[v].files[k]].offset = Filled(archives[v].files, k)
  /\ mode = "multi" => \A f \in Files : EntryLength(f) > 0 =>
       /\ placed[f].archive < Dir
       /\ f \in FilesBelow(Len(archives) + 1)

LEMMA SizesFacts ==
  ASSUME TypeOK
  PROVE  /\ [f \in Files |-> EntryLength(f)] \in Seq(0 .. UintRange - 1)
         /\ Len([f \in Files |-> EntryLength(f)]) = NumFiles
<1>1. ASSUME NEW f \in Files
      PROVE  EntryLength(f) \in 0 .. UintRange - 1
  <2>1. lengths[f] \in 0 .. UintRange - 1
    BY DEF TypeOK
  <2>2. lengths[f] \in Nat /\ lengths[f] <= UintRange - 1
    BY <2>1, NumberFacts
  <2>3. PreloadBytes(f) \in Nat /\ EntryLength(f) \in Nat /\ PreloadBytes(f) + EntryLength(f) = lengths[f]
    BY <2>2, LengthFacts
  <2> QED BY <2>2, <2>3, NumberFacts
<1>2. [f \in Files |-> EntryLength(f)] \in [1 .. NumFiles -> 0 .. UintRange - 1]
  BY <1>1 DEF Files
<1> QED BY <1>2, NumberFacts

LEMMA PlanHolds ==
  ASSUME TypeOK, LaidOut, stage # "idle", phase = "placed"
  PROVE  Plan
<1>1. LP!IInv /\ LP!Chained /\ phase = "placed" /\ multi = (mode = "multi")
      /\ sizes = [f \in Files |-> EntryLength(f)] /\ Len(sizes) = NumFiles
  BY SizesFacts DEF LaidOut
<1>2. LP!TypeOK /\ LP!Bounds /\ LP!IndexUnambiguous /\ LP!Contiguous /\ LP!Numbering /\ LP!Covered
  BY <1>1 DEF LP!IInv
<1>3. Len(placed) = NumFiles /\ currentFiles = <<>> /\ 1 .. Len(placed) = Files
  BY <1>1, <1>2 DEF LP!Covered, Files
<1>4. placed \in Seq(LP!Placement) /\ archives \in Seq([index : Nat, files : Seq(Nat)])
  BY <1>2 DEF LP!TypeOK
<1>5. ASSUME NEW f \in Files
      PROVE  placed[f].archive \in Nat /\ placed[f].offset \in Nat /\ placed[f].length = EntryLength(f)
  <2>1. placed[f] \in LP!Placement
    BY <1>3, <1>4
  <2>2. placed[f].length = sizes[f]
    BY <1>1, <1>3 DEF LP!Chained
  <2> QED BY <1>1, <2>1, <2>2 DEF LP!Placement
<1>6. ASSUME mode # "multi"
      PROVE  archives = <<>> /\ \A f \in Files : placed[f].archive = Dir /\ placed[f].offset = Filled(InOrder, f)
  <2>1. ~multi
    BY <1>1, <1>6
  <2>2. archives = <<>>
    BY <1>2, <2>1 DEF LP!Bounds
  <2>3. ASSUME NEW f \in Files
        PROVE  placed[f].archive = Dir /\ placed[f].offset = Filled(InOrder, f)
    <3>1. placed[f].archive = DirectoryArchiveIndex
          /\ placed[f].offset = IF f = 1 THEN 0 ELSE LP!End(placed[f - 1])
      BY <1>1, <1>3, <2>1 DEF LP!Chained
    <3>2. f # 1 => f - 1 \in Files
      BY NumberFacts DEF Files
    <3>3. f # 1 => InOrder[f - 1] = f - 1
      BY <3>2 DEF InOrder
    <3> QED BY <3>1, <3>3 DEF LP!End, Filled, Dir
  <2> QED BY <2>2, <2>3
<1>7. ASSUME NEW v \in 1 .. Len(archives)
      PROVE  /\ archives[v].index = v - 1 /\ archives[v].index < Dir /\ archives[v].files \in Seq(Nat)
             /\ \A k \in 1 .. Len(archives[v].files) :
                  /\ archives[v].files[k] \in Files
                  /\ placed[archives[v].files[k]].archive = v - 1
                  /\ placed[archives[v].files[k]].offset = Filled(archives[v].files, k)
  <2>1. archives[v].index = v - 1
    BY <1>2 DEF LP!Numbering
  <2>2. archives # <<>>
    OBVIOUS
  <2>3. multi
    BY <1>2, <2>2 DEF LP!Bounds
  <2>4. archives[v].index < Dir
    BY <1>1, <2>3 DEF LP!Chained, Dir
  <2>5. archives[v].files \in Seq(Nat)
    <3> DEFINE A == [index : Nat, files : Seq(Nat)]
    <3>1. archives \in Seq(A)
      BY <1>4
    <3>2. archives[v] \in A
      <4> HIDE DEF A
      <4> QED BY <3>1
    <3> QED BY <3>2
  <2>6. LP!ContiguousIn(archives[v].files, archives[v].index)
    BY <1>2 DEF LP!Contiguous
  <2>7. ASSUME NEW k \in 1 .. Len(archives[v].files)
        PROVE  /\ archives[v].files[k] \in Files
               /\ placed[archives[v].files[k]].archive = v - 1
               /\ placed[archives[v].files[k]].offset = Filled(archives[v].files, k)
    <3>1. /\ archives[v].files[k] \in 1 .. Len(placed)
          /\ placed[archives[v].files[k]].archive = archives[v].index
          /\ placed[archives[v].files[k]].offset =
               IF k = 1 THEN 0 ELSE LP!End(placed[archives[v].files[k - 1]])
      BY <2>6 DEF LP!ContiguousIn
    <3> QED BY <1>3, <2>1, <3>1 DEF LP!End, Filled
  <2> QED BY <2>1, <2>4, <2>5, <2>7
<1>8. ASSUME mode = "multi", NEW f \in Files, EntryLength(f) > 0
      PROVE  placed[f].archive < Dir /\ f \in FilesBelow(Len(archives) + 1)
  <2>1. multi /\ f \in 1 .. Len(placed) /\ LP!HasRoom(f)
    BY <1>1, <1>3, <1>5, <1>8 DEF LP!HasRoom
  <2>2. placed[f].archive < Dir
    BY <1>2, <2>1 DEF LP!IndexUnambiguous, Dir
  <2>3. ~ LP!Listed(f, currentFiles)
    BY <1>3 DEF LP!Listed
  <2>4. LP!InClosedVolume(f)
    BY <1>2, <2>1, <2>3 DEF LP!Covered
  <2>5. PICK v \in 1 .. Len(archives) : \E k \in 1 .. Len(archives[v].files) : archives[v].files[k] = f
    BY <2>4 DEF LP!InClosedVolume, LP!Listed
  <2>6. Len(archives) \in Nat
    BY <1>4
  <2>7. v \in 1 .. (Len(archives) + 1) - 1
    BY <2>6
  <2>8. f \in FilesBelow(Len(archives) + 1)
    BY <2>5, <2>7 DEF FilesBelow
  <2> QED BY <2>2, <2>8
<1> QED BY <1>4, <1>5, <1>6, <1>7, <1>8 DEF Plan

-----------------------------------------------------------------------------
(* What the operations do to the files already stored. *)

\* StoredData, for given volumes.
Part(a, o, n) ==
  IF a = None \/ Len(a) < o + n THEN None ELSE SubSeq(a, o + 1, o + n)

BytesIn(d, e) == IF e.length = 0 THEN <<>> ELSE Part(d[e.archive], e.offset, e.length)

\* Bytes s were appended to volume w.
Appended(d, w, s, d2) == d2 = [d EXCEPT ![w] = @ \o s]

LEMMA StoredIs ==
  ASSUME NEW e
  PROVE  /\ StoredData(e) = BytesIn(data, e)
         /\ StoredData(e)' = BytesIn(data', e')
  BY DEF StoredData, BytesIn, Part

LEMMA AppendKeepsPart ==
  ASSUME NEW S, NEW a \in Seq(S), NEW b \in Seq(S), NEW o \in Nat, NEW n \in Nat \ {0},
         o + n <= Len(a)
  PROVE  SubSeq(a \o b, o + 1, o + n) = SubSeq(a, o + 1, o + n) /\ Len(a \o b) >= o + n
<1>1. Len(a) \in Nat /\ Len(b) \in Nat /\ Len(a \o b) = Len(a) + Len(b)
  BY LenProperties, ConcatProperties
<1>2. o + 1 \in 1 .. Len(a) /\ o + n \in 1 .. Len(a)
  BY <1>1
<1>3. SubSeq(a \o b, o + 1, o + n) = SubSeq(a, o + 1, o + n)
  BY <1>2, SubSeqOfConcat1
<1> QED BY <1>1, <1>3

LEMMA AppendedPart ==
  ASSUME NEW S, NEW a \in Seq(S), NEW b \in Seq(S), b # <<>>
  PROVE  SubSeq(a \o b, Len(a) + 1, Len(a) + Len(b)) = b /\ Len(a \o b) = Len(a) + Len(b)
<1>1. Len(a) \in Nat /\ Len(b) \in Nat \ {0} /\ Len(a \o b) = Len(a) + Len(b)
  BY LenProperties, ConcatProperties, EmptySeq
<1>2. /\ Len(a) + 1 \in Len(a) + 1 .. Len(a) + Len(b)
      /\ Len(a) + Len(b) \in Len(a) + 1 .. Len(a) + Len(b)
  BY <1>1
<1>3. SubSeq(a \o b, Len(a) + 1, Len(a) + Len(b))
        = SubSeq(b, Len(a) + 1 - Len(a), Len(a) + Len(b) - Len(a))
  BY <1>2, SubSeqOfConcat2
<1>4. Len(a) + 1 - Len(a) = 1 /\ Len(a) + Len(b) - Len(a) = Len(b)
  BY <1>1
<1>5. SubSeq(b, 1, Len(b)) = b
  BY SubSeqFull
<1> QED BY <1>1, <1>3, <1>4, <1>5

\* A placed part of a volume: what an entry reads.
IsPlace(e) ==
  e.offset \in Nat /\ e.length \in Nat /\ (e.length > 0 => e.archive \in Volumes)

\* Appending to a volume leaves what can be read alone.
LEMMA BytesAppend ==
  ASSUME NEW d, NEW w \in Volumes, NEW s \in Seq(Byte), NEW e,
         NEW d2, Appended(d, w, s, d2),
         d \in [Volumes -> Seq(Byte) \cup {None}], d[w] \in Seq(Byte),
         IsPlace(e), BytesIn(d, e) \in Seq(Byte)
  PROVE  BytesIn(d2, e) = BytesIn(d, e)
<1>1. \A v \in Volumes : d2[v] = IF v = w THEN d[w] \o s ELSE d[v]
  BY DEF Appended
<1>2. CASE e.length = 0
  BY <1>2 DEF BytesIn
<1>3. CASE e.length # 0
  <2>1. e.archive \in Volumes /\ e.length \in Nat \ {0} /\ e.offset \in Nat
    BY <1>3 DEF IsPlace
  <2>2. CASE e.archive # w
    <3>1. d2[e.archive] = d[e.archive]
      BY <1>1, <2>1, <2>2
    <3>2. BytesIn(d2, e) = BytesIn(d, e)
      BY <3>1 DEF BytesIn
    <3> QED BY <3>2
  <2>3. CASE e.archive = w
    <3>1. ~ (Len(d[w]) < e.offset + e.length) /\ d[w] # None
      BY <1>3, <2>3, NoneFacts DEF BytesIn, Part
    <3>2. Len(d[w]) \in Nat /\ e.offset + e.length <= Len(d[w])
      BY <2>1, <3>1, LenProperties
    <3>3. /\ SubSeq(d[w] \o s, e.offset + 1, e.offset + e.length)
               = SubSeq(d[w], e.offset + 1, e.offset + e.length)
          /\ Len(d[w] \o s) >= e.offset + e.length
          /\ d[w] \o s \in Seq(Byte)
      <4> DEFINE a == d[w]
                 o == e.offset
                 n == e.length
      <4>1. a \in Seq(Byte) /\ o \in Nat /\ n \in Nat \ {0} /\ o + n <= Len(a)
        BY <2>1, <3>2
      <4> HIDE DEF a, o, n
      <4>2. SubSeq(a \o s, o + 1, o + n) = SubSeq(a, o + 1, o + n) /\ Len(a \o s) >= o + n
        BY <4>1, AppendKeepsPart
      <4>3. a \o s \in Seq(Byte)
        BY <4>1, ConcatProperties
      <4> QED BY <4>2, <4>3 DEF a, o, n
    <3>4. Len(d[w] \o s) \in Nat
      BY <3>3, LenProperties
    <3>5. d[w] \o s # None
      BY <3>3, NoneFacts
    <3>6. d2[e.archive] = d[w] \o s
      BY <1>1, <2>1, <2>3
    <3>7. ~ (Len(d[w] \o s) < e.offset + e.length)
      BY <2>1, <3>3, <3>4
    <3>8. BytesIn(d2, e) = SubSeq(d[w] \o s, e.offset + 1, e.offset + e.length)
      BY <1>3, <3>5, <3>6, <3>7 DEF BytesIn, Part
    <3>9. BytesIn(d, e) = SubSeq(d[w], e.offset + 1, e.offset + e.length)
      BY <1>3, <2>3, <3>1 DEF BytesIn, Part
    <3> QED BY <3>3, <3>8, <3>9
  <2> QED BY <2>2, <2>3
<1> QED BY <1>2, <1>3

\* Truncating a volume leaves what the others hold alone.
LEMMA BytesTruncate ==
  ASSUME NEW d, NEW w \in Volumes, NEW e, NEW d2, d2 = [d EXCEPT ![w] = <<>>],
         d \in [Volumes -> Seq(Byte) \cup {None}], IsPlace(e), e.length > 0 => e.archive # w
  PROVE  BytesIn(d2, e) = BytesIn(d, e)
<1>1. CASE e.length = 0
  BY <1>1 DEF BytesIn
<1>2. CASE e.length # 0
  <2>1. e.archive \in Volumes /\ e.archive # w
    BY <1>2 DEF IsPlace
  <2>2. d2[e.archive] = d[e.archive]
    BY <2>1
  <2> QED BY <2>2 DEF BytesIn
<1> QED BY <1>1, <1>2

\* What is appended where an entry begins is what the entry reads.
LEMMA BytesAppended ==
  ASSUME NEW d, NEW w \in Volumes, NEW s \in Seq(Byte), NEW e,
         NEW d2, Appended(d, w, s, d2),
         d \in [Volumes -> Seq(Byte) \cup {None}], d[w] \in Seq(Byte),
         e.length = Len(s), e.length > 0 => e.archive = w /\ e.offset = Len(d[w])
  PROVE  BytesIn(d2, e) = s
<1>1. d2[w] = d[w] \o s /\ Len(s) \in Nat /\ Len(d[w]) \in Nat
  BY LenProperties DEF Appended
<1>2. CASE e.length = 0
  <2>1. s = <<>>
    BY <1>2, EmptySeq
  <2> QED BY <1>2, <2>1 DEF BytesIn
<1>3. CASE e.length # 0
  <2>1. s # <<>> /\ e.archive = w /\ e.offset = Len(d[w])
    BY <1>1, <1>3
  <2>2. /\ SubSeq(d[w] \o s, Len(d[w]) + 1, Len(d[w]) + Len(s)) = s
        /\ Len(d[w] \o s) = Len(d[w]) + Len(s)
        /\ d[w] \o s \in Seq(Byte)
    BY <2>1, AppendedPart, ConcatProperties
  <2>3. d[w] \o s # None
    BY <2>2, NoneFacts
  <2>4. ~ (Len(d[w] \o s) < e.offset + e.length)
    BY <1>1, <2>1, <2>2
  <2>5. BytesIn(d2, e) = SubSeq(d[w] \o s, e.offset + 1, e.offset + e.length)
    BY <1>1, <1>3, <2>1, <2>3, <2>4 DEF BytesIn, Part
  <2> QED BY <2>1, <2>2, <2>5
<1> QED BY <1>2, <1>3

\* While a run writes, neither its lengths nor its layout change.
Frame == UNCHANGED <<mode, lengths, placed, archives>>

LEMMA FrameFacts ==
  ASSUME Frame
  PROVE  /\ \A f : PreloadBytes(f)' = PreloadBytes(f) /\ EntryLength(f)' = EntryLength(f)
         /\ \A op, fs, k, half, rest :
              ReadTodo(op, fs, k, half, rest)' = ReadTodo(op, fs, k, half, rest)
         /\ CopyPieces' = CopyPieces /\ InlinePieces' = InlinePieces /\ VolumePieces' = VolumePieces
         /\ CopyEach' = CopyEach /\ InlineEach' = InlineEach
         /\ \A v : AfterVolume(v)' = AfterVolume(v)
         /\ \A fs, k : Filled(fs, k)' = Filled(fs, k)
         /\ \A v : FilesBelow(v)' = FilesBelow(v)
         /\ (Plan => Plan')
<1>1. \A f : PreloadBytes(f)' = PreloadBytes(f) /\ EntryLength(f)' = EntryLength(f)
  BY DEF Frame, PreloadBytes, EntryLength
<1>2. \A op, fs : ReadPieces(op, fs)' = ReadPieces(op, fs)
  BY <1>1 DEF ReadPieces, ReadPiece
<1>3. \A op, fs, k, half, rest :
        ReadTodo(op, fs, k, half, rest)' = ReadTodo(op, fs, k, half, rest)
  BY <1>2 DEF ReadTodo
<1>4. CopyPieces' = CopyPieces /\ InlinePieces' = InlinePieces
  BY <1>1 DEF CopyPieces, InlinePieces
<1>5. CopyEach' = CopyEach /\ InlineEach' = InlineEach
  BY <1>1 DEF CopyEach, InlineEach
<1>6. \A op, fs : ReadEach(op, fs)' = ReadEach(op, fs)
  BY <1>1 DEF ReadEach
<1>7. VolumePieces' = VolumePieces
  BY <1>6 DEF VolumePieces, VolumeProgram, Frame
<1>8. \A v : AfterVolume(v)' = AfterVolume(v)
  BY <1>5, <1>7 DEF AfterVolume, Frame
<1>9. \A fs, k : Filled(fs, k)' = Filled(fs, k)
  BY DEF Filled, Frame
<1>10. \A v : FilesBelow(v)' = FilesBelow(v)
  BY DEF FilesBelow, Frame
<1>11. Plan => Plan'
  BY <1>1, <1>9, <1>10 DEF Plan, Frame
<1> QED BY <1>1, <1>3, <1>4, <1>5, <1>7, <1>8, <1>9, <1>10, <1>11

LEMMA PlaceFacts ==
  ASSUME TypeOK, Plan, NEW f \in Files
  PROVE  /\ IsPlace(FinalEntry(f))
         /\ FinalEntry(f).length = EntryLength(f) /\ EntryLength(f) \in Nat
         /\ PreloadBytes(f) \in Nat /\ lengths[f] \in Nat
         /\ PreloadBytes(f) + EntryLength(f) = lengths[f]
         /\ FinalEntry(f).archive = placed[f].archive /\ FinalEntry(f).offset = placed[f].offset
         /\ FinalEntry(f).crc = file[f].crc /\ FinalEntry(f).preload = file[f].preload
         /\ StoredData(FinalEntry(f)) = BytesIn(data, FinalEntry(f))
<1>1. lengths[f] \in Nat
  <2>1. lengths[f] \in 0 .. UintRange - 1
    BY DEF TypeOK
  <2> QED BY <2>1, NumberFacts
<1>2. EntryLength(f) \in Nat /\ PreloadBytes(f) \in Nat /\ PreloadBytes(f) + EntryLength(f) = lengths[f]
  BY <1>1, LengthFacts
<1>3. /\ FinalEntry(f).length = EntryLength(f)
      /\ FinalEntry(f).archive = placed[f].archive /\ FinalEntry(f).offset = placed[f].offset
      /\ FinalEntry(f).crc = file[f].crc /\ FinalEntry(f).preload = file[f].preload
  BY DEF FinalEntry, TreeEntry
<1>4. placed[f].archive \in Nat /\ placed[f].offset \in Nat
  BY DEF Plan
<1>5. EntryLength(f) > 0 => placed[f].archive \in Volumes
  <2>1. mode # "multi" => placed[f].archive = Dir
    BY DEF Plan
  <2>2. mode = "multi" /\ EntryLength(f) > 0 => placed[f].archive < Dir
    BY DEF Plan
  <2> QED BY <1>4, <2>1, <2>2, NumberFacts DEF Volumes
<1>6. StoredData(FinalEntry(f)) = BytesIn(data, FinalEntry(f))
  BY DEF StoredData, BytesIn, Part
<1> QED BY <1>1, <1>2, <1>3, <1>4, <1>5, <1>6 DEF IsPlace

\* The preload and the rest are the file.
LEMMA RestFacts ==
  ASSUME TypeOK, NEW f \in Files, PreloadBytes(f) \in Nat
  PROVE  /\ Rest(f) \in Seq(Byte) /\ src[f] \in Seq(Byte) /\ Len(src[f]) \in Nat
         /\ Len(src[f]) >= PreloadBytes(f) =>
              /\ SubSeq(src[f], 1, PreloadBytes(f)) \in Seq(Byte)
              /\ SubSeq(src[f], 1, PreloadBytes(f)) \o Rest(f) = src[f]
              /\ Len(Rest(f)) = Len(src[f]) - PreloadBytes(f)
         /\ PreloadBytes(f) = 0 => SubSeq(src[f], 1, PreloadBytes(f)) = <<>>
<1> DEFINE s == src[f]
           p == PreloadBytes(f)
<1>1. s \in Seq(Byte) /\ p \in Nat
  BY DEF TypeOK
<1>2. Rest(f) = SubSeq(s, p + 1, Len(s))
  BY DEF Rest
<1> HIDE DEF s, p
<1>3. Len(s) \in Nat /\ \A i \in 1 .. Len(s) : s[i] \in Byte
  BY <1>1, LenProperties, ElementOfSeq
<1>4. SubSeq(s, p + 1, Len(s)) \in Seq(Byte)
      /\ Len(SubSeq(s, p + 1, Len(s))) = IF p + 1 <= Len(s) THEN Len(s) - (p + 1) + 1 ELSE 0
  <2>1. p + 1 \in Int /\ Len(s) \in Int /\ \A i \in p + 1 .. Len(s) : s[i] \in Byte
    BY <1>1, <1>3
  <2> QED BY <2>1, SubSeqProperties
<1>5. ASSUME Len(s) >= p
      PROVE  /\ SubSeq(s, 1, p) \in Seq(Byte)
             /\ SubSeq(s, 1, p) \o SubSeq(s, p + 1, Len(s)) = s
             /\ Len(SubSeq(s, p + 1, Len(s))) = Len(s) - p
  <2>1. 1 \in Int /\ p \in Int /\ \A i \in 1 .. p : s[i] \in Byte
    BY <1>1, <1>3, <1>5
  <2>2. SubSeq(s, 1, p) \in Seq(Byte)
    BY <2>1, SubSeqProperties
  <2>3. 1 \in 1 .. Len(s) + 1 /\ p \in 1 - 1 .. Len(s) /\ Len(s) \in p .. Len(s)
    BY <1>1, <1>3, <1>5
  <2>4. SubSeq(s, 1, p) \o SubSeq(s, p + 1, Len(s)) = SubSeq(s, 1, Len(s))
    BY <1>1, <2>3, ConcatAdjacentSubSeq
  <2>5. SubSeq(s, 1, Len(s)) = s
    BY <1>1, SubSeqFull
  <2>6. Len(SubSeq(s, p + 1, Len(s))) = Len(s) - p
    BY <1>1, <1>3, <1>4, <1>5
  <2> QED BY <2>2, <2>4, <2>5, <2>6
<1>6. p = 0 => SubSeq(s, 1, p) = <<>>
  BY SubSeqEmpty
<1> QED BY <1>1, <1>2, <1>3, <1>4, <1>5, <1>6 DEF s, p

\* A file stays good as long as what its entry reads does.
LEMMA GoodStays ==
  ASSUME TypeOK, Plan, Frame, NEW f \in Files, Good(f), file'[f] = file[f],
         f \notin touched' => f \notin touched /\ src'[f] = src[f],
         BytesIn(data, FinalEntry(f)) \in Seq(Byte) =>
           BytesIn(data', FinalEntry(f)) = BytesIn(data, FinalEntry(f))
  PROVE  Good(f)'
<1>1. FinalEntry(f)' = FinalEntry(f)
  BY DEF Frame, FinalEntry, TreeEntry, EntryLength, PreloadBytes
<1>2. StoredData(FinalEntry(f)) = BytesIn(data, FinalEntry(f))
  BY DEF StoredData, BytesIn, Part
<1>3. StoredData(FinalEntry(f))' = BytesIn(data', FinalEntry(f))
  BY <1>1 DEF StoredData, BytesIn, Part
<1> QED BY <1>1, <1>2, <1>3 DEF Good, Frame

LEMMA GoodUntouchedDisk ==
  ASSUME TypeOK, Plan, Frame, NEW f \in Files, Good(f), UNCHANGED <<data, file, touched, src>>
  PROVE  Good(f)'
  BY GoodStays

LEMMA GoodCreate ==
  ASSUME TypeOK, Plan, Frame, NEW f \in Files, Good(f), UNCHANGED <<file, touched, src>>,
         NEW w \in Volumes, data' = [data EXCEPT ![w] = <<>>],
         EntryLength(f) > 0 => placed[f].archive # w
  PROVE  Good(f)'
<1>1. /\ IsPlace(FinalEntry(f)) /\ data \in [Volumes -> Seq(Byte) \cup {None}]
      /\ FinalEntry(f).length > 0 => FinalEntry(f).archive # w
  BY PlaceFacts DEF TypeOK
<1> DEFINE e == FinalEntry(f)
<1>2. IsPlace(e) /\ (e.length > 0 => e.archive # w)
  BY <1>1
<1>3. BytesIn(data', e) = BytesIn(data, e)
  <2> HIDE DEF e
  <2> QED BY <1>1, <1>2, BytesTruncate
<1> QED BY <1>3, GoodStays

LEMMA GoodAppend ==
  ASSUME TypeOK, Plan, Frame, NEW f \in Files, Good(f), file'[f] = file[f],
         UNCHANGED <<touched, src>>,
         NEW w \in Volumes, NEW s \in Seq(Byte), data[w] \in Seq(Byte),
         data' = [data EXCEPT ![w] = @ \o s]
  PROVE  Good(f)'
<1>1. IsPlace(FinalEntry(f)) /\ data \in [Volumes -> Seq(Byte) \cup {None}]
  BY PlaceFacts DEF TypeOK
<1> DEFINE e == FinalEntry(f)
<1>2. ASSUME BytesIn(data, e) \in Seq(Byte)
      PROVE  BytesIn(data', e) = BytesIn(data, e)
  <2>1. IsPlace(e)
    BY <1>1
  <2> HIDE DEF e
  <2>2. Appended(data, w, s, data')
    BY DEF Appended
  <2> QED BY <1>1, <1>2, <2>1, <2>2, BytesAppend
<1> QED BY <1>2, GoodStays

LEMMA ReadyFacts ==
  ASSUME TypeOK, Plan, Collected, NEW f \in Files
  PROVE  ~ (PreloadBytes(f) > 0) => Ready(f)
<1>1. PreloadBytes(f) \in Nat
  BY PlaceFacts
<1> HAVE ~ (PreloadBytes(f) > 0)
<1>2. PreloadBytes(f) = 0
  BY <1>1
<1>3. file[f].preload = <<>>
  BY <1>2 DEF Collected
<1> QED BY <1>1, <1>2, <1>3, RestFacts DEF Ready

\* The data of a file goes to the end of the volume it was placed in.
LEMMA StreamGood ==
  ASSUME TypeOK, Plan, Frame, Collected, stage = "writing", mode # "singleMd5",
         NEW f \in Files, Arg = f, StreamData, Ready(f), writing \in Volumes,
         Holds(writing, placed[f].offset), EntryLength(f) > 0 => placed[f].archive = writing,
         UNCHANGED <<touched, src>>
  PROVE  /\ Good(f)'
         /\ \A g \in Files \ {f} : Good(g) => Good(g)'
         /\ data'[writing] \in Seq(Byte)
         /\ Len(data'[writing]) = placed[f].offset + placed[f].length
<1>1. /\ IsPlace(FinalEntry(f)) /\ FinalEntry(f).length = EntryLength(f) /\ EntryLength(f) \in Nat
      /\ PreloadBytes(f) \in Nat /\ PreloadBytes(f) + EntryLength(f) = lengths[f] /\ lengths[f] \in Nat
      /\ FinalEntry(f).archive = placed[f].archive /\ FinalEntry(f).offset = placed[f].offset
  BY PlaceFacts
<1>2. Rest(f) \in Seq(Byte) /\ Len(Rest(f)) = EntryLength(f) /\ data[writing] \in Seq(Byte)
      /\ Len(data[writing]) = placed[f].offset
  BY <1>1, RestFacts DEF StreamData, Holds
<1>3. /\ data' = [data EXCEPT ![writing] = @ \o Rest(f)]
      /\ file' = [file EXCEPT ![f].crc = file[f].preload \o Rest(f)]
      /\ data \in [Volumes -> Seq(Byte) \cup {None}]
      /\ file \in [Files -> [crc : Seq(Byte), preload : Seq(Byte)]]
  BY DEF StreamData, Complete, TypeOK
<1>4. ASSUME NEW g \in Files, g # f, Good(g)
      PROVE  Good(g)'
  <2>1. file'[g] = file[g]
    BY <1>3, <1>4
  <2> QED BY <1>2, <1>3, <1>4, <2>1, GoodAppend
<1>5. data'[writing] = data[writing] \o Rest(f)
  BY <1>3
<1>6. data'[writing] \in Seq(Byte) /\ Len(data'[writing]) = placed[f].offset + placed[f].length
  <2>1. placed[f].length = EntryLength(f)
    BY DEF Plan
  <2> DEFINE a == data[writing]
             b == Rest(f)
  <2>2. a \in Seq(Byte) /\ b \in Seq(Byte)
    BY <1>2
  <2>3. a \o b \in Seq(Byte) /\ Len(a \o b) = Len(a) + Len(b)
    <3> HIDE DEF a, b
    <3> QED BY <2>2, ConcatProperties
  <2> QED BY <1>2, <1>5, <2>1, <2>3
<1>7. BytesIn(data', FinalEntry(f)) = Rest(f)
  <2> DEFINE e == FinalEntry(f)
             b == Rest(f)
             w == writing
  <2>1. /\ b \in Seq(Byte) /\ w \in Volumes /\ Appended(data, w, b, data')
        /\ data \in [Volumes -> Seq(Byte) \cup {None}] /\ data[w] \in Seq(Byte)
        /\ e.length = Len(b) /\ (e.length > 0 => e.archive = w /\ e.offset = Len(data[w]))
    BY <1>1, <1>2, <1>3 DEF Appended
  <2>2. BytesIn(data', e) = b
    <3> HIDE DEF e, b, w
    <3> QED BY <2>1, BytesAppended
  <2> QED BY <2>2
<1>8. file'[f].crc = file[f].preload \o Rest(f) /\ file'[f].preload = file[f].preload
  BY <1>3
<1>9. StoredData(FinalEntry(f))' = Rest(f)
  <2>1. /\ FinalEntry(f)'.length = FinalEntry(f).length /\ FinalEntry(f)'.archive = FinalEntry(f).archive
        /\ FinalEntry(f)'.offset = FinalEntry(f).offset
    BY DEF Frame, FinalEntry, TreeEntry, EntryLength, PreloadBytes
  <2>2. StoredData(FinalEntry(f))' = BytesIn(data', FinalEntry(f))
    BY <2>1 DEF StoredData, BytesIn, Part
  <2> QED BY <1>7, <2>2
<1>10. ASSUME f \notin touched'
       PROVE  file'[f].crc = src'[f]
  <2>1. f \notin touched /\ Len(src[f]) = lengths[f]
    BY <1>10 DEF Collected
  <2>2. file[f].preload = SubSeq(src[f], 1, PreloadBytes(f))
    BY <2>1 DEF Ready
  <2>3. SubSeq(src[f], 1, PreloadBytes(f)) \o Rest(f) = src[f]
    <3> DEFINE p == PreloadBytes(f)
               q == EntryLength(f)
               n == Len(src[f])
    <3>1. n >= p
      <4>1. p \in Nat /\ q \in Nat /\ p + q = n
        BY <1>1, <2>1
      <4> HIDE DEF p, q, n
      <4> QED BY <4>1
    <3> QED BY <1>1, <3>1, RestFacts
  <2> QED BY <1>8, <2>2, <2>3
<1>11. Good(f)'
  BY <1>2, <1>8, <1>9, <1>10 DEF Good
<1> QED BY <1>4, <1>6, <1>11

-----------------------------------------------------------------------------
(* One operation of a run that writes. *)

Operation ==
  \/ CreateFile \/ CloseVolume \/ WritePlaceholder \/ ReadPreload \/ StreamData \/ HashData
  \/ CopyData \/ InlineFile \/ FinalizeEntry \/ CommitDirectory

Writes == TypeOK /\ Plan /\ Collected /\ stage = "writing" /\ Operation

LEMMA OperationFacts ==
  ASSUME Operation
  PROVE  /\ Frame /\ UNCHANGED <<src, touched, stage, result>>
         /\ todo # <<>> /\ todo' = Tail(todo)
<1> USE DEF Continue, layoutVars, Frame, Now
<1>1. CASE CreateFile
  BY <1>1 DEF CreateFile
<1>2. CASE CloseVolume
  BY <1>2 DEF CloseVolume
<1>3. CASE WritePlaceholder
  BY <1>3 DEF WritePlaceholder
<1>4. CASE ReadPreload
  BY <1>4 DEF ReadPreload
<1>5. CASE StreamData
  BY <1>5 DEF StreamData
<1>6. CASE HashData
  BY <1>6 DEF HashData
<1>7. CASE CopyData
  BY <1>7 DEF CopyData
<1>8. CASE InlineFile
  BY <1>8 DEF InlineFile
<1>9. CASE FinalizeEntry
  BY <1>9 DEF FinalizeEntry
<1>10. CASE CommitDirectory
  BY <1>10 DEF CommitDirectory
<1> QED BY <1>1, <1>2, <1>3, <1>4, <1>5, <1>6, <1>7, <1>8, <1>9, <1>10 DEF Operation

\* The head of what is left decides which operation it is.
LEMMA OperationIs ==
  ASSUME Operation, NEW op, NEW a, NEW rest, Lead(todo, op, a, rest)
  PROVE  /\ todo' = rest /\ Arg = a
         /\ op = "create" => CreateFile
         /\ op = "close" => CloseVolume
         /\ op = "placeholder" => WritePlaceholder
         /\ op = "preload" => ReadPreload
         /\ op = "data" => StreamData
         /\ op = "hash" => HashData
         /\ op = "copy" => CopyData
         /\ op = "inline" => InlineFile
         /\ op = "finalize" => FinalizeEntry
         /\ op = "commit" => CommitDirectory
<1>1. todo' = rest
  BY OperationFacts DEF Lead
<1>2. Head(todo).op = op /\ Arg = a
  BY DEF Lead, Item, Arg
<1>3. /\ CreateFile => op = "create"
      /\ CloseVolume => op = "close"
      /\ WritePlaceholder => op = "placeholder"
      /\ ReadPreload => op = "preload"
      /\ StreamData => op = "data"
      /\ HashData => op = "hash"
      /\ CopyData => op = "copy"
      /\ InlineFile => op = "inline"
      /\ FinalizeEntry => op = "finalize"
      /\ CommitDirectory => op = "commit"
  BY <1>2 DEF Now, CreateFile, CloseVolume, WritePlaceholder, ReadPreload, StreamData, HashData,
              CopyData, InlineFile, FinalizeEntry, CommitDirectory
<1> QED BY <1>1, <1>2, <1>3 DEF Operation

LEMMA FrameHere ==
  ASSUME Writes
  PROVE  /\ Operation /\ TypeOK /\ Plan /\ Collected /\ stage = "writing"
         /\ Frame /\ UNCHANGED <<src, touched, mode, placed, archives>>
         /\ (mode # "multi")' = (mode # "multi")
  BY OperationFacts DEF Writes, Frame

\* A file is created and opened.
LEMMA CreateAt ==
  ASSUME Writes, NEW w \in Volumes, NEW rest, Lead(todo, "create", w, rest)
  PROVE  /\ todo' = rest /\ writing' = w /\ file' = file
         /\ data' = [data EXCEPT ![w] = <<>>]
         /\ data'[w] \in Seq(Byte) /\ Len(data'[w]) = 0
         /\ tree' = (IF w = Dir THEN None ELSE tree) /\ md5' = (IF w = Dir THEN None ELSE md5)
         /\ \A f \in Files : (Good(f) /\ (EntryLength(f) > 0 => placed[f].archive # w)) => Good(f)'
<1>1. Operation /\ TypeOK /\ Plan /\ Frame /\ UNCHANGED <<src, touched>>
  BY FrameHere
<1>2. CreateFile /\ Arg = w /\ todo' = rest
  BY <1>1, OperationIs
<1>3. /\ data' = [data EXCEPT ![w] = <<>>] /\ writing' = w /\ file' = file
      /\ tree' = (IF w = Dir THEN None ELSE tree) /\ md5' = (IF w = Dir THEN None ELSE md5)
  BY <1>2 DEF CreateFile
<1>4. data'[w] \in Seq(Byte) /\ Len(data'[w]) = 0
  <2>1. data'[w] = <<>>
    BY <1>1, <1>3 DEF TypeOK
  <2> QED BY <2>1
<1>5. ASSUME NEW f \in Files, Good(f), EntryLength(f) > 0 => placed[f].archive # w
      PROVE  Good(f)'
  BY <1>1, <1>3, <1>5, GoodCreate
<1> QED BY <1>2, <1>3, <1>4, <1>5

\* The data of a file goes where its entry will say.
LEMMA DataAt ==
  ASSUME Writes, mode # "singleMd5", NEW f \in Files, NEW rest, Lead(todo, "data", f, rest),
         NEW w \in Volumes, Ready(f), Holds(w, placed[f].offset),
         EntryLength(f) > 0 => placed[f].archive = w
  PROVE  /\ todo' = rest /\ writing' = w /\ UNCHANGED <<tree, md5>>
         /\ data'[w] \in Seq(Byte) /\ Len(data'[w]) = placed[f].offset + placed[f].length
         /\ Good(f)' /\ \A g \in Files \ {f} : Good(g) => Good(g)'
<1>1. Operation /\ TypeOK /\ Plan /\ Collected /\ stage = "writing" /\ Frame
      /\ UNCHANGED <<src, touched>>
  BY FrameHere
<1>2. StreamData /\ Arg = f /\ todo' = rest
  BY <1>1, OperationIs
<1>3. writing = w
  BY DEF Holds
<1>4. UNCHANGED <<tree, md5, writing>>
  BY <1>2 DEF StreamData
<1> QED BY <1>1, <1>2, <1>3, <1>4, StreamGood

\* The preload of a file is read.
LEMMA PreloadAt ==
  ASSUME Writes, NEW f \in Files, NEW rest, Lead(todo, "preload", f, rest)
  PROVE  /\ todo' = rest /\ UNCHANGED <<data, writing, tree, md5>>
         /\ Ready(f)' /\ \A g \in Files \ {f} : (Good(g) => Good(g)') /\ file'[g] = file[g]
<1>1. Operation /\ TypeOK /\ Plan /\ Frame /\ UNCHANGED <<src, touched>>
  BY FrameHere
<1>2. ReadPreload /\ Arg = f /\ todo' = rest
  BY <1>1, OperationIs
<1>3. /\ file' = [file EXCEPT ![f].preload = SubSeq(src[f], 1, PreloadBytes(f))]
      /\ UNCHANGED <<data, writing, tree, md5>>
      /\ file \in [Files -> [crc : Seq(Byte), preload : Seq(Byte)]]
  BY <1>1, <1>2 DEF ReadPreload, diskVars, TypeOK
<1>4. Ready(f)'
  <2>1. PreloadBytes(f)' = PreloadBytes(f)
    BY <1>1, FrameFacts
  <2>2. file'[f].preload = SubSeq(src[f], 1, PreloadBytes(f))
    BY <1>3
  <2> QED BY <1>1, <2>1, <2>2 DEF Ready
<1>5. ASSUME NEW g \in Files \ {f}
      PROVE  (Good(g) => Good(g)') /\ file'[g] = file[g]
  <2>1. file'[g] = file[g]
    BY <1>3
  <2> QED BY <1>1, <1>3, <2>1, GoodStays
<1> QED BY <1>2, <1>3, <1>4, <1>5

LEMMA Untouched ==
  ASSUME TypeOK, Plan, Collected, stage = "writing", NEW f \in Files, f \notin touched
  PROVE  /\ Len(src[f]) = lengths[f] /\ Len(src[f]) >= PreloadBytes(f)
         /\ SubSeq(src[f], 1, PreloadBytes(f)) \o Rest(f) = src[f]
         /\ EntryLength(f) = 0 => SubSeq(src[f], 1, PreloadBytes(f)) = src[f]
<1>1. Len(src[f]) = lengths[f]
  BY DEF Collected
<1>2. PreloadBytes(f) \in Nat /\ EntryLength(f) \in Nat /\ PreloadBytes(f) + EntryLength(f) = lengths[f]
  BY PlaceFacts
<1>3. Len(src[f]) >= PreloadBytes(f)
  <2> DEFINE p == PreloadBytes(f)
             q == EntryLength(f)
             n == Len(src[f])
  <2>1. p \in Nat /\ q \in Nat /\ p + q = n
    BY <1>1, <1>2
  <2> HIDE DEF p, q, n
  <2>2. n >= p
    BY <2>1
  <2> QED BY <2>2 DEF n, p
<1>4. SubSeq(src[f], 1, PreloadBytes(f)) \o Rest(f) = src[f] /\ src[f] \in Seq(Byte)
  BY <1>2, <1>3, RestFacts
<1>5. ASSUME EntryLength(f) = 0
      PROVE  SubSeq(src[f], 1, PreloadBytes(f)) = src[f]
  <2>1. PreloadBytes(f) = Len(src[f])
    BY <1>1, <1>2, <1>5
  <2> QED BY <1>4, <2>1, SubSeqFull
<1> QED BY <1>1, <1>3, <1>4, <1>5

\* A file without data of its own, once its checksum is known.
LEMMA EmptyGood ==
  ASSUME TypeOK, Plan, Collected, stage = "writing", NEW f \in Files, EntryLength(f) = 0,
         mode = "singleMd5" => Hashed(f),
         mode # "singleMd5" => file[f].preload = file[f].crc /\ (f \notin touched => file[f].crc = src[f])
  PROVE  Good(f)
<1>1. FinalEntry(f).length = 0
  BY PlaceFacts
<1>2. StoredData(FinalEntry(f)) = <<>>
  BY <1>1 DEF StoredData
<1>3. file[f].preload \in Seq(Byte) /\ file[f].crc \in Seq(Byte)
  BY DEF TypeOK
<1>4. file[f].preload \o <<>> = file[f].preload
  BY <1>3, ConcatEmptySeq
<1>5. f \notin touched => file[f].crc = src[f]
  BY DEF Hashed
<1>6. (mode # "singleMd5" \/ f \notin touched) => file[f].preload = file[f].crc
  <2>1. CASE mode # "singleMd5"
    BY <2>1
  <2>2. CASE mode = "singleMd5" /\ f \notin touched
    BY <2>2, Untouched DEF Hashed
  <2> QED BY <2>1, <2>2
<1>7. <<>> \in Seq(Byte)
  BY EmptySeq
<1> QED BY <1>2, <1>4, <1>5, <1>6, <1>7 DEF Good

\* The first pass of the MD5 mode.
LEMMA HashAt ==
  ASSUME Writes, NEW f \in Files, NEW rest, Lead(todo, "hash", f, rest), Ready(f)
  PROVE  /\ todo' = rest /\ Hashed(f)'
         /\ \A g \in Files \ {f} : file'[g] = file[g]
<1>1. /\ Operation /\ TypeOK /\ Plan /\ Collected /\ stage = "writing" /\ Frame
      /\ UNCHANGED <<src, touched>>
  BY FrameHere
<1>2. HashData /\ Arg = f /\ todo' = rest
  BY <1>1, OperationIs
<1>3. /\ file' = [file EXCEPT ![f].crc = file[f].preload \o Rest(f)]
      /\ file \in [Files -> [crc : Seq(Byte), preload : Seq(Byte)]]
  BY <1>1, <1>2 DEF HashData, Complete, TypeOK
<1>4. file'[f].crc = file[f].preload \o Rest(f) /\ file'[f].preload = file[f].preload
  BY <1>3
<1>5. PreloadBytes(f)' = PreloadBytes(f)
  BY <1>1, FrameFacts
<1>6. ASSUME f \notin touched
      PROVE  file'[f].crc = src[f] /\ file'[f].preload = SubSeq(src[f], 1, PreloadBytes(f))
  BY <1>1, <1>4, <1>6, Untouched DEF Ready
<1>7. Hashed(f)'
  BY <1>1, <1>5, <1>6 DEF Hashed
<1>8. \A g \in Files \ {f} : file'[g] = file[g]
  BY <1>3
<1> QED BY <1>2, <1>7, <1>8

LEMMA HashedStays ==
  ASSUME Frame, NEW f \in Files, Hashed(f), file'[f] = file[f],
         f \notin touched' => f \notin touched /\ src'[f] = src[f]
  PROVE  Hashed(f)'
<1>1. PreloadBytes(f)' = PreloadBytes(f)
  BY FrameFacts
<1> QED BY <1>1 DEF Hashed

\* The second pass of the MD5 mode.
LEMMA CopyAt ==
  ASSUME Writes, mode = "singleMd5", NEW f \in Files, NEW rest, Lead(todo, "copy", f, rest),
         Holds(Dir, placed[f].offset), Hashed(f)
  PROVE  /\ todo' = rest /\ writing' = Dir /\ file' = file
         /\ data'[Dir] \in Seq(Byte) /\ Len(data'[Dir]) = placed[f].offset + placed[f].length
         /\ Good(f)' /\ \A g \in Files : Good(g) => Good(g)'
<1>1. /\ Operation /\ TypeOK /\ Plan /\ Collected /\ stage = "writing" /\ Frame
      /\ UNCHANGED <<src, touched, mode>> /\ Dir \in Volumes
  BY FrameHere, NumberFacts
<1>2. CopyData /\ Arg = f /\ todo' = rest
  BY <1>1, OperationIs
<1>3. writing = Dir /\ data[Dir] \in Seq(Byte) /\ Len(data[Dir]) = placed[f].offset
  BY DEF Holds
<1>4. /\ data' = [data EXCEPT ![Dir] = @ \o Rest(f)] /\ UNCHANGED <<file, writing>>
      /\ data \in [Volumes -> Seq(Byte) \cup {None}] /\ Len(Rest(f)) = EntryLength(f)
  BY <1>1, <1>2, <1>3 DEF CopyData, TypeOK
<1>5. /\ FinalEntry(f).length = EntryLength(f) /\ EntryLength(f) \in Nat
      /\ PreloadBytes(f) \in Nat /\ placed[f].archive = Dir /\ placed[f].length = EntryLength(f)
      /\ FinalEntry(f).archive = placed[f].archive /\ FinalEntry(f).offset = placed[f].offset
  BY <1>1, PlaceFacts DEF Plan
<1>6. Rest(f) \in Seq(Byte)
  BY <1>1, <1>5, RestFacts
<1>7. \A g \in Files : Good(g) => Good(g)'
  BY <1>1, <1>3, <1>4, <1>6, GoodAppend
<1>8. data'[Dir] \in Seq(Byte) /\ Len(data'[Dir]) = placed[f].offset + placed[f].length
  <2> DEFINE a == data[Dir]
             b == Rest(f)
  <2>1. a \in Seq(Byte) /\ b \in Seq(Byte)
    BY <1>3, <1>6
  <2>2. a \o b \in Seq(Byte) /\ Len(a \o b) = Len(a) + Len(b)
    <3> HIDE DEF a, b
    <3> QED BY <2>1, ConcatProperties
  <2>3. data'[Dir] = a \o b
    BY <1>1, <1>4
  <2> QED BY <1>3, <1>4, <1>5, <2>2, <2>3
<1>9. BytesIn(data', FinalEntry(f)) = Rest(f)
  <2> DEFINE e == FinalEntry(f)
             b == Rest(f)
             w == Dir
  <2>1. /\ b \in Seq(Byte) /\ w \in Volumes /\ Appended(data, w, b, data')
        /\ data \in [Volumes -> Seq(Byte) \cup {None}] /\ data[w] \in Seq(Byte)
        /\ e.length = Len(b) /\ (e.length > 0 => e.archive = w /\ e.offset = Len(data[w]))
    BY <1>1, <1>3, <1>4, <1>5, <1>6 DEF Appended
  <2>2. BytesIn(data', e) = b
    <3> HIDE DEF e, b, w
    <3> QED BY <2>1, BytesAppended
  <2> QED BY <2>2
<1>10. FinalEntry(f)' = FinalEntry(f)
  BY <1>1, <1>4 DEF Frame, FinalEntry, TreeEntry, EntryLength, PreloadBytes
<1>11. StoredData(FinalEntry(f))' = Rest(f)
  BY <1>9, <1>10, StoredIs
<1>12. ASSUME f \notin touched
       PROVE  file[f].crc = src[f] /\ file[f].preload \o Rest(f) = src[f]
  BY <1>1, <1>12, Untouched DEF Hashed
<1>13. Good(f)'
  BY <1>1, <1>4, <1>6, <1>11, <1>12 DEF Good
<1> QED BY <1>2, <1>3, <1>4, <1>7, <1>8, <1>13

\* A file that is all preload.
LEMMA InlineAt ==
  ASSUME Writes, mode = "multi", NEW f \in Files, NEW rest, Lead(todo, "inline", f, rest),
         EntryLength(f) = 0
  PROVE  /\ todo' = rest /\ UNCHANGED <<data, writing, tree, md5>>
         /\ Good(f)' /\ \A g \in Files \ {f} : Good(g) => Good(g)'
<1>1. /\ Operation /\ TypeOK /\ Plan /\ Collected /\ stage = "writing" /\ Frame
      /\ UNCHANGED <<src, touched, mode>>
  BY FrameHere
<1>2. InlineFile /\ Arg = f /\ todo' = rest
  BY <1>1, OperationIs
<1> DEFINE b == SubSeq(src[f], 1, PreloadBytes(f))
<1>3. /\ file' = [file EXCEPT ![f] = [crc |-> b, preload |-> b]]
      /\ UNCHANGED <<data, writing, tree, md5>> /\ Len(src[f]) >= PreloadBytes(f)
      /\ file \in [Files -> [crc : Seq(Byte), preload : Seq(Byte)]]
  BY <1>1, <1>2 DEF InlineFile, diskVars, TypeOK
<1>4. ASSUME NEW g \in Files \ {f}, Good(g)
      PROVE  Good(g)'
  <2>1. file'[g] = file[g]
    BY <1>3
  <2> QED BY <1>1, <1>3, <1>4, <2>1, GoodStays
<1>5. b \in Seq(Byte)
  <2>1. PreloadBytes(f) \in Nat
    BY <1>1, PlaceFacts
  <2> QED BY <1>1, <1>3, <2>1, RestFacts
<1>6. f \notin touched => b = src[f]
  BY <1>1, Untouched
<1>7. file'[f].crc = b /\ file'[f].preload = b
  BY <1>3
<1>8. StoredData(FinalEntry(f))' = <<>>
  <2>1. FinalEntry(f)'.length = FinalEntry(f).length
    BY <1>1 DEF Frame, FinalEntry, TreeEntry, EntryLength, PreloadBytes
  <2>2. FinalEntry(f).length = 0
    BY <1>1, PlaceFacts
  <2> QED BY <2>1, <2>2 DEF StoredData
<1>9. b \o <<>> = b /\ <<>> \in Seq(Byte)
  BY <1>5, ConcatEmptySeq
<1>10. Good(f)'
  <2> HIDE DEF b
  <2> QED BY <1>1, <1>6, <1>7, <1>8, <1>9 DEF Good
<1> QED BY <1>2, <1>3, <1>4, <1>10

LEMMA TreeEntryType ==
  ASSUME TypeOK, Plan, NEW f \in Files, NEW crc \in Seq(Byte), NEW preload \in Seq(Byte)
  PROVE  TreeEntry(f, crc, preload) \in Entry
<1>1. placed[f].archive \in Nat /\ placed[f].offset \in Nat
  BY DEF Plan
<1>2. EntryLength(f) \in Nat /\ (EntryLength(f) > 0 => placed[f].archive \in Volumes)
  BY PlaceFacts DEF IsPlace
<1> QED BY <1>1, <1>2 DEF TreeEntry, Entry

LEMMA FinalEntryType ==
  ASSUME TypeOK, Plan, NEW f \in Files
  PROVE  FinalEntry(f) \in Entry
  BY TreeEntryType DEF FinalEntry, TypeOK

LEMMA PlaceholderAt ==
  ASSUME Writes, NEW a, NEW rest, Lead(todo, "placeholder", a, rest)
  PROVE  /\ todo' = rest /\ UNCHANGED <<data, writing, md5, file>>
         /\ tree' \in [Files -> Entry]
<1>1. Operation /\ TypeOK /\ Plan
  BY FrameHere
<1>2. WritePlaceholder /\ todo' = rest
  BY <1>1, OperationIs
<1>3. ASSUME NEW f \in Files
      PROVE  TreeEntry(f, <<>>, [i \in 1 .. PreloadBytes(f) |-> 0]) \in Entry
  <2>1. PreloadBytes(f) \in Nat /\ 0 \in Byte
    BY <1>1, PlaceFacts DEF Byte
  <2>2. [i \in 1 .. PreloadBytes(f) |-> 0] \in Seq(Byte)
    BY <2>1
  <2>3. <<>> \in Seq(Byte)
    BY EmptySeq
  <2> QED BY <1>1, <2>2, <2>3, TreeEntryType
<1>4. PlaceholderTree \in [Files -> Entry]
  BY <1>3 DEF PlaceholderTree
<1> QED BY <1>2, <1>4 DEF WritePlaceholder

LEMMA FinalizeAt ==
  ASSUME Writes, NEW f \in Files, NEW rest, Lead(todo, "finalize", f, rest)
  PROVE  /\ todo' = rest /\ UNCHANGED <<data, writing, md5, file>>
         /\ tree' = [tree EXCEPT ![f] = FinalEntry(f)] /\ FinalEntry(f) \in Entry
         /\ \A g \in Files : FinalEntry(g)' = FinalEntry(g) /\ (Good(g) => Good(g)')
<1>1. Operation /\ TypeOK /\ Plan /\ Frame /\ UNCHANGED <<src, touched>>
  BY FrameHere
<1>2. FinalizeEntry /\ todo' = rest /\ Arg = f
  BY <1>1, OperationIs
<1>3. UNCHANGED <<data, writing, md5, file>> /\ tree' = [tree EXCEPT ![f] = FinalEntry(f)]
  BY <1>2 DEF FinalizeEntry
<1>4. ASSUME NEW g \in Files
      PROVE  FinalEntry(g)' = FinalEntry(g) /\ (Good(g) => Good(g)')
  <2>1. FinalEntry(g)' = FinalEntry(g)
    BY <1>1, <1>3 DEF Frame, FinalEntry, TreeEntry, EntryLength, PreloadBytes
  <2>2. Good(g) => Good(g)'
    BY <1>1, <1>3, GoodUntouchedDisk
  <2> QED BY <2>1, <2>2
<1> QED BY <1>1, <1>2, <1>3, <1>4, FinalEntryType

\* The directory goes over what the file held.
LEMMA CommitAt ==
  ASSUME Writes, NEW a, NEW rest, Lead(todo, "commit", a, rest)
  PROVE  /\ todo' = rest /\ UNCHANGED <<data, writing, file>>
         /\ tree' = FinalTree /\ tree' = FinalTree' /\ md5' = Md5Sections'
         /\ \A g \in Files : FinalEntry(g)' = FinalEntry(g) /\ (Good(g) => Good(g)')
<1>1. Operation /\ TypeOK /\ Plan /\ Frame /\ UNCHANGED <<src, touched>>
  BY FrameHere
<1>2. CommitDirectory /\ todo' = rest
  BY <1>1, OperationIs
<1>3. UNCHANGED <<data, writing, file>> /\ tree' = FinalTree /\ md5' = Md5Sections
  BY <1>2 DEF CommitDirectory
<1>4. ASSUME NEW g \in Files
      PROVE  FinalEntry(g)' = FinalEntry(g) /\ (Good(g) => Good(g)')
  <2>1. FinalEntry(g)' = FinalEntry(g)
    BY <1>1, <1>3 DEF Frame, FinalEntry, TreeEntry, EntryLength, PreloadBytes
  <2>2. Good(g) => Good(g)'
    BY <1>1, <1>3, GoodUntouchedDisk
  <2> QED BY <2>1, <2>2
<1>5. FinalTree' = FinalTree
  BY <1>4 DEF FinalTree
<1>6. Md5Sections' = Md5Sections
  BY <1>1, <1>3, <1>5 DEF Md5Sections, Frame
<1> QED BY <1>2, <1>3, <1>4, <1>5, <1>6

-----------------------------------------------------------------------------
(* One file. *)

LEMMA FilledFacts ==
  /\ \A fs : Filled(fs, 1) = 0
  /\ \A f \in Files : Filled(InOrder, f + 1) = placed[f].offset + placed[f].length
  /\ \A fs \in Seq(Nat) : \A k \in 1 .. Len(fs) :
       Filled(fs, k + 1) = placed[fs[k]].offset + placed[fs[k]].length
<1>1. \A fs : Filled(fs, 1) = 0
  BY DEF Filled
<1>2. ASSUME NEW fs \in Seq(Nat), NEW k \in 1 .. Len(fs)
      PROVE  Filled(fs, k + 1) = placed[fs[k]].offset + placed[fs[k]].length
  <2>1. k + 1 # 1 /\ k + 1 - 1 = k
    OBVIOUS
  <2> QED BY <2>1 DEF Filled
<1>3. ASSUME NEW f \in Files
      PROVE  Filled(InOrder, f + 1) = placed[f].offset + placed[f].length
  <2>1. f \in 1 .. Len(InOrder) /\ InOrder \in Seq(Nat) /\ InOrder[f] = f
    BY ConstantTodo DEF Files
  <2> QED BY <1>2, <2>1
<1> QED BY <1>1, <1>2, <1>3

LEMMA Indices ==
  ASSUME NEW k \in 1 .. NumFiles + 1
  PROVE  /\ k = NumFiles + 1 \/ (k \in Files /\ k + 1 \in 1 .. NumFiles + 1)
         /\ k # NumFiles + 1 => k <= NumFiles
         /\ k \in Nat /\ 1 .. NumFiles + 1 - 1 = Files
         /\ 1 .. k + 1 - 1 = (1 .. k - 1) \cup {k}
  BY NumberFacts DEF Files

\* ReadTodoFacts for a place in a list, with or without its preload read.
LEMMA TodoAt ==
  ASSUME NEW op \in Operations, NEW fs \in Seq(Nat), NEW k \in 1 .. Len(fs),
         NEW rest \in Seq(Items), NEW half \in BOOLEAN
  PROVE  /\ (half \/ ~ (PreloadBytes(fs[k]) > 0)) =>
              Lead(ReadTodo(op, fs, k, half, rest), op, fs[k], ReadTodo(op, fs, k + 1, FALSE, rest))
         /\ (~half /\ PreloadBytes(fs[k]) > 0) =>
              Lead(ReadTodo(op, fs, k, half, rest), "preload", fs[k], ReadTodo(op, fs, k, TRUE, rest))
<1>1. k \in 1 .. Len(fs) + 1 /\ k <= Len(fs)
  OBVIOUS
<1>2. CASE half = TRUE
  BY <1>1, <1>2, ReadTodoFacts
<1>3. CASE half = FALSE
  BY <1>1, <1>3, ReadTodoFacts
<1> QED BY <1>2, <1>3

LEMMA InOrderTodo ==
  ASSUME NEW op \in Operations, NEW k \in Files, NEW rest \in Seq(Items), NEW half \in BOOLEAN
  PROVE  /\ (half \/ ~ (PreloadBytes(k) > 0)) =>
              Lead(ReadTodo(op, InOrder, k, half, rest), op, k, ReadTodo(op, InOrder, k + 1, FALSE, rest))
         /\ (~half /\ PreloadBytes(k) > 0) =>
              Lead(ReadTodo(op, InOrder, k, half, rest), "preload", k, ReadTodo(op, InOrder, k, TRUE, rest))
<1>1. InOrder \in Seq(Nat) /\ k \in 1 .. Len(InOrder) /\ InOrder[k] = k
  BY ConstantTodo DEF Files
<1>2. CASE half = TRUE
  BY <1>1, <1>2, TodoAt
<1>3. CASE half = FALSE
  BY <1>1, <1>3, TodoAt
<1> QED BY <1>2, <1>3

LEMMA SingleDataStep ==
  ASSUME Writes, mode = "single", NEW k \in Files, NEW half \in BOOLEAN, SingleData(k, half)
  PROVE  \E j \in 1 .. NumFiles + 1 : \E h \in BOOLEAN : SingleData(j, h)'
<1>1. /\ Operation /\ TypeOK /\ Plan /\ Collected /\ stage = "writing" /\ Frame
      /\ UNCHANGED <<src, touched, mode, placed>>
  BY FrameHere
<1>2. /\ todo = ReadTodo("data", InOrder, k, half, FinalItems)
      /\ Holds(Dir, Filled(InOrder, k)) /\ tree \in [Files -> Entry] /\ md5 = None
      /\ AllGood(1 .. k - 1)
      /\ half => PreloadBytes(k) > 0 /\ Ready(k)
  BY DEF SingleData
<1>3. /\ InOrder \in Seq(Nat) /\ Len(InOrder) = NumFiles /\ InOrder[k] = k
      /\ FinalItems \in Seq(Items) /\ k \in Nat /\ k <= Len(InOrder) /\ k \in 1 .. Len(InOrder) + 1
      /\ "data" \in Operations /\ k \in 1 .. NumFiles + 1 /\ k + 1 \in 1 .. NumFiles + 1
  BY ConstantTodo, NumberFacts DEF Operations
<1>4. placed[k].offset = Filled(InOrder, k) /\ placed[k].archive = Dir /\ Dir \in Volumes
  BY <1>1, NumberFacts DEF Plan
<1>5. \A f : f \in 1 .. k - 1 => f \in Files \ {k}
  BY NumberFacts DEF Files
<1>6. \A fs, j, h, rest : ReadTodo("data", fs, j, h, rest)' = ReadTodo("data", fs, j, h, rest)
  BY <1>1, FrameFacts
<1>7. CASE half \/ ~ (PreloadBytes(k) > 0)
  <2>1. Lead(todo, "data", k, ReadTodo("data", InOrder, k + 1, FALSE, FinalItems))
    BY <1>2, <1>3, <1>7, InOrderTodo
  <2>2. Ready(k)
    BY <1>1, <1>2, <1>7, ReadyFacts
  <2>3. Holds(Dir, placed[k].offset) /\ mode # "singleMd5"
    BY <1>2, <1>4
  <2>4. /\ todo' = ReadTodo("data", InOrder, k + 1, FALSE, FinalItems) /\ writing' = Dir
        /\ UNCHANGED <<tree, md5>> /\ data'[Dir] \in Seq(Byte)
        /\ Len(data'[Dir]) = placed[k].offset + placed[k].length
        /\ Good(k)' /\ \A g \in Files \ {k} : Good(g) => Good(g)'
    BY <1>4, <2>1, <2>2, <2>3, DataAt
  <2>5. AllGood(1 .. k)'
    <3>1. \A g \in 1 .. k : g = k \/ g \in 1 .. k - 1
      BY <1>3
    <3> QED BY <1>2, <1>5, <2>4, <3>1 DEF AllGood
  <2>6. (k + 1) - 1 = k
    BY <1>3
  <2>7. Filled(InOrder, k + 1)' = placed[k].offset + placed[k].length
    BY <1>1, FrameFacts, FilledFacts
  <2>8. SingleData(k + 1, FALSE)'
    BY <1>2, <1>6, <2>4, <2>5, <2>6, <2>7 DEF SingleData, Holds
  <2> QED BY <1>3, <2>8
<1>8. CASE ~half /\ PreloadBytes(k) > 0
  <2>1. Lead(todo, "preload", k, ReadTodo("data", InOrder, k, TRUE, FinalItems))
    BY <1>2, <1>3, <1>8, InOrderTodo
  <2>2. /\ todo' = ReadTodo("data", InOrder, k, TRUE, FinalItems)
        /\ UNCHANGED <<data, writing, tree, md5>>
        /\ Ready(k)' /\ \A g \in Files \ {k} : Good(g) => Good(g)'
    BY <2>1, PreloadAt
  <2>3. AllGood(1 .. k - 1)'
    BY <1>2, <1>5, <2>2 DEF AllGood
  <2>4. Filled(InOrder, k)' = Filled(InOrder, k) /\ PreloadBytes(k)' = PreloadBytes(k)
    BY <1>1, FrameFacts
  <2>5. SingleData(k, TRUE)'
    BY <1>2, <1>3, <1>6, <1>8, <2>2, <2>3, <2>4 DEF SingleData, Holds
  <2> QED BY <1>3, <2>5
<1> QED BY <1>7, <1>8

LEMMA SingleFinalStep ==
  ASSUME Writes, mode = "single", NEW k \in 1 .. NumFiles + 1, SingleFinal(k)
  PROVE  k + 1 \in 1 .. NumFiles + 1 /\ SingleFinal(k + 1)'
<1>1. Operation /\ UNCHANGED placed /\ todo # <<>>
  BY FrameHere, OperationFacts
<1>2. k \in Files /\ k + 1 \in 1 .. NumFiles + 1
  <2>1. k # NumFiles + 1
    BY <1>1, ConstantTodo DEF SingleFinal
  <2> QED BY <2>1, Indices
<1>3. Lead(todo, "finalize", k, SubSeq(FinalItems, k + 1, NumFiles))
  BY <1>2, ConstantTodo DEF SingleFinal
<1>4. /\ todo' = SubSeq(FinalItems, k + 1, NumFiles) /\ UNCHANGED <<data, writing, md5, file>>
      /\ tree' = [tree EXCEPT ![k] = FinalEntry(k)] /\ FinalEntry(k) \in Entry
      /\ \A g \in Files : FinalEntry(g)' = FinalEntry(g) /\ (Good(g) => Good(g)')
  BY <1>2, <1>3, FinalizeAt
<1>5. tree \in [Files -> Entry] /\ \A f \in 1 .. k - 1 : tree[f] = FinalEntry(f)
  BY DEF SingleFinal
<1>6. tree' \in [Files -> Entry]
  BY <1>4, <1>5
<1>7. ASSUME NEW f \in 1 .. (k + 1) - 1
      PROVE  tree'[f] = FinalEntry(f)'
  <2>1. f \in Files /\ (f = k \/ f \in 1 .. k - 1)
    BY <1>2, NumberFacts DEF Files
  <2>2. tree'[f] = FinalEntry(f)
    BY <1>2, <1>4, <1>5, <2>1
  <2> QED BY <1>4, <2>1, <2>2
<1> QED BY <1>2, <1>4, <1>6, <1>7 DEF SingleFinal, AllGood

LEMMA DataDone ==
  ASSUME NEW k \in 1 .. NumFiles + 1, k = NumFiles + 1, NEW half \in BOOLEAN, SingleData(k, half)
  PROVE  SingleFinal(1)
<1>1. half = FALSE
  BY NumberFacts DEF SingleData
<1>2. ReadTodo("data", InOrder, k, FALSE, FinalItems) = FinalItems
  <2> PICK fs, end : fs = InOrder /\ end = FinalItems
    OBVIOUS
  <2>1. /\ "data" \in Operations /\ FALSE \in BOOLEAN /\ fs \in Seq(Nat) /\ end \in Seq(Items)
        /\ k = Len(fs) + 1 /\ k \in 1 .. Len(fs) + 1
    BY ConstantTodo DEF Operations
  <2>2. ReadTodo("data", fs, k, FALSE, end) = end
    <3>1. \A rest \in Seq(Items) : ReadTodo("data", fs, k, FALSE, rest) = rest
      BY <2>1, ReadTodoEnd, Zenon
    <3> QED BY <2>1, <3>1, Zenon
  <2> QED BY <2>2
<1>3. 1 .. k - 1 = Files
  <2>1. k - 1 = NumFiles
    BY NumberFacts
  <2> QED BY <2>1 DEF Files
<1>4. /\ todo = FinalItems /\ writing = Dir /\ tree \in [Files -> Entry] /\ md5 = None
      /\ AllGood(Files)
  <2>1. todo = ReadTodo("data", InOrder, k, half, FinalItems)
    BY DEF SingleData
  <2>2. todo = FinalItems
    BY <1>1, <1>2, <2>1
  <2> QED BY <1>3, <2>2 DEF SingleData, Holds
<1>5. \A f : f \notin 1 .. 1 - 1
  OBVIOUS
<1> QED BY <1>4, <1>5, ConstantTodo DEF SingleFinal

LEMMA SingleStep ==
  ASSUME Writes, mode = "single", AtSingle
  PROVE  AtSingle'
<1>1. /\ Operation /\ TypeOK /\ Plan /\ Frame /\ Dir \in Volumes
      /\ 1 \in 1 .. NumFiles + 1 /\ FALSE \in BOOLEAN
  BY FrameHere, NumberFacts
<1>2. \A fs, j, h, rest : ReadTodo("data", fs, j, h, rest)' = ReadTodo("data", fs, j, h, rest)
  BY <1>1, FrameFacts
<1>3. CASE SingleStart
  <2>1. Lead(todo, "create", Dir,
             <<Item("placeholder", Dir)>> \o ReadTodo("data", InOrder, 1, FALSE, FinalItems))
    BY <1>3, SingleProgramFacts DEF SingleStart
  <2>2. /\ todo' = <<Item("placeholder", Dir)>> \o ReadTodo("data", InOrder, 1, FALSE, FinalItems)
        /\ writing' = Dir /\ data'[Dir] \in Seq(Byte) /\ Len(data'[Dir]) = 0 /\ md5' = None
    BY <1>1, <2>1, CreateAt
  <2>3. SingleHolder'
    BY <1>2, <2>2 DEF SingleHolder, Holds
  <2> QED BY <2>3 DEF AtSingle
<1>4. CASE SingleHolder
  <2>1. Lead(todo, "placeholder", Dir, ReadTodo("data", InOrder, 1, FALSE, FinalItems))
    BY <1>4, SingleProgramFacts DEF SingleHolder
  <2>2. /\ todo' = ReadTodo("data", InOrder, 1, FALSE, FinalItems)
        /\ UNCHANGED <<data, writing, md5, file>> /\ tree' \in [Files -> Entry]
    BY <2>1, PlaceholderAt
  <2>3. Filled(InOrder, 1)' = 0
    BY <1>1, FrameFacts, FilledFacts
  <2>4. AllGood(1 .. 1 - 1)'
    BY DEF AllGood
  <2>5. SingleData(1, FALSE)'
    BY <1>2, <1>4, <2>2, <2>3, <2>4 DEF SingleData, SingleHolder, Holds
  <2> QED BY <1>1, <2>5 DEF AtSingle
<1>5. ASSUME NEW k \in 1 .. NumFiles + 1, NEW half \in BOOLEAN, SingleData(k, half)
      PROVE  AtSingle'
  <2>1. CASE k = NumFiles + 1
    <3>1. SingleFinal(1)
      BY <1>5, <2>1, DataDone
    <3> QED BY <1>1, <3>1, SingleFinalStep DEF AtSingle
  <2>2. CASE k # NumFiles + 1
    <3>1. k \in Files
      BY <2>2, Indices
    <3> QED BY <1>5, <3>1, SingleDataStep DEF AtSingle
  <2> QED BY <2>1, <2>2
<1>6. ASSUME NEW k \in 1 .. NumFiles + 1, SingleFinal(k)
      PROVE  AtSingle'
  BY <1>6, SingleFinalStep DEF AtSingle
<1> QED BY <1>3, <1>4, <1>5, <1>6 DEF AtSingle

-----------------------------------------------------------------------------
(* One file with MD5 sections. *)

LEMMA LastMember ==
  ASSUME NEW n \in Nat, NEW T, T \subseteq 1 .. n, T # {}
  PROVE  \E m \in T : m = n \/ m + 1 \notin T
<1> DEFINE D == {d \in Nat : \E m \in T : d = n - m}
<1>1. D # {} /\ D \subseteq Nat
  <2>1. PICK m \in T : TRUE
    OBVIOUS
  <2>2. n - m \in Nat
    BY <2>1
  <2> QED BY <2>1, <2>2
<1>2. PICK d \in D : \A k \in D : d <= k
  <2> HIDE DEF D
  <2> QED BY <1>1, Least
<1>3. PICK m \in T : d = n - m
  BY <1>2
<1>4. ASSUME m + 1 \in T
      PROVE  FALSE
  <2>1. m \in 1 .. n /\ m + 1 \in 1 .. n
    BY <1>3, <1>4
  <2>2. n - (m + 1) \in Nat /\ n - (m + 1) = d - 1 /\ d \in Nat
    BY <1>3, <2>1
  <2>3. d - 1 \in D
    BY <1>4, <2>2
  <2>4. d <= d - 1
    BY <1>2, <2>3
  <2> QED BY <2>2, <2>4
<1> QED BY <1>3, <1>4

LEMMA Md5HashStep ==
  ASSUME Writes, mode = "singleMd5", NEW k \in Files, NEW half \in BOOLEAN, Md5Hash(k, half)
  PROVE  \E j \in 1 .. NumFiles + 1 : \E h \in BOOLEAN : Md5Hash(j, h)'
<1> DEFINE end == Create \o (CopyEach \o Commit)
<1>1. /\ Operation /\ TypeOK /\ Plan /\ Collected /\ stage = "writing" /\ Frame
      /\ UNCHANGED <<src, touched, mode, placed>>
  BY FrameHere
<1>2. /\ todo = ReadTodo("hash", InOrder, k, half, end)
      /\ \A f \in 1 .. k - 1 : Hashed(f)
      /\ half => PreloadBytes(k) > 0 /\ Ready(k)
  BY DEF Md5Hash
<1>3. /\ end \in Seq(Items) /\ k \in Nat /\ k <= NumFiles
      /\ "hash" \in Operations /\ k \in 1 .. NumFiles + 1 /\ k + 1 \in 1 .. NumFiles + 1
  BY SingleProgramFacts, NumberFacts DEF Operations
<1>4. \A f : f \in 1 .. k - 1 => f \in Files \ {k}
  BY NumberFacts DEF Files
<1>5. \A j, h : ReadTodo("hash", InOrder, j, h, end)' = ReadTodo("hash", InOrder, j, h, end)
      /\ end' = end
  BY <1>1, FrameFacts
<1> HIDE DEF end
<1>6. ASSUME \A g \in Files \ {k} : file'[g] = file[g]
      PROVE  \A f \in 1 .. k - 1 : Hashed(f)'
  BY <1>1, <1>2, <1>4, <1>6, HashedStays
<1>7. CASE half \/ ~ (PreloadBytes(k) > 0)
  <2>1. Lead(todo, "hash", k, ReadTodo("hash", InOrder, k + 1, FALSE, end))
    BY <1>2, <1>3, <1>7, InOrderTodo
  <2>2. Ready(k)
    BY <1>1, <1>2, <1>7, ReadyFacts
  <2>3. /\ todo' = ReadTodo("hash", InOrder, k + 1, FALSE, end) /\ Hashed(k)'
        /\ \A g \in Files \ {k} : file'[g] = file[g]
    BY <2>1, <2>2, HashAt
  <2>4. \A f \in 1 .. (k + 1) - 1 : Hashed(f)'
    <3>1. \A f \in 1 .. (k + 1) - 1 : f = k \/ f \in 1 .. k - 1
      BY <1>3
    <3> QED BY <1>6, <2>3, <3>1
  <2>5. Md5Hash(k + 1, FALSE)'
    BY <1>5, <2>3, <2>4 DEF Md5Hash, end
  <2> QED BY <1>3, <2>5
<1>8. CASE ~half /\ PreloadBytes(k) > 0
  <2>1. Lead(todo, "preload", k, ReadTodo("hash", InOrder, k, TRUE, end))
    BY <1>2, <1>3, <1>8, InOrderTodo
  <2>2. /\ todo' = ReadTodo("hash", InOrder, k, TRUE, end)
        /\ Ready(k)' /\ \A g \in Files \ {k} : file'[g] = file[g]
    BY <2>1, PreloadAt
  <2>3. PreloadBytes(k)' = PreloadBytes(k)
    BY <1>1, FrameFacts
  <2>4. Md5Hash(k, TRUE)'
    BY <1>3, <1>5, <1>6, <1>8, <2>2, <2>3 DEF Md5Hash, end
  <2> QED BY <1>3, <2>4
<1> QED BY <1>7, <1>8

\* A file without data of its own is passed over.
LEMMA CopySkip ==
  ASSUME TypeOK, Plan, Collected, stage = "writing", mode = "singleMd5",
         NEW k \in Files, Md5Copy(k), ~ (EntryLength(k) > 0)
  PROVE  Md5Copy(k + 1)
<1>1. EntryLength(k) = 0 /\ placed[k].length = 0 /\ placed[k].offset \in Nat
      /\ placed[k].offset = Filled(InOrder, k)
  <2>1. EntryLength(k) \in Nat
    BY PlaceFacts
  <2> QED BY <2>1 DEF Plan
<1>2. Filled(InOrder, k + 1) = Filled(InOrder, k)
  BY <1>1, FilledFacts
<1>3. RestOf(CopyPieces, k) = RestOf(CopyPieces, k + 1)
  <2>1. k \in 1 .. Len(CopyPieces) /\ k \in 1 .. Len(CopyPieces) + 1 /\ k + 1 \in 1 .. Len(CopyPieces) + 1
    BY CopyFacts, NumberFacts DEF Files
  <2>2. RestOf(CopyPieces, k) = CopyPieces[k] \o RestOf(CopyPieces, k + 1)
        /\ RestOf(CopyPieces, k + 1) \in Seq(Items)
    <3>1. CopyPieces \in Pieces(Items) /\ k <= Len(CopyPieces)
      BY <2>1, CopyFacts, NumberFacts
    <3> QED BY <2>1, <3>1, RestOfFacts
  <2>3. CopyPieces[k] = <<>>
    BY CopyFacts
  <2> DEFINE r == RestOf(CopyPieces, k + 1)
  <2>4. <<>> \o r = r
    <3>1. r \in Seq(Items)
      BY <2>2
    <3> HIDE DEF r
    <3> QED BY <3>1, ConcatEmptySeq
  <2> QED BY <2>2, <2>3, <2>4
<1>4. Good(k)
  BY <1>1, EmptyGood DEF Md5Copy
<1>5. \A f \in 1 .. (k + 1) - 1 : f = k \/ f \in 1 .. k - 1
  BY NumberFacts
<1> QED BY <1>2, <1>3, <1>4, <1>5 DEF Md5Copy, AllGood, Holds

LEMMA CopyNext ==
  ASSUME TypeOK, Plan, Collected, stage = "writing", mode = "singleMd5",
         NEW k \in 1 .. NumFiles + 1, Md5Copy(k)
  PROVE  \E m \in 1 .. NumFiles + 1 : Md5Copy(m) /\ (m = NumFiles + 1 \/ EntryLength(m) > 0)
<1> DEFINE T == {m \in 1 .. NumFiles + 1 : Md5Copy(m)}
<1>1. NumFiles + 1 \in Nat /\ T \subseteq 1 .. NumFiles + 1 /\ T # {}
  BY NumberFacts
<1>2. PICK m \in T : m = NumFiles + 1 \/ m + 1 \notin T
  <2> HIDE DEF T
  <2> QED BY <1>1, LastMember
<1>3. ASSUME m # NumFiles + 1, ~ (EntryLength(m) > 0)
      PROVE  FALSE
  <2>1. m \in Files /\ m + 1 \in 1 .. NumFiles + 1 /\ m + 1 \notin T
    BY <1>2, <1>3, Indices
  <2>2. Md5Copy(m + 1)
    BY <1>2, <1>3, <2>1, CopySkip
  <2> QED BY <2>1, <2>2
<1> QED BY <1>2, <1>3

LEMMA Md5CopyStep ==
  ASSUME Writes, mode = "singleMd5", NEW k \in 1 .. NumFiles + 1, Md5Copy(k),
         k = NumFiles + 1 \/ EntryLength(k) > 0
  PROVE  (\E j \in 1 .. NumFiles + 1 : Md5Copy(j)') \/ Committed'
<1>1. /\ Operation /\ TypeOK /\ Plan /\ Collected /\ stage = "writing" /\ Frame
      /\ UNCHANGED <<src, touched, mode, placed>>
  BY FrameHere
<1>2. /\ todo = RestOf(CopyPieces, k) \o Commit /\ Holds(Dir, Filled(InOrder, k))
      /\ (\A f \in Files : Hashed(f)) /\ AllGood(1 .. k - 1)
  BY DEF Md5Copy
<1>3. CopyPieces' = CopyPieces
  BY <1>1, FrameFacts
<1>4. Commit \in Seq(Items) /\ CopyPieces \in Pieces(Items) /\ Len(CopyPieces) = NumFiles
  BY ConstantTodo, CopyFacts
<1>5. CASE k = NumFiles + 1
  <2>1. RestOf(CopyPieces, k) = <<>>
    BY <1>4, <1>5, RestOfFacts
  <2>2. todo = Commit
    <3> DEFINE c == Commit
    <3>1. c \in Seq(Items)
      BY <1>4
    <3>2. <<>> \o c = c
      <4> HIDE DEF c
      <4> QED BY <3>1, ConcatEmptySeq
    <3> QED BY <1>2, <2>1, <3>2
  <2>3. Lead(todo, "commit", Dir, <<>>)
    BY <2>2 DEF Lead, Commit
  <2>4. /\ todo' = <<>> /\ UNCHANGED <<data, writing, file>>
        /\ tree' = FinalTree' /\ md5' = Md5Sections'
        /\ \A g \in Files : Good(g) => Good(g)'
    BY <2>3, CommitAt
  <2>5. AllGood(Files)'
    <3>1. \A g \in Files : g \in 1 .. k - 1
      BY <1>5, NumberFacts DEF Files
    <3> QED BY <1>2, <2>4, <3>1 DEF AllGood
  <2> QED BY <1>2, <2>4, <2>5 DEF Committed, Holds
<1>6. CASE k # NumFiles + 1
  <2>1. k \in Files /\ k \in Nat /\ k + 1 \in 1 .. NumFiles + 1 /\ EntryLength(k) > 0
    BY <1>6, Indices
  <2>2. Lead(todo, "copy", k, RestOf(CopyPieces, k + 1) \o Commit)
    <3>1. /\ k \in 1 .. Len(CopyPieces) /\ CopyPieces[k] = <<Item("copy", k)>>
          /\ "copy" \in Operations
      BY <1>4, <2>1, CopyFacts DEF Files, Operations
    <3> QED BY <1>2, <1>4, <2>1, <3>1, RestLead
  <2>3. Holds(Dir, placed[k].offset) /\ Hashed(k)
    BY <1>1, <1>2, <2>1 DEF Plan
  <2>4. /\ todo' = RestOf(CopyPieces, k + 1) \o Commit /\ writing' = Dir /\ file' = file
        /\ data'[Dir] \in Seq(Byte) /\ Len(data'[Dir]) = placed[k].offset + placed[k].length
        /\ Good(k)' /\ \A g \in Files : Good(g) => Good(g)'
    BY <2>1, <2>2, <2>3, CopyAt
  <2>5. \A f \in Files : Hashed(f)'
    BY <1>1, <1>2, <2>4, HashedStays
  <2>6. AllGood(1 .. (k + 1) - 1)'
    <3>1. \A f \in 1 .. (k + 1) - 1 : f \in Files /\ (f = k \/ f \in 1 .. k - 1)
      BY <2>1, NumberFacts DEF Files
    <3> QED BY <1>2, <2>4, <3>1 DEF AllGood
  <2>7. Filled(InOrder, k + 1)' = placed[k].offset + placed[k].length
    BY <1>1, <2>1, FrameFacts, FilledFacts
  <2>8. Md5Copy(k + 1)'
    BY <1>3, <2>4, <2>5, <2>6, <2>7 DEF Md5Copy, Holds
  <2> QED BY <2>1, <2>8
<1> QED BY <1>5, <1>6

LEMMA SingleMd5Step ==
  ASSUME Writes, mode = "singleMd5", AtSingleMd5
  PROVE  AtSingleMd5'
<1>1. /\ Operation /\ TypeOK /\ Plan /\ Collected /\ stage = "writing" /\ Frame
      /\ UNCHANGED <<src, touched, mode>>
      /\ Dir \in Volumes /\ 1 \in 1 .. NumFiles + 1 /\ todo # <<>>
  BY FrameHere, NumberFacts, OperationFacts
<1>2. CASE Committed
  BY <1>1, <1>2 DEF Committed
<1>3. ASSUME NEW k \in 1 .. NumFiles + 1, Md5Copy(k)
      PROVE  AtSingleMd5'
  <2>1. PICK m \in 1 .. NumFiles + 1 : Md5Copy(m) /\ (m = NumFiles + 1 \/ EntryLength(m) > 0)
    BY <1>1, <1>3, CopyNext
  <2>2. (\E j \in 1 .. NumFiles + 1 : Md5Copy(j)') \/ Committed'
    BY <2>1, Md5CopyStep
  <2> QED BY <2>2 DEF AtSingleMd5
<1>4. ASSUME NEW k \in 1 .. NumFiles + 1, NEW half \in BOOLEAN, Md5Hash(k, half)
      PROVE  AtSingleMd5'
  <2>1. CASE k = NumFiles + 1
    <3> DEFINE end == Create \o (CopyEach \o Commit)
    <3>1. ~half
      BY <1>4, <2>1, NumberFacts DEF Md5Hash
    <3>2. ReadTodo("hash", InOrder, k, FALSE, end) = end
      <4>1. /\ k = Len(InOrder) + 1 /\ InOrder \in Seq(Nat)
            /\ "hash" \in Operations /\ end \in Seq(Items)
        BY <2>1, ConstantTodo, SingleProgramFacts DEF Operations
      <4> HIDE DEF end
      <4> QED BY <4>1, ReadTodoEnd, Zenon
    <3>3. todo = end
      <4>1. todo = ReadTodo("hash", InOrder, k, half, end) /\ half = FALSE
        BY <1>4, <3>1 DEF Md5Hash
      <4> QED BY <3>2, <4>1
    <3>4. Lead(todo, "create", Dir, RestOf(CopyPieces, 1) \o Commit)
      BY <3>3, SingleProgramFacts
    <3>5. /\ todo' = RestOf(CopyPieces, 1) \o Commit /\ writing' = Dir /\ file' = file
          /\ data'[Dir] \in Seq(Byte) /\ Len(data'[Dir]) = 0
      BY <1>1, <3>4, CreateAt
    <3>6. \A f \in Files : Hashed(f)'
      <4>1. \A f \in Files : f \in 1 .. k - 1
        BY <2>1, NumberFacts DEF Files
      <4>2. \A f \in Files : Hashed(f)
        BY <1>4, <4>1 DEF Md5Hash
      <4> QED BY <1>1, <3>5, <4>2, HashedStays
    <3>7. Filled(InOrder, 1)' = 0 /\ CopyPieces' = CopyPieces
      BY <1>1, FrameFacts, FilledFacts
    <3>8. AllGood(1 .. 1 - 1)'
      BY DEF AllGood
    <3>9. Md5Copy(1)'
      BY <3>5, <3>6, <3>7, <3>8 DEF Md5Copy, Holds
    <3> QED BY <1>1, <3>9 DEF AtSingleMd5
  <2>2. CASE k # NumFiles + 1
    <3>1. k \in Files
      BY <2>2, Indices
    <3> QED BY <1>4, <3>1, Md5HashStep DEF AtSingleMd5
  <2> QED BY <2>1, <2>2
<1> QED BY <1>2, <1>3, <1>4 DEF AtSingleMd5

-----------------------------------------------------------------------------
(* Numbered volumes. *)

LEMMA VolumeHere ==
  ASSUME TypeOK, Plan, NEW v \in 1 .. Len(archives)
  PROVE  /\ archives[v].index = v - 1 /\ v - 1 \in Volumes /\ v - 1 # Dir /\ v \in Nat
         /\ Len(archives) \in Nat /\ v + 1 \in 1 .. Len(archives) + 1
         /\ archives[v].files \in Seq(Nat)
         /\ \A j \in 1 .. Len(archives[v].files) :
              /\ archives[v].files[j] \in Files
              /\ placed[archives[v].files[j]].archive = v - 1
              /\ placed[archives[v].files[j]].offset = Filled(archives[v].files, j)
<1>1. Len(archives) \in Nat
  BY VolumeFacts DEF Plan
<1>2. v \in Nat /\ v + 1 \in 1 .. Len(archives) + 1 /\ v - 1 \in Nat
  BY <1>1
<1>3. archives[v].index = v - 1 /\ archives[v].index < Dir
  BY DEF Plan
<1>4. v - 1 \in Volumes /\ v - 1 # Dir
  BY <1>2, <1>3, NumberFacts DEF Volumes
<1> QED BY <1>1, <1>2, <1>3, <1>4 DEF Plan

LEMMA BelowFacts ==
  ASSUME TypeOK, Plan, NEW v \in 1 .. Len(archives)
  PROVE  /\ \A f \in FilesBelow(v) : f \in Files /\ placed[f].archive # v - 1
         /\ FilesBelow(v + 1) \subseteq FilesBelow(v)
              \cup FilesBefore(archives[v].files, Len(archives[v].files) + 1)
<1>1. /\ v \in Nat /\ Len(archives) \in Nat /\ Len(archives[v].files) \in Nat
  BY VolumeHere
<1>2. ASSUME NEW f \in FilesBelow(v)
      PROVE  f \in Files /\ placed[f].archive # v - 1
  <2>1. PICK u \in 1 .. v - 1 : \E j \in 1 .. Len(archives[u].files) : archives[u].files[j] = f
    BY <1>2 DEF FilesBelow
  <2>2. u \in 1 .. Len(archives) /\ u \in Nat /\ u # v
    BY <1>1, <2>1
  <2>3. placed[f].archive = u - 1
    BY <2>1, <2>2, VolumeHere
  <2> QED BY <1>1, <1>2, <2>2, <2>3 DEF FilesBelow
<1>3. ASSUME NEW f \in FilesBelow(v + 1), f \notin FilesBelow(v)
      PROVE  f \in FilesBefore(archives[v].files, Len(archives[v].files) + 1)
  <2>1. PICK u \in 1 .. (v + 1) - 1 :
               \E j \in 1 .. Len(archives[u].files) : archives[u].files[j] = f
    BY <1>3 DEF FilesBelow
  <2>2. u = v
    <3>1. f \in Files
      BY <1>3 DEF FilesBelow
    <3>2. u \notin 1 .. v - 1
      BY <1>3, <2>1, <3>1 DEF FilesBelow
    <3> QED BY <1>1, <2>1, <3>2
  <2>3. PICK j \in 1 .. Len(archives[v].files) : archives[v].files[j] = f
    BY <2>1, <2>2
  <2>4. j \in 1 .. (Len(archives[v].files) + 1) - 1
    BY <1>1
  <2> QED BY <1>3, <2>3, <2>4 DEF FilesBefore, FilesBelow
<1> QED BY <1>2, <1>3

LEMMA BeforeFacts ==
  ASSUME NEW fs \in Seq(Nat), NEW k \in 1 .. Len(fs)
  PROVE  /\ FilesBefore(fs, 1) = {}
         /\ FilesBefore(fs, k + 1) \subseteq FilesBefore(fs, k) \cup {fs[k]}
<1>1. FilesBefore(fs, 1) = {}
  BY DEF FilesBefore
<1>2. ASSUME NEW f \in FilesBefore(fs, k + 1), f # fs[k]
      PROVE  f \in FilesBefore(fs, k)
  <2>1. PICK j \in 1 .. (k + 1) - 1 : fs[j] = f
    BY <1>2 DEF FilesBefore
  <2>2. j \in 1 .. k - 1
    BY <1>2, <2>1
  <2> QED BY <1>2, <2>1, <2>2 DEF FilesBefore
<1> QED BY <1>1, <1>2

LEMMA Within ==
  ASSUME NEW n \in Nat, NEW k \in 1 .. n + 1, k # n + 1
  PROVE  k \in 1 .. n /\ k \in Nat /\ k <= n /\ k + 1 \in 1 .. n + 1
  OBVIOUS

LEMMA VolumeStep ==
  ASSUME Writes, mode = "multi", NEW v \in 1 .. Len(archives),
         NEW k \in 1 .. Len(archives[v].files) + 1, NEW half \in BOOLEAN, InVolume(v, k, half)
  PROVE  \/ VolumesLeft(v + 1)'
         \/ \E j \in 1 .. Len(archives[v].files) + 1 : \E h \in BOOLEAN : InVolume(v, j, h)'
<1> PICK fs : fs = archives[v].files
  OBVIOUS
<1> PICK after : after = AfterVolume(v)
  OBVIOUS
<1> PICK left : left = RestOf(VolumePieces, v + 1) \o (InlineEach \o (Create \o Commit))
  OBVIOUS
<1> PICK D : D = FilesBelow(v) \cup FilesBefore(fs, k)
  OBVIOUS
<1> PICK w : w = v - 1
  OBVIOUS
<1>1. /\ Operation /\ TypeOK /\ Plan /\ Collected /\ stage = "writing" /\ Frame
      /\ UNCHANGED <<src, touched, mode, placed, archives>>
  BY FrameHere
<1>2. /\ archives[v].index = w /\ w \in Volumes /\ v \in Nat
      /\ fs \in Seq(Nat) /\ Len(fs) \in Nat /\ k \in 1 .. Len(fs) + 1
      /\ \A j \in 1 .. Len(fs) : /\ fs[j] \in Files /\ placed[fs[j]].archive = w
                                 /\ placed[fs[j]].offset = Filled(fs, j)
  BY <1>1, VolumeHere
<1>3. /\ todo = ReadTodo("data", fs, k, half, after)
      /\ Holds(w, Filled(fs, k))
      /\ AllGood(D \ (IF half THEN {fs[k]} ELSE {}))
      /\ half => k <= Len(fs) /\ PreloadBytes(fs[k]) > 0 /\ Ready(fs[k])
  BY <1>2 DEF InVolume
<1>4. /\ after \in Seq(Items) /\ Lead(after, "close", w, left) /\ "data" \in Operations
  BY <1>1, <1>2, VolumeFacts DEF Plan, Operations
<1>5. /\ \A fs2, j, h, rest : ReadTodo("data", fs2, j, h, rest)' = ReadTodo("data", fs2, j, h, rest)
      /\ AfterVolume(v)' = after
      /\ (RestOf(VolumePieces, v + 1) \o (InlineEach \o (Create \o Commit)))' = left
      /\ \A u : FilesBelow(u)' = FilesBelow(u)
      /\ \A f : PreloadBytes(f)' = PreloadBytes(f)
      /\ \A fs2, j : Filled(fs2, j)' = Filled(fs2, j)
  BY <1>1, FrameFacts
<1>6. (archives[v].files)' = fs /\ (archives[v].index)' = w
  BY <1>1, <1>2
<1>7. D \subseteq Files
  BY DEF FilesBelow, FilesBefore
<1>8. CASE k = Len(fs) + 1
  <2>1. half = FALSE
    BY <1>2, <1>3, <1>8
  <2>2. ReadTodo("data", fs, k, FALSE, after) = after
    <3>1. fs \in Seq(Nat) /\ after \in Seq(Items) /\ "data" \in Operations
      BY <1>2, <1>4
    <3>2. k = Len(fs) + 1
      BY <1>8
    <3> QED BY <3>1, <3>2, DataEnd
  <2>3. todo = after
    BY <1>3, <2>1, <2>2
  <2>4. CloseVolume /\ todo' = left
    BY <1>1, <1>4, <2>3, OperationIs
  <2>5. UNCHANGED <<data, file>>
    BY <2>4 DEF CloseVolume, diskVars
  <2>6. AllGood(D)
    BY <1>3, <2>1 DEF AllGood
  <2>7. FilesBelow(v + 1) \subseteq D
    BY <1>1, <1>8, BelowFacts
  <2>8. \A f \in FilesBelow(v + 1) : Good(f)'
    BY <1>1, <1>7, <2>5, <2>6, <2>7, GoodUntouchedDisk DEF AllGood
  <2>9. AllGood(FilesBelow(v + 1))'
    <3>1. FilesBelow(v + 1)' = FilesBelow(v + 1)
      BY <1>5
    <3> QED BY <2>8, <3>1 DEF AllGood
  <2>10. VolumesLeft(v + 1)'
    BY <1>5, <2>4, <2>9 DEF VolumesLeft
  <2> QED BY <2>10
<1>9. CASE k # Len(fs) + 1
  <2> PICK f : f = fs[k]
    OBVIOUS
  <2>1. k \in 1 .. Len(fs) /\ k \in Nat /\ k <= Len(fs) /\ k + 1 \in 1 .. Len(fs) + 1
    BY <1>2, <1>9, Within
  <2>2. f \in Files /\ placed[f].archive = w /\ placed[f].offset = Filled(fs, k)
    BY <1>2, <2>1
  <2>3. CASE half \/ ~ (PreloadBytes(f) > 0)
    <3>1. Lead(todo, "data", f, ReadTodo("data", fs, k + 1, FALSE, after))
      BY <1>2, <1>3, <1>4, <2>1, <2>3, TodoAt
    <3>2. Ready(f)
      BY <1>1, <1>3, <2>2, <2>3, ReadyFacts
    <3>3. Holds(w, placed[f].offset) /\ mode # "singleMd5"
      BY <1>3, <2>2
    <3>4. /\ todo' = ReadTodo("data", fs, k + 1, FALSE, after) /\ writing' = w
          /\ data'[w] \in Seq(Byte) /\ Len(data'[w]) = placed[f].offset + placed[f].length
          /\ Good(f)' /\ \A g \in Files \ {f} : Good(g) => Good(g)'
      BY <1>2, <2>2, <3>1, <3>2, <3>3, DataAt
    <3>5. \A g \in FilesBelow(v) \cup FilesBefore(fs, k + 1) : Good(g)'
      <4>1. FilesBefore(fs, k + 1) \subseteq FilesBefore(fs, k) \cup {f}
        BY <1>2, <2>1, BeforeFacts
      <4>2. \A g \in D \ {f} : Good(g)
        BY <1>3 DEF AllGood
      <4>3. \A g \in D \ {f} : Good(g)'
        BY <1>7, <3>4, <4>2
      <4> QED BY <3>4, <4>1, <4>3
    <3>6. Filled(fs, k + 1) = placed[f].offset + placed[f].length
      BY <1>2, <2>1, FilledFacts
    <3>7. Holds(archives[v].index, Filled(archives[v].files, k + 1))'
      BY <1>5, <1>6, <3>4, <3>6 DEF Holds
    <3>8. (todo = ReadTodo("data", archives[v].files, k + 1, FALSE, AfterVolume(v)))'
      <4>1. ReadTodo("data", fs, k + 1, FALSE, after)' = ReadTodo("data", fs, k + 1, FALSE, after)
        BY <1>5
      <4> QED BY <1>5, <1>6, <3>4, <4>1
    <3>9. AllGood((FilesBelow(v) \cup FilesBefore(archives[v].files, k + 1)) \ {})'
      <4>1. FilesBelow(v)' = FilesBelow(v)
        BY <1>5
      <4> QED BY <1>6, <3>5, <4>1 DEF AllGood
    <3>10. InVolume(v, k + 1, FALSE)'
      BY <3>7, <3>8, <3>9 DEF InVolume
    <3> QED BY <2>1, <3>10
  <2>4. CASE ~half /\ PreloadBytes(f) > 0
    <3>1. Lead(todo, "preload", f, ReadTodo("data", fs, k, TRUE, after))
      BY <1>2, <1>3, <1>4, <2>1, <2>4, TodoAt
    <3>2. /\ todo' = ReadTodo("data", fs, k, TRUE, after) /\ UNCHANGED <<data, writing>>
          /\ Ready(f)' /\ \A g \in Files \ {f} : Good(g) => Good(g)'
      BY <2>2, <3>1, PreloadAt
    <3>3. \A g \in D \ {f} : Good(g)'
      <4>1. \A g \in D \ {f} : Good(g)
        BY <1>3 DEF AllGood
      <4> QED BY <1>7, <3>2, <4>1
    <3>4. Holds(archives[v].index, Filled(archives[v].files, k))'
      BY <1>2, <1>3, <1>5, <1>6, <3>2 DEF Holds
    <3>5. (k <= Len(archives[v].files) /\ PreloadBytes(archives[v].files[k]) > 0
             /\ Ready(archives[v].files[k]))'
      BY <1>5, <1>6, <2>1, <2>4, <3>2
    <3>6. (todo = ReadTodo("data", archives[v].files, k, TRUE, AfterVolume(v)))'
      <4>1. ReadTodo("data", fs, k, TRUE, after)' = ReadTodo("data", fs, k, TRUE, after)
        BY <1>5
      <4> QED BY <1>5, <1>6, <3>2, <4>1
    <3>7. AllGood((FilesBelow(v) \cup FilesBefore(archives[v].files, k)) \ {archives[v].files[k]})'
      <4>1. FilesBelow(v)' = FilesBelow(v)
        BY <1>5
      <4> QED BY <1>6, <3>3, <4>1 DEF AllGood
    <3>8. InVolume(v, k, TRUE)'
      BY <3>4, <3>5, <3>6, <3>7 DEF InVolume
    <3> QED BY <1>2, <3>8
  <2> QED BY <2>3, <2>4
<1> QED BY <1>8, <1>9

\* A file with data in a volume, or without any, is passed over.
LEMMA InlineSkip ==
  ASSUME TypeOK, Plan, Collected, stage = "writing", mode = "multi",
         NEW k \in Files, InlineLeft(k), ~ (EntryLength(k) = 0 /\ PreloadBytes(k) > 0)
  PROVE  InlineLeft(k + 1)
<1>1. RestOf(InlinePieces, k) = RestOf(InlinePieces, k + 1)
  <2>1. /\ k \in 1 .. Len(InlinePieces) /\ k \in 1 .. Len(InlinePieces) + 1
        /\ k + 1 \in 1 .. Len(InlinePieces) + 1
    BY InlineFacts, NumberFacts DEF Files
  <2>2. RestOf(InlinePieces, k) = InlinePieces[k] \o RestOf(InlinePieces, k + 1)
        /\ RestOf(InlinePieces, k + 1) \in Seq(Items)
    <3>1. InlinePieces \in Pieces(Items) /\ k <= Len(InlinePieces)
      BY <2>1, InlineFacts, NumberFacts
    <3> QED BY <2>1, <3>1, RestOfFacts
  <2>3. InlinePieces[k] = <<>>
    BY InlineFacts
  <2> DEFINE r == RestOf(InlinePieces, k + 1)
  <2>4. <<>> \o r = r
    <3>1. r \in Seq(Items)
      BY <2>2
    <3> HIDE DEF r
    <3> QED BY <3>1, ConcatEmptySeq
  <2> QED BY <2>2, <2>3, <2>4
<1>2. EntryLength(k) \in Nat /\ PreloadBytes(k) \in Nat /\ lengths[k] \in Nat
      /\ PreloadBytes(k) + EntryLength(k) = lengths[k]
  BY PlaceFacts
<1>3. Good(k)
  <2>1. CASE EntryLength(k) > 0
    BY <2>1 DEF InlineLeft, AllGood
  <2>2. CASE ~ (EntryLength(k) > 0)
    <3>1. EntryLength(k) = 0 /\ PreloadBytes(k) = 0 /\ lengths[k] = 0
      BY <1>2, <2>2
    <3>2. file[k].preload = <<>> /\ file[k].crc = <<>>
      BY <3>1 DEF Collected
    <3>3. k \notin touched => src[k] = <<>>
      <4>1. src[k] \in Seq(Byte)
        BY DEF TypeOK
      <4> QED BY <3>1, <4>1, Untouched, EmptySeq
    <3> QED BY <3>1, <3>2, <3>3, EmptyGood
  <2> QED BY <2>1, <2>2
<1>4. \A f \in Files : f < k + 1 => f < k \/ f = k
  BY NumberFacts
<1> QED BY <1>1, <1>3, <1>4 DEF InlineLeft, AllGood

LEMMA InlineNext ==
  ASSUME TypeOK, Plan, Collected, stage = "writing", mode = "multi",
         NEW k \in 1 .. NumFiles + 1, InlineLeft(k)
  PROVE  \E m \in 1 .. NumFiles + 1 :
           InlineLeft(m) /\ (m = NumFiles + 1 \/ (EntryLength(m) = 0 /\ PreloadBytes(m) > 0))
<1> DEFINE T == {m \in 1 .. NumFiles + 1 : InlineLeft(m)}
<1>1. NumFiles + 1 \in Nat /\ T \subseteq 1 .. NumFiles + 1 /\ T # {}
  BY NumberFacts
<1>2. PICK m \in T : m = NumFiles + 1 \/ m + 1 \notin T
  <2> HIDE DEF T
  <2> QED BY <1>1, LastMember
<1>3. ASSUME m # NumFiles + 1, ~ (EntryLength(m) = 0 /\ PreloadBytes(m) > 0)
      PROVE  FALSE
  <2>1. m \in Files /\ m + 1 \in 1 .. NumFiles + 1 /\ m + 1 \notin T
    BY <1>2, <1>3, Indices
  <2>2. InlineLeft(m + 1)
    BY <1>2, <1>3, <2>1, InlineSkip
  <2> QED BY <2>1, <2>2
<1> QED BY <1>2, <1>3

LEMMA InlineStep ==
  ASSUME Writes, mode = "multi", NEW k \in 1 .. NumFiles + 1, InlineLeft(k),
         k = NumFiles + 1 \/ (EntryLength(k) = 0 /\ PreloadBytes(k) > 0)
  PROVE  (\E j \in 1 .. NumFiles + 1 : InlineLeft(j)') \/ CommitLeft'
<1>1. /\ Operation /\ TypeOK /\ Plan /\ Collected /\ stage = "writing" /\ Frame
      /\ UNCHANGED <<src, touched, mode, placed>> /\ Dir \in Volumes
  BY FrameHere, NumberFacts
<1>2. /\ todo = RestOf(InlinePieces, k) \o (Create \o Commit)
      /\ \A f \in Files : f < k \/ EntryLength(f) > 0 => Good(f)
  BY DEF InlineLeft, AllGood
<1>3. InlinePieces' = InlinePieces /\ \A f : EntryLength(f)' = EntryLength(f)
  BY <1>1, FrameFacts
<1>4. /\ Create \o Commit \in Seq(Items) /\ InlinePieces \in Pieces(Items)
      /\ Len(InlinePieces) = NumFiles /\ Commit \in Seq(Items)
  BY ConstantTodo, InlineFacts
<1>5. CASE k = NumFiles + 1
  <2>1. RestOf(InlinePieces, k) = <<>>
    BY <1>4, <1>5, RestOfFacts
  <2>2. todo = Create \o Commit
    <3> PICK c : c = Create \o Commit
      OBVIOUS
    <3>1. c \in Seq(Items)
      BY <1>4
    <3>2. <<>> \o c = c
      BY <3>1, ConcatEmptySeq
    <3> QED BY <1>2, <2>1, <3>2
  <2>3. Lead(todo, "create", Dir, Commit)
    <3>1. "create" \in Operations /\ Dir \in Nat
      BY NumberFacts DEF Operations
    <3> QED BY <1>4, <2>2, <3>1, LeadCons DEF Create
  <2>4. ASSUME NEW f \in Files
        PROVE  Good(f) /\ (EntryLength(f) > 0 => placed[f].archive # Dir)
    <3>1. f < k
      BY <1>5, NumberFacts
    <3>2. EntryLength(f) > 0 => placed[f].archive < Dir /\ placed[f].archive \in Nat
      BY <1>1 DEF Plan
    <3>3. EntryLength(f) > 0 => placed[f].archive # Dir
      BY <3>2, NumberFacts
    <3> QED BY <1>2, <3>1, <3>3
  <2>5. /\ todo' = Commit /\ writing' = Dir
        /\ data'[Dir] \in Seq(Byte) /\ Len(data'[Dir]) = 0
        /\ \A f \in Files : Good(f)'
    BY <1>1, <2>3, <2>4, CreateAt
  <2>6. CommitLeft'
    BY <2>5 DEF CommitLeft, AllGood, Holds
  <2> QED BY <2>6
<1>6. CASE k # NumFiles + 1
  <2>1. k \in Files /\ k \in Nat /\ k + 1 \in 1 .. NumFiles + 1
        /\ EntryLength(k) = 0 /\ PreloadBytes(k) > 0
    BY <1>6, Indices
  <2>2. Lead(todo, "inline", k, RestOf(InlinePieces, k + 1) \o (Create \o Commit))
    <3>1. /\ k \in 1 .. Len(InlinePieces) /\ InlinePieces[k] = <<Item("inline", k)>>
          /\ "inline" \in Operations
      BY <1>4, <2>1, InlineFacts DEF Files, Operations
    <3> QED BY <1>2, <1>4, <2>1, <3>1, RestLead
  <2>3. /\ todo' = RestOf(InlinePieces, k + 1) \o (Create \o Commit)
        /\ Good(k)' /\ \A g \in Files \ {k} : Good(g) => Good(g)'
    BY <2>1, <2>2, InlineAt
  <2>4. \A f \in Files : (f < k + 1 \/ EntryLength(f) > 0) => Good(f)'
    <3>1. \A f \in Files : f < k + 1 => f < k \/ f = k
      BY <2>1, NumberFacts
    <3> QED BY <1>2, <2>3, <3>1
  <2>5. InlineLeft(k + 1)'
    BY <1>3, <2>3, <2>4 DEF InlineLeft, AllGood
  <2> QED BY <2>1, <2>5
<1> QED BY <1>5, <1>6

LEMMA InlineAny ==
  ASSUME Writes, mode = "multi", NEW k \in 1 .. NumFiles + 1, InlineLeft(k)
  PROVE  AtMulti'
<1>1. TypeOK /\ Plan /\ Collected /\ stage = "writing"
  BY FrameHere
<1>2. PICK m \in 1 .. NumFiles + 1 :
        InlineLeft(m) /\ (m = NumFiles + 1 \/ (EntryLength(m) = 0 /\ PreloadBytes(m) > 0))
  BY <1>1, InlineNext
<1>3. (\E j \in 1 .. NumFiles + 1 : InlineLeft(j)') \/ CommitLeft'
  BY <1>2, InlineStep
<1> QED BY <1>3 DEF AtMulti

LEMMA VolumesDone ==
  ASSUME TypeOK, Plan, mode = "multi", NEW v, v = Len(archives) + 1, VolumesLeft(v)
  PROVE  InlineLeft(1)
<1>1. todo = RestOf(InlinePieces, 1) \o (Create \o Commit)
  <2>1. todo = InlineEach \o (Create \o Commit)
    BY VolumeFacts DEF VolumesLeft, Plan
  <2> QED BY <2>1, InlineFacts
<1>2. ASSUME NEW f \in Files, f < 1 \/ EntryLength(f) > 0
      PROVE  Good(f)
  <2>1. EntryLength(f) > 0
    BY <1>2, NumberFacts
  <2>2. f \in FilesBelow(v)
    BY <2>1 DEF Plan
  <2> QED BY <2>2 DEF VolumesLeft, AllGood
<1> QED BY <1>1, <1>2 DEF InlineLeft, AllGood

LEMMA MultiStep ==
  ASSUME Writes, mode = "multi", AtMulti
  PROVE  AtMulti'
<1>1. /\ Operation /\ TypeOK /\ Plan /\ Collected /\ stage = "writing" /\ Frame
      /\ UNCHANGED <<src, touched, mode, archives>>
      /\ Dir \in Volumes /\ 1 \in 1 .. NumFiles + 1 /\ todo # <<>>
  BY FrameHere, NumberFacts, OperationFacts
<1>2. CASE Committed
  BY <1>1, <1>2 DEF Committed
<1>3. CASE CommitLeft
  <2>1. Lead(todo, "commit", Dir, <<>>)
    BY <1>3 DEF CommitLeft, Lead, Commit
  <2>2. /\ todo' = <<>> /\ UNCHANGED <<data, writing, file>>
        /\ tree' = FinalTree' /\ md5' = Md5Sections'
        /\ \A g \in Files : Good(g) => Good(g)'
    BY <2>1, CommitAt
  <2>3. Committed'
    BY <1>3, <2>2 DEF Committed, CommitLeft, Holds, AllGood
  <2> QED BY <2>3 DEF AtMulti
<1>4. ASSUME NEW k \in 1 .. NumFiles + 1, InlineLeft(k)
      PROVE  AtMulti'
  BY <1>4, InlineAny
<1>5. ASSUME NEW v \in 1 .. Len(archives), NEW k \in 1 .. Len(archives[v].files) + 1,
             NEW half \in BOOLEAN, InVolume(v, k, half)
      PROVE  AtMulti'
  <2>1. v + 1 \in 1 .. Len(archives) + 1
    BY <1>1, VolumeHere
  <2>2. \/ VolumesLeft(v + 1)'
        \/ \E j \in 1 .. Len(archives[v].files) + 1 : \E h \in BOOLEAN : InVolume(v, j, h)'
    BY <1>5, VolumeStep
  <2> QED BY <1>1, <2>1, <2>2 DEF AtMulti
<1>6. ASSUME NEW v \in 1 .. Len(archives) + 1, VolumesLeft(v)
      PROVE  AtMulti'
  <2>1. Len(archives) \in Nat
    BY <1>1, VolumeFacts DEF Plan
  <2>2. CASE v = Len(archives) + 1
    <3>1. InlineLeft(1)
      BY <1>1, <1>6, <2>2, VolumesDone
    <3> QED BY <1>1, <3>1, InlineAny
  <2>3. CASE v # Len(archives) + 1
    <3> PICK w : w = v - 1
      OBVIOUS
    <3>1. v \in 1 .. Len(archives)
      BY <2>1, <2>3, Within
    <3>2. /\ archives[v].index = w /\ w \in Volumes /\ w # Dir
          /\ archives[v].files \in Seq(Nat) /\ Len(archives[v].files) \in Nat
      BY <1>1, <3>1, VolumeHere
    <3>3. Lead(todo, "create", w, ReadTodo("data", archives[v].files, 1, FALSE, AfterVolume(v)))
      BY <1>1, <1>6, <3>1, <3>2, VolumeFacts DEF VolumesLeft, Plan
    <3> PICK fs : fs = archives[v].files
      OBVIOUS
    <3> PICK after : after = AfterVolume(v)
      OBVIOUS
    <3>4. /\ todo' = ReadTodo("data", fs, 1, FALSE, after) /\ writing' = w
          /\ data'[w] \in Seq(Byte) /\ Len(data'[w]) = 0
          /\ \A f \in Files : (Good(f) /\ (EntryLength(f) > 0 => placed[f].archive # w)) => Good(f)'
      BY <3>2, <3>3, CreateAt
    <3>5. \A f \in FilesBelow(v) : Good(f)'
      <4>1. \A f \in FilesBelow(v) : f \in Files /\ placed[f].archive # w /\ Good(f)
        BY <1>1, <1>6, <3>1, BelowFacts DEF VolumesLeft, AllGood
      <4> QED BY <3>4, <4>1
    <3>6. /\ \A fs2, j, h, rest : ReadTodo("data", fs2, j, h, rest)' = ReadTodo("data", fs2, j, h, rest)
          /\ AfterVolume(v)' = after /\ FilesBelow(v)' = FilesBelow(v)
          /\ \A fs2, j : Filled(fs2, j)' = Filled(fs2, j)
          /\ (archives[v].files)' = fs /\ (archives[v].index)' = w
      BY <1>1, <3>2, FrameFacts
    <3>7. (todo = ReadTodo("data", archives[v].files, 1, FALSE, AfterVolume(v)))'
      <4>1. ReadTodo("data", fs, 1, FALSE, after)' = ReadTodo("data", fs, 1, FALSE, after)
        <5>1. \A j, h, rest : ReadTodo("data", fs, j, h, rest)' = ReadTodo("data", fs, j, h, rest)
          BY <3>6
        <5> QED BY <5>1
      <4>2. (archives[v].files)' = fs /\ AfterVolume(v)' = after
        BY <3>6
      <4>3. todo' = ReadTodo("data", fs, 1, FALSE, after)
        BY <3>4
      <4> QED BY <4>1, <4>2, <4>3
    <3>8. Holds(archives[v].index, Filled(archives[v].files, 1))'
      <4>1. Filled(fs, 1) = 0
        BY FilledFacts
      <4> QED BY <3>4, <3>6, <4>1 DEF Holds
    <3>9. AllGood((FilesBelow(v) \cup FilesBefore(archives[v].files, 1)) \ {})'
      <4>1. FilesBefore(fs, 1) = {}
        BY DEF FilesBefore
      <4> QED BY <3>5, <3>6, <4>1 DEF AllGood
    <3>10. InVolume(v, 1, FALSE)'
      BY <3>7, <3>8, <3>9 DEF InVolume
    <3>11. 1 \in 1 .. Len(archives[v].files) + 1
      BY <3>2
    <3> QED BY <1>1, <3>1, <3>10, <3>11 DEF AtMulti
  <2> QED BY <2>2, <2>3
<1> QED BY <1>2, <1>3, <1>4, <1>5, <1>6 DEF AtMulti

-----------------------------------------------------------------------------
(* What the place of a run says of its next operation, or of its end. *)

HeadOK(op, a) ==
  /\ op \in {"data", "copy"} => writing \in Volumes /\ data[writing] \in Seq(Byte)
  /\ op \in {"data", "copy", "hash", "preload", "inline", "finalize"} => a \in Files
  /\ op = "hash" => mode = "singleMd5"
  /\ op = "create" => a \in Volumes
  /\ op \in {"placeholder", "finalize", "commit"} => writing = Dir
  /\ op \in {"placeholder", "finalize"} => mode = "single"
  /\ op = "finalize" => tree \in [Files -> Entry]
  /\ op = "commit" => AllGood(Files)

Finished ==
  /\ tree = FinalTree /\ AllGood(Files)
  /\ md5 # None => md5 = Md5Sections

Somewhere == (todo # <<>> /\ HeadOK(Head(todo).op, Arg)) \/ (todo = <<>> /\ Finished)

LEMMA LeadIs ==
  ASSUME NEW op, NEW a, NEW rest, Lead(todo, op, a, rest), HeadOK(op, a)
  PROVE  Somewhere
<1>1. todo # <<>> /\ Head(todo).op = op /\ Arg = a
  BY DEF Lead, Item, Arg
<1> QED BY <1>1 DEF Somewhere

LEMMA WhereFinal ==
  ASSUME TypeOK, Plan, mode = "single", NEW k \in 1 .. NumFiles + 1, SingleFinal(k)
  PROVE  Somewhere
<1>1. CASE k = NumFiles + 1
  <2>1. todo = <<>>
    BY <1>1, ConstantTodo DEF SingleFinal
  <2>2. tree \in [Files -> Entry] /\ \A f \in Files : tree[f] = FinalEntry(f)
    <3>1. \A f \in Files : f \in 1 .. k - 1
      BY <1>1, NumberFacts DEF Files
    <3> QED BY <3>1 DEF SingleFinal
  <2>3. tree = FinalTree
    BY <2>2 DEF FinalTree
  <2> QED BY <2>1, <2>3 DEF Somewhere, Finished, SingleFinal
<1>2. CASE k # NumFiles + 1
  <2>1. k \in Files
    BY <1>2, Indices
  <2>2. Lead(todo, "finalize", k, SubSeq(FinalItems, k + 1, NumFiles))
    BY <2>1, ConstantTodo DEF SingleFinal
  <2>3. HeadOK("finalize", k)
    BY <2>1 DEF HeadOK, SingleFinal
  <2> QED BY <2>2, <2>3, LeadIs
<1> QED BY <1>1, <1>2

LEMMA WhereSingle ==
  ASSUME TypeOK, Plan, mode = "single", AtSingle
  PROVE  Somewhere
<1>1. Dir \in Volumes /\ 1 \in 1 .. NumFiles + 1
  BY NumberFacts
<1>2. CASE SingleStart
  <2>1. HeadOK("create", Dir)
    BY <1>1 DEF HeadOK
  <2> QED BY <1>2, <2>1, SingleProgramFacts, LeadIs DEF SingleStart
<1>3. CASE SingleHolder
  <2>1. HeadOK("placeholder", Dir)
    BY <1>3 DEF HeadOK, SingleHolder, Holds
  <2> QED BY <1>3, <2>1, SingleProgramFacts, LeadIs DEF SingleHolder
<1>4. ASSUME NEW k \in 1 .. NumFiles + 1, NEW half \in BOOLEAN, SingleData(k, half)
      PROVE  Somewhere
  <2>1. CASE k = NumFiles + 1
    <3>1. SingleFinal(1)
      BY <1>4, <2>1, DataDone
    <3> QED BY <1>1, <3>1, WhereFinal
  <2>2. CASE k # NumFiles + 1
    <3>1. k \in Files /\ FinalItems \in Seq(Items) /\ "data" \in Operations
      BY <2>2, Indices, ConstantTodo DEF Operations
    <3>2. HeadOK("data", k) /\ HeadOK("preload", k)
      BY <1>1, <1>4, <3>1 DEF HeadOK, SingleData, Holds
    <3>3. todo = ReadTodo("data", InOrder, k, half, FinalItems)
      BY <1>4 DEF SingleData
    <3>4. \/ Lead(todo, "data", k, ReadTodo("data", InOrder, k + 1, FALSE, FinalItems))
          \/ Lead(todo, "preload", k, ReadTodo("data", InOrder, k, TRUE, FinalItems))
      BY <3>1, <3>3, InOrderTodo
    <3> QED BY <3>2, <3>4, LeadIs
  <2> QED BY <2>1, <2>2
<1>5. ASSUME NEW k \in 1 .. NumFiles + 1, SingleFinal(k)
      PROVE  Somewhere
  BY <1>5, WhereFinal
<1> QED BY <1>2, <1>3, <1>4, <1>5 DEF AtSingle

LEMMA WhereSingleMd5 ==
  ASSUME TypeOK, Plan, Collected, stage = "writing", mode = "singleMd5", AtSingleMd5
  PROVE  Somewhere
<1>1. Dir \in Volumes
  BY NumberFacts
<1>2. CASE Committed
  BY <1>2 DEF Committed, Somewhere, Finished
<1>3. ASSUME NEW j \in 1 .. NumFiles + 1, Md5Copy(j)
      PROVE  Somewhere
  <2>1. PICK k \in 1 .. NumFiles + 1 : Md5Copy(k) /\ (k = NumFiles + 1 \/ EntryLength(k) > 0)
    BY <1>3, CopyNext
  <2>2. todo = RestOf(CopyPieces, k) \o Commit /\ Holds(Dir, Filled(InOrder, k))
        /\ AllGood(1 .. k - 1)
    BY <2>1 DEF Md5Copy
  <2>3. Commit \in Seq(Items) /\ CopyPieces \in Pieces(Items) /\ Len(CopyPieces) = NumFiles
    BY ConstantTodo, CopyFacts
  <2>4. CASE k = NumFiles + 1
    <3>1. RestOf(CopyPieces, k) = <<>>
      BY <2>3, <2>4, RestOfFacts
    <3>2. todo = Commit
      <4> PICK c : c = Commit
        OBVIOUS
      <4>1. <<>> \o c = c
        BY <2>3, ConcatEmptySeq
      <4> QED BY <2>2, <3>1, <4>1
    <3>3. Lead(todo, "commit", Dir, <<>>)
      BY <3>2 DEF Lead, Commit
    <3>4. 1 .. k - 1 = Files
      <4>1. k - 1 = NumFiles
        BY <2>4, NumberFacts
      <4> QED BY <4>1 DEF Files
    <3>5. HeadOK("commit", Dir)
      BY <2>2, <3>4 DEF HeadOK, Holds
    <3> QED BY <3>3, <3>5, LeadIs
  <2>5. CASE k # NumFiles + 1
    <3>1. k \in Files /\ k \in Nat /\ EntryLength(k) > 0
      BY <2>1, <2>5, Indices
    <3>2. Lead(todo, "copy", k, RestOf(CopyPieces, k + 1) \o Commit)
      <4>1. /\ k \in 1 .. Len(CopyPieces) /\ CopyPieces[k] = <<Item("copy", k)>>
            /\ "copy" \in Operations
        BY <2>3, <3>1, CopyFacts DEF Files, Operations
      <4> QED BY <2>2, <2>3, <3>1, <4>1, RestLead
    <3>3. HeadOK("copy", k)
      BY <1>1, <2>2, <3>1 DEF HeadOK, Holds
    <3> QED BY <3>2, <3>3, LeadIs
  <2> QED BY <2>4, <2>5
<1>4. ASSUME NEW k \in 1 .. NumFiles + 1, NEW half \in BOOLEAN, Md5Hash(k, half)
      PROVE  Somewhere
  <2> PICK end : end = Create \o (CopyEach \o Commit)
    OBVIOUS
  <2>1. todo = ReadTodo("hash", InOrder, k, half, end) /\ end \in Seq(Items) /\ "hash" \in Operations
    BY <1>4, SingleProgramFacts DEF Md5Hash, Operations
  <2>2. CASE k = NumFiles + 1
    <3>1. half = FALSE
      BY <1>4, <2>2, NumberFacts DEF Md5Hash
    <3>2. ReadTodo("hash", InOrder, k, FALSE, end) = end
      <4>1. /\ k = Len(InOrder) + 1 /\ k \in 1 .. Len(InOrder) + 1 /\ InOrder \in Seq(Nat)
            /\ FALSE \in BOOLEAN
        BY <2>2, ConstantTodo
      <4>2. \A rest \in Seq(Items) : ReadTodo("hash", InOrder, k, FALSE, rest) = rest
        BY <2>1, <4>1, ReadTodoEnd, Zenon
      <4> QED BY <2>1, <4>2, Zenon
    <3>3. Lead(todo, "create", Dir, RestOf(CopyPieces, 1) \o Commit)
      BY <2>1, <3>1, <3>2, SingleProgramFacts
    <3>4. HeadOK("create", Dir)
      BY <1>1 DEF HeadOK
    <3> QED BY <3>3, <3>4, LeadIs
  <2>3. CASE k # NumFiles + 1
    <3>1. k \in Files
      BY <2>3, Indices
    <3>2. HeadOK("hash", k) /\ HeadOK("preload", k)
      BY <3>1 DEF HeadOK
    <3>3. \/ Lead(todo, "hash", k, ReadTodo("hash", InOrder, k + 1, FALSE, end))
          \/ Lead(todo, "preload", k, ReadTodo("hash", InOrder, k, TRUE, end))
      BY <2>1, <3>1, InOrderTodo
    <3> QED BY <3>2, <3>3, LeadIs
  <2> QED BY <2>2, <2>3
<1> QED BY <1>2, <1>3, <1>4 DEF AtSingleMd5

LEMMA WhereInline ==
  ASSUME TypeOK, Plan, Collected, stage = "writing", mode = "multi",
         NEW j \in 1 .. NumFiles + 1, InlineLeft(j)
  PROVE  Somewhere
<1>1. PICK k \in 1 .. NumFiles + 1 :
        InlineLeft(k) /\ (k = NumFiles + 1 \/ (EntryLength(k) = 0 /\ PreloadBytes(k) > 0))
  BY InlineNext
<1>2. todo = RestOf(InlinePieces, k) \o (Create \o Commit)
  BY <1>1 DEF InlineLeft
<1>3. /\ Create \o Commit \in Seq(Items) /\ InlinePieces \in Pieces(Items)
      /\ Len(InlinePieces) = NumFiles /\ Commit \in Seq(Items) /\ Dir \in Volumes
  BY ConstantTodo, InlineFacts, NumberFacts
<1>4. CASE k = NumFiles + 1
  <2>1. RestOf(InlinePieces, k) = <<>>
    BY <1>3, <1>4, RestOfFacts
  <2>2. todo = Create \o Commit
    <3> PICK c : c = Create \o Commit
      OBVIOUS
    <3>1. <<>> \o c = c
      BY <1>3, ConcatEmptySeq
    <3> QED BY <1>2, <2>1, <3>1
  <2>3. Lead(todo, "create", Dir, Commit)
    <3>1. "create" \in Operations /\ Dir \in Nat
      BY NumberFacts DEF Operations
    <3> QED BY <1>3, <2>2, <3>1, LeadCons DEF Create
  <2>4. HeadOK("create", Dir)
    BY <1>3 DEF HeadOK
  <2> QED BY <2>3, <2>4, LeadIs
<1>5. CASE k # NumFiles + 1
  <2>1. k \in Files /\ k \in Nat /\ EntryLength(k) = 0 /\ PreloadBytes(k) > 0
    BY <1>1, <1>5, Indices
  <2>2. Lead(todo, "inline", k, RestOf(InlinePieces, k + 1) \o (Create \o Commit))
    <3>1. /\ k \in 1 .. Len(InlinePieces) /\ InlinePieces[k] = <<Item("inline", k)>>
          /\ "inline" \in Operations
      BY <1>3, <2>1, InlineFacts DEF Files, Operations
    <3> QED BY <1>2, <1>3, <2>1, <3>1, RestLead
  <2>3. HeadOK("inline", k)
    BY <2>1 DEF HeadOK
  <2> QED BY <2>2, <2>3, LeadIs
<1> QED BY <1>4, <1>5

LEMMA WhereMulti ==
  ASSUME TypeOK, Plan, Collected, stage = "writing", mode = "multi", AtMulti
  PROVE  Somewhere
<1>1. Dir \in Volumes /\ 1 \in 1 .. NumFiles + 1
  BY NumberFacts
<1>2. CASE Committed
  BY <1>2 DEF Committed, Somewhere, Finished
<1>3. CASE CommitLeft
  <2>1. Lead(todo, "commit", Dir, <<>>)
    BY <1>3 DEF CommitLeft, Lead, Commit
  <2>2. HeadOK("commit", Dir)
    BY <1>3 DEF HeadOK, CommitLeft, Holds
  <2> QED BY <2>1, <2>2, LeadIs
<1>4. ASSUME NEW k \in 1 .. NumFiles + 1, InlineLeft(k)
      PROVE  Somewhere
  BY <1>4, WhereInline
<1>5. ASSUME NEW v \in 1 .. Len(archives), NEW k \in 1 .. Len(archives[v].files) + 1,
             NEW half \in BOOLEAN, InVolume(v, k, half)
      PROVE  Somewhere
  <2> PICK fs : fs = archives[v].files
    OBVIOUS
  <2> PICK after : after = AfterVolume(v)
    OBVIOUS
  <2> PICK w : w = v - 1
    OBVIOUS
  <2> PICK left : left = RestOf(VolumePieces, v + 1) \o (InlineEach \o (Create \o Commit))
    OBVIOUS
  <2>1. /\ archives[v].index = w /\ w \in Volumes /\ fs \in Seq(Nat) /\ Len(fs) \in Nat
        /\ k \in 1 .. Len(fs) + 1 /\ \A j \in 1 .. Len(fs) : fs[j] \in Files
    BY VolumeHere
  <2>2. /\ after \in Seq(Items) /\ Lead(after, "close", w, left) /\ "data" \in Operations
    BY <2>1, VolumeFacts DEF Plan, Operations
  <2>3. /\ todo = ReadTodo("data", fs, k, half, after) /\ Holds(w, Filled(fs, k))
        /\ half => k <= Len(fs)
    BY <1>5, <2>1 DEF InVolume
  <2>4. CASE k = Len(fs) + 1
    <3>1. half = FALSE
      BY <2>1, <2>3, <2>4
    <3>2. ReadTodo("data", fs, k, FALSE, after) = after
      <4>1. fs \in Seq(Nat) /\ after \in Seq(Items) /\ "data" \in Operations
        BY <2>1, <2>2
      <4>2. k = Len(fs) + 1
        BY <2>4
      <4> QED BY <4>1, <4>2, DataEnd
    <3>3. HeadOK("close", w)
      BY DEF HeadOK
    <3> QED BY <2>2, <2>3, <3>1, <3>2, <3>3, LeadIs
  <2>5. CASE k # Len(fs) + 1
    <3>1. k \in 1 .. Len(fs)
      BY <2>1, <2>5, Within
    <3>2. HeadOK("data", fs[k]) /\ HeadOK("preload", fs[k])
      BY <2>1, <2>3, <3>1 DEF HeadOK, Holds
    <3>3. \/ Lead(todo, "data", fs[k], ReadTodo("data", fs, k + 1, FALSE, after))
          \/ Lead(todo, "preload", fs[k], ReadTodo("data", fs, k, TRUE, after))
      BY <2>1, <2>2, <2>3, <3>1, TodoAt
    <3> QED BY <3>2, <3>3, LeadIs
  <2> QED BY <2>4, <2>5
<1>6. ASSUME NEW v \in 1 .. Len(archives) + 1, VolumesLeft(v)
      PROVE  Somewhere
  <2>1. Len(archives) \in Nat
    BY VolumeFacts DEF Plan
  <2>2. CASE v = Len(archives) + 1
    <3>1. InlineLeft(1)
      BY <1>6, <2>2, VolumesDone
    <3> QED BY <1>1, <3>1, WhereInline
  <2>3. CASE v # Len(archives) + 1
    <3> PICK w : w = v - 1
      OBVIOUS
    <3>1. v \in 1 .. Len(archives)
      BY <2>1, <2>3, Within
    <3>2. archives[v].index = w /\ w \in Volumes
      BY <3>1, VolumeHere
    <3>3. Lead(todo, "create", w, ReadTodo("data", archives[v].files, 1, FALSE, AfterVolume(v)))
      BY <1>6, <3>1, <3>2, VolumeFacts DEF VolumesLeft, Plan
    <3>4. HeadOK("create", w)
      BY <3>2 DEF HeadOK
    <3> QED BY <3>3, <3>4, LeadIs
  <2> QED BY <2>2, <2>3
<1> QED BY <1>2, <1>3, <1>4, <1>5, <1>6 DEF AtMulti

-----------------------------------------------------------------------------
(* Where a run stands: after an operation of its own, after a step of somebody *)
(* else, and when it begins.                                                  *)

LEMMA OperationStanding ==
  ASSUME TypeOK, LaidOut, Collected, Standing, Operation
  PROVE  Standing' /\ Writes /\ Somewhere
<1>1. stage = "writing"
  BY DEF Operation, Now, CreateFile, CloseVolume, WritePlaceholder, ReadPreload, StreamData, HashData,
         CopyData, InlineFile, FinalizeEntry, CommitDirectory
<1>2. Plan
  BY <1>1, PlanHolds DEF LaidOut
<1>3. Writes /\ stage' = "writing" /\ mode' = mode
  BY <1>1, <1>2, OperationFacts DEF Writes, Frame
<1>4. CASE mode = "single"
  <2>1. AtSingle
    BY <1>1, <1>4 DEF Standing
  <2> QED BY <1>2, <1>3, <1>4, <2>1, SingleStep, WhereSingle DEF Standing
<1>5. CASE mode = "singleMd5"
  <2>1. AtSingleMd5
    BY <1>1, <1>5 DEF Standing
  <2> QED BY <1>1, <1>2, <1>3, <1>5, <2>1, SingleMd5Step, WhereSingleMd5 DEF Standing
<1>6. CASE mode = "multi"
  <2>1. AtMulti
    BY <1>1, <1>6 DEF Standing
  <2> QED BY <1>1, <1>2, <1>3, <1>6, <2>1, MultiStep, WhereMulti DEF Standing
<1> QED BY <1>4, <1>5, <1>6 DEF TypeOK

LEMMA StandingSomewhere ==
  ASSUME TypeOK, LaidOut, Collected, Standing, stage = "writing"
  PROVE  Plan /\ Somewhere
<1>1. Plan
  BY PlanHolds DEF LaidOut
<1>2. CASE mode = "single"
  BY <1>1, <1>2, WhereSingle DEF Standing
<1>3. CASE mode = "singleMd5"
  BY <1>1, <1>3, WhereSingleMd5 DEF Standing
<1>4. CASE mode = "multi"
  BY <1>1, <1>4, WhereMulti DEF Standing
<1> QED BY <1>1, <1>2, <1>3, <1>4 DEF TypeOK

\* Readers and editors of the sources leave a run where it stands.
LEMMA StandingStays ==
  ASSUME TypeOK, LaidOut, Collected, Standing,
         UNCHANGED <<mode, diskVars, stage, lengths, file, todo, writing, placed, archives>>,
         touched \subseteq touched', \A f \in Files \ touched' : src'[f] = src[f]
  PROVE  Standing'
<1> SUFFICES ASSUME stage = "writing"
             PROVE  Standing'
  BY DEF Standing
<1>1. Plan /\ Frame /\ UNCHANGED <<data, tree, md5, todo, writing, mode, stage, file, archives>>
  BY PlanHolds DEF LaidOut, Frame, diskVars
<1>2. \A f \in Files : Good(f) => Good(f)'
  BY <1>1, GoodStays
<1>3. \A f \in Files : Hashed(f) => Hashed(f)'
  BY <1>1, HashedStays
<1>4. \A f : PreloadBytes(f)' = PreloadBytes(f)
  BY <1>1, FrameFacts
<1>5. \A f \in Files : Ready(f) => Ready(f)'
  BY <1>1, <1>4 DEF Ready
<1>6. \A w, n : Holds(w, n) => Holds(w, n)'
  BY <1>1 DEF Holds
<1>7. \A fs, k : Filled(fs, k)' = Filled(fs, k)
  BY <1>1, FrameFacts
<1>8. \A op, fs, k, half, rest :
        ReadTodo(op, fs, k, half, rest)' = ReadTodo(op, fs, k, half, rest)
  BY <1>1, FrameFacts
<1>9. \A f : FinalEntry(f)' = FinalEntry(f)
  BY <1>1 DEF Frame, FinalEntry, TreeEntry, EntryLength, PreloadBytes
<1>10. CASE mode = "single"
  <2>1. CASE SingleStart
    <3>1. SingleProgram' = SingleProgram
      BY <1>1 DEF SingleProgram, ReadEach, PreloadBytes, Frame
    <3> QED BY <1>1, <1>10, <2>1, <3>1 DEF SingleStart, AtSingle, Standing
  <2>2. CASE SingleHolder
    BY <1>1, <1>6, <1>8, <1>10, <2>2 DEF SingleHolder, AtSingle, Standing
  <2>3. ASSUME NEW k \in 1 .. NumFiles + 1, NEW half \in BOOLEAN, SingleData(k, half)
        PROVE  SingleData(k, half)'
    <3>1. half => k \in Files
      BY <2>3, NumberFacts DEF SingleData, Files
    <3>2. (half => k <= NumFiles /\ PreloadBytes(k) > 0 /\ Ready(k))'
      BY <1>4, <1>5, <2>3, <3>1 DEF SingleData
    <3>3. (todo = ReadTodo("data", InOrder, k, half, FinalItems))'
      BY <1>1, <1>8, <2>3 DEF SingleData
    <3>4. Holds(Dir, Filled(InOrder, k))'
      BY <1>1, <1>7, <2>3 DEF SingleData, Holds
    <3>5. AllGood(1 .. k - 1)'
      <4>1. \A f \in 1 .. k - 1 : f \in Files
        BY NumberFacts DEF Files
      <4> QED BY <1>2, <2>3, <4>1 DEF SingleData, AllGood
    <3> QED BY <1>1, <2>3, <3>2, <3>3, <3>4, <3>5 DEF SingleData
  <2>4. ASSUME NEW k \in 1 .. NumFiles + 1, SingleFinal(k)
        PROVE  SingleFinal(k)'
    BY <1>1, <1>2, <1>9, <2>4 DEF SingleFinal, AllGood
  <2> QED BY <1>1, <1>10, <2>1, <2>2, <2>3, <2>4 DEF AtSingle, Standing
<1>11. ASSUME Committed
       PROVE  Committed'
  <2>1. FinalTree' = FinalTree
    BY <1>9 DEF FinalTree
  <2>2. Md5Sections' = Md5Sections
    BY <1>1, <2>1 DEF Md5Sections
  <2> QED BY <1>1, <1>2, <1>11, <2>1, <2>2 DEF Committed, AllGood
<1>12. CASE mode = "singleMd5"
  <2>1. ASSUME NEW k \in 1 .. NumFiles + 1, NEW half \in BOOLEAN, Md5Hash(k, half)
        PROVE  Md5Hash(k, half)'
    <3> PICK end : end = Create \o (CopyEach \o Commit)
      OBVIOUS
    <3>1. half => k \in Files
      BY <2>1, NumberFacts DEF Md5Hash, Files
    <3>2. (half => k <= NumFiles /\ PreloadBytes(k) > 0 /\ Ready(k))'
      BY <1>4, <1>5, <2>1, <3>1 DEF Md5Hash
    <3>3. (Create \o (CopyEach \o Commit))' = end
      BY <1>1, FrameFacts
    <3>4. (todo = ReadTodo("hash", InOrder, k, half, Create \o (CopyEach \o Commit)))'
      <4>1. ReadTodo("hash", InOrder, k, half, end)' = ReadTodo("hash", InOrder, k, half, end)
        BY <1>8
      <4>2. todo = ReadTodo("hash", InOrder, k, half, end)
        BY <2>1 DEF Md5Hash
      <4> QED BY <1>1, <3>3, <4>1, <4>2
    <3>5. \A f \in 1 .. k - 1 : Hashed(f)'
      <4>1. \A f \in 1 .. k - 1 : f \in Files
        BY NumberFacts DEF Files
      <4> QED BY <1>3, <2>1, <4>1 DEF Md5Hash
    <3> QED BY <3>2, <3>4, <3>5 DEF Md5Hash
  <2>2. ASSUME NEW k \in 1 .. NumFiles + 1, Md5Copy(k)
        PROVE  Md5Copy(k)'
    <3>1. CopyPieces' = CopyPieces
      BY <1>1, FrameFacts
    <3>2. Holds(Dir, Filled(InOrder, k))'
      BY <1>1, <1>7, <2>2 DEF Md5Copy, Holds
    <3>3. AllGood(1 .. k - 1)'
      <4>1. \A f \in 1 .. k - 1 : f \in Files
        BY NumberFacts DEF Files
      <4> QED BY <1>2, <2>2, <4>1 DEF Md5Copy, AllGood
    <3> QED BY <1>1, <1>3, <2>2, <3>1, <3>2, <3>3 DEF Md5Copy
  <2> QED BY <1>1, <1>11, <1>12, <2>1, <2>2 DEF AtSingleMd5, Standing
<1>13. CASE mode = "multi"
  <2>1. /\ VolumePieces' = VolumePieces /\ InlineEach' = InlineEach /\ InlinePieces' = InlinePieces
        /\ \A v : FilesBelow(v)' = FilesBelow(v) /\ AfterVolume(v)' = AfterVolume(v)
        /\ \A f : EntryLength(f)' = EntryLength(f)
    BY <1>1, FrameFacts
  <2>2. ASSUME NEW v, VolumesLeft(v)
        PROVE  VolumesLeft(v)'
    <3>1. AllGood(FilesBelow(v))'
      <4>1. FilesBelow(v) \subseteq Files /\ FilesBelow(v)' = FilesBelow(v)
        BY <2>1 DEF FilesBelow
      <4> QED BY <1>2, <2>2, <4>1 DEF VolumesLeft, AllGood
    <3> QED BY <1>1, <2>1, <2>2, <3>1 DEF VolumesLeft
  <2>3. ASSUME NEW v \in 1 .. Len(archives), NEW k \in 1 .. Len(archives[v].files) + 1,
               NEW half \in BOOLEAN, InVolume(v, k, half)
        PROVE  InVolume(v, k, half)'
    <3> PICK fs : fs = archives[v].files
      OBVIOUS
    <3> PICK after : after = AfterVolume(v)
      OBVIOUS
    <3> PICK w : w = archives[v].index
      OBVIOUS
    <3>1. (archives[v].files)' = fs /\ (archives[v].index)' = w /\ AfterVolume(v)' = after
      BY <1>1, <2>1
    <3>2. /\ half => k <= Len(fs) /\ PreloadBytes(fs[k]) > 0 /\ Ready(fs[k])
          /\ todo = ReadTodo("data", fs, k, half, after) /\ Holds(w, Filled(fs, k))
          /\ AllGood((FilesBelow(v) \cup FilesBefore(fs, k)) \ (IF half THEN {fs[k]} ELSE {}))
      BY <2>3 DEF InVolume
    <3>3. half => fs[k] \in Files
      <4>1. k \in Nat /\ k >= 1 /\ \A j \in 1 .. Len(fs) : fs[j] \in Files
        BY <1>1, VolumeHere
      <4>2. half => k \in 1 .. Len(fs)
        BY <1>1, <3>2, <4>1, VolumeHere
      <4> QED BY <4>1, <4>2
    <3>4. (half => k <= Len(archives[v].files) /\ PreloadBytes(archives[v].files[k]) > 0
                     /\ Ready(archives[v].files[k]))'
      BY <1>4, <1>5, <3>1, <3>2, <3>3
    <3>5. (todo = ReadTodo("data", archives[v].files, k, half, AfterVolume(v)))'
      <4>1. ReadTodo("data", fs, k, half, after)' = ReadTodo("data", fs, k, half, after)
        BY <1>8
      <4> QED BY <1>1, <3>1, <3>2, <4>1
    <3>6. Holds(archives[v].index, Filled(archives[v].files, k))'
      BY <1>1, <1>7, <3>1, <3>2 DEF Holds
    <3> PICK D : D = (FilesBelow(v) \cup FilesBefore(fs, k)) \ (IF half THEN {fs[k]} ELSE {})
      OBVIOUS
    <3>7. \A f \in D : Good(f)'
      <4>1. D \subseteq Files
        BY DEF FilesBelow, FilesBefore
      <4> QED BY <1>2, <3>2, <4>1 DEF AllGood
    <3>8. AllGood((FilesBelow(v) \cup FilesBefore(archives[v].files, k))
                    \ (IF half THEN {archives[v].files[k]} ELSE {}))'
      <4>1. FilesBelow(v)' = FilesBelow(v)
        BY <2>1
      <4> QED BY <3>1, <3>7, <4>1 DEF AllGood
    <3> QED BY <3>4, <3>5, <3>6, <3>8 DEF InVolume
  <2>4. ASSUME NEW k \in 1 .. NumFiles + 1, InlineLeft(k)
        PROVE  InlineLeft(k)'
    BY <1>1, <1>2, <2>1, <2>4 DEF InlineLeft, AllGood
  <2>5. CommitLeft => CommitLeft'
    BY <1>1, <1>2, <1>6 DEF CommitLeft, AllGood
  <2>6. AtMulti
    BY <1>13 DEF Standing
  <2>7. AtMulti'
    BY <1>1, <1>11, <2>2, <2>3, <2>4, <2>5, <2>6 DEF AtMulti
  <2> QED BY <1>1, <1>13, <2>7 DEF Standing
<1> QED BY <1>10, <1>12, <1>13 DEF TypeOK

\* The first operations are the program.
LEMMA StandingStarts ==
  ASSUME TypeOK, LaidOut, Collected, StartWriting
  PROVE  Standing'
<1>1. Plan /\ Frame /\ stage' = "writing" /\ mode' = mode /\ todo' = Program
      /\ archives' = archives /\ 1 \in 1 .. NumFiles + 1 /\ FALSE \in BOOLEAN
  BY PlanHolds, NumberFacts DEF StartWriting, Frame, layoutVars
<1>2. CASE mode = "single"
  <2>1. SingleProgram' = SingleProgram
    BY <1>1 DEF SingleProgram, ReadEach, PreloadBytes, Frame
  <2>2. SingleStart'
    BY <1>1, <1>2, <2>1 DEF SingleStart, Program
  <2> QED BY <1>1, <1>2, <2>2 DEF AtSingle, Standing
<1>3. CASE mode = "singleMd5"
  <2> PICK end : end = Create \o (CopyEach \o Commit)
    OBVIOUS
  <2>1. todo' = ReadTodo("hash", InOrder, 1, FALSE, end)
    BY <1>1, <1>3, SingleProgramFacts DEF Program
  <2>2. (Create \o (CopyEach \o Commit))' = end
    BY <1>1, FrameFacts
  <2>3. (todo = ReadTodo("hash", InOrder, 1, FALSE, Create \o (CopyEach \o Commit)))'
    <3>1. ReadTodo("hash", InOrder, 1, FALSE, end)' = ReadTodo("hash", InOrder, 1, FALSE, end)
      BY <1>1, FrameFacts
    <3> QED BY <2>1, <2>2, <3>1
  <2>4. \A f \in 1 .. 1 - 1 : Hashed(f)'
    OBVIOUS
  <2>5. Md5Hash(1, FALSE)'
    BY <2>3, <2>4 DEF Md5Hash
  <2> QED BY <1>1, <1>3, <2>5 DEF AtSingleMd5, Standing
<1>4. CASE mode = "multi"
  <2>1. todo' = RestOf(VolumePieces, 1) \o (InlineEach \o (Create \o Commit))
    BY <1>1, <1>4, VolumeFacts DEF Program, Plan
  <2>2. VolumePieces' = VolumePieces /\ InlineEach' = InlineEach
    BY <1>1, FrameFacts
  <2>3. FilesBelow(1) = {} /\ FilesBelow(1)' = FilesBelow(1)
    <3>1. FilesBelow(1)' = FilesBelow(1)
      BY <1>1, FrameFacts
    <3> QED BY <3>1 DEF FilesBelow
  <2>4. VolumesLeft(1)'
    BY <2>1, <2>2, <2>3 DEF VolumesLeft, AllGood
  <2>5. 1 \in 1 .. Len(archives) + 1
    <3>1. Len(archives) \in Nat
      BY <1>1, VolumeFacts DEF Plan
    <3> QED BY <3>1
  <2> QED BY <1>1, <1>4, <2>4, <2>5 DEF AtMulti, Standing
<1> QED BY <1>2, <1>3, <1>4 DEF TypeOK

-----------------------------------------------------------------------------
(* The invariant after the steps that write nothing. *)

\* What an operation may leave in the tree is readable.
LEMMA TreeFacts ==
  ASSUME TypeOK, tree # None, NEW f \in Files
  PROVE  tree[f] \in Entry /\ tree \in [Files -> Entry] /\ tree[f].crc \in Seq(Byte)
         /\ tree[f].preload \in Seq(Byte)
<1>1. tree \in [Files -> Entry]
  BY DEF TypeOK
<1>2. tree[f] \in Entry
  BY <1>1
<1> QED BY <1>1, <1>2 DEF Entry

\* The layout's invariant does not depend on anything else.
LEMMA LayoutStays ==
  ASSUME LaidOut, UNCHANGED layoutVars, UNCHANGED <<stage, lengths, mode>>
  PROVE  LaidOut'
<1>1. UNCHANGED LP!layoutVars
  BY DEF layoutVars, LP!layoutVars
<1>2. LP!IInv'
  BY <1>1, LayoutConstants, LP!StutterStep DEF LaidOut
<1>3. LP!Chained'
  BY <1>1, LayoutConstants, LP!ChainedStep DEF LaidOut
<1>4. (stage = "idle" => L!StartLayout(<<>>, FALSE))'
  BY DEF LaidOut, L!StartLayout, layoutVars
<1>5. \A f \in Files : EntryLength(f)' = EntryLength(f)
  BY DEF EntryLength, PreloadBytes
<1>6. (stage # "idle" => /\ sizes = [f \in Files |-> EntryLength(f)]
                         /\ multi = (mode = "multi"))'
  <2>1. UNCHANGED <<sizes, multi, mode, stage>>
    BY DEF layoutVars
  <2>2. stage # "idle" => sizes = [f \in Files |-> EntryLength(f)] /\ multi = (mode = "multi")
    BY DEF LaidOut
  <2> QED BY <1>5, <2>1, <2>2
<1>7. (stage = "writing" => phase = "placed")'
  BY DEF LaidOut, layoutVars
<1> QED BY <1>2, <1>3, <1>4, <1>6, <1>7 DEF LaidOut

\* A run that ends leaves the packer as it was before it began.
LEMMA EndStep ==
  ASSUME IInv, NEW how \in {"ok", "failed"}, End(how),
         UNCHANGED <<mode, src, tree, md5, readVars, touched, made>>,
         data' \in [Volumes -> Seq(Byte) \cup {None}],
         how = "ok" => SuccessVerifies' /\ UntouchedRoundTrip'
  PROVE  IInv'
<1>1. /\ stage' = "idle" /\ result' = how /\ writing' = None
      /\ lengths' = [f \in Files |-> 0] /\ file' = NoFile
      /\ L!StartLayout(<<>>, FALSE)'
  BY DEF End, NoFile, L!StartLayout
<1>2. TypeOK /\ Read /\ Held
  BY DEF IInv
<1>3. NoFile \in [Files -> [crc : Seq(Byte), preload : Seq(Byte)]]
  BY EmptySeq DEF NoFile
<1>4. lengths' \in [Files -> 0 .. UintRange - 1]
  BY <1>1, NumberFacts
<1>5. TypeOK'
  BY <1>1, <1>2, <1>3, <1>4 DEF TypeOK, readVars
<1>6. LaidOut'
  <2>1. <<>> \in Seq(0 .. UintRange - 1)
    BY EmptySeq
  <2>2. LP!IInv' /\ LP!Chained'
    BY <1>1, <2>1, LayoutStartNext
  <2> QED BY <1>1, <2>2 DEF LaidOut
<1>7. Collected'
  <2>1. \A f \in Files : NoFile[f].crc = <<>> /\ NoFile[f].preload = <<>>
    BY DEF NoFile
  <2>2. NoFile' = NoFile
    BY DEF NoFile
  <2> QED BY <1>1, <2>1, <2>2 DEF Collected
<1>8. Standing'
  BY <1>1 DEF Standing
<1>9. Read'
  <2>1. \A f \in Files : NoFile[f].crc = <<>>
    BY DEF NoFile
  <2> QED BY <1>1, <1>2, <2>1 DEF Read
<1>10. Reported'
  BY <1>1 DEF Reported, SuccessVerifies, UntouchedRoundTrip
<1>11. Held'
  <2>1. writing' # Dir
    BY <1>1, NumberFacts, NoneFacts
  <2> QED BY <1>2, <2>1 DEF Held, Reading, readVars, NothingInvented
<1> QED BY <1>5, <1>6, <1>7, <1>8, <1>9, <1>10, <1>11 DEF IInv

\* What a reader does only concerns the reader.
LEMMA ReaderStep ==
  ASSUME IInv, UnpackFrame,
         status' \in {"idle", "reading", "ok", "failed"}, next' \in Nat,
         out' \in [Files -> Seq(Byte) \cup {None}],
         Held'
  PROVE  IInv'
<1>1. UNCHANGED <<mode, src, diskVars, stage, lengths, file, todo, writing, result, touched, made>>
      /\ UNCHANGED layoutVars /\ UNCHANGED <<placed, archives>>
  BY DEF UnpackFrame, packVars, layoutVars
<1>2. TypeOK'
  BY <1>1 DEF IInv, TypeOK, diskVars
<1>3. LaidOut'
  BY <1>1, LayoutStays DEF IInv
<1>4. \A f \in Files : PreloadBytes(f)' = PreloadBytes(f)
  BY <1>1 DEF PreloadBytes
<1>5. Collected'
  <2>1. NoFile' = NoFile
    BY DEF NoFile
  <2> QED BY <1>1, <1>4, <2>1 DEF IInv, Collected
<1>6. Standing'
  BY <1>1, StandingStays DEF IInv
<1>7. Read'
  BY <1>1 DEF IInv, Read, diskVars
<1>8. Reported'
  BY <1>1 DEF IInv, Reported, SuccessVerifies, UntouchedRoundTrip, Stored, StoredData, diskVars
<1> QED BY <1>2, <1>3, <1>5, <1>6, <1>7, <1>8 DEF IInv

LEMMA EditStep ==
  ASSUME IInv, NEW f \in Files, NEW c \in Contents, EditSource(f, c)
  PROVE  IInv'
<1>1. UNCHANGED <<mode, diskVars, stage, lengths, file, todo, writing, result, made>>
      /\ UNCHANGED layoutVars /\ UNCHANGED <<placed, archives>> /\ UNCHANGED readVars
  BY DEF EditSource, packVars, layoutVars
<1>2. touched' = touched \cup {f} /\ src' = [src EXCEPT ![f] = c] /\ c \in Seq(Byte)
  BY InputFacts DEF EditSource
<1>3. TypeOK
  BY DEF IInv
<1>4. \A g \in Files \ touched' : src'[g] = src[g] /\ g \notin touched
  BY <1>2, <1>3 DEF TypeOK
<1>5. TypeOK'
  BY <1>1, <1>2, <1>3 DEF TypeOK, diskVars, readVars
<1>6. LaidOut'
  BY <1>1, LayoutStays DEF IInv
<1>7. \A g \in Files : PreloadBytes(g)' = PreloadBytes(g)
  BY <1>1 DEF PreloadBytes
<1>8. Collected'
  <2>1. NoFile' = NoFile
    BY DEF NoFile
  <2> QED BY <1>1, <1>4, <1>7, <2>1 DEF IInv, Collected
<1>9. Standing'
  BY <1>1, <1>2, <1>4, StandingStays DEF IInv
<1>10. Read'
  BY <1>1 DEF IInv, Read, diskVars
<1>11. Reported'
  <2>1. \A g \in Files : Stored(g)' = Stored(g)
    BY <1>1 DEF Stored, StoredData, diskVars
  <2>2. UntouchedRoundTrip'
    BY <1>1, <1>4, <2>1 DEF IInv, Reported, UntouchedRoundTrip
  <2>3. SuccessVerifies'
    BY <1>1, <1>2, <2>1 DEF IInv, Reported, SuccessVerifies, diskVars
  <2> QED BY <1>1, <2>2, <2>3 DEF IInv, Reported
<1>12. Held'
  BY <1>1 DEF IInv, Held, Reading, NothingInvented, diskVars, readVars
<1> QED BY <1>5, <1>6, <1>8, <1>9, <1>10, <1>11, <1>12 DEF IInv

LEMMA StartPackStep ==
  ASSUME IInv, StartPack
  PROVE  IInv'
<1>1. TypeOK /\ stage = "idle" /\ LaidOut /\ Collected /\ Read /\ Held
  BY DEF IInv, StartPack
<1>2. /\ stage' = "layout" /\ touched' = {} /\ result' = "none"
      /\ lengths' = [f \in Files |-> Len(src[f])] /\ file' = NoFile
      /\ UNCHANGED <<src, diskVars, todo, writing, readVars, made>>
  BY DEF StartPack, NoFile
<1>3. mode' \in {"single", "singleMd5", "multi"}
  BY InputFacts DEF StartPack
<1>4. NoFile \in [Files -> [crc : Seq(Byte), preload : Seq(Byte)]]
  BY EmptySeq DEF NoFile
<1>5. lengths' \in [Files -> 0 .. UintRange - 1]
  <2>1. ASSUME NEW f \in Files
        PROVE  Len(src[f]) \in 0 .. UintRange - 1
    <3>1. src[f] \in Seq(Byte)
      BY <1>1 DEF TypeOK
    <3>2. Len(src[f]) \in Nat
      BY <3>1
    <3>3. Len(src[f]) < UintRange
      BY DEF StartPack
    <3> QED BY <3>2, <3>3, NumberFacts
  <2> QED BY <1>2, <2>1
<1>6. TypeOK'
  BY <1>1, <1>2, <1>3, <1>4, <1>5 DEF TypeOK, diskVars, readVars
<1>7. LaidOut'
  <2>1. sizes' = [f \in Files |-> EntryLength(f)'] /\ multi' = (mode' = "multi")
    BY DEF StartPack
  <2>2. L!StartLayout(sizes, multi)'
    <3>1. /\ placed = <<>> /\ archiveIndex = 0 /\ archiveOffset = 0
          /\ currentFiles = <<>> /\ archives = <<>>
      BY <1>1 DEF LaidOut, L!StartLayout
    <3> QED BY <3>1 DEF StartPack, L!StartLayout
  <2>3. sizes' \in Seq(0 .. UintRange - 1)
    <3>1. ASSUME NEW f \in Files
          PROVE  EntryLength(f)' \in 0 .. UintRange - 1
      <4>1. lengths'[f] \in 0 .. UintRange - 1
        BY <1>5
      <4>2. lengths'[f] \in Nat /\ lengths'[f] <= UintRange - 1
        BY <4>1, NumberFacts
      <4>3. EntryLength(f)' = lengths'[f] - (IF lengths'[f] <= Preload THEN lengths'[f] ELSE Preload)
        BY DEF EntryLength, PreloadBytes
      <4>4. EntryLength(f)' \in Nat /\ EntryLength(f)' <= lengths'[f]
        BY <4>2, <4>3, NumberFacts
      <4> QED BY <4>2, <4>4, NumberFacts
    <3>2. sizes' \in [1 .. NumFiles -> 0 .. UintRange - 1]
      BY <2>1, <3>1 DEF Files
    <3> QED BY <3>2, NumberFacts
  <2>4. multi' \in BOOLEAN
    BY <2>1
  <2> PICK s : s = sizes'
    OBVIOUS
  <2> PICK m : m = multi'
    OBVIOUS
  <2>5. L!StartLayout(s, m)'
    BY <2>2 DEF L!StartLayout
  <2>6. LP!IInv' /\ LP!Chained'
    BY <2>3, <2>4, <2>5, LayoutStartNext
  <2> QED BY <1>2, <2>1, <2>6 DEF LaidOut
<1>8. Collected'
  <2>1. NoFile' = NoFile /\ \A f \in Files : NoFile[f].crc = <<>> /\ NoFile[f].preload = <<>>
    BY DEF NoFile
  <2>2. writing = None
    BY <1>1 DEF Collected
  <2> QED BY <1>2, <2>1, <2>2 DEF Collected
<1>9. Standing'
  BY <1>2 DEF Standing
<1>10. Read'
  <2>1. \A f \in Files : NoFile[f].crc = <<>>
    BY DEF NoFile
  <2> QED BY <1>1, <1>2, <2>1 DEF Read, diskVars
<1>11. Reported'
  BY <1>2 DEF Reported, SuccessVerifies, UntouchedRoundTrip
<1>12. Held'
  BY <1>1, <1>2 DEF Held, Reading, NothingInvented, diskVars, readVars
<1> QED BY <1>6, <1>7, <1>8, <1>9, <1>10, <1>11, <1>12 DEF IInv

LEMMA LayoutStepStep ==
  ASSUME IInv, LayoutStep
  PROVE  IInv'
<1>1. stage = "layout" /\ TypeOK /\ LaidOut /\ Collected /\ Read /\ Reported /\ Held
  BY DEF IInv, LayoutStep
<1>2. L!Step /\ UNCHANGED <<mode, src, diskVars, stage, lengths, file, todo, writing, result, readVars, touched, made>>
  BY DEF LayoutStep, histVars
<1>3. TypeOK'
  BY <1>1, <1>2 DEF TypeOK, diskVars, readVars
<1>4. LaidOut'
  <2>1. LP!IInv' /\ LP!Chained'
    BY <1>1, <1>2, LayoutSteps DEF LaidOut
  <2>2. UNCHANGED <<sizes, multi>>
    BY <1>2 DEF L!Step, L!PlaceEmpty, L!PlaceInCurrent, L!PlaceInNext, L!PlaceSingle,
                L!RejectTooLarge, L!RejectTooMany, L!OverflowSingle, L!FinishLayout, L!Throw
  <2>3. [f \in Files |-> EntryLength(f)]' = [f \in Files |-> EntryLength(f)]
    BY <1>2 DEF EntryLength, PreloadBytes
  <2> QED BY <1>1, <1>2, <2>1, <2>2, <2>3 DEF LaidOut
<1>5. \A f \in Files : PreloadBytes(f)' = PreloadBytes(f)
  BY <1>2 DEF PreloadBytes
<1>6. Collected'
  <2>1. NoFile' = NoFile
    BY DEF NoFile
  <2> QED BY <1>1, <1>2, <1>5, <2>1 DEF Collected
<1>7. Standing'
  BY <1>1, <1>2 DEF Standing
<1>8. Read' /\ Held'
  BY <1>1, <1>2 DEF Read, Held, Reading, NothingInvented, diskVars, readVars
<1>9. Reported'
  BY <1>1, <1>2 DEF Reported, SuccessVerifies, UntouchedRoundTrip
<1> QED BY <1>3, <1>4, <1>6, <1>7, <1>8, <1>9 DEF IInv

LEMMA StartWritingStep ==
  ASSUME IInv, StartWriting
  PROVE  IInv'
<1>1. stage = "layout" /\ phase = "placed" /\ TypeOK /\ LaidOut /\ Collected /\ Read /\ Reported /\ Held
  BY DEF IInv, StartWriting
<1>2. stage' = "writing" /\ UNCHANGED layoutVars
      /\ UNCHANGED <<mode, src, diskVars, lengths, file, writing, result, readVars, touched, made>>
  BY DEF StartWriting, histVars
<1>3. TypeOK'
  BY <1>1, <1>2 DEF TypeOK, diskVars, readVars
<1>4. LaidOut'
  <2>1. UNCHANGED LP!layoutVars /\ UNCHANGED <<sizes, multi, phase>>
    BY <1>2 DEF layoutVars, LP!layoutVars
  <2>2. LP!IInv'
    BY <1>1, <2>1, LayoutConstants, LP!StutterStep DEF LaidOut
  <2>3. LP!Chained'
    BY <1>1, <2>1, LayoutConstants, LP!ChainedStep DEF LaidOut
  <2>4. [f \in Files |-> EntryLength(f)]' = [f \in Files |-> EntryLength(f)]
    BY <1>2 DEF EntryLength, PreloadBytes
  <2> QED BY <1>1, <1>2, <2>1, <2>2, <2>3, <2>4 DEF LaidOut
<1>5. \A f \in Files : PreloadBytes(f)' = PreloadBytes(f)
  BY <1>2 DEF PreloadBytes
<1>6. Collected'
  BY <1>1, <1>2, <1>5 DEF Collected
<1>7. Standing'
  BY <1>1, StandingStarts
<1>8. Read' /\ Held'
  BY <1>1, <1>2 DEF Read, Held, Reading, NothingInvented, diskVars, readVars
<1>9. Reported'
  BY <1>1, <1>2 DEF Reported, SuccessVerifies, UntouchedRoundTrip
<1> QED BY <1>3, <1>4, <1>6, <1>7, <1>8, <1>9 DEF IInv
-----------------------------------------------------------------------------
(* The invariant after the operations of a run and after its end. *)

\* What is stored for a file is bytes, or nothing.
LEMMA StoredType ==
  ASSUME TypeOK, NEW e \in Entry, StoredData(e) # None
  PROVE  StoredData(e) \in Seq(Byte) /\ e.preload \o StoredData(e) \in Seq(Byte)
<1>1. /\ e.preload \in Seq(Byte) /\ e.offset \in Nat /\ e.length \in Nat
      /\ e.length > 0 => e.archive \in Volumes
  BY DEF Entry
<1>2. StoredData(e) \in Seq(Byte)
  <2>1. CASE e.length = 0
    <3>1. <<>> \in Seq(Byte)
      BY EmptySeq
    <3> QED BY <2>1, <3>1 DEF StoredData
  <2>2. CASE e.length # 0
    <3>1. data[e.archive] # None /\ ~ (Len(data[e.archive]) < e.offset + e.length)
          /\ StoredData(e) = SubSeq(data[e.archive], e.offset + 1, e.offset + e.length)
      BY <2>2 DEF StoredData
    <3>2. e.archive \in Volumes
      BY <1>1, <2>2
    <3>3. data[e.archive] \in Seq(Byte)
      BY <3>1, <3>2 DEF TypeOK
    <3> PICK d : d = data[e.archive]
      OBVIOUS
    <3>4. \A d1 \in Seq(Byte) : \A o, n \in Nat : ~ (Len(d1) < o + n) => SubSeq(d1, o + 1, o + n) \in Seq(Byte)
      OBVIOUS
    <3> QED BY <1>1, <3>1, <3>3, <3>4
  <2> QED BY <2>1, <2>2
<1> QED BY <1>1, <1>2, ConcatProperties

\* What the invariant says of the next operation.
LEMMA OperationFound ==
  ASSUME IInv, Operation
  PROVE  /\ Writes /\ HeadOK(Head(todo).op, Arg) /\ Standing'
         /\ TypeOK /\ Plan /\ Collected /\ stage = "writing" /\ Frame
         /\ UNCHANGED <<src, touched, stage, result, mode, placed, archives>>
<1>1. TypeOK /\ LaidOut /\ Collected /\ Standing
  BY DEF IInv
<1>2. Standing' /\ Writes /\ Somewhere
  BY <1>1, OperationStanding
<1>3. todo # <<>> /\ UNCHANGED <<stage, result>>
  BY OperationFacts
<1>4. HeadOK(Head(todo).op, Arg)
  BY <1>2, <1>3 DEF Somewhere
<1>5. /\ TypeOK /\ Plan /\ Collected /\ stage = "writing" /\ Frame
      /\ UNCHANGED <<src, touched, mode, placed, archives>>
  BY <1>2, FrameHere
<1> QED BY <1>2, <1>3, <1>4, <1>5

LEMMA OperationUnread ==
  ASSUME Operation
  PROVE  UNCHANGED layoutVars /\ UNCHANGED readVars /\ UNCHANGED lengths
  BY DEF Operation, CreateFile, CloseVolume, WritePlaceholder, ReadPreload, StreamData, HashData,
         CopyData, InlineFile, FinalizeEntry, CommitDirectory, Continue

\* What the operations do to the files of the run, to the history of what was read
\* and to the disk.
LEMMA OperationTypes ==
  ASSUME IInv, Operation
  PROVE  /\ data' \in [Volumes -> Seq(Byte) \cup {None}]
         /\ tree' \in [Files -> Entry] \cup {None}
         /\ file' \in [Files -> [crc : Seq(Byte), preload : Seq(Byte)]]
         /\ writing' \in Volumes \cup {None}
         /\ made' \in [Files -> SUBSET Seq(Byte)]
<1>1. TypeOK /\ Plan /\ HeadOK(Head(todo).op, Arg)
  BY OperationFound
<1>2. /\ data \in [Volumes -> Seq(Byte) \cup {None}]
      /\ tree \in [Files -> Entry] \cup {None}
      /\ file \in [Files -> [crc : Seq(Byte), preload : Seq(Byte)]]
      /\ writing \in Volumes \cup {None}
      /\ made \in [Files -> SUBSET Seq(Byte)]
      /\ <<>> \in Seq(Byte)
  BY <1>1, EmptySeq DEF TypeOK
<1>3. ASSUME NEW f \in Files
      PROVE  /\ PreloadBytes(f) \in Nat /\ Rest(f) \in Seq(Byte)
             /\ Len(src[f]) >= PreloadBytes(f) => SubSeq(src[f], 1, PreloadBytes(f)) \in Seq(Byte)
             /\ file[f].preload \o Rest(f) \in Seq(Byte)
  <2>1. PreloadBytes(f) \in Nat
    BY <1>1, PlaceFacts
  <2>2. file[f].preload \in Seq(Byte)
    BY <1>2
  <2> QED BY <1>1, <2>1, <2>2, RestFacts, ConcatProperties
<1>4. ASSUME NEW s \in Seq(Byte), writing \in Volumes, data[writing] \in Seq(Byte),
             data' = [data EXCEPT ![writing] = @ \o s]
      PROVE  data' \in [Volumes -> Seq(Byte) \cup {None}]
  <2>1. data[writing] \o s \in Seq(Byte)
    BY <1>4, ConcatProperties
  <2> QED BY <1>2, <1>4, <2>1
<1>5. ASSUME NEW f \in Files, NEW s \in Seq(Byte), Complete(f, s)
      PROVE  /\ file' \in [Files -> [crc : Seq(Byte), preload : Seq(Byte)]]
             /\ made' \in [Files -> SUBSET Seq(Byte)]
  <2>1. made' = [made EXCEPT ![f] = made[f] \cup {s}] /\ made[f] \cup {s} \in SUBSET Seq(Byte)
    BY <1>2, <1>5 DEF Complete
  <2>2. made' \in [Files -> SUBSET Seq(Byte)]
    BY <1>2, <2>1
  <2> QED BY <1>2, <1>5, <2>2 DEF Complete
<1>6. CASE CreateFile
  <2>1. Arg \in Volumes
    BY <1>1, <1>6 DEF CreateFile, Now, HeadOK
  <2> QED BY <1>2, <1>6, <2>1 DEF CreateFile
<1>7. CASE CloseVolume
  BY <1>2, <1>7 DEF CloseVolume, diskVars
<1>8. CASE WritePlaceholder
  <2>1. ASSUME NEW f \in Files
        PROVE  TreeEntry(f, <<>>, [i \in 1 .. PreloadBytes(f) |-> 0]) \in Entry
    <3>1. PreloadBytes(f) \in Nat /\ 0 \in Byte
      BY <1>3 DEF Byte
    <3>2. [i \in 1 .. PreloadBytes(f) |-> 0] \in Seq(Byte)
      BY <3>1
    <3> QED BY <1>1, <1>2, <3>2, TreeEntryType
  <2>2. PlaceholderTree \in [Files -> Entry]
    BY <2>1 DEF PlaceholderTree
  <2> QED BY <1>2, <1>8, <2>2 DEF WritePlaceholder
<1>9. CASE ReadPreload
  <2>1. Arg \in Files /\ SubSeq(src[Arg], 1, PreloadBytes(Arg)) \in Seq(Byte)
    BY <1>1, <1>3, <1>9 DEF ReadPreload, Now, HeadOK
  <2> QED BY <1>2, <1>9, <2>1 DEF ReadPreload, diskVars
<1>10. CASE StreamData
  <2>1. Arg \in Files /\ writing \in Volumes /\ data[writing] \in Seq(Byte)
    BY <1>1, <1>10 DEF StreamData, Now, HeadOK
  <2>2. Rest(Arg) \in Seq(Byte) /\ file[Arg].preload \o Rest(Arg) \in Seq(Byte)
    BY <1>3, <2>1
  <2>3. Complete(Arg, file[Arg].preload \o Rest(Arg)) /\ UNCHANGED <<tree, writing>>
        /\ data' = [data EXCEPT ![writing] = @ \o Rest(Arg)]
    BY <1>10 DEF StreamData
  <2> QED BY <1>2, <1>4, <1>5, <2>1, <2>2, <2>3
<1>11. CASE HashData
  <2>1. Arg \in Files
    BY <1>1, <1>11 DEF HashData, Now, HeadOK
  <2>2. file[Arg].preload \o Rest(Arg) \in Seq(Byte)
    BY <1>3, <2>1
  <2>3. Complete(Arg, file[Arg].preload \o Rest(Arg)) /\ UNCHANGED <<data, tree, writing>>
    BY <1>11 DEF HashData, diskVars
  <2> QED BY <1>2, <1>5, <2>1, <2>2, <2>3
<1>12. CASE CopyData
  <2>1. Arg \in Files /\ writing \in Volumes /\ data[writing] \in Seq(Byte)
    BY <1>1, <1>12 DEF CopyData, Now, HeadOK
  <2>2. Rest(Arg) \in Seq(Byte)
    BY <1>3, <2>1
  <2>3. UNCHANGED <<tree, file, made, writing>> /\ data' = [data EXCEPT ![writing] = @ \o Rest(Arg)]
    BY <1>12 DEF CopyData
  <2> QED BY <1>2, <1>4, <2>1, <2>2, <2>3
<1>13. CASE InlineFile
  <2>1. Arg \in Files /\ SubSeq(src[Arg], 1, PreloadBytes(Arg)) \in Seq(Byte)
    BY <1>1, <1>3, <1>13 DEF InlineFile, Now, HeadOK
  <2> PICK s : s = SubSeq(src[Arg], 1, PreloadBytes(Arg))
    OBVIOUS
  <2>2. /\ file' = [file EXCEPT ![Arg] = [crc |-> s, preload |-> s]]
        /\ made' = [made EXCEPT ![Arg] = made[Arg] \cup {s}]
        /\ UNCHANGED <<data, tree, writing>>
    BY <1>13 DEF InlineFile, diskVars
  <2>3. made[Arg] \cup {s} \in SUBSET Seq(Byte)
    BY <1>2, <2>1
  <2> QED BY <1>2, <2>1, <2>2, <2>3
<1>14. CASE FinalizeEntry
  <2>1. Arg \in Files /\ tree \in [Files -> Entry]
    BY <1>1, <1>14 DEF FinalizeEntry, Now, HeadOK
  <2>2. FinalEntry(Arg) \in Entry
    BY <1>1, <2>1, FinalEntryType
  <2> QED BY <1>2, <1>14, <2>1, <2>2 DEF FinalizeEntry
<1>15. CASE CommitDirectory
  <2>1. FinalTree \in [Files -> Entry]
    BY <1>1, FinalEntryType DEF FinalTree
  <2> QED BY <1>2, <1>15, <2>1 DEF CommitDirectory
<1> QED BY <1>6, <1>7, <1>8, <1>9, <1>10, <1>11, <1>12, <1>13, <1>14, <1>15 DEF Operation

\* A file without preload is never given one, and a file without bytes has, in
\* numbered volumes, the checksum of no bytes.
LEMMA OperationCollected ==
  ASSUME IInv, Operation
  PROVE  Collected'
<1>1. TypeOK /\ Plan /\ Collected /\ HeadOK(Head(todo).op, Arg) /\ stage' = "writing"
      /\ UNCHANGED <<src, touched, mode>> /\ Frame /\ UNCHANGED lengths
  BY OperationFound, OperationUnread
<1>2. \A f \in Files : PreloadBytes(f)' = PreloadBytes(f)
  BY <1>1, FrameFacts
<1>3. /\ stage = "writing" /\ \A f \in Files \ touched : Len(src[f]) = lengths[f]
      /\ \A f \in Files : PreloadBytes(f) = 0 => file[f].preload = <<>>
      /\ mode = "multi" => \A f \in Files : lengths[f] = 0 => file[f].crc = <<>>
      /\ file \in [Files -> [crc : Seq(Byte), preload : Seq(Byte)]]
  BY <1>1, OperationFound DEF Collected, TypeOK
<1>4. SUFFICES ASSUME NEW f \in Files
               PROVE  /\ PreloadBytes(f) = 0 => file'[f].preload = <<>>
                      /\ mode = "multi" /\ lengths[f] = 0 => file'[f].crc = <<>>
  BY <1>1, <1>2, <1>3 DEF Collected
<1>5. PreloadBytes(f) = 0 => SubSeq(src[f], 1, PreloadBytes(f)) = <<>>
  <2>1. PreloadBytes(f) \in Nat
    BY <1>1, PlaceFacts
  <2> QED BY <1>1, <2>1, RestFacts
<1>6. lengths[f] = 0 => PreloadBytes(f) = 0
  BY <1>1, PlaceFacts, LengthFacts
<1>7. CASE file'[f] = file[f]
  BY <1>3, <1>7
<1>8. CASE ReadPreload
  <2>1. file' = [file EXCEPT ![Arg].preload = SubSeq(src[Arg], 1, PreloadBytes(Arg))]
    BY <1>8 DEF ReadPreload
  <2>2. CASE Arg = f
    BY <1>3, <1>5, <2>1, <2>2
  <2> QED BY <1>3, <1>7, <2>1, <2>2
<1>9. CASE InlineFile
  <2> PICK s : s = SubSeq(src[Arg], 1, PreloadBytes(Arg))
    OBVIOUS
  <2>1. file' = [file EXCEPT ![Arg] = [crc |-> s, preload |-> s]]
    BY <1>9 DEF InlineFile
  <2>2. CASE Arg = f
    BY <1>3, <1>5, <1>6, <2>1, <2>2
  <2> QED BY <1>3, <1>7, <2>1, <2>2
<1>10. CASE StreamData
  <2>1. file' = [file EXCEPT ![Arg].crc = file[Arg].preload \o Rest(Arg)]
        /\ Len(Rest(Arg)) = EntryLength(Arg)
    BY <1>10 DEF StreamData, Complete
  <2>2. CASE Arg = f
    <3>1. file'[f].preload = file[f].preload /\ file'[f].crc = file[f].preload \o Rest(f)
      BY <1>3, <2>1, <2>2
    <3>2. ASSUME lengths[f] = 0
          PROVE  file[f].preload \o Rest(f) = <<>>
      <4>1. file[f].preload = <<>> /\ EntryLength(f) = 0
        BY <1>1, <1>3, <1>6, <3>2, PlaceFacts
      <4>2. Rest(f) \in Seq(Byte) /\ Len(Rest(f)) = 0
        BY <1>1, <2>1, <2>2, <4>1, RestFacts, PlaceFacts
      <4>3. Rest(f) = <<>>
        BY <4>2, EmptySeq
      <4> QED BY <4>1, <4>3
    <3> QED BY <1>3, <3>1, <3>2
  <2> QED BY <1>3, <1>7, <2>1, <2>2
<1>11. CASE HashData
  <2>1. file' = [file EXCEPT ![Arg].crc = file[Arg].preload \o Rest(Arg)] /\ mode = "singleMd5"
    BY <1>1, <1>11 DEF HashData, Complete, Now, HeadOK
  <2>2. file'[f].preload = file[f].preload
    BY <1>3, <2>1
  <2> QED BY <1>3, <2>1, <2>2
<1>12. ReadPreload \/ StreamData \/ HashData \/ InlineFile \/ file' = file
  BY DEF Operation, CreateFile, CloseVolume, WritePlaceholder, CopyData, FinalizeEntry, CommitDirectory
<1> QED BY <1>7, <1>8, <1>9, <1>10, <1>11, <1>12

\* A checksum is recorded together with the reading it is of.
LEMMA OperationRead ==
  ASSUME IInv, Operation
  PROVE  Read'
<1>1. TypeOK /\ HeadOK(Head(todo).op, Arg) /\ Read
  BY OperationFound DEF IInv
<1>2. /\ file \in [Files -> [crc : Seq(Byte), preload : Seq(Byte)]]
      /\ made \in [Files -> SUBSET Seq(Byte)]
  BY <1>1 DEF TypeOK
<1>3. SUFFICES ASSUME NEW f \in Files
               PROVE  /\ <<>> \in made'[f] /\ file'[f].crc \in made'[f]
                      /\ tree' # None => tree'[f].crc \in made'[f]
  BY DEF Read
<1>4. <<>> \in made[f] /\ file[f].crc \in made[f] /\ (tree # None => tree[f].crc \in made[f])
  BY <1>1 DEF Read
<1>5. ASSUME NEW g, NEW s, Complete(g, s), tree' = tree
      PROVE  /\ <<>> \in made'[f] /\ file'[f].crc \in made'[f]
             /\ tree' # None => tree'[f].crc \in made'[f]
  <2>1. CASE g = f
    BY <1>2, <1>4, <1>5, <2>1 DEF Complete
  <2>2. CASE g # f
    BY <1>2, <1>4, <1>5, <2>2 DEF Complete
  <2> QED BY <2>1, <2>2
<1>6. CASE CreateFile
  BY <1>4, <1>6 DEF CreateFile
<1>7. CASE CloseVolume
  BY <1>4, <1>7 DEF CloseVolume, diskVars
<1>8. CASE WritePlaceholder
  <2>1. tree'[f].crc = <<>>
    BY <1>8 DEF WritePlaceholder, PlaceholderTree, TreeEntry
  <2> QED BY <1>4, <1>8, <2>1 DEF WritePlaceholder
<1>9. CASE ReadPreload
  <2>1. /\ file' = [file EXCEPT ![Arg].preload = SubSeq(src[Arg], 1, PreloadBytes(Arg))]
        /\ UNCHANGED <<tree, made>>
    BY <1>9 DEF ReadPreload, diskVars
  <2>2. file'[f].crc = file[f].crc
    BY <1>2, <2>1
  <2> QED BY <1>4, <2>1, <2>2
<1>10. CASE StreamData
  BY <1>5, <1>10 DEF StreamData
<1>11. CASE HashData
  BY <1>5, <1>11 DEF HashData, diskVars
<1>12. CASE CopyData
  BY <1>4, <1>12 DEF CopyData
<1>13. CASE InlineFile
  <2> PICK s : s = SubSeq(src[Arg], 1, PreloadBytes(Arg))
    OBVIOUS
  <2>1. /\ file' = [file EXCEPT ![Arg] = [crc |-> s, preload |-> s]]
        /\ made' = [made EXCEPT ![Arg] = made[Arg] \cup {s}] /\ UNCHANGED tree
    BY <1>13 DEF InlineFile, diskVars
  <2>2. CASE Arg = f
    BY <1>2, <1>4, <2>1, <2>2
  <2>3. CASE Arg # f
    BY <1>2, <1>4, <2>1, <2>3
  <2> QED BY <2>2, <2>3
<1>14. CASE FinalizeEntry
  <2>1. Arg \in Files /\ tree \in [Files -> Entry]
    BY <1>1, <1>14 DEF FinalizeEntry, Now, HeadOK
  <2>2. tree' = [tree EXCEPT ![Arg] = FinalEntry(Arg)] /\ UNCHANGED <<file, made>>
    BY <1>14 DEF FinalizeEntry
  <2>3. tree # None
    BY <2>1, TreeIsNotNone
  <2>4. tree'[f].crc = tree[f].crc \/ tree'[f].crc = file[f].crc
    <3>1. FinalEntry(Arg).crc = file[Arg].crc
      BY DEF FinalEntry, TreeEntry
    <3>2. CASE Arg = f
      BY <2>1, <2>2, <3>1, <3>2
    <3>3. CASE Arg # f
      BY <2>1, <2>2, <3>3
    <3> QED BY <3>2, <3>3
  <2> QED BY <1>4, <2>2, <2>3, <2>4
<1>15. CASE CommitDirectory
  <2>1. tree'[f].crc = file[f].crc
    BY <1>15 DEF CommitDirectory, FinalTree, FinalEntry, TreeEntry
  <2> QED BY <1>4, <1>15, <2>1 DEF CommitDirectory
<1> QED BY <1>6, <1>7, <1>8, <1>9, <1>10, <1>11, <1>12, <1>13, <1>14, <1>15 DEF Operation

\* What a run read stays read.
LEMMA OperationMade ==
  ASSUME IInv, Operation
  PROVE  \A f \in Files : made[f] \subseteq made'[f]
<1>1. made \in [Files -> SUBSET Seq(Byte)]
  BY DEF IInv, TypeOK
<1>2. ASSUME NEW g, NEW s, made' = [made EXCEPT ![g] = made[g] \cup {s}], NEW f \in Files
      PROVE  made[f] \subseteq made'[f]
  BY <1>1, <1>2
<1>3. CASE StreamData \/ HashData
  <2>1. \E g, s : made' = [made EXCEPT ![g] = made[g] \cup {s}]
    BY <1>3 DEF StreamData, HashData, Complete
  <2> QED BY <1>2, <2>1
<1>4. CASE InlineFile
  <2>1. \E g, s : made' = [made EXCEPT ![g] = made[g] \cup {s}]
    BY <1>4 DEF InlineFile
  <2> QED BY <1>2, <2>1
<1>5. StreamData \/ HashData \/ InlineFile \/ made' = made
  BY DEF Operation, CreateFile, CloseVolume, WritePlaceholder, ReadPreload, CopyData, FinalizeEntry,
         CommitDirectory
<1> QED BY <1>3, <1>4, <1>5

\* No operation touches the tree while somebody reads it.
LEMMA OperationHeld ==
  ASSUME IInv, Operation
  PROVE  Held' /\ (Reading => tree' = tree)
<1>1. HeadOK(Head(todo).op, Arg) /\ Held /\ UNCHANGED readVars /\ Read
  BY OperationFound, OperationUnread DEF IInv
<1>2. ASSUME Reading
      PROVE  tree' = tree /\ writing' # Dir
  <2>1. writing # Dir /\ Dir \in opened
    BY <1>1, <1>2 DEF Held
  <2>2. CASE CreateFile
    <3>1. Arg # Dir
      BY <2>1, <2>2 DEF CreateFile
    <3> QED BY <2>2, <3>1 DEF CreateFile
  <2>3. CASE CloseVolume
    BY <2>3, NumberFacts, NoneFacts DEF CloseVolume, diskVars
  <2>4. CASE WritePlaceholder \/ FinalizeEntry \/ CommitDirectory
    BY <1>1, <2>1, <2>4 DEF WritePlaceholder, FinalizeEntry, CommitDirectory, Now, HeadOK
  <2>5. CASE ReadPreload \/ StreamData \/ HashData \/ CopyData \/ InlineFile
    BY <2>1, <2>5 DEF ReadPreload, StreamData, HashData, CopyData, InlineFile, diskVars
  <2> QED BY <2>2, <2>3, <2>4, <2>5 DEF Operation
<1>3. Reading' = Reading
  BY <1>1 DEF Reading, readVars
<1>4. NothingInvented'
  <2>1. \A f \in Files : made[f] \subseteq made'[f]
    BY OperationMade
  <2> QED BY <1>1, <2>1 DEF Held, NothingInvented, readVars
<1> QED BY <1>1, <1>2, <1>3, <1>4 DEF Held, readVars

LEMMA OperationStep ==
  ASSUME IInv, Operation
  PROVE  IInv'
<1>1. /\ TypeOK /\ LaidOut /\ Reported /\ Standing' /\ stage = "writing"
      /\ UNCHANGED <<src, touched, stage, result, mode, placed, archives>>
  BY OperationFound DEF IInv
<1>2. UNCHANGED layoutVars /\ UNCHANGED readVars /\ UNCHANGED lengths
  BY OperationUnread
<1>3. TypeOK'
  BY <1>1, <1>2, OperationTypes DEF TypeOK, readVars
<1>4. LaidOut'
  BY <1>1, <1>2, LayoutStays
<1>5. Reported'
  <2>1. result' # "ok"
    BY <1>1 DEF Reported
  <2> QED BY <2>1 DEF Reported, SuccessVerifies, UntouchedRoundTrip
<1> QED BY <1>1, <1>3, <1>4, <1>5, OperationCollected, OperationRead, OperationHeld DEF IInv

\* The run is at its end: what its tree says is what is stored.
LEMMA FinishedFacts ==
  ASSUME TypeOK, Plan, Finished
  PROVE  /\ \A f \in Files : (mode # "singleMd5" \/ f \notin touched) => Stored(f) = tree[f].crc
         /\ \A f \in Files \ touched : Stored(f) = src[f]
         /\ md5 # None =>
              /\ md5.tree = tree /\ md5.data = data[Dir]
              /\ \A v \in DOMAIN md5.volumes : data[v] = md5.volumes[v]
              /\ \A f \in Files : tree[f].length > 0 => tree[f].archive \in DOMAIN md5.volumes \cup {Dir}
<1>1. ASSUME NEW f \in Files
      PROVE  tree[f] = FinalEntry(f) /\ Good(f)
  BY DEF Finished, FinalTree, AllGood
<1>2. ASSUME NEW f \in Files, mode # "singleMd5" \/ f \notin touched
      PROVE  Stored(f) = tree[f].crc /\ (f \notin touched => Stored(f) = src[f])
  <2>1. StoredData(tree[f]) \in Seq(Byte) /\ file[f].preload \o StoredData(tree[f]) = file[f].crc
    BY <1>1, <1>2 DEF Good
  <2>2. StoredData(tree[f]) # None
    BY <2>1, NoneFacts
  <2>3. tree[f].preload = file[f].preload /\ tree[f].crc = file[f].crc
    <3>1. FinalEntry(f).preload = file[f].preload /\ FinalEntry(f).crc = file[f].crc
      BY DEF FinalEntry, TreeEntry
    <3> QED BY <1>1, <3>1
  <2> QED BY <1>1, <2>1, <2>2, <2>3 DEF Stored, Good
<1>3. ASSUME md5 # None
      PROVE  /\ md5.tree = tree /\ md5.data = data[Dir]
             /\ \A v \in DOMAIN md5.volumes : data[v] = md5.volumes[v]
             /\ \A f \in Files : tree[f].length > 0 => tree[f].archive \in DOMAIN md5.volumes \cup {Dir}
  <2>1. md5 = Md5Sections /\ tree = FinalTree
    BY <1>3 DEF Finished
  <2>2. /\ md5.volumes = [v \in {archives[k].index : k \in 1 .. Len(archives)} |-> data[v]]
        /\ md5.tree = tree /\ md5.data = data[Dir]
    BY <2>1 DEF Md5Sections
  <2>3. ASSUME NEW f \in Files, tree[f].length > 0
        PROVE  tree[f].archive \in {archives[k].index : k \in 1 .. Len(archives)} \cup {Dir}
    <3>1. tree[f].archive = placed[f].archive /\ EntryLength(f) > 0
      <4>1. FinalEntry(f).archive = placed[f].archive /\ FinalEntry(f).length = EntryLength(f)
        BY DEF FinalEntry, TreeEntry
      <4> QED BY <1>1, <2>3, <4>1
    <3>2. CASE mode # "multi"
      BY <3>1, <3>2 DEF Plan
    <3>3. CASE mode = "multi"
      <4>1. f \in FilesBelow(Len(archives) + 1)
        BY <3>1, <3>3 DEF Plan
      <4>2. PICK u \in 1 .. Len(archives) + 1 - 1 :
                   \E j \in 1 .. Len(archives[u].files) : archives[u].files[j] = f
        BY <4>1 DEF FilesBelow
      <4>3. Len(archives) \in Nat
        BY DEF Plan
      <4>4. u \in 1 .. Len(archives)
        BY <4>2, <4>3
      <4>5. placed[f].archive = u - 1 /\ archives[u].index = u - 1
        BY <4>2, <4>4 DEF Plan
      <4> QED BY <3>1, <4>4, <4>5
    <3> QED BY <3>2, <3>3
  <2> QED BY <2>2, <2>3
<1> QED BY <1>2, <1>3

LEMMA FinishStep ==
  ASSUME IInv, FinishPack
  PROVE  IInv'
<1>1. stage = "writing" /\ todo = <<>> /\ End("ok")
      /\ UNCHANGED <<mode, src, data, tree, md5, readVars, touched, made>>
  BY DEF FinishPack, diskVars, histVars
<1>2. TypeOK /\ LaidOut /\ Collected /\ Standing
  BY DEF IInv
<1>3. Plan /\ Finished
  BY <1>1, <1>2, StandingSomewhere DEF Somewhere
<1>4. \A f \in Files : Stored(f)' = Stored(f)
  BY <1>1 DEF Stored, StoredData
<1>5. SuccessVerifies'
  BY <1>1, <1>2, <1>3, <1>4, FinishedFacts DEF SuccessVerifies
<1>6. UntouchedRoundTrip'
  BY <1>1, <1>2, <1>3, <1>4, FinishedFacts DEF UntouchedRoundTrip
<1>7. data' \in [Volumes -> Seq(Byte) \cup {None}]
  BY <1>1, <1>2 DEF TypeOK
<1> QED BY <1>1, <1>5, <1>6, <1>7, EndStep

LEMMA FailStep ==
  ASSUME IInv, AbortPack \/ CreateRefused \/ SourceChangedLength
  PROVE  IInv'
<1>1. TypeOK /\ LaidOut /\ Collected /\ Standing
  BY DEF IInv
<1>2. CASE /\ End("failed") /\ UNCHANGED <<mode, src, diskVars, readVars, histVars>>
  <2>1. UNCHANGED <<mode, src, data, tree, md5, readVars, touched, made>>
    BY <1>2 DEF diskVars, histVars
  <2>2. data' \in [Volumes -> Seq(Byte) \cup {None}]
    BY <1>1, <2>1 DEF TypeOK
  <2> QED BY <1>2, <2>1, <2>2, EndStep
<1>3. CASE /\ Now("data") \/ Now("copy")
           /\ data' = [data EXCEPT ![writing] = @ \o Rest(Arg)]
           /\ End("failed")
           /\ UNCHANGED <<mode, src, tree, md5, readVars, histVars>>
  <2>1. UNCHANGED <<mode, src, tree, md5, readVars, touched, made>>
    BY <1>3 DEF histVars
  <2>2. stage = "writing" /\ todo # <<>> /\ Head(todo).op \in {"data", "copy"}
    BY <1>3 DEF Now
  <2>3. Plan /\ HeadOK(Head(todo).op, Arg)
    BY <1>1, <2>2, StandingSomewhere DEF Somewhere
  <2>4. Arg \in Files /\ writing \in Volumes /\ data[writing] \in Seq(Byte)
    BY <2>2, <2>3 DEF HeadOK
  <2>5. Rest(Arg) \in Seq(Byte)
    BY <1>1, <2>3, <2>4, PlaceFacts, RestFacts
  <2>6. data[writing] \o Rest(Arg) \in Seq(Byte)
    BY <2>4, <2>5, ConcatProperties
  <2>7. data' \in [Volumes -> Seq(Byte) \cup {None}]
    BY <1>1, <1>3, <2>4, <2>6 DEF TypeOK
  <2> QED BY <1>3, <2>1, <2>7, EndStep
<1> QED BY <1>2, <1>3 DEF AbortPack, CreateRefused, SourceChangedLength
-----------------------------------------------------------------------------
(* The reader, and the theorems. *)

LEMMA StartUnpackStep ==
  ASSUME IInv, NEW o \in UnpackOptions, StartUnpack(o)
  PROVE  IInv'
<1>1. /\ UnpackFrame /\ UNCHANGED <<diskVars, writing, made>>
      /\ next' = 1 /\ out' = [f \in Files |-> None]
      /\ \/ writing # Dir /\ tree # None /\ status' = "reading" /\ opened' = {Dir} /\ entries' = tree
         \/ status' = "failed"
  BY Zenon DEF StartUnpack, UnpackFrame, packVars
<1>2. Held'
  BY <1>1 DEF Held, Reading, NothingInvented, diskVars
<1> QED BY <1>1, <1>2, ReaderStep

LEMMA StopStep ==
  ASSUME IInv, UnpackFrame, StopReading("failed"), out' \in [Files -> Seq(Byte) \cup {None}]
  PROVE  IInv'
<1>1. Held'
  BY DEF StopReading, Held, Reading, NothingInvented
<1>2. next' \in Nat
  BY DEF IInv, TypeOK, StopReading
<1>3. status' \in {"idle", "reading", "ok", "failed"}
  BY DEF StopReading
<1> QED BY <1>1, <1>2, <1>3, ReaderStep

LEMMA VerifyStep ==
  ASSUME IInv, VerifyMd5
  PROVE  IInv'
<1>1. UnpackFrame /\ out' = out /\ Reading
  BY DEF VerifyMd5
<1>2. TypeOK /\ Held
  BY DEF IInv
<1>3. CASE UNCHANGED <<status, options, entries, next, opened>>
  <2>1. UNCHANGED <<diskVars, writing, made>>
    BY <1>1 DEF UnpackFrame, packVars
  <2>2. Held'
    BY <1>1, <1>2, <1>3, <2>1 DEF Held, Reading, NothingInvented, diskVars
  <2> QED BY <1>1, <1>2, <1>3, <2>2, ReaderStep DEF TypeOK
<1>4. CASE StopReading("failed")
  BY <1>1, <1>2, <1>4, StopStep DEF TypeOK
<1> QED BY <1>3, <1>4 DEF VerifyMd5

LEMMA ExtractStep ==
  ASSUME IInv, ExtractEntry
  PROVE  IInv'
<1> DEFINE e == entries[next]
           bytes == IF CanRead(e) /\ StoredData(e) # None THEN e.preload \o StoredData(e) ELSE None
<1>1. /\ Reading /\ next <= NumFiles /\ UnpackFrame
      /\ out' = [out EXCEPT ![next] = bytes]
      /\ \/ /\ bytes # None /\ (options.crc => bytes = e.crc)
            /\ next' = next + 1
            /\ opened' = IF e.length > 0 THEN opened \cup {e.archive} ELSE opened
            /\ UNCHANGED <<status, options, entries, toHash>>
         \/ StopReading("failed")
  BY DEF ExtractEntry
<1>2. TypeOK /\ Held
  BY DEF IInv
<1>3. /\ Dir \in opened /\ writing # Dir /\ tree # None /\ entries = tree
      /\ options.crc => \A f \in 1 .. next - 1 : f \in Files => out[f] = tree[f].crc
      /\ next \in Nat /\ out \in [Files -> Seq(Byte) \cup {None}]
  BY <1>1, <1>2 DEF Held, TypeOK
<1>4. next \in Files => bytes \in Seq(Byte) \cup {None}
  <2>1. ASSUME next \in Files
        PROVE  e \in Entry
    BY <1>2, <1>3, <2>1, TreeFacts
  <2> HIDE DEF e
  <2> QED BY <1>2, <2>1, StoredType
<1> HIDE DEF bytes
<1>5. out' \in [Files -> Seq(Byte) \cup {None}]
  BY <1>1, <1>3, <1>4
<1>6. CASE StopReading("failed")
  BY <1>1, <1>5, <1>6, StopStep
<1>7. CASE /\ options.crc => bytes = e.crc
           /\ next' = next + 1
           /\ opened' = IF e.length > 0 THEN opened \cup {e.archive} ELSE opened
           /\ UNCHANGED <<status, options, entries, toHash>>
  <2>1. UNCHANGED <<diskVars, writing, made>> /\ UNCHANGED tree
    BY <1>1 DEF UnpackFrame, packVars, diskVars
  <2>2. ASSUME options.crc, NEW f \in 1 .. next' - 1, f \in Files
        PROVE  out'[f] = tree[f].crc
    <3>1. CASE f = next
      <4>1. out'[f] = bytes
        BY <1>1, <1>3, <2>2, <3>1
      <4> QED BY <1>3, <1>7, <2>2, <3>1, <4>1
    <3>2. CASE f # next
      <4>1. f \in 1 .. next - 1
        BY <1>3, <1>7, <2>2, <3>2
      <4>2. out'[f] = out[f]
        BY <1>1, <1>3, <2>2, <3>2
      <4> QED BY <1>3, <2>2, <4>1, <4>2
    <3> QED BY <3>1, <3>2
  <2>3. Dir \in opened' /\ next' \in Nat
    BY <1>3, <1>7
  <2>4. Held'
    <3>1. (Reading => /\ Dir \in opened /\ writing # Dir
                      /\ tree # None /\ entries = tree
                      /\ options.crc => \A f \in 1 .. next - 1 : f \in Files => out[f] = tree[f].crc)'
      BY <1>3, <1>7, <2>1, <2>2, <2>3
    <3>2. NothingInvented'
      BY <1>1, <1>7 DEF NothingInvented, Reading
    <3> QED BY <3>1, <3>2 DEF Held
  <2> QED BY <1>1, <1>2, <1>5, <1>7, <2>3, <2>4, ReaderStep DEF TypeOK
<1> QED BY <1>1, <1>6, <1>7

\* A reader that is done has every file.
LEMMA DeliveredFacts ==
  ASSUME IInv, FinishUnpack, options.crc
  PROVE  \A f \in Files : out[f] = tree[f].crc
<1>1. Reading /\ next > NumFiles
  BY DEF FinishUnpack
<1>2. next \in Nat
  BY DEF IInv, TypeOK
<1>3. ASSUME NEW f \in Files
      PROVE  f \in 1 .. next - 1
  BY <1>1, <1>2, NumberFacts
<1> QED BY <1>1, <1>3 DEF IInv, Held

LEMMA FinishUnpackStep ==
  ASSUME IInv, FinishUnpack
  PROVE  IInv'
<1>1. UnpackFrame /\ out' = out /\ Reading /\ status' = "ok" /\ UNCHANGED <<options, next>>
      /\ UNCHANGED made
  BY DEF FinishUnpack, StopReading, UnpackFrame
<1>2. TypeOK /\ Held /\ Read
  BY DEF IInv
<1>3. NothingInvented'
  <2>1. ASSUME options.crc, NEW f \in Files
        PROVE  out[f] \in made[f]
    <3>1. tree # None
      BY <1>1, <1>2 DEF Held
    <3>2. tree[f].crc \in made[f]
      BY <1>2, <3>1 DEF Read
    <3> QED BY <2>1, <3>2, DeliveredFacts
  <2> QED BY <1>1, <2>1 DEF NothingInvented
<1>4. Held'
  BY <1>1, <1>3 DEF Held, Reading
<1> QED BY <1>1, <1>2, <1>4, ReaderStep DEF TypeOK

LEMMA AbortUnpackStep ==
  ASSUME IInv, AbortUnpack
  PROVE  IInv'
<1>1. UnpackFrame /\ out' = out /\ StopReading("failed")
  BY DEF AbortUnpack
<1> QED BY <1>1, StopStep DEF IInv, TypeOK

LEMMA StutterKeeps ==
  ASSUME IInv, UNCHANGED vars
  PROVE  IInv'
<1>1. UnpackFrame /\ UNCHANGED <<status, options, entries, next, opened, out>>
  BY DEF vars, UnpackFrame, readVars, histVars
<1>2. UNCHANGED <<diskVars, writing, made>>
  BY <1>1 DEF UnpackFrame, packVars
<1>3. Held'
  BY <1>1, <1>2 DEF IInv, Held, Reading, NothingInvented, diskVars
<1> QED BY <1>1, <1>3, ReaderStep DEF IInv, TypeOK

LEMMA InitIInv == Init => IInv
<1> SUFFICES ASSUME Init
             PROVE  IInv
  OBVIOUS
<1>1. /\ mode = "single" /\ data = [v \in Volumes |-> None] /\ tree = None
      /\ stage = "idle" /\ lengths = [f \in Files |-> 0] /\ file = NoFile
      /\ todo = <<>> /\ writing = None /\ result = "none" /\ L!StartLayout(<<>>, FALSE)
      /\ status = "idle" /\ next = 1 /\ out = [f \in Files |-> None]
      /\ touched = {} /\ made = [f \in Files |-> {<<>>}]
  BY DEF Init, NoFile
<1>2. src \in [Files -> Seq(Byte)]
  BY InputFacts DEF Init
<1>3. NoFile \in [Files -> [crc : Seq(Byte), preload : Seq(Byte)]]
  BY EmptySeq DEF NoFile
<1>4. made \in [Files -> SUBSET Seq(Byte)]
  BY <1>1, EmptySeq
<1>5. lengths \in [Files -> 0 .. UintRange - 1]
  BY <1>1, NumberFacts
<1>6. TypeOK
  BY <1>1, <1>2, <1>3, <1>4, <1>5 DEF TypeOK
<1>7. \A f \in Files : NoFile[f].crc = <<>> /\ NoFile[f].preload = <<>>
  BY DEF NoFile
<1>8. LaidOut
  <2>1. <<>> \in Seq(0 .. UintRange - 1)
    BY EmptySeq
  <2> QED BY <1>1, <2>1, LayoutStart DEF LaidOut
<1>9. Collected /\ Standing
  BY <1>1, <1>7 DEF Collected, Standing
<1>10. Read
  BY <1>1, <1>7 DEF Read
<1>11. Reported /\ Held
  BY <1>1 DEF Reported, SuccessVerifies, UntouchedRoundTrip, Held, Reading, NothingInvented
<1> QED BY <1>6, <1>8, <1>9, <1>10, <1>11 DEF IInv

LEMMA NextIs ==
  ASSUME Next
  PROVE  \/ StartPack \/ LayoutStep \/ StartWriting \/ FinishPack
         \/ AbortPack \/ CreateRefused \/ SourceChangedLength
         \/ Operation
         \/ UnpackStep
         \/ \E f \in Files, c \in Contents : EditSource(f, c)
  BY DEF Next, PackStep, Operation

LEMMA InvariantStep == IInv /\ [Next]_vars => IInv'
<1> SUFFICES ASSUME IInv, [Next]_vars
             PROVE  IInv'
  OBVIOUS
<1>1. CASE UNCHANGED vars
  BY <1>1, StutterKeeps
<1>2. CASE Next
  <2>1. CASE StartPack
    BY <2>1, StartPackStep
  <2>2. CASE LayoutStep
    BY <2>2, LayoutStepStep
  <2>3. CASE StartWriting
    BY <2>3, StartWritingStep
  <2>4. CASE FinishPack
    BY <2>4, FinishStep
  <2>5. CASE AbortPack \/ CreateRefused \/ SourceChangedLength
    BY <2>5, FailStep
  <2>6. CASE Operation
    BY <2>6, OperationStep
  <2>7. CASE UnpackStep
    BY <2>7, StartUnpackStep, VerifyStep, ExtractStep, FinishUnpackStep, AbortUnpackStep DEF UnpackStep
  <2>8. CASE \E f \in Files, c \in Contents : EditSource(f, c)
    BY <2>8, EditStep
  <2> QED BY <1>2, <2>1, <2>2, <2>3, <2>4, <2>5, <2>6, <2>7, <2>8, NextIs
<1> QED BY <1>1, <1>2

\* At every moment: the layout is the one the tree will show, the run has done
\* exactly the operations before the place it stands at, and what those files hold
\* is what their entries will say.
THEOREM PackageInvariant == Spec => []IInv
  BY InitIInv, InvariantStep, PTL DEF Spec

\* A pack run that reports success leaves a package whose checksums cover what is
\* stored, and whose MD5 sections agree with the disk, whoever edited the sources.
THEOREM PackageSuccessVerifies == Spec => []SuccessVerifies
<1>1. IInv => SuccessVerifies
  BY DEF IInv, Reported
<1> QED BY <1>1, PackageInvariant, PTL

\* A source nobody edited during the run comes back byte for byte.
THEOREM PackageUntouchedRoundTrip == Spec => []UntouchedRoundTrip
<1>1. IInv => UntouchedRoundTrip
  BY DEF IInv, Reported
<1> QED BY <1>1, PackageInvariant, PTL

\* A CRC-checked unpack delivers nothing that no pack run read from that source,
\* whatever interrupted runs left on the disk.
THEOREM PackageNothingInvented == Spec => []NothingInvented
<1>1. IInv => NothingInvented
  BY DEF IInv, Held
<1> QED BY <1>1, PackageInvariant, PTL

-----------------------------------------------------------------------------

\* What an operation does to the tree.
LEMMA TreeChange ==
  ASSUME IInv, [Next]_vars, tree' # tree
  PROVE  /\ Operation
         /\ \/ tree' = None
            \/ mode = "single"
            \/ CommitDirectory
<1>1. UNCHANGED tree \/ Operation
  <2>1. UnpackStep => UNCHANGED tree
    BY Zenon DEF UnpackStep, StartUnpack, VerifyMd5, ExtractEntry, FinishUnpack, AbortUnpack, UnpackFrame, diskVars
  <2>2. (\E f \in Files, c \in Contents : EditSource(f, c)) => UNCHANGED tree
    BY DEF EditSource, diskVars
  <2>3. StartPack \/ LayoutStep \/ StartWriting \/ FinishPack => UNCHANGED tree
    BY DEF StartPack, LayoutStep, StartWriting, FinishPack, diskVars
  <2>4. AbortPack \/ CreateRefused \/ SourceChangedLength => UNCHANGED tree
    BY DEF AbortPack, CreateRefused, SourceChangedLength, diskVars
  <2>5. UNCHANGED vars => UNCHANGED tree
    BY DEF vars, diskVars
  <2> QED BY <2>1, <2>2, <2>3, <2>4, <2>5, NextIs
<1>2. Operation /\ HeadOK(Head(todo).op, Arg)
  BY <1>1, OperationFound
<1>3. CreateFile => tree' = None
  BY DEF CreateFile
<1>4. WritePlaceholder \/ FinalizeEntry => mode = "single"
  BY <1>2 DEF WritePlaceholder, FinalizeEntry, Now, HeadOK
<1>5. ~ (CloseVolume \/ ReadPreload \/ StreamData \/ HashData \/ CopyData \/ InlineFile)
  BY DEF CloseVolume, ReadPreload, StreamData, HashData, CopyData, InlineFile, diskVars
<1> QED BY <1>2, <1>3, <1>4, <1>5 DEF Operation

\* In numbered volumes the directory is the commit point: it is written only when
\* every volume holds what it says.
THEOREM PackageDirectoryLast == Spec => DirectoryLast
<1>1. ASSUME IInv, [Next]_vars, mode = "multi", tree' # tree, tree' # None
      PROVE  \A f \in Files : Stored(f)' = tree'[f].crc
  <2>1. Operation /\ CommitDirectory
    BY <1>1, TreeChange
  <2>2. AllGood(Files) /\ tree' = FinalTree /\ data' = data
    BY <1>1, <2>1, OperationFound DEF CommitDirectory, Now, HeadOK
  <2>3. ASSUME NEW f \in Files
        PROVE  Stored(f)' = tree'[f].crc
    <3> PICK e : e = FinalEntry(f)
      OBVIOUS
    <3>1. e.preload = file[f].preload /\ e.crc = file[f].crc
      BY DEF FinalEntry, TreeEntry
    <3>2. StoredData(e) \in Seq(Byte) /\ e.preload \o StoredData(e) = e.crc
      BY <1>1, <2>2, <3>1 DEF AllGood, Good
    <3>3. StoredData(e) # None
      BY <3>2, NoneFacts
    <3>4. tree'[f] = e
      BY <2>2 DEF FinalTree
    <3>5. StoredData(tree[f])' = StoredData(e)
      BY <2>2, <3>4 DEF StoredData
    <3> QED BY <3>2, <3>3, <3>4, <3>5 DEF Stored
  <2> QED BY <2>3
<1>2. IInv /\ [Next]_vars
        => ((mode = "multi" /\ tree' # tree /\ tree' # None) => \A f \in Files : Stored(f)' = tree'[f].crc)
  BY <1>1
<1> QED BY <1>2, PackageInvariant, PTL DEF Spec, DirectoryLast
-----------------------------------------------------------------------------
(* The package as its readers see it. *)

Catalog == IF tree = None THEN None ELSE [f \in Files |-> tree[f].crc]
Reader == IF Checked THEN status ELSE "idle"
Delivered == IF Checked /\ status = "ok" THEN out ELSE None

LEMMA StoreIs ==
  /\ Store!Init <=> Catalog = None /\ Reader = "idle" /\ Delivered = None
  /\ (Reader # "reading" /\ Catalog' \in [Files -> Seq(Byte)] \cup {None}
        /\ UNCHANGED <<Reader, Delivered>>) => Store!Next
  /\ (Reader # "reading" /\ Catalog # None /\ Reader' = "reading" /\ Delivered' = None
        /\ UNCHANGED Catalog) => Store!Next
  /\ (Reader' = "failed" /\ Delivered' = None /\ UNCHANGED Catalog) => Store!Next
  /\ (Reader = "reading" /\ Reader' = "ok" /\ Delivered' = Catalog /\ UNCHANGED Catalog) => Store!Next
  /\ (Reader # "reading" /\ Reader' = "idle" /\ Delivered' = None /\ UNCHANGED Catalog) => Store!Next
  /\ UNCHANGED <<Catalog, Reader, Delivered>> <=> UNCHANGED Store!storeVars
  BY DEF Catalog, Reader, Delivered, Store!Init, Store!Next, Store!Repack, Store!Open, Store!Refuse,
         Store!Deliver, Store!Leave, Store!Catalogs, Store!storeVars

\* A reader that gives up, at whatever point.
LEMMA StopMaps ==
  ASSUME Reading, StopReading("failed"), tree' = tree
  PROVE  [Store!Next]_(Store!storeVars)
<1>1. status = "reading" /\ status' = "failed" /\ options' = options
  BY DEF Reading, StopReading
<1>2. UNCHANGED Catalog /\ Delivered' = None
  BY <1>1 DEF Catalog, Delivered
<1>3. CASE Checked
  BY <1>1, <1>2, <1>3, StoreIs DEF Reader, Checked
<1>4. CASE ~Checked
  <2>1. UNCHANGED <<Reader, Delivered>>
    BY <1>1, <1>4 DEF Reader, Delivered, Checked
  <2> QED BY <1>2, <2>1, StoreIs
<1> QED BY <1>3, <1>4

LEMMA StartMaps ==
  ASSUME IInv, NEW o \in UnpackOptions, StartUnpack(o)
  PROVE  [Store!Next]_(Store!storeVars)
<1>1. /\ status # "reading" /\ options' = o /\ tree' = tree
      /\ \/ tree # None /\ status' = "reading"
         \/ status' = "failed"
  BY Zenon DEF StartUnpack, UnpackFrame, diskVars, Reading
<1>2. UNCHANGED Catalog /\ Reader # "reading" /\ Delivered' = None
  BY <1>1 DEF Catalog, Reader, Delivered
<1>3. CASE ~Checked'
  BY <1>2, <1>3, StoreIs DEF Reader
<1>4. CASE Checked' /\ tree # None /\ status' = "reading"
  <2>1. Catalog # None
    <3>1. [f \in Files |-> tree[f].crc] \in [Files -> Seq(Byte)]
      BY <1>4, TreeFacts DEF IInv
    <3> QED BY <1>4, <3>1, NoneFacts DEF Catalog
  <2> QED BY <1>2, <1>4, <2>1, StoreIs DEF Reader
<1>5. CASE Checked' /\ status' = "failed"
  BY <1>2, <1>5, StoreIs DEF Reader
<1> QED BY <1>1, <1>3, <1>4, <1>5

LEMMA FinishMaps ==
  ASSUME IInv, FinishUnpack
  PROVE  [Store!Next]_(Store!storeVars)
<1>1. /\ status = "reading" /\ status' = "ok" /\ options' = options /\ out' = out
      /\ tree' = tree /\ tree # None
  BY DEF FinishUnpack, StopReading, UnpackFrame, diskVars, Reading, IInv, Held
<1>2. UNCHANGED Catalog
  BY <1>1 DEF Catalog
<1>3. CASE Checked
  <2>1. out = Catalog
    <3>1. \A f \in Files : out[f] = tree[f].crc
      BY <1>3, DeliveredFacts DEF Checked
    <3>2. out \in [Files -> Seq(Byte) \cup {None}]
      BY DEF IInv, TypeOK
    <3> QED BY <1>1, <3>1, <3>2 DEF Catalog
  <2> QED BY <1>1, <1>2, <1>3, <2>1, StoreIs DEF Reader, Delivered, Checked
<1>4. CASE ~Checked
  <2>1. UNCHANGED <<Reader, Delivered>>
    BY <1>1, <1>4 DEF Reader, Delivered, Checked
  <2> QED BY <1>2, <2>1, StoreIs
<1> QED BY <1>3, <1>4

\* What the packer and the editors do changes the catalog at most, and that only
\* while nobody reads.
LEMMA OthersMap ==
  ASSUME IInv, IInv', [Next]_vars, UNCHANGED readVars
  PROVE  [Store!Next]_(Store!storeVars)
<1>1. UNCHANGED <<Reader, Delivered>>
  BY DEF Reader, Delivered, Checked, readVars
<1>2. CASE tree' = tree
  BY <1>1, <1>2, StoreIs DEF Catalog
<1>3. CASE tree' # tree
  <2>1. status # "reading"
    BY <1>3, TreeChange, OperationHeld DEF Reading
  <2>2. Catalog' \in [Files -> Seq(Byte)] \cup {None}
    <3>1. TypeOK' /\ (tree \in [Files -> Entry] \cup {None})'
      BY DEF IInv, TypeOK
    <3>2. \A f \in Files : (tree' # None) => tree'[f].crc \in Seq(Byte)
      <4>1. \A e \in Entry : e.crc \in Seq(Byte)
        BY DEF Entry
      <4> QED BY <3>1, <4>1
    <3> QED BY <3>2 DEF Catalog
  <2> QED BY <1>1, <2>1, <2>2, StoreIs DEF Reader
<1> QED BY <1>2, <1>3

LEMMA UnpackMaps ==
  ASSUME IInv, UnpackStep
  PROVE  [Store!Next]_(Store!storeVars)
<1>1. CASE VerifyMd5
  <2>1. Reading /\ tree' = tree /\ out' = out
    BY <1>1 DEF VerifyMd5, UnpackFrame, diskVars
  <2>2. CASE UNCHANGED <<status, options, entries, next, opened>>
    BY <2>1, <2>2, StoreIs DEF Catalog, Reader, Delivered, Checked
  <2> QED BY <1>1, <2>1, <2>2, StopMaps DEF VerifyMd5
<1>2. CASE ExtractEntry
  <2>1. Reading /\ tree' = tree /\ status = "reading"
    BY <1>2 DEF ExtractEntry, UnpackFrame, diskVars, Reading
  <2>2. UNCHANGED <<status, options>> \/ StopReading("failed")
    BY <1>2 DEF ExtractEntry
  <2>3. CASE UNCHANGED <<status, options>>
    <3>1. UNCHANGED <<Catalog, Reader, Delivered>>
      BY <2>1, <2>3 DEF Catalog, Reader, Delivered, Checked
    <3> QED BY <3>1, StoreIs
  <2> QED BY <2>1, <2>2, <2>3, StopMaps
<1>3. CASE AbortUnpack
  <2>1. Reading /\ tree' = tree /\ StopReading("failed")
    BY <1>3 DEF AbortUnpack, UnpackFrame, diskVars
  <2> QED BY <2>1, StopMaps
<1> QED BY <1>1, <1>2, <1>3, StartMaps, FinishMaps DEF UnpackStep

LEMMA StepMaps ==
  ASSUME IInv, [Next]_vars
  PROVE  [Store!Next]_(Store!storeVars)
<1>1. IInv'
  BY InvariantStep
<1>2. UnpackStep \/ UNCHANGED readVars
  <2>1. StartPack \/ LayoutStep \/ StartWriting \/ FinishPack => UNCHANGED readVars
    BY DEF StartPack, LayoutStep, StartWriting, FinishPack
  <2>2. AbortPack \/ CreateRefused \/ SourceChangedLength => UNCHANGED readVars
    BY DEF AbortPack, CreateRefused, SourceChangedLength
  <2>3. (\E f \in Files, c \in Contents : EditSource(f, c)) => UNCHANGED readVars
    BY DEF EditSource
  <2>4. UNCHANGED vars => UNCHANGED readVars
    BY DEF vars
  <2> QED BY <2>1, <2>2, <2>3, <2>4, NextIs, OperationUnread
<1> QED BY <1>1, <1>2, UnpackMaps, OthersMap

\* Packer, unpacker and editors together implement a catalog that is replaced only
\* while nobody reads it, and readers that get all of it or an error.
THEOREM PackageRefinesStore == Spec => PackageIsStore
<1>1. Init => Store!Init
  <2>1. Init => Catalog = None /\ Reader = "idle" /\ Delivered = None
    BY DEF Init, Catalog, Reader, Delivered, Checked
  <2> QED BY <2>1, StoreIs
<1>2. IInv /\ [Next]_vars => [Store!Next]_(Store!storeVars)
  BY StepMaps
<1> QED BY <1>1, <1>2, PackageInvariant, PTL DEF Spec, PackageIsStore, Store!Spec
=============================================================================

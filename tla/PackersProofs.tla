--------------------------- MODULE PackersProofs ---------------------------
(***************************************************************************)
(* The packers that MCPackers puts beside the layout, for every value of    *)
(* their constants: the wrapper of Valve's tool keeps what the tool made,    *)
(* and an addon package gives back what was packed and refines PackageStore. *)
(*                                                                         *)
(* The addon's invariant says what a pass over an input that nobody edits    *)
(* has read, what it has written so far, and where an unpack stands in it.    *)
(* That the lengths of the files add up to their places is induction over     *)
(* the file list.                                                            *)
(***************************************************************************)
EXTENDS MCPackers, VpkLayoutProofs, SequenceTheorems, TLAPS

-----------------------------------------------------------------------------
(* The wrapper of the VPK tool. *)

\* The types; None is not a run's number.
ToolType ==
  /\ same \in BOOLEAN /\ disk \in [Tool!Places -> [Volumes -> Nat \cup {None}]]
  /\ run \in Nat /\ made \subseteq Volumes /\ todo \subseteq Volumes
  /\ step \in {"start", "tool", "moving", "ok", "failed", "crashed"}
  /\ wanted \subseteq Volumes

\* While the volumes are moved, those to come are in the input folder.
ToolKept ==
  /\ step = "tool" => \A v \in made : disk["input"][v] = run
  /\ step = "moving" =>
       /\ wanted = made
       /\ \A v \in made : disk[IF v \in todo THEN "input" ELSE Tool!Target][v] = run

ToolInv == ToolType /\ ToolKept /\ Tool!MadeIsKept

\* No step of the tool, of the wrapper or of a crash breaks it.
LEMMA ToolStep ==
  ASSUME None \notin Nat, ToolInv, [Tool!Next]_(Tool!vars)
  PROVE  ToolInv'
<1> USE DEF ToolInv, ToolType, ToolKept, Tool!MadeIsKept, Tool!Places, Tool!Target, Tool!End
<1>1. CASE Tool!LaunchTool
  BY <1>1 DEF Tool!LaunchTool
<1>2. CASE Tool!ToolExits
  BY <1>2 DEF Tool!ToolExits, Tool!There
<1>3. CASE Tool!Finish
  BY <1>3 DEF Tool!Finish
<1>4. CASE Tool!Abort \/ Tool!Crash \/ Tool!NextRun
  BY <1>4 DEF Tool!Abort, Tool!Crash, Tool!NextRun
<1>5. ASSUME NEW v \in Volumes, Tool!ToolWrites(v)
      PROVE  ToolInv'
  BY <1>5 DEF Tool!ToolWrites
<1>6. ASSUME NEW v \in Volumes, Tool!ClearTarget(v)
      PROVE  ToolInv'
  BY <1>6 DEF Tool!ClearTarget
<1>7. ASSUME NEW v \in Volumes, Tool!MoveVolume(v)
      PROVE  ToolInv'
  BY <1>7 DEF Tool!MoveVolume
<1>8. CASE UNCHANGED Tool!vars
  BY <1>8 DEF Tool!vars
<1> QED BY <1>1, <1>2, <1>3, <1>4, <1>5, <1>6, <1>7, <1>8 DEF Tool!Next

\* So it holds in every state.
LEMMA ToolAlways ==
  ASSUME None \notin Nat
  PROVE  Tool!Spec => []ToolInv
<1>1. Tool!Init => ToolInv
  BY DEF Tool!Init, ToolInv, ToolType, ToolKept, Tool!MadeIsKept, Tool!Places, Tool!Target
<1>2. ToolInv /\ [Tool!Next]_(Tool!vars) => ToolInv'
  BY ToolStep
<1> QED BY <1>1, <1>2, PTL DEF Tool!Spec

\* The VPK tool, for any volumes and any number of runs, crashes included: when a
\* run ends well, every volume the tool made is where the run was asked to put it,
\* and none of them is a volume of another run (VpkToolPack!MadeIsKept).
THEOREM PackersToolKept ==
  ASSUME None \notin Nat
  PROVE  Tool!Spec => []ToolMadeIsKept
<1>1. ToolInv => ToolMadeIsKept
  BY DEF ToolInv, ToolMadeIsKept
<1> QED BY <1>1, ToolAlways, PTL

-----------------------------------------------------------------------------
(* Garry's Mod addons. *)

\* Kept folded where only its closure under the operators on sequences counts.
Bytes == Seq(Byte)

\* What the addon's theorems need to know: there is something to pack, the sources
\* are bytes, and None is neither a content nor a list of them.
GmaConstants ==
  /\ NumFiles \in Nat \ {0} /\ Contents \subseteq Bytes
  /\ None \notin Bytes
  /\ \A files \in [Gma!Files -> Bytes \cup {None}] : files # None

\* A file list as the reader finds it.
GmaEntries == [Gma!Files -> [length : Nat, crc : Bytes]]

\* The types, of what the packer and of what the unpacker changes.
GmaPackType ==
  /\ source \in [Gma!Files -> Bytes]
  /\ stage \in {"idle", "staging", "listing", "hashing", "writing", "copying"}
  /\ staged \in [Gma!Files -> Bytes \cup {None}] \cup {None}
  /\ at \in 1 .. NumFiles + 1
  /\ lengths \in [Gma!Files -> Nat]
  /\ crcs \in [Gma!Files -> Bytes \cup {None}]
  /\ list \in GmaEntries \cup {None}
  /\ data \in Bytes \cup {None}
  /\ hashed \in [Gma!Files -> Bytes \cup {None}]
  /\ edited \in BOOLEAN /\ dirty \in BOOLEAN

GmaReadType ==
  /\ status \in {"idle", "reading", "ok", "failed"}
  /\ options \in Gma!Options
  /\ next \in 1 .. NumFiles + 1 /\ position \in Nat
  /\ out \in [Gma!Files -> Bytes \cup {None}]

GmaType == GmaPackType /\ GmaReadType

\* What a pass has read so far, and who may have the output open.
GmaPass ==
  /\ stage = "staging" => staged # None /\ \A f \in 1 .. at - 1 : staged[f] \in Bytes
  /\ stage \in {"listing", "hashing", "writing", "copying"} /\ staged # None =>
       \A f \in Gma!Files : staged[f] \in Bytes
  /\ stage = "hashing" => \A f \in 1 .. at - 1 : crcs[f] \in Bytes
  /\ stage = "writing" => \A f \in Gma!Files : crcs[f] \in Bytes
  /\ stage = "writing" => crcs = hashed /\ data = <<>> /\ list = None
  /\ stage = "copying" => data # None
  /\ Gma!Locked => status # "reading"

\* A pass that nobody disturbed has hashed, and copies, what its input holds.
GmaHashed ==
  /\ stage = "hashing" /\ ~edited =>
       /\ \A f \in Gma!Files : lengths[f] = Len(Gma!Input[f])
       /\ \A f \in 1 .. at - 1 : crcs[f] = Gma!Input[f]
  /\ Gma!Locked /\ ~dirty => \A f \in Gma!Files :
       hashed[f] = Gma!Input[f] /\ (stage = "writing" => lengths[f] = Len(hashed[f]))

\* The data are the first n files, one after the other.
GmaWritten(n) ==
  /\ Len(data) = Gma!DataLength(list, n)
  /\ \A f \in 1 .. n :
       SubSeq(data, Gma!DataLength(list, f - 1) + 1, Gma!DataLength(list, f)) = hashed[f]

\* The package of such a pass, or as much of it as there is.
GmaMade ==
  ~dirty /\ list # None =>
    /\ data # None
    /\ \A f \in Gma!Files : hashed[f] \in Bytes /\ list[f].length = Len(hashed[f])
    /\ \E n \in 0 .. NumFiles : GmaWritten(n) /\ (stage = "copying" => n = at - 1)

\* An unpack stands where the file it comes to begins.
GmaRead ==
  status = "reading" =>
    /\ data # None /\ Gma!Intact
    /\ position = Gma!DataLength(list, next - 1)
    /\ Gma!Checked => \A f \in 1 .. next - 1 : out[f] = list[f].crc
    /\ ~dirty => \A f \in 1 .. next - 1 : f \in options.only => out[f] = hashed[f]

GmaInv == GmaType /\ GmaPass /\ GmaHashed /\ GmaMade /\ GmaRead

-----------------------------------------------------------------------------
(* Lists and contents. *)

\* DataLength adds up the lengths one by one.
LEMMA DataLengthRecursion ==
  ASSUME GmaConstants, NEW e \in GmaEntries
  PROVE  /\ Gma!DataLength(e, 0) = 0
         /\ \A n \in 0 .. NumFiles : Gma!DataLength(e, n) \in Nat
         /\ \A n \in 1 .. NumFiles :
              Gma!DataLength(e, n) = Gma!DataLength(e, n - 1) + e[n].length
<1> DEFINE D == [k \in 1 .. NumFiles |-> [s \in Nat |-> s + e[k].length]]
           Sum(g) == [m \in 0 .. NumFiles |-> IF m = 0 THEN 0 ELSE g[m - 1] + e[m].length]
<1>1. \A k \in 1 .. NumFiles : e[k].length \in Nat
  BY DEF GmaEntries, Gma!Files
<1>2. \A k \in 1 .. NumFiles : \A s \in Nat : D[k][s] = s + e[k].length /\ D[k][s] \in Nat
  BY <1>1
<1>3. NumFiles \in Nat
  BY DEF GmaConstants
<1>4. PICK g : RecursiveOn(g, 0, D, Nat, NumFiles)
  <2>1. StepWithin(D, Nat, NumFiles)
    BY <1>2 DEF StepWithin
  <2> HIDE DEF D
  <2> QED BY <2>1, <1>3, PrimitiveRecursion
<1>5. g = Sum(g)
  <2>1. \A k \in 1 .. NumFiles : g[k - 1] \in Nat
    BY <1>3, <1>4 DEF RecursiveOn
  <2>2. \A k \in 1 .. NumFiles : g[k] = g[k - 1] + e[k].length
    <3> HIDE DEF D
    <3> QED BY <1>2, <1>4, <2>1 DEF RecursiveOn
  <2>3. \A k \in 0 .. NumFiles : g[k] = Sum(g)[k]
    BY <2>2, <1>4, <1>3 DEF RecursiveOn
  <2>4. g \in [0 .. NumFiles -> Nat] /\ DOMAIN Sum(g) = 0 .. NumFiles
    BY <1>4 DEF RecursiveOn
  <2>5. g = [k \in 0 .. NumFiles |-> g[k]]
    BY <2>4
  <2> QED BY <2>3, <2>5
<1> DEFINE total == CHOOSE h : h = Sum(h)
<1>6. total = Sum(total)
  BY <1>5
<1>7. \A n : Gma!DataLength(e, n) = total[n]
  BY DEF Gma!DataLength
<1>8. total[0] = 0 /\ \A k \in 1 .. NumFiles : total[k] = total[k - 1] + e[k].length
  <2> HIDE DEF total
  <2>1. \A k \in 0 .. NumFiles : total[k] = IF k = 0 THEN 0 ELSE total[k - 1] + e[k].length
    BY <1>6
  <2> QED BY <2>1, <1>3
<1>9. \A n \in 0 .. NumFiles : total[n] \in Nat
  <2> HIDE DEF total
  <2> DEFINE Ok == {n \in Nat : n <= NumFiles => total[n] \in Nat}
  <2>1. 0 \in Ok
    BY <1>8
  <2>2. \A n \in Nat : n \in Ok => n + 1 \in Ok
    <3> TAKE n \in Nat
    <3> HAVE n \in Ok
    <3>1. CASE n + 1 <= NumFiles
      <4>1. n + 1 \in 1 .. NumFiles /\ total[n] \in Nat
        BY <3>1, <1>3
      <4>2. total[n + 1] = total[n] + e[n + 1].length /\ e[n + 1].length \in Nat
        BY <4>1, <1>8, <1>1
      <4> QED BY <4>1, <4>2
    <3>2. CASE ~ (n + 1 <= NumFiles)
      BY <3>2
    <3> QED BY <3>1, <3>2
  <2>3. Nat \subseteq Ok
    <3> HIDE DEF Ok
    <3> QED BY <2>1, <2>2, NaturalsUpward
  <2> QED BY <2>3, <1>3
<1> HIDE DEF total
<1> QED BY <1>7, <1>8, <1>9

\* The place of a file is not before that of an earlier one.
LEMMA DataLengthGrows ==
  ASSUME GmaConstants, NEW e \in GmaEntries, NEW m \in 0 .. NumFiles, NEW n \in m .. NumFiles
  PROVE  Gma!DataLength(e, m) <= Gma!DataLength(e, n)
<1> DEFINE L(k) == Gma!DataLength(e, k)
           Ok == {d \in Nat : m + d <= NumFiles => L(m) <= L(m + d)}
<1>1. NumFiles \in Nat
  BY DEF GmaConstants
<1>2. \A k \in 0 .. NumFiles : L(k) \in Nat
  BY DataLengthRecursion
<1>3. \A k \in 1 .. NumFiles : L(k) = L(k - 1) + e[k].length
  BY DataLengthRecursion
<1>4. \A k \in 1 .. NumFiles : e[k].length \in Nat
  BY DEF GmaEntries, Gma!Files
<1> HIDE DEF L
<1>5. 0 \in Ok
  BY <1>2
<1>6. \A d \in Nat : d \in Ok => d + 1 \in Ok
  <2> TAKE d \in Nat
  <2> HAVE d \in Ok
  <2>1. CASE m + d + 1 <= NumFiles
    <3>1. m + d + 1 \in 1 .. NumFiles /\ m + d \in 0 .. NumFiles
      BY <2>1, <1>1
    <3>2. L(m) <= L(m + d) /\ L(m) \in Nat /\ L(m + d) \in Nat
      BY <3>1, <1>2
    <3>3. L(m + d + 1) = L(m + d) + e[m + d + 1].length
      BY <3>1, <1>3
    <3>4. L(m) <= L(m + d + 1)
      BY <3>1, <3>2, <3>3, <1>4
    <3>5. m + (d + 1) = m + d + 1
      OBVIOUS
    <3> QED BY <3>4, <3>5
  <2>2. CASE ~ (m + d + 1 <= NumFiles)
    BY <2>2
  <2> QED BY <2>1, <2>2
<1>7. Nat \subseteq Ok
  <2> HIDE DEF Ok
  <2> QED BY <1>5, <1>6, NaturalsUpward
<1>8. n - m \in Nat /\ m + (n - m) = n
  BY <1>1
<1> QED BY <1>7, <1>8, <1>1 DEF L

\* What the proofs need to know of contents.
LEMMA BytesFacts ==
  /\ <<>> \in Bytes /\ Len(<<>>) = 0
  /\ \A s \in Bytes : Len(s) \in Nat /\ (Len(s) = 0 => s = <<>>)
  /\ \A s, t \in Bytes : s \o t \in Bytes /\ Len(s \o t) = Len(s) + Len(t)
  /\ \A s \in Bytes : \A m \in Nat, n \in 0 .. Len(s) : SubSeq(s, m + 1, n) \in Bytes
BY DEF Bytes

\* What is appended leaves the places before it alone, and can be read back.
LEMMA Appended ==
  ASSUME NEW s \in Bytes, NEW t \in Bytes
  PROVE  /\ \A m \in Nat : \A n \in m .. Len(s) : SubSeq(s \o t, m + 1, n) = SubSeq(s, m + 1, n)
         /\ SubSeq(s \o t, Len(s) + 1, Len(s) + Len(t)) = t
<1> DEFINE B == Bytes
<1>1. s \in Seq(Byte) /\ t \in Seq(Byte) /\ Len(s) \in Nat /\ Len(t) \in Nat
  BY DEF Bytes
<1>2. ASSUME NEW m \in Nat, NEW n \in m .. Len(s)
      PROVE  SubSeq(s \o t, m + 1, n) = SubSeq(s, m + 1, n)
  <2>1. CASE m = n
    <3>1. m + 1 \in Int /\ n \in Int /\ n < m + 1
      BY <2>1
    <3>2. SubSeq(s \o t, m + 1, n) = <<>> /\ SubSeq(s, m + 1, n) = <<>>
      BY <3>1, SubSeqEmpty
    <3> QED BY <3>2
  <2>2. CASE m # n
    <3>1. m + 1 \in 1 .. Len(s) /\ n \in 1 .. Len(s)
      BY <2>2, <1>1
    <3> QED BY <3>1, <1>1, SubSeqOfConcat1
  <2> QED BY <2>1, <2>2
<1>3. SubSeq(s \o t, Len(s) + 1, Len(s) + Len(t)) = t
  <2>1. CASE Len(t) = 0
    <3>1. t = <<>>
      BY <2>1, BytesFacts
    <3>2. Len(s) + 1 \in Int /\ Len(s) + Len(t) \in Int /\ Len(s) + Len(t) < Len(s) + 1
      BY <2>1, <1>1
    <3>3. SubSeq(s \o t, Len(s) + 1, Len(s) + Len(t)) = <<>>
      BY <3>2, SubSeqEmpty
    <3> QED BY <3>1, <3>3
  <2>2. CASE Len(t) # 0
    <3>1. /\ Len(s) + 1 \in Len(s) + 1 .. Len(s) + Len(t)
          /\ Len(s) + Len(t) \in Len(s) + 1 .. Len(s) + Len(t)
      BY <2>2, <1>1
    <3>2. SubSeq(s \o t, Len(s) + 1, Len(s) + Len(t))
            = SubSeq(t, Len(s) + 1 - Len(s), Len(s) + Len(t) - Len(s))
      BY <3>1, <1>1, SubSeqOfConcat2
    <3>3. Len(s) + 1 - Len(s) = 1 /\ Len(s) + Len(t) - Len(s) = Len(t)
      BY <1>1
    <3>4. SubSeq(t, 1, Len(t)) = t
      BY <1>1, SubSeqFull
    <3> QED BY <3>2, <3>3, <3>4
  <2> QED BY <2>1, <2>2
<1> QED BY <1>2, <1>3

-----------------------------------------------------------------------------
(* The steps, one part of the invariant after the other. *)

\* Every step keeps the types of the packer's variables,
LEMMA GmaPackTypeStep ==
  ASSUME GmaConstants, GmaPackType, GmaPass, [Gma!Next]_(Gma!vars)
  PROVE  GmaPackType'
<1> USE DEF GmaPackType, Gma!Files, Gma!NoFiles, Gma!sourceVars, Gma!packVars, Gma!history
<1>1. CASE Gma!StageFile
  <2>1. CASE at > NumFiles
    BY <1>1, <2>1 DEF Gma!StageFile, Gma!Goto, GmaConstants
  <2>2. CASE ~ (at > NumFiles)
    <3>1. at \in Gma!Files /\ at + 1 \in 1 .. NumFiles + 1
      BY <2>2 DEF GmaConstants
    <3>2. staged' \in [Gma!Files -> Bytes \cup {None}]
      BY <1>1, <2>2, <3>1 DEF Gma!StageFile, GmaPass
    <3> QED BY <1>1, <2>2, <3>1, <3>2 DEF Gma!StageFile, Gma!Advance
  <2> QED BY <2>1, <2>2
<1>2. CASE Gma!CollectFiles
  <2>1. \A f \in Gma!Files : Len(Gma!Input[f]) \in Nat
    BY <1>2, BytesFacts DEF Gma!CollectFiles, Gma!Input, GmaPass
  <2>2. lengths' \in [Gma!Files -> Nat]
    BY <1>2, <2>1 DEF Gma!CollectFiles
  <2>3. stage' = "hashing" /\ at' = 1 /\ 1 \in 1 .. NumFiles + 1
    BY <1>2 DEF Gma!CollectFiles, Gma!Goto, GmaConstants
  <2> QED BY <1>2, <2>2, <2>3 DEF Gma!CollectFiles
<1>3. CASE Gma!HashFile
  <2>1. at \in Gma!Files /\ Gma!Input[at] \in Bytes
    BY <1>3 DEF Gma!HashFile, Gma!Input, GmaPass
  <2> QED BY <1>3, <2>1 DEF Gma!HashFile, Gma!Advance, GmaConstants
<1>4. CASE Gma!CreateOutput
  BY <1>4, BytesFacts DEF Gma!CreateOutput, Gma!EndPack, Gma!Goto, GmaConstants
<1>5. CASE Gma!WriteList
  <2>1. list' \in GmaEntries
    BY <1>5 DEF Gma!WriteList, GmaPass, GmaEntries
  <2> QED BY <1>5, <2>1 DEF Gma!WriteList, Gma!Goto, GmaConstants
<1>6. CASE Gma!CopyFile
  <2>1. at \in Gma!Files /\ Gma!Input[at] \in Bytes /\ data \in Bytes
    BY <1>6 DEF Gma!CopyFile, Gma!Input, GmaPass
  <2>2. data \o Gma!Input[at] \in Bytes
    BY <2>1, BytesFacts
  <2> QED BY <1>6, <2>1, <2>2 DEF Gma!CopyFile, Gma!Advance, GmaConstants
<1>7. CASE Gma!FinishPack
  BY <1>7 DEF Gma!FinishPack, Gma!EndPack
<1>8. CASE Gma!AbortPack
  BY <1>8 DEF Gma!AbortPack, Gma!EndPack
<1>9. CASE Gma!SkipEntry
  BY <1>9 DEF Gma!SkipEntry
<1>10. CASE Gma!ExtractEntry
  BY <1>10 DEF Gma!ExtractEntry
<1>11. CASE Gma!FinishUnpack
  BY <1>11 DEF Gma!FinishUnpack
<1>12. CASE Gma!AbortUnpack
  BY <1>12 DEF Gma!AbortUnpack
<1>13. ASSUME NEW copied \in BOOLEAN, Gma!StartPack(copied)
      PROVE  GmaPackType'
  BY <1>13 DEF Gma!StartPack, Gma!Goto, GmaConstants
<1>14. ASSUME NEW o \in Gma!Options, Gma!OpenPackage(o)
      PROVE  GmaPackType'
  BY <1>14 DEF Gma!OpenPackage
<1>15. ASSUME NEW f \in Gma!Files, NEW c \in Contents, Gma!EditSource(f, c)
      PROVE  GmaPackType'
  BY <1>15 DEF Gma!EditSource, GmaConstants, Bytes
<1>16. CASE UNCHANGED Gma!vars
  BY <1>16 DEF Gma!vars
<1> QED
  BY <1>1, <1>2, <1>3, <1>4, <1>5, <1>6, <1>7, <1>8, <1>9, <1>10, <1>11, <1>12, <1>13, <1>14,
     <1>15, <1>16 DEF Gma!Next

\* and of the unpacker's: what it reads is in the list, so the places are numbers.
LEMMA GmaReadTypeStep ==
  ASSUME GmaConstants, GmaPackType, GmaReadType, GmaRead, [Gma!Next]_(Gma!vars)
  PROVE  GmaReadType'
<1> USE DEF GmaReadType, Gma!Files, Gma!NoFiles, Gma!Options, Gma!unpackVars
<1>1. CASE Gma!StageFile
  BY <1>1 DEF Gma!StageFile, Gma!Goto, Gma!Advance
<1>2. CASE Gma!CollectFiles
  BY <1>2 DEF Gma!CollectFiles, Gma!Goto, Gma!Input
<1>3. CASE Gma!HashFile
  BY <1>3 DEF Gma!HashFile, Gma!Advance, Gma!Input
<1>4. CASE Gma!CreateOutput
  BY <1>4 DEF Gma!CreateOutput, Gma!EndPack, Gma!Goto
<1>5. CASE Gma!WriteList
  BY <1>5 DEF Gma!WriteList, Gma!Goto
<1>6. CASE Gma!CopyFile
  BY <1>6 DEF Gma!CopyFile, Gma!Advance, Gma!Input
<1>7. CASE Gma!FinishPack
  BY <1>7 DEF Gma!FinishPack, Gma!EndPack
<1>8. CASE Gma!AbortPack
  BY <1>8 DEF Gma!AbortPack, Gma!EndPack
<1>9. CASE Gma!SkipEntry
  <2>1. list \in GmaEntries /\ next \in Gma!Files
    BY <1>9 DEF Gma!SkipEntry, GmaRead, GmaPackType, Gma!Intact, GmaConstants
  <2>2. list[next].length \in Nat
    BY <2>1 DEF GmaEntries
  <2>3. next + 1 \in 1 .. NumFiles + 1 /\ position + list[next].length \in Nat
    BY <2>1, <2>2 DEF GmaConstants
  <2> QED BY <1>9, <2>3 DEF Gma!SkipEntry
<1>10. CASE Gma!ExtractEntry
  <2>1. list \in GmaEntries /\ data \in Bytes /\ next \in Gma!Files
    BY <1>10 DEF Gma!ExtractEntry, GmaRead, GmaPackType, Gma!Intact, GmaConstants
  <2>2. list[next].length \in Nat /\ Len(data) \in Nat
    BY <2>1, BytesFacts DEF GmaEntries
  <2> DEFINE end == position + list[next].length
             last == IF end <= Len(data) THEN end ELSE Len(data)
  <2>3. SubSeq(data, position + 1, last) \in Bytes
    BY <2>1, <2>2, BytesFacts
  <2>4. next + 1 \in 1 .. NumFiles + 1 /\ end \in Nat
    BY <2>1, <2>2 DEF GmaConstants
  <2>5. out' = [out EXCEPT ![next] = SubSeq(data, position + 1, last)]
        /\ position' = end /\ next' = next + 1 /\ status' \in {"reading", "failed"}
        /\ UNCHANGED options
    BY <1>10 DEF Gma!ExtractEntry
  <2> HIDE DEF last, end
  <2> QED BY <2>1, <2>3, <2>4, <2>5
<1>11. CASE Gma!FinishUnpack
  BY <1>11 DEF Gma!FinishUnpack
<1>12. CASE Gma!AbortUnpack
  BY <1>12 DEF Gma!AbortUnpack
<1>13. ASSUME NEW copied \in BOOLEAN, Gma!StartPack(copied)
      PROVE  GmaReadType'
  BY <1>13 DEF Gma!StartPack, Gma!Goto
<1>14. ASSUME NEW o \in Gma!Options, Gma!OpenPackage(o)
      PROVE  GmaReadType'
  BY <1>14 DEF Gma!OpenPackage, GmaConstants
<1>15. ASSUME NEW f \in Gma!Files, NEW c \in Contents, Gma!EditSource(f, c)
      PROVE  GmaReadType'
  BY <1>15 DEF Gma!EditSource
<1>16. CASE UNCHANGED Gma!vars
  BY <1>16 DEF Gma!vars
<1> QED
  BY <1>1, <1>2, <1>3, <1>4, <1>5, <1>6, <1>7, <1>8, <1>9, <1>10, <1>11, <1>12, <1>13, <1>14,
     <1>15, <1>16 DEF Gma!Next

\* Every step keeps what a pass has read, and the output's only user.
LEMMA GmaPassStep ==
  ASSUME GmaConstants, GmaPackType, GmaPass, GmaRead, [Gma!Next]_(Gma!vars)
  PROVE  GmaPass'
<1> USE DEF GmaPackType, GmaPass, Gma!Files, Gma!Locked, Gma!sourceVars, Gma!packVars,
            Gma!unpackVars, Gma!history
<1>1. CASE Gma!StageFile
  <2>1. CASE at > NumFiles
    <3>1. at - 1 = NumFiles
      BY <2>1 DEF GmaConstants
    <3> QED BY <1>1, <2>1, <3>1 DEF Gma!StageFile, Gma!Goto
  <2>2. CASE ~ (at > NumFiles)
    <3>1. at \in Gma!Files /\ at' - 1 = at
      BY <1>1, <2>2 DEF Gma!StageFile, Gma!Advance, GmaConstants
    <3>2. staged \in [Gma!Files -> Bytes \cup {None}]
          /\ staged' = [staged EXCEPT ![at] = source[at]]
      BY <1>1, <2>2 DEF Gma!StageFile
    <3>3. staged' \in [Gma!Files -> Bytes \cup {None}] /\ staged'[at] \in Bytes
      BY <3>1, <3>2
    <3>4. staged' # None
      BY <3>3 DEF GmaConstants
    <3>5. \A f \in 1 .. at' - 1 : staged'[f] \in Bytes
      BY <1>1, <3>1, <3>2, <3>3 DEF Gma!StageFile
    <3> QED BY <1>1, <2>2, <3>4, <3>5 DEF Gma!StageFile, Gma!Advance
  <2> QED BY <2>1, <2>2
<1>2. CASE Gma!CollectFiles
  BY <1>2 DEF Gma!CollectFiles, Gma!Goto, Gma!Input
<1>3. CASE Gma!HashFile
  BY <1>3 DEF Gma!HashFile, Gma!Advance, Gma!Input
<1>4. CASE Gma!CreateOutput
  <2>1. at - 1 = NumFiles
    BY <1>4 DEF Gma!CreateOutput, GmaConstants
  <2>2. \A f \in Gma!Files : crcs[f] \in Bytes
    BY <1>4, <2>1 DEF Gma!CreateOutput
  <2> QED BY <1>4, <2>2, BytesFacts DEF Gma!CreateOutput, Gma!EndPack, Gma!Goto
<1>5. CASE Gma!WriteList
  <2>1. data # None
    BY <1>5, BytesFacts DEF Gma!WriteList, GmaConstants
  <2> QED BY <1>5, <2>1 DEF Gma!WriteList, Gma!Goto
<1>6. CASE Gma!CopyFile
  <2>1. at \in Gma!Files /\ Gma!Input[at] \in Bytes /\ data \in Bytes
    BY <1>6 DEF Gma!CopyFile, Gma!Input
  <2>2. data' \in Bytes
    BY <1>6, <2>1, BytesFacts DEF Gma!CopyFile
  <2>3. data' # None
    BY <2>2 DEF GmaConstants
  <2> QED BY <1>6, <2>3 DEF Gma!CopyFile, Gma!Advance
<1>7. CASE Gma!FinishPack
  BY <1>7 DEF Gma!FinishPack, Gma!EndPack
<1>8. CASE Gma!AbortPack
  BY <1>8 DEF Gma!AbortPack, Gma!EndPack
<1>9. CASE Gma!SkipEntry
  BY <1>9 DEF Gma!SkipEntry
<1>10. CASE Gma!ExtractEntry
  BY <1>10 DEF Gma!ExtractEntry
<1>11. CASE Gma!FinishUnpack
  BY <1>11 DEF Gma!FinishUnpack
<1>12. CASE Gma!AbortUnpack
  BY <1>12 DEF Gma!AbortUnpack
<1>13. ASSUME NEW copied \in BOOLEAN, Gma!StartPack(copied)
      PROVE  GmaPass'
  <2>1. Gma!NoFiles \in [Gma!Files -> Bytes \cup {None}]
    BY DEF Gma!NoFiles
  <2>2. Gma!NoFiles # None
    BY <2>1 DEF GmaConstants
  <2> QED BY <1>13, <2>2 DEF Gma!StartPack, Gma!Goto
<1>14. ASSUME NEW o \in Gma!Options, Gma!OpenPackage(o)
      PROVE  GmaPass'
  BY <1>14 DEF Gma!OpenPackage
<1>15. ASSUME NEW f \in Gma!Files, NEW c \in Contents, Gma!EditSource(f, c)
      PROVE  GmaPass'
  BY <1>15 DEF Gma!EditSource, GmaConstants
<1>16. CASE UNCHANGED Gma!vars
  BY <1>16 DEF Gma!vars
<1> QED
  BY <1>1, <1>2, <1>3, <1>4, <1>5, <1>6, <1>7, <1>8, <1>9, <1>10, <1>11, <1>12, <1>13, <1>14,
     <1>15, <1>16 DEF Gma!Next

\* An edit is noticed, or it is one of a file the pass has its own copy of.
LEMMA GmaHashedStep ==
  ASSUME GmaConstants, GmaPackType, GmaPass, GmaHashed, [Gma!Next]_(Gma!vars)
  PROVE  GmaHashed'
<1> USE DEF GmaPackType, GmaHashed, Gma!Files, Gma!Locked, Gma!Input, Gma!sourceVars,
            Gma!packVars, Gma!history
<1>1. CASE Gma!StageFile
  BY <1>1 DEF Gma!StageFile, Gma!Goto, Gma!Advance
<1>2. CASE Gma!CollectFiles
  BY <1>2 DEF Gma!CollectFiles, Gma!Goto, Gma!Input
<1>3. CASE Gma!HashFile
  BY <1>3 DEF Gma!HashFile, Gma!Advance, Gma!Input
<1>4. CASE Gma!CreateOutput
  <2>1. at - 1 = NumFiles
    BY <1>4 DEF Gma!CreateOutput, GmaConstants
  <2> QED BY <1>4, <2>1 DEF Gma!CreateOutput, Gma!EndPack, Gma!Goto
<1>5. CASE Gma!WriteList
  BY <1>5 DEF Gma!WriteList, Gma!Goto
<1>6. CASE Gma!CopyFile
  BY <1>6 DEF Gma!CopyFile, Gma!Advance, Gma!Input
<1>7. CASE Gma!FinishPack
  BY <1>7 DEF Gma!FinishPack, Gma!EndPack
<1>8. CASE Gma!AbortPack
  BY <1>8 DEF Gma!AbortPack, Gma!EndPack
<1>9. CASE Gma!SkipEntry
  BY <1>9 DEF Gma!SkipEntry
<1>10. CASE Gma!ExtractEntry
  BY <1>10 DEF Gma!ExtractEntry
<1>11. CASE Gma!FinishUnpack
  BY <1>11 DEF Gma!FinishUnpack
<1>12. CASE Gma!AbortUnpack
  BY <1>12 DEF Gma!AbortUnpack
<1>13. ASSUME NEW copied \in BOOLEAN, Gma!StartPack(copied)
      PROVE  GmaHashed'
  BY <1>13 DEF Gma!StartPack, Gma!Goto
<1>14. ASSUME NEW o \in Gma!Options, Gma!OpenPackage(o)
      PROVE  GmaHashed'
  BY <1>14 DEF Gma!OpenPackage
<1>15. ASSUME NEW f \in Gma!Files, NEW c \in Contents, Gma!EditSource(f, c)
      PROVE  GmaHashed'
  BY <1>15 DEF Gma!EditSource, GmaConstants
<1>16. CASE UNCHANGED Gma!vars
  BY <1>16 DEF Gma!vars
<1> QED
  BY <1>1, <1>2, <1>3, <1>4, <1>5, <1>6, <1>7, <1>8, <1>9, <1>10, <1>11, <1>12, <1>13, <1>14,
     <1>15, <1>16 DEF Gma!Next

\* A file appended to the first n - 1 of them makes the first n.
LEMMA GmaAppend ==
  ASSUME GmaConstants, NEW n \in Gma!Files, list \in GmaEntries, data \in Bytes,
         hashed[n] \in Bytes, list[n].length = Len(hashed[n]), GmaWritten(n - 1),
         list' = list, hashed' = hashed, data' = data \o hashed[n]
  PROVE  GmaWritten(n)'
<1> DEFINE L(m) == Gma!DataLength(list, m)
<1>1. NumFiles \in Nat /\ n \in 1 .. NumFiles
  BY DEF GmaConstants, Gma!Files
<1>2. L(n) = L(n - 1) + Len(hashed[n])
  BY <1>1, DataLengthRecursion
<1>3. \A m \in 0 .. n : L(m) \in Nat
  <2>1. \A m \in 0 .. NumFiles : L(m) \in Nat
    BY DataLengthRecursion
  <2> QED BY <1>1, <2>1
<1>4. \A m \in 1 .. n - 1 : L(m - 1) <= L(m) /\ L(m) <= L(n - 1)
  <2> TAKE m \in 1 .. n - 1
  <2>1. m - 1 \in 0 .. NumFiles /\ m \in 0 .. NumFiles /\ m \in m - 1 .. NumFiles
        /\ n - 1 \in m .. NumFiles
    BY <1>1
  <2> QED BY <2>1, DataLengthGrows
<1>5. Len(data) = L(n - 1)
      /\ \A f \in 1 .. n - 1 : SubSeq(data, L(f - 1) + 1, L(f)) = hashed[f]
  BY DEF GmaWritten
<1> HIDE DEF L
<1>6. Len(data') = L(n)
  BY <1>2, <1>5, BytesFacts
<1>7. \A f \in 1 .. n - 1 : SubSeq(data', L(f - 1) + 1, L(f)) = hashed[f]
  <2> TAKE f \in 1 .. n - 1
  <2>1. L(f - 1) \in Nat /\ L(f) \in L(f - 1) .. Len(data)
    BY <1>1, <1>3, <1>4, <1>5
  <2>2. SubSeq(data \o hashed[n], L(f - 1) + 1, L(f)) = SubSeq(data, L(f - 1) + 1, L(f))
    BY <2>1, Appended
  <2> QED BY <2>2, <1>5
<1>8. SubSeq(data', L(n - 1) + 1, L(n)) = hashed[n]
  BY <1>2, <1>5, Appended
<1>9. ASSUME NEW f \in 1 .. n
      PROVE  SubSeq(data', L(f - 1) + 1, L(f)) = hashed[f]
  <2>1. CASE f = n
    BY <1>8, <2>1
  <2>2. CASE f # n
    <3>1. f \in 1 .. n - 1
      BY <1>1, <2>2
    <3> QED BY <3>1, <1>7
  <2> QED BY <2>1, <2>2
<1> QED BY <1>6, <1>9 DEF GmaWritten, L

\* Every step keeps what is written to what was hashed.
LEMMA GmaMadeStep ==
  ASSUME GmaConstants, GmaPackType, GmaPass, GmaHashed, GmaMade, [Gma!Next]_(Gma!vars)
  PROVE  GmaMade'
<1> USE DEF GmaPackType, GmaMade, GmaWritten, Gma!Files, Gma!sourceVars, Gma!packVars, Gma!history
<1>1. CASE Gma!StageFile
  BY <1>1 DEF Gma!StageFile, Gma!Goto, Gma!Advance
<1>2. CASE Gma!CollectFiles
  BY <1>2 DEF Gma!CollectFiles, Gma!Goto, Gma!Input
<1>3. CASE Gma!HashFile
  BY <1>3 DEF Gma!HashFile, Gma!Advance, Gma!Input
<1>4. CASE Gma!CreateOutput
  BY <1>4 DEF Gma!CreateOutput, Gma!EndPack, Gma!Goto
<1>5. CASE Gma!WriteList
  <2> SUFFICES ASSUME ~dirty', list' # None
               PROVE  GmaMade!2'
    BY DEF GmaMade
  <2>1. /\ stage = "writing" /\ ~dirty /\ data = <<>> /\ crcs = hashed /\ data' = data
        /\ hashed' = hashed /\ stage' = "copying" /\ at' = 1
        /\ list' = [f \in Gma!Files |-> [length |-> lengths[f], crc |-> crcs[f]]]
    BY <1>5 DEF Gma!WriteList, Gma!Goto, GmaPass
  <2>2. \A f \in Gma!Files : hashed[f] \in Bytes /\ lengths[f] = Len(hashed[f])
    BY <2>1 DEF GmaHashed, GmaPass, Gma!Locked
  <2>3. list' \in GmaEntries
    BY <2>1, <2>2 DEF GmaPackType, GmaEntries
  <2>4. Gma!DataLength(list', 0) = 0
    BY <2>3, DataLengthRecursion
  <2>5. GmaWritten(0)'
    BY <2>1, <2>4, BytesFacts DEF GmaWritten
  <2>6. data' # None /\ 0 \in 0 .. NumFiles /\ 0 = at' - 1
    BY <2>1, BytesFacts DEF GmaConstants
  <2>7. \A f \in Gma!Files : hashed'[f] \in Bytes /\ list'[f].length = Len(hashed'[f])
    BY <2>1, <2>2
  <2> QED BY <2>5, <2>6, <2>7
<1>6. CASE Gma!CopyFile
  <2> SUFFICES ASSUME ~dirty', list' # None
               PROVE  GmaMade!2'
    BY DEF GmaMade
  <2>1. /\ stage = "copying" /\ ~dirty /\ list # None /\ at \in Gma!Files
        /\ data' = data \o Gma!Input[at] /\ at' = at + 1
        /\ UNCHANGED <<stage, list, hashed, dirty>>
    BY <1>6 DEF Gma!CopyFile, Gma!Advance
  <2>2. data \in Bytes /\ list \in GmaEntries
    BY <2>1 DEF GmaPass
  <2>3. \A f \in Gma!Files : hashed[f] \in Bytes /\ list[f].length = Len(hashed[f])
    BY <2>1 DEF GmaMade
  <2>4. PICK n \in Gma!Files : n = at
    BY <2>1
  <2>5. GmaWritten(n - 1) /\ data' = data \o hashed[n]
    BY <2>1, <2>4 DEF GmaHashed, Gma!Locked
  <2>6. hashed[n] \in Bytes /\ list[n].length = Len(hashed[n])
    BY <2>3
  <2> HIDE DEF GmaWritten, GmaMade
  <2>7. GmaWritten(n)'
    BY <2>1, <2>2, <2>5, <2>6, GmaAppend
  <2>8. data' \in Bytes
    BY <2>2, <2>5, <2>6, BytesFacts
  <2>9. data' # None
    BY <2>8 DEF GmaConstants
  <2>10. n \in 0 .. NumFiles /\ n = at' - 1
    BY <2>1, <2>4 DEF GmaConstants
  <2> QED BY <2>1, <2>3, <2>7, <2>9, <2>10
<1>7. CASE Gma!FinishPack
  BY <1>7 DEF Gma!FinishPack, Gma!EndPack
<1>8. CASE Gma!AbortPack
  BY <1>8 DEF Gma!AbortPack, Gma!EndPack
<1>9. CASE Gma!SkipEntry
  BY <1>9 DEF Gma!SkipEntry
<1>10. CASE Gma!ExtractEntry
  BY <1>10 DEF Gma!ExtractEntry
<1>11. CASE Gma!FinishUnpack
  BY <1>11 DEF Gma!FinishUnpack
<1>12. CASE Gma!AbortUnpack
  BY <1>12 DEF Gma!AbortUnpack
<1>13. ASSUME NEW copied \in BOOLEAN, Gma!StartPack(copied)
      PROVE  GmaMade'
  BY <1>13 DEF Gma!StartPack, Gma!Goto
<1>14. ASSUME NEW o \in Gma!Options, Gma!OpenPackage(o)
      PROVE  GmaMade'
  BY <1>14 DEF Gma!OpenPackage
<1>15. ASSUME NEW f \in Gma!Files, NEW c \in Contents, Gma!EditSource(f, c)
      PROVE  GmaMade'
  BY <1>15 DEF Gma!EditSource, GmaConstants
<1>16. CASE UNCHANGED Gma!vars
  BY <1>16 DEF Gma!vars
<1> QED
  BY <1>1, <1>2, <1>3, <1>4, <1>5, <1>6, <1>7, <1>8, <1>9, <1>10, <1>11, <1>12, <1>13, <1>14,
     <1>15, <1>16 DEF Gma!Next

\* What an unpack takes for a file of a package that nobody disturbed is that
\* file, also when the data end before it: then it has none.
LEMMA GmaExtracts ==
  ASSUME GmaConstants, list \in GmaEntries, data \in Bytes, Gma!Intact, GmaMade, ~dirty,
         NEW f \in Gma!Files
  PROVE  SubSeq(data, Gma!DataLength(list, f - 1) + 1, Gma!DataLength(list, f)) = hashed[f]
<1> DEFINE L(m) == Gma!DataLength(list, m)
<1>1. NumFiles \in Nat /\ f \in 1 .. NumFiles /\ f - 1 \in 0 .. NumFiles
  BY DEF GmaConstants, Gma!Files
<1>2. \A h \in Gma!Files : hashed[h] \in Bytes /\ list[h].length = Len(hashed[h])
  BY DEF GmaMade, Gma!Intact
<1>3. PICK n \in 0 .. NumFiles : GmaWritten(n)
  BY DEF GmaMade, Gma!Intact
<1>4. CASE f <= n
  BY <1>1, <1>3, <1>4 DEF GmaWritten
<1>5. CASE ~ (f <= n)
  <2>1. n \in 0 .. f - 1 /\ f - 1 \in n .. NumFiles /\ NumFiles \in f .. NumFiles
    BY <1>1, <1>3, <1>5
  <2>2. L(n) <= L(f - 1) /\ L(f) <= L(NumFiles)
    BY <1>1, <2>1, DataLengthGrows
  <2>3. L(NumFiles) <= L(n)
    BY <1>3 DEF GmaWritten, Gma!Intact
  <2>4. L(f) = L(f - 1) + Len(hashed[f])
    BY <1>1, <1>2, DataLengthRecursion
  <2>5. L(n) \in Nat /\ L(f - 1) \in Nat /\ L(f) \in Nat /\ L(NumFiles) \in Nat
    BY <1>1, DataLengthRecursion
  <2>6. Len(hashed[f]) \in Nat
    BY <1>2, BytesFacts
  <2> HIDE DEF L
  <2>7. Len(hashed[f]) = 0 /\ L(f) < L(f - 1) + 1
    BY <2>2, <2>3, <2>4, <2>5, <2>6
  <2>8. hashed[f] = <<>>
    BY <1>2, <2>7, BytesFacts
  <2>9. SubSeq(data, L(f - 1) + 1, L(f)) = <<>>
    BY <2>5, <2>7, SubSeqEmpty
  <2> QED BY <2>8, <2>9 DEF L
<1> QED BY <1>1, <1>4, <1>5

\* Every step keeps the unpack in step with the package it has open.
LEMMA GmaReadStep ==
  ASSUME GmaConstants, GmaPackType, GmaReadType, GmaPass, GmaMade, GmaRead, [Gma!Next]_(Gma!vars)
  PROVE  GmaRead'
<1> USE DEF GmaRead, Gma!Files, Gma!Intact, Gma!Checked, Gma!sourceVars, Gma!packVars,
            Gma!unpackVars, Gma!history
<1>1. CASE Gma!StageFile
  BY <1>1 DEF Gma!StageFile, Gma!Goto, Gma!Advance
<1>2. CASE Gma!CollectFiles
  BY <1>2 DEF Gma!CollectFiles, Gma!Goto, Gma!Input
<1>3. CASE Gma!HashFile
  BY <1>3 DEF Gma!HashFile, Gma!Advance, Gma!Input
<1>4. CASE Gma!CreateOutput
  BY <1>4 DEF Gma!CreateOutput, Gma!EndPack
<1>5. CASE Gma!WriteList
  BY <1>5 DEF Gma!WriteList, GmaPass, Gma!Locked
<1>6. CASE Gma!CopyFile
  BY <1>6 DEF Gma!CopyFile, GmaPass, Gma!Locked
<1>7. CASE Gma!FinishPack
  BY <1>7 DEF Gma!FinishPack, Gma!EndPack
<1>8. CASE Gma!AbortPack
  BY <1>8 DEF Gma!AbortPack, Gma!EndPack
<1>9. CASE Gma!SkipEntry
  <2>1. /\ status = "reading" /\ next \in Gma!Files /\ next' = next + 1
        /\ next \notin options.only /\ position' = position + list[next].length
        /\ UNCHANGED <<status, options, out, list, data, hashed, dirty>>
    BY <1>9 DEF Gma!SkipEntry, GmaReadType, GmaConstants
  <2>2. list \in GmaEntries
    BY <2>1 DEF GmaPackType, Gma!Intact
  <2>3. position' = Gma!DataLength(list', next' - 1)
    <3>1. Gma!DataLength(list, next) = Gma!DataLength(list, next - 1) + list[next].length
      BY <2>1, <2>2, DataLengthRecursion
    <3>2. next' - 1 = next
      BY <2>1
    <3> QED BY <2>1, <3>1, <3>2
  <2>4. Gma!Intact' /\ data' # None
    BY <2>1 DEF Gma!Intact
  <2>5. ~ Gma!Checked'
    BY <2>1 DEF Gma!Checked
  <2>6. ~dirty' => \A f \in 1 .. next' - 1 : f \in options'.only => out'[f] = hashed'[f]
    <3>1. \A f \in 1 .. next' - 1 : f \in 1 .. next - 1 \/ f = next
      BY <2>1
    <3> QED BY <2>1, <3>1
  <2> QED BY <2>3, <2>4, <2>5, <2>6
<1>10. CASE Gma!ExtractEntry
  <2> SUFFICES ASSUME status' = "reading"
               PROVE  GmaRead!2'
    BY DEF GmaRead
  <2> DEFINE end == position + list[next].length
             bytes == SubSeq(data, position + 1, end)
  <2>1. /\ status = "reading" /\ next \in Gma!Files /\ next \in options.only
        /\ next' = next + 1 /\ position' = end
        /\ end <= Len(data) /\ out' = [out EXCEPT ![next] = bytes]
        /\ options.crc => bytes = list[next].crc
        /\ UNCHANGED <<options, list, data, hashed, dirty>>
    <3>1. next \in Gma!Files
      BY <1>10 DEF Gma!ExtractEntry, GmaReadType, GmaConstants
    <3>2. end <= Len(data)
      BY <1>10 DEF Gma!ExtractEntry
    <3> QED BY <1>10, <3>1, <3>2 DEF Gma!ExtractEntry
  <2>2. list \in GmaEntries /\ data \in Bytes
    BY <2>1 DEF GmaPackType, Gma!Intact
  <2>3. end = Gma!DataLength(list, next)
    <3>1. Gma!DataLength(list, next) = Gma!DataLength(list, next - 1) + list[next].length
      BY <2>1, <2>2, DataLengthRecursion
    <3> QED BY <2>1, <3>1
  <2>4. next' - 1 = next
    BY <2>1
  <2>5. position' = Gma!DataLength(list', next' - 1)
    BY <2>1, <2>3, <2>4
  <2>6. Gma!Intact' /\ data' # None
    BY <2>1 DEF Gma!Intact
  <2>7. ~dirty => bytes = hashed[next]
    BY <2>1, <2>2, <2>3, GmaExtracts DEF GmaRead
  <2>8. out'[next] = bytes /\ \A f \in 1 .. next - 1 : out'[f] = out[f]
    <3> HIDE DEF bytes, end
    <3>1. \A f \in 1 .. next - 1 : f \in Gma!Files /\ f # next
      BY <2>1 DEF GmaConstants
    <3> QED BY <2>1, <3>1 DEF GmaReadType
  <2>9. \A f \in 1 .. next' - 1 : f \in 1 .. next - 1 \/ f = next
    BY <2>1, <2>4
  <2> HIDE DEF bytes, end
  <2>10. Gma!Checked' => \A f \in 1 .. next' - 1 : out'[f] = list'[f].crc
    BY <2>1, <2>8, <2>9 DEF Gma!Checked
  <2>11. ~dirty' => \A f \in 1 .. next' - 1 : f \in options'.only => out'[f] = hashed'[f]
    BY <2>1, <2>7, <2>8, <2>9
  <2> QED BY <2>5, <2>6, <2>10, <2>11
<1>11. CASE Gma!FinishUnpack
  BY <1>11 DEF Gma!FinishUnpack
<1>12. CASE Gma!AbortUnpack
  BY <1>12 DEF Gma!AbortUnpack
<1>13. ASSUME NEW copied \in BOOLEAN, Gma!StartPack(copied)
      PROVE  GmaRead'
  BY <1>13 DEF Gma!StartPack, Gma!Goto
<1>14. ASSUME NEW o \in Gma!Options, Gma!OpenPackage(o)
      PROVE  GmaRead'
  <2> SUFFICES ASSUME status' = "reading"
               PROVE  GmaRead!2'
    BY DEF GmaRead
  <2>1. /\ Gma!Intact /\ data # None /\ next' = 1 /\ position' = 0
        /\ UNCHANGED <<list, data>>
    BY <1>14 DEF Gma!OpenPackage
  <2>2. list \in GmaEntries
    BY <2>1 DEF GmaPackType, Gma!Intact
  <2>3. Gma!DataLength(list, 0) = 0
    BY <2>2, DataLengthRecursion
  <2>4. Gma!Intact'
    BY <2>1 DEF Gma!Intact
  <2>5. next' - 1 = 0 /\ position' = Gma!DataLength(list', 0) /\ 1 .. 0 = {}
    BY <2>1, <2>3
  <2> QED BY <2>1, <2>4, <2>5
<1>15. ASSUME NEW f \in Gma!Files, NEW c \in Contents, Gma!EditSource(f, c)
      PROVE  GmaRead'
  BY <1>15 DEF Gma!EditSource, GmaPass, GmaReadType
<1>16. CASE UNCHANGED Gma!vars
  BY <1>16 DEF Gma!vars
<1> QED
  BY <1>1, <1>2, <1>3, <1>4, <1>5, <1>6, <1>7, <1>8, <1>9, <1>10, <1>11, <1>12, <1>13, <1>14,
     <1>15, <1>16 DEF Gma!Next

-----------------------------------------------------------------------------

\* So the invariant holds in every state.
LEMMA GmaAlways ==
  ASSUME GmaConstants
  PROVE  Gma!Spec => []GmaInv
<1>1. Gma!Init => GmaInv
  <2> SUFFICES ASSUME Gma!Init
               PROVE  GmaInv
    OBVIOUS
  <2>1. Contents \subseteq Bytes /\ 1 \in 1 .. NumFiles + 1
    BY DEF GmaConstants, Bytes
  <2> USE DEF Gma!Init, Gma!Files, Gma!NoFiles
  <2>2. GmaType
    BY <2>1 DEF GmaType, GmaPackType, GmaReadType, Gma!Options
  <2>3. GmaPass /\ GmaHashed /\ GmaMade /\ GmaRead
    BY DEF GmaPass, GmaHashed, GmaMade, GmaRead, Gma!Locked
  <2> QED BY <2>2, <2>3 DEF GmaInv
<1>2. GmaInv /\ [Gma!Next]_(Gma!vars) => GmaInv'
  BY GmaPackTypeStep, GmaReadTypeStep, GmaPassStep, GmaHashedStep, GmaMadeStep, GmaReadStep
     DEF GmaInv, GmaType
<1> QED BY <1>1, <1>2, PTL DEF Gma!Spec

\* For any number and contents of files: an unpack that succeeds, of any selection,
\* verified or not, gives the bytes the first pass of the packer hashed, if nobody
\* edited the sources after their lengths were read (GmaPackage!RoundTrip).
THEOREM PackersGmaRoundTrip ==
  ASSUME GmaConstants
  PROVE  Gma!Spec => GmaRoundTrip
<1> DEFINE Gives ==
      (status = "reading" /\ status' = "ok" /\ ~dirty)
        => \A f \in options.only : out[f] = hashed[f]
<1>1. GmaInv /\ [Gma!Next]_(Gma!vars) => [Gives]_(Gma!vars)
  <2> SUFFICES ASSUME GmaInv, Gma!Next, status = "reading", status' = "ok", ~dirty
               PROVE  \A f \in options.only : out[f] = hashed[f]
    OBVIOUS
  <2>1. Gma!FinishUnpack
    BY DEF Gma!Next, Gma!StartPack, Gma!StageFile, Gma!CollectFiles, Gma!HashFile,
       Gma!CreateOutput,
       Gma!WriteList, Gma!CopyFile, Gma!FinishPack, Gma!AbortPack, Gma!OpenPackage, Gma!SkipEntry,
       Gma!ExtractEntry, Gma!AbortUnpack, Gma!EditSource, Gma!unpackVars
  <2>2. \A f \in options.only : f \in Gma!Files
    BY DEF GmaInv, GmaType, GmaReadType, Gma!Options
  <2>3. \A f \in Gma!Files : f \in 1 .. next - 1
    BY <2>1 DEF Gma!FinishUnpack, Gma!Files, GmaInv, GmaType, GmaReadType, GmaConstants
  <2> QED BY <2>2, <2>3 DEF GmaInv, GmaRead
<1>2. Gma!Spec => [][Gives]_(Gma!vars)
  BY <1>1, GmaAlways, PTL DEF Gma!Spec
<1> QED BY <1>2 DEF GmaRoundTrip, Gma!RoundTrip

\* Every step of the addon is a step of the store its readers see, or none.
LEMMA GmaStoreStep ==
  ASSUME GmaConstants, GmaInv, GmaInv', [Gma!Next]_(Gma!vars)
  PROVE  [Gma!Store!Next]_(Gma!Store!storeVars)
<1> DEFINE catalog == IF data # None /\ Gma!Intact THEN [f \in Gma!Files |-> list[f].crc] ELSE None
           reader == IF Gma!Checked THEN status ELSE "idle"
           delivered == IF Gma!Checked /\ status = "ok" THEN out ELSE None
<1> SUFFICES \/ UNCHANGED <<catalog, reader, delivered>>
             \/ Gma!Store!Repack \/ Gma!Store!Open \/ Gma!Store!Refuse \/ Gma!Store!Deliver
             \/ Gma!Store!Leave
  BY DEF Gma!Store!Next, Gma!Store!storeVars
<1>a. /\ catalog' \in Gma!Store!Catalogs \cup {None}
      /\ data # None /\ Gma!Intact => catalog # None
  <2>1. catalog' \in Gma!Store!Catalogs \cup {None}
    <3>1. CASE data' # None /\ Gma!Intact'
      <4>1. list' \in GmaEntries
        BY <3>1 DEF GmaInv, GmaType, GmaPackType, Gma!Intact
      <4>2. [f \in Gma!Files |-> list'[f].crc] \in [Gma!Files -> Bytes]
        BY <4>1 DEF GmaEntries
      <4> QED BY <3>1, <4>2 DEF Gma!Store!Catalogs, Bytes
    <3>2. CASE ~ (data' # None /\ Gma!Intact')
      BY <3>2
    <3> QED BY <3>1, <3>2
  <2>2. ASSUME data # None, Gma!Intact
        PROVE  catalog # None
    <3>1. list \in GmaEntries
      BY <2>2 DEF GmaInv, GmaType, GmaPackType, Gma!Intact
    <3>2. catalog \in [Gma!Files -> Bytes \cup {None}]
      BY <2>2, <3>1 DEF GmaEntries
    <3> QED BY <3>2 DEF GmaConstants
  <2> QED BY <2>1, <2>2
\* A pack that does not touch the output changes nothing a reader sees.
<1>b. ASSUME UNCHANGED <<list, data, status, options, out>>
      PROVE  UNCHANGED <<catalog, reader, delivered>>
  BY <1>b DEF Gma!Intact, Gma!Checked
\* One that does is a new catalog: nobody reads.
<1>c. ASSUME status # "reading", UNCHANGED <<status, options, out>>
      PROVE  Gma!Store!Repack
  BY <1>a, <1>c DEF Gma!Store!Repack, Gma!Checked
<1> USE DEF Gma!unpackVars
<1>1. CASE Gma!StageFile \/ Gma!CollectFiles \/ Gma!HashFile \/ Gma!FinishPack \/ Gma!AbortPack
  <2>1. UNCHANGED <<list, data, status, options, out>>
    BY <1>1 DEF Gma!StageFile, Gma!CollectFiles, Gma!HashFile, Gma!FinishPack, Gma!AbortPack
  <2> QED BY <2>1, <1>b
<1>2. CASE Gma!CreateOutput
  <2>1. CASE status = "reading"
    BY <1>2, <2>1, <1>b DEF Gma!CreateOutput
  <2>2. CASE status # "reading"
    BY <1>2, <2>2, <1>c DEF Gma!CreateOutput
  <2> QED BY <2>1, <2>2
<1>3. CASE Gma!WriteList \/ Gma!CopyFile
  <2>1. status # "reading" /\ UNCHANGED <<status, options, out>>
    BY <1>3 DEF Gma!WriteList, Gma!CopyFile, GmaInv, GmaPass, Gma!Locked
  <2> QED BY <2>1, <1>c
<1>4. ASSUME NEW copied \in BOOLEAN, Gma!StartPack(copied)
      PROVE  UNCHANGED <<catalog, reader, delivered>>
  BY <1>4, <1>b DEF Gma!StartPack
<1>5. ASSUME NEW f \in Gma!Files, NEW c \in Contents, Gma!EditSource(f, c)
      PROVE  UNCHANGED <<catalog, reader, delivered>>
  BY <1>5, <1>b DEF Gma!EditSource, Gma!packVars
<1>6. ASSUME NEW o \in Gma!Options, Gma!OpenPackage(o)
      PROVE  Gma!Store!Open \/ Gma!Store!Refuse \/ Gma!Store!Leave
  <2>1. /\ status # "reading" /\ data # None /\ UNCHANGED <<list, data>>
        /\ status' = IF ~Gma!Locked /\ Gma!Intact THEN "reading" ELSE "failed"
    BY <1>6 DEF Gma!OpenPackage, Gma!packVars
  <2>2. UNCHANGED catalog /\ reader # "reading" /\ delivered' = None
    BY <2>1 DEF Gma!Intact, Gma!Checked
  <2> HIDE DEF catalog, delivered
  <2>3. CASE ~Gma!Checked'
    BY <2>2, <2>3 DEF Gma!Store!Leave, catalog, delivered
  <2>4. CASE Gma!Checked' /\ status' = "reading"
    BY <1>a, <2>1, <2>2, <2>4 DEF Gma!Store!Open, catalog, delivered
  <2>5. CASE Gma!Checked' /\ status' = "failed"
    BY <2>1, <2>2, <2>5 DEF Gma!Store!Refuse, catalog, delivered
  <2> QED BY <2>1, <2>3, <2>4, <2>5
<1>7. CASE Gma!SkipEntry
  <2>1. ~Gma!Checked /\ UNCHANGED <<list, data, status, options, out>>
    BY <1>7 DEF Gma!SkipEntry, Gma!Checked, Gma!packVars, GmaInv, GmaType, GmaReadType, Gma!Files,
                GmaConstants
  <2> QED BY <2>1, <1>b
<1>8. CASE Gma!ExtractEntry \/ Gma!AbortUnpack
  <2>1. /\ status = "reading" /\ status' \in {"reading", "failed"}
        /\ UNCHANGED <<list, data, options>>
    BY <1>8 DEF Gma!ExtractEntry, Gma!AbortUnpack, Gma!packVars
  <2>2. UNCHANGED catalog /\ delivered = None /\ delivered' = None
        /\ (Gma!Checked' <=> Gma!Checked)
    BY <2>1 DEF Gma!Intact, Gma!Checked
  <2>3. CASE ~Gma!Checked \/ status' = "reading"
    BY <2>1, <2>2, <2>3
  <2>4. CASE Gma!Checked /\ status' = "failed"
    BY <2>1, <2>2, <2>4 DEF Gma!Store!Refuse
  <2> QED BY <2>1, <2>3, <2>4
<1>9. CASE Gma!FinishUnpack
  <2>1. /\ status = "reading" /\ status' = "ok" /\ next > NumFiles
        /\ UNCHANGED <<list, data, options, out>>
    BY <1>9 DEF Gma!FinishUnpack, Gma!packVars
  <2>2. UNCHANGED catalog /\ (Gma!Checked' <=> Gma!Checked)
    BY <2>1 DEF Gma!Intact, Gma!Checked
  <2>3. CASE ~Gma!Checked
    BY <2>1, <2>2, <2>3
  <2>4. CASE Gma!Checked
    <3>1. \A f \in Gma!Files : f \in 1 .. next - 1
      BY <2>1 DEF Gma!Files, GmaInv, GmaType, GmaReadType, GmaConstants
    <3>2. data # None /\ Gma!Intact /\ \A f \in Gma!Files : out[f] = list[f].crc
      BY <2>1, <2>4, <3>1 DEF GmaInv, GmaRead
    <3>3. out = [f \in Gma!Files |-> out[f]]
      BY DEF GmaInv, GmaType, GmaReadType
    <3>4. out = catalog
      BY <3>2, <3>3
    <3> QED BY <2>1, <2>2, <2>4, <3>4 DEF Gma!Store!Deliver
  <2> QED BY <2>3, <2>4
<1>10. CASE UNCHANGED Gma!vars
  BY <1>10, <1>b DEF Gma!vars, Gma!packVars
<1> QED
  BY <1>1, <1>2, <1>3, <1>4, <1>5, <1>6, <1>7, <1>8, <1>9, <1>10 DEF Gma!Next

\* For any number and contents of files, verified unpacks of a whole addon see a
\* PackageStore: one catalog, replaced only while nobody reads it, of which they get
\* everything or an error, whatever was edited or cut short (GmaPackage!IsStore).
THEOREM PackersGmaIsStore ==
  ASSUME GmaConstants
  PROVE  Gma!Spec => GmaIsStore
<1>1. Gma!Init => Gma!Store!Init
  BY DEF Gma!Init, Gma!Store!Init, Gma!NoFiles, Gma!Checked
<1>2. GmaInv /\ GmaInv' /\ [Gma!Next]_(Gma!vars) => [Gma!Store!Next]_(Gma!Store!storeVars)
  BY GmaStoreStep
<1>3. Gma!Spec => Gma!Store!Spec
  BY <1>1, <1>2, GmaAlways, PTL DEF Gma!Spec, Gma!Store!Spec
<1> QED BY <1>3 DEF GmaIsStore, Gma!IsStore

=============================================================================

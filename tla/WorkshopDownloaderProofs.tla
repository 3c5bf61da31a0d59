----------------------- MODULE WorkshopDownloaderProofs -----------------------
(***************************************************************************)
(* The Workshop downloader for any number of downloads and any options: what  *)
(* is reported is whole, outputs that exist are kept, and an item from Steam   *)
(* is converted.                                                            *)
(*                                                                         *)
(* The invariant says what each download has on the disk and open at each of   *)
(* its stages.  Another download's step keeps that because its streams are     *)
(* opened with FileMode.CreateNew: where it may write there is nothing, or      *)
(* what it has written itself (Harmless).  The exception is the .gma file,      *)
(* which a failed decompression deletes (Lost).                              *)
(***************************************************************************)
EXTENDS WorkshopDownloader, FiniteSetTheorems, TLAPS

-----------------------------------------------------------------------------
(* Outputs. *)

\* The first n parts of d's item.
Prefix(d, n) == [i \in 1 .. n |-> d]

Output == {Old} \cup {Prefix(d, n) : d \in Downloads, n \in 0 .. 2}

\* The parts of an output that d wrote: Written for any output.
PartsIn(out, d) == IF out # None THEN {i \in DOMAIN out : out[i] = d} ELSE {}

\* An earlier output, the parts of a download's item and no output are told apart.
LEMMA OutputFacts ==
  /\ Old # None
  /\ \A d \in Downloads, n \in 0 .. 2 :
       /\ Prefix(d, n) # None /\ Prefix(d, n) # Old
       /\ Prefix(d, 0) = NoParts /\ Prefix(d, 2) = Complete(d)
       /\ \A e \in Downloads, k \in 0 .. 2 :
            Prefix(d, n) = Prefix(e, k) => n = k /\ (n > 0 => d = e)
<1>1. Old # None
  <2>1. Old \in [1 .. 3 -> Downloads \cup {"old"}]
    BY DEF Old
  <2> QED BY <2>1, DownloadAssumption DEF DownloadAssumption
<1>2. ASSUME NEW d \in Downloads, NEW n \in 0 .. 2
      PROVE  /\ Prefix(d, n) # None /\ Prefix(d, n) # Old
             /\ Prefix(d, 0) = NoParts /\ Prefix(d, 2) = Complete(d)
             /\ \A e \in Downloads, k \in 0 .. 2 :
                  Prefix(d, n) = Prefix(e, k) => n = k /\ (n > 0 => d = e)
  <2>1. Prefix(d, n) # None
    <3>1. Prefix(d, n) \in [1 .. n -> Downloads \cup {"old"}]
      BY DEF Prefix
    <3>2. n \in 0 .. 3
      OBVIOUS
    <3> QED BY <3>1, <3>2, DownloadAssumption DEF DownloadAssumption
  <2>2. Prefix(d, n) # Old
    <3>1. DOMAIN Prefix(d, n) = 1 .. n /\ DOMAIN Old = 1 .. 3
      BY DEF Prefix, Old
    <3>2. 3 \in 1 .. 3 /\ 3 \notin 1 .. n
      OBVIOUS
    <3> QED BY <3>1, <3>2
  <2>3. Prefix(d, 0) = NoParts
    <3>1. 1 .. 0 = {}
      OBVIOUS
    <3> QED BY <3>1 DEF Prefix, NoParts
  <2>4. Prefix(d, 2) = Complete(d)
    <3>1. 1 .. 2 = Parts
      BY DEF Parts
    <3> QED BY <3>1 DEF Prefix, Complete
  <2>5. ASSUME NEW e \in Downloads, NEW k \in 0 .. 2, Prefix(d, n) = Prefix(e, k)
        PROVE  n = k /\ (n > 0 => d = e)
    <3>1. 1 .. n = 1 .. k
      <4>1. DOMAIN Prefix(d, n) = 1 .. n /\ DOMAIN Prefix(e, k) = 1 .. k
        BY DEF Prefix
      <4> QED BY <4>1, <2>5
    <3>2. n = k
      <4>1. n \in {0, 1, 2} /\ k \in {0, 1, 2}
        OBVIOUS
      <4>2. \A i \in 1 .. 2 : i \in 1 .. n <=> i \in 1 .. k
        BY <3>1
      <4> QED BY <4>1, <4>2
    <3>3. n > 0 => Prefix(d, n)[1] = d /\ Prefix(e, n)[1] = e
      BY DEF Prefix
    <3> QED BY <3>2, <3>3, <2>5
  <2> QED BY <2>1, <2>2, <2>3, <2>4, <2>5
<1> QED BY <1>1, <1>2

\* What d has written in them.
LEMMA PartsFacts ==
  ASSUME NEW d \in Downloads
  PROVE  /\ PartsIn(None, d) = {} /\ PartsIn(Old, d) = {}
         /\ \A e \in Downloads \ {d}, n \in 0 .. 2 : PartsIn(Prefix(e, n), d) = {}
         /\ \A n \in 0 .. 2 : PartsIn(Prefix(d, n), d) = 1 .. n /\ Cardinality(1 .. n) = n
<1>1. PartsIn(None, d) = {}
  BY DEF PartsIn
<1>2. PartsIn(Old, d) = {}
  BY DownloadAssumption DEF PartsIn, Old, DownloadAssumption
<1>3. ASSUME NEW e \in Downloads \ {d}, NEW n \in 0 .. 2
      PROVE  PartsIn(Prefix(e, n), d) = {}
  BY DEF PartsIn, Prefix
<1>4. ASSUME NEW n \in 0 .. 2
      PROVE  PartsIn(Prefix(d, n), d) = 1 .. n
  BY OutputFacts DEF PartsIn, Prefix
<1>5. ASSUME NEW n \in 0 .. 2
      PROVE  Cardinality(1 .. n) = n
  <2>1. Cardinality(1 .. n) = IF 1 > n THEN 0 ELSE n - 1 + 1
    BY FS_Interval
  <2> QED BY <2>1
<1> QED BY <1>1, <1>2, <1>3, <1>4, <1>5

\* The next part is the first one of an output, or the next one of d's: where a
\* part is free, or d is the only writer, the output is d's afterwards.  When no
\* part is left the output is complete.
LEMMA NextPartFacts ==
  ASSUME NEW d \in Downloads, NEW p \in Paths, disk[p] \in Output \cup {None}
  PROVE  /\ PartFree(d, p) => disk[p] = None \/ \E n \in 0 .. 2 : disk[p] = Prefix(d, n)
         /\ NextPart(d, p) \in Parts /\ (disk[p] = None \/ \E n \in 0 .. 2 : disk[p] = Prefix(d, n))
              => \E n \in 0 .. 2 : WithPart(d, p) = Prefix(d, n)
         /\ NextPart(d, p) \notin Parts => disk[p] = Complete(d)
<1> DEFINE out == disk[p]
<1>1. Written(d, p) = PartsIn(out, d)
  BY DEF Written, PartsIn, Exists
<1>2. 1 \in Parts /\ 2 \in Parts /\ 3 \notin Parts
  BY DEF Parts
<1>3. Cardinality({}) = 0
  BY FS_EmptySet
<1>4. ASSUME out = None \/ out = Old \/ \E e \in Downloads \ {d}, n \in 0 .. 2 : out = Prefix(e, n)
      PROVE  /\ NextPart(d, p) = 1
             /\ PartFree(d, p) => out = None \/ out = NoParts
             /\ out = None => WithPart(d, p) = Prefix(d, 1)
  <2>1. NextPart(d, p) = 1
    BY <1>1, <1>3, <1>4, PartsFacts DEF NextPart
  <2>2. PartFree(d, p) => out = None \/ out = NoParts
    <3>1. ASSUME NEW e \in Downloads \ {d}, NEW n \in 0 .. 2, out = Prefix(e, n), 1 \notin DOMAIN out
          PROVE  out = NoParts
      <4>1. DOMAIN out = 1 .. n
        BY <3>1 DEF Prefix
      <4>2. n = 0
        BY <3>1, <4>1
      <4> QED BY <3>1, <4>2, OutputFacts
    <3>2. DOMAIN Old = 1 .. 3
      BY DEF Old
    <3>3. 1 \in 1 .. 3
      OBVIOUS
    <3> QED BY <1>4, <2>1, <3>1, <3>2, <3>3 DEF PartFree, Exists
  <2>3. out = None => WithPart(d, p) = Prefix(d, 1)
    <3>1. DOMAIN NoParts \cup {1} = 1 .. 1
      BY DEF NoParts
    <3> QED BY <2>1, <3>1 DEF WithPart, Prefix, Exists
  <2> QED BY <2>1, <2>2, <2>3
<1>5. ASSUME NEW n \in 0 .. 2, out = Prefix(d, n)
      PROVE  /\ NextPart(d, p) = n + 1
             /\ n < 2 => WithPart(d, p) = Prefix(d, n + 1)
  <2>1. NextPart(d, p) = n + 1
    BY <1>1, <1>5, PartsFacts DEF NextPart
  <2>2. ASSUME n < 2
        PROVE  WithPart(d, p) = Prefix(d, n + 1)
    <3>1. DOMAIN out = 1 .. n /\ \A i \in 1 .. n : out[i] = d
      BY <1>5 DEF Prefix
    <3>2. 1 .. n \cup {n + 1} = 1 .. (n + 1)
      OBVIOUS
    <3>3. Exists(p)
      BY <1>5, OutputFacts DEF Exists
    <3>4. WithPart(d, p) = [i \in 1 .. (n + 1) |-> IF i = n + 1 THEN d ELSE out[i]]
      BY <2>1, <3>1, <3>2, <3>3 DEF WithPart
    <3> QED BY <3>1, <3>4 DEF Prefix
  <2> QED BY <2>1, <2>2
<1>6. \/ out = None \/ out = Old \/ \E e \in Downloads \ {d}, n \in 0 .. 2 : out = Prefix(e, n)
      \/ \E n \in 0 .. 2 : out = Prefix(d, n)
  BY DEF Output
<1>7. PartFree(d, p) => out = None \/ \E n \in 0 .. 2 : out = Prefix(d, n)
  <2>1. NoParts = Prefix(d, 0) /\ 0 \in 0 .. 2
    BY OutputFacts
  <2> QED BY <1>4, <1>6, <2>1
<1>8. ASSUME NextPart(d, p) \in Parts, out = None \/ \E n \in 0 .. 2 : out = Prefix(d, n)
      PROVE  \E n \in 0 .. 2 : WithPart(d, p) = Prefix(d, n)
  <2>1. CASE out = None
    BY <1>4, <2>1
  <2>2. ASSUME NEW n \in 0 .. 2, out = Prefix(d, n)
        PROVE  \E k \in 0 .. 2 : WithPart(d, p) = Prefix(d, k)
    <3>1. n < 2 /\ n + 1 \in 0 .. 2
      BY <1>2, <1>5, <1>8, <2>2
    <3> QED BY <1>5, <2>2, <3>1
  <2> QED BY <1>8, <2>1, <2>2
<1>9. ASSUME NextPart(d, p) \notin Parts
      PROVE  out = Complete(d)
  <2>1. PICK n \in 0 .. 2 : out = Prefix(d, n)
    BY <1>2, <1>4, <1>6, <1>9
  <2>2. n = 2
    <3>1. n + 1 \notin {1, 2}
      BY <1>5, <1>9, <2>1 DEF Parts
    <3> QED BY <3>1
  <2> QED BY <2>1, <2>2, OutputFacts
<1> QED BY <1>7, <1>8, <1>9

-----------------------------------------------------------------------------
(* The inductive invariant. *)

\* The types: an output is of an earlier session, or the first parts of one item.
TypeOK ==
  /\ disk \in [Paths -> Output \cup {None}]
  /\ holder \in [Paths -> Downloads \cup {None}]
  /\ cache \in Kinds \cup {None} /\ link \in WebKinds
  /\ request \in [Downloads -> Requests]
  /\ stage \in [Downloads -> Stages]
  /\ origin \in [Downloads -> {"steam", "web", None}]
  /\ kind \in [Downloads -> Kinds \cup {None}]
  /\ result \in [Downloads -> Paths \cup {None}]
  /\ trouble \in [Downloads -> BOOLEAN]

\* A download that overwrites runs alone.
Alone ==
  \A d, e \in Downloads : Active(d) /\ Active(e) /\ d # e => Keeps(d) /\ Keeps(e)

Unlocated == {"locating", "fallback", "steamcmd"}

\* What is known of an item at every stage.
Item(d) ==
  /\ Active(d) /\ stage[d] \notin Unlocated =>
       /\ kind[d] \in Kinds /\ origin[d] \in {"steam", "web"}
       /\ kind[d] = "folder" => origin[d] = "steam"
  /\ stage[d] \in {"extracting", "sniffing"} => IsZip(d)
  /\ stage[d] = "decompressing" => SeemsLzma(d)
  /\ stage[d] = "converted" => Converts(d)

Has(d, p)     == disk[p] = Complete(d)
Writing(d, p) == holder[p] = d /\ \E n \in 0 .. 2 : disk[p] = Prefix(d, n)

\* d's .gma file is gone, and d does not write to the path any more.
Lost(d) == holder["gma"] # d /\ Written(d, "gma") = {} /\ MayHaveLostGma(d)

HasOrLost(d, p)     == Has(d, p) \/ (p = "gma" /\ Lost(d))
WritingOrLost(d, p) == Writing(d, p) \/ (p = "gma" /\ Lost(d))

\* What is on the disk of it.
Made(d) ==
  /\ stage[d] = "copying" /\ ~AsFolder(d) => WritingOrLost(d, RawPath(d))
  /\ stage[d] \in {"copied", "extracting", "sniffing", "decompressing", "converted"} =>
       HasOrLost(d, RawPath(d))
  /\ stage[d] = "extracting" /\ ~Keeps(d) => \E n \in 0 .. 2 : disk["base"] = Prefix(d, n)
  /\ stage[d] = "decompressing" => WritingOrLost(d, "gma")
  /\ stage[d] = "converted" => HasOrLost(d, ConvertedPath(d))

WorkshopInv ==
  /\ TypeOK
  /\ Alone
  /\ \A d \in Downloads : Item(d)
  /\ \A d \in Downloads : Made(d)

-----------------------------------------------------------------------------
(* Paths and options. *)

\* The paths of a located item: its copy's is not the one of the converted output.
LEMMA PathFacts ==
  ASSUME TypeOK, NEW d \in Downloads, Item(d), Active(d), stage[d] \notin Unlocated
  PROVE  /\ RawPath(d) \in Paths
         /\ AsFolder(d) <=> RawPath(d) = "base"
         /\ MayConvert(d) => ~AsFolder(d)
         /\ IsZip(d) => RawPath(d) = "zip"
         /\ SeemsLzma(d) => RawPath(d) \in {"zip", "lzma"}
         /\ Converts(d) => /\ ConvertedPath(d) \in {"base", "gma"}
                           /\ RawPath(d) \in {"zip", "lzma"}
                           /\ kind[d] = "zip" <=> ConvertedPath(d) = "base"
BY DEF TypeOK, Item, RawPath, AsFolder, MayConvert, IsZip, SeemsLzma, Converts, ConvertedPath,
       Paths, Kinds

LEMMA OptionFacts ==
  ASSUME TypeOK, NEW d \in Downloads
  PROVE  request[d] \in Request /\ request[d].overwrite \in BOOLEAN
BY DownloadAssumption DEF TypeOK, DownloadAssumption, Request

\* A part is written where d may write: to its folder, or to the file it holds.
Wrote(d, p) ==
  /\ \E n \in 0 .. 2 : disk' = [disk EXCEPT ![p] = Prefix(d, n)]
  /\ disk[p] = None \/ \E n \in 0 .. 2 : disk[p] = Prefix(d, n)
  /\ p = "base" \/ holder[p] = d

LEMMA PartStep ==
  ASSUME WorkshopInv, NEW d \in Downloads
  PROVE  /\ CopyPart(d) => Wrote(d, RawPath(d))
         /\ ExtractPart(d) => Wrote(d, "base")
         /\ DecompressPart(d) => Wrote(d, "gma")
<1>1. TypeOK /\ Item(d) /\ Made(d)
  BY DEF WorkshopInv
<1>2. \A p \in Paths : disk[p] \in Output \cup {None}
  BY <1>1 DEF TypeOK
<1>3. \A p \in Paths : Writing(d, p) => \E n \in 0 .. 2 : disk[p] = Prefix(d, n)
  BY DEF Writing
<1>4. ASSUME CopyPart(d)
      PROVE  Wrote(d, RawPath(d))
  <2>1. stage[d] = "copying" /\ Active(d) /\ stage[d] \notin Unlocated
    BY <1>4 DEF CopyPart, Active, Unlocated
  <2>2. RawPath(d) \in Paths /\ (AsFolder(d) <=> RawPath(d) = "base")
    BY <1>1, <2>1, PathFacts
  <2>3. NextPart(d, RawPath(d)) \in Parts
        /\ disk' = [disk EXCEPT ![RawPath(d)] = WithPart(d, RawPath(d))]
    BY <1>4 DEF CopyPart
  <2>4. CASE AsFolder(d)
    <3>1. PartFree(d, RawPath(d))
      BY <1>4, <2>4 DEF CopyPart
    <3> QED BY <1>2, <2>2, <2>3, <2>4, <3>1, NextPartFacts DEF Wrote
  <2>5. CASE ~AsFolder(d)
    <3>1. holder[RawPath(d)] = d
      BY <1>4, <2>5 DEF CopyPart
    <3>2. Writing(d, RawPath(d))
      BY <1>1, <2>1, <2>5, <3>1 DEF Made, WritingOrLost, Lost
    <3> QED BY <1>2, <1>3, <2>2, <2>3, <3>1, <3>2, NextPartFacts DEF Wrote
  <2> QED BY <2>4, <2>5
<1>5. ASSUME ExtractPart(d)
      PROVE  Wrote(d, "base")
  <2>1. stage[d] = "extracting" /\ "base" \in Paths
    BY <1>5 DEF ExtractPart, Paths
  <2>2. NextPart(d, "base") \in Parts /\ disk' = [disk EXCEPT !["base"] = WithPart(d, "base")]
    BY <1>5 DEF ExtractPart
  <2>3. disk["base"] = None \/ \E n \in 0 .. 2 : disk["base"] = Prefix(d, n)
    <3>1. CASE PartFree(d, "base")
      BY <1>2, <2>1, <3>1, NextPartFacts
    <3>2. CASE request[d].overwrite
      BY <1>1, <2>1, <3>2 DEF Made, Keeps
    <3> QED BY <1>5, <3>1, <3>2 DEF ExtractPart
  <2> QED BY <1>2, <2>1, <2>2, <2>3, NextPartFacts DEF Wrote
<1>6. ASSUME DecompressPart(d)
      PROVE  Wrote(d, "gma")
  <2>1. stage[d] = "decompressing" /\ holder["gma"] = d /\ "gma" \in Paths
    BY <1>6 DEF DecompressPart, Paths, Kinds
  <2>2. NextPart(d, "gma") \in Parts /\ disk' = [disk EXCEPT !["gma"] = WithPart(d, "gma")]
    BY <1>6 DEF DecompressPart
  <2>3. Writing(d, "gma")
    BY <1>1, <2>1 DEF Made, WritingOrLost, Lost
  <2> QED BY <1>2, <1>3, <2>1, <2>2, <2>3, NextPartFacts DEF Wrote
<1> QED BY <1>4, <1>5, <1>6

-----------------------------------------------------------------------------
(* A step of a download. *)

\* It leaves the options, and the stage, the source and the kind of the others.
StepFrame(e) ==
  /\ request' = request
  /\ stage'[e] # "new"
  /\ \A d \in Downloads \ {e} :
       /\ stage'[d] = stage[d] /\ origin'[d] = origin[d] /\ kind'[d] = kind[d]
       /\ trouble'[d] = trouble[d]

\* The types hold after it.
LEMMA TypeStep ==
  ASSUME WorkshopInv, NEW e \in Downloads, Step(e)
  PROVE  TypeOK' /\ StepFrame(e)
<1>1. TypeOK /\ Item(e)
  BY DEF WorkshopInv
<1>2. None \in Output \cup {None} /\ NoParts \in Output /\ \A n \in 0 .. 2 : Prefix(e, n) \in Output
  BY OutputFacts DEF Output
<1>3. {"folder", "plain", "zip", "lzma", "gma"} = Kinds /\ CacheKinds \subseteq Kinds \cup {None}
      /\ WebKinds \subseteq Kinds \cup {None}
  BY DownloadAssumption DEF Kinds, DownloadAssumption
<1>4. {"base", "gma", "zip", "lzma"} \subseteq Paths
  BY DEF Paths, Kinds
<1>5. CASE Start(e) \/ LocateNowhere(e) \/ SkipSteamworks(e)
  BY <1>1, <1>5 DEF Start, LocateNowhere, SkipSteamworks, TypeOK, StepFrame, Goto, FileFrame,
     fileVars, itemVars, Stages
<1>6. CASE LocateInCache(e) \/ LocateOnWeb(e) \/ FromSteamworks(e) \/ FromSteamCmd(e)
  BY <1>1, <1>3, <1>6 DEF LocateInCache, LocateOnWeb, FromSteamworks, FromSteamCmd, Located,
     TypeOK, StepFrame, Goto, fileVars, Stages
<1>7. CASE Prepare(e)
  BY <1>1, <1>2, <1>7 DEF Prepare, Delete, TypeOK, StepFrame, Goto, FileFrame, itemVars, Stages
<1>8. CASE OpenOutput(e)
  BY <1>1, <1>2, <1>8 DEF OpenOutput, TypeOK, StepFrame, Goto, FileFrame, itemVars, Stages
<1>9. CASE CopyPart(e) \/ ExtractPart(e) \/ DecompressPart(e)
  <2>1. \E p : \E n \in 0 .. 2 : disk' = [disk EXCEPT ![p] = Prefix(e, n)]
    BY <1>9, PartStep DEF Wrote
  <2>2. disk' \in [Paths -> Output \cup {None}]
    BY <1>1, <1>2, <2>1 DEF TypeOK
  <2>3. stage[e] # "new"
    BY <1>9 DEF CopyPart, ExtractPart, DecompressPart
  <2> QED BY <1>1, <1>9, <2>2, <2>3 DEF CopyPart, ExtractPart, DecompressPart, TypeOK, StepFrame,
          FileFrame, itemVars
<1>10. CASE CopyDone(e) \/ Fail(e) \/ Stop(e) \/ ExtractDone(e) \/ DecompressDone(e) \/ ExtractGivenUp(e)
  <2>1. TypeOK' /\ stage'[e] # "new" /\ request' = request
    BY <1>1, <1>10 DEF CopyDone, Fail, Stop, Ends, Close, ExtractDone, DecompressDone,
       ExtractGivenUp,
       TypeOK, Goto, FileFrame, itemVars, fileVars, Stages, Readable, EnsureOk, Exists, Deletable
  <2> QED BY <1>1, <1>10, <2>1 DEF CopyDone, Fail, Stop, Ends, ExtractDone, DecompressDone,
          ExtractGivenUp, TypeOK, StepFrame, Goto, FileFrame
<1>11. CASE ReturnRaw(e) \/ ReturnConverted(e) \/ DecompressGivenUp(e)
  <2>1. Active(e) /\ stage[e] \notin Unlocated
    BY <1>11 DEF ReturnRaw, Sniffing, ReturnConverted, DecompressGivenUp, Active, Unlocated
  <2>2. RawPath(e) \in Paths /\ (stage[e] = "converted" => ConvertedPath(e) \in Paths)
    BY <1>1, <1>4, <2>1, PathFacts DEF Item
  <2>3. CASE ReturnRaw(e)
    BY <1>1, <2>2, <2>3 DEF ReturnRaw, Return, Close, TypeOK, StepFrame, Goto, FileFrame,
       itemVars, Stages
  <2>4. CASE ReturnConverted(e)
    BY <1>1, <2>2, <2>4 DEF ReturnConverted, Return, Delete, TypeOK, StepFrame, Goto, FileFrame,
       itemVars, fileVars, Stages
  <2>5. CASE DecompressGivenUp(e)
    BY <1>1, <1>4, <2>2, <2>5 DEF DecompressGivenUp, Return, TypeOK, StepFrame, Goto, FileFrame,
       itemVars, Stages
  <2> QED BY <1>11, <2>3, <2>4, <2>5
<1>12. CASE BeginExtract(e) \/ BeginDecompress(e)
  BY <1>1, <1>2, <1>4, <1>12 DEF BeginExtract, BeginDecompress, TypeOK, StepFrame, Goto,
     FileFrame,
     itemVars, Stages
<1> QED BY <1>5, <1>6, <1>7, <1>8, <1>9, <1>10, <1>11, <1>12 DEF Step

\* Every step but the first is a step of an active download.
LEMMA StepActive ==
  ASSUME NEW e \in Downloads, Step(e)
  PROVE  Start(e) \/ Active(e)
BY DEF Step, LocateInCache, LocateOnWeb, LocateNowhere, FromSteamworks, SkipSteamworks,
       FromSteamCmd, Prepare, OpenOutput, CopyPart, CopyDone, Fail, Stop, ReturnRaw, Sniffing,
       BeginExtract, ExtractPart, ExtractDone, BeginDecompress, DecompressPart, DecompressDone,
       ReturnConverted, ExtractGivenUp, DecompressGivenUp, Active

\* The rule that an overwriting download runs alone survives it.
LEMMA AloneStep ==
  ASSUME WorkshopInv, NEW e \in Downloads, Step(e)
  PROVE  Alone'
<1>1. TypeOK /\ Alone /\ StepFrame(e)
  BY TypeStep DEF WorkshopInv
<1>2. CASE Start(e)
  BY <1>1, <1>2 DEF Start, Alone, Active, Keeps, StepFrame
<1>3. CASE ~Start(e)
  <2>1. Active(e)
    BY <1>3, StepActive
  <2>2. \A d \in Downloads : Active(d)' => Active(d)
    BY <1>1, <2>1 DEF StepFrame, Active
  <2> QED BY <1>1, <2>2 DEF Alone, Keeps, StepFrame
<1> QED BY <1>2, <1>3

\* What is known of the item survives it.
LEMMA ItemStep ==
  ASSUME WorkshopInv, NEW e \in Downloads, Step(e), NEW d \in Downloads
  PROVE  Item(d)'
<1>1. TypeOK /\ Item(d) /\ StepFrame(e)
  BY TypeStep DEF WorkshopInv
<1>2. CASE d # e
  BY <1>1, <1>2 DEF StepFrame, Item, Active, IsZip, SeemsLzma, Converts, MayConvert, AsFolder
<1>3. CASE d = e
  <2> USE <1>3
  <2>1. CASE Start(e) \/ LocateNowhere(e) \/ SkipSteamworks(e)
    BY <1>1, <2>1 DEF TypeOK, Item, Start, LocateNowhere, SkipSteamworks, Goto, Unlocated
  <2>2. CASE LocateInCache(e) \/ LocateOnWeb(e) \/ FromSteamworks(e) \/ FromSteamCmd(e)
    <3>1. link # "folder"
      BY <1>1, DownloadAssumption DEF TypeOK, DownloadAssumption, Kinds
    <3> QED BY <1>1, <2>2, <3>1, DownloadAssumption DEF TypeOK, Item, LocateInCache, LocateOnWeb,
            FromSteamworks, FromSteamCmd, Located, Goto, DownloadAssumption
  <2>3. ASSUME UNCHANGED <<kind, origin, request>>, Active(e), stage[e] \notin Unlocated,
               \/ stage' = stage
               \/ Goto(e, "ready") \/ Goto(e, "copying") \/ Goto(e, "copied") \/ Goto(e, "ok")
               \/ Goto(e, "failed") \/ Goto(e, "stopped")
               \/ IsZip(e) /\ (Goto(e, "extracting") \/ Goto(e, "sniffing"))
               \/ SeemsLzma(e) /\ Goto(e, "decompressing")
               \/ Converts(e) /\ Goto(e, "converted")
        PROVE  Item(e)'
    BY <1>1, <2>3 DEF TypeOK, Item, Goto, Active, IsZip, SeemsLzma, Converts, MayConvert, AsFolder
  <2>4. CASE Prepare(e) \/ OpenOutput(e) \/ CopyPart(e) \/ CopyDone(e) \/ ReturnRaw(e)
             \/ ReturnConverted(e) \/ DecompressGivenUp(e)
    BY <1>1, <2>3, <2>4 DEF Prepare, OpenOutput, CopyPart, CopyDone, ReturnRaw, ReturnConverted,
       DecompressGivenUp, Return, Sniffing, FileFrame, itemVars, Active, Unlocated
  <2>5. CASE Fail(e) \/ Stop(e)
    BY <1>1, <2>5 DEF Fail, Stop, Ends, Goto, Item, TypeOK, Active
  <2>6. CASE BeginExtract(e) \/ ExtractGivenUp(e) \/ ExtractPart(e) \/ ExtractDone(e)
    <3>1. IsZip(e) /\ Converts(e)
      BY <1>1, <2>6 DEF BeginExtract, ExtractGivenUp, ExtractPart, ExtractDone, Item, Converts
    <3> QED BY <1>1, <2>3, <2>6, <3>1 DEF BeginExtract, ExtractGivenUp, ExtractPart, ExtractDone,
            FileFrame, itemVars, Active, Unlocated
  <2>7. CASE BeginDecompress(e) \/ DecompressPart(e) \/ DecompressDone(e)
    <3>1. SeemsLzma(e) /\ (DecompressDone(e) => Converts(e))
      BY <1>1, <2>7 DEF BeginDecompress, DecompressPart, DecompressDone, Item, Converts
    <3> QED BY <1>1, <2>3, <2>7, <3>1 DEF BeginDecompress, DecompressPart, DecompressDone,
               Sniffing,
            FileFrame, itemVars, Active, Unlocated
  <2> QED BY <2>1, <2>2, <2>4, <2>5, <2>6, <2>7 DEF Step
<1> QED BY <1>2, <1>3

-----------------------------------------------------------------------------
(* What a step of e does to a path without overwriting. *)

\* At p there is nothing, or what e alone has written.
Free(e, p) ==
  \/ disk[p] = None
  \/ \E n \in 0 .. 2 : disk[p] = Prefix(e, n) /\ (p = "base" \/ holder[p] = e \/ n = 2)

\* It leaves the output, makes or deletes one of its own, or deletes a .gma file.
Harmless(e, p) ==
  \/ /\ disk'[p] = disk[p]
     /\ holder'[p] = holder[p] \/ (holder[p] = e /\ holder'[p] = None)
  \/ /\ Free(e, p)
     /\ disk'[p] = None \/ \E n \in 0 .. 2 : disk'[p] = Prefix(e, n)
     /\ p = "base" /\ Exists(p) => disk'[p] # None
     /\ holder'[p] \in {holder[p], e, None}
  \/ /\ p = "gma" /\ request[e].convert /\ stage[e] # "new"
     /\ disk'[p] = None /\ holder'[p] = None

LEMMA HarmlessStep ==
  ASSUME WorkshopInv, NEW e \in Downloads, Step(e), Keeps(e), NEW p \in Paths
  PROVE  Harmless(e, p)
<1>1. TypeOK /\ Item(e) /\ Made(e)
  BY DEF WorkshopInv
<1>2. \A q \in Paths : EnsureOk(e, q) => disk[q] = None
  BY DEF EnsureOk, Exists, Keeps
<1>3. NoParts = Prefix(e, 0) /\ Complete(e) = Prefix(e, 2) /\ 0 \in 0 .. 2 /\ 2 \in 0 .. 2
      /\ \A n \in 0 .. 2 : Prefix(e, n) # None
  BY OutputFacts
<1>4. CASE Start(e) \/ LocateInCache(e) \/ LocateOnWeb(e) \/ LocateNowhere(e) \/ FromSteamworks(e)
           \/ SkipSteamworks(e) \/ FromSteamCmd(e) \/ ExtractDone(e) \/ ExtractGivenUp(e)
  BY <1>4 DEF Start, LocateInCache, LocateOnWeb, LocateNowhere, FromSteamworks, SkipSteamworks,
     FromSteamCmd, Located, ExtractDone, ExtractGivenUp, fileVars, Harmless
<1>5. CASE CopyDone(e) \/ Fail(e) \/ Stop(e) \/ ReturnRaw(e) \/ DecompressDone(e)
  BY <1>5 DEF CopyDone, Fail, Stop, Ends, ReturnRaw, DecompressDone, Close, Harmless
<1>6. CASE Prepare(e) \/ OpenOutput(e)
  <2>1. RawPath(e) \in Paths
    BY <1>1, <1>6, PathFacts DEF Prepare, OpenOutput, Active, Unlocated
  <2>2. CASE Prepare(e)
    BY <1>1, <1>2, <2>1, <2>2 DEF Prepare, Delete, Exists, Harmless, Free
  <2>3. CASE OpenOutput(e)
    <3>1. Exists(RawPath(e)) => disk' = disk /\ holder' = holder
      BY <2>3 DEF OpenOutput
    <3>2. ASSUME ~Exists(RawPath(e))
          PROVE  disk' = [disk EXCEPT ![RawPath(e)] = NoParts]
                 /\ (holder' = holder \/ holder' = [holder EXCEPT ![RawPath(e)] = e])
      BY <2>3, <3>2 DEF OpenOutput
    <3> QED BY <1>1, <1>3, <2>1, <3>1, <3>2 DEF TypeOK, Exists, Harmless, Free
  <2> QED BY <1>6, <2>2, <2>3
<1>7. CASE CopyPart(e) \/ ExtractPart(e) \/ DecompressPart(e)
  <2>1. holder' = holder
    BY <1>7 DEF CopyPart, ExtractPart, DecompressPart
  <2>2. \E q : Wrote(e, q)
    BY <1>7, PartStep
  <2> QED BY <1>1, <1>3, <2>1, <2>2 DEF Wrote, TypeOK, Harmless, Free
<1>8. CASE BeginExtract(e)
  BY <1>1, <1>2, <1>3, <1>8 DEF BeginExtract, TypeOK, Paths, Exists, Harmless, Free
<1>9. CASE BeginDecompress(e)
  BY <1>1, <1>2, <1>3, <1>9 DEF BeginDecompress, TypeOK, Paths, Kinds, Harmless, Free
<1>10. CASE ReturnConverted(e)
  <2>1. stage[e] = "converted" /\ Active(e) /\ stage[e] \notin Unlocated
    BY <1>10 DEF ReturnConverted, Active, Unlocated
  <2>2. RawPath(e) \in Paths /\ RawPath(e) \notin {"base", "gma"}
    BY <1>1, <2>1, PathFacts DEF Item
  <2>3. disk[RawPath(e)] = Prefix(e, 2)
    BY <1>1, <1>3, <2>1, <2>2 DEF Made, HasOrLost, Has
  <2> QED BY <1>1, <1>3, <1>10, <2>2, <2>3 DEF ReturnConverted, Delete, fileVars, Harmless, Free
<1>11. CASE DecompressGivenUp(e)
  <2>1. request[e].convert /\ stage[e] # "new"
    BY <1>1, <1>11 DEF DecompressGivenUp, Sniffing, Item, SeemsLzma, MayConvert
  <2>2. "gma" \in Paths
    BY DEF Paths, Kinds
  <2> QED BY <1>1, <1>11, <2>1, <2>2 DEF DecompressGivenUp, TypeOK, Harmless
<1> QED BY <1>4, <1>5, <1>6, <1>7, <1>8, <1>9, <1>10, <1>11 DEF Step

\* So what another download has on the disk stays, but for its .gma file.
LEMMA KeptOrLost ==
  ASSUME WorkshopInv, NEW e \in Downloads, Step(e), NEW d \in Downloads \ {e}, NEW p \in Paths,
         Harmless(e, p), Harmless(e, "gma")
  PROVE  /\ HasOrLost(d, p) => HasOrLost(d, p)'
         /\ p # "base" /\ WritingOrLost(d, p) => WritingOrLost(d, p)'
<1>1. TypeOK /\ TypeOK' /\ StepFrame(e)
  BY TypeStep DEF WorkshopInv
<1>2. Written(d, "gma") = PartsIn(disk["gma"], d) /\ Written(d, "gma")' = PartsIn(disk'["gma"], d)
  BY DEF Written, PartsIn, Exists
<1>3. Complete(d) = Prefix(d, 2) /\ 2 \in 0 .. 2
  BY OutputFacts
<1>4. None # d /\ e # d
  BY DownloadAssumption DEF DownloadAssumption
<1>5. ASSUME MayHaveLostGma(d)
      PROVE  MayHaveLostGma(d)'
  BY <1>1, <1>5 DEF MayHaveLostGma, StepFrame
<1>6. ASSUME Lost(d)
      PROVE  Lost(d)'
  <2>1. holder'["gma"] # d
    BY <1>4, <1>6 DEF Harmless, Lost
  <2>2. disk'["gma"] = disk["gma"] \/ disk'["gma"] = None \/ \E n \in 0 .. 2 : disk'["gma"] = Prefix(e, n)
    BY DEF Harmless
  <2>3. Written(d, "gma")' = {}
    BY <1>2, <1>6, <2>2, PartsFacts DEF Lost
  <2> QED BY <1>5, <1>6, <2>1, <2>3 DEF Lost
<1>7. ASSUME p = "gma", disk'[p] = None, holder'[p] = None, request[e].convert, stage[e] # "new"
      PROVE  Lost(d)'
  <2>1. MayHaveLostGma(d)
    BY <1>7 DEF MayHaveLostGma
  <2> QED BY <1>2, <1>4, <1>5, <1>7, <2>1, PartsFacts DEF Lost
<1>8. ASSUME Has(d, p)
      PROVE  HasOrLost(d, p)'
  <2>1. ~Free(e, p)
    BY <1>3, <1>4, <1>8, OutputFacts DEF Has, Free
  <2> QED BY <1>7, <1>8, <2>1 DEF Harmless, Has, HasOrLost
<1>9. ASSUME Writing(d, p), p # "base"
      PROVE  WritingOrLost(d, p)'
  <2>1. ~Free(e, p)
    <3>1. ASSUME NEW n \in 0 .. 2, disk[p] = Prefix(e, n)
          PROVE  n = 0
      <4>1. PICK k \in 0 .. 2 : disk[p] = Prefix(d, k)
        BY <1>9 DEF Writing
      <4>2. Prefix(e, n) = Prefix(d, k) => n = k /\ (n > 0 => e = d)
        BY OutputFacts
      <4> QED BY <1>4, <3>1, <4>1, <4>2
    <3> QED BY <1>4, <1>9, <3>1, OutputFacts DEF Writing, Free
  <2> QED BY <1>4, <1>7, <1>9, <2>1 DEF Harmless, Writing, WritingOrLost
<1> QED BY <1>6, <1>8, <1>9 DEF HasOrLost, WritingOrLost

-----------------------------------------------------------------------------
(* The invariant. *)

\* What d itself makes.
LEMMA OwnMade ==
  ASSUME WorkshopInv, NEW d \in Downloads, Step(d)
  PROVE  Made(d)'
<1>1. TypeOK /\ Item(d) /\ Made(d) /\ TypeOK' /\ StepFrame(d)
  BY TypeStep DEF WorkshopInv
<1>2. NoParts = Prefix(d, 0) /\ Complete(d) = Prefix(d, 2) /\ 0 \in 0 .. 2 /\ 2 \in 0 .. 2
  BY OutputFacts
<1>3. {"base", "gma"} \subseteq Paths
  BY DEF Paths, Kinds
<1>4. \A p \in Paths : NextPart(d, p) \notin Parts => Has(d, p)
  BY <1>1, NextPartFacts DEF TypeOK, Has
<1>5. ASSUME stage'[d] \in Unlocated \cup {"located", "ready", "ok", "failed", "stopped"}
      PROVE  Made(d)'
  BY <1>5 DEF Made, Unlocated
<1>6. CASE \/ Start(d) \/ LocateInCache(d) \/ LocateOnWeb(d) \/ LocateNowhere(d) \/ FromSteamworks(d)
           \/ SkipSteamworks(d) \/ FromSteamCmd(d) \/ Prepare(d) \/ Fail(d) \/ Stop(d)
           \/ ReturnRaw(d) \/ ReturnConverted(d) \/ DecompressGivenUp(d)
  BY <1>1, <1>5, <1>6 DEF Start, LocateInCache, LocateOnWeb, LocateNowhere, FromSteamworks,
     SkipSteamworks, FromSteamCmd, Located, Prepare, Fail, Stop, Ends, ReturnRaw, ReturnConverted,
     DecompressGivenUp, Return, Goto, TypeOK, Unlocated
<1>7. ASSUME Active(d), stage[d] \notin Unlocated, UNCHANGED <<origin, kind, request>>
      PROVE  /\ RawPath(d)' = RawPath(d) /\ RawPath(d) \in Paths
             /\ AsFolder(d)' <=> AsFolder(d)
             /\ AsFolder(d) <=> RawPath(d) = "base"
             /\ IsZip(d) => RawPath(d) = "zip"
             /\ SeemsLzma(d) => RawPath(d) \in {"zip", "lzma"}
             /\ ConvertedPath(d)' = ConvertedPath(d)
             /\ Converts(d) => /\ ConvertedPath(d) \in {"base", "gma"}
                               /\ kind[d] = "zip" <=> ConvertedPath(d) = "base"
             /\ Keeps(d)' <=> Keeps(d)
  <2>1. RawPath(d)' = RawPath(d) /\ (AsFolder(d)' <=> AsFolder(d)) /\ (Keeps(d)' <=> Keeps(d))
        /\ ConvertedPath(d)' = ConvertedPath(d)
    BY <1>7 DEF RawPath, AsFolder, Keeps, ConvertedPath
  <2> QED BY <1>1, <1>7, <2>1, PathFacts
<1>8. CASE OpenOutput(d)
  <2>1. stage[d] = "ready" /\ stage'[d] = "copying" /\ Active(d) /\ stage[d] \notin Unlocated
        /\ UNCHANGED <<origin, kind, request>>
    BY <1>1, <1>8 DEF OpenOutput, Goto, FileFrame, itemVars, TypeOK, Active, Unlocated
  <2>2. ~AsFolder(d) => Writing(d, RawPath(d))'
    BY <1>1, <1>2, <1>7, <1>8, <2>1 DEF OpenOutput, TypeOK, Writing
  <2> QED BY <1>7, <2>1, <2>2 DEF Made, WritingOrLost
<1>9. CASE CopyPart(d)
  <2>1. stage[d] = "copying" /\ stage' = stage /\ Active(d) /\ stage[d] \notin Unlocated
        /\ UNCHANGED <<origin, kind, request>> /\ holder' = holder
    BY <1>9 DEF CopyPart, FileFrame, itemVars, Active, Unlocated
  <2>2. ~AsFolder(d) => Writing(d, RawPath(d))'
    BY <1>1, <1>7, <1>9, <2>1, PartStep DEF Wrote, TypeOK, Writing
  <2> QED BY <1>7, <2>1, <2>2 DEF Made, WritingOrLost
<1>10. CASE CopyDone(d)
  <2>1. stage[d] = "copying" /\ stage'[d] = "copied" /\ Active(d) /\ stage[d] \notin Unlocated
        /\ UNCHANGED <<origin, kind, request, disk>>
    BY <1>1, <1>10 DEF CopyDone, FileFrame, Goto, itemVars, TypeOK, Active, Unlocated
  <2>2. HasOrLost(d, RawPath(d))
    BY <1>1, <1>4, <1>7, <1>10, <2>1 DEF CopyDone, Made, WritingOrLost, Writing, HasOrLost
  <2>3. Lost(d) => Lost(d)'
    <3>1. holder' = holder \/ holder' = [p \in Paths |-> IF holder[p] = d THEN None ELSE holder[p]]
      BY <1>10 DEF CopyDone, Close
    <3>2. stage'[d] # "new" /\ \A e \in Downloads \ {d} : stage'[e] = stage[e]
      BY <1>1 DEF StepFrame
    <3>3. None # d
      BY DownloadAssumption DEF DownloadAssumption
    <3> QED BY <1>1, <1>3, <2>1, <3>1, <3>2, <3>3 DEF Lost, MayHaveLostGma, Written, Exists
  <2> QED BY <1>7, <2>1, <2>2, <2>3 DEF Made, HasOrLost, Has
<1>11. CASE BeginExtract(d)
  <2>1. stage[d] = "copied" /\ stage'[d] = "extracting" /\ Active(d) /\ stage[d] \notin Unlocated
        /\ UNCHANGED <<origin, kind, request>> /\ IsZip(d) /\ disk' = [disk EXCEPT !["base"] = NoParts]
    BY <1>1, <1>11 DEF BeginExtract, FileFrame, Goto, itemVars, TypeOK, Active, Unlocated
  <2>2. Has(d, "zip")
    BY <1>1, <1>7, <2>1 DEF Made, HasOrLost
  <2>3. Has(d, "zip")' /\ disk'["base"] = Prefix(d, 0)
    BY <1>1, <1>2, <1>3, <2>1, <2>2 DEF Has, TypeOK
  <2> QED BY <1>2, <1>7, <2>1, <2>3 DEF Made, HasOrLost
<1>12. CASE ExtractPart(d)
  <2>1. stage[d] = "extracting" /\ stage' = stage /\ Active(d) /\ stage[d] \notin Unlocated
        /\ UNCHANGED <<origin, kind, request>> /\ IsZip(d)
    BY <1>1, <1>12 DEF ExtractPart, FileFrame, itemVars, Item, Active, Unlocated
  <2>2. Has(d, "zip")
    BY <1>1, <1>7, <2>1 DEF Made, HasOrLost
  <2>3. PICK n \in 0 .. 2 : disk' = [disk EXCEPT !["base"] = Prefix(d, n)]
    BY <1>12, PartStep DEF Wrote
  <2>4. Has(d, "zip")' /\ disk'["base"] = Prefix(d, n)
    BY <1>1, <1>3, <2>2, <2>3 DEF Has, TypeOK
  <2> QED BY <1>7, <2>1, <2>4 DEF Made, HasOrLost
<1>13. CASE ExtractDone(d)
  <2>1. stage[d] = "extracting" /\ stage'[d] = "converted" /\ Active(d) /\ stage[d] \notin Unlocated
        /\ UNCHANGED <<origin, kind, request, disk>> /\ IsZip(d) /\ Has(d, "base")
    BY <1>1, <1>3, <1>4, <1>13 DEF ExtractDone, FileFrame, itemVars, Goto, TypeOK, Item, Active,
       Unlocated
  <2>2. Has(d, "zip") /\ kind[d] = "zip"
    BY <1>1, <1>7, <2>1 DEF Made, HasOrLost, IsZip
  <2>3. Has(d, "zip")' /\ Has(d, "base")' /\ ConvertedPath(d) = "base"
    BY <2>1, <2>2 DEF Has, ConvertedPath
  <2> QED BY <1>7, <2>1, <2>3 DEF Made, HasOrLost
<1>14. CASE ExtractGivenUp(d)
  <2>1. stage[d] \in {"copied", "extracting"} /\ stage'[d] = "sniffing" /\ Active(d)
        /\ stage[d] \notin Unlocated /\ UNCHANGED <<origin, kind, request, disk>> /\ IsZip(d)
    BY <1>1, <1>14 DEF ExtractGivenUp, FileFrame, itemVars, fileVars, Goto, TypeOK, Item, Active,
       Unlocated
  <2>2. Has(d, "zip")
    BY <1>1, <1>7, <2>1 DEF Made, HasOrLost
  <2> QED BY <1>7, <2>1, <2>2 DEF Made, HasOrLost, Has
<1>15. CASE BeginDecompress(d)
  <2>1. stage[d] \in {"copied", "sniffing"} /\ stage'[d] = "decompressing" /\ Active(d)
        /\ stage[d] \notin Unlocated /\ UNCHANGED <<origin, kind, request>> /\ SeemsLzma(d)
    BY <1>1, <1>15 DEF BeginDecompress, Sniffing, FileFrame, itemVars, Goto, TypeOK, Active,
       Unlocated
  <2>2. RawPath(d) # "gma" /\ Has(d, RawPath(d))
    BY <1>1, <1>7, <2>1 DEF Made, HasOrLost
  <2>3. Has(d, RawPath(d))' /\ Writing(d, "gma")'
    BY <1>1, <1>2, <1>3, <1>7, <1>15, <2>1, <2>2 DEF BeginDecompress, Has, Writing, TypeOK
  <2> QED BY <1>7, <2>1, <2>3 DEF Made, HasOrLost, WritingOrLost
<1>16. CASE DecompressPart(d)
  <2>1. stage[d] = "decompressing" /\ stage' = stage /\ Active(d) /\ holder["gma"] = d
        /\ stage[d] \notin Unlocated /\ UNCHANGED <<origin, kind, request, holder>> /\ SeemsLzma(d)
    BY <1>1, <1>16 DEF DecompressPart, FileFrame, itemVars, Item, Active, Unlocated
  <2>2. RawPath(d) # "gma" /\ Has(d, RawPath(d))
    BY <1>1, <1>7, <2>1 DEF Made, HasOrLost
  <2>3. PICK n \in 0 .. 2 : disk' = [disk EXCEPT !["gma"] = Prefix(d, n)]
    BY <1>16, PartStep DEF Wrote
  <2>4. Has(d, RawPath(d))' /\ Writing(d, "gma")'
    BY <1>1, <1>3, <1>7, <2>1, <2>2, <2>3 DEF Has, Writing, TypeOK
  <2> QED BY <1>7, <2>1, <2>4 DEF Made, HasOrLost, WritingOrLost
<1>17. CASE DecompressDone(d)
  <2>1. stage[d] = "decompressing" /\ stage'[d] = "converted" /\ Active(d)
        /\ stage[d] \notin Unlocated /\ UNCHANGED <<origin, kind, request, disk>> /\ SeemsLzma(d)
        /\ kind[d] = "lzma"
    BY <1>1, <1>17 DEF DecompressDone, FileFrame, itemVars, Goto, Item, TypeOK, Active, Unlocated
  <2>2. RawPath(d) # "gma" /\ Has(d, RawPath(d)) /\ ConvertedPath(d) = "gma"
    BY <1>1, <1>7, <2>1 DEF Made, HasOrLost, ConvertedPath
  <2>3. Has(d, "gma") \/ Lost(d)
    BY <1>1, <1>3, <1>4, <1>17, <2>1 DEF DecompressDone, Made, WritingOrLost, Writing
  <2>4. Lost(d) => Lost(d)'
    <3>1. stage'[d] # "new" /\ \A e \in Downloads \ {d} : stage'[e] = stage[e]
      BY <1>1 DEF StepFrame
    <3>2. None # d
      BY DownloadAssumption DEF DownloadAssumption
    <3> QED BY <1>1, <1>3, <1>17, <2>1, <3>1, <3>2 DEF DecompressDone, Close, Lost,
               MayHaveLostGma, Written, Exists
  <2> QED BY <1>7, <2>1, <2>2, <2>3, <2>4 DEF Made, HasOrLost, Has
<1> QED BY <1>6, <1>8, <1>9, <1>10, <1>11, <1>12, <1>13, <1>14, <1>15, <1>16, <1>17 DEF Step

\* What the others have made survives d's step.
LEMMA OthersMade ==
  ASSUME WorkshopInv, NEW e \in Downloads, Step(e), NEW d \in Downloads \ {e}
  PROVE  Made(d)'
<1>1. TypeOK /\ Item(d) /\ Made(d) /\ Alone /\ StepFrame(e)
  BY TypeStep DEF WorkshopInv
<1>2. stage'[d] = stage[d] /\ Keeps(d)' = Keeps(d) /\ RawPath(d)' = RawPath(d)
      /\ AsFolder(d)' = AsFolder(d) /\ ConvertedPath(d)' = ConvertedPath(d)
  BY <1>1 DEF StepFrame, Keeps, RawPath, AsFolder, ConvertedPath
<1>3. CASE ~Active(d)
  BY <1>2, <1>3 DEF Made, Active
<1>4. CASE stage[d] \in Unlocated \cup {"located", "ready"}
  BY <1>2, <1>4 DEF Made, Unlocated
<1>5. CASE Active(d) /\ stage[d] \notin Unlocated
  <2>1. Keeps(e) /\ Keeps(d)
    BY <1>1, <1>5, StepActive DEF Alone, Start
  <2>2. RawPath(d) \in Paths /\ (AsFolder(d) <=> RawPath(d) = "base") /\ "gma" \in Paths
    BY <1>1, <1>5, PathFacts DEF Paths, Kinds
  <2>3. stage[d] = "converted" => ConvertedPath(d) \in Paths
    BY <1>1, <1>5, PathFacts DEF Item, Paths, Kinds
  <2>4. \A p \in Paths : Harmless(e, p)
    BY <2>1, HarmlessStep
  <2>5. \A p \in Paths : /\ HasOrLost(d, p) => HasOrLost(d, p)'
                         /\ p # "base" /\ WritingOrLost(d, p) => WritingOrLost(d, p)'
    BY <2>2, <2>4, KeptOrLost
  <2> QED BY <1>1, <1>2, <2>1, <2>2, <2>3, <2>5 DEF Made
<1> QED BY <1>3, <1>4, <1>5

\* So the invariant holds in every state.
LEMMA WorkshopStep ==
  ASSUME WorkshopInv, [Next]_vars
  PROVE  WorkshopInv'
<1>1. ASSUME NEW e \in Downloads, Step(e)
      PROVE  WorkshopInv'
  <2>1. \A d \in Downloads : Made(d)'
    BY <1>1, OwnMade, OthersMade
  <2> QED BY <1>1, <2>1, TypeStep, AloneStep, ItemStep DEF WorkshopInv
<1>2. CASE UNCHANGED vars
  <2>1. UNCHANGED <<disk, holder, cache, link, request, stage, origin, kind, result, trouble>>
    BY <1>2 DEF vars, fileVars, itemVars
  <2>2. TypeOK' /\ Alone'
    BY <2>1 DEF WorkshopInv, TypeOK, Alone, Active, Keeps
  <2>3. ASSUME NEW d \in Downloads
        PROVE  Item(d)' /\ Made(d)'
    <3>1. Item(d) /\ Made(d)
      BY DEF WorkshopInv
    <3>2. Item(d)'
      BY <2>1, <3>1 DEF Item, Active, IsZip, SeemsLzma, Converts, MayConvert, AsFolder
    <3>3. Made(d)'
      BY <2>1, <3>1 DEF Made, HasOrLost, WritingOrLost, Has, Writing, Lost, MayHaveLostGma,
         Written,
         Exists, RawPath, AsFolder, Keeps, ConvertedPath
    <3> QED BY <3>2, <3>3
  <2> QED BY <2>2, <2>3 DEF WorkshopInv
<1> QED BY <1>1, <1>2 DEF Next

LEMMA WorkshopInit ==
  ASSUME Init
  PROVE  WorkshopInv
<1>1. TypeOK
  BY DownloadAssumption DEF Init, TypeOK, Output, Stages, DownloadAssumption
<1>2. \A d \in Downloads : stage[d] = "new"
  BY DEF Init
<1> QED BY <1>1, <1>2 DEF WorkshopInv, Alone, Item, Made, Active

\* The invariant, for any number of downloads, and the types in it: every output is
\* an earlier session's or the first parts of a single download's item, and what a
\* download has written is on the disk at every stage, but for a .gma file.
THEOREM WorkshopInvariant == Spec => []WorkshopInv
<1>1. Init => WorkshopInv
  BY WorkshopInit
<1>2. WorkshopInv /\ [Next]_vars => WorkshopInv'
  BY WorkshopStep
<1> QED BY <1>1, <1>2, PTL DEF Spec

-----------------------------------------------------------------------------
(* The properties. *)

\* An output of an earlier session, or one that was reported and is still whole,
\* is not touched while nobody overwrites.
LEMMA SettledKept ==
  ASSUME WorkshopInv, [Next]_vars, NobodyOverwrites, NEW p \in Paths \ {"gma"}, Settled(p)
  PROVE  disk'[p] = disk[p]
<1>1. ASSUME NEW e \in Downloads, Step(e)
      PROVE  disk'[p] = disk[p]
  <2>1. CASE Start(e)
    BY <2>1 DEF Start, fileVars
  <2>2. CASE ~Start(e)
    <3>1. Active(e)
      BY <1>1, <2>2, StepActive
    <3>2. Harmless(e, p)
      BY <1>1, <3>1, HarmlessStep DEF NobodyOverwrites
    <3>3. ~Free(e, p)
      <4>1. CASE disk[p] = Old
        BY <4>1, OutputFacts DEF Free
      <4>2. ASSUME NEW d \in Downloads, stage[d] = "ok", disk[p] = Complete(d)
            PROVE  ~Free(e, p)
        <5>1. d # e
          BY <3>1, <4>2 DEF Active
        <5>2. disk[p] = Prefix(d, 2) /\ 2 \in 0 .. 2
          BY <4>2, OutputFacts
        <5> QED BY <5>1, <5>2, OutputFacts DEF Free
      <4> QED BY <4>1, <4>2 DEF Settled
    <3> QED BY <3>2, <3>3 DEF Harmless
  <2> QED BY <2>1, <2>2
<1>2. CASE UNCHANGED vars
  BY <1>2 DEF vars, fileVars
<1> QED BY <1>1, <1>2 DEF Next

\* Without "overwrite" an output that was there stays as it is, whichever of any
\* number of downloads fails or is killed at whichever point, but for the .gma file
\* next to an LZMA payload (EnsureOutputDoesNotExist, FileMode.CreateNew and the
\* clean-up of MaybeConvertDownloadedFileAsync).
THEOREM WorkshopOutputsKept == Spec => OutputsKeptButGma
<1>1. WorkshopInv /\ [Next]_vars =>
        [NobodyOverwrites => \A p \in Paths \ {"gma"} : Settled(p) => disk'[p] = disk[p]]_vars
  BY SettledKept
<1> QED BY <1>1, WorkshopInvariant, PTL DEF Spec, OutputsKeptButGma

\* A step after which d has succeeded reports d's whole item.
LEMMA SuccessStep ==
  ASSUME WorkshopInv, [Next]_vars, NEW d \in Downloads, Succeeds(d)
  PROVE  \/ disk'[result'[d]] = Complete(d)
         \/ result'[d] = "gma" /\ Written(d, "gma")' = {} /\ MayHaveLostGma(d)
<1>1. TypeOK /\ Item(d) /\ Made(d) /\ "gma" \in Paths
  BY DEF WorkshopInv, Paths, Kinds
<1>2. PICK e \in Downloads : Step(e)
  BY DEF Succeeds, Next, vars
<1>3. e = d
  BY <1>2, TypeStep DEF Succeeds, StepFrame
<1>4. CASE ReturnRaw(d)
  <2>1. stage[d] \in {"sniffing", "copied"} /\ disk' = disk /\ result'[d] = RawPath(d)
    BY <1>1, <1>4 DEF ReturnRaw, Sniffing, Return, TypeOK
  <2>2. HasOrLost(d, RawPath(d))
    BY <1>1, <2>1 DEF Made
  <2>3. Written(d, "gma")' = Written(d, "gma")
    BY <2>1 DEF Written, Exists
  <2> QED BY <2>1, <2>2, <2>3 DEF HasOrLost, Has, Lost
<1>5. CASE ReturnConverted(d)
  <2>1. stage[d] = "converted" /\ Active(d) /\ stage[d] \notin Unlocated
        /\ result'[d] = ConvertedPath(d)
    BY <1>1, <1>5 DEF ReturnConverted, Return, TypeOK, Active, Unlocated
  <2>2. ConvertedPath(d) \in {"base", "gma"} /\ RawPath(d) \in {"zip", "lzma"}
    BY <1>1, <2>1, PathFacts DEF Item
  <2>3. HasOrLost(d, ConvertedPath(d))
    BY <1>1, <2>1 DEF Made
  <2>4. disk'[ConvertedPath(d)] = disk[ConvertedPath(d)]
    BY <1>5, <2>2 DEF ReturnConverted, Delete, fileVars, Paths, Kinds
  <2>5. ConvertedPath(d) = "gma" => Written(d, "gma")' = Written(d, "gma")
    BY <2>4 DEF Written, Exists
  <2> QED BY <2>1, <2>3, <2>4, <2>5 DEF HasOrLost, Has, Lost
<1>6. CASE DecompressGivenUp(d)
  <2>1. /\ stage[d] \in {"sniffing", "copied", "decompressing"} /\ SeemsLzma(d)
        /\ Active(d) /\ stage[d] \notin Unlocated /\ result'[d] = RawPath(d)
    BY <1>1, <1>6 DEF DecompressGivenUp, Sniffing, Return, TypeOK, Item, Active, Unlocated
  <2>2. RawPath(d) \in {"zip", "lzma"}
    BY <1>1, <2>1, PathFacts
  <2>3. Has(d, RawPath(d))
    BY <1>1, <2>1, <2>2 DEF Made, HasOrLost
  <2>4. disk'[RawPath(d)] = disk[RawPath(d)]
    BY <1>1, <1>6, <2>2 DEF DecompressGivenUp, TypeOK
  <2> QED BY <2>1, <2>3, <2>4 DEF Has
<1>7. stage'[d] = "ok" /\ stage[d] # "ok"
  BY DEF Succeeds
<1> QED BY <1>1, <1>2, <1>3, <1>4, <1>5, <1>6, <1>7 DEF Step, Start, LocateInCache, LocateOnWeb,
        LocateNowhere, FromSteamworks, SkipSteamworks, FromSteamCmd, Located, Prepare, OpenOutput,
        CopyPart, CopyDone, Fail, Stop, Ends, BeginExtract, ExtractPart, ExtractDone, BeginDecompress,
        DecompressPart, DecompressDone, ExtractGivenUp, Goto, TypeOK

\* A download that succeeds, among any number at the same time, reports an output
\* that is exactly its item: whole, with nothing of an earlier output or of another
\* download in it.  A .gma file alone may be gone, deleted by another download.
THEOREM WorkshopSuccessComplete == Spec => SuccessComplete
<1>1. WorkshopInv /\ [Next]_vars =>
        [\A d \in Downloads : Succeeds(d) =>
           \/ disk'[result'[d]] = Complete(d)
           \/ result'[d] = "gma" /\ Written(d, "gma")' = {} /\ MayHaveLostGma(d)]_vars
  BY SuccessStep
<1> QED BY <1>1, WorkshopInvariant, PTL DEF Spec, SuccessComplete

-----------------------------------------------------------------------------
(* Open streams, and that a conversion takes place. *)

\* A download has a file open while it is written, and its copy to its own end when
\* it came from the web: then nothing is converted.  A .zip from Steam of which
\* nothing went wrong is given up only for a folder that must not be replaced.
Held(d) ==
  /\ \A p \in Paths : holder[p] = d =>
       \/ p = RawPath(d) /\ ~AsFolder(d) /\ stage[d] = "copying"
       \/ /\ p = RawPath(d) /\ ~AsFolder(d) /\ origin[d] = "web"
          /\ stage[d] \in {"copied", "extracting", "sniffing"}
       \/ p = "gma" /\ stage[d] = "decompressing"
  /\ /\ origin[d] = "web" /\ RawPath(d) # "gma"
     /\ stage[d] \in {"copied", "extracting", "sniffing", "decompressing", "converted"}
     => holder[RawPath(d)] = d
  /\ stage[d] \in {"decompressing", "converted"} => origin[d] = "steam"
  /\ stage[d] = "extracting" /\ origin[d] = "web" => Written(d, "base") = {}
  /\ stage[d] = "sniffing" /\ origin[d] = "steam" /\ ~trouble[d] => Keeps(d) /\ Exists("base")

HeldInv == WorkshopInv /\ \A d \in Downloads : Held(d)

\* A step of e opens and closes streams of e's only, or deletes.
LEMMA HolderStep ==
  ASSUME WorkshopInv, NEW e \in Downloads, Step(e), NEW p \in Paths
  PROVE  holder'[p] \in {holder[p], e, None}
<1>1. TypeOK
  BY DEF WorkshopInv
<1>2. CASE \/ Start(e) \/ LocateInCache(e) \/ LocateOnWeb(e) \/ LocateNowhere(e) \/ FromSteamworks(e)
           \/ SkipSteamworks(e) \/ FromSteamCmd(e) \/ ExtractDone(e) \/ ExtractGivenUp(e)
           \/ CopyPart(e) \/ ExtractPart(e) \/ DecompressPart(e) \/ BeginExtract(e)
  BY <1>2 DEF Start, LocateInCache, LocateOnWeb, LocateNowhere, FromSteamworks, SkipSteamworks,
     FromSteamCmd, Located, ExtractDone, ExtractGivenUp, fileVars, CopyPart, ExtractPart,
     DecompressPart, BeginExtract
<1>3. CASE CopyDone(e) \/ Fail(e) \/ Stop(e) \/ ReturnRaw(e) \/ DecompressDone(e)
  BY <1>3 DEF CopyDone, Fail, Stop, Ends, ReturnRaw, DecompressDone, Close
<1>4. CASE Prepare(e) \/ OpenOutput(e) \/ BeginDecompress(e)
  BY <1>1, <1>4 DEF Prepare, Delete, OpenOutput, BeginDecompress, TypeOK
<1>5. CASE ReturnConverted(e) \/ DecompressGivenUp(e)
  BY <1>1, <1>5 DEF ReturnConverted, Delete, fileVars, DecompressGivenUp, TypeOK
<1> QED BY <1>2, <1>3, <1>4, <1>5 DEF Step

\* A step of e leaves what is known of d's streams.
LEMMA OthersHeld ==
  ASSUME HeldInv, NEW e \in Downloads, Step(e), NEW d \in Downloads \ {e}
  PROVE  Held(d)'
<1>1. TypeOK /\ Item(d) /\ Made(d) /\ Held(d) /\ Alone /\ StepFrame(e) /\ WorkshopInv
  BY TypeStep DEF HeldInv, WorkshopInv
<1>2. /\ stage'[d] = stage[d] /\ origin'[d] = origin[d] /\ trouble'[d] = trouble[d]
      /\ RawPath(d)' = RawPath(d) /\ Keeps(d)' = Keeps(d) /\ AsFolder(d)' = AsFolder(d)
  BY <1>1 DEF StepFrame, Keeps, RawPath, AsFolder
<1>3. None # d /\ {"base", "gma"} \subseteq Paths
  BY DownloadAssumption DEF DownloadAssumption, Paths, Kinds
<1>4. \A p \in Paths : holder'[p] = d => holder[p] = d
  BY <1>1, <1>3, HolderStep
<1>5. ASSUME Active(d)
      PROVE  \A p \in Paths : Harmless(e, p)
  <2>1. Keeps(e)
    BY <1>1, <1>5, StepActive DEF Alone, Start
  <2> QED BY <1>1, <2>1, HarmlessStep
<1>6. ASSUME origin[d] = "web", RawPath(d) # "gma",
             stage[d] \in {"copied", "extracting", "sniffing", "decompressing", "converted"}
      PROVE  holder'[RawPath(d)] = d
  <2>1. Active(d) /\ stage[d] \notin Unlocated
    BY <1>6 DEF Active, Unlocated
  <2>2. RawPath(d) \in Paths
    BY <1>1, <2>1, PathFacts
  <2>3. Has(d, RawPath(d)) /\ holder[RawPath(d)] = d
    BY <1>1, <1>6 DEF Made, HasOrLost, Held
  <2>4. ~Free(e, RawPath(d))
    BY <1>3, <2>3, OutputFacts DEF Has, Free
  <2> QED BY <1>5, <1>6, <2>1, <2>2, <2>3, <2>4 DEF Harmless
<1>7. ASSUME stage[d] = "extracting", Written(d, "base") = {}
      PROVE  Written(d, "base")' = {}
  <2>1. Harmless(e, "base")
    BY <1>3, <1>5, <1>7 DEF Active
  <2>2. Written(d, "base") = PartsIn(disk["base"], d) /\ Written(d, "base")' = PartsIn(disk'["base"], d)
    BY DEF Written, PartsIn, Exists
  <2>3. disk'["base"] = disk["base"] \/ disk'["base"] = None \/ \E n \in 0 .. 2 : disk'["base"] = Prefix(e, n)
    BY <2>1 DEF Harmless
  <2> QED BY <1>7, <2>2, <2>3, PartsFacts
<1>8. ASSUME stage[d] = "sniffing", Exists("base")
      PROVE  Exists("base")'
  BY <1>3, <1>5, <1>8 DEF Active, Harmless, Exists
<1> QED BY <1>1, <1>2, <1>4, <1>6, <1>7, <1>8 DEF Held

\* What other downloads hold open does not keep d from its copy or from replacing an
\* output: a path that d has written to its end is held by d alone, and an output
\* that d may replace by nobody.
LEMMA NotInTheWay ==
  ASSUME HeldInv, NEW d \in Downloads, origin[d] = "steam", RawPath(d) # "gma",
         stage[d] \in {"copied", "extracting", "sniffing"}
  PROVE  /\ Readable(d)
         /\ \A p \in {"base", "gma"} : ~EnsureOk(d, p) => Keeps(d) /\ Exists(p)
<1>1. TypeOK /\ Item(d) /\ Made(d) /\ Held(d) /\ Alone /\ Active(d) /\ stage[d] \notin Unlocated
  BY DEF HeldInv, WorkshopInv, Active, Unlocated
<1>2. \A x \in Downloads : Made(x) /\ Held(x) /\ Item(x)
  BY DEF HeldInv, WorkshopInv
<1>3. RawPath(d) \in Paths /\ {"base", "gma"} \subseteq Paths
  BY <1>1, PathFacts DEF Paths, Kinds
<1>4. disk[RawPath(d)] = Prefix(d, 2) /\ disk[RawPath(d)] # None
  BY <1>1, OutputFacts DEF Made, HasOrLost, Has
<1>5. ASSUME NEW x \in Downloads, holder[RawPath(d)] = x
      PROVE  FALSE
  <2>1. x # d
    BY <1>1, <1>3, <1>5 DEF Held
  <2>2. \E n \in 0 .. 2 : disk[RawPath(d)] = Prefix(x, n)
    <3>1. Held(x) /\ Made(x) /\ RawPath(d) # "gma"
      BY <1>2
    <3>2. RawPath(x) = RawPath(d) /\ ~AsFolder(x) /\ stage[x] \in {"copying", "copied", "extracting", "sniffing"}
      BY <1>3, <1>5, <3>1 DEF Held
    <3>3. Writing(x, RawPath(d)) \/ Has(x, RawPath(d))
      BY <3>1, <3>2 DEF Made, WritingOrLost, HasOrLost
    <3> QED BY <3>3, OutputFacts DEF Writing, Has
  <2>3. PICK n \in 0 .. 2 : Prefix(d, 2) = Prefix(x, n)
    BY <1>4, <2>2
  <2>4. 2 \in 0 .. 2 /\ 2 > 0
    OBVIOUS
  <2> QED BY <2>1, <2>3, <2>4, OutputFacts
<1>6. holder[RawPath(d)] = None
  BY <1>1, <1>3, <1>5 DEF TypeOK
<1>7. ASSUME NEW p \in {"base", "gma"}, ~EnsureOk(d, p), ~Keeps(d)
      PROVE  FALSE
  <2>1. PICK x \in Downloads : holder[p] = x
    BY <1>1, <1>3, <1>7 DEF TypeOK, EnsureOk, Deletable, Keeps
  <2>2. Held(x) /\ Item(x)
    BY <1>2
  <2>3. Active(x) /\ stage[x] \notin Unlocated
    BY <1>3, <2>1, <2>2 DEF Held, Active, Unlocated
  <2>4. x = d
    BY <1>1, <1>7, <2>3 DEF Alone
  <2> QED BY <1>1, <1>3, <2>1, <2>4 DEF Held
<1> QED BY <1>3, <1>4, <1>6, <1>7 DEF Readable, Exists, EnsureOk

\* d's own steps.
LEMMA OwnHeld ==
  ASSUME HeldInv, NEW d \in Downloads, Step(d)
  PROVE  Held(d)'
<1>1. TypeOK /\ Item(d) /\ Made(d) /\ Held(d) /\ TypeOK' /\ Alone /\ StepFrame(d) /\ WorkshopInv
  BY TypeStep DEF HeldInv, WorkshopInv
<1>2. None # d /\ {"base", "gma"} \subseteq Paths
  BY DownloadAssumption DEF DownloadAssumption, Paths, Kinds
<1>3. (\A p \in Paths : holder[p] # d) \/ stage[d] \in {"copying", "copied", "extracting", "sniffing", "decompressing"}
  BY <1>1 DEF Held
<1>4. ASSUME stage'[d] \notin {"copied", "extracting", "sniffing", "decompressing", "converted"},
             \A p \in Paths : holder'[p] # d
      PROVE  Held(d)'
  BY <1>4 DEF Held
<1>5. CASE \/ Start(d) \/ LocateInCache(d) \/ LocateOnWeb(d) \/ LocateNowhere(d) \/ FromSteamworks(d)
           \/ SkipSteamworks(d) \/ FromSteamCmd(d) \/ Prepare(d)
  BY <1>1, <1>2, <1>3, <1>4, <1>5 DEF Start, LocateInCache, LocateOnWeb, LocateNowhere,
     FromSteamworks,
     SkipSteamworks, FromSteamCmd, Located, Prepare, Delete, Goto, TypeOK, fileVars
<1>6. CASE Fail(d) \/ Stop(d) \/ ReturnRaw(d)
  BY <1>1, <1>2, <1>4, <1>6 DEF Fail, Stop, Ends, ReturnRaw, Return, Close, Goto, TypeOK
<1>7. CASE ReturnConverted(d)
  BY <1>1, <1>2, <1>3, <1>4, <1>7 DEF ReturnConverted, Return, Delete, Goto, TypeOK, fileVars
<1>8. CASE DecompressGivenUp(d)
  BY <1>1, <1>2, <1>4, <1>8 DEF DecompressGivenUp, Return, Goto, TypeOK
<1>9. ASSUME Active(d), stage[d] \notin Unlocated, UNCHANGED <<origin, kind, request>>
      PROVE  /\ RawPath(d)' = RawPath(d) /\ RawPath(d) \in Paths
             /\ AsFolder(d)' <=> AsFolder(d)
             /\ AsFolder(d) <=> RawPath(d) = "base"
             /\ IsZip(d) => RawPath(d) = "zip"
             /\ SeemsLzma(d) => RawPath(d) \in {"zip", "lzma"}
             /\ MayConvert(d) => ~AsFolder(d)
             /\ Keeps(d)' <=> Keeps(d)
             /\ AsFolder(d) => origin[d] = "steam"
             /\ origin[d] \in {"steam", "web"}
  <2>1. RawPath(d)' = RawPath(d) /\ (AsFolder(d)' <=> AsFolder(d)) /\ (Keeps(d)' <=> Keeps(d))
        /\ (AsFolder(d) => origin[d] = "steam")
    BY <1>9 DEF RawPath, AsFolder, Keeps
  <2>2. origin[d] \in {"steam", "web"}
    BY <1>1, <1>9 DEF TypeOK, Item
  <2> QED BY <1>1, <1>9, <2>1, <2>2, PathFacts
<1>10. CASE OpenOutput(d)
  <2>1. stage[d] = "ready" /\ stage'[d] = "copying" /\ Active(d) /\ stage[d] \notin Unlocated
        /\ UNCHANGED <<origin, kind, request>>
    BY <1>1, <1>10 DEF OpenOutput, Goto, FileFrame, itemVars, TypeOK, Active, Unlocated
  <2>2. \A p \in Paths : holder'[p] = d => p = RawPath(d) /\ ~AsFolder(d)
    BY <1>1, <1>3, <1>10, <2>1 DEF OpenOutput, TypeOK
  <2> QED BY <1>9, <2>1, <2>2 DEF Held
<1>11. CASE CopyPart(d)
  <2>1. stage[d] = "copying" /\ stage' = stage /\ Active(d) /\ stage[d] \notin Unlocated
        /\ UNCHANGED <<origin, kind, request, holder>>
    BY <1>11 DEF CopyPart, FileFrame, itemVars, Active, Unlocated
  <2> QED BY <1>1, <1>9, <2>1 DEF Held
<1>12. CASE CopyDone(d)
  <2>1. stage[d] = "copying" /\ stage'[d] = "copied" /\ Active(d) /\ stage[d] \notin Unlocated
        /\ UNCHANGED <<origin, kind, request>>
    BY <1>1, <1>12 DEF CopyDone, FileFrame, Goto, itemVars, TypeOK, Active, Unlocated
  <2>2. CASE origin[d] = "web"
    <3>1. holder' = holder
      BY <1>12, <2>2 DEF CopyDone
    <3>2. RawPath(d) # "gma" => holder[RawPath(d)] = d
      BY <1>1, <1>9, <2>1, <2>2 DEF Made, WritingOrLost, Writing
    <3> QED BY <1>1, <1>9, <2>1, <2>2, <3>1, <3>2 DEF Held
  <2>3. CASE origin[d] # "web"
    <3>1. \A p \in Paths : holder'[p] # d
      BY <1>2, <1>12, <2>3 DEF CopyDone, Close
    <3> QED BY <1>9, <2>1, <2>3, <3>1 DEF Held
  <2> QED BY <2>2, <2>3
<1>13. CASE BeginExtract(d)
  <2>1. stage[d] = "copied" /\ stage'[d] = "extracting" /\ Active(d) /\ stage[d] \notin Unlocated
        /\ UNCHANGED <<origin, kind, request, holder>> /\ disk'["base"] = NoParts
    BY <1>1, <1>2, <1>13 DEF BeginExtract, FileFrame, Goto, itemVars, TypeOK, Active, Unlocated
  <2>2. Written(d, "base")' = {}
    BY <2>1 DEF Written, NoParts
  <2> QED BY <1>1, <1>9, <2>1, <2>2 DEF Held
<1>14. CASE ExtractPart(d)
  <2>1. stage[d] = "extracting" /\ stage' = stage /\ Active(d) /\ stage[d] \notin Unlocated
        /\ UNCHANGED <<origin, kind, request, holder>> /\ IsZip(d) /\ holder[RawPath(d)] = None
    BY <1>1, <1>14 DEF ExtractPart, Readable, FileFrame, itemVars, Item, Active, Unlocated
  <2>2. origin[d] = "steam"
    BY <1>1, <1>2, <1>9, <2>1 DEF Held
  <2> QED BY <1>1, <1>9, <2>1, <2>2 DEF Held
<1>15. CASE ExtractDone(d)
  <2>1. stage[d] = "extracting" /\ stage'[d] = "converted" /\ Active(d) /\ stage[d] \notin Unlocated
        /\ UNCHANGED <<origin, kind, request, holder>>
    BY <1>1, <1>15 DEF ExtractDone, FileFrame, itemVars, Goto, TypeOK, Active, Unlocated
  <2>2. origin[d] = "steam"
    <3>1. Written(d, "base") # {}
      BY <1>15, FS_EmptySet DEF ExtractDone, NextPart, Parts
    <3> QED BY <1>1, <1>9, <2>1, <3>1 DEF Held
  <2> QED BY <1>1, <1>9, <2>1, <2>2 DEF Held
<1>16. CASE ExtractGivenUp(d)
  <2>1. stage[d] \in {"copied", "extracting"} /\ stage'[d] = "sniffing" /\ Active(d)
        /\ stage[d] \notin Unlocated /\ UNCHANGED <<origin, kind, request, disk, holder>> /\ IsZip(d)
    BY <1>1, <1>16 DEF ExtractGivenUp, FileFrame, itemVars, fileVars, Goto, TypeOK, Item, Active,
       Unlocated
  <2>2. ASSUME origin[d] = "steam", ~trouble'[d]
        PROVE  Keeps(d) /\ Exists("base")
    <3>1. trouble'[d] <=> Readable(d) /\ EnsureOk(d, "base")
      BY <1>1, <1>16 DEF ExtractGivenUp, TypeOK
    <3>2. RawPath(d) # "gma"
      BY <1>9, <2>1
    <3> QED BY <2>1, <2>2, <3>1, <3>2, NotInTheWay
  <2>3. Exists("base")' <=> Exists("base")
    BY <2>1 DEF Exists
  <2> QED BY <1>1, <1>9, <2>1, <2>2, <2>3 DEF Held
<1>17. CASE BeginDecompress(d)
  <2>1. stage[d] \in {"copied", "sniffing"} /\ stage'[d] = "decompressing" /\ Active(d)
        /\ stage[d] \notin Unlocated /\ UNCHANGED <<origin, kind, request>> /\ SeemsLzma(d)
        /\ holder[RawPath(d)] = None /\ holder' = [holder EXCEPT !["gma"] = d]
    BY <1>1, <1>17 DEF BeginDecompress, Readable, Sniffing, FileFrame, itemVars, Goto, TypeOK,
       Active, Unlocated
  <2>2. origin[d] = "steam" /\ RawPath(d) # "gma"
    BY <1>1, <1>2, <1>9, <2>1 DEF Held
  <2>3. \A p \in Paths : holder'[p] = d => p = "gma"
    BY <1>1, <2>1, <2>2 DEF Held, TypeOK
  <2> QED BY <1>9, <2>1, <2>2, <2>3 DEF Held
<1>18. CASE DecompressPart(d)
  <2>1. stage[d] = "decompressing" /\ stage' = stage /\ Active(d)
        /\ stage[d] \notin Unlocated /\ UNCHANGED <<origin, kind, request, holder>>
    BY <1>18 DEF DecompressPart, FileFrame, itemVars, Active, Unlocated
  <2> QED BY <1>1, <1>9, <2>1 DEF Held
<1>19. CASE DecompressDone(d)
  <2>1. stage[d] = "decompressing" /\ stage'[d] = "converted" /\ Active(d)
        /\ stage[d] \notin Unlocated /\ UNCHANGED <<origin, kind, request>>
        /\ \A p \in Paths : holder'[p] # d
    BY <1>1, <1>2, <1>19 DEF DecompressDone, Close, FileFrame, itemVars, Goto, TypeOK, Active,
       Unlocated
  <2>2. origin[d] = "steam"
    BY <1>1, <2>1 DEF Held
  <2> QED BY <1>9, <2>1, <2>2 DEF Held
<1> QED BY <1>5, <1>6, <1>7, <1>8, <1>10, <1>11, <1>12, <1>13, <1>14, <1>15, <1>16, <1>17, <1>18,
           <1>19 DEF Step

LEMMA HeldAlways == Spec => []HeldInv
<1>1. Init => HeldInv
  <2>1. ASSUME Init
        PROVE  HeldInv
    <3>1. \A p \in Paths : holder[p] = None
      BY <2>1 DEF Init
    <3>2. \A d \in Downloads : stage[d] = "new" /\ None # d
      BY <2>1, DownloadAssumption DEF Init, DownloadAssumption
    <3> QED BY <2>1, <3>1, <3>2, WorkshopInit DEF HeldInv, Held
  <2> QED BY <2>1
<1>2. HeldInv /\ [Next]_vars => HeldInv'
  <2>1. ASSUME HeldInv, NEW e \in Downloads, Step(e)
        PROVE  HeldInv'
    <3>1. WorkshopInv'
      BY <2>1, WorkshopStep DEF HeldInv, Next
    <3>2. \A d \in Downloads : Held(d)'
      BY <2>1, OwnHeld, OthersHeld
    <3> QED BY <3>1, <3>2 DEF HeldInv
  <2>2. ASSUME HeldInv, UNCHANGED vars
        PROVE  HeldInv'
    <3>1. UNCHANGED <<disk, holder, stage, request, origin, kind, trouble>>
      BY <2>2 DEF vars, fileVars, itemVars
    <3>2. WorkshopInv'
      BY <2>2, WorkshopStep DEF HeldInv
    <3>3. ASSUME NEW d \in Downloads
          PROVE  Held(d)'
      <4>1. Held(d)
        BY <2>2 DEF HeldInv
      <4> QED BY <3>1, <4>1 DEF Held, RawPath, AsFolder, Written, Exists, Keeps
    <3> QED BY <3>2, <3>3 DEF HeldInv
  <2> QED BY <2>1, <2>2 DEF Next
<1> QED BY <1>1, <1>2, PTL DEF Spec

\* A download succeeds with its item converted, or must not replace an output.
LEMMA ConvertedStep ==
  ASSUME HeldInv, [Next]_vars, NEW d \in Downloads
  PROVE  ConvertedIf(d, "steam")
<1> SUFFICES ASSUME Succeeds(d), origin[d] = "steam", Converts(d), ~trouble'[d],
                    result'[d] # ConvertedPath(d)
             PROVE  Keeps(d) /\ Exists(ConvertedPath(d))
  BY DEF ConvertedIf, Keeps
<1>1. TypeOK /\ Item(d) /\ Held(d) /\ Made(d) /\ WorkshopInv
  BY DEF HeldInv, WorkshopInv
<1>2. PICK e \in Downloads : Step(e)
  BY DEF Succeeds, Next, vars
<1>3. e = d
  BY <1>1, <1>2, TypeStep DEF Succeeds, StepFrame
<1>4. CASE ReturnRaw(d) \/ DecompressGivenUp(d)
  <2>1. stage[d] \in {"copied", "sniffing"}
    BY <1>1, <1>4 DEF ReturnRaw, DecompressGivenUp, Sniffing, TypeOK
  <2>2. RawPath(d) \in {"zip", "lzma"}
    BY <1>1, <2>1, PathFacts DEF Active, Unlocated
  <2>3. Readable(d) /\ \A p \in {"base", "gma"} : ~EnsureOk(d, p) => Keeps(d) /\ Exists(p)
    BY <2>1, <2>2, NotInTheWay
  <2>4. CASE kind[d] = "zip"
    <3>1. stage[d] = "sniffing" /\ trouble'[d] = trouble[d]
      BY <1>1, <1>4, <2>1, <2>4 DEF ReturnRaw, DecompressGivenUp, Sniffing, IsZip, Converts,
         SeemsLzma, TypeOK
    <3> QED BY <1>1, <2>4, <3>1 DEF Held, ConvertedPath
  <2>5. CASE kind[d] # "zip"
    <3>1. SeemsLzma(d)
      BY <2>5 DEF Converts, IsZip
    <3>2. ~EnsureOk(d, "gma")
      BY <1>1, <1>4, <2>1, <2>3, <3>1 DEF ReturnRaw, DecompressGivenUp
    <3> QED BY <2>3, <2>5, <3>2 DEF ConvertedPath
  <2> QED BY <2>4, <2>5
<1>5. CASE ReturnConverted(d)
  BY <1>1, <1>5 DEF ReturnConverted, Return, TypeOK
<1>6. stage'[d] = "ok" /\ stage[d] # "ok"
  BY DEF Succeeds
<1> QED BY <1>1, <1>2, <1>3, <1>4, <1>5, <1>6 DEF Step, Start, LocateInCache, LocateOnWeb,
        LocateNowhere, FromSteamworks, SkipSteamworks, FromSteamCmd, Located, Prepare, OpenOutput,
        CopyPart, CopyDone, Fail, Stop, Ends, BeginExtract, ExtractPart, ExtractDone, BeginDecompress,
        DecompressPart, DecompressDone, ExtractGivenUp, Goto, TypeOK

\* When conversion was asked for and nothing went wrong, an item from a Steam folder
\* is reported converted unless an existing output forbids it, whatever any number
\* of downloads do meanwhile: no stream of theirs is ever in the way.
THEOREM WorkshopSteamConverted == Spec => SteamConverted
<1>1. HeldInv /\ [Next]_vars => [\A d \in Downloads : ConvertedIf(d, "steam")]_vars
  BY ConvertedStep
<1> QED BY <1>1, HeldAlways, PTL DEF Spec, SteamConverted

===============================================================================

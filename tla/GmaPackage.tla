------------------------------ MODULE GmaPackage ------------------------------
(***************************************************************************)
(* A Garry's Mod addon on disk: the built-in packer (GmaPacker), the         *)
(* unpacker (GmaUnpacker), and other programs that edit the sources.          *)
(*                                                                         *)
(* As in VpkPackage, a CRC is the bytes it was computed from, and the output *)
(* is opened with FileShare.None, so that it has either a writer or readers. *)
(* The package is a list of names, lengths and CRCs, then the data of all     *)
(* files one after the other: only the lengths say where a file begins.       *)
(***************************************************************************)
EXTENDS Integers, Sequences

CONSTANTS
  NumFiles,                        \* numbered in the packer's sort order
  Contents, Byte,                  \* what a source file may hold
  MaxEdits, MaxPacks, MaxUnpacks,  \* bounds on the environment
  None

Files == 1 .. NumFiles

VARIABLES
  source,    \* the files of the input folder
  stage,     \* "idle", "staging", "listing", "hashing", "writing" or "copying"
  staged,    \* the copy a folder with a d.json is packed from, or None
  at,        \* the file the pass has come to
  lengths,   \* GmaFileEntry.Length
  crcs,      \* GmaFileEntry.Crc32
  list,      \* the file list of the package, None when it cannot be read
  data,      \* what follows it, None when there is no package
  result,    \* how the last pack ended
  status,    \* the unpacker: "idle", "reading", "ok" or "failed"
  options,   \* [crc, only]: what it verifies and extracts
  next, position, out,
  \* history: an edit since this pack read the lengths; what the pack that made
  \* the package hashed, and whether its sources were edited; counters
  edited, hashed, dirty, edits, packs, unpacks

sourceVars == <<source, edits>>
packVars   == <<stage, staged, at, lengths, crcs, list, data, result, packs>>
unpackVars == <<status, options, next, position, out, unpacks>>
history    == <<edited, hashed, dirty>>
vars       == <<sourceVars, packVars, unpackVars, history>>

NoFiles == [f \in Files |-> None]
Options == [crc : BOOLEAN, only : SUBSET Files]

Init ==
  /\ source \in [Files -> Contents]
  /\ stage = "idle" /\ staged = None /\ at = 1 /\ result = "none"
  /\ lengths = [f \in Files |-> 0] /\ crcs = NoFiles /\ list = None /\ data = None
  /\ status = "idle" /\ options \in [crc : {TRUE}, only : {Files}]
  /\ next = 1 /\ position = 0 /\ out = NoFiles
  /\ edited = FALSE /\ hashed = NoFiles /\ dirty = FALSE
  /\ edits = 0 /\ packs = 0 /\ unpacks = 0

-----------------------------------------------------------------------------
(* GmaPacker *)

Input == IF staged = None THEN source ELSE staged

Goto(s) == stage' = s /\ at' = 1
Advance == at' = at + 1 /\ UNCHANGED stage

\* Folders with a d.json are copied first.
StartPack(copied) ==
  /\ stage = "idle" /\ packs < MaxPacks
  /\ packs' = packs + 1 /\ result' = "none"
  /\ IF copied THEN Goto("staging") /\ staged' = NoFiles
               ELSE Goto("listing") /\ staged' = None
  /\ UNCHANGED <<sourceVars, unpackVars, lengths, crcs, list, data, history>>

StageFile ==
  /\ stage = "staging"
  /\ IF at > NumFiles THEN Goto("listing") /\ UNCHANGED staged
     ELSE Advance /\ staged' = [staged EXCEPT ![at] = source[at]]
  /\ UNCHANGED <<sourceVars, unpackVars, lengths, crcs, list, data, result, packs, history>>

CollectFiles ==
  /\ stage = "listing" /\ Goto("hashing")
  /\ lengths' = [f \in Files |-> Len(Input[f])] /\ edited' = FALSE
  /\ UNCHANGED <<sourceVars, unpackVars, staged, crcs, list, data, result, packs, hashed, dirty>>

HashFile ==
  /\ stage = "hashing" /\ at <= NumFiles
  /\ crcs' = [crcs EXCEPT ![at] = Input[at]] /\ Advance
  /\ UNCHANGED <<sourceVars, unpackVars, staged, lengths, list, data, result, packs, history>>

\* The run is over and its staged copy deleted.
EndPack(how) ==
  stage' = "idle" /\ result' = how /\ staged' = None

\* Mutant: the output is created beside an open reader.
CreateOutputUnlocked ==
  /\ stage = "hashing" /\ at > NumFiles
  /\ Goto("writing") /\ list' = None /\ data' = <<>> /\ hashed' = crcs /\ dirty' = edited
  /\ UNCHANGED <<sourceVars, unpackVars, staged, lengths, crcs, result, packs, edited>>

\* FileMode.Create, FileShare.None
CreateOutput ==
  /\ stage = "hashing" /\ at > NumFiles
  /\ IF status = "reading"
       THEN EndPack("failed") /\ UNCHANGED <<at, list, data, hashed, dirty>>
       ELSE /\ Goto("writing") /\ list' = None /\ data' = <<>>
            /\ hashed' = crcs /\ dirty' = edited /\ UNCHANGED <<staged, result>>
  /\ UNCHANGED <<sourceVars, unpackVars, lengths, crcs, packs, edited>>

WriteList ==
  /\ stage = "writing" /\ Goto("copying")
  /\ list' = [f \in Files |-> [length |-> lengths[f], crc |-> crcs[f]]]
  /\ UNCHANGED <<sourceVars, unpackVars, staged, lengths, crcs, data, result, packs, history>>

\* Mutant: the second pass reads the folder the first one did not.
CopyFileFromSource ==
  /\ stage = "copying" /\ at <= NumFiles
  /\ data' = data \o source[at] /\ Advance
  /\ UNCHANGED <<sourceVars, unpackVars, staged, lengths, crcs, list, result, packs, history>>

\* Whatever the file holds now, up to its end.
CopyFile ==
  /\ stage = "copying" /\ at <= NumFiles
  /\ data' = data \o Input[at] /\ Advance
  /\ UNCHANGED <<sourceVars, unpackVars, staged, lengths, crcs, list, result, packs, history>>

FinishPack ==
  /\ stage = "copying" /\ at > NumFiles
  /\ EndPack("ok")
  /\ UNCHANGED <<sourceVars, unpackVars, at, lengths, crcs, list, data, packs, history>>

\* A cancellation, an error, or the end of the process.
AbortPack ==
  /\ stage # "idle" /\ EndPack("failed")
  /\ UNCHANGED <<sourceVars, unpackVars, at, lengths, crcs, list, data, packs, history>>

-----------------------------------------------------------------------------
(* GmaUnpacker *)

Locked == stage \in {"writing", "copying"}

\* The lengths of the first n files of a list, added up.
DataLength(entries, n) ==
  LET sum[m \in 0 .. NumFiles] == IF m = 0 THEN 0 ELSE sum[m - 1] + entries[m].length
  IN  sum[n]

\* ReadGmaHeaderAndFileList: the list ends, and the data are as long as it says.
Intact == list # None /\ DataLength(list, NumFiles) <= Len(data)

OpenPackage(o) ==
  /\ status # "reading" /\ data # None /\ unpacks < MaxUnpacks
  /\ unpacks' = unpacks + 1 /\ options' = o
  /\ status' = IF ~Locked /\ Intact THEN "reading" ELSE "failed"
  /\ next' = 1 /\ position' = 0 /\ out' = NoFiles
  /\ UNCHANGED <<sourceVars, packVars, history>>

SkipEntry ==
  /\ status = "reading" /\ next <= NumFiles /\ next \notin options.only
  /\ next' = next + 1 /\ position' = position + list[next].length
  /\ UNCHANGED <<sourceVars, packVars, history, status, options, out, unpacks>>

\* The output file is written first, its CRC compared afterwards.
ExtractEntry ==
  /\ status = "reading" /\ next <= NumFiles /\ next \in options.only
  /\ LET end == position + list[next].length
         bytes == SubSeq(data, position + 1, IF end <= Len(data) THEN end ELSE Len(data))
     IN  /\ out' = [out EXCEPT ![next] = bytes]
         /\ position' = end /\ next' = next + 1
         /\ status' = IF end <= Len(data) /\ (options.crc => bytes = list[next].crc)
                        THEN "reading" ELSE "failed"
  /\ UNCHANGED <<sourceVars, packVars, history, options, unpacks>>

FinishUnpack ==
  /\ status = "reading" /\ next > NumFiles /\ status' = "ok"
  /\ UNCHANGED <<sourceVars, packVars, history, options, next, position, out, unpacks>>

AbortUnpack ==
  /\ status = "reading" /\ status' = "failed"
  /\ UNCHANGED <<sourceVars, packVars, history, options, next, position, out, unpacks>>

\* Another program saves a source file.
EditSource(f, c) ==
  /\ edits < MaxEdits /\ source[f] # c
  /\ source' = [source EXCEPT ![f] = c] /\ edits' = edits + 1
  /\ edited' = (edited \/ staged = None) /\ dirty' = (dirty \/ (Locked /\ staged = None))
  /\ UNCHANGED <<packVars, unpackVars, hashed>>

Next ==
  \/ \E copied \in BOOLEAN : StartPack(copied)
  \/ StageFile \/ CollectFiles \/ HashFile \/ CreateOutput \/ WriteList \/ CopyFile
  \/ FinishPack \/ AbortPack
  \/ \E o \in Options : OpenPackage(o)
  \/ SkipEntry \/ ExtractEntry \/ FinishUnpack \/ AbortUnpack
  \/ \E f \in Files, c \in Contents : EditSource(f, c)

Spec == Init /\ [][Next]_vars

-----------------------------------------------------------------------------

\* A package whose sources nobody edited after their lengths were read, or which
\* was made from a staged copy whatever happened to them, gives what its first
\* pass hashed or nothing: every file of it, alone or with the others, verified or
\* not, and also when the pack that made it did not end well.
RoundTrip ==
  [][ (status = "reading" /\ status' = "ok" /\ ~dirty)
        => \A f \in options.only : out[f] = hashed[f] ]_vars

\* What a verified unpack of the whole package does is what a reader of any
\* package may expect: all of one catalog or an error, a package cut short by a
\* failed pack, or one whose files changed between the two passes, included.
Checked == options.crc /\ options.only = Files

Store == INSTANCE PackageStore WITH
  Names     <- Files,
  catalog   <- IF data # None /\ Intact THEN [f \in Files |-> list[f].crc] ELSE None,
  reader    <- IF Checked THEN status ELSE "idle",
  delivered <- IF Checked /\ status = "ok" THEN out ELSE None

IsStore == Store!Spec

=============================================================================

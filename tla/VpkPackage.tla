------------------------------ MODULE VpkPackage ------------------------------
(***************************************************************************)
(* A VPK package on disk, the packer that writes it (VpkPacker), the       *)
(* unpacker that reads it (VpkUnpacker) and the other programs that keep   *)
(* editing the source files meanwhile.                                     *)
(*                                                                         *)
(* Contents are sequences of bytes.  CRC-32 and MD5 are modelled as the     *)
(* bytes they were computed from, that is, without collisions; the CRC of   *)
(* no bytes is 0, so <<>> is also the placeholder CRC.                       *)
(*                                                                         *)
(* Output files are opened with FileShare.None and package files are read   *)
(* with FileShare.ReadWrite: .NET then refuses the second of a writer and a *)
(* reader of the same file.  Source files carry no such lock.               *)
(*                                                                         *)
(* A pack run is the sequence of file operations its method performs; the   *)
(* layout comes from VpkLayout, run step by step inside.  Mode "multi" is    *)
(* version 2 with MD5 sections; without them the reader just checks less.   *)
(***************************************************************************)
EXTENDS Integers, Sequences, SequencesExt

CONSTANTS
  NumFiles,               \* source files, numbered in the packer's sort order
  Contents,               \* what a source file may hold
  Modes,                  \* the kinds of package a pack run may be asked for
  Preload,                \* PackRequest.PreloadBytes
  MaxArchiveSize, DirectoryArchiveIndex, UintRange,
  UnpackOptions,          \* records [crc, md5]: which verifications are asked for
  MaxWrites, MaxPacks, MaxUnpacks,  \* bounds on the environment
  None

Byte == 0 .. 2            \* 0 is the byte a placeholder preload is made of
Files == 1 .. NumFiles
Dir == DirectoryArchiveIndex   \* the directory file
Volumes == 0 .. Dir            \* numbered volumes, and the directory file's data

ASSUME PackageAssumption ==
  /\ NumFiles \in Nat \ {0}
  /\ Contents \subseteq Seq(Byte)
  /\ Modes \subseteq {"single", "singleMd5", "multi"}
  /\ Preload \in Nat
  /\ UintRange \in Nat \ {0} /\ MaxArchiveSize \in 1 .. UintRange - 1
  /\ DirectoryArchiveIndex \in Nat \ {0}
  /\ UnpackOptions \subseteq [crc : BOOLEAN, md5 : BOOLEAN]
  /\ None \notin Seq(Byte) /\ None \notin [Files -> Seq(Byte)] /\ None \notin Volumes
  /\ None \notin [Files -> [crc : Seq(Byte), preload : Seq(Byte),
                            archive : Nat, offset : Nat, length : Nat]]

VARIABLES
  mode,       \* "single", "singleMd5" or "multi"
  src,        \* the source files
  data,       \* the data of every volume, None when there is no such file
  tree,       \* the directory tree, None when the directory file is unreadable
  md5,        \* the MD5 sections, None when there are none
  \* the packer
  stage,      \* "idle", "layout" or "writing"
  lengths,    \* FileToPack.Length, read by CollectFiles
  file,       \* FileToPack.PreloadData and Crc32
  todo,       \* the file operations still to perform
  writing,    \* the output file it has open, or None
  result,     \* how the last run ended
  sizes, multi, placed, archiveIndex, archiveOffset, currentFiles, archives, phase,
  \* the unpacker
  status,     \* "idle", "reading", "ok" or "failed"
  options, entries, toHash, next, opened, out,
  \* history: files edited since CollectFiles, contents a run read completely
  touched, made, writes, packs, unpacks

L == INSTANCE VpkLayout WITH Inputs <- {}

layoutVars == <<sizes, multi, placed, archiveIndex, archiveOffset,
                currentFiles, archives, phase>>
diskVars   == <<data, tree, md5>>
packVars   == <<stage, lengths, file, todo, writing, result, layoutVars>>
readVars   == <<status, options, entries, toHash, next, opened, out>>
histVars   == <<touched, made, writes, packs, unpacks>>
vars       == <<mode, src, diskVars, packVars, readVars, histVars>>

-----------------------------------------------------------------------------

PreloadBytes(f) == IF lengths[f] <= Preload THEN lengths[f] ELSE Preload
EntryLength(f)  == lengths[f] - PreloadBytes(f)

\* What follows the preload bytes in the source file, read now.
Rest(f) == SubSeq(src[f], PreloadBytes(f) + 1, Len(src[f]))

TreeEntry(f, crc, preload) ==
  [crc |-> crc, preload |-> preload, archive |-> placed[f].archive,
   offset |-> placed[f].offset, length |-> EntryLength(f)]

FinalEntry(f) == TreeEntry(f, file[f].crc, file[f].preload)

PlaceholderTree ==
  [f \in Files |-> TreeEntry(f, <<>>, [i \in 1 .. PreloadBytes(f) |-> 0])]

FinalTree == [f \in Files |-> FinalEntry(f)]

\* Mutant: the tree's checksum is that of the placeholder.
Md5SectionsOfPlaceholder ==
  [volumes |-> [v \in {archives[k].index : k \in 1 .. Len(archives)} |-> data[v]],
   tree |-> PlaceholderTree, data |-> data[Dir]]

\* BuildArchiveMd5Section and BuildOtherMd5Section: one record per volume, and
\* the checksums of the tree and of the directory file.
Md5Sections ==
  [volumes |-> [v \in {archives[k].index : k \in 1 .. Len(archives)} |-> data[v]],
   tree |-> FinalTree, data |-> data[Dir]]

-----------------------------------------------------------------------------
(* The order of the file operations in the three pack methods. *)

Item(op, arg) == [op |-> op, arg |-> arg]

InOrder == [f \in Files |-> f]

ReadEach(op, fs) ==
  FlattenSeq([k \in 1 .. Len(fs) |->
    IF PreloadBytes(fs[k]) > 0 THEN <<Item("preload", fs[k]), Item(op, fs[k])>>
    ELSE <<Item(op, fs[k])>>])

\* A placeholder tree, the data, then the real tree over the placeholder.
SingleProgram ==
  <<Item("create", Dir), Item("placeholder", Dir)>>
    \o ReadEach("data", InOrder) \o [f \in Files |-> Item("finalize", f)]

\* The files with data, and those that are all preload.
CopyEach ==
  FlattenSeq([f \in Files |-> IF EntryLength(f) > 0 THEN <<Item("copy", f)>> ELSE <<>>])
InlineEach ==
  FlattenSeq([f \in Files |->
    IF EntryLength(f) = 0 /\ PreloadBytes(f) > 0 THEN <<Item("inline", f)>> ELSE <<>>])

\* A hashing pass over the sources, then a second pass that copies them.
SingleMd5Program ==
  ReadEach("hash", InOrder) \o <<Item("create", Dir)>> \o CopyEach \o <<Item("commit", Dir)>>

\* Mutant: the files of a volume are not written in the order of the layout.
VolumeProgramReversed(archive) ==
  <<Item("create", archive.index)>> \o ReadEach("data", Reverse(archive.files))
    \o <<Item("close", archive.index)>>

\* A volume is created, filled in the order of the layout and closed.
VolumeProgram(archive) ==
  <<Item("create", archive.index)>> \o ReadEach("data", archive.files)
    \o <<Item("close", archive.index)>>

\* Mutant: the directory is written before the volumes.
MultiProgramDirectoryFirst ==
  <<Item("create", Dir), Item("commit", Dir)>>
    \o FlattenSeq([v \in 1 .. Len(archives) |-> VolumeProgram(archives[v])])

\* The volumes, then the files that are all preload, then the directory.
MultiProgram ==
  FlattenSeq([v \in 1 .. Len(archives) |-> VolumeProgram(archives[v])]) \o InlineEach
    \o <<Item("create", Dir), Item("commit", Dir)>>

Program == CASE mode = "single"     -> SingleProgram
             [] mode = "singleMd5" -> SingleMd5Program
             [] mode = "multi"      -> MultiProgram

-----------------------------------------------------------------------------
(* The packer. *)

Init ==
  /\ mode = "single" /\ src \in [Files -> Contents]
  /\ data = [v \in Volumes |-> None] /\ tree = None /\ md5 = None
  /\ stage = "idle" /\ lengths = [f \in Files |-> 0]
  /\ file = [f \in Files |-> [crc |-> <<>>, preload |-> <<>>]]
  /\ todo = <<>> /\ writing = None /\ result = "none"
  /\ L!StartLayout(<<>>, FALSE)
  /\ status = "idle" /\ options = [crc |-> FALSE, md5 |-> FALSE] /\ entries = None
  /\ toHash = <<>> /\ next = 1 /\ opened = {} /\ out = [f \in Files |-> None]
  /\ touched = {} /\ made = [f \in Files |-> {<<>>}]
  /\ writes = 0 /\ packs = 0 /\ unpacks = 0

\* Validation, CollectFiles, ApplyPreloadBytes and the start of the layout.  A file
\* that a uint cannot measure is refused before anything is touched.
StartPack ==
  /\ stage = "idle" /\ packs < MaxPacks
  /\ \A f \in Files : Len(src[f]) < UintRange
  /\ stage' = "layout" /\ packs' = packs + 1 /\ touched' = {}
  /\ mode' \in Modes
  /\ lengths' = [f \in Files |-> Len(src[f])]
  /\ file' = [f \in Files |-> [crc |-> <<>>, preload |-> <<>>]]
  /\ result' = "none"
  /\ sizes' = [f \in Files |-> EntryLength(f)']
  /\ multi' = (mode' = "multi") /\ phase' = "placing"
  /\ UNCHANGED <<placed, archiveIndex, archiveOffset, currentFiles, archives>>
  /\ UNCHANGED <<src, diskVars, todo, writing, readVars, made, writes, unpacks>>

LayoutStep ==
  /\ stage = "layout" /\ L!Step
  /\ UNCHANGED <<mode, src, diskVars, stage, lengths, file, todo, writing, result, readVars, histVars>>

StartWriting ==
  /\ stage = "layout" /\ phase = "placed"
  /\ stage' = "writing" /\ todo' = Program
  /\ UNCHANGED <<mode, src, diskVars, lengths, file, writing, result, layoutVars, readVars, histVars>>

\* The method returns or throws: its streams are disposed, its locals are gone.
End(how) ==
  /\ stage' = "idle" /\ result' = how /\ todo' = <<>> /\ writing' = None
  /\ lengths' = [f \in Files |-> 0] /\ file' = [f \in Files |-> [crc |-> <<>>, preload |-> <<>>]]
  /\ sizes' = <<>> /\ multi' = FALSE /\ placed' = <<>> /\ archiveIndex' = 0
  /\ archiveOffset' = 0 /\ currentFiles' = <<>> /\ archives' = <<>> /\ phase' = "placing"

\* Cancellation, an I/O error or the death of the process, at any point; a
\* layout exception ends the run the same way.
AbortPack ==
  /\ stage # "idle"
  /\ End("failed")
  /\ UNCHANGED <<mode, src, diskVars, readVars, histVars>>

Now(op) == stage = "writing" /\ todo # <<>> /\ Head(todo).op = op
Arg == Head(todo).arg

\* What an operation of the run leaves alone besides the disk.
Continue ==
  /\ todo' = Tail(todo)
  /\ UNCHANGED <<mode, src, stage, lengths, result, layoutVars, readVars, touched, writes, packs, unpacks>>

\* Mutant: the file is opened with FileShare.ReadWrite.
CreateFileShared ==
  /\ Now("create")
  /\ data' = [data EXCEPT ![Arg] = <<>>]
  /\ tree' = IF Arg = Dir THEN None ELSE tree
  /\ md5' = IF Arg = Dir THEN None ELSE md5
  /\ writing' = Arg
  /\ Continue /\ UNCHANGED <<file, made>>

\* new FileStream(path, FileMode.Create, ..., FileShare.None): the previous
\* volume's stream has been disposed, the file is truncated.
CreateFile ==
  /\ Now("create") /\ Arg \notin opened
  /\ data' = [data EXCEPT ![Arg] = <<>>]
  /\ tree' = IF Arg = Dir THEN None ELSE tree
  /\ md5' = IF Arg = Dir THEN None ELSE md5
  /\ writing' = Arg
  /\ Continue /\ UNCHANGED <<file, made>>

CreateRefused ==
  /\ Now("create") /\ Arg \in opened
  /\ End("failed")
  /\ UNCHANGED <<mode, src, diskVars, readVars, histVars>>

\* The volume's stream is disposed before the next file is created.
CloseVolume ==
  /\ Now("close")
  /\ writing' = None
  /\ Continue /\ UNCHANGED <<diskVars, file, made>>

WritePlaceholder ==
  /\ Now("placeholder")
  /\ tree' = PlaceholderTree
  /\ Continue /\ UNCHANGED <<data, md5, file, made, writing>>

\* ReadExactAsync of the preload bytes.
ReadPreload ==
  /\ Now("preload") /\ Len(src[Arg]) >= PreloadBytes(Arg)
  /\ file' = [file EXCEPT ![Arg].preload = SubSeq(src[Arg], 1, PreloadBytes(Arg))]
  /\ Continue /\ UNCHANGED <<diskVars, made, writing>>

Complete(f, crc) ==
  /\ file' = [file EXCEPT ![f].crc = crc]
  /\ made' = [made EXCEPT ![f] = @ \cup {crc}]

\* Mutant: the CRC does not cover the preload bytes.
StreamDataCrcOfRest ==
  /\ Now("data") /\ Len(Rest(Arg)) = EntryLength(Arg)
  /\ data' = [data EXCEPT ![writing] = @ \o Rest(Arg)]
  /\ Complete(Arg, Rest(Arg))
  /\ Continue /\ UNCHANGED <<tree, md5, writing>>

\* The copy loop of the streaming modes: the CRC covers the bytes written.
StreamData ==
  /\ Now("data") /\ Len(Rest(Arg)) = EntryLength(Arg)
  /\ data' = [data EXCEPT ![writing] = @ \o Rest(Arg)]
  /\ Complete(Arg, file[Arg].preload \o Rest(Arg))
  /\ Continue /\ UNCHANGED <<tree, md5, writing>>

\* ComputePreloadAndCrc32Async: the CRC of what the file holds now.
HashData ==
  /\ Now("hash")
  /\ Complete(Arg, file[Arg].preload \o Rest(Arg))
  /\ Continue /\ UNCHANGED <<diskVars, writing>>

\* The second pass of PackSingleFileV2WithMd5Async.
CopyData ==
  /\ Now("copy") /\ Len(Rest(Arg)) = EntryLength(Arg)
  /\ data' = [data EXCEPT ![writing] = @ \o Rest(Arg)]
  /\ Continue /\ UNCHANGED <<tree, md5, file, made, writing>>

\* The preload cannot be read, or more or fewer bytes followed than the length
\* collected: whatever was read has been written before the exception.
SourceChangedLength ==
  \/ /\ Now("preload") \/ Now("inline")
     /\ Len(src[Arg]) < PreloadBytes(Arg)
     /\ End("failed")
     /\ UNCHANGED <<mode, src, diskVars, readVars, histVars>>
  \/ /\ Now("data") \/ Now("copy")
     /\ Len(Rest(Arg)) # EntryLength(Arg)
     /\ data' = [data EXCEPT ![writing] = @ \o Rest(Arg)]
     /\ End("failed")
     /\ UNCHANGED <<mode, src, tree, md5, readVars, histVars>>

\* Files that are all preload: only their first bytes are read.
InlineFile ==
  /\ Now("inline") /\ Len(src[Arg]) >= PreloadBytes(Arg)
  /\ LET bytes == SubSeq(src[Arg], 1, PreloadBytes(Arg))
     IN  /\ file' = [file EXCEPT ![Arg] = [crc |-> bytes, preload |-> bytes]]
         /\ made' = [made EXCEPT ![Arg] = @ \cup {bytes}]
  /\ Continue /\ UNCHANGED <<diskVars, writing>>

\* The final tree goes over the placeholder, entry after entry.
FinalizeEntry ==
  /\ Now("finalize")
  /\ tree' = [tree EXCEPT ![Arg] = FinalEntry(Arg)]
  /\ Continue /\ UNCHANGED <<data, md5, file, made, writing>>

\* Header, tree and MD5 sections; short of all of it the file is unreadable.
CommitDirectory ==
  /\ Now("commit")
  /\ tree' = FinalTree /\ md5' = Md5Sections
  /\ Continue /\ UNCHANGED <<data, file, made, writing>>

FinishPack ==
  /\ stage = "writing" /\ todo = <<>>
  /\ End("ok")
  /\ UNCHANGED <<mode, src, diskVars, readVars, histVars>>

-----------------------------------------------------------------------------
(* The unpacker. *)

\* The bytes the entry's position yields now, or None.
StoredData(e) ==
  IF e.length = 0 THEN <<>>
  ELSE IF data[e.archive] = None \/ Len(data[e.archive]) < e.offset + e.length THEN None
  ELSE SubSeq(data[e.archive], e.offset + 1, e.offset + e.length)

Stored(f) ==
  IF StoredData(tree[f]) = None THEN None ELSE tree[f].preload \o StoredData(tree[f])

\* The reader's streams stay open until it ends.
Reading == status = "reading"

StopReading(how) ==
  /\ status' = how /\ opened' = {} /\ toHash' = <<>>
  /\ UNCHANGED <<options, entries, next>>

UnpackFrame == UNCHANGED <<mode, src, diskVars, packVars, touched, made, writes, packs>>

StartUnpack(o) ==
  /\ ~Reading /\ unpacks < MaxUnpacks
  /\ unpacks' = unpacks + 1
  /\ options' = o /\ next' = 1 /\ out' = [f \in Files |-> None]
  /\ \/ /\ writing # Dir /\ tree # None
        /\ status' = "reading" /\ opened' = {Dir} /\ entries' = tree
        /\ toHash' = IF o.md5 /\ md5 # None
                     THEN SetToSortSeq(DOMAIN md5.volumes, <) \o <<Dir>> ELSE <<>>
     \/ /\ writing = Dir \/ tree = None
        /\ status' = "failed" /\ opened' = {} /\ entries' = None /\ toHash' = <<>>
  /\ UnpackFrame

\* Does one record of VerifyV2Md5Async still hold?  A volume is hashed as far as
\* its record says, whatever follows.
Md5Holds(v) ==
  IF v = Dir THEN md5.tree = entries /\ md5.data = data[Dir]
  ELSE writing # v /\ data[v] # None /\ IsPrefix(md5.volumes[v], data[v])

VerifyMd5 ==
  /\ Reading /\ toHash # <<>>
  /\ IF Md5Holds(Head(toHash))
     THEN toHash' = Tail(toHash) /\ UNCHANGED <<status, options, entries, next, opened>>
     ELSE StopReading("failed")
  /\ UNCHANGED <<out, unpacks>> /\ UnpackFrame

\* The volume of an entry can be opened, or is open already.
CanRead(e) ==
  e.length = 0 \/ e.archive \in opened \/ (data[e.archive] # None /\ writing # e.archive)

\* Mutant: the CRC is never compared.
ExtractEntryUnchecked ==
  /\ Reading /\ toHash = <<>> /\ next <= NumFiles
  /\ LET e     == entries[next]
         bytes == IF CanRead(e) /\ StoredData(e) # None THEN e.preload \o StoredData(e) ELSE None
     IN  /\ out' = [out EXCEPT ![next] = bytes]
         /\ IF bytes # None
            THEN /\ next' = next + 1
                 /\ opened' = IF e.length > 0 THEN opened \cup {e.archive} ELSE opened
                 /\ UNCHANGED <<status, options, entries, toHash>>
            ELSE StopReading("failed")
  /\ UNCHANGED unpacks /\ UnpackFrame

\* The output file is written first and its CRC compared afterwards.
ExtractEntry ==
  /\ Reading /\ toHash = <<>> /\ next <= NumFiles
  /\ LET e     == entries[next]
         bytes == IF CanRead(e) /\ StoredData(e) # None THEN e.preload \o StoredData(e) ELSE None
     IN  /\ out' = [out EXCEPT ![next] = bytes]
         /\ IF bytes # None /\ (options.crc => bytes = e.crc)
            THEN /\ next' = next + 1
                 /\ opened' = IF e.length > 0 THEN opened \cup {e.archive} ELSE opened
                 /\ UNCHANGED <<status, options, entries, toHash>>
            ELSE StopReading("failed")
  /\ UNCHANGED unpacks /\ UnpackFrame

FinishUnpack ==
  /\ Reading /\ toHash = <<>> /\ next > NumFiles
  /\ StopReading("ok")
  /\ UNCHANGED <<out, unpacks>> /\ UnpackFrame

AbortUnpack ==
  /\ Reading
  /\ StopReading("failed")
  /\ UNCHANGED <<out, unpacks>> /\ UnpackFrame

-----------------------------------------------------------------------------

\* Another program saves a source file.
EditSource(f, c) ==
  /\ writes < MaxWrites /\ src[f] # c
  /\ src' = [src EXCEPT ![f] = c]
  /\ writes' = writes + 1 /\ touched' = touched \cup {f}
  /\ UNCHANGED <<mode, diskVars, packVars, readVars, made, packs, unpacks>>

PackStep ==
  \/ StartPack \/ LayoutStep \/ StartWriting \/ AbortPack \/ FinishPack
  \/ CreateFile \/ CreateRefused \/ CloseVolume \/ WritePlaceholder
  \/ ReadPreload \/ StreamData \/ HashData \/ CopyData \/ InlineFile
  \/ SourceChangedLength \/ FinalizeEntry \/ CommitDirectory

UnpackStep ==
  \/ \E o \in UnpackOptions : StartUnpack(o)
  \/ VerifyMd5 \/ ExtractEntry \/ FinishUnpack \/ AbortUnpack

Next == PackStep \/ UnpackStep \/ \E f \in Files, c \in Contents : EditSource(f, c)

Spec == Init /\ [][Next]_vars

-----------------------------------------------------------------------------

\* A pack run that reports success leaves entries whose CRC covers exactly the
\* bytes stored for them, whatever other programs did to the sources during
\* the run and whatever earlier, interrupted runs left on disk.  The MD5 mode
\* reads every source twice, so there it takes files nobody edited.  The MD5
\* sections agree with the files on disk, for the numbered volumes and for the
\* directory file.
SuccessVerifies ==
  result = "ok" =>
    /\ \A f \in Files : (mode # "singleMd5" \/ f \notin touched) => Stored(f) = tree[f].crc
    /\ md5 # None =>
         /\ md5.tree = tree /\ md5.data = data[Dir]
         /\ \A v \in DOMAIN md5.volumes : data[v] = md5.volumes[v]
         /\ \A f \in Files : tree[f].length > 0 => tree[f].archive \in DOMAIN md5.volumes \cup {Dir}

\* A source nobody edited since CollectFiles comes back byte for byte from the
\* package, stale volumes and failed runs notwithstanding.
UntouchedRoundTrip ==
  result = "ok" => \A f \in Files \ touched : Stored(f) = src[f]

\* An interrupted or half-finished package never passes for a package: what a
\* CRC-checked unpack delivers was read from that source by some pack run.
NothingInvented ==
  (status = "ok" /\ options.crc) => \A f \in Files : out[f] \in made[f]

\* In multi-file mode the directory is the commit point: it is written only
\* when every volume it refers to holds what it says.
DirectoryLast ==
  [][ (mode = "multi" /\ tree' # tree /\ tree' # None)
        => \A f \in Files : Stored(f)' = tree'[f].crc ]_vars

\* The package as its readers see it: a catalog that does not change under an
\* open reader, and CRC-checked unpacks that return all of it or fail.
Checked == options.crc

Store == INSTANCE PackageStore WITH
  Names     <- Files,
  catalog   <- IF tree = None THEN None ELSE [f \in Files |-> tree[f].crc],
  reader    <- IF Checked THEN status ELSE "idle",
  delivered <- IF Checked /\ status = "ok" THEN out ELSE None

PackageIsStore == Store!Spec

=============================================================================

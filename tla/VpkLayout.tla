------------------------------ MODULE VpkLayout ------------------------------
(***************************************************************************)
(* How VpkPacker places files before it writes anything:                   *)
(* AssignOffsetsMultiFile and AssignOffsetsSingleFile, one file per step.   *)
(*                                                                         *)
(* A placement is what the directory tree will record for the file: the    *)
(* volume (archive) that holds its data, the offset there and the length.  *)
(* The writer never seeks: it appends the files of a volume one after the  *)
(* other.  So the tree is right only if every offset equals what the       *)
(* appended predecessors add up to, which is what Contiguous states.       *)
(***************************************************************************)
EXTENDS Integers, Sequences

CONSTANTS
  Inputs,                 \* the sequences of entry lengths the packer may be given
  MaxArchiveSize,         \* PackRequest.MaxArchiveSizeBytes, validated by the caller
  DirectoryArchiveIndex,  \* 0x7FFF: "the data is in the directory file"
  UintRange               \* 2^32: offsets and lengths are uint

ASSUME LayoutAssumption ==
  /\ UintRange \in Nat \ {0}
  /\ Inputs \subseteq Seq(0 .. UintRange - 1)
  /\ MaxArchiveSize \in 1 .. UintRange - 1
  /\ DirectoryArchiveIndex \in Nat \ {0}

VARIABLES
  sizes,          \* EntryLength of every file, in the packer's order
  multi,          \* TRUE: numbered volumes; FALSE: everything in one file
  placed,         \* the placements made so far
  archiveIndex,   \* the volume being filled
  archiveOffset,  \* where its next file goes (single file: the running offset)
  currentFiles,   \* the files of the volume being filled
  archives,       \* the volumes closed by FinishArchive
  phase           \* "placing", "placed" or the exception that ended it

layoutVars == <<sizes, multi, placed, archiveIndex, archiveOffset,
                currentFiles, archives, phase>>

Errors == {"too large", "too many archives", "offset overflow"}

Placement == [archive : Nat, offset : Nat, length : Nat]

\* The values the algorithm starts from, shared with the modules that call it.
StartLayout(lengths, isMulti) ==
  /\ sizes = lengths
  /\ multi = isMulti
  /\ placed = <<>>
  /\ archiveIndex = 0
  /\ archiveOffset = 0
  /\ currentFiles = <<>>
  /\ archives = <<>>
  /\ phase = "placing"

Init == \E lengths \in Inputs, isMulti \in BOOLEAN : StartLayout(lengths, isMulti)

-----------------------------------------------------------------------------

File == Len(placed) + 1

Placing == phase = "placing" /\ File <= Len(sizes)

\* uint subtraction is unchecked here: it wraps.
UintSub(a, b) == IF a >= b THEN a - b ELSE a - b + UintRange

\* Mutant: moves on only when the volume is already full.
StartsNewArchiveWhenFull == archiveOffset >= MaxArchiveSize

StartsNewArchive ==
  archiveOffset > 0 /\ UintSub(MaxArchiveSize, archiveOffset) < sizes[File]

Record(archive, offset) ==
  placed' = Append(placed, [archive |-> archive, offset |-> offset,
                            length  |-> sizes[File]])

\* FinishArchive: nothing is recorded for a volume without files.
ClosedArchives ==
  IF currentFiles = <<>> THEN archives
  ELSE Append(archives, [index |-> archiveIndex, files |-> currentFiles])

Throw(error) ==
  /\ phase' = error
  /\ UNCHANGED <<sizes, multi, placed, archiveIndex, archiveOffset,
                 currentFiles, archives>>

\* A file without data (empty, or all of it preloaded) takes no room.
PlaceEmpty ==
  /\ Placing /\ multi
  /\ sizes[File] = 0
  /\ Record(DirectoryArchiveIndex, 0)
  /\ UNCHANGED <<sizes, multi, archiveIndex, archiveOffset, currentFiles,
                 archives, phase>>

RejectTooLarge ==
  /\ Placing /\ multi
  /\ sizes[File] > MaxArchiveSize
  /\ Throw("too large")

\* Mutant: the offset does not advance past the file.
PlaceInCurrentNoAdvance ==
  /\ Placing /\ multi
  /\ sizes[File] \in 1 .. MaxArchiveSize
  /\ ~StartsNewArchive
  /\ archiveIndex # DirectoryArchiveIndex
  /\ Record(archiveIndex, archiveOffset)
  /\ currentFiles' = Append(currentFiles, File)
  /\ archiveOffset' = IF archiveOffset = 0 THEN sizes[File] ELSE archiveOffset
  /\ UNCHANGED <<sizes, multi, archiveIndex, archives, phase>>

PlaceInCurrent ==
  /\ Placing /\ multi
  /\ sizes[File] \in 1 .. MaxArchiveSize
  /\ ~StartsNewArchive
  /\ archiveIndex # DirectoryArchiveIndex
  /\ Record(archiveIndex, archiveOffset)
  /\ currentFiles' = Append(currentFiles, File)
  /\ archiveOffset' = archiveOffset + sizes[File]
  /\ UNCHANGED <<sizes, multi, archiveIndex, archives, phase>>

\* Mutant: the new volume goes on at the old volume's offset.
PlaceInNextNoReset ==
  /\ Placing /\ multi
  /\ sizes[File] \in 1 .. MaxArchiveSize
  /\ StartsNewArchive
  /\ archiveIndex + 1 # DirectoryArchiveIndex
  /\ archives' = ClosedArchives
  /\ archiveIndex' = archiveIndex + 1
  /\ Record(archiveIndex + 1, archiveOffset)
  /\ currentFiles' = <<File>>
  /\ archiveOffset' = archiveOffset + sizes[File]
  /\ UNCHANGED <<sizes, multi, phase>>

\* Mutant: no limit on the number of volumes.
PlaceInNextUnlimited ==
  /\ Placing /\ multi
  /\ sizes[File] \in 1 .. MaxArchiveSize
  /\ StartsNewArchive
  /\ archives' = ClosedArchives
  /\ archiveIndex' = archiveIndex + 1
  /\ Record(archiveIndex + 1, 0)
  /\ currentFiles' = <<File>>
  /\ archiveOffset' = sizes[File]
  /\ UNCHANGED <<sizes, multi, phase>>

PlaceInNext ==
  /\ Placing /\ multi
  /\ sizes[File] \in 1 .. MaxArchiveSize
  /\ StartsNewArchive
  /\ archiveIndex + 1 # DirectoryArchiveIndex
  /\ archives' = ClosedArchives
  /\ archiveIndex' = archiveIndex + 1
  /\ Record(archiveIndex + 1, 0)
  /\ currentFiles' = <<File>>
  /\ archiveOffset' = sizes[File]
  /\ UNCHANGED <<sizes, multi, phase>>

RejectTooMany ==
  /\ Placing /\ multi
  /\ sizes[File] \in 1 .. MaxArchiveSize
  /\ StartsNewArchive
  /\ archiveIndex + 1 = DirectoryArchiveIndex
  /\ Throw("too many archives")

\* AssignOffsetsSingleFile: every file is in the directory file; the running
\* offset is computed in a checked block.
PlaceSingle ==
  /\ Placing /\ ~multi
  /\ archiveOffset + sizes[File] < UintRange
  /\ Record(DirectoryArchiveIndex, archiveOffset)
  /\ archiveOffset' = archiveOffset + sizes[File]
  /\ UNCHANGED <<sizes, multi, archiveIndex, currentFiles, archives, phase>>

OverflowSingle ==
  /\ Placing /\ ~multi
  /\ archiveOffset + sizes[File] >= UintRange
  /\ Throw("offset overflow")

\* Mutant: the last volume is never closed.
FinishLayoutLastOpen ==
  /\ phase = "placing" /\ File > Len(sizes)
  /\ phase' = "placed"
  /\ UNCHANGED <<sizes, multi, placed, archiveIndex, archiveOffset, currentFiles, archives>>

FinishLayout ==
  /\ phase = "placing" /\ File > Len(sizes)
  /\ archives' = ClosedArchives
  /\ currentFiles' = <<>>
  /\ phase' = "placed"
  /\ UNCHANGED <<sizes, multi, placed, archiveIndex, archiveOffset>>

Step ==
  \/ PlaceEmpty \/ PlaceInCurrent \/ PlaceInNext \/ PlaceSingle
  \/ RejectTooLarge \/ RejectTooMany \/ OverflowSingle
  \/ FinishLayout

Spec == Init /\ [][Step]_layoutVars

-----------------------------------------------------------------------------

TypeOK ==
  /\ sizes \in Seq(0 .. UintRange - 1)
  /\ multi \in BOOLEAN
  /\ placed \in Seq(Placement)
  /\ archiveIndex \in Nat
  /\ archiveOffset \in Nat
  /\ currentFiles \in Seq(Nat)
  /\ archives \in Seq([index : Nat, files : Seq(Nat)])
  /\ phase \in {"placing", "placed"} \cup Errors

\* The files placed in a volume: those with data.  (AssignOffsetsMultiFile
\* gives the others the directory's index and no room.)
HasRoom(i) == placed[i].length > 0

End(p) == p.offset + p.length

\* No byte of any volume belongs to two files: extracting one file can never
\* return another's data.
NoOverlap ==
  \A i, j \in 1 .. Len(placed) :
    (i < j /\ HasRoom(i) /\ HasRoom(j) /\ placed[i].archive = placed[j].archive)
      => End(placed[i]) <= placed[j].offset

\* Every placement can be addressed: the end of a file in a numbered volume
\* does not pass the requested maximum (so the unchecked subtraction never
\* wrapped), and no end passes what a uint can hold.
FitsArchive ==
  \A i \in 1 .. Len(placed) :
    /\ End(placed[i]) < UintRange
    /\ multi => End(placed[i]) <= MaxArchiveSize

\* A numbered volume never takes the index that means "in the directory file":
\* the unpacker would look for the data in the wrong file.
IndexUnambiguous ==
  multi => \A i \in 1 .. Len(placed) :
             HasRoom(i) => placed[i].archive < DirectoryArchiveIndex

\* What the writer appends is where the tree says: the first file of a volume
\* is at 0 and each next one where its predecessor in the volume's file list
\* ends.  PackMultiFileAsync writes archive.Files in this order and never seeks.
ContiguousIn(files, index) ==
  \A k \in 1 .. Len(files) :
    /\ files[k] \in 1 .. Len(placed)
    /\ placed[files[k]].archive = index
    /\ placed[files[k]].offset =
         IF k = 1 THEN 0 ELSE End(placed[files[k - 1]])

Contiguous ==
  /\ \A v \in 1 .. Len(archives) : ContiguousIn(archives[v].files, archives[v].index)
  /\ ContiguousIn(currentFiles, archiveIndex)

\* No file is lost between the volumes: when the layout is complete every file
\* with data is in the list of exactly the volume its entry names, and volume
\* number v has index v - 1, the number in the name of the file written for it.
EveryFileWritten ==
  (phase = "placed" /\ multi) =>
    /\ \A v \in 1 .. Len(archives) : archives[v].index = v - 1
    /\ Len(placed) = Len(sizes)
    /\ \A i \in 1 .. Len(placed) : HasRoom(i) =>
         \E v \in 1 .. Len(archives) :
           /\ archives[v].index = placed[i].archive
           /\ \E k \in 1 .. Len(archives[v].files) : archives[v].files[k] = i

=============================================================================

# TLA+ models of Stunstick

Stunstick is a .NET 8 toolkit for Source-engine modding: it packs and unpacks
game packages, decompiles and compiles models, and downloads and publishes
Workshop items, from a command line and a desktop window.  This directory holds
TLA+ specifications of the parts of it whose correctness depends on order,
interleaving, failure or arithmetic at a boundary, the TLC configurations that
check them, and TLAPS proofs.  Paths below are relative to `src/src/` (C#), or to
`src/tools/` where they begin with `MDLForge/`: the model compiler bundled with
the toolkit, a studiomdl of 341,510 lines of C and C++, most of them libraries
and headers of the Source SDK.

## 1. Inventory

| Part | State | Operations | What makes it correct |
|---|---|---|---|
| VPK packer (`Stunstick.App/Pack/VpkPacker.cs`) | the files collected with their lengths, offsets and CRCs; the output files | collect, place, hash, copy, write tree and MD5 sections | the tree describes the bytes written; nothing overlaps; a failed run never looks like a package |
| VPK unpacker (`Unpack/VpkUnpacker.cs`) | the tree read, the volumes opened so far | verify MD5, extract, check CRC | a successful checked run delivers only what some pack run read |
| Single instance (`Stunstick.Desktop/SingleInstanceIpc.cs`, `App.axaml.cs`) | named mutex, named pipe, handler, pending queue, UI queue | launch, forward, serve, set handler, stop | one window; no forwarded command line lost, duplicated or reordered |
| SteamCMD runner (`Workshop/SteamCmdRunner.cs`) | child process, two output pumps, recent text, prompt counters | pump, detect prompt, ask the user, answer | every question is answered once, by its own answer; the run ends |
| SteamPipe (`Workshop/SteamPipeClient.cs`, `Stunstick.SteamPipe/Program.cs`) | helper process, its call results, staged copy of the content | publish, download, list, delete, quota | a reported success is a real one; at most one item is created |
| Workshop publisher / downloader | temporary folders, VDF file, output folder | stage, pack, run a back end, clean up / cache, web, SteamPipe, SteamCMD | temporary folders are removed; an existing output is replaced only by a complete one |
| GMA packer and unpacker (`Pack/GmaPacker.cs`, `Unpack/GmaUnpacker.cs`) | staged copy, entries with sizes and CRCs | stage, hash, copy / list, extract, verify | as for VPK |
| HFS and APK unpackers | position in the file | extract | the bytes of the entry |
| VPK tool wrapper (`Pack/VpkToolPacker.cs`) | temporary file list, volumes in the input folder, outputs | run the tool, move its volumes | what the tool made is never lost; the outputs are those of one run |
| Application facade (`StunstickApplication.cs`) | temporary gameinfo.txt, compile log | pack, unpack, compile, decompile | the game folder is left as it was found |
| Toolchain (`Toolchain/SystemProcessLauncher.cs`) | child process, output pumps | find tools, start, kill, wait | the log is complete when the process has ended; the call returns |
| Model compiler (`MDLForge/utils/studiomdl`) | sources with skeletons and weights, the global bone table, levels of detail | tag, build, force the hierarchy, sort, collapse, replace, map weights, mark flags, write | one sorted skeleton; vertices keep their weight and their bones are set up at every level |
| Engine libraries (`MDLForge/tier1`, `mathlib`, `public`, ...) | - | called by the compiler, or not at all | - |
| Decompiler, inspectors, viewer, model readers, LZMA, QC/SMD/VDF parsers | parsed file | read, format | format fidelity |
| CLI, desktop window | options, settings | call the facade | - |

Interaction: the command line and the window call the facade, which calls the
packers, unpackers, the decompiler, the toolchain and the Workshop parts; the
Workshop publisher calls a packer, then SteamPipe or SteamCMD, both child
processes talked to through pipes.  Files on disk are the only state shared
between operations, and with other programs.

What is hard here, in short: the packers read sources that other programs edit,
twice in one mode; volumes and directory are separate files and a run may die
between them; two processes decide by a named mutex which of them shows the
window while a pipe server, a queue and the UI thread hand a command line on;
two pumps share one prompt detector and one user; the downloader chooses among
four sources and converts what it got next to outputs that exist already; a
publish spans three processes (Stunstick, its helper, Steam), any of which may
stop, or talks to SteamCMD through a file with a guessable name; compiles that
overlap share a game folder with each other and with the user; and the bone
table of the compiler goes through a dozen passes, each of which renumbers it
while other tables hold indexes into it. PROJECT.json lists these hazards at
their lines with the properties that cover them, and those no property covers
yet.

## 2. Modules

| Module | Models | State and actions |
|---|---|---|
| `VpkLayout` | `VpkPacker.AssignOffsets*` | one step per file; the branches of the loop body are the actions `PlaceEmpty`, `PlaceInCurrent`, `PlaceInNext`, `RejectTooLarge`, `RejectTooMany`, `PlaceSingle`, `OverflowSingle`; `uint` arithmetic wraps at `UintRange` |
| `VpkLayoutProofs` | - | proofs about it; its first section proves induction over `Nat`, and recursion, from facts about sets (see 5) |
| `VpkPackage` | the three pack methods, the directory tree, `VpkUnpacker`, programs that edit the sources | instantiates `VpkLayout` and runs it step by step inside a pack run; then every file operation of the method (`Program`) is a step, in the method's order; the unpacker verifies MD5 records, opens volumes when it needs them, extracts and compares |
| `VpkPackageProofs` | - | proofs about it |
| `PackageStore` | the abstract package: a catalog replaced only while nobody reads, readers that get all of it or an error | `VpkPackage` and `GmaPackage` implement it (`PackageIsStore`, `GmaIsStore`) |
| `SingleInstanceIpc` | `Program.Main`, `SingleInstanceIpc`, the handler of `App.axaml.cs` | a process is a launch; server loop, UI thread and start-up are interleaved; mutex and pipe are modelled by who has them open |
| `SingleInstanceProofs` | - | proofs about it |
| `SteamCmdRunner` | `SteamCmdRunner.cs` | SteamCMD, two pipes, two pumps, recent text, prompt lock, user, cancellation |
| `SteamCmdRunnerProofs` | - | proofs about it |
| `WorkshopDownloader` | `WorkshopDownloader.cs` | where the item is found, the copy in parts, the conversions, the clean-up after a failure |
| `WorkshopDownloaderProofs` | - | proofs about it |
| `SteamPipePublish` | `WorkshopPublisher.PublishViaSteamPipeAsync`, `SteamPipeClient.RunAndParseAsync`, `Stunstick.SteamPipe` `PublishAsync` | publisher, client, helper and Steam step in turn; folders are the sets of files in them |
| `SteamCmdPublish` | `WorkshopPublisher.PublishViaSteamCmdAsync` | several publishes, a VDF file for each name, SteamCMD as the three things it does with the file; a file being written is `Partial`; a cancelled publish may be over while its SteamCMD runs on, until it is killed or for ever (`ToolGone`) |
| `SteamPipePublishProofs` | - | proofs about `SteamPipePublish`, and about `SteamCmdPublish` through `MCPublish` |
| `GmaPackage` | `GmaPacker` (built-in), `GmaUnpacker` | staging, the hashing and the copying pass, the finished file, list and extraction; implements `PackageStore` |
| `VpkToolPack` | `VpkToolPacker` | the file list, the tool, the moves volume by volume, a process that may end at any step |
| `PackersProofs` | - | proofs about `GmaPackage` and `VpkToolPack` through `MCPackers` |
| `CompileSession` | `StunstickApplication.CompileWithStudioMdlAsync`, `SystemProcessLauncher` | sessions in one game folder, each with its tool, two pipes and two pumps; the user changes gameinfo.txt |
| `BoneTable` | the passes over the bone table in `simplify.cpp`, `unifylods.cpp`, their commands in `studiomdl.cpp` | one action per pass, in the order of the compiler, except for the loops nothing bounds in advance: `SortSwap`, `SortPass`, `CollapseBones` and `FixupReplacedBones` are one turn each; `SetupHitBoxes`, the last that adds flags, is the end; a project (skeletons, weights, script commands) is the input |
| `CompileProofs` | - | proofs about `BoneTable` and, through `MCCompile`, about `CompileSession` |

The `MC*` modules give the constants values and add one stuttering step in the
states where nothing has to happen (a finished layout, a user who thinks), so
that TLC's deadlock check stays on everywhere.  `MCPackers`, `MCPublish` and
`MCCompile` check components that share nothing in one run: the initial state
chooses one of them, the others stay as they begin, and a property of an
instance has a name of its own (`GmaIsStore` is `IsStore` of `GmaPackage`;
`MCCompile` extends `BoneTable` and instantiates `CompileSession`).  The
proofs about an instance extend the same `MC*` module, so that theorem and run
speak of one definition; of its constants they use no value, only the
assumptions.  What values a variable takes is said beside its declaration and,
where there are proofs, in the type invariant they begin with.  A definition whose comment
begins with "Mutant" is a faulty variant of the one below it; no action uses
it.  PROJECT.json names the property that each of them breaks.

Where the code is external it is modelled from its use:

* **.NET files.** An output opened with `FileShare.None` excludes readers and
  other writers of that file, on Unix too, where .NET takes an advisory lock.
  Source files carry no lock.  One read or write of a file's data is a step,
  except where the code loops over parts.  Deletions of temporary folders
  succeed.
* **CRC-32 and MD5** have no collisions: a checksum is the bytes it was computed
  from.
* **The named mutex** exists while any process has it open, and creating it can
  be refused (`MutexMayFail`).  **The pipe** has one server instance; the
  connection backlog of the Unix implementation is not modelled.
* **SteamCMD** asks on standard output and waits on standard input; it mentions
  passwords and codes only to ask for them.
* **Steam** answers every call in any of the ways the helper tells apart, or
  never; a failed answer may follow a change that was made.

## 3. Runs

| Run | Question | Bounds |
|---|---|---|
| `packers` | `VpkLayout`: no overlap, no wrap, no forbidden index, complete volumes, contiguous offsets; `VpkToolPack`: no volume the tool made is lost; `GmaPackage`: untouched sources come back, refinement of `PackageStore` | every list of at most 5 lengths in 0..4, volumes of 3 bytes, 3 volumes, `uint` of 9 values: every branch, including the overflow and the rejected ones; two runs of the tool over three volumes; two packs and two unpacks of two files with one edit and aborts anywhere |
| `vpk` | a successful pack verifies; untouched sources come back; MD5 sections agree; a checked unpack invents nothing; the directory is written last; refinement of `PackageStore` | 2 files, contents of at most 3 bytes so that preload, data, and edits of the same and of another length all occur; 2 packs in any modes, 1 unpack, 1 edit, an abort anywhere: an interrupted second run over a complete first one, with a reader in between |
| `instance` | one window; lines neither lost while in hand, nor handled twice, nor out of order; the server comes back; what is posted is processed | 3 launches, crashes anywhere, a mutex that may be refused |
| `instance_handover` (violation) | a line the server read is processed | 2 launches suffice |
| `steamcmd` | one dialog, the right answer and one only, no output lost; a whole question is put to the user; the run returns | 4 questions, so that the limit of 3 passwords is met, each whole or in two halves; 3 other tokens; chunks of 1 token against a recent text of 4, the program's ratio |
| `steamcmd_refusal` (violation) | a refused prompt ends the run | 1 question |
| `download` | a reported output is complete; existing outputs survive; a Steam item is converted | 2 downloads, overlapping when neither overwrites, two parts each, every set of options with one fallback, old outputs nowhere, at one path or at all |
| `download_kept`, `download_web` (violations) | existing `.gma` outputs survive; a web item is converted | 1 download |
| `publish` | Steamworks: a reported publish is complete and of one item, the payload is there while it is uploaded, nothing is left behind, it ends, cancelled or not; SteamCMD: publishes that do not share a VDF file with another one, or with the SteamCMD a cancelled one left running, do not disturb each other | 2 publishes, 2 files, no, one or two temporary folders, three ids of which one exists; 2 publishes through SteamCMD over three ids, with any files left behind by earlier ones |
| `compile` | `BoneTable`: sorted or rejected, skeleton kept, weights kept, no replaced bone used, bones of a level set up, the loops end; `CompileSession`: the log is whole, the folder is as it was found or as the user last left it, the session returns | four bones in five shapes (roots, chain, two forks, two trees), up to two forced parents, imported, renamed, unused and collapsed bones, up to three replacements at a level, three levels, one procedural bone, with no, one or any hit boxes, or two that may be used with each other; one session with a log (3 lines on one stream, 1 on the other, a pipe of 1) or two silent ones that overlap, one act of the user |
| `bones_relink` (violation) | the sort keeps the skeleton | three forced parents over four roots |

Two of each is mostly enough because the code compares an actor with at most one
other: a file with the one before it in its volume, a pump with the other pump, a
publish with the file it writes.  The theorems of section 5 hold for any number;
of the downloads two were not enough, and two properties were restated when the
proofs met a third.  Three launches are needed
for a primary, its successor and a process that still holds the mutex.  Three of
four bones are named by a rule (replaced, collapsed, forced) in one of its
chains, and the fourth carries the rest.

**Fairness.** Threads and processes that can run do, and a kill that was ordered
is delivered (`SteamCmdRunner`; in `SteamPipePublish` it may be lost, because
the registration is disposed when the method ends).  In `CompileSession` the
session threads, the kill, the pumps and a tool that can go on are fair; nothing
is assumed of a server process that Wine leaves behind, and a session with one
need not return.  The compiler is one thread: its three loops that run until
nothing changes are fair, so that `LoopsEnd` says they come to their end.  Nothing is assumed of
users, of SteamCMD beyond finishing a question it began, of Steam, or of
cancellations.  A launch that tries to connect gives up after two seconds, so
its exit is fair.

## 4. Findings

* `instance_handover`: `SetHandler` drains `Pending` once; the server thread may
  have read the handler as null before and enqueue after, and nobody looks at
  the queue again (`SingleInstanceIpc.cs:60-64`, `142-145`).  Everything short
  of that holds: `Conserved` shows that the line is not lost, it waits.
* `steamcmd_refusal`: a user who closes the prompt fails one pump, and `RunAsync`
  waits for SteamCMD, which waits for a line (`SteamCmdRunner.cs:64`).
* `download_kept`: with overwriting off, an existing `.gma` file next to an LZMA
  payload is deleted by the clean-up of the refused conversion
  (`WorkshopDownloader.cs:472`, `508`).
* `download_web`: what was downloaded from `file_url` is never converted, because
  the output stream is still open when it is examined
  (`WorkshopDownloader.cs:384`, `403`).

* `bones_relink`: when the sort swaps a bone with its parent, the loop under
  "relink parents" renumbers the bones after the one that moved only; with three
  forced parents a bone before it gets another parent
  (`MDLForge/utils/studiomdl/simplify.cpp:3883`).  The result is still sorted
  (`SortedOrRejected`), and the sort of a hierarchy without such a chain keeps it.

Met on the way and not run: the comment at `SingleInstanceIpc.cs:27` says that
false means "forwarded", but a launch that times out returns false as well;
`parity.md:113` speaks of a SteamCMD fallback, but an exception of the
Steamworks download ends the chain (`WorkshopDownloader.cs:174`); a publish that
fails after `CreateItem` loses the new item's id (`SteamPipe/Program.cs:325`);
temporary folders stay behind when the second step of the preparation fails
(`WorkshopPublisher.cs:346`) or when the staged copy does
(`SteamPipe/Program.cs:997`). `NoLitter` exempts exactly the last two, and the
folders of a helper that died. A staged GMA run compares the output's path with
names in the staged copy, so an earlier `.gma` in the input folder is packed
(`GmaPacker.cs:80`); volumes that a crashed run of the vpk tool left in the
input folder are packed into the next package; of two compiles that overlap in a
folder without gameinfo.txt the second may lose it while it runs
(`StunstickApplication.cs:249`, `415`); of two new items published through
SteamCMD at a time one may be uploaded twice (`WorkshopPublisher.cs:248`), and
of two one after the other the second may return the id of the first, if the
first was cancelled and its SteamCMD is still alive: the callback that kills it
is removed when `RunAsync` ends, which the same cancellation makes it do
(`SteamCmdRunner.cs:45-64`). A gameinfo.txt the user puts into the folder while
a compile that found none is at work is overwritten if the compile is about to
write its own, and deleted at the end whoever wrote it
(`StunstickApplication.cs:270`, `415`). In the compiler: `$hierarchy` of a bone
with itself, and a circular `replacebone`, never end; a model of
`$includemodel`s only that collapses bones loses all of them
(`simplify.cpp:3091`); a procedural bone that another procedural bone controls
passes its flags on only in the order of the file (`simplify.cpp:7305` says it
propagates them), and its use by a hit box not at all, because hit boxes are set
up afterwards (`simplify.cpp:7319`).

## 5. Proofs

Every safety invariant and every action property of the passing runs is a
theorem, except `SortedOrRejected` and `SkeletonKept` of `BoneTable`, of each of
which a part is; so are both refinements of `PackageStore`.
The theorems hold for every value of the constants, that is for any number of
files, launches, downloads, publishes or compiles and any size of a file, a
volume, a chunk or a pipe.  They rest on the assumption each module names:
bounds are natural numbers, sets of options are subsets of the types the model
declares, and `None` is none of the things it stands for the absence of
(`PackageAssumption`, for instance, keeps it out of the contents and out of the
trees).  No assumption bounds a
number of actors or the length of a list.

How each goes, with the facts its invariant adds to the properties:

* **VpkLayout** (`LayoutAssumption`): type correctness and the five layout
  properties.  `NoOverlap` is not inductive: that the next file does not overlap
  an earlier one needs `Latest` (the running offset lies behind everything placed
  in the current volume), `Bounds` (the running offset is within the volume, so
  the unchecked `uint` subtraction cannot wrap), and for the lists of the volumes
  `CurrentVolume`, `Numbering` and `Covered`.  There is a lemma per action.
  `Chained`, what the appending writer needs to know of a whole volume, is an
  invariant too.
* **VpkPackage** (`PackageAssumption`): `SuccessVerifies`, `UntouchedRoundTrip`,
  `NothingInvented`, `DirectoryLast` and the refinement of `PackageStore`.  What
  is on the disk in the middle of a run depends on how far the run is in its list
  of file operations.  The list is a concatenation of pieces (`SingleProgram`,
  `SingleMd5Program`, `MultiProgram`), so `Standing` says for each kind of package
  which pieces are left, and that the files of the pieces that are done are stored
  as their entries will say; `LaidOut` carries the layout's invariant from
  `VpkLayoutProofs` along while it runs and after it, because the positions the
  writer reaches by appending are the offsets of the tree only by `Chained`.
  `Collected` is what the run knows of sources nobody touched, `Read` that every
  checksum in sight is of something read from its source, `Held` what an open
  reader relies on: nobody has its directory open for writing.  `Reported` closes
  the circle for the run that ended.
* **GmaPackage** (`GmaConstants`, a hypothesis): `GmaRoundTrip` and the
  refinement of `PackageStore`.  The invariant says what an undisturbed pass has
  read (`GmaHashed`), that the data are the first n files at the places
  `DataLength` computes (`GmaMade`), and where an unpack stands among them
  (`GmaRead`).
* **VpkToolPack**: `ToolMadeIsKept`.  While the volumes are moved, those to come
  are in the input folder and the others where they belong (`ToolKept`).
* **SingleInstanceIpc** (`InstanceAssumption`): `OneWindow`, which needs that a
  process that was not launched has nothing open, and that there is at most one
  window at all if the mutex is never refused; `Conserved` and `Overtake`, which
  need that a line reaches one server and is read once (`Clients`, `Reads`), and
  where every line is that the window has not processed: ahead of the later ones
  in `Pending` and in the message loop, where a post at its second hop is ahead of
  all others (`Way`).
* **SteamCmdRunner** (`RunnerAssumption`): `OneDialog`, from `promptLock` being
  held only between finding a question and the finally block; `RightAnswer` and
  `OutputComplete`.  A question is in one place only: a pipe, the recent text, a
  dialog, or as an answer in SteamCMD's input (`Question`, `Texts`, `Answers`); a
  pump that ended drained its pipe (`Drained`).
* **WorkshopDownloader** (`DownloadAssumption`): `SuccessComplete`,
  `OutputsKeptButGma` and `SteamConverted`.  The invariant says what each download
  has on the disk and open at each of its stages (`Item`, `Made`); a step of another
  download keeps it because an output is opened with `FileMode.CreateNew`, so
  that where one may write there is nothing, or what it wrote itself.  The
  exception is the `.gma` file, which the clean-up of a failed decompression
  deletes.
* **SteamPipePublish** (`PublishAssumption`): `ReportedComplete`, `PayloadHeld`
  and `NoLitter`.  The payload stands while the helper is at work
  (`PayloadKept`, `Upload`), there is no call outstanding once an id is reported
  (`Answers`), every temporary folder has a living owner or is accounted for
  (`Litter`).
* **SteamCmdPublish** (`CmdAssumption`): `CmdOwnItem`.  A publish that shares its
  VDF file with no other one, nor with a SteamCMD still at work for one that is
  over, finds in it what it wrote (`CmdAlone`, `CmdStand`; `AtWork` is the publish
  or its SteamCMD);
  that nobody else uploads to its item needs, beside the file of an item naming
  that item (`CmdNamed`), that the file of new items never names an item another
  publish is meant for (`CmdNew`).  That holds although an earlier publish may have
  left such a file, because it is written again before SteamCMD reads it.
* **BoneTable** (`BoneAssumption`, and `IsProject` of the input): `WeightsKept`,
  `ReplacedGone`, `BonesSetUp`, for any number of sources, bones, weights,
  replacements and procedural bones and whatever is collapsed.  None of the three
  is inductive, because each speaks of what several passes made, one after the
  other; `BoneInv` says what each pass hands to the next.  `SortInv`: a pass of the
  sort that swapped nothing began at the first bone, so that no parent stands
  behind its child; from then on parents come first through every removal,
  without which `Ancestors`, by which every later pass is defined, is no
  well-founded recursion.  `MapInv`: a bone of the model is mapped to the nearest
  bone at or above it that is left.  `VertsInv` and `LodsInv`: a vertex has the
  total of its source, each bone once, and only bones the mapping or the
  replacements lead to, and those carry the flag of their level.  What the chains
  were marked with, `SetupHitBoxes` leaves: it adds no flag of `Passed`
  (`HitFlags`).  `FixupInv`:
  `FixupReplacedBones` is left only when no replacement leads to another, which is
  why one look in `BuildBoneLODMapping` is enough.  `ControlInv`: every procedural
  bone that is left has its control.  `ProgressInv` says what there is at which
  stage.  The passes are folds; `ImportFold` and twelve lemmas like it, one for each
  step that is folded (a lemma cannot take an operator), say that a set of tables
  each step stays within is one the fold stays within.

  Further: parents come first once the sort is through (`BoneSpecSorted`, the
  first half of `SortedOrRejected`, with the exception of a bone that is its own
  parent until `FlagParents` walks up from it, which the runs do not try); no name
  is in the table twice (`BoneSpecNames`); and removing bones keeps the parents of
  the others (`BoneSpecKin`, the half of `SkeletonKept` that is about
  `CollapseBones`).  The last two need that `$definebone` does not name a bone
  `$renamebone` gives another name: `findGlobalBone` looks for the new name, does
  not find the old one the table has, and a second `$definebone` adds it again.

  `IsProject` assumes of the input what the parsers make of it: in a source
  parents come before their children, weights are of bones of their source, and
  the first source is a model with at least one level of detail, up to the number
  of names in `LodFlag`.  One assumption is the model's own and not the parser's:
  no bone is renamed to a name that is itself renamed (section 6).
* **CompileSession** (`SessionAssumption`): `LogWhole` and `FolderAsFound`.  Of
  every pump, what it logged and what is left in its pipe are the lines of its
  stream in order (`Pump`); a gameinfo.txt that is not the user's has a session
  that made it and has not cleaned up, and where the file has to be the user's no
  session is about to write or to delete one (`Folder`).

**Induction over data.**  What the packers compute from a file list (lengths that
add up, programs flattened from pieces) is induction over the list.  The library's
theorems for that take an operator as a parameter, which the provers cannot
instantiate.  `VpkLayoutProofs` begins with statements about sets instead,
`LeastNatural`, `NaturalsUpward` and `PrimitiveRecursion`, proved from the
well-foundedness of strict inclusion; the proofs above apply them to sets such as
"the positions at which the claim holds".  For this `DataLength` and the programs
of `VpkPackage` are recursive functions and `FlattenSeq`, not RECURSIVE
operators.  `CompileProofs` begins with the same statements and goes on to the
folds of `BoneTable`.

**What the proofs found** in the models.  `PackageStore` had no step for a reader
that gives up and leaves while the catalog is replaced (`Leave`); a run with a
single unpack does not get there, so `packers` has two.  Two properties of the
downloader held for two downloads and not for three: a third may create and
delete a `.gma` file between two steps of another, which `SuccessComplete` and
`OutputsKeptButGma` now state as the code has it (`MayHaveLostGma`).  `StartPack`
had admitted sources longer than a `uint` measures.  Three properties of
`BoneTable` held in the run and not of every project, and now say where the code
stops: where every bone collapses, weights are for a bone that does not exist
(`WeightsKept`); a replacement that names a bone as it was before `$renamebone` is
not chained to one that names it as it is now, and one of a bone by itself moves
nothing (`ReplacedGone`); and the flags of a procedural bone reach its control
only if no later procedural bone adds to them, those of hit boxes never
(`BonesSetUp`, `Passed`).  The run had one
procedural bone and now has two.

**Only model-checked.**
* Liveness (`Delivered`, `ServerReturns`, `QuestionPrompted`, `RunReturns`, both
  `Returns`, `LoopsEnd`): the
  prover does not treat fairness and ENABLED.
* `SortedOrRejected`: that a hierarchy is said to be circular only if it is.  It is
  for as many bones as the run has; a table so large that sorting it takes more
  than `CircularLimit` passes would be rejected whatever its hierarchy is, so for
  every value of the constants the claim is not a theorem.
* `SkeletonKept`, for the sort: with three forced parents it is false (see
  `bones_relink`); and for `BuildGlobalBonetable`, where it depends on what the
  eyeballs are attached to (section 6).
* The properties of the violation runs, which are false.

## 6. Limits

Within the modelled parts: unpack options for output paths; the progress and
log messages; which payload is chosen among several files in Steam's folder;
downloads of different items, or by overlapping requests that overwrite; an
LZMA payload already named `.gma`; the other commands of the SteamPipe helper
(download, delete, list, quota); a second publish while a helper of a cancelled
one still runs, or while Steam has yet to commit what an earlier one submitted
(each publish of `SteamPipePublish` begins with a helper of its own and no call
outstanding); the preview file; of the SteamCMD path a VDF path of the
request's own, several AppIDs, and a SteamCMD that succeeds without writing an
id (the "0" in the file is returned).  A question of SteamCMD in two halves need
not be put to the user: with other text between them in the shared recent text
it matches no pattern, and the code does not claim to handle it.

`SingleInstanceIpc` refuses a pipe that another process has open.  On Unix the
socket of the other process is unlinked and bound anew instead: where the mutex
was refused, or the server of a primary that is ending still has the pipe, the new
server takes the place over at once, while in the model it waits for it.

`GmaPackage` leaves out the external gmad tool, the manifest, ignore patterns and
a staged copy left by a process that ended; `VpkToolPack` the search for the tool
and its arguments (packing one file is the case of one volume);
`CompileSession` the `$definebones` file, the arguments and vphysics, and a
launcher without pumps, where a kill may come after its registration is gone
(`SystemProcessLauncher.cs:44`).

`BoneTable` leaves out geometry (positions and rotations of the bones, which no
pass over the table depends on), the marks `LinkAttachments` and `LinkIKChains`
add to bones of the table (`simplify.cpp:5391`, `5618`: both run before the
chains of procedural bones are marked, and add to what is passed on), the
linking of attachments, bones aligned with the screen, that a vertex of a level
may be matched with one of a level in between whose bones are replaced already
(`unifylods.cpp:914`; no property depends on it), aim-at bones, the name
prefixes of XSI files, chained renames, a bone forced under itself and circular
replacements (both do not end), eyeballs on bones without vertices, `axisinterp`
bones, and the forced parent of a collapsed bone, which `simplify.cpp:4167`
ignores for vertices. Numbers of bones are compared with a `MAXSTUDIOBONES` of
6.

Two hazards of PROJECT.json have no property: the forwarding launch that gives
up after two seconds whatever became of its line (`SingleInstanceIpc.cs:162`)
promises nothing to check, and the chain of download sources that an exception
ends (`WorkshopDownloader.cs:174`) is what the code says.

Not modelled: parts PROJECT.json lists as `not_modelled`, each with the reason.
Parsers, decompilers and the LZMA decoder transform data without a protocol or
a state that outlives a file.  Of `MDLForge` about 1,500 lines are modelled: the
rest is parsing, geometry, compression of animations, mesh optimisation and SDK
code, mostly floating-point arithmetic over large inputs; a small share of it
has discrete state a checker reaches.

## 7. Plan

1. Done: `VpkLayout`, `VpkPackage` over it with `PackageStore` above,
   `SingleInstanceIpc`, `SteamCmdRunner`, `WorkshopDownloader`,
   `SteamPipePublish`, in this order of importance to a user's data.
2. Done: `GmaPackage` against `PackageStore`, `VpkToolPack`, `CompileSession`,
   `SteamCmdPublish`; `BoneTable` of the model compiler.
3. Done: the proofs of section 5, for all modules.  Left, of `BoneTable`: that a
   hierarchy that is not circular is sorted within a number of passes the size of
   the table bounds, and that the sort keeps the skeleton where no chain of three
   forced parents occurs.
4. Models: the helper's download command over the client's loop of
   `SteamPipePublish`; of `MDLForge` the data manager (`tier1/datamanager.cpp`)
   with its locks and its eviction, and the strip builder's bone limits.
5. Pure algorithms against reference definitions: the flex-rule formatter, the
   progress counters, the VDF parser.

--------------------------- MODULE WorkshopDownloader ---------------------------
(***************************************************************************)
(* WorkshopDownloader: where an item comes from (Steam's cache, the web,     *)
(* Steamworks, SteamCMD), how it is copied to the output directory and how   *)
(* it is converted there.                                                   *)
(*                                                                         *)
(* Every download writes outputs with the same base name, so a path is named  *)
(* by its extension, and "base" is the folder without one.  An output is a    *)
(* function from part numbers to the download that wrote the part: the bytes  *)
(* of a file come in order through one stream, the files of a folder through  *)
(* a stream each.                                                           *)
(*                                                                         *)
(* Output streams are opened with FileMode.CreateNew and FileShare.None: an    *)
(* existing file makes the opening fail, and so does opening for reading while *)
(* the stream is open.  Deleting an open file fails on Windows; elsewhere the  *)
(* name goes away and the writer writes on, to no avail.                      *)
(***************************************************************************)
EXTENDS Integers, FiniteSets

CONSTANTS
  Downloads,     \* the downloads, each done once
  Requests,      \* the options a download may be given
  CacheKinds,    \* what Steam's folder may hold for the item, None for nothing
  WebKinds,      \* what file_url may yield, None for no such link
  OldOutputs,    \* the sets of paths that may exist at the start
  Overlap,       \* whether downloads without overwriting run at the same time
  Posix,         \* whether an open file can be deleted
  None

Kinds == {"folder", "plain", "zip", "lzma", "gma"}
Paths == {"base"} \cup (Kinds \ {"folder"})
Parts == {1, 2}
Request == [overwrite : BOOLEAN, convert : BOOLEAN, gmod : BOOLEAN,
            steamworks : BOOLEAN, steamcmd : BOOLEAN]

ASSUME DownloadAssumption ==
  /\ Requests \subseteq Request
  /\ CacheKinds \subseteq Kinds \cup {None}
  /\ WebKinds \subseteq (Kinds \ {"folder"}) \cup {None}
  /\ OldOutputs \subseteq SUBSET Paths
  /\ Overlap \in BOOLEAN /\ Posix \in BOOLEAN
  /\ None \notin Downloads \cup Kinds /\ "old" \notin Downloads
  /\ \A n \in 0 .. 3 : None \notin [1 .. n -> Downloads \cup {"old"}]

VARIABLES
  disk,      \* the output at every path, None when there is none
  holder,    \* the download that has the file at a path open for writing
  cache,     \* what Steam's cache holds, None before it is downloaded
  link,      \* what details.FileUrl yields
  stage,     \* where every download is
  request,   \* its options
  origin,    \* where its item comes from
  kind,      \* what the item is
  result,    \* the output path it reports
  trouble    \* history: an exception or a cancellation it swallowed

fileVars == <<disk, holder>>
itemVars == <<cache, link, request>>
vars     == <<fileVars, itemVars, stage, origin, kind, result, trouble>>

Stages ==
  {"new", "locating", "fallback", "steamcmd", "located", "ready", "copying", "copied",
   "extracting", "sniffing", "decompressing", "converted", "ok", "failed", "stopped"}

Active(d) == stage[d] \notin {"new", "ok", "failed", "stopped"}

Old == [part \in 1 .. 3 |-> "old"]   \* an earlier output had one part more
NoParts == [part \in {} |-> None]

Init ==
  /\ \E old \in OldOutputs : disk = [p \in Paths |-> IF p \in old THEN Old ELSE None]
  /\ holder = [p \in Paths |-> None]
  /\ cache \in CacheKinds /\ link \in WebKinds
  /\ request \in [Downloads -> Requests]
  /\ stage = [d \in Downloads |-> "new"] /\ origin = [d \in Downloads |-> None]
  /\ kind = [d \in Downloads |-> None] /\ result = [d \in Downloads |-> None]
  /\ trouble = [d \in Downloads |-> FALSE]

-----------------------------------------------------------------------------

Goto(d, next) == stage' = [stage EXCEPT ![d] = next]

\* What the stages after the location leave alone.
FileFrame == UNCHANGED <<itemVars, origin, kind>>

\* SelectBestPayload and GetOutputPath.
AsFolder(d) == origin[d] = "steam" /\ (kind[d] = "folder" \/ ~request[d].convert)
RawPath(d) == IF AsFolder(d) THEN "base" ELSE kind[d]

MayConvert(d) == request[d].convert /\ ~AsFolder(d)
IsZip(d)      == MayConvert(d) /\ kind[d] = "zip"

\* An LZMA stream is recognized by two header fields, which a .zip passes too.
\* A "plain" payload is one that does not.
SeemsLzma(d) == MayConvert(d) /\ request[d].gmod /\ kind[d] \in {"lzma", "zip"}

\* The conversion the options ask for.
Converts(d) == IsZip(d) \/ (SeemsLzma(d) /\ kind[d] = "lzma")

ConvertedPath(d) == IF kind[d] = "zip" THEN "base" ELSE "gma"

Exists(p)     == disk[p] # None
Deletable(p)  == holder[p] = None \/ Posix
Delete(ps) ==
  /\ disk' = [p \in Paths |-> IF p \in ps THEN None ELSE disk[p]]
  /\ holder' = [p \in Paths |-> IF p \in ps THEN None ELSE holder[p]]

\* A stream of d's is gone with d's method.
Close(d) == holder' = [p \in Paths |-> IF holder[p] = d THEN None ELSE holder[p]]

-----------------------------------------------------------------------------
(* Where the item comes from *)

Keeps(d) == ~request[d].overwrite

Start(d) ==
  /\ stage[d] = "new"
  /\ \A e \in Downloads : Active(e) => Overlap /\ Keeps(d) /\ Keeps(e)
  /\ Goto(d, "locating")
  /\ FileFrame /\ UNCHANGED <<fileVars, result, trouble>>

Located(d, from, what) ==
  /\ Goto(d, "located")
  /\ origin' = [origin EXCEPT ![d] = from] /\ kind' = [kind EXCEPT ![d] = what]
  /\ UNCHANGED <<fileVars, link, request, result, trouble>>

\* Steam's cache comes first, then the web.
LocateInCache(d) ==
  /\ stage[d] = "locating" /\ cache # None
  /\ Located(d, "steam", cache) /\ UNCHANGED cache

LocateOnWeb(d) ==
  /\ stage[d] = "locating" /\ cache = None /\ link # None
  /\ Located(d, "web", link) /\ UNCHANGED cache

LocateNowhere(d) ==
  /\ stage[d] = "locating" /\ cache = None /\ link = None
  /\ Goto(d, "fallback")
  /\ FileFrame /\ UNCHANGED <<fileVars, result, trouble>>

\* Steamworks downloads into Steam's cache, or throws.
FromSteamworks(d) ==
  /\ stage[d] = "fallback" /\ request[d].steamworks
  /\ \E what \in Kinds : Located(d, "steam", what) /\ cache' = what

SkipSteamworks(d) ==
  /\ stage[d] = "fallback" /\ ~request[d].steamworks
  /\ Goto(d, "steamcmd")
  /\ FileFrame /\ UNCHANGED <<fileVars, result, trouble>>

\* SteamCMD downloads into a folder of its own.
FromSteamCmd(d) ==
  /\ stage[d] = "steamcmd" /\ request[d].steamcmd
  /\ \E what \in Kinds : Located(d, "steam", what) /\ UNCHANGED cache

-----------------------------------------------------------------------------
(* Copying *)

\* EnsureOutputDoesNotExist.
EnsureOk(d, p) == Exists(p) => request[d].overwrite /\ Deletable(p)

\* Mutant: an existing file is deleted in any case.
PrepareDeletes(d) ==
  /\ stage[d] = "located" /\ Deletable(RawPath(d))
  /\ Goto(d, "ready")
  /\ Delete({RawPath(d)})
  /\ FileFrame /\ UNCHANGED <<result, trouble>>

Prepare(d) ==
  /\ stage[d] = "located" /\ EnsureOk(d, RawPath(d))
  /\ Goto(d, "ready")
  /\ Delete({RawPath(d)})
  /\ FileFrame /\ UNCHANGED <<result, trouble>>

\* CreateDirectory takes an existing folder; FileMode.CreateNew no existing file.
OpenOutput(d) ==
  /\ stage[d] = "ready"
  /\ LET p == RawPath(d)
     IN  /\ IF AsFolder(d) THEN disk' = IF Exists(p) THEN disk ELSE [disk EXCEPT ![p] = NoParts]
            ELSE ~Exists(p) /\ disk' = [disk EXCEPT ![p] = NoParts]
         /\ holder' = IF AsFolder(d) THEN holder ELSE [holder EXCEPT ![p] = d]
  /\ Goto(d, "copying")
  /\ FileFrame /\ UNCHANGED <<result, trouble>>

\* The parts of p that d has written, and the next one.
Written(d, p) == IF Exists(p) THEN {i \in DOMAIN disk[p] : disk[p][i] = d} ELSE {}
NextPart(d, p) == Cardinality(Written(d, p)) + 1

WithPart(d, p) ==
  LET old == IF Exists(p) THEN disk[p] ELSE NoParts
  IN  [i \in DOMAIN old \cup {NextPart(d, p)} |-> IF i = NextPart(d, p) THEN d ELSE old[i]]

\* A file of a folder is created anew.
PartFree(d, p) == ~Exists(p) \/ NextPart(d, p) \notin DOMAIN disk[p]

CopyPart(d) ==
  /\ stage[d] = "copying"
  /\ LET p == RawPath(d)
     IN  IF AsFolder(d)
         THEN PartFree(d, p) /\ NextPart(d, p) \in Parts /\ disk' = [disk EXCEPT ![p] = WithPart(d, p)]
         ELSE holder[p] = d /\ NextPart(d, p) \in Parts /\ disk' = [disk EXCEPT ![p] = WithPart(d, p)]
  /\ UNCHANGED <<holder, stage, result, trouble>> /\ FileFrame

\* Mutant: CopyFileAsync leaves its stream to the caller's end, too.
CopyDoneKeepsStream(d) ==
  /\ stage[d] = "copying"
  /\ NextPart(d, RawPath(d)) \notin Parts \/ (~AsFolder(d) /\ holder[RawPath(d)] # d)
  /\ Goto(d, "copied")
  /\ UNCHANGED <<disk, holder, result, trouble>> /\ FileFrame

\* CopyFileAsync disposes its stream; DownloadFromWebAsync keeps it to its end.
CopyDone(d) ==
  /\ stage[d] = "copying"
  /\ NextPart(d, RawPath(d)) \notin Parts \/ (~AsFolder(d) /\ holder[RawPath(d)] # d)
  /\ Goto(d, "copied")
  /\ IF origin[d] = "web" THEN UNCHANGED holder ELSE Close(d)
  /\ UNCHANGED <<disk, result, trouble>> /\ FileFrame

Ends(d, how) ==
  /\ Goto(d, how)
  /\ Close(d)
  /\ UNCHANGED <<disk, result, trouble>> /\ FileFrame

\* Any exception: the output exists, a part or a file cannot be created, the
\* network, the source or Steam fails.  What has been written stays.
Fail(d) ==
  /\ \/ stage[d] \in {"locating", "steamcmd", "located", "ready", "copying"}
     \/ stage[d] = "fallback" /\ request[d].steamworks
  /\ Ends(d, "failed")

\* The process is killed, or the user cancels before the conversion.
Stop(d) == Active(d) /\ Ends(d, "stopped")

-----------------------------------------------------------------------------
(* MaybeConvertDownloadedFileAsync *)

Return(d, p) == Goto(d, "ok") /\ result' = [result EXCEPT ![d] = p]

\* Can the copy be opened for reading?
Readable(d) == Exists(RawPath(d)) /\ holder[RawPath(d)] = None

\* The copy is examined at once, or after a failed extraction.
Sniffing(d) == stage[d] = "sniffing" \/ (stage[d] = "copied" /\ ~IsZip(d))

\* A copy that cannot be opened does not look like LZMA.
ReturnRaw(d) ==
  /\ Sniffing(d) /\ ~(SeemsLzma(d) /\ Readable(d))
  /\ Return(d, RawPath(d)) /\ Close(d)
  /\ UNCHANGED <<disk, trouble>> /\ FileFrame

\* Mutant: an existing folder is extracted into.
BeginExtractInto(d) ==
  /\ stage[d] = "copied" /\ IsZip(d)
  /\ disk' = [disk EXCEPT !["base"] = IF Exists("base") THEN @ ELSE NoParts]
  /\ Goto(d, "extracting")
  /\ UNCHANGED <<holder, result, trouble>> /\ FileFrame

\* The target folder is made before the archive is opened.
BeginExtract(d) ==
  /\ stage[d] = "copied" /\ IsZip(d) /\ EnsureOk(d, "base")
  /\ disk' = [disk EXCEPT !["base"] = NoParts]
  /\ Goto(d, "extracting")
  /\ UNCHANGED <<holder, result, trouble>> /\ FileFrame

\* ExtractToDirectory(overwriteFiles: request.OverwriteExisting).
ExtractPart(d) ==
  /\ stage[d] = "extracting" /\ Readable(d)
  /\ NextPart(d, "base") \in Parts /\ (PartFree(d, "base") \/ request[d].overwrite)
  /\ disk' = [disk EXCEPT !["base"] = WithPart(d, "base")]
  /\ UNCHANGED <<holder, stage, result, trouble>> /\ FileFrame

ExtractDone(d) ==
  /\ stage[d] = "extracting" /\ NextPart(d, "base") \notin Parts
  /\ Goto(d, "converted")
  /\ UNCHANGED <<disk, holder, result, trouble>> /\ FileFrame

\* LooksLikeLzmaStream, then EnsureOutputDoesNotExist and FileMode.CreateNew.
BeginDecompress(d) ==
  /\ Sniffing(d) /\ SeemsLzma(d) /\ Readable(d) /\ EnsureOk(d, "gma")
  /\ disk' = [disk EXCEPT !["gma"] = NoParts]
  /\ holder' = [holder EXCEPT !["gma"] = d]
  /\ Goto(d, "decompressing")
  /\ UNCHANGED <<result, trouble>> /\ FileFrame

DecompressPart(d) ==
  /\ stage[d] = "decompressing" /\ holder["gma"] = d /\ NextPart(d, "gma") \in Parts
  /\ disk' = [disk EXCEPT !["gma"] = WithPart(d, "gma")]
  /\ UNCHANGED <<holder, stage, result, trouble>> /\ FileFrame

DecompressDone(d) ==
  /\ stage[d] = "decompressing" /\ kind[d] = "lzma"
  /\ holder["gma"] # d \/ NextPart(d, "gma") \notin Parts
  /\ Goto(d, "converted")
  /\ Close(d)
  /\ UNCHANGED <<disk, result, trouble>> /\ FileFrame

\* The copy is deleted, if that works, and the converted output reported.
ReturnConverted(d) ==
  /\ stage[d] = "converted"
  /\ Return(d, ConvertedPath(d))
  /\ IF Deletable(RawPath(d)) THEN Delete({RawPath(d)}) ELSE UNCHANGED fileVars
  /\ UNCHANGED trouble /\ FileFrame

\* Any exception while a .zip is extracted, a cancellation included, is
\* swallowed.  The folder stays as it is, the copy is still examined.
ExtractGivenUp(d) ==
  /\ \/ stage[d] = "extracting"
     \/ stage[d] = "copied" /\ IsZip(d)
  /\ trouble' = [trouble EXCEPT ![d] = Readable(d) /\ EnsureOk(d, "base")]
  /\ Goto(d, "sniffing")
  /\ UNCHANGED <<fileVars, result>> /\ FileFrame

\* The same for LZMA, but the .gma file is deleted, whoever wrote it.
DecompressGivenUp(d) ==
  /\ \/ Sniffing(d) /\ SeemsLzma(d) /\ Readable(d) /\ UNCHANGED trouble /\ ~EnsureOk(d, "gma")
     \/ stage[d] = "decompressing" /\ trouble' = [trouble EXCEPT ![d] = TRUE]
  /\ Return(d, RawPath(d))
  /\ LET mine == [p \in Paths |-> IF holder[p] = d THEN None ELSE holder[p]]
         gone == mine["gma"] = None \/ Posix
     IN  /\ disk' = IF gone THEN [disk EXCEPT !["gma"] = None] ELSE disk
         /\ holder' = IF gone THEN [mine EXCEPT !["gma"] = None] ELSE mine
  /\ FileFrame

-----------------------------------------------------------------------------

Step(d) ==
  \/ Start(d) \/ LocateInCache(d) \/ LocateOnWeb(d) \/ LocateNowhere(d)
  \/ FromSteamworks(d) \/ SkipSteamworks(d) \/ FromSteamCmd(d)
  \/ Prepare(d) \/ OpenOutput(d) \/ CopyPart(d) \/ CopyDone(d) \/ Fail(d) \/ Stop(d)
  \/ ReturnRaw(d) \/ BeginExtract(d) \/ ExtractPart(d) \/ ExtractDone(d)
  \/ BeginDecompress(d) \/ DecompressPart(d) \/ DecompressDone(d) \/ ReturnConverted(d)
  \/ ExtractGivenUp(d) \/ DecompressGivenUp(d)

Next == \E d \in Downloads : Step(d)

Spec == Init /\ [][Next]_vars

-----------------------------------------------------------------------------

Succeeds(d) == stage[d] # "ok" /\ stage'[d] = "ok"

Complete(d) == [part \in Parts |-> d]

\* Another download may have deleted d's .gma file: see DecompressGivenUp.
MayHaveLostGma(d) == \E e \in Downloads \ {d} : request[e].convert /\ stage[e] # "new"

\* A download that succeeds reports an output that is exactly its item: no part
\* missing, no part of an earlier output or of another download in it.  Only a
\* .gma file may be gone, or a third download's by then: a download at the same
\* time may have deleted it.
SuccessComplete ==
  [][ \A d \in Downloads : Succeeds(d) =>
        \/ disk'[result'[d]] = Complete(d)
        \/ result'[d] = "gma" /\ Written(d, "gma")' = {} /\ MayHaveLostGma(d) ]_vars

\* An output nobody is working on: of an earlier session, or reported.
Settled(p) ==
  \/ disk[p] = Old
  \/ \E d \in Downloads : stage[d] = "ok" /\ result[d] = p /\ disk[p] = Complete(d)

NobodyOverwrites == \A d \in Downloads : Active(d) => Keeps(d)

\* Without "overwrite" an output that was there stays as it is, whichever
\* download fails or is killed at whichever point.  The .gma file next to an
\* LZMA payload is the exception: OutputsKept.
OutputsKeptButGma ==
  [][ NobodyOverwrites => \A p \in Paths \ {"gma"} : Settled(p) => disk'[p] = disk[p] ]_vars

\* parity.md:124: "overwrite toggle": the same for every output.
OutputsKept ==
  [][ NobodyOverwrites => \A p \in Paths : Settled(p) => disk'[p] = disk[p] ]_vars

\* When conversion was asked for and nothing went wrong, an item from a Steam
\* folder is reported converted, unless an existing output forbids it.
ConvertedIf(d, from) ==
  Succeeds(d) /\ origin[d] = from /\ Converts(d) /\ ~trouble'[d]
    => result'[d] = ConvertedPath(d) \/ (~request[d].overwrite /\ Exists(ConvertedPath(d)))

SteamConverted == [][ \A d \in Downloads : ConvertedIf(d, "steam") ]_vars

\* parity.md:123: "Garry's Mod .lzma -> .gma conversion": the same for an item
\* from the web.
WebConverted == [][ \A d \in Downloads : ConvertedIf(d, "web") ]_vars

=============================================================================

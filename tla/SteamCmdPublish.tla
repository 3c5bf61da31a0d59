---------------------------- MODULE SteamCmdPublish ----------------------------
(***************************************************************************)
(* Publishing a Workshop item through SteamCMD (WorkshopPublisher,           *)
(* PublishViaSteamCmdAsync): the request is written to a VDF file, SteamCMD   *)
(* reads the file, uploads the payload folder it names and writes the id of   *)
(* the item into it, from where the publisher takes it.  Without a path of    *)
(* the request's own the file is named after the item, or "new".              *)
(*                                                                         *)
(* A cancellation kills SteamCMD from a callback which the publish does not   *)
(* wait for: the publish may be over, and the next one begun, with SteamCMD    *)
(* alive, or for ever if the callback is removed before it runs.              *)
(*                                                                         *)
(* What an item holds is known by the publish whose folder was uploaded.      *)
(***************************************************************************)
EXTENDS FiniteSets

CONSTANTS
  Publishes,   \* of one AppID, each once
  Ids,         \* Steam's item ids
  None

VARIABLES
  target,      \* request.PublishedFileId, None for a new item
  stage,       \* "new", "prepared", "writing", "running", "exited", "ok" or "failed"
  folder,      \* the publishes whose payload folder is there
  vdf,         \* of every name: [id, payload], or None when there is none
  tool,        \* SteamCMD: "off", "started", "loaded", "uploaded", "ended" or "gone"
  loaded,      \* what it read from the file
  items,       \* what the items hold, None for an id not in use
  result,      \* PublishedFileId of the result
  shared       \* history: publishes at work on their file while another one was

clientVars == <<target, stage, folder, result, shared>>
toolVars   == <<tool, loaded, items>>
vars       == <<clientVars, toolVars, vdf>>

Old == "old"   \* the payload of an earlier publish
Partial == [id |-> None, payload |-> None]   \* a VDF file being written

\* An earlier publish may have left any of the files, with the id of its item.
Init ==
  /\ target \in [Publishes -> Ids \cup {None}]
  /\ items \in [Ids -> {Old, None}]
  /\ \A p \in Publishes : target[p] # None => items[target[p]] = Old
  /\ LET InUse == {i \in Ids : items[i] # None}
         File(i) == [id |-> i, payload |-> Old]
     IN  \E kept \in SUBSET InUse, new \in InUse \cup {None} :
           vdf = [n \in Ids \cup {None} |->
                    CASE n \in kept -> File(n)
                      [] n = None /\ new # None -> File(new)
                      [] OTHER -> None]
  /\ stage = [p \in Publishes |-> "new"] /\ folder = {}
  /\ tool = [p \in Publishes |-> "off"] /\ loaded = [p \in Publishes |-> None]
  /\ result = [p \in Publishes |-> None] /\ shared = {}

\* Mutant: the file is named after the AppID alone.
VdfPathOfApp(p) == None

VdfPath(p) == target[p]

Active(p) == stage[p] \notin {"new", "ok", "failed"}
ToolRuns(p) == tool[p] \in {"started", "loaded", "uploaded"}
AtWork(p) == Active(p) \/ ToolRuns(p)
Goto(p, s) == stage' = [stage EXCEPT ![p] = s]
WriteVdf(p, content) == vdf' = [vdf EXCEPT ![VdfPath(p)] = content]

-----------------------------------------------------------------------------
(* WorkshopPublisher *)

Prepare(p) ==
  /\ stage[p] = "new" /\ Goto(p, "prepared") /\ folder' = folder \cup {p}
  /\ LET others == {q \in Publishes \ {p} : AtWork(q) /\ target[q] = target[p]}
     IN  shared' = shared \cup others \cup (IF others = {} THEN {} ELSE {p})
  /\ UNCHANGED <<target, result, vdf, toolVars>>

\* The finally block: the payload folder is deleted, unless it is the user's own or
\* cannot be; the VDF file stays.
Finish(p, how) ==
  Goto(p, how) /\ folder' \in {folder, folder \ {p}} /\ UNCHANGED <<target, shared>>

PrepareFails(p) ==
  /\ stage[p] = "new" /\ Goto(p, "failed")
  /\ UNCHANGED <<target, folder, result, shared, vdf, toolVars>>

\* File.WriteAllText, which lets nobody else write at the same time.
BeginVdf(p) ==
  /\ stage[p] = "prepared"
  /\ IF \E q \in Publishes : stage[q] = "writing" /\ VdfPath(q) = VdfPath(p)
       THEN Finish(p, "failed") /\ UNCHANGED <<vdf, result>>
       ELSE Goto(p, "writing") /\ WriteVdf(p, Partial) /\ UNCHANGED <<target, folder, result, shared>>
  /\ UNCHANGED toolVars

EndVdf(p) ==
  /\ stage[p] = "writing" /\ Goto(p, "running")
  /\ WriteVdf(p, [id |-> target[p], payload |-> p])
  /\ tool' = [tool EXCEPT ![p] = "started"]
  /\ UNCHANGED <<target, folder, result, shared, loaded, items>>

\* The exit code is 0.
Exited(p) ==
  /\ stage[p] = "running" /\ tool[p] = "ended" /\ Goto(p, "exited")
  /\ UNCHANGED <<target, folder, result, shared, vdf, toolVars>>

\* Mutant: the request's id comes first, for a new item too.
ReadIdOfRequest(p) ==
  /\ stage[p] = "exited" /\ Finish(p, "ok")
  /\ result' = [result EXCEPT ![p] = target[p]]
  /\ UNCHANGED <<vdf, toolVars>>

\* TryReadPublishedFileIdFromVdf: what is not a number is not used.
ReadId(p) ==
  /\ stage[p] = "exited" /\ Finish(p, "ok")
  /\ LET file == vdf[VdfPath(p)]
     IN  result' = [result EXCEPT ![p] = IF file \in {None, Partial} THEN target[p] ELSE file.id]
  /\ UNCHANGED <<vdf, toolVars>>

\* An error, another exit code, or a cancellation, which leaves a SteamCMD that runs
\* to itself and to the kill that may come.
Fail(p) ==
  /\ Active(p) /\ Finish(p, "failed")
  /\ UNCHANGED <<result, vdf, toolVars>>

-----------------------------------------------------------------------------
(* SteamCMD *)

At(p, before, after) == tool[p] = before /\ tool' = [tool EXCEPT ![p] = after]

\* It fails, or is killed.
ToolGone(p) ==
  /\ ToolRuns(p) /\ tool' = [tool EXCEPT ![p] = "gone"]
  /\ UNCHANGED <<clientVars, vdf, loaded, items>>

ToolLoads(p) ==
  /\ At(p, "started", "loaded") /\ vdf[VdfPath(p)] \notin {None, Partial}
  /\ loaded' = [loaded EXCEPT ![p] = vdf[VdfPath(p)]]
  /\ UNCHANGED <<clientVars, vdf, items>>

\* As the item named, or as a new one.
ToolUploads(p, i) ==
  /\ At(p, "loaded", "uploaded") /\ loaded[p].payload \in folder
  /\ IF loaded[p].id = None THEN items[i] = None ELSE i = loaded[p].id
  /\ items' = [items EXCEPT ![i] = loaded[p].payload]
  /\ loaded' = [loaded EXCEPT ![p].id = i]
  /\ UNCHANGED <<clientVars, vdf>>

ToolWritesId(p) ==
  /\ At(p, "uploaded", "ended") /\ WriteVdf(p, loaded[p])
  /\ UNCHANGED <<clientVars, loaded, items>>

Next ==
  \E p \in Publishes :
    \/ Prepare(p) \/ PrepareFails(p) \/ BeginVdf(p) \/ EndVdf(p) \/ Exited(p) \/ ReadId(p) \/ Fail(p)
    \/ ToolLoads(p) \/ ToolWritesId(p) \/ ToolGone(p) \/ \E i \in Ids : ToolUploads(p, i)

Spec == Init /\ [][Next]_vars

-----------------------------------------------------------------------------

\* Publishes of different items, and one after the other of the same, do not
\* disturb each other, whatever files earlier ones left behind: one that succeeds
\* uploaded its own payload and returns the id of the item it went to, its target
\* or one that was not in use.  One after the other means that the SteamCMD of the
\* earlier one has ended too: of two new items at a time, and of a new item after
\* one that was cancelled and whose SteamCMD is still alive, none of this is true.
\* They share a file, and the second may return the id of the first.
OwnItem ==
  [][ \A p \in Publishes \ shared :
        /\ tool'[p] = "uploaded" /\ tool[p] # "uploaded" =>
             \E i \in Ids : /\ items' = [items EXCEPT ![i] = p]
                            /\ IF target[p] = None THEN items[i] = None ELSE i = target[p]
        /\ stage[p] = "exited" /\ stage'[p] = "ok" =>
             \E i \in Ids : result'[p] = i /\ items[i] = p ]_vars

=============================================================================

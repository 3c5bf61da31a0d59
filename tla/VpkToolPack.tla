----------------------------- MODULE VpkToolPack -----------------------------
(***************************************************************************)
(* Packing with the external vpk tool (VpkToolPacker, several volumes): the  *)
(* tool writes its volumes into the input folder, and they are then moved to *)
(* the output folder one by one, each over what is there.                     *)
(*                                                                         *)
(* A volume is known by the run that wrote it.  The process may end at any   *)
(* step; files that an earlier run left are there when the next one begins.   *)
(***************************************************************************)
EXTENDS Integers, FiniteSets

CONSTANTS Volumes, Directory, MaxRuns, None

Places == {"input", "output"}

VARIABLES
  same,      \* the output goes into the input folder
  disk,      \* which run wrote the volume at a place
  fileList,  \* the temporary file lists
  run,       \* number of this run
  step,      \* "start", "tool", "moving", "ok", "failed" or "crashed"
  wanted,    \* the volumes this run's tool makes
  made,      \* those it has made
  todo,      \* volumes found in the input folder and not moved yet
  cleared    \* the one whose target was just deleted, or None

vars == <<same, disk, fileList, run, step, wanted, made, todo, cleared>>

Target == IF same THEN "input" ELSE "output"
There(place) == {v \in Volumes : disk[place][v] # None}

Init ==
  /\ same \in BOOLEAN
  /\ disk = [p \in Places |-> [v \in Volumes |-> IF p = Target THEN 0 ELSE None]]
  /\ fileList = {} /\ run = 1 /\ step = "start" /\ wanted = {} /\ made = {}
  /\ todo = {} /\ cleared = None

\* WriteVpkFileListAsync, and the launch of the tool.
LaunchTool ==
  /\ step = "start" /\ step' = "tool"
  /\ fileList' = fileList \cup {run} /\ made' = {}
  /\ wanted' \in {w \in SUBSET Volumes : Directory \in w}
  /\ UNCHANGED <<same, disk, run, todo, cleared>>

ToolWrites(v) ==
  /\ step = "tool" /\ v \in wanted \ made
  /\ disk' = [disk EXCEPT !["input"][v] = run] /\ made' = made \cup {v}
  /\ UNCHANGED <<same, fileList, run, step, wanted, todo, cleared>>

\* The method ends; its file list is deleted.
End(how) == step' = how /\ fileList' = fileList \ {run}

\* With exit code 0 when it made everything.
ToolExits ==
  /\ step = "tool"
  /\ \/ wanted = made /\ step' = "moving" /\ todo' = There("input") /\ UNCHANGED fileList
     \/ End("failed") /\ UNCHANGED todo
  /\ UNCHANGED <<same, disk, run, wanted, made, cleared>>

\* Mutant: a file is moved onto itself.
ClearTargetAlways(v) ==
  /\ step = "moving" /\ cleared = None /\ v \in todo /\ disk[Target][v] # None
  /\ disk' = [disk EXCEPT ![Target][v] = None] /\ cleared' = v
  /\ UNCHANGED <<same, fileList, run, step, wanted, made, todo>>

\* MoveFileOverwrite: File.Delete, ...
ClearTarget(v) ==
  /\ step = "moving" /\ cleared = None /\ v \in todo
  /\ ~same /\ disk[Target][v] # None
  /\ disk' = [disk EXCEPT ![Target][v] = None] /\ cleared' = v
  /\ UNCHANGED <<same, fileList, run, step, wanted, made, todo>>

\* ... then File.Move.
MoveVolume(v) ==
  /\ step = "moving" /\ cleared \in {v, None} /\ v \in todo
  /\ same \/ disk[Target][v] = None
  /\ disk' = [disk EXCEPT !["input"][v] = None, ![Target][v] = disk["input"][v]]
  /\ todo' = todo \ {v} /\ cleared' = None
  /\ UNCHANGED <<same, fileList, run, step, wanted, made>>

Finish ==
  /\ step = "moving" /\ todo = {}
  /\ End(IF disk[Target][Directory] # None THEN "ok" ELSE "failed")
  /\ UNCHANGED <<same, disk, run, wanted, made, todo, cleared>>

\* A cancellation while the tool runs, or a move that fails.
Abort ==
  /\ step \in {"tool", "moving"} /\ End("failed")
  /\ UNCHANGED <<same, disk, run, wanted, made, todo, cleared>>

\* The process ends, its file list stays.
Crash ==
  /\ step \in {"tool", "moving"} /\ step' = "crashed"
  /\ UNCHANGED <<same, disk, fileList, run, wanted, made, todo, cleared>>

NextRun ==
  /\ step \in {"ok", "failed", "crashed"} /\ run < MaxRuns
  /\ run' = run + 1 /\ step' = "start" /\ todo' = {} /\ cleared' = None
  /\ UNCHANGED <<same, disk, fileList, wanted, made>>

Next ==
  \/ LaunchTool \/ ToolExits \/ Finish \/ Abort \/ Crash \/ NextRun
  \/ \E v \in Volumes : ToolWrites(v) \/ ClearTarget(v) \/ MoveVolume(v)

Spec == Init /\ [][Next]_vars

-----------------------------------------------------------------------------

\* What the tool made is never lost between the deletion of the old volume and
\* the move of the new one, wherever the run stops, and a run that reports success
\* has delivered all of it, over what earlier runs left in either folder.
MadeIsKept ==
  step # "start" =>
    \A v \in made :
      /\ \E p \in Places : disk[p][v] = run
      /\ step = "ok" => wanted = made /\ disk[Target][v] = run

=============================================================================

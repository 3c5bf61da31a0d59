----------------------------- MODULE MCPackers -----------------------------
(* The packers other than the built-in one for VPK packages, and the layout   *)
(* it uses: VpkLayout on every sequence of at most MaxFiles lengths,          *)
(* GmaPackage and VpkToolPack for a few runs.  They share nothing; what is     *)
(* not chosen stays as it begins.                                            *)
EXTENDS VpkLayout

CONSTANTS
  MaxFiles, MaxLength,                  \* VpkLayout
  NumFiles, Contents, Byte,
  MaxEdits, MaxPacks, MaxUnpacks,       \* GmaPackage
  Volumes, Directory, MaxRuns,          \* VpkToolPack
  None

VARIABLES
  source, stage, staged, at, lengths, crcs, list, data, result, status, options, next, position,
  out, edited, hashed, dirty, edits, packs, unpacks,
  same, disk, fileList, run, step, wanted, made, todo, cleared

Gma == INSTANCE GmaPackage
Tool == INSTANCE VpkToolPack

gmaVars ==
  <<source, stage, staged, at, lengths, crcs, list, data, result, status, options, next, position,
    out, edited, hashed, dirty, edits, packs, unpacks>>
toolVars == <<same, disk, fileList, run, step, wanted, made, todo, cleared>>

MCContents == {<<>>, <<1>>, <<2, 1>>}
MCInputs == UNION { [1 .. n -> 0 .. MaxLength] : n \in 0 .. MaxFiles }

LayoutAside == StartLayout(<<>>, FALSE)
GmaAside == Gma!Init /\ source = [f \in 1 .. NumFiles |-> <<>>]
ToolAside == Tool!Init /\ ~same

MCInit ==
  \/ Init /\ GmaAside /\ ToolAside
  \/ LayoutAside /\ Gma!Init /\ ToolAside
  \/ LayoutAside /\ GmaAside /\ Tool!Init

\* Runs that ended stay as they are.
LayoutEnded == phase # "placing"
GmaEnded == stage = "idle" /\ status # "reading"
ToolEnded == step \in {"ok", "failed", "crashed"}
Ended == (LayoutEnded \/ GmaEnded \/ ToolEnded) /\ UNCHANGED <<layoutVars, gmaVars, toolVars>>

MCNext ==
  \/ GmaAside /\ ToolAside /\ Step /\ UNCHANGED <<gmaVars, toolVars>>
  \/ LayoutAside /\ ToolAside /\ Gma!Next /\ UNCHANGED <<layoutVars, toolVars>>
  \/ LayoutAside /\ GmaAside /\ Tool!Next /\ UNCHANGED <<layoutVars, gmaVars>>
  \/ Ended

MCSpec == MCInit /\ [][MCNext]_<<layoutVars, gmaVars, toolVars>>

GmaRoundTrip == Gma!RoundTrip
GmaIsStore == Gma!IsStore
ToolMadeIsKept == Tool!MadeIsKept

=============================================================================

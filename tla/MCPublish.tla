------------------------------ MODULE MCPublish ------------------------------
(* The two ways to publish: SteamPipePublish for two publishes of two files, *)
(* SteamCmdPublish for two publishes.  They share nothing; the one that is   *)
(* not chosen stays as it begins.                                           *)
EXTENDS SteamPipePublish

CONSTANTS Publishes, Numbers   \* SteamCmdPublish; Numbers are its ids

\* None is no id, no publish, no payload and no content of a VDF file.
ASSUME CmdAssumption ==
  /\ None \notin Numbers \cup Publishes \cup {"old"}
  /\ None \notin [id : Numbers \cup {None}, payload : Publishes \cup {"old", None}]

VARIABLES cmdTarget, stage, payloads, vdf, tool, loaded, published, result, shared

cmdVars == <<cmdTarget, stage, payloads, vdf, tool, loaded, published, result, shared>>

Cmd == INSTANCE SteamCmdPublish WITH
  Ids <- Numbers, target <- cmdTarget, folder <- payloads, items <- published

MCPreparations == {<<>>, <<"stage">>, <<"stage", "pack">>}

CmdAside ==
  /\ cmdTarget = [p \in Publishes |-> None] /\ published = [i \in Numbers |-> None]
  /\ vdf = [n \in Numbers \cup {None} |-> None] /\ Cmd!Init
PipeAside == phase = "idle" /\ publishes = 0

\* Nothing has to happen between publishes or while Steam or the user takes time;
\* SteamCMD may hang on a file it cannot read.
PipeRests == phase = "idle" \/ helper = "waiting"
Rest == UNCHANGED <<vars, cmdVars>> /\ PipeRests

MCNext ==
  \/ CmdAside /\ Next /\ UNCHANGED cmdVars
  \/ PipeAside /\ Cmd!Next /\ UNCHANGED vars
  \/ Rest
MCInit == Init /\ Cmd!Init
MCSpec == MCInit /\ [][MCNext]_<<vars, cmdVars>> /\ Fairness

CmdOwnItem == Cmd!OwnItem

=============================================================================

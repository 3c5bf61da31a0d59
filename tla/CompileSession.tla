---------------------------- MODULE CompileSession ----------------------------
(***************************************************************************)
(* Compiling a model with studiomdl.exe (StunstickApplication.               *)
(* CompileWithStudioMdlAsync) and the process launcher below it              *)
(* (SystemProcessLauncher): a gameinfo.txt is put where there is none and     *)
(* taken away at the end, two pumps copy the output of the tool into the      *)
(* compile log, and a cancellation kills the tool.  Several compiles may use  *)
(* one game folder, and so may the user.                                     *)
(*                                                                         *)
(* A line is its number on its stream; the log is known by its streams,       *)
(* whose lines are mixed in it.  Under Wine a server process of the tool is   *)
(* not one of its children, survives the kill and keeps the pipes open.       *)
(***************************************************************************)
EXTENDS Integers, Sequences

CONSTANTS
  Sessions,
  MaxLines,      \* that a tool writes to a stream
  PipeCapacity,  \* lines that fit into a pipe nobody reads
  MaxUserActs,   \* bound on what the user does to gameinfo.txt
  None

Streams == {"out", "err"}

VARIABLES
  gameinfo,   \* gameinfo.txt of the folder: "user", "minimal", "partial" or None
  step,       \* where CompileWithStudioMdlAsync is
  created,    \* createdGameInfoPathFileName is set
  cancelled,
  captured,   \* sessions with an Output or a log, whose tool writes into pipes
  tool,       \* "none", "running" or "ended"
  server,     \* a process outside the tool's tree holds the pipes
  left,       \* lines the tool has still to write
  pipe,       \* written and not read
  pump,       \* "off", "reading", "ended" or "failed"
  log,        \* the lines of every stream in the compile log
  \* history
  due,        \* what may be there when all compiles are over
  acts,       \* how often the user changed it
  faults      \* sessions that failed to write or to delete it

toolVars    == <<tool, server, left>>
pumpVars    == <<pipe, pump, log>>
historyVars == <<due, acts, faults>>
vars == <<gameinfo, step, created, cancelled, captured, toolVars, pumpVars, historyVars>>

Init ==
  /\ gameinfo \in {None, "user"} /\ due = {gameinfo}
  /\ captured \in SUBSET Sessions
  /\ step \in [Sessions -> {"start", "returned"}]   \* "returned": there is none
  /\ created = [s \in Sessions |-> FALSE] /\ cancelled = [s \in Sessions |-> FALSE]
  /\ tool = [s \in Sessions |-> "none"] /\ server = [s \in Sessions |-> FALSE]
  /\ left \in [Sessions -> [Streams -> 0 .. MaxLines]]
  /\ pipe = [s \in Sessions |-> [x \in Streams |-> <<>>]]
  /\ pump = [s \in Sessions |-> [x \in Streams |-> "off"]]
  /\ log = [s \in Sessions |-> [x \in Streams |-> <<>>]]
  /\ acts = 0 /\ faults = {}

Goto(s, next) == step' = [step EXCEPT ![s] = next]

-----------------------------------------------------------------------------
(* The session *)

\* Mutant: the file counts as the session's own once it is sure to be there.
CheckGameInfoTaken(s) ==
  /\ step[s] = "start"
  /\ Goto(s, IF gameinfo = None THEN "create" ELSE "launch")
  /\ created' = [created EXCEPT ![s] = gameinfo # None]
  /\ UNCHANGED <<gameinfo, cancelled, captured, toolVars, pumpVars, historyVars>>

CheckGameInfo(s) ==
  /\ step[s] = "start"
  /\ Goto(s, IF gameinfo = None THEN "create" ELSE "launch")
  /\ UNCHANGED <<gameinfo, created, cancelled, captured, toolVars, pumpVars, historyVars>>

CreateGameInfo(s) ==
  /\ step[s] = "create" /\ Goto(s, "launch")
  /\ gameinfo' = "minimal" /\ created' = [created EXCEPT ![s] = TRUE]
  /\ UNCHANGED <<cancelled, captured, toolVars, pumpVars, historyVars>>

\* The exception is caught; a file may have been begun.
CreateFails(s) ==
  /\ step[s] = "create" /\ Goto(s, "launch")
  /\ gameinfo' \in {gameinfo, "partial"} /\ faults' = faults \cup {s}
  /\ UNCHANGED <<created, cancelled, captured, toolVars, pumpVars, due, acts>>

LaunchTool(s) ==
  /\ step[s] = "launch" /\ Goto(s, "wait")
  /\ tool' = [tool EXCEPT ![s] = "running"]
  /\ pump' = [pump EXCEPT ![s] = [x \in Streams |-> IF s \in captured THEN "reading" ELSE "off"]]
  /\ UNCHANGED <<gameinfo, created, cancelled, captured, server, left, pipe, log, historyVars>>

LaunchFails(s) ==
  /\ step[s] = "launch" /\ Goto(s, "finally")
  /\ UNCHANGED <<gameinfo, created, cancelled, captured, toolVars, pumpVars, historyVars>>

\* WaitForExitAsync returns or throws.
EndWait(s) ==
  /\ step[s] = "wait" /\ Goto(s, "pumps")
  /\ tool[s] = "ended" \/ cancelled[s]
  /\ UNCHANGED <<gameinfo, created, cancelled, captured, toolVars, pumpVars, historyVars>>

\* Mutant: after a cancellation the pumps are left to themselves.
AwaitPumpsUnlessCancelled(s) ==
  /\ step[s] = "pumps" /\ Goto(s, "finally")
  /\ cancelled[s] \/ \A x \in Streams : pump[s][x] # "reading"
  /\ UNCHANGED <<gameinfo, created, cancelled, captured, toolVars, pumpVars, historyVars>>

AwaitPumps(s) ==
  /\ step[s] = "pumps" /\ Goto(s, "finally")
  /\ \A x \in Streams : pump[s][x] # "reading"
  /\ UNCHANGED <<gameinfo, created, cancelled, captured, toolVars, pumpVars, historyVars>>

\* The finally block: the file is deleted, or cannot be; the log is closed.
CleanUp(s) ==
  /\ step[s] = "finally" /\ Goto(s, "returned")
  /\ \/ /\ gameinfo' = IF created[s] THEN None ELSE gameinfo
        /\ UNCHANGED faults
     \/ /\ created[s] /\ gameinfo # None
        /\ faults' = faults \cup {s} /\ UNCHANGED gameinfo
  /\ UNCHANGED <<created, cancelled, captured, toolVars, pumpVars, due, acts>>

\* Mutant: the registration is disposed when the wait is over.
KillWhileWaiting(s) ==
  /\ cancelled[s] /\ step[s] = "wait" /\ tool[s] = "running"
  /\ tool' = [tool EXCEPT ![s] = "ended"]
  /\ UNCHANGED <<gameinfo, step, created, cancelled, captured, server, left, pumpVars, historyVars>>

\* The registration kills the tool and its children; it is disposed when the
\* launcher returns, so that without pumps a kill may be lost.
Kill(s) ==
  /\ cancelled[s] /\ step[s] \in {"wait", "pumps"} /\ tool[s] = "running"
  /\ tool' = [tool EXCEPT ![s] = "ended"]
  /\ UNCHANGED <<gameinfo, step, created, cancelled, captured, server, left, pumpVars, historyVars>>

-----------------------------------------------------------------------------
(* The pumps *)

Log(s, x) == log' = [log EXCEPT ![s][x] = Append(@, Head(pipe[s][x]))]

PumpLine(s, x) ==
  /\ pump[s][x] = "reading" /\ pipe[s][x] # <<>>
  /\ pipe' = [pipe EXCEPT ![s][x] = Tail(@)] /\ Log(s, x)
  /\ UNCHANGED <<gameinfo, step, created, cancelled, captured, toolVars, pump, historyVars>>

\* The log cannot be written: the exception ends the pump and nobody sees it.
PumpFails(s, x) ==
  /\ pump[s][x] = "reading" /\ pipe[s][x] # <<>>
  /\ pipe' = [pipe EXCEPT ![s][x] = Tail(@)]
  /\ pump' = [pump EXCEPT ![s][x] = "failed"]
  /\ UNCHANGED <<gameinfo, step, created, cancelled, captured, toolVars, log, historyVars>>

\* The end of the stream comes when nobody can write into the pipe any more.
PumpEnds(s, x) ==
  /\ pump[s][x] = "reading" /\ pipe[s][x] = <<>> /\ tool[s] = "ended" /\ ~server[s]
  /\ pump' = [pump EXCEPT ![s][x] = "ended"]
  /\ UNCHANGED <<gameinfo, step, created, cancelled, captured, toolVars, pipe, log, historyVars>>

-----------------------------------------------------------------------------
(* The tool and the user *)

Written(s, x) == Len(log[s][x]) + Len(pipe[s][x])

ToolWrites(s, x) ==
  /\ tool[s] = "running" /\ left[s][x] > 0
  /\ s \in captured => Len(pipe[s][x]) < PipeCapacity
  /\ left' = [left EXCEPT ![s][x] = @ - 1]
  /\ pipe' = IF s \in captured THEN [pipe EXCEPT ![s][x] = Append(@, Written(s, x) + 1)] ELSE pipe
  /\ UNCHANGED <<gameinfo, step, created, cancelled, captured, tool, server, pump, log, historyVars>>

ToolStartsServer(s) ==
  /\ tool[s] = "running" /\ s \in captured /\ server' = [server EXCEPT ![s] = TRUE]
  /\ UNCHANGED <<gameinfo, step, created, cancelled, captured, tool, left, pumpVars, historyVars>>

ServerEnds(s) ==
  /\ server[s] /\ server' = [server EXCEPT ![s] = FALSE]
  /\ UNCHANGED <<gameinfo, step, created, cancelled, captured, tool, left, pumpVars, historyVars>>

ToolExits(s) ==
  /\ tool[s] = "running" /\ \A x \in Streams : left[s][x] = 0
  /\ tool' = [tool EXCEPT ![s] = "ended"]
  /\ UNCHANGED <<gameinfo, step, created, cancelled, captured, server, left, pumpVars, historyVars>>

Cancel(s) ==
  /\ step[s] \notin {"finally", "returned"} /\ ~cancelled[s]
  /\ cancelled' = [cancelled EXCEPT ![s] = TRUE]
  /\ UNCHANGED <<gameinfo, step, created, captured, toolVars, pumpVars, historyVars>>

\* The session has seen that there is no file, and will write or delete one.
WillReplace(s) == step[s] = "create" \/ (created[s] /\ step[s] # "returned")

\* A file the user puts in under such a session may be lost.
UserActs ==
  /\ acts < MaxUserActs /\ acts' = acts + 1
  /\ gameinfo' \in {None, "user"} \ {gameinfo}
  /\ due' = {gameinfo'} \cup (IF \E s \in Sessions : WillReplace(s) THEN {None} ELSE {})
  /\ UNCHANGED <<step, created, cancelled, captured, toolVars, pumpVars, faults>>

SessionStep(s) ==
  \/ CheckGameInfo(s) \/ CreateGameInfo(s) \/ CreateFails(s) \/ LaunchTool(s) \/ LaunchFails(s)
  \/ EndWait(s) \/ AwaitPumps(s) \/ CleanUp(s)

ToolStep(s) == ToolExits(s) \/ \E x \in Streams : ToolWrites(s, x)
PumpStep(s, x) == PumpLine(s, x) \/ PumpFails(s, x) \/ PumpEnds(s, x)

Next ==
  \/ UserActs
  \/ \E s \in Sessions :
       \/ SessionStep(s) \/ Kill(s) \/ ToolStep(s) \/ ToolStartsServer(s) \/ ServerEnds(s) \/ Cancel(s)
       \/ \E x \in Streams : PumpStep(s, x)

Spec == Init /\ [][Next]_vars

\* Threads and processes that can run do, and a tool that can go on does; nothing is
\* assumed of a server process, of cancellations or of the user.
Fairness ==
  \A s \in Sessions :
    /\ WF_vars(SessionStep(s)) /\ WF_vars(Kill(s)) /\ WF_vars(ToolStep(s))
    /\ \A x \in Streams : WF_vars(PumpStep(s, x))

FairSpec == Spec /\ Fairness

-----------------------------------------------------------------------------

Failed(s) == \E x \in Streams : pump[s][x] = "failed"

\* A session with a log cleans up, cancelled or not, only when its tool has ended
\* and nobody can write any more, and then the log has every line of both streams,
\* in the order of its stream: the log is not closed under a pump, and the
\* gameinfo.txt is not taken from a running tool by its own session.
LogWhole ==
  \A s \in captured :
    (step[s] \in {"finally", "returned"} /\ ~Failed(s)) =>
      /\ tool[s] # "running"
      /\ \A x \in Streams :
           /\ pipe[s][x] = <<>>
           /\ \A n \in 1 .. Len(log[s][x]) : log[s][x][n] = n

\* When the compiles are over the folder is as they found it or as the user last left
\* it, however they overlapped: no temporary gameinfo.txt stays, and a file of the
\* user's is there, be it from before or put in meanwhile.  One exception: a file put
\* in while a session is at work that had found none may be gone, overwritten
\* (StunstickApplication.cs:270) or deleted at the end (415).
FolderAsFound ==
  (faults = {} /\ \A s \in Sessions : step[s] = "returned") => gameinfo \in due

\* A compile ends when its tool does, and a cancelled one ends whatever became of
\* the pumps, unless a process outside the tool's tree keeps the pipes open.
Returns ==
  \A s \in Sessions :
    /\ step[s] = "wait" ~> (step[s] = "returned" \/ Failed(s) \/ server[s])
    /\ cancelled[s] ~> (step[s] = "returned" \/ server[s])

=============================================================================

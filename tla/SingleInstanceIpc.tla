-------------------------- MODULE SingleInstanceIpc --------------------------
(***************************************************************************)
(* The desktop program's single-instance protocol: Program.Main,            *)
(* SingleInstanceIpc and the handler App installs.                          *)
(*                                                                         *)
(* The first process to create the named mutex is the primary: it shows the *)
(* window and serves a named pipe.  The others send their command line      *)
(* through the pipe and exit.  A process is also the name of its command     *)
(* line.                                                                     *)
(*                                                                         *)
(* The named mutex exists as long as any process has it open, a forwarding  *)
(* process included.  The pipe has one server instance, alive for one        *)
(* iteration of the server loop.                                            *)
(***************************************************************************)
EXTENDS Integers, Sequences, SequencesExt

CONSTANTS
  Procs,          \* the launches of the program
  MutexMayFail,   \* whether the operating system may refuse the named mutex
  None

ASSUME InstanceAssumption == MutexMayFail \in BOOLEAN /\ None \notin Procs

VARIABLES
  pc,        \* where every process is
  handles,   \* the processes that have the named mutex open
  srv,       \* where every process's server loop is
  client,    \* the client connected to its pipe, or the one whose line it dispatches
  sent,      \* the clients that wrote their line
  pending,   \* SingleInstanceIpc.Pending of every process
  ui,        \* the posts its UI thread has not run yet
  handled,   \* the command lines the window processed, in order
  arrival,   \* history: the command lines its server read, in order
  queued     \* history: those dispatched before the handler was set

ipcVars == <<srv, client, arrival>>
uiVars  == <<pending, ui, handled, queued>>
vars    == <<pc, handles, sent, ipcVars, uiVars>>

\* The primary's stages; its mutex is released at the end of "stopping".
WindowStages == {"starting", "draining", "running", "closing", "stopping"}
Stages == WindowStages \cup {"off", "stopped", "connecting", "sending", "returned", "gone"}

Window(p) == pc[p] \in WindowStages

Init ==
  /\ pc = [p \in Procs |-> "off"] /\ handles = {} /\ sent = {}
  /\ srv = [p \in Procs |-> "off"] /\ client = [p \in Procs |-> None]
  /\ arrival = [p \in Procs |-> <<>>]
  /\ pending = [p \in Procs |-> <<>>] /\ ui = [p \in Procs |-> <<>>]
  /\ handled = <<>> /\ queued = {}

-----------------------------------------------------------------------------
(* TryStartOrForward *)

Goto(p, stage) == pc' = [pc EXCEPT ![p] = stage]

\* createdNew, and the server task is started.
BecomePrimary(p) ==
  Goto(p, "starting") /\ srv' = [srv EXCEPT ![p] = "opening"]

\* Mutant: a process that finds no server waiting starts as a primary.
LaunchIfNoServer(p) ==
  /\ pc[p] = "off"
  /\ handles' = handles \cup {p}
  /\ IF \A q \in Procs : srv[q] # "waiting"
     THEN BecomePrimary(p) ELSE Goto(p, "connecting") /\ UNCHANGED srv
  /\ UNCHANGED <<sent, client, arrival, uiVars>>

Launch(p) ==
  /\ pc[p] = "off"
  /\ handles' = handles \cup {p}
  /\ IF handles = {} THEN BecomePrimary(p) ELSE Goto(p, "connecting") /\ UNCHANGED srv
  /\ UNCHANGED <<sent, client, arrival, uiVars>>

\* "If named mutex is unavailable for some reason, fall back": no mutex.
LaunchWithoutMutex(p) ==
  /\ MutexMayFail /\ pc[p] = "off"
  /\ BecomePrimary(p)
  /\ UNCHANGED <<handles, sent, client, arrival, uiVars>>

\* client.Connect succeeds on a pipe that waits for a connection.
Connect(c, p) ==
  /\ pc[c] = "connecting" /\ srv[p] = "waiting"
  /\ Goto(c, "sending")
  /\ srv' = [srv EXCEPT ![p] = "reading"] /\ client' = [client EXCEPT ![p] = c]
  /\ UNCHANGED <<handles, sent, arrival, uiVars>>

\* After 2000 ms Connect throws, and the exception is swallowed.
ConnectTimeout(c) ==
  /\ pc[c] = "connecting"
  /\ Goto(c, "returned")
  /\ UNCHANGED <<handles, sent, ipcVars, uiVars>>

\* WriteLine, unless the server's end is gone: that exception is swallowed too.
Send(c) ==
  /\ pc[c] = "sending"
  /\ Goto(c, "returned")
  /\ sent' = IF \E p \in Procs : client[p] = c THEN sent \cup {c} ELSE sent
  /\ UNCHANGED <<handles, ipcVars, uiVars>>

-----------------------------------------------------------------------------
(* RunServerLoopAsync and Dispatch *)

HasPipe(p) == srv[p] \in {"waiting", "reading", "queueing", "calling"}

\* With maxNumberOfServerInstances = 1 creating the pipe throws on Windows while another
\* process has it; the loop ignores that and tries again.
CreatePipe(p) ==
  /\ srv[p] = "opening" /\ \A q \in Procs : ~HasPipe(q)
  /\ srv' = [srv EXCEPT ![p] = "waiting"]
  /\ UNCHANGED <<pc, handles, sent, client, arrival, uiVars>>

\* handler is null until SetHandler's first statement.
HandlerSet(p) == pc[p] \notin {"off", "starting"}

\* The line is complete and Dispatch reads handler into localHandler.
ReadArgs(p) ==
  /\ srv[p] = "reading" /\ client[p] \in sent
  /\ srv' = [srv EXCEPT ![p] = IF HandlerSet(p) THEN "calling" ELSE "queueing"]
  /\ arrival' = [arrival EXCEPT ![p] = Append(@, client[p])]
  /\ UNCHANGED <<pc, handles, sent, client, uiVars>>

\* The next iteration: the pipe is disposed.
NextConnection(p) ==
  srv' = [srv EXCEPT ![p] = "opening"] /\ client' = [client EXCEPT ![p] = None]

\* The client went away without a line.
ReadNothing(p) ==
  /\ srv[p] = "reading" /\ client[p] \notin sent /\ pc[client[p]] = "gone"
  /\ NextConnection(p)
  /\ UNCHANGED <<pc, handles, sent, arrival, uiVars>>

\* Mutant: without a handler the command line is dropped.
EnqueueNothing(p) ==
  /\ srv[p] = "queueing"
  /\ queued' = queued \cup {client[p]}
  /\ NextConnection(p)
  /\ UNCHANGED <<pc, handles, sent, arrival, pending, ui, handled>>

\* Pending.Enqueue.
Enqueue(p) ==
  /\ srv[p] = "queueing"
  /\ pending' = [pending EXCEPT ![p] = Append(@, client[p])]
  /\ queued' = queued \cup {client[p]}
  /\ NextConnection(p)
  /\ UNCHANGED <<pc, handles, sent, arrival, ui, handled>>

\* Mutant: the newest post runs first.
PostFirst(p, args) == ui' = [ui EXCEPT ![p] = <<[args |-> args, hop |-> 1]>> \o @]

\* What the handler does with a command line: Dispatcher.UIThread.Post.
Post(p, args) == ui' = [ui EXCEPT ![p] = Append(@, [args |-> args, hop |-> 1])]

\* Mutant: the server loop ends after the first command line.
CallHandlerOnce(p) ==
  /\ srv[p] = "calling"
  /\ Post(p, client[p])
  /\ srv' = [srv EXCEPT ![p] = "off"] /\ client' = [client EXCEPT ![p] = None]
  /\ UNCHANGED <<pc, handles, sent, arrival, pending, handled, queued>>

\* localHandler(args).
CallHandler(p) ==
  /\ srv[p] = "calling"
  /\ Post(p, client[p])
  /\ NextConnection(p)
  /\ UNCHANGED <<pc, handles, sent, arrival, pending, handled, queued>>

\* The cancelled loop leaves; a dispatch in progress is not interrupted.
ServerStops(p) ==
  /\ pc[p] \in {"stopping", "stopped"}
  /\ srv[p] \in {"opening", "waiting", "reading"}
  /\ srv' = [srv EXCEPT ![p] = "off"] /\ client' = [client EXCEPT ![p] = None]
  /\ UNCHANGED <<pc, handles, sent, arrival, uiVars>>

-----------------------------------------------------------------------------
(* The primary's UI thread: SetHandler, the message loop, Stop. *)

SetHandler(p) ==
  /\ pc[p] = "starting"
  /\ Goto(p, "draining")
  /\ UNCHANGED <<handles, sent, ipcVars, uiVars>>

\* Mutant: only the first pending command line is taken.
DrainPendingOne(p) ==
  /\ pc[p] = "draining"
  /\ IF pending[p] # <<>>
     THEN /\ pending' = [pending EXCEPT ![p] = Tail(@)]
          /\ Post(p, Head(pending[p]))
     ELSE UNCHANGED <<pending, ui>>
  /\ Goto(p, "running")
  /\ UNCHANGED <<handles, sent, ipcVars, handled, queued>>

\* One iteration of the loop over Pending, or its end.
DrainPending(p) ==
  /\ pc[p] = "draining"
  /\ IF pending[p] # <<>>
     THEN /\ pending' = [pending EXCEPT ![p] = Tail(@)]
          /\ Post(p, Head(pending[p]))
          /\ UNCHANGED pc
     ELSE Goto(p, "running") /\ UNCHANGED <<pending, ui>>
  /\ UNCHANGED <<handles, sent, ipcVars, handled, queued>>

\* Mutant: the second post does not replace the first.
RunPostTwice(p) ==
  /\ pc[p] = "running" /\ ui[p] # <<>>
  /\ LET post == Head(ui[p])
     IN  IF post.hop = 1
         THEN /\ ui' = [ui EXCEPT ![p] = Append(Tail(@), [post EXCEPT !.hop = 2])]
              /\ handled' = Append(handled, post.args)
         ELSE /\ ui' = [ui EXCEPT ![p] = Tail(@)]
              /\ handled' = Append(handled, post.args)
  /\ UNCHANGED <<pc, handles, sent, ipcVars, pending, queued>>

\* The first post only posts HandleActivationArgsFromIpc's own work.
RunPost(p) ==
  /\ pc[p] = "running" /\ ui[p] # <<>>
  /\ LET post == Head(ui[p])
     IN  IF post.hop = 1
         THEN /\ ui' = [ui EXCEPT ![p] = Append(Tail(@), [post EXCEPT !.hop = 2])]
              /\ UNCHANGED handled
         ELSE /\ ui' = [ui EXCEPT ![p] = Tail(@)]
              /\ handled' = Append(handled, post.args)
  /\ UNCHANGED <<pc, handles, sent, ipcVars, pending, queued>>

\* The user closes the window: no post runs any more.
CloseWindow(p) ==
  /\ pc[p] = "running"
  /\ Goto(p, "closing")
  /\ UNCHANGED <<handles, sent, ipcVars, uiVars>>

StopServer(p) ==
  /\ pc[p] = "closing"
  /\ Goto(p, "stopping")
  /\ UNCHANGED <<handles, sent, ipcVars, uiVars>>

DisposeMutex(p) ==
  /\ pc[p] = "stopping"
  /\ Goto(p, "stopped")
  /\ handles' = handles \ {p}
  /\ UNCHANGED <<sent, ipcVars, uiVars>>

\* The end of a process closes what it has open.
EndProcess(p) ==
  /\ Goto(p, "gone")
  /\ handles' = handles \ {p}
  /\ srv' = [srv EXCEPT ![p] = "off"] /\ client' = [client EXCEPT ![p] = None]
  /\ pending' = [pending EXCEPT ![p] = <<>>] /\ ui' = [ui EXCEPT ![p] = <<>>]
  /\ UNCHANGED <<sent, arrival, handled, queued>>

Exit(p)  == pc[p] \in {"stopped", "returned"} /\ EndProcess(p)
Crash(p) == pc[p] \notin {"off", "gone"} /\ EndProcess(p)

-----------------------------------------------------------------------------

ServerStep(p) ==
  \/ CreatePipe(p) \/ ReadArgs(p) \/ ReadNothing(p)
  \/ Enqueue(p) \/ CallHandler(p) \/ ServerStops(p)

UiStep(p) ==
  SetHandler(p) \/ DrainPending(p) \/ RunPost(p) \/ StopServer(p) \/ DisposeMutex(p)

ProcStep(p) ==
  \/ Launch(p) \/ LaunchWithoutMutex(p)
  \/ ConnectTimeout(p) \/ Send(p) \/ \E q \in Procs : Connect(p, q)
  \/ ServerStep(p) \/ UiStep(p) \/ CloseWindow(p) \/ Exit(p) \/ Crash(p)

Next == \E p \in Procs : ProcStep(p)

Spec == Init /\ [][Next]_vars

\* Threads that can run do; nobody has to start, close or kill a program, and a
\* client that is connected gets to write its line.
Fairness ==
  \A p \in Procs :
    WF_vars(ServerStep(p)) /\ WF_vars(UiStep(p)) /\ WF_vars(Send(p)) /\ WF_vars(Exit(p))

FairSpec == Spec /\ Fairness

-----------------------------------------------------------------------------

\* Single instance: while one process may show a window, from the creation of
\* the mutex to its disposal, no other does, whatever overlaps between a
\* primary that closes and launches that forward or time out.  A process that
\* fell back because the mutex was unavailable is exempt.
OneWindow ==
  \A p, q \in Procs : Window(p) /\ Window(q) /\ {p, q} \subseteq handles => p = q

\* Where a command line that p's server read can be.
InUi(p)   == {ui[p][i].args : i \in 1 .. Len(ui[p])}
InHand(p) == IF srv[p] \in {"queueing", "calling"} THEN {client[p]} ELSE {}
Places(p) == <<InHand(p), ToSet(pending[p]), InUi(p), ToSet(handled)>>

\* Until the window closes, a command line its server read is dispatched, in
\* Pending, posted or handled: the hand-over from Pending to the handler, with
\* the server thread dispatching meanwhile, drops nothing and copies nothing; and
\* none is processed twice, even when primaries crash and follow one another.
Conserved ==
  /\ IsInjective(handled)
  /\ \A p \in Procs : pc[p] \in {"starting", "draining", "running"} =>
       \A c \in ToSet(arrival[p]) :
         \E k \in 1 .. 4 :
           c \in Places(p)[k] /\ \A j \in 1 .. 4 : j # k => c \notin Places(p)[j]

Before(c, d, s) ==
  d \in ToSet(s) /\ \A i, j \in 1 .. Len(s) : s[j] = d /\ s[i] = c => i < j

\* The window processes command lines in the order the server read them, but
\* for one that was put in Pending before the handler was set: a later one
\* dispatched straight to the handler may overtake it.
Overtake ==
  \A p \in Procs : \A i, j \in 1 .. Len(arrival[p]) :
    LET c == arrival[p][i]
        d == arrival[p][j]
    IN  (i < j /\ d \in ToSet(handled) /\ pc[p] = "running" /\ ~(c \in queued /\ d \notin queued))
          => c \in ToSet(handled) /\ Before(c, d, handled)

\* What waits in Pending before the drain ends, or is posted, is processed
\* unless the window closes first.
Deliverable(c, p) ==
  \/ c \in InUi(p)
  \/ c \in ToSet(pending[p]) /\ pc[p] \in {"starting", "draining"}

Delivered ==
  \A c, p \in Procs :
    Deliverable(c, p) ~>
      (c \in ToSet(handled) \/ pc[p] \notin {"starting", "draining", "running"})

\* A window's server always comes back to wait for the next launch: a client
\* that dies half-way, a line being dispatched and the pipe of the previous
\* primary only delay it.  With the fallback a second window may keep the pipe.
ServerReturns ==
  \A p \in Procs : pc[p] = "running" ~>
    (srv[p] = "waiting" \/ pc[p] # "running" \/ \E q \in Procs \ {p} : Window(q))

\* parity.md:322: activation forwards command-line paths into the running
\* window: a line the window's server read is processed unless it closes.
ReadIsProcessed ==
  \A c, p \in Procs :
    c \in ToSet(arrival[p]) ~>
      (c \in ToSet(handled) \/ pc[p] \notin {"starting", "draining", "running"})

=============================================================================

----------------------------- MODULE SteamCmdRunner -----------------------------
(***************************************************************************)
(* SteamCmdRunner: SteamCMD as a child process, the two pumps that read its *)
(* output, and the detector that asks the user and answers its questions.   *)
(*                                                                         *)
(* Output is a sequence of tokens.  "password" and "guard" stand for the     *)
(* texts the detector looks for, "pass" and "word" for the halves of one     *)
(* that two writes delivered, "text" for anything else.  A chunk is what     *)
(* one read returns: any number of tokens.                                  *)
(*                                                                         *)
(* SteamCMD itself is external.  It asks on its standard output and waits    *)
(* for a line on its standard input; it may stop at any time, and it blocks  *)
(* while the pipe it writes to is full.                                     *)
(***************************************************************************)
EXTENDS Integers, Sequences, SequencesExt, FiniteSets

CONSTANTS
  Noisy,          \* the streams it writes ordinary text to
  Splits,         \* whether a question may reach the pipe in two writes
  ChunkSize,      \* ChunkSizeChars, in tokens
  PipeCapacity,   \* tokens a pipe holds
  MaxAsks,        \* bound: questions SteamCMD asks
  MaxTexts,       \* bound: ordinary tokens it writes
  None

Streams == {"out", "err"}
Kinds == {"password", "guard"}
Tokens == Kinds \cup {"pass", "word", "text"}

\* Mutant: room for one chunk.
RecentTextLimitOneChunk == ChunkSize

RecentTextLimit == 4 * ChunkSize   \* 16 K against 4096 characters

MaxPasswordPrompts == 3   \* MaxGuardPrompts is the same
MaxPrompts == [kind \in Kinds |-> MaxPasswordPrompts]

ASSUME RunnerAssumption ==
  /\ Noisy \subseteq Streams /\ Splits \in BOOLEAN
  /\ ChunkSize \in Nat \ {0} /\ PipeCapacity \in Nat \ {0, 1}
  /\ MaxAsks \in Nat /\ MaxTexts \in Nat
  /\ None \notin Kinds \cup Streams

VARIABLES
  cmd,         \* SteamCMD: "running", "asking", "waiting" for a line, or "exited"
  question,    \* the kind of question it asked last, or None
  pipe,        \* the tokens in its two output pipes
  stdin,       \* the lines written to its input and not read, by kind
  pump,        \* where the pump of every stream is
  asked,       \* the kind of prompt every pump found, or None
  lock,        \* the pump that holds promptLock, or None
  recent,      \* PromptDetector.recent
  prompts,     \* passwordPromptCount and guardPromptCount
  cancelled,   \* the caller's cancellation token
  run,         \* RunAsync: "running", or how it ended
  asks, texts, \* history: questions asked and ordinary tokens written
  lines        \* history: [asked, got] of every line SteamCMD read

cmdVars  == <<cmd, question, asks, texts, lines>>
pumpVars == <<pump, asked, lock, recent, prompts>>
vars     == <<cmdVars, pumpVars, pipe, stdin, cancelled, run>>

PumpStages ==
  {"reading", "checking", "found", "prompting", "sending", "ended", "failed"}

Init ==
  /\ cmd = "running" /\ question = None
  /\ pipe = [s \in Streams |-> <<>>] /\ stdin = <<>>
  /\ pump = [s \in Streams |-> "reading"] /\ asked = [s \in Streams |-> None]
  /\ lock = None /\ recent = <<>> /\ prompts = [kind \in Kinds |-> 0]
  /\ cancelled = FALSE /\ run = "running"
  /\ asks = 0 /\ texts = 0 /\ lines = <<>>

-----------------------------------------------------------------------------
(* SteamCMD *)

Write(s, tokens) ==
  /\ Len(pipe[s]) + Len(tokens) <= PipeCapacity
  /\ pipe' = [pipe EXCEPT ![s] = @ \o tokens]

WriteText(s) ==
  /\ cmd \in {"running", "asking"} /\ s \in Noisy /\ texts < MaxTexts
  /\ Write(s, <<"text">>)
  /\ texts' = texts + 1
  /\ UNCHANGED <<cmd, question, asks, lines, pumpVars, stdin, cancelled, run>>

Ask(kind) ==
  /\ cmd = "running" /\ asks < MaxAsks
  /\ Write("out", <<kind>>)
  /\ cmd' = "waiting" /\ question' = kind /\ asks' = asks + 1
  /\ UNCHANGED <<texts, lines, pumpVars, stdin, cancelled, run>>

\* The first half of a question; other output may come before the second.
AskFirstHalf ==
  /\ cmd = "running" /\ asks < MaxAsks /\ Splits
  /\ Write("out", <<"pass">>)
  /\ cmd' = "asking" /\ question' = "password" /\ asks' = asks + 1
  /\ UNCHANGED <<texts, lines, pumpVars, stdin, cancelled, run>>

AskSecondHalf ==
  /\ cmd = "asking"
  /\ Write("out", <<"word">>)
  /\ cmd' = "waiting"
  /\ UNCHANGED <<question, asks, texts, lines, pumpVars, stdin, cancelled, run>>

ReadLine ==
  /\ cmd = "waiting" /\ stdin # <<>>
  /\ cmd' = "running" /\ question' = None
  /\ lines' = Append(lines, [asked |-> question, got |-> Head(stdin)])
  /\ stdin' = Tail(stdin)
  /\ UNCHANGED <<asks, texts, pumpVars, pipe, cancelled, run>>

Gone == cmd' = "exited" /\ question' = None

ExitCmd ==
  /\ cmd # "exited"
  /\ Gone
  /\ UNCHANGED <<asks, texts, lines, pumpVars, pipe, stdin, cancelled, run>>

-----------------------------------------------------------------------------
(* PumpAsync *)

AtStage(s, stage) == pump' = [pump EXCEPT ![s] = stage]

RunnerFrame == UNCHANGED <<cmdVars, cancelled, run>>

\* Append keeps the last RecentTextLimit characters.
Recent(chunk) ==
  LET all  == recent \o chunk
      over == Len(all) - RecentTextLimit
  IN  IF over > 0 THEN SubSeq(all, over + 1, Len(all)) ELSE all

ReadChunk(s) ==
  /\ pump[s] = "reading" /\ ~cancelled
  /\ \E n \in 1 .. Len(pipe[s]) :
       /\ n <= ChunkSize
       /\ recent' = Recent(SubSeq(pipe[s], 1, n))
       /\ pipe' = [pipe EXCEPT ![s] = SubSeq(@, n + 1, Len(@))]
  /\ AtStage(s, "checking")
  /\ UNCHANGED <<asked, lock, prompts, stdin>> /\ RunnerFrame

\* Mutant: the pump stops at the exit of the process.
ReadEndOnExit(s) ==
  /\ pump[s] = "reading" /\ cmd = "exited" /\ ~cancelled
  /\ AtStage(s, "ended")
  /\ UNCHANGED <<asked, lock, recent, prompts, pipe, stdin>> /\ RunnerFrame

\* read <= 0: the process is gone and everything it wrote has been read.
ReadEnd(s) ==
  /\ pump[s] = "reading" /\ pipe[s] = <<>> /\ cmd = "exited" /\ ~cancelled
  /\ AtStage(s, "ended")
  /\ UNCHANGED <<asked, lock, recent, prompts, pipe, stdin>> /\ RunnerFrame

\* Both the read and the wait for promptLock observe the token.
CancelPump(s) ==
  /\ pump[s] \in {"reading", "checking"} /\ cancelled
  /\ AtStage(s, "failed")
  /\ UNCHANGED <<asked, lock, recent, prompts, pipe, stdin>> /\ RunnerFrame

-----------------------------------------------------------------------------
(* CheckPromptsAsync *)

\* Mutant: a code is taken for a password.
LooksLikePasswordPromptLoose == Contains(recent, "password") \/ Contains(recent, "guard")

LooksLikePasswordPrompt ==
  \/ Contains(recent, "password")
  \/ \E i \in 1 .. Len(recent) - 1 : SubSeq(recent, i, i + 1) = <<"pass", "word">>

LooksLikeSteamGuardPrompt == Contains(recent, "guard")

\* The password is looked for first.
Detected ==
  CASE LooksLikePasswordPrompt -> "password"
    [] LooksLikeSteamGuardPrompt /\ ~LooksLikePasswordPrompt -> "guard"
    [] OTHER -> None

TooMany == Detected # None /\ prompts[Detected] >= MaxPrompts[Detected]

Found(s) ==
  /\ Detected # None /\ ~TooMany
  /\ AtStage(s, "found") /\ lock' = s
  /\ asked' = [asked EXCEPT ![s] = Detected]
  /\ prompts' = [prompts EXCEPT ![Detected] = @ + 1]

\* Mutant: the lock is not waited for.
CheckNoLock(s) ==
  /\ pump[s] = "checking"
  /\ \/ Detected = None /\ AtStage(s, "reading") /\ UNCHANGED <<asked, lock, prompts>>
     \/ TooMany /\ AtStage(s, "failed") /\ UNCHANGED <<asked, lock, prompts>>
     \/ Found(s)
  /\ UNCHANGED <<recent, pipe, stdin>> /\ RunnerFrame

\* promptLock is taken and the recent text copied; without a question in it,
\* or with one asked too often, the lock is released again.
Check(s) ==
  /\ pump[s] = "checking" /\ lock = None
  /\ \/ Detected = None /\ AtStage(s, "reading") /\ UNCHANGED <<asked, lock, prompts>>
     \/ TooMany /\ AtStage(s, "failed") /\ UNCHANGED <<asked, lock, prompts>>
     \/ Found(s)
  /\ UNCHANGED <<recent, pipe, stdin>> /\ RunnerFrame

\* Mutant: the last token stays.
ClearRecentKeepsLast(s) ==
  /\ pump[s] = "found"
  /\ recent' = <<Last(recent)>>
  /\ AtStage(s, "prompting")
  /\ UNCHANGED <<asked, lock, prompts, pipe, stdin>> /\ RunnerFrame

\* ClearRecent: also what the other pump appended since the copy.
ClearRecent(s) ==
  /\ pump[s] = "found"
  /\ recent' = <<>>
  /\ AtStage(s, "prompting")
  /\ UNCHANGED <<asked, lock, prompts, pipe, stdin>> /\ RunnerFrame

\* Mutant: a prompt that fails keeps the lock.
ReleaseKeepsLock(s, stage) ==
  /\ AtStage(s, stage) /\ asked' = [asked EXCEPT ![s] = None]
  /\ lock' = IF stage = "failed" THEN lock ELSE None
  /\ UNCHANGED <<recent, prompts, pipe>> /\ RunnerFrame

\* The finally block.
Release(s, stage) ==
  /\ AtStage(s, stage) /\ asked' = [asked EXCEPT ![s] = None] /\ lock' = None
  /\ UNCHANGED <<recent, prompts, pipe>> /\ RunnerFrame

Answer(s) ==
  /\ pump[s] = "prompting"
  /\ AtStage(s, "sending")
  /\ UNCHANGED <<asked, lock, recent, prompts, pipe, stdin>> /\ RunnerFrame

\* The user closes the dialog or leaves it empty; a cancellation closes it too.
Refuse(s) ==
  /\ pump[s] = "prompting"
  /\ Release(s, "failed") /\ UNCHANGED stdin

SendLine(s) ==
  /\ pump[s] = "sending" /\ cmd # "exited" /\ ~cancelled
  /\ stdin' = Append(stdin, asked[s])
  /\ Release(s, "reading")

\* writeLock.WaitAsync observes the token; the write fails on a dead process.
SendFails(s) ==
  /\ pump[s] = "sending" /\ (cmd = "exited" \/ cancelled)
  /\ Release(s, "failed") /\ UNCHANGED stdin

-----------------------------------------------------------------------------
(* RunAsync *)

\* The caller cancels, and the registered callback kills the process.
Cancel ==
  /\ run = "running" /\ ~cancelled
  /\ cancelled' = TRUE
  /\ UNCHANGED <<cmdVars, pumpVars, pipe, stdin, run>>

Kill ==
  /\ cancelled /\ cmd # "exited"
  /\ Gone
  /\ UNCHANGED <<asks, texts, lines, pumpVars, pipe, stdin, cancelled, run>>

\* Task.WhenAll ends when every one of its tasks has, however it did; waiting
\* for the exit ends with the exit or the cancellation.
Return ==
  /\ run = "running"
  /\ cmd = "exited" \/ cancelled
  /\ \A s \in Streams : pump[s] \in {"ended", "failed"}
  /\ run' = IF ~cancelled /\ \A s \in Streams : pump[s] = "ended" THEN "ok" ELSE "failed"
  /\ UNCHANGED <<cmdVars, pumpVars, pipe, stdin, cancelled>>

CmdStep ==
  \/ \E s \in Streams : WriteText(s)
  \/ \E kind \in Kinds : Ask(kind)
  \/ AskFirstHalf \/ AskSecondHalf \/ ReadLine \/ ExitCmd

\* What a pump does by itself; the user's Answer and Refuse are apart.
PumpStep(s) ==
  \/ ReadChunk(s) \/ ReadEnd(s) \/ CancelPump(s)
  \/ Check(s) \/ ClearRecent(s) \/ SendLine(s) \/ SendFails(s)

Next ==
  \/ CmdStep \/ Cancel \/ Kill \/ Return
  \/ \E s \in Streams : PumpStep(s) \/ Answer(s) \/ Refuse(s)

Spec == Init /\ [][Next]_vars

\* Threads that can run do, the kill is delivered, and a cancellation closes
\* the dialog.  The user need not answer, and SteamCMD need not exit.
Fairness ==
  /\ WF_vars(Kill) /\ WF_vars(Return) /\ WF_vars(AskSecondHalf)
  /\ \A s \in Streams : WF_vars(PumpStep(s)) /\ WF_vars(cancelled /\ Refuse(s))

FairSpec == Spec /\ Fairness

-----------------------------------------------------------------------------

Busy(s) == pump[s] \in {"found", "prompting", "sending"}

\* Two pumps never talk to the user at once, and a pump that does holds
\* promptLock, though the two read and append independently.
OneDialog == \A s \in Streams : Busy(s) => lock = s

\* As long as SteamCMD mentions passwords and codes only to ask for them, every
\* line it reads is the answer to the question it asked, whatever the pumps read
\* and append around a dialog; a dialog is open only for a question not answered
\* yet, and no question gets two answers: a line left in SteamCMD's input would
\* answer the next one.
RightAnswer ==
  /\ \A i \in 1 .. Len(lines) : lines[i].got = lines[i].asked
  /\ Len(lines) + Len(stdin) + Cardinality({s \in Streams : Busy(s)}) <= asks

\* A run that reports an exit code has read all of SteamCMD's output: the
\* published file id and the download path are looked for there.
OutputComplete == run = "ok" => \A s \in Streams : pipe[s] = <<>>

\* A question whose text is together, in the pipe or in the recent text, is put
\* to the user whatever the pumps append around it and however much of it the
\* limit drops, unless SteamCMD or a pump is gone.
Prompted(kind) ==
  \/ \E s \in Streams : pump[s] \in {"prompting", "sending"} /\ asked[s] = kind
  \/ question # kind
  \/ cancelled \/ \E s \in Streams : pump[s] \in {"ended", "failed"}

Whole(kind) ==
  \/ Contains(pipe["out"], kind)
  \/ kind = "password" /\ LooksLikePasswordPrompt
  \/ kind = "guard" /\ LooksLikeSteamGuardPrompt

QuestionPrompted ==
  \A kind \in Kinds :
    (cmd = "waiting" /\ question = kind /\ stdin = <<>> /\ Whole(kind)) ~> Prompted(kind)

\* When SteamCMD is gone or the run is cancelled the run returns; only a dialog
\* the user leaves open delays it, and not when cancelled.
DialogOpen == \E s \in Streams : pump[s] = "prompting"

RunReturns ==
  (cmd = "exited" \/ cancelled) ~> (run # "running" \/ (DialogOpen /\ ~cancelled))

\* SteamCmdRunner.cs:252: "SteamCMD input canceled.": a user who refuses to
\* answer ends the run.
RefusalEndsRun ==
  (\E s \in Streams : pump[s] = "failed") ~> run # "running"

=============================================================================

------------------------ MODULE SteamCmdRunnerProofs ------------------------
(***************************************************************************)
(* Proofs about SteamCmdRunner: promptLock keeps the two pumps from talking  *)
(* to the user at the same time, whatever SteamCMD writes and the user does   *)
(* (LockInv); what is read, found, answered and sent is then one question at   *)
(* a time, which is in one place only: the pipe, the recent text, a dialog or  *)
(* SteamCMD's input (Texts and Answers).                                      *)
(***************************************************************************)
EXTENDS SteamCmdRunner, FiniteSetTheorems, TLAPS

\* OneDialog needs the converse too: a lock nobody holds any more would let a
\* step of the other pump pass that leaves it held.
LockHeld == lock # None => Busy(lock)

PumpType == pump \in [Streams -> PumpStages] /\ lock \in Streams \cup {None}

LockInv == PumpType /\ OneDialog /\ LockHeld

-----------------------------------------------------------------------------

\* A pump that is not talking to the user moves on without starting to.
LEMMA QuietStep ==
  ASSUME LockInv, NEW s \in Streams, ~Busy(s), UNCHANGED lock,
         NEW stage \in PumpStages \ {"found", "prompting", "sending"}, AtStage(s, stage)
  PROVE  LockInv'
<1>1. \A t \in Streams : Busy(t)' <=> Busy(t)
  BY DEF LockInv, PumpType, AtStage, Busy
<1>2. PumpType'
  BY DEF LockInv, PumpType, AtStage
<1> QED BY <1>1, <1>2 DEF LockInv, OneDialog, LockHeld, PumpType

\* One that talks to the user goes on talking.
LEMMA DialogStep ==
  ASSUME LockInv, NEW s \in Streams, Busy(s), UNCHANGED lock,
         NEW stage \in {"prompting", "sending"}, AtStage(s, stage)
  PROVE  LockInv'
<1>1. \A t \in Streams : Busy(t)' <=> Busy(t)
  BY DEF LockInv, PumpType, AtStage, Busy
<1>2. PumpType'
  BY DEF LockInv, PumpType, AtStage, PumpStages
<1> QED BY <1>1, <1>2 DEF LockInv, OneDialog, LockHeld, PumpType

LEMMA ReleaseStep ==
  ASSUME LockInv, NEW s \in Streams, Busy(s), NEW stage \in {"reading", "failed"},
         Release(s, stage)
  PROVE  LockInv'
<1>1. PumpType'
  BY DEF LockInv, PumpType, Release, AtStage, PumpStages
<1>2. \A t \in Streams : ~Busy(t)'
  BY DEF LockInv, PumpType, OneDialog, Release, AtStage, Busy
<1> QED BY <1>1, <1>2 DEF LockInv, OneDialog, LockHeld, Release

LEMMA FoundStep ==
  ASSUME LockInv, NEW s \in Streams, lock = None, Found(s)
  PROVE  LockInv'
<1>1. PumpType'
  BY DEF LockInv, PumpType, Found, AtStage, PumpStages
<1>2. \A t \in Streams : Busy(t)' => t = s
  BY RunnerAssumption DEF LockInv, PumpType, OneDialog, Found, AtStage, Busy
<1>3. Busy(s)'
  BY DEF LockInv, PumpType, Found, AtStage, Busy
<1> QED BY <1>1, <1>2, <1>3 DEF LockInv, OneDialog, LockHeld, Found

LEMMA Unchanged ==
  ASSUME LockInv, UNCHANGED <<pump, lock>>
  PROVE  LockInv'
BY DEF LockInv, PumpType, OneDialog, LockHeld, Busy

-----------------------------------------------------------------------------

LEMMA InitLock == Init => LockInv
BY DEF Init, LockInv, PumpType, PumpStages, OneDialog, LockHeld, Busy

LEMMA NextLock ==
  ASSUME LockInv, [Next]_vars
  PROVE  LockInv'
<1>1. CASE UNCHANGED vars
  BY <1>1, Unchanged DEF vars, pumpVars
<1>2. CASE CmdStep \/ Cancel \/ Kill \/ Return
  BY <1>2, Unchanged DEF CmdStep, WriteText, Ask, AskFirstHalf, AskSecondHalf, ReadLine,
     ExitCmd, Cancel, Kill, Return, pumpVars
<1>3. ASSUME NEW s \in Streams, PumpStep(s) PROVE LockInv'
  <2>1. CASE ReadChunk(s)
    BY <2>1, QuietStep DEF ReadChunk, Busy, PumpStages
  <2>2. CASE ReadEnd(s)
    BY <2>2, QuietStep DEF ReadEnd, Busy, PumpStages
  <2>3. CASE CancelPump(s)
    BY <2>3, QuietStep DEF CancelPump, Busy, PumpStages
  <2>4. CASE Check(s)
    <3>1. CASE Found(s)
      BY <2>4, <3>1, FoundStep DEF Check
    <3>2. CASE ~Found(s)
      BY <2>4, <3>2, QuietStep DEF Check, Busy, PumpStages
    <3> QED BY <3>1, <3>2
  <2>5. CASE ClearRecent(s)
    BY <2>5, DialogStep DEF ClearRecent, Busy
  <2>6. CASE SendLine(s)
    BY <2>6, ReleaseStep DEF SendLine, Busy
  <2>7. CASE SendFails(s)
    BY <2>7, ReleaseStep DEF SendFails, Busy
  <2> QED BY <1>3, <2>1, <2>2, <2>3, <2>4, <2>5, <2>6, <2>7 DEF PumpStep
<1>4. ASSUME NEW s \in Streams, Answer(s) PROVE LockInv'
  BY <1>4, DialogStep DEF Answer, Busy
<1>5. ASSUME NEW s \in Streams, Refuse(s) PROVE LockInv'
  BY <1>5, ReleaseStep DEF Refuse, Busy
<1> QED BY <1>1, <1>2, <1>3, <1>4, <1>5 DEF Next

\* At most one pump puts a question to the user at any time, for every length
\* of the recent text and of the pipes and whatever SteamCMD writes.
THEOREM RunnerOneDialog == Spec => []OneDialog
<1>1. LockInv => OneDialog
  BY DEF LockInv
<1>2. LockInv /\ [Next]_vars => LockInv'
  BY NextLock
<1> QED BY <1>1, <1>2, InitLock, PTL DEF Spec

-----------------------------------------------------------------------------
(* One question at a time *)

\* The tokens no question ends with, and those of the question SteamCMD has asked.
Quiet == {"pass", "text"}
TokensOf(kind) ==
  Quiet \cup (IF kind = "password" THEN {"password", "word"} ELSE {})
        \cup (IF kind = "guard" THEN {"guard"} ELSE {})

TypeOK ==
  /\ cmd \in {"running", "asking", "waiting", "exited"} /\ question \in Kinds \cup {None}
  /\ pipe \in [Streams -> Seq(Tokens)] /\ recent \in Seq(Tokens)
  /\ stdin \in Seq(Kinds) /\ asked \in [Streams -> Kinds \cup {None}]
  /\ lines \in Seq([asked : Kinds \cup {None}, got : Kinds]) /\ asks \in Nat

\* Where a question is that SteamCMD asked and that has no answer yet.
Open ==
  \/ recent \notin Seq(Quiet) \/ pipe["out"] \notin Seq(Quiet)
  \/ stdin # <<>> \/ \E s \in Streams : Busy(s)

Question ==
  /\ cmd = "running" => question = None /\ asks = Len(lines)
  /\ cmd = "asking" => question = "password"
  /\ cmd = "waiting" => question \in Kinds
  /\ cmd \in {"asking", "waiting"} => asks = Len(lines) + 1
  /\ Len(lines) <= asks
  /\ Open => cmd \in {"waiting", "exited"} /\ asks = Len(lines) + 1

\* A question is the last that SteamCMD wrote, so that it is in one place only.
Texts ==
  /\ pipe["err"] \in Seq(Quiet)
  /\ \A i \in 1 .. Len(pipe["out"]) : pipe["out"][i] \notin Quiet => i = Len(pipe["out"])
  /\ recent \in Seq(Quiet) \/ pipe["out"] \in Seq(Quiet)
  /\ cmd # "exited" => recent \in Seq(TokensOf(question)) /\ pipe["out"] \in Seq(TokensOf(question))

Answers ==
  /\ \A i \in 1 .. Len(lines) : lines[i].got = lines[i].asked
  /\ stdin # <<>> =>
       /\ Len(stdin) = 1 /\ \A s \in Streams : ~Busy(s)
       /\ recent \in Seq(Quiet) /\ pipe["out"] \in Seq(Quiet)
       /\ cmd = "waiting" => stdin[1] = question
  /\ \A s \in Streams : Busy(s) =>
       /\ pipe["out"] \in Seq(Quiet)
       /\ pump[s] # "found" => recent \in Seq(Quiet)
       /\ asked[s] \in Kinds /\ (cmd = "waiting" => asked[s] = question)

\* A pump that reached the end has read everything that is ever written.
Drained ==
  /\ \A s \in Streams : pump[s] = "ended" => pipe[s] = <<>> /\ cmd = "exited"
  /\ run = "ok" => \A s \in Streams : pump[s] = "ended"

IInv == LockInv /\ TypeOK /\ Question /\ Texts /\ Answers /\ Drained

USE RunnerAssumption
USE DEF Streams, Kinds, Tokens, PumpStages, Quiet

LEMMA AppendToken ==
  ASSUME NEW S, NEW q \in Seq(S), NEW x \in S
  PROVE  q \o <<x>> \in Seq(S)
OBVIOUS

\* A token that is added to others none of which ends a question.
LEMMA AppendLast ==
  ASSUME NEW q \in Seq(Quiet), NEW x
  PROVE  \A i \in 1 .. Len(q \o <<x>>) : (q \o <<x>>)[i] \notin Quiet => i = Len(q \o <<x>>)
<1>1. Len(q \o <<x>>) = Len(q) + 1 /\ \A i \in 1 .. Len(q) : (q \o <<x>>)[i] = q[i]
  OBVIOUS
<1>2. \A i \in 1 .. Len(q) : q[i] \in Quiet
  OBVIOUS
<1> QED BY <1>1, <1>2

LEMMA PartOf ==
  ASSUME NEW S, NEW q \in Seq(S), NEW m \in 1 .. Len(q) + 1, NEW n \in 0 .. Len(q)
  PROVE  SubSeq(q, m, n) \in Seq(S)
OBVIOUS

LEMMA RecentOf ==
  ASSUME NEW S, recent \in Seq(S), NEW chunk \in Seq(S)
  PROVE  Recent(chunk) \in Seq(S)
<1> DEFINE all == recent \o chunk
           over == Len(all) - RecentTextLimit
<1>1. all \in Seq(S) /\ Len(all) \in Nat
  OBVIOUS
<1>2. RecentTextLimit \in Nat
  BY DEF RecentTextLimit
<1> HIDE DEF all
<1>3. over > 0 => SubSeq(all, over + 1, Len(all)) \in Seq(S)
  BY <1>1, <1>2, PartOf
<1> QED BY <1>1, <1>3 DEF Recent, all

\* Reading moves tokens from the pipe to the recent text.
LEMMA ReadTokens ==
  ASSUME TypeOK, NEW s \in Streams, ReadChunk(s),
         NEW S, recent \in Seq(S), pipe[s] \in Seq(S)
  PROVE  recent' \in Seq(S) /\ pipe'[s] \in Seq(S)
<1>1. PICK n \in 1 .. Len(pipe[s]) :
        /\ recent' = Recent(SubSeq(pipe[s], 1, n))
        /\ pipe' = [pipe EXCEPT ![s] = SubSeq(@, n + 1, Len(@))]
  BY DEF ReadChunk
<1>2. Len(pipe[s]) \in Nat /\ n + 1 \in 1 .. Len(pipe[s]) + 1 /\ n \in 0 .. Len(pipe[s])
  OBVIOUS
<1>3. SubSeq(pipe[s], 1, n) \in Seq(S) /\ SubSeq(pipe[s], n + 1, Len(pipe[s])) \in Seq(S)
  BY <1>2, PartOf
<1>4. pipe'[s] = SubSeq(pipe[s], n + 1, Len(pipe[s]))
  BY <1>1 DEF TypeOK
<1> QED BY <1>1, <1>3, <1>4, RecentOf

LEMMA ReadOthers ==
  ASSUME TypeOK, LockInv, NEW s \in Streams, ReadChunk(s)
  PROVE  /\ \A t \in Streams \ {s} : pipe'[t] = pipe[t]
         /\ DOMAIN pipe' = Streams
         /\ \A t \in Streams : Busy(t)' = Busy(t) /\ (Busy(t) => pump'[t] = pump[t])
BY DEF TypeOK, LockInv, PumpType, ReadChunk, AtStage, Busy

\* The end of a question is read last.
LEMMA ReadLast ==
  ASSUME TypeOK, NEW s \in Streams, ReadChunk(s), recent \in Seq(Quiet),
         \A i \in 1 .. Len(pipe[s]) : pipe[s][i] \notin Quiet => i = Len(pipe[s])
  PROVE  /\ recent' \in Seq(Quiet) \/ pipe'[s] = <<>>
         /\ \A i \in 1 .. Len(pipe'[s]) : pipe'[s][i] \notin Quiet => i = Len(pipe'[s])
<1>1. PICK n \in 1 .. Len(pipe[s]) :
        /\ recent' = Recent(SubSeq(pipe[s], 1, n))
        /\ pipe' = [pipe EXCEPT ![s] = SubSeq(@, n + 1, Len(@))]
  BY DEF ReadChunk
<1>2. pipe'[s] = SubSeq(pipe[s], n + 1, Len(pipe[s])) /\ pipe[s] \in Seq(Tokens)
  BY <1>1 DEF TypeOK
<1>3. CASE n = Len(pipe[s])
  <2>1. pipe'[s] = <<>>
    BY <1>2, <1>3
  <2> QED BY <2>1
<1>4. CASE n < Len(pipe[s])
  <2>1. SubSeq(pipe[s], 1, n) \in Seq(Quiet)
    BY <1>2, <1>4
  <2>2. /\ Len(pipe'[s]) = Len(pipe[s]) - n
        /\ \A i \in 1 .. Len(pipe'[s]) : pipe'[s][i] = pipe[s][i + n]
    BY <1>2, <1>4
  <2>3. \A i \in 1 .. Len(pipe'[s]) : i + n \in 1 .. Len(pipe[s])
    BY <1>2, <1>4, <2>2
  <2>4. \A i \in 1 .. Len(pipe'[s]) : pipe'[s][i] \notin Quiet => i + n = Len(pipe[s])
    BY <2>2, <2>3
  <2>5. \A i \in 1 .. Len(pipe'[s]) : pipe'[s][i] \notin Quiet => i = Len(pipe'[s])
    BY <1>2, <2>2, <2>4
  <2> QED BY <1>1, <2>1, <2>5, RecentOf
<1> QED BY <1>2, <1>3, <1>4

\* A pipe without questions stays so.
LEMMA ReadPipe ==
  ASSUME TypeOK, NEW s \in Streams, ReadChunk(s), NEW t \in Streams, pipe[t] \in Seq(Quiet)
  PROVE  pipe'[t] \in Seq(Quiet)
<1>1. PICK n \in 1 .. Len(pipe[s]) : pipe' = [pipe EXCEPT ![s] = SubSeq(@, n + 1, Len(@))]
  BY DEF ReadChunk
<1>2. CASE t # s
  BY <1>1, <1>2 DEF TypeOK
<1>3. CASE t = s
  <2>1. pipe'[t] = SubSeq(pipe[t], n + 1, Len(pipe[t]))
    BY <1>1, <1>3 DEF TypeOK
  <2>2. n + 1 \in 1 .. Len(pipe[t]) + 1 /\ Len(pipe[t]) \in 0 .. Len(pipe[t])
    BY <1>3 DEF TypeOK
  <2> QED BY <2>1, <2>2, PartOf
<1> QED BY <1>2, <1>3

\* What is detected is the question that was asked.
LEMMA DetectedQuestion ==
  ASSUME recent \in Seq(Tokens), NEW kind \in Kinds, Detected = kind
  PROVE  /\ recent \notin Seq(Quiet)
         /\ \A k : recent \in Seq(TokensOf(k)) => k = kind
<1>1. PICK i \in 1 .. Len(recent) :
        recent[i] \in (IF kind = "password" THEN {"password", "word"} ELSE {"guard"})
  <2>1. CASE Contains(recent, kind)
    BY <2>1 DEF Contains
  <2>2. CASE kind = "password" /\
             \E j \in 1 .. Len(recent) - 1 : SubSeq(recent, j, j + 1) = <<"pass", "word">>
    <3>1. PICK j \in 1 .. Len(recent) - 1 : SubSeq(recent, j, j + 1) = <<"pass", "word">>
      BY <2>2
    <3>2. SubSeq(recent, j, j + 1)[2] = recent[j + 1] /\ j + 1 \in 1 .. Len(recent)
      OBVIOUS
    <3>3. <<"pass", "word">>[2] = "word"
      OBVIOUS
    <3>4. recent[j + 1] = "word"
      BY <3>1, <3>2, <3>3
    <3> QED BY <2>2, <3>2, <3>4
  <2>3. Contains(recent, kind) \/
        (kind = "password" /\
         \E j \in 1 .. Len(recent) - 1 : SubSeq(recent, j, j + 1) = <<"pass", "word">>)
    BY DEF Detected, LooksLikePasswordPrompt, LooksLikeSteamGuardPrompt
  <2> QED BY <2>1, <2>2, <2>3
<1>2. \A S : recent \in Seq(S) => recent[i] \in S
  OBVIOUS
<1> QED BY <1>1, <1>2 DEF TokensOf

LEMMA DetectedKind == Detected \in Kinds \cup {None}
BY DEF Detected

\* Either nothing is found and the pump goes on or fails, or the question is its own.
LEMMA CheckCases ==
  ASSUME LockInv, TypeOK, NEW s \in Streams, Check(s)
  PROVE  \/ /\ UNCHANGED <<asked, lock>> /\ \A t \in Streams : Busy(t)' = Busy(t)
            /\ \A t \in Streams : Busy(t) => pump'[t] = pump[t]
         \/ /\ recent \notin Seq(Quiet)
            /\ pump' = [pump EXCEPT ![s] = "found"] /\ lock' = s
            /\ \E kind \in Kinds :
                 /\ asked' = [asked EXCEPT ![s] = kind]
                 /\ \A k : recent \in Seq(TokensOf(k)) => k = kind
<1>1. CASE Found(s)
  BY <1>1, DetectedKind, DetectedQuestion DEF Found, AtStage, TypeOK
<1>2. CASE ~Found(s)
  BY <1>2 DEF Check, LockInv, PumpType, AtStage, Busy
<1> QED BY <1>1, <1>2

-----------------------------------------------------------------------------
(* Types *)

LEMMA TypeOKCmd ==
  ASSUME LockInv, TypeOK, Answers, CmdStep \/ Kill
  PROVE  TypeOK'
<1> USE DEF LockInv, TypeOK, PumpType, pumpVars
<1>1. ASSUME NEW s \in Streams, WriteText(s)
      PROVE  TypeOK'
  BY <1>1 DEF WriteText, Write
<1>2. ASSUME NEW kind \in Kinds, Ask(kind)
      PROVE  TypeOK'
  BY <1>2 DEF Ask, Write
<1>3. CASE AskFirstHalf
  BY <1>3 DEF AskFirstHalf, Write
<1>4. CASE AskSecondHalf
  BY <1>4 DEF AskSecondHalf, Write
<1>5. CASE ReadLine
  BY <1>5 DEF ReadLine
<1>6. CASE ExitCmd
  BY <1>6 DEF ExitCmd, Gone
<1>7. CASE Kill
  BY <1>7 DEF Kill, Gone
<1> QED BY <1>1, <1>2, <1>3, <1>4, <1>5, <1>6, <1>7 DEF CmdStep

LEMMA TypeOKPump ==
  ASSUME LockInv, TypeOK, Answers, NEW s \in Streams,
         PumpStep(s) \/ Answer(s) \/ Refuse(s)
  PROVE  TypeOK'
<1> USE DEF LockInv, TypeOK, PumpType, AtStage, RunnerFrame, cmdVars
<1>1. CASE ReadChunk(s)
  <2>1. recent' \in Seq(Tokens) /\ pipe'[s] \in Seq(Tokens)
    BY <1>1, ReadTokens
  <2>2. pipe' \in [Streams -> Seq(Tokens)]
    BY <1>1, <2>1, ReadOthers DEF ReadChunk
  <2> QED BY <1>1, <2>1, <2>2 DEF ReadChunk
<1>2. CASE ReadEnd(s)
  BY <1>2 DEF ReadEnd
<1>3. CASE CancelPump(s)
  BY <1>3 DEF CancelPump
<1>4. CASE Check(s)
  <2>1. asked' \in [Streams -> Kinds \cup {None}]
    BY <1>4, CheckCases
  <2> QED BY <1>4, <2>1 DEF Check
<1>5. CASE ClearRecent(s)
  BY <1>5 DEF ClearRecent
<1>6. CASE SendLine(s)
  <2>1. asked[s] \in Kinds
    BY <1>6 DEF SendLine, Answers, Busy
  <2>2. stdin' \in Seq(Kinds)
    BY <1>6, <2>1 DEF SendLine
  <2> QED BY <1>6, <2>2 DEF SendLine, Release
<1>7. CASE SendFails(s)
  BY <1>7 DEF SendFails, Release
<1>8. CASE Answer(s)
  BY <1>8 DEF Answer
<1>9. CASE Refuse(s)
  BY <1>9 DEF Refuse, Release
<1> QED BY <1>1, <1>2, <1>3, <1>4, <1>5, <1>6, <1>7, <1>8, <1>9 DEF PumpStep

LEMMA TypeOKRun ==
  ASSUME LockInv, TypeOK, Answers, Cancel \/ Return
  PROVE  TypeOK'
<1> USE DEF LockInv, TypeOK, PumpType, cmdVars, pumpVars
<1>1. CASE Cancel
  BY <1>1 DEF Cancel
<1>2. CASE Return
  BY <1>2 DEF Return
<1> QED BY <1>1, <1>2

-----------------------------------------------------------------------------
(* Questions asked and lines read *)

LEMMA QuestionCmd ==
  ASSUME LockInv, TypeOK, Question, Texts, Answers, CmdStep \/ Kill
  PROVE  Question'
<1> USE DEF LockInv, TypeOK, Question, Texts, Answers, PumpType, Open, Busy, pumpVars
<1>1. ASSUME NEW s \in Streams, WriteText(s)
      PROVE  Question'
  <2>1. ~Open
    BY <1>1 DEF WriteText
  <2>2. pipe'["out"] \in Seq(Quiet)
    BY <1>1, <2>1, AppendToken DEF WriteText, Write
  <2>3. ~Open'
    BY <1>1, <2>1, <2>2 DEF WriteText, Write
  <2> QED BY <1>1, <2>3 DEF WriteText
<1>2. ASSUME NEW kind \in Kinds, Ask(kind)
      PROVE  Question'
  BY <1>2 DEF Ask, Write
<1>3. CASE AskFirstHalf
  BY <1>3 DEF AskFirstHalf, Write
<1>4. CASE AskSecondHalf
  BY <1>4 DEF AskSecondHalf, Write
<1>5. CASE ReadLine
  BY <1>5 DEF ReadLine
<1>6. CASE ExitCmd
  BY <1>6 DEF ExitCmd, Gone
<1>7. CASE Kill
  BY <1>7 DEF Kill, Gone
<1> QED BY <1>1, <1>2, <1>3, <1>4, <1>5, <1>6, <1>7 DEF CmdStep

LEMMA QuestionPump ==
  ASSUME LockInv, TypeOK, Question, Texts, Answers, NEW s \in Streams,
         PumpStep(s) \/ Answer(s) \/ Refuse(s)
  PROVE  Question'
<1> USE DEF LockInv, TypeOK, Question, Texts, Answers, PumpType, Open, Busy, AtStage,
            RunnerFrame, cmdVars
<1>1. CASE ReadChunk(s)
  <2>1. Open' => Open
    BY <1>1, ReadTokens, ReadOthers DEF ReadChunk
  <2> QED BY <1>1, <2>1 DEF ReadChunk
<1>2. CASE ReadEnd(s)
  BY <1>2 DEF ReadEnd
<1>3. CASE CancelPump(s)
  BY <1>3 DEF CancelPump
<1>4. CASE Check(s)
  <2>1. Open' => Open
    BY <1>4, CheckCases DEF Check
  <2> QED BY <1>4, <2>1 DEF Check
<1>5. CASE ClearRecent(s)
  BY <1>5 DEF ClearRecent
<1>6. CASE SendLine(s)
  BY <1>6 DEF SendLine, Release
<1>7. CASE SendFails(s)
  BY <1>7 DEF SendFails, Release
<1>8. CASE Answer(s)
  BY <1>8 DEF Answer
<1>9. CASE Refuse(s)
  BY <1>9 DEF Refuse, Release
<1> QED BY <1>1, <1>2, <1>3, <1>4, <1>5, <1>6, <1>7, <1>8, <1>9 DEF PumpStep

LEMMA QuestionRun ==
  ASSUME LockInv, TypeOK, Question, Texts, Answers, Cancel \/ Return
  PROVE  Question'
<1> USE DEF LockInv, TypeOK, Question, Texts, Answers, PumpType, Open, Busy, cmdVars, pumpVars
<1>1. CASE Cancel
  BY <1>1 DEF Cancel
<1>2. CASE Return
  BY <1>2 DEF Return
<1> QED BY <1>1, <1>2

-----------------------------------------------------------------------------
(* Where the text of a question is *)

LEMMA TextsCmd ==
  ASSUME LockInv, TypeOK, Question, Texts, Answers, CmdStep \/ Kill
  PROVE  Texts'
<1> USE DEF LockInv, TypeOK, Question, Texts, Answers, PumpType, Open, Busy, TokensOf, pumpVars
<1>1. ASSUME NEW s \in Streams, WriteText(s)
      PROVE  Texts'
  <2>1. ~Open
    BY <1>1 DEF WriteText
  <2>2. /\ pipe'["out"] \in Seq(Quiet) /\ pipe'["err"] \in Seq(Quiet)
        /\ recent' \in Seq(Quiet)
    BY <1>1, <2>1, AppendToken DEF WriteText, Write
  <2>3. pipe'["out"] \in Seq(TokensOf(question)) /\ recent \in Seq(TokensOf(question))
    BY <1>1, <2>2, AppendToken DEF WriteText, Write
  <2> QED BY <1>1, <2>2, <2>3 DEF WriteText
<1>2. ASSUME NEW kind \in Kinds, Ask(kind)
      PROVE  Texts'
  <2>1. ~Open
    BY <1>2 DEF Ask
  <2>2. /\ pipe'["out"] = pipe["out"] \o <<kind>> /\ pipe'["err"] = pipe["err"]
        /\ recent' = recent /\ question' = kind
    BY <1>2 DEF Ask, Write
  <2>3. kind \in TokensOf(kind) /\ Quiet \subseteq TokensOf(kind)
    OBVIOUS
  <2>4. pipe["out"] \in Seq(TokensOf(kind)) /\ recent \in Seq(TokensOf(kind))
    BY <2>1, <2>3
  <2>5. pipe'["out"] \in Seq(TokensOf(kind))
    BY <2>2, <2>3, <2>4, AppendToken
  <2>6. \A i \in 1 .. Len(pipe'["out"]) : pipe'["out"][i] \notin Quiet => i = Len(pipe'["out"])
    BY <2>1, <2>2, AppendLast
  <2> QED BY <2>1, <2>2, <2>4, <2>5, <2>6
<1>3. CASE AskFirstHalf
  BY <1>3 DEF AskFirstHalf, Write
<1>4. CASE AskSecondHalf
  BY <1>4 DEF AskSecondHalf, Write
<1>5. CASE ReadLine
  BY <1>5 DEF ReadLine
<1>6. CASE ExitCmd
  BY <1>6 DEF ExitCmd, Gone
<1>7. CASE Kill
  BY <1>7 DEF Kill, Gone
<1> QED BY <1>1, <1>2, <1>3, <1>4, <1>5, <1>6, <1>7 DEF CmdStep

LEMMA TextsPump ==
  ASSUME LockInv, TypeOK, Question, Texts, Answers, NEW s \in Streams,
         PumpStep(s) \/ Answer(s) \/ Refuse(s)
  PROVE  Texts'
<1> USE DEF LockInv, TypeOK, Question, Texts, Answers, PumpType, Open, Busy, TokensOf, AtStage,
            RunnerFrame, cmdVars
<1>1. CASE ReadChunk(s)
  <2>1. UNCHANGED <<cmd, question>> /\ \A t \in Streams \ {s} : pipe'[t] = pipe[t]
    BY <1>1, ReadOthers DEF ReadChunk
  <2>2. pipe'["err"] \in Seq(Quiet)
    BY <1>1, <2>1, ReadPipe
  <2>3. cmd # "exited" =>
          recent' \in Seq(TokensOf(question)) /\ pipe'["out"] \in Seq(TokensOf(question))
    <3>1. pipe["err"] \in Seq(TokensOf(question))
      OBVIOUS
    <3> HIDE DEF TokensOf
    <3>2. cmd # "exited" =>
            recent' \in Seq(TokensOf(question)) /\ pipe'[s] \in Seq(TokensOf(question))
      BY <1>1, <3>1, ReadTokens
    <3> QED BY <2>1, <3>2
  <2>4. /\ recent' \in Seq(Quiet) \/ pipe'["out"] \in Seq(Quiet)
        /\ \A i \in 1 .. Len(pipe'["out"]) : pipe'["out"][i] \notin Quiet => i = Len(pipe'["out"])
    <3>1. CASE s = "out" /\ recent \in Seq(Quiet)
      <4>1. /\ recent' \in Seq(Quiet) \/ pipe'["out"] = <<>>
            /\ \A i \in 1 .. Len(pipe'["out"]) :
                 pipe'["out"][i] \notin Quiet => i = Len(pipe'["out"])
        BY <1>1, <3>1, ReadLast
      <4>2. <<>> \in Seq(Quiet)
        OBVIOUS
      <4> QED BY <4>1, <4>2
    <3>2. CASE s = "out" /\ pipe["out"] \in Seq(Quiet)
      <4>1. pipe'["out"] \in Seq(Quiet)
        BY <1>1, <3>2, ReadPipe
      <4>2. \A i \in 1 .. Len(pipe'["out"]) : pipe'["out"][i] \in Quiet
        BY <4>1
      <4> QED BY <4>1, <4>2
    <3>3. CASE s = "err"
      <4>1. recent \in Seq(Quiet) => recent' \in Seq(Quiet)
        BY <1>1, <3>3, ReadTokens
      <4> QED BY <2>1, <3>3, <4>1
    <3> QED BY <3>1, <3>2, <3>3
  <2> HIDE DEF TokensOf
  <2> QED BY <2>1, <2>2, <2>3, <2>4
<1>2. CASE ReadEnd(s)
  BY <1>2 DEF ReadEnd
<1>3. CASE CancelPump(s)
  BY <1>3 DEF CancelPump
<1>4. CASE Check(s)
  BY <1>4 DEF Check, Found
<1>5. CASE ClearRecent(s)
  BY <1>5 DEF ClearRecent
<1>6. CASE SendLine(s)
  BY <1>6 DEF SendLine, Release
<1>7. CASE SendFails(s)
  BY <1>7 DEF SendFails, Release
<1>8. CASE Answer(s)
  BY <1>8 DEF Answer
<1>9. CASE Refuse(s)
  BY <1>9 DEF Refuse, Release
<1> QED BY <1>1, <1>2, <1>3, <1>4, <1>5, <1>6, <1>7, <1>8, <1>9 DEF PumpStep

LEMMA TextsRun ==
  ASSUME LockInv, TypeOK, Question, Texts, Answers, Cancel \/ Return
  PROVE  Texts'
<1> USE DEF LockInv, TypeOK, Question, Texts, Answers, PumpType, Open, Busy, TokensOf, cmdVars,
            pumpVars
<1>1. CASE Cancel
  BY <1>1 DEF Cancel
<1>2. CASE Return
  BY <1>2 DEF Return
<1> QED BY <1>1, <1>2

-----------------------------------------------------------------------------
(* Dialogs and lines *)

LEMMA AnswersCmd ==
  ASSUME LockInv, TypeOK, Question, Texts, Answers, CmdStep \/ Kill
  PROVE  Answers'
<1> USE DEF LockInv, TypeOK, Question, Texts, Answers, PumpType, OneDialog, Open, Busy,
            TokensOf, pumpVars
<1>1. ASSUME NEW s \in Streams, WriteText(s)
      PROVE  Answers'
  BY <1>1 DEF WriteText, Write
<1>2. ASSUME NEW kind \in Kinds, Ask(kind)
      PROVE  Answers'
  BY <1>2 DEF Ask, Write
<1>3. CASE AskFirstHalf
  BY <1>3 DEF AskFirstHalf, Write
<1>4. CASE AskSecondHalf
  BY <1>4 DEF AskSecondHalf, Write
<1>5. CASE ReadLine
  <2>1. Head(stdin) = question /\ Tail(stdin) = <<>>
    BY <1>5 DEF ReadLine
  <2>2. lines' = Append(lines, [asked |-> question, got |-> question])
    BY <1>5, <2>1 DEF ReadLine
  <2>3. \A i \in 1 .. Len(lines') : lines'[i].got = lines'[i].asked
    BY <2>2
  <2> QED BY <1>5, <2>1, <2>3 DEF ReadLine
<1>6. CASE ExitCmd
  BY <1>6 DEF ExitCmd, Gone
<1>7. CASE Kill
  BY <1>7 DEF Kill, Gone
<1> QED BY <1>1, <1>2, <1>3, <1>4, <1>5, <1>6, <1>7 DEF CmdStep

LEMMA AnswersPump ==
  ASSUME LockInv, TypeOK, Question, Texts, Answers, NEW s \in Streams,
         PumpStep(s) \/ Answer(s) \/ Refuse(s)
  PROVE  Answers'
<1> USE DEF LockInv, TypeOK, Question, Texts, Answers, PumpType, OneDialog, Open, Busy,
            TokensOf, AtStage, RunnerFrame, cmdVars
<1>1. CASE ReadChunk(s)
  <2>1. recent \in Seq(Quiet) /\ pipe["out"] \in Seq(Quiet) =>
          recent' \in Seq(Quiet) /\ pipe'["out"] \in Seq(Quiet)
    BY <1>1, ReadTokens, ReadOthers
  <2>2. pipe["out"] \in Seq(Quiet) => pipe'["out"] \in Seq(Quiet)
    BY <1>1, ReadPipe
  <2>3. \A t \in Streams : Busy(t)' = Busy(t) /\ (Busy(t) => pump'[t] = pump[t])
    BY <1>1, ReadOthers
  <2>4. UNCHANGED <<lines, stdin, cmd, question, asked>>
    BY <1>1 DEF ReadChunk
  <2> HIDE DEF Busy
  <2> QED BY <2>1, <2>2, <2>3, <2>4
<1>2. CASE ReadEnd(s)
  BY <1>2 DEF ReadEnd
<1>3. CASE CancelPump(s)
  BY <1>3 DEF CancelPump
<1>4. CASE Check(s)
  <2>1. UNCHANGED <<lines, stdin, cmd, question, recent, pipe>>
    BY <1>4 DEF Check
  <2>2. CASE /\ UNCHANGED asked /\ \A t \in Streams : Busy(t)' = Busy(t)
             /\ \A t \in Streams : Busy(t) => pump'[t] = pump[t]
    <3> HIDE DEF Busy
    <3> QED BY <2>1, <2>2
  <2>3. CASE /\ recent \notin Seq(Quiet)
             /\ pump' = [pump EXCEPT ![s] = "found"] /\ lock' = s
             /\ \E kind \in Kinds :
                  /\ asked' = [asked EXCEPT ![s] = kind]
                  /\ \A k : recent \in Seq(TokensOf(k)) => k = kind
    <3>1. pipe["out"] \in Seq(Quiet) /\ stdin = <<>>
      BY <2>3
    <3>2. \A t \in Streams : t # s => ~Busy(t)
      BY <1>4, <2>3 DEF Check
    <3>3. PICK kind \in Kinds : asked' = [asked EXCEPT ![s] = kind] /\
                                \A k : recent \in Seq(TokensOf(k)) => k = kind
      BY <2>3
    <3>4. cmd = "waiting" => question = kind
      BY <3>3
    <3>5. pump'[s] = "found" /\ asked'[s] = kind
      BY <2>3, <3>3
    <3>6. \A t \in Streams : t # s => ~Busy(t)'
      BY <2>3, <3>2
    <3> QED BY <2>1, <3>1, <3>3, <3>4, <3>5, <3>6
  <2> QED BY <1>4, <2>2, <2>3, CheckCases
<1>5. CASE ClearRecent(s)
  BY <1>5 DEF ClearRecent
<1>6. CASE SendLine(s)
  BY <1>6 DEF SendLine, Release
<1>7. CASE SendFails(s)
  BY <1>7 DEF SendFails, Release
<1>8. CASE Answer(s)
  BY <1>8 DEF Answer
<1>9. CASE Refuse(s)
  BY <1>9 DEF Refuse, Release
<1> QED BY <1>1, <1>2, <1>3, <1>4, <1>5, <1>6, <1>7, <1>8, <1>9 DEF PumpStep

LEMMA AnswersRun ==
  ASSUME LockInv, TypeOK, Question, Texts, Answers, Cancel \/ Return
  PROVE  Answers'
<1> USE DEF LockInv, TypeOK, Question, Texts, Answers, PumpType, OneDialog, Open, Busy,
            TokensOf, cmdVars, pumpVars
<1>1. CASE Cancel
  BY <1>1 DEF Cancel
<1>2. CASE Return
  BY <1>2 DEF Return
<1> QED BY <1>1, <1>2

-----------------------------------------------------------------------------
(* The end of the streams *)

LEMMA DrainedCmd ==
  ASSUME LockInv, TypeOK, Drained, CmdStep \/ Kill
  PROVE  Drained'
<1> USE DEF LockInv, TypeOK, Drained, PumpType, pumpVars
<1>1. ASSUME NEW s \in Streams, WriteText(s)
      PROVE  Drained'
  BY <1>1 DEF WriteText, Write
<1>2. ASSUME NEW kind \in Kinds, Ask(kind)
      PROVE  Drained'
  BY <1>2 DEF Ask, Write
<1>3. CASE AskFirstHalf
  BY <1>3 DEF AskFirstHalf, Write
<1>4. CASE AskSecondHalf
  BY <1>4 DEF AskSecondHalf, Write
<1>5. CASE ReadLine
  BY <1>5 DEF ReadLine
<1>6. CASE ExitCmd
  BY <1>6 DEF ExitCmd, Gone
<1>7. CASE Kill
  BY <1>7 DEF Kill, Gone
<1> QED BY <1>1, <1>2, <1>3, <1>4, <1>5, <1>6, <1>7 DEF CmdStep

LEMMA DrainedPump ==
  ASSUME LockInv, TypeOK, Drained, NEW s \in Streams,
         PumpStep(s) \/ Answer(s) \/ Refuse(s)
  PROVE  Drained'
<1> USE DEF LockInv, TypeOK, Drained, PumpType, AtStage, RunnerFrame, cmdVars
<1>1. CASE ReadChunk(s)
  BY <1>1 DEF ReadChunk
<1>2. CASE ReadEnd(s)
  BY <1>2 DEF ReadEnd
<1>3. CASE CancelPump(s)
  BY <1>3 DEF CancelPump
<1>4. CASE Check(s)
  BY <1>4 DEF Check, Found
<1>5. CASE ClearRecent(s)
  BY <1>5 DEF ClearRecent
<1>6. CASE SendLine(s)
  BY <1>6 DEF SendLine, Release
<1>7. CASE SendFails(s)
  BY <1>7 DEF SendFails, Release
<1>8. CASE Answer(s)
  BY <1>8 DEF Answer
<1>9. CASE Refuse(s)
  BY <1>9 DEF Refuse, Release
<1> QED BY <1>1, <1>2, <1>3, <1>4, <1>5, <1>6, <1>7, <1>8, <1>9 DEF PumpStep

LEMMA DrainedRun ==
  ASSUME LockInv, TypeOK, Drained, Cancel \/ Return
  PROVE  Drained'
<1> USE DEF LockInv, TypeOK, Drained, PumpType, cmdVars, pumpVars
<1>1. CASE Cancel
  BY <1>1 DEF Cancel
<1>2. CASE Return
  BY <1>2 DEF Return
<1> QED BY <1>1, <1>2

-----------------------------------------------------------------------------
(* The invariant *)

LEMMA InitIInv == Init => IInv
<1> SUFFICES ASSUME Init PROVE IInv
  OBVIOUS
<1>1. LockInv
  BY InitLock
<1>2. TypeOK
  BY DEF Init, TypeOK
<1>3. ~Open /\ \A s \in Streams : ~Busy(s)
  BY DEF Init, Open, Busy
<1>4. Question
  BY <1>3 DEF Init, Question
<1>5. Texts
  BY DEF Init, Texts
<1>6. Answers /\ Drained
  BY <1>3 DEF Init, Answers, Drained
<1> QED BY <1>1, <1>2, <1>4, <1>5, <1>6 DEF IInv

LEMMA SameIInv ==
  ASSUME IInv, UNCHANGED vars
  PROVE  IInv'
<1> USE DEF vars, cmdVars, pumpVars, Busy
<1>1. LockInv' /\ TypeOK'
  BY DEF IInv, LockInv, PumpType, OneDialog, LockHeld, TypeOK
<1>2. Question' /\ Texts'
  BY DEF IInv, Question, Open, Texts
<1>3. Answers' /\ Drained'
  BY DEF IInv, Answers, Drained
<1> QED BY <1>1, <1>2, <1>3 DEF IInv

LEMMA StepIInv ==
  ASSUME IInv, [Next]_vars
  PROVE  IInv'
<1> USE DEF IInv
<1>1. LockInv'
  BY NextLock
<1>2. CASE CmdStep \/ Kill
  BY <1>1, <1>2, TypeOKCmd, QuestionCmd, TextsCmd, AnswersCmd, DrainedCmd
<1>3. ASSUME NEW s \in Streams, PumpStep(s) \/ Answer(s) \/ Refuse(s)
      PROVE  IInv'
  BY <1>1, <1>3, TypeOKPump, QuestionPump, TextsPump, AnswersPump, DrainedPump
<1>4. CASE Cancel \/ Return
  BY <1>1, <1>4, TypeOKRun, QuestionRun, TextsRun, AnswersRun, DrainedRun
<1> QED BY <1>2, <1>3, <1>4, SameIInv DEF Next

\* The invariant, for any streams and sizes: a question is in one place only, the pipe,
\* the recent text, a dialog or SteamCMD's input, and so is its answer.
THEOREM SpecIInv == Spec => []IInv
BY InitIInv, StepIInv, PTL DEF Spec

\* For any sizes of chunks, recent text and pipes, any other output on both streams and
\* any cancellation: every line SteamCMD reads answers the question it asked, and no
\* question is put to the user or answered twice.
THEOREM RunnerRightAnswer == Spec => []RightAnswer
<1>1. IInv => RightAnswer
  <2> SUFFICES ASSUME IInv PROVE RightAnswer
    OBVIOUS
  <2> USE DEF IInv
  <2>1. \A i \in 1 .. Len(lines) : lines[i].got = lines[i].asked
    BY DEF Answers
  <2> DEFINE busy == {s \in Streams : Busy(s)}
  <2>2. Len(lines) \in Nat /\ Len(stdin) \in Nat /\ asks \in Nat
    BY DEF TypeOK
  <2>3. CASE \A s \in Streams : ~Busy(s)
    <3>1. busy = {}
      BY <2>3
    <3>2. Cardinality(busy) = 0
      BY <3>1, FS_EmptySet
    <3>3. CASE stdin = <<>>
      <4>1. Len(lines) <= asks
        BY DEF Question
      <4> QED BY <2>1, <2>2, <3>2, <3>3, <4>1 DEF RightAnswer
    <3>4. CASE stdin # <<>>
      <4>1. Len(lines) + 1 = asks /\ Len(stdin) = 1
        BY <2>2, <3>4 DEF Answers, Question, Open
      <4> QED BY <2>1, <2>2, <3>2, <4>1 DEF RightAnswer
    <3> QED BY <3>3, <3>4
  <2>4. ASSUME NEW s \in Streams, Busy(s)
        PROVE  RightAnswer
    <3>1. busy = {s}
      BY <2>4 DEF LockInv, OneDialog
    <3>2. Cardinality(busy) = 1
      BY <3>1, FS_Singleton
    <3>3. Len(stdin) = 0
      BY <2>4 DEF Answers
    <3>4. Len(lines) + 1 = asks
      BY <2>2, <2>4 DEF Question, Open
    <3> QED BY <2>1, <2>2, <3>2, <3>3, <3>4 DEF RightAnswer
  <2> QED BY <2>3, <2>4
<1> QED BY <1>1, SpecIInv, PTL

\* A run that reports an exit code has read every token of both streams: a pump ends
\* only at the end of its stream, and SteamCMD writes nothing after its exit.
THEOREM RunnerOutputComplete == Spec => []OutputComplete
<1>1. IInv => OutputComplete
  BY DEF IInv, Drained, OutputComplete
<1> QED BY <1>1, SpecIInv, PTL

=============================================================================

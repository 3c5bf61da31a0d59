----------------------- MODULE SteamPipePublishProofs -----------------------
(***************************************************************************)
(* Proofs about SteamPipePublish.  What a publish reports is right because    *)
(* nobody touches what it stands on once it is said: the payload folder while  *)
(* the helper is at work (PayloadKept, Upload), the item after the last answer *)
(* (Answers: there is no outstanding call any more).  Nothing is left behind    *)
(* because every staging folder has a living owner or is accounted for          *)
(* (Litter).                                                                  *)
(***************************************************************************)
EXTENDS MCPublish, TLAPS

USE PublishAssumption

Work == {"waiting", "staging", "copying"}

TypeOK ==
  /\ phase \in {"idle", "preparing", "running", "cleaning"}
  /\ target \in Ids \cup {None}
  /\ todo \in {<<>>, <<"stage">>, <<"pack">>, <<"stage", "pack">>}
  /\ payload \in {"content"} \cup Temp
  /\ outcome \in Ids \cup {"failed"}
  /\ cancelled \in BOOLEAN
  /\ got \in Ids \cup {None, "failed"} /\ line \in Ids \cup {None, "failed"}
  /\ folder \in [Folders -> {None} \cup SUBSET Files]
  /\ helper \in {"off", "preflight", "reported", "ended", "dead"} \cup Work
  /\ item \in Ids \cup {None}
  /\ call \in {"none", "create", "details", "submit"}
  /\ from \in Folders
  /\ reply \in {"none", "ok", "missing", "failed", "notfound"}
  /\ items \in [Ids -> {None} \cup SUBSET Files]
  /\ made \subseteq Ids /\ left \subseteq Folders
  /\ publishes \in Nat
  /\ helper = "copying" => from \in Stagings /\ folder[from] # None

\* The publisher and the helper: a helper at work belongs to a running publish or to
\* one that was cancelled.
Phases ==
  /\ phase = "preparing" =>
       /\ helper = "off" /\ got = None /\ line = None /\ made = {} /\ left = {}
       /\ \A f \in Stagings : folder[f] = None
  /\ phase \in {"preparing", "running"} => outcome = "failed"
  /\ Alive => phase = "running" \/ (cancelled /\ phase # "preparing")

\* The payload is not made again, and is the content until the publisher cleans up.
PayloadKept ==
  /\ payload = "stage" => todo \in {<<>>, <<"pack">>}
  /\ payload = "pack" => todo = <<>>
  /\ phase # "idle" => folder[payload] = folder["content"] /\ folder["content"] \in {{}, Files}

\* What the helper knows: which items were made, and that it has no call to Steam
\* outstanding unless it waits for one, or died waiting.
Answers ==
  /\ helper = "preflight" => made = {}
  /\ helper = "waiting" => call # "none"
  /\ helper \notin {"waiting", "dead"} => call = "none"
  /\ helper = "waiting" /\ call \in {"create", "details"} => from = payload
  /\ helper = "waiting" /\ call = "create" =>
       /\ target = None
       /\ reply = "none" => made = {}
       /\ reply = "ok" => \E i \in Ids : made = {i}
  /\ helper = "waiting" /\ call = "details" => target \in Ids /\ item = target /\ made = {}
  /\ helper \in {"staging", "copying"} \/ (helper = "waiting" /\ call = "submit") =>
       item \in Ids /\ made = {item} \ {target}
  /\ got # None \/ line # None => call = "none" /\ helper \in {"reported", "ended", "dead"}

\* The item i holds the whole payload and is the only one that may have been made.
Holds(i) == i \in Ids /\ items[i] = Files /\ made = {i} \ {target}

Upload ==
  /\ helper = "waiting" /\ call = "submit" => from \in Stagings \cup {payload}
  /\ phase = "running" =>
       /\ helper \in Work => folder["content"] = Files
       /\ helper = "waiting" /\ call = "submit" =>
            folder[from] = folder["content"] /\ (reply = "ok" => items[item] = Files)
       /\ line \notin {None, "failed"} => Holds(line)
       /\ got \notin {None, "failed"} => Holds(got)
  /\ phase \in {"cleaning", "idle"} /\ outcome # "failed" =>
       Holds(outcome) /\ call = "none" /\ helper \in {"ended", "dead"}

\* A staging folder belongs to the helper that fills or uploads it, or is left over.
Litter ==
  /\ phase = "idle" => Present(Temp) \subseteq left
  /\ \A f \in Stagings : folder[f] # None =>
       f \in left \/ (f = from /\ (helper = "copying" \/ (helper = "waiting" /\ call = "submit")))

IInv == TypeOK /\ Phases /\ PayloadKept /\ Answers /\ Upload /\ Litter

USE DEF Folders, Temp, Stagings, Work

LEMMA TodoTail ==
  ASSUME todo \in {<<>>, <<"stage">>, <<"pack">>, <<"stage", "pack">>}, todo # <<>>
  PROVE  /\ Head(todo) \in Temp
         /\ Tail(todo) \in {<<>>, <<"stage">>, <<"pack">>, <<"stage", "pack">>}
         /\ Head(todo) = "stage" => Tail(todo) \in {<<>>, <<"pack">>}
         /\ Head(todo) = "pack" => Tail(todo) = <<>>
<1>1. CASE todo = <<"stage">>
  BY <1>1
<1>2. CASE todo = <<"pack">>
  BY <1>2
<1>3. CASE todo = <<"stage", "pack">>
  BY <1>3
<1> QED BY <1>1, <1>2, <1>3

-----------------------------------------------------------------------------
(* Types *)

LEMMA TypeOKStart ==
  ASSUME TypeOK,
         NEW id \in Ids \cup {None}, NEW steps \in Preparations,
         NEW content \in {{}, Files}, StartPublish(id, steps, content)
  PROVE  TypeOK'
<1> USE DEF TypeOK
<1>1. /\ target' \in Ids \cup {None}
      /\ todo' \in {<<>>, <<"stage">>, <<"pack">>, <<"stage", "pack">>}
      /\ publishes' \in Nat
  BY DEF StartPublish
<1>2. folder' \in [Folders -> {None} \cup SUBSET Files]
  BY DEF StartPublish
<1>3. /\ phase' = "preparing" /\ payload' = "content" /\ outcome' = "failed"
      /\ cancelled' = FALSE /\ got' = None /\ helper' = "off" /\ item' = None
      /\ line' = None /\ call' = "none" /\ from' = "content" /\ reply' = "none"
      /\ made' = {} /\ left' = {} /\ items' = items
  BY DEF StartPublish
<1> QED BY <1>1, <1>2, <1>3

LEMMA TypeOKPublisher ==
  ASSUME TypeOK, PublisherStep \/ PrepareFails
  PROVE  TypeOK'
<1> USE DEF TypeOK, callVars
<1>1. CASE PrepareFolder
  BY <1>1 DEF PrepareFolder, PrepareFrame
<1>2. ASSUME NEW f \in Files, PrepareFile(f)
      PROVE  TypeOK'
  <2>1. Head(todo) \in Temp /\ folder[Head(todo)] \in SUBSET Files
    BY <1>2, TodoTail DEF PrepareFile
  <2> QED BY <1>2, <2>1 DEF PrepareFile, PrepareFrame
<1>3. CASE Prepared
  <2>1. Tail(todo) \in {<<>>, <<"stage">>, <<"pack">>, <<"stage", "pack">>} /\ Head(todo) \in Temp
    BY <1>3, TodoTail DEF Prepared
  <2> QED BY <1>3, <2>1 DEF Prepared, PrepareFrame
<1>4. CASE PrepareFails
  <2>1. left' \subseteq Folders
    BY <1>4 DEF PrepareFails, Present
  <2> QED BY <1>4, <2>1 DEF PrepareFails, PrepareFrame
<1>5. CASE StartHelper
  BY <1>5 DEF StartHelper, callVars
<1>6. CASE StartFails
  BY <1>6 DEF StartFails, callVars
<1>7. CASE CleanUp
  BY <1>7 DEF CleanUp, ClientFrame
<1> QED BY <1>1, <1>2, <1>3, <1>4, <1>5, <1>6, <1>7 DEF PublisherStep

LEMMA TypeOKClient ==
  ASSUME TypeOK, ClientStep \/ Cancel \/ KillHelper
  PROVE  TypeOK'
<1> USE DEF TypeOK, callVars
<1>1. CASE ReadEvent
  BY <1>1 DEF ReadEvent, ClientFrame
<1>2. CASE Return
  BY <1>2 DEF Return, ClientFrame, Complete
<1>3. CASE ReturnCancelled
  BY <1>3 DEF ReturnCancelled, ClientFrame
<1>4. CASE Cancel
  BY <1>4 DEF Cancel, ClientFrame
<1>5. CASE KillHelper
  <2>1. Present(Stagings) \subseteq Folders
    BY DEF Present
  <2>2. left' \subseteq Folders
    BY <1>5, <2>1 DEF KillHelper
  <2> QED BY <1>5, <2>2 DEF KillHelper, clientVars, callVars
<1> QED BY <1>1, <1>2, <1>3, <1>4, <1>5 DEF ClientStep

LEMMA TypeOKHelper ==
  ASSUME TypeOK, HelperStep \/ HelperCrash
  PROVE  TypeOK'
<1> USE DEF TypeOK, clientVars, callVars
<1>1. CASE PreflightFails
  BY <1>1 DEF PreflightFails, Report, HelperFrame
<1>2. CASE Preflight
  BY <1>2 DEF Preflight, Call, HelperFrame
<1>3. CASE DetailsAnswered
  BY <1>3 DEF DetailsAnswered, Answered, Report, Call, HelperFrame
<1>4. CASE CreateAnswered
  BY <1>4 DEF CreateAnswered, Answered, Report, Call, HelperFrame
<1>5. CASE SubmitAnswered
  BY <1>5 DEF SubmitAnswered, Answered, Report, HelperFrame
<1>6. ASSUME NEW base \in Stagings, BeginStaging(base)
      PROVE  TypeOK'
  <2>1. folder' \in [Folders -> {None} \cup SUBSET Files] /\ folder'[base] = {}
    BY <1>6 DEF BeginStaging
  <2> QED BY <1>6, <2>1 DEF BeginStaging, HelperFrame
<1>7. ASSUME NEW f \in Files, StageFile(f)
      PROVE  TypeOK'
  <2>1. folder' \in [Folders -> {None} \cup SUBSET Files] /\ folder'[from] # None
    BY <1>7 DEF StageFile
  <2> QED BY <1>7, <2>1 DEF StageFile, HelperFrame
<1>8. CASE Retry
  BY <1>8 DEF Retry, Call, HelperFrame
<1>9. CASE StagingFails
  <2>1. CASE from = "steamapps"
    <3>1. folder' \in [Folders -> {None} \cup SUBSET Files] /\ folder'["data"] = {}
      BY <1>9, <2>1 DEF StagingFails
    <3> QED BY <1>9, <2>1, <3>1 DEF StagingFails, HelperFrame
  <2>2. CASE from # "steamapps"
    BY <1>9, <2>2 DEF StagingFails, Report, HelperFrame
  <2> QED BY <2>1, <2>2
<1>10. CASE RetryAnswered
  BY <1>10 DEF RetryAnswered, Answered, Report, HelperFrame
<1>11. CASE HelperExit
  BY <1>11 DEF HelperExit, HelperFrame
<1>12. CASE HelperCrash
  <2>1. Present(Stagings) \subseteq Folders
    BY DEF Present
  <2>2. left' \subseteq Folders
    BY <1>12, <2>1 DEF HelperCrash
  <2> QED BY <1>12, <2>2 DEF HelperCrash, HelperFrame
<1> QED BY <1>1, <1>2, <1>3, <1>4, <1>5, <1>6, <1>7, <1>8, <1>9, <1>10, <1>11, <1>12 DEF HelperStep

LEMMA TypeOKSteam ==
  ASSUME TypeOK,
         SteamDetails \/ (\E id \in Ids : SteamCreates(id)) \/ SteamCommits \/ SteamRefuses
  PROVE  TypeOK'
<1> USE DEF TypeOK, clientVars
<1>1. CASE SteamDetails
  BY <1>1 DEF SteamDetails, SteamFrame
<1>2. ASSUME NEW id \in Ids, SteamCreates(id)
      PROVE  TypeOK'
  BY <1>2 DEF SteamCreates, SteamFrame
<1>3. CASE SteamCommits
  <2>1. items' \in [Ids -> {None} \cup SUBSET Files]
    BY <1>3 DEF SteamCommits
  <2> QED BY <1>3, <2>1 DEF SteamCommits, SteamFrame
<1>4. CASE SteamRefuses
  BY <1>4 DEF SteamRefuses, SteamFrame
<1> QED BY <1>1, <1>2, <1>3, <1>4

-----------------------------------------------------------------------------
(* The publisher and its helper *)

LEMMA PhasesStart ==
  ASSUME TypeOK, Phases, Answers,
         NEW id \in Ids \cup {None}, NEW steps \in Preparations,
         NEW content \in {{}, Files}, StartPublish(id, steps, content)
  PROVE  Phases'
<1> USE DEF TypeOK, Phases, Answers, Alive
<1> QED BY DEF StartPublish

LEMMA PhasesPublisher ==
  ASSUME TypeOK, Phases, Answers,
         PublisherStep \/ PrepareFails
  PROVE  Phases'
<1> USE DEF TypeOK, Phases, Answers, Alive, callVars
<1>1. CASE PrepareFolder
  BY <1>1 DEF PrepareFolder, PrepareFrame
<1>2. ASSUME NEW f \in Files, PrepareFile(f)
      PROVE  Phases'
  BY <1>2 DEF PrepareFile, PrepareFrame
<1>3. CASE Prepared
  BY <1>3 DEF Prepared, PrepareFrame
<1>4. CASE PrepareFails
  BY <1>4 DEF PrepareFails, PrepareFrame
<1>5. CASE StartHelper
  BY <1>5 DEF StartHelper, callVars
<1>6. CASE StartFails
  BY <1>6 DEF StartFails, callVars
<1>7. CASE CleanUp
  BY <1>7 DEF CleanUp, ClientFrame
<1> QED BY <1>1, <1>2, <1>3, <1>4, <1>5, <1>6, <1>7 DEF PublisherStep

LEMMA PhasesClient ==
  ASSUME TypeOK, Phases, Answers,
         ClientStep \/ Cancel \/ KillHelper
  PROVE  Phases'
<1> USE DEF TypeOK, Phases, Answers, Alive, callVars
<1>1. CASE ReadEvent
  BY <1>1 DEF ReadEvent, ClientFrame
<1>2. CASE Return
  BY <1>2 DEF Return, ClientFrame, Complete
<1>3. CASE ReturnCancelled
  BY <1>3 DEF ReturnCancelled, ClientFrame
<1>4. CASE Cancel
  BY <1>4 DEF Cancel, ClientFrame
<1>5. CASE KillHelper
  BY <1>5 DEF KillHelper, clientVars, callVars
<1> QED BY <1>1, <1>2, <1>3, <1>4, <1>5 DEF ClientStep

LEMMA PhasesHelper ==
  ASSUME TypeOK, Phases, Answers,
         HelperStep \/ HelperCrash
  PROVE  Phases'
<1> USE DEF TypeOK, Phases, Answers, Alive, clientVars, callVars
<1>1. CASE PreflightFails
  BY <1>1 DEF PreflightFails, Report, HelperFrame
<1>2. CASE Preflight
  BY <1>2 DEF Preflight, Call, HelperFrame
<1>3. CASE DetailsAnswered
  BY <1>3 DEF DetailsAnswered, Answered, Report, Call, HelperFrame
<1>4. CASE CreateAnswered
  BY <1>4 DEF CreateAnswered, Answered, Report, Call, HelperFrame
<1>5. CASE SubmitAnswered
  BY <1>5 DEF SubmitAnswered, Answered, Report, HelperFrame
<1>6. ASSUME NEW base \in Stagings, BeginStaging(base)
      PROVE  Phases'
  BY <1>6 DEF BeginStaging, HelperFrame
<1>7. ASSUME NEW f \in Files, StageFile(f)
      PROVE  Phases'
  BY <1>7 DEF StageFile, HelperFrame
<1>8. CASE Retry
  BY <1>8 DEF Retry, Call, HelperFrame
<1>9. CASE StagingFails
  BY <1>9 DEF StagingFails, Report, HelperFrame
<1>10. CASE RetryAnswered
  BY <1>10 DEF RetryAnswered, Answered, Report, HelperFrame
<1>11. CASE HelperExit
  BY <1>11 DEF HelperExit, HelperFrame
<1>12. CASE HelperCrash
  BY <1>12 DEF HelperCrash, HelperFrame
<1> QED BY <1>1, <1>2, <1>3, <1>4, <1>5, <1>6, <1>7, <1>8, <1>9, <1>10, <1>11, <1>12 DEF HelperStep

LEMMA PhasesSteam ==
  ASSUME TypeOK, Phases, Answers,
         SteamDetails \/ (\E id \in Ids : SteamCreates(id)) \/ SteamCommits \/ SteamRefuses
  PROVE  Phases'
<1> USE DEF TypeOK, Phases, Answers, Alive, clientVars
<1>1. CASE SteamDetails
  BY <1>1 DEF SteamDetails, SteamFrame
<1>2. ASSUME NEW id \in Ids, SteamCreates(id)
      PROVE  Phases'
  <2>1. /\ phase' = phase /\ helper' = helper /\ got' = got /\ line' = line /\ left' = left
        /\ outcome' = outcome /\ cancelled' = cancelled /\ folder' = folder
        /\ phase # "preparing"
    BY <1>2 DEF SteamCreates, SteamFrame
  <2> QED BY <2>1
<1>3. CASE SteamCommits
  BY <1>3 DEF SteamCommits, SteamFrame
<1>4. CASE SteamRefuses
  BY <1>4 DEF SteamRefuses, SteamFrame
<1> QED BY <1>1, <1>2, <1>3, <1>4

-----------------------------------------------------------------------------
(* The payload *)

LEMMA PayloadKeptStart ==
  ASSUME TypeOK, Phases, PayloadKept, Upload,
         NEW id \in Ids \cup {None}, NEW steps \in Preparations,
         NEW content \in {{}, Files}, StartPublish(id, steps, content)
  PROVE  PayloadKept'
<1> USE DEF TypeOK, Phases, PayloadKept, Upload, Alive
<1> QED BY DEF StartPublish

LEMMA PayloadKeptPublisher ==
  ASSUME TypeOK, Phases, PayloadKept, Upload,
         PublisherStep \/ PrepareFails
  PROVE  PayloadKept'
<1> USE DEF TypeOK, Phases, PayloadKept, Upload, Alive, callVars
<1>1. CASE PrepareFolder
  BY <1>1 DEF PrepareFolder, PrepareFrame
<1>2. ASSUME NEW f \in Files, PrepareFile(f)
      PROVE  PayloadKept'
  BY <1>2 DEF PrepareFile, PrepareFrame
<1>3. CASE Prepared
  <2>1. /\ Head(todo) = "stage" => Tail(todo) \in {<<>>, <<"pack">>}
        /\ Head(todo) = "pack" => Tail(todo) = <<>>
        /\ Head(todo) \in Temp
    BY <1>3, TodoTail DEF Prepared
  <2> QED BY <1>3, <2>1 DEF Prepared, PrepareFrame
<1>4. CASE PrepareFails
  BY <1>4 DEF PrepareFails, PrepareFrame
<1>5. CASE StartHelper
  BY <1>5 DEF StartHelper, callVars
<1>6. CASE StartFails
  BY <1>6 DEF StartFails, callVars
<1>7. CASE CleanUp
  BY <1>7 DEF CleanUp, ClientFrame
<1> QED BY <1>1, <1>2, <1>3, <1>4, <1>5, <1>6, <1>7 DEF PublisherStep

LEMMA PayloadKeptClient ==
  ASSUME TypeOK, Phases, PayloadKept, Upload,
         ClientStep \/ Cancel \/ KillHelper
  PROVE  PayloadKept'
<1> USE DEF TypeOK, Phases, PayloadKept, Upload, Alive, callVars
<1>1. CASE ReadEvent
  BY <1>1 DEF ReadEvent, ClientFrame
<1>2. CASE Return
  BY <1>2 DEF Return, ClientFrame, Complete
<1>3. CASE ReturnCancelled
  BY <1>3 DEF ReturnCancelled, ClientFrame
<1>4. CASE Cancel
  BY <1>4 DEF Cancel, ClientFrame
<1>5. CASE KillHelper
  BY <1>5 DEF KillHelper, clientVars, callVars
<1> QED BY <1>1, <1>2, <1>3, <1>4, <1>5 DEF ClientStep

LEMMA PayloadKeptHelper ==
  ASSUME TypeOK, Phases, PayloadKept, Upload,
         HelperStep \/ HelperCrash
  PROVE  PayloadKept'
<1> USE DEF TypeOK, Phases, PayloadKept, Upload, Alive, clientVars, callVars
<1>1. CASE PreflightFails
  BY <1>1 DEF PreflightFails, Report, HelperFrame
<1>2. CASE Preflight
  BY <1>2 DEF Preflight, Call, HelperFrame
<1>3. CASE DetailsAnswered
  BY <1>3 DEF DetailsAnswered, Answered, Report, Call, HelperFrame
<1>4. CASE CreateAnswered
  BY <1>4 DEF CreateAnswered, Answered, Report, Call, HelperFrame
<1>5. CASE SubmitAnswered
  BY <1>5 DEF SubmitAnswered, Answered, Report, HelperFrame
<1>6. ASSUME NEW base \in Stagings, BeginStaging(base)
      PROVE  PayloadKept'
  BY <1>6 DEF BeginStaging, HelperFrame
<1>7. ASSUME NEW f \in Files, StageFile(f)
      PROVE  PayloadKept'
  BY <1>7 DEF StageFile, HelperFrame
<1>8. CASE Retry
  BY <1>8 DEF Retry, Call, HelperFrame
<1>9. CASE StagingFails
  BY <1>9 DEF StagingFails, Report, HelperFrame
<1>10. CASE RetryAnswered
  BY <1>10 DEF RetryAnswered, Answered, Report, HelperFrame
<1>11. CASE HelperExit
  BY <1>11 DEF HelperExit, HelperFrame
<1>12. CASE HelperCrash
  BY <1>12 DEF HelperCrash, HelperFrame
<1> QED BY <1>1, <1>2, <1>3, <1>4, <1>5, <1>6, <1>7, <1>8, <1>9, <1>10, <1>11, <1>12 DEF HelperStep

LEMMA PayloadKeptSteam ==
  ASSUME TypeOK, Phases, PayloadKept, Upload,
         SteamDetails \/ (\E id \in Ids : SteamCreates(id)) \/ SteamCommits \/ SteamRefuses
  PROVE  PayloadKept'
<1> USE DEF TypeOK, Phases, PayloadKept, Upload, Alive, clientVars
<1>1. CASE SteamDetails
  BY <1>1 DEF SteamDetails, SteamFrame
<1>2. ASSUME NEW id \in Ids, SteamCreates(id)
      PROVE  PayloadKept'
  BY <1>2 DEF SteamCreates, SteamFrame
<1>3. CASE SteamCommits
  BY <1>3 DEF SteamCommits, SteamFrame
<1>4. CASE SteamRefuses
  BY <1>4 DEF SteamRefuses, SteamFrame
<1> QED BY <1>1, <1>2, <1>3, <1>4

-----------------------------------------------------------------------------
(* The calls to Steam *)

LEMMA AnswersStart ==
  ASSUME TypeOK, Phases, Answers,
         NEW id \in Ids \cup {None}, NEW steps \in Preparations,
         NEW content \in {{}, Files}, StartPublish(id, steps, content)
  PROVE  Answers'
<1> USE DEF TypeOK, Phases, Answers, Alive
<1> QED BY DEF StartPublish

LEMMA AnswersPublisher ==
  ASSUME TypeOK, Phases, Answers,
         PublisherStep \/ PrepareFails
  PROVE  Answers'
<1> USE DEF TypeOK, Phases, Answers, Alive, callVars
<1>1. CASE PrepareFolder
  BY <1>1 DEF PrepareFolder, PrepareFrame
<1>2. ASSUME NEW f \in Files, PrepareFile(f)
      PROVE  Answers'
  BY <1>2 DEF PrepareFile, PrepareFrame
<1>3. CASE Prepared
  BY <1>3 DEF Prepared, PrepareFrame
<1>4. CASE PrepareFails
  BY <1>4 DEF PrepareFails, PrepareFrame
<1>5. CASE StartHelper
  BY <1>5 DEF StartHelper, callVars
<1>6. CASE StartFails
  BY <1>6 DEF StartFails, callVars
<1>7. CASE CleanUp
  BY <1>7 DEF CleanUp, ClientFrame
<1> QED BY <1>1, <1>2, <1>3, <1>4, <1>5, <1>6, <1>7 DEF PublisherStep

LEMMA AnswersClient ==
  ASSUME TypeOK, Phases, Answers,
         ClientStep \/ Cancel \/ KillHelper
  PROVE  Answers'
<1> USE DEF TypeOK, Phases, Answers, Alive, callVars
<1>1. CASE ReadEvent
  BY <1>1 DEF ReadEvent, ClientFrame
<1>2. CASE Return
  BY <1>2 DEF Return, ClientFrame, Complete
<1>3. CASE ReturnCancelled
  BY <1>3 DEF ReturnCancelled, ClientFrame
<1>4. CASE Cancel
  BY <1>4 DEF Cancel, ClientFrame
<1>5. CASE KillHelper
  BY <1>5 DEF KillHelper, clientVars, callVars
<1> QED BY <1>1, <1>2, <1>3, <1>4, <1>5 DEF ClientStep

LEMMA AnswersHelper ==
  ASSUME TypeOK, Phases, Answers,
         HelperStep \/ HelperCrash
  PROVE  Answers'
<1> USE DEF TypeOK, Phases, Answers, Alive, clientVars, callVars
<1>1. CASE PreflightFails
  BY <1>1 DEF PreflightFails, Report, HelperFrame
<1>2. CASE Preflight
  BY <1>2 DEF Preflight, Call, HelperFrame
<1>3. CASE DetailsAnswered
  BY <1>3 DEF DetailsAnswered, Answered, Report, Call, HelperFrame
<1>4. CASE CreateAnswered
  BY <1>4 DEF CreateAnswered, Answered, Report, Call, HelperFrame
<1>5. CASE SubmitAnswered
  BY <1>5 DEF SubmitAnswered, Answered, Report, HelperFrame
<1>6. ASSUME NEW base \in Stagings, BeginStaging(base)
      PROVE  Answers'
  BY <1>6 DEF BeginStaging, HelperFrame
<1>7. ASSUME NEW f \in Files, StageFile(f)
      PROVE  Answers'
  BY <1>7 DEF StageFile, HelperFrame
<1>8. CASE Retry
  BY <1>8 DEF Retry, Call, HelperFrame
<1>9. CASE StagingFails
  BY <1>9 DEF StagingFails, Report, HelperFrame
<1>10. CASE RetryAnswered
  BY <1>10 DEF RetryAnswered, Answered, Report, HelperFrame
<1>11. CASE HelperExit
  BY <1>11 DEF HelperExit, HelperFrame
<1>12. CASE HelperCrash
  BY <1>12 DEF HelperCrash, HelperFrame
<1> QED BY <1>1, <1>2, <1>3, <1>4, <1>5, <1>6, <1>7, <1>8, <1>9, <1>10, <1>11, <1>12 DEF HelperStep

LEMMA AnswersSteam ==
  ASSUME TypeOK, Phases, Answers,
         SteamDetails \/ (\E id \in Ids : SteamCreates(id)) \/ SteamCommits \/ SteamRefuses
  PROVE  Answers'
<1> USE DEF TypeOK, Phases, Answers, Alive, clientVars
<1>1. CASE SteamDetails
  BY <1>1 DEF SteamDetails, SteamFrame
<1>2. ASSUME NEW id \in Ids, SteamCreates(id)
      PROVE  Answers'
  BY <1>2 DEF SteamCreates, SteamFrame
<1>3. CASE SteamCommits
  BY <1>3 DEF SteamCommits, SteamFrame
<1>4. CASE SteamRefuses
  BY <1>4 DEF SteamRefuses, SteamFrame
<1> QED BY <1>1, <1>2, <1>3, <1>4

-----------------------------------------------------------------------------
(* The upload *)

LEMMA UploadStart ==
  ASSUME TypeOK, Phases, PayloadKept, Answers, Upload,
         NEW id \in Ids \cup {None}, NEW steps \in Preparations,
         NEW content \in {{}, Files}, StartPublish(id, steps, content)
  PROVE  Upload'
<1> USE DEF TypeOK, Phases, PayloadKept, Answers, Upload, Alive, Holds
<1> QED BY DEF StartPublish

LEMMA UploadPublisher ==
  ASSUME TypeOK, Phases, PayloadKept, Answers, Upload,
         PublisherStep \/ PrepareFails
  PROVE  Upload'
<1> USE DEF TypeOK, Phases, PayloadKept, Answers, Upload, Alive, Holds, callVars
<1>1. CASE PrepareFolder
  BY <1>1 DEF PrepareFolder, PrepareFrame
<1>2. ASSUME NEW f \in Files, PrepareFile(f)
      PROVE  Upload'
  BY <1>2 DEF PrepareFile, PrepareFrame
<1>3. CASE Prepared
  BY <1>3 DEF Prepared, PrepareFrame
<1>4. CASE PrepareFails
  BY <1>4 DEF PrepareFails, PrepareFrame
<1>5. CASE StartHelper
  BY <1>5 DEF StartHelper, callVars
<1>6. CASE StartFails
  BY <1>6 DEF StartFails, callVars
<1>7. CASE CleanUp
  BY <1>7 DEF CleanUp, ClientFrame
<1> QED BY <1>1, <1>2, <1>3, <1>4, <1>5, <1>6, <1>7 DEF PublisherStep

LEMMA UploadClient ==
  ASSUME TypeOK, Phases, PayloadKept, Answers, Upload,
         ClientStep \/ Cancel \/ KillHelper
  PROVE  Upload'
<1> USE DEF TypeOK, Phases, PayloadKept, Answers, Upload, Alive, Holds, callVars
<1>1. CASE ReadEvent
  BY <1>1 DEF ReadEvent, ClientFrame
<1>2. CASE Return
  BY <1>2 DEF Return, ClientFrame, Complete
<1>3. CASE ReturnCancelled
  BY <1>3 DEF ReturnCancelled, ClientFrame
<1>4. CASE Cancel
  BY <1>4 DEF Cancel, ClientFrame
<1>5. CASE KillHelper
  BY <1>5 DEF KillHelper, clientVars, callVars
<1> QED BY <1>1, <1>2, <1>3, <1>4, <1>5 DEF ClientStep

LEMMA UploadHelper ==
  ASSUME TypeOK, Phases, PayloadKept, Answers, Upload,
         HelperStep \/ HelperCrash
  PROVE  Upload'
<1> USE DEF TypeOK, Phases, PayloadKept, Answers, Upload, Alive, Holds, clientVars, callVars
<1>1. CASE PreflightFails
  BY <1>1 DEF PreflightFails, Report, HelperFrame
<1>2. CASE Preflight
  BY <1>2 DEF Preflight, Call, HelperFrame
<1>3. CASE DetailsAnswered
  BY <1>3 DEF DetailsAnswered, Answered, Report, Call, HelperFrame
<1>4. CASE CreateAnswered
  BY <1>4 DEF CreateAnswered, Answered, Report, Call, HelperFrame
<1>5. CASE SubmitAnswered
  BY <1>5 DEF SubmitAnswered, Answered, Report, HelperFrame
<1>6. ASSUME NEW base \in Stagings, BeginStaging(base)
      PROVE  Upload'
  BY <1>6 DEF BeginStaging, HelperFrame
<1>7. ASSUME NEW f \in Files, StageFile(f)
      PROVE  Upload'
  BY <1>7 DEF StageFile, HelperFrame
<1>8. CASE Retry
  BY <1>8 DEF Retry, Call, HelperFrame
<1>9. CASE StagingFails
  BY <1>9 DEF StagingFails, Report, HelperFrame
<1>10. CASE RetryAnswered
  BY <1>10 DEF RetryAnswered, Answered, Report, HelperFrame
<1>11. CASE HelperExit
  BY <1>11 DEF HelperExit, HelperFrame
<1>12. CASE HelperCrash
  BY <1>12 DEF HelperCrash, HelperFrame
<1> QED BY <1>1, <1>2, <1>3, <1>4, <1>5, <1>6, <1>7, <1>8, <1>9, <1>10, <1>11, <1>12 DEF HelperStep

LEMMA UploadSteam ==
  ASSUME TypeOK, Phases, PayloadKept, Answers, Upload,
         SteamDetails \/ (\E id \in Ids : SteamCreates(id)) \/ SteamCommits \/ SteamRefuses
  PROVE  Upload'
<1> USE DEF TypeOK, Phases, PayloadKept, Answers, Upload, Alive, Holds, clientVars
<1>1. CASE SteamDetails
  BY <1>1 DEF SteamDetails, SteamFrame
<1>2. ASSUME NEW id \in Ids, SteamCreates(id)
      PROVE  Upload'
  BY <1>2 DEF SteamCreates, SteamFrame
<1>3. CASE SteamCommits
  BY <1>3 DEF SteamCommits, SteamFrame
<1>4. CASE SteamRefuses
  BY <1>4 DEF SteamRefuses, SteamFrame
<1> QED BY <1>1, <1>2, <1>3, <1>4

-----------------------------------------------------------------------------
(* The staging folders *)

LEMMA LitterStart ==
  ASSUME TypeOK, Phases, PayloadKept, Answers, Upload, Litter,
         NEW id \in Ids \cup {None}, NEW steps \in Preparations,
         NEW content \in {{}, Files}, StartPublish(id, steps, content)
  PROVE  Litter'
<1> USE DEF TypeOK, Phases, PayloadKept, Answers, Upload, Litter, Alive, Present
<1> QED BY DEF StartPublish

LEMMA LitterPublisher ==
  ASSUME TypeOK, Phases, PayloadKept, Answers, Upload, Litter,
         PublisherStep \/ PrepareFails
  PROVE  Litter'
<1> USE DEF TypeOK, Phases, PayloadKept, Answers, Upload, Litter, Alive, Present, callVars
<1>1. CASE PrepareFolder
  BY <1>1 DEF PrepareFolder, PrepareFrame
<1>2. ASSUME NEW f \in Files, PrepareFile(f)
      PROVE  Litter'
  BY <1>2 DEF PrepareFile, PrepareFrame
<1>3. CASE Prepared
  BY <1>3 DEF Prepared, PrepareFrame
<1>4. CASE PrepareFails
  BY <1>4 DEF PrepareFails, PrepareFrame
<1>5. CASE StartHelper
  BY <1>5 DEF StartHelper, callVars
<1>6. CASE StartFails
  BY <1>6 DEF StartFails, callVars
<1>7. CASE CleanUp
  BY <1>7 DEF CleanUp, ClientFrame
<1> QED BY <1>1, <1>2, <1>3, <1>4, <1>5, <1>6, <1>7 DEF PublisherStep

LEMMA LitterClient ==
  ASSUME TypeOK, Phases, PayloadKept, Answers, Upload, Litter,
         ClientStep \/ Cancel \/ KillHelper
  PROVE  Litter'
<1> USE DEF TypeOK, Phases, PayloadKept, Answers, Upload, Litter, Alive, Present, callVars
<1>1. CASE ReadEvent
  BY <1>1 DEF ReadEvent, ClientFrame
<1>2. CASE Return
  BY <1>2 DEF Return, ClientFrame, Complete
<1>3. CASE ReturnCancelled
  BY <1>3 DEF ReturnCancelled, ClientFrame
<1>4. CASE Cancel
  BY <1>4 DEF Cancel, ClientFrame
<1>5. CASE KillHelper
  BY <1>5 DEF KillHelper, clientVars, callVars
<1> QED BY <1>1, <1>2, <1>3, <1>4, <1>5 DEF ClientStep

LEMMA LitterHelper ==
  ASSUME TypeOK, Phases, PayloadKept, Answers, Upload, Litter,
         HelperStep \/ HelperCrash
  PROVE  Litter'
<1> USE DEF TypeOK, Phases, PayloadKept, Answers, Upload, Litter, Alive, Present, clientVars,
            callVars
<1>1. CASE PreflightFails
  BY <1>1 DEF PreflightFails, Report, HelperFrame
<1>2. CASE Preflight
  BY <1>2 DEF Preflight, Call, HelperFrame
<1>3. CASE DetailsAnswered
  BY <1>3 DEF DetailsAnswered, Answered, Report, Call, HelperFrame
<1>4. CASE CreateAnswered
  BY <1>4 DEF CreateAnswered, Answered, Report, Call, HelperFrame
<1>5. CASE SubmitAnswered
  BY <1>5 DEF SubmitAnswered, Answered, Report, HelperFrame
<1>6. ASSUME NEW base \in Stagings, BeginStaging(base)
      PROVE  Litter'
  BY <1>6 DEF BeginStaging, HelperFrame
<1>7. ASSUME NEW f \in Files, StageFile(f)
      PROVE  Litter'
  BY <1>7 DEF StageFile, HelperFrame
<1>8. CASE Retry
  BY <1>8 DEF Retry, Call, HelperFrame
<1>9. CASE StagingFails
  BY <1>9 DEF StagingFails, Report, HelperFrame
<1>10. CASE RetryAnswered
  BY <1>10 DEF RetryAnswered, Answered, Report, HelperFrame
<1>11. CASE HelperExit
  BY <1>11 DEF HelperExit, HelperFrame
<1>12. CASE HelperCrash
  BY <1>12 DEF HelperCrash, HelperFrame
<1> QED BY <1>1, <1>2, <1>3, <1>4, <1>5, <1>6, <1>7, <1>8, <1>9, <1>10, <1>11, <1>12 DEF HelperStep

LEMMA LitterSteam ==
  ASSUME TypeOK, Phases, PayloadKept, Answers, Upload, Litter,
         SteamDetails \/ (\E id \in Ids : SteamCreates(id)) \/ SteamCommits \/ SteamRefuses
  PROVE  Litter'
<1> USE DEF TypeOK, Phases, PayloadKept, Answers, Upload, Litter, Alive, Present, clientVars
<1>1. CASE SteamDetails
  BY <1>1 DEF SteamDetails, SteamFrame
<1>2. ASSUME NEW id \in Ids, SteamCreates(id)
      PROVE  Litter'
  BY <1>2 DEF SteamCreates, SteamFrame
<1>3. CASE SteamCommits
  BY <1>3 DEF SteamCommits, SteamFrame
<1>4. CASE SteamRefuses
  BY <1>4 DEF SteamRefuses, SteamFrame
<1> QED BY <1>1, <1>2, <1>3, <1>4

-----------------------------------------------------------------------------
(* The invariant *)

LEMMA InitIInv == Init => IInv
<1> SUFFICES ASSUME Init PROVE IInv
  OBVIOUS
<1>1. TypeOK
  BY DEF Init, TypeOK
<1>2. Phases /\ PayloadKept /\ Answers /\ Upload /\ Litter
  BY DEF Init, Phases, PayloadKept, Answers, Upload, Litter, Alive, Present
<1> QED BY <1>1, <1>2 DEF IInv

LEMMA SameIInv ==
  ASSUME IInv, UNCHANGED vars
  PROVE  IInv'
<1> USE DEF vars, clientVars, callVars
<1>1. TypeOK'
  BY DEF IInv, TypeOK
<1>2. Phases' /\ PayloadKept' /\ Answers'
  BY DEF IInv, Phases, PayloadKept, Answers, Alive
<1>3. Upload' /\ Litter'
  BY DEF IInv, Upload, Litter, Present, Holds
<1> QED BY <1>1, <1>2, <1>3 DEF IInv

LEMMA StepIInv ==
  ASSUME IInv, [Next]_vars
  PROVE  IInv'
<1> USE DEF IInv
<1>1. ASSUME NEW id \in Ids \cup {None}, NEW steps \in Preparations, NEW content \in {{}, Files},
             StartPublish(id, steps, content)
      PROVE  IInv'
  BY <1>1, TypeOKStart, PhasesStart, PayloadKeptStart, AnswersStart, UploadStart, LitterStart
<1>2. ASSUME PublisherStep \/ PrepareFails
      PROVE  IInv'
  BY <1>2, TypeOKPublisher, PhasesPublisher, PayloadKeptPublisher, AnswersPublisher,
     UploadPublisher, LitterPublisher
<1>3. ASSUME ClientStep \/ Cancel \/ KillHelper
      PROVE  IInv'
  BY <1>3, TypeOKClient, PhasesClient, PayloadKeptClient, AnswersClient, UploadClient,
     LitterClient
<1>4. ASSUME HelperStep \/ HelperCrash
      PROVE  IInv'
  BY <1>4, TypeOKHelper, PhasesHelper, PayloadKeptHelper, AnswersHelper, UploadHelper,
     LitterHelper
<1>5. ASSUME SteamDetails \/ (\E id \in Ids : SteamCreates(id)) \/ SteamCommits \/ SteamRefuses
      PROVE  IInv'
  BY <1>5, TypeOKSteam, PhasesSteam, PayloadKeptSteam, AnswersSteam, UploadSteam, LitterSteam
<1> QED BY <1>1, <1>2, <1>3, <1>4, <1>5, SameIInv DEF Next

\* The invariant, for any ids, files and number of publishes: the payload stands while
\* the helper is at work, an item is as its last answer says, and every temporary
\* folder has a living owner or is accounted for.
THEOREM SpecIInv == Spec => []IInv
BY InitIInv, StepIInv, PTL DEF Spec

\* Whatever Steam answers, whenever the helper dies or is killed and however the payload
\* was prepared: an id that PublishAsync returns is an item of Steam's with the whole
\* payload, and the only one the publish created.
THEOREM PublishReportedComplete == Spec => []ReportedComplete
<1>1. IInv => ReportedComplete
  BY DEF IInv, Upload, Holds, ReportedComplete
<1> QED BY <1>1, SpecIInv, PTL

\* The folder the helper uploads, the payload or the staged copy of it, is there in full
\* for as long as Steam may read it, unless the user cancelled.
THEOREM PublishPayloadHeld == Spec => []PayloadHeld
<1>1. IInv => PayloadHeld
  BY DEF IInv, Phases, Upload, Alive, PayloadHeld
<1> QED BY <1>1, SpecIInv, PTL

\* A publish leaves no temporary folder, in the publisher's place or in the helper's,
\* that is not the remains of a process that died or of a folder whose making failed.
THEOREM PublishNoLitter == Spec => []NoLitter
<1>1. IInv => NoLitter
  BY DEF IInv, TypeOK, Litter, Alive, Present, NoLitter
<1> QED BY <1>1, SpecIInv, PTL

-----------------------------------------------------------------------------
(* SteamCMD. *)

CmdVdf == [id : Numbers \cup {None}, payload : Publishes \cup {"old", None}]
CmdOwn(p) == [id |-> cmdTarget[p], payload |-> p]

CmdType ==
  /\ cmdTarget \in [Publishes -> Numbers \cup {None}]
  /\ stage \in [Publishes -> {"new", "prepared", "writing", "running", "exited", "ok", "failed"}]
  /\ payloads \subseteq Publishes
  /\ vdf \in [Numbers \cup {None} -> CmdVdf \cup {None}]
  /\ tool \in [Publishes -> {"off", "started", "loaded", "uploaded", "ended", "gone"}]
  /\ loaded \in [Publishes -> CmdVdf \cup {None}]
  /\ published \in [Numbers -> Publishes \cup {"old", None}]
  /\ result \in [Publishes -> Numbers \cup {None}]
  /\ shared \subseteq Publishes

\* A publish that is not in shared has its file for itself, as long as it or its
\* SteamCMD is at work.
CmdAlone ==
  \A p, q \in Publishes :
    p # q /\ p \notin shared /\ Cmd!AtWork(p) /\ Cmd!AtWork(q) => cmdTarget[p] # cmdTarget[q]

\* The file of an item that exists names it, and so does what SteamCMD read from it.
CmdNamed ==
  \A p \in Publishes : cmdTarget[p] # None =>
    /\ published[cmdTarget[p]] # None
    /\ vdf[cmdTarget[p]] \notin {None, Cmd!Partial} => vdf[cmdTarget[p]].id = cmdTarget[p]
    /\ loaded[p] # None => loaded[p].id = cmdTarget[p]

\* Once the request of a new item is written, the file of new items and what was read
\* from it do not name an item that another publish is meant for.
CmdNew ==
  \A p, q \in Publishes : cmdTarget[p] # None /\ cmdTarget[q] = None =>
    /\ stage[q] = "writing" \/ tool[q] # "off" =>
         vdf[None] # None /\ vdf[None].id # cmdTarget[p]
    /\ loaded[q] # None => loaded[q].id # cmdTarget[p]

\* SteamCMD has uploaded the payload, and if it has ended the publish is not over.
CmdUploaded(p) ==
  tool[p] = "uploaded" \/ (tool[p] = "ended" /\ stage[p] \in {"running", "exited"})

\* How far a publish and its SteamCMD have come, the publish being over or not; one
\* with a file of its own knows what is in it.
CmdStand(p) ==
  /\ stage[p] \in {"new", "prepared", "writing"} => tool[p] = "off"
  /\ stage[p] = "running" => tool[p] # "off"
  /\ stage[p] = "exited" => tool[p] = "ended"
  /\ tool[p] \in {"loaded", "uploaded"} => loaded[p] # None
  /\ p \notin shared =>
       /\ tool[p] = "started" => vdf[cmdTarget[p]] = CmdOwn(p)
       /\ tool[p] = "loaded" => loaded[p] = CmdOwn(p)
       /\ CmdUploaded(p) =>
            \E i \in Numbers :
              /\ loaded[p] = [id |-> i, payload |-> p] /\ published[i] = p
              /\ cmdTarget[p] # None => i = cmdTarget[p]
              /\ tool[p] = "ended" => vdf[cmdTarget[p]] = loaded[p]

CmdStands == \A p \in Publishes : CmdStand(p)

CmdInv == CmdType /\ CmdAlone /\ CmdNamed /\ CmdNew /\ CmdStands

LEMMA CmdInitInv ==
  ASSUME Cmd!Init
  PROVE  CmdInv
<1> USE CmdAssumption DEF Cmd!Init, Cmd!Old
<1>1. CmdType /\ CmdNamed
  <2> DEFINE InUse == {i \in Numbers : published[i] # None}
             File(i) == [id |-> i, payload |-> "old"]
  <2>1. PICK kept \in SUBSET InUse, new \in InUse \cup {None} :
          vdf = [n \in Numbers \cup {None} |->
                   CASE n \in kept -> File(n)
                     [] n = None /\ new # None -> File(new)
                     [] OTHER -> None]
    OBVIOUS
  <2>2. vdf \in [Numbers \cup {None} -> CmdVdf \cup {None}]
    BY <2>1 DEF CmdVdf
  <2>3. \A n \in Numbers : vdf[n] # None => vdf[n].id = n
    BY <2>1
  <2>4. CmdType
    BY <2>2 DEF CmdType
  <2>5. CmdNamed
    BY <2>3 DEF CmdNamed
  <2> QED BY <2>4, <2>5
<1>2. CmdAlone /\ CmdNew /\ CmdStands
  BY DEF CmdAlone, CmdNew, CmdStands, CmdStand, CmdUploaded, Cmd!Active, Cmd!AtWork, Cmd!ToolRuns
<1> QED BY <1>1, <1>2 DEF CmdInv

\* What SteamCMD or the publisher does for one publish.
CmdStep(p) ==
  \/ Cmd!Prepare(p) \/ Cmd!PrepareFails(p) \/ Cmd!BeginVdf(p) \/ Cmd!EndVdf(p)
  \/ Cmd!Exited(p) \/ Cmd!ReadId(p) \/ Cmd!Fail(p)
  \/ Cmd!ToolLoads(p) \/ Cmd!ToolWritesId(p) \/ Cmd!ToolGone(p)
  \/ \E i \in Numbers : Cmd!ToolUploads(p, i)

LEMMA CmdTypeStep ==
  ASSUME CmdType, CmdStands, NEW p \in Publishes, CmdStep(p)
  PROVE  CmdType'
<1> USE CmdAssumption DEF CmdType, CmdVdf, Cmd!Active, Cmd!Goto, Cmd!VdfPath, Cmd!WriteVdf,
        Cmd!Finish, Cmd!At, Cmd!clientVars, Cmd!toolVars, Cmd!Partial
<1>1. CASE Cmd!Prepare(p)
  BY <1>1 DEF Cmd!Prepare
<1>2. CASE Cmd!PrepareFails(p) \/ Cmd!Exited(p) \/ Cmd!Fail(p) \/ Cmd!ToolGone(p)
  BY <1>2 DEF Cmd!PrepareFails, Cmd!Exited, Cmd!Fail, Cmd!ToolGone
<1>3. CASE Cmd!BeginVdf(p)
  BY <1>3 DEF Cmd!BeginVdf
<1>4. CASE Cmd!EndVdf(p)
  BY <1>4 DEF Cmd!EndVdf
<1>5. CASE Cmd!ReadId(p)
  BY <1>5 DEF Cmd!ReadId
<1>6. CASE Cmd!ToolLoads(p)
  BY <1>6 DEF Cmd!ToolLoads
<1>7. CASE Cmd!ToolWritesId(p)
  BY <1>7 DEF Cmd!ToolWritesId
<1>8. ASSUME NEW i \in Numbers, Cmd!ToolUploads(p, i)
      PROVE  CmdType'
  <2>1. loaded[p] \in CmdVdf
    BY <1>8 DEF Cmd!ToolUploads, CmdStands, CmdStand
  <2>2. [loaded[p] EXCEPT !.id = i] \in CmdVdf
    BY <2>1
  <2>3. loaded' \in [Publishes -> CmdVdf \cup {None}]
    BY <1>8, <2>2 DEF Cmd!ToolUploads
  <2> QED BY <1>8, <2>3 DEF Cmd!ToolUploads
<1> QED BY <1>1, <1>2, <1>3, <1>4, <1>5, <1>6, <1>7, <1>8 DEF CmdStep

LEMMA CmdAloneStep ==
  ASSUME CmdType, CmdAlone, NEW p \in Publishes, CmdStep(p)
  PROVE  CmdAlone'
<1> USE CmdAssumption DEF CmdType, CmdAlone, Cmd!Active, Cmd!AtWork, Cmd!ToolRuns, Cmd!Goto, Cmd!Finish, Cmd!At,
        Cmd!clientVars, Cmd!toolVars
<1>1. CASE Cmd!Prepare(p)
  <2> DEFINE others == {q \in Publishes \ {p} : Cmd!AtWork(q) /\ cmdTarget[q] = cmdTarget[p]}
  <2>1. /\ cmdTarget' = cmdTarget /\ stage' = [stage EXCEPT ![p] = "prepared"] /\ tool' = tool
        /\ shared' = shared \cup others \cup (IF others = {} THEN {} ELSE {p})
    BY <1>1 DEF Cmd!Prepare, Cmd!toolVars
  <2>2. \A q \in Publishes \ {p} : Cmd!AtWork(q) /\ cmdTarget[q] = cmdTarget[p] =>
          q \in shared' /\ p \in shared'
    BY <2>1
  <2>3. shared \subseteq shared'
    BY <2>1
  <2> QED BY <2>1, <2>2, <2>3
<1>2. CASE Cmd!PrepareFails(p) \/ Cmd!Exited(p) \/ Cmd!Fail(p) \/ Cmd!ReadId(p) \/ Cmd!ToolGone(p)
  BY <1>2 DEF Cmd!PrepareFails, Cmd!Exited, Cmd!Fail, Cmd!ReadId, Cmd!ToolGone
<1>3. CASE Cmd!BeginVdf(p) \/ Cmd!EndVdf(p)
  BY <1>3 DEF Cmd!BeginVdf, Cmd!EndVdf
<1>4. CASE Cmd!ToolLoads(p) \/ Cmd!ToolWritesId(p) \/ \E i \in Numbers : Cmd!ToolUploads(p, i)
  BY <1>4 DEF Cmd!ToolLoads, Cmd!ToolWritesId, Cmd!ToolGone, Cmd!ToolUploads
<1> QED BY <1>1, <1>2, <1>3, <1>4 DEF CmdStep

LEMMA CmdNamedStep ==
  ASSUME CmdType, CmdNamed, CmdStands, NEW p \in Publishes, CmdStep(p)
  PROVE  CmdNamed'
<1> USE CmdAssumption DEF CmdType, CmdNamed, Cmd!Goto, Cmd!Finish, Cmd!At,
        Cmd!clientVars, Cmd!toolVars, Cmd!VdfPath, Cmd!WriteVdf, Cmd!Partial
<1>1. CASE \/ Cmd!Prepare(p) \/ Cmd!PrepareFails(p) \/ Cmd!Exited(p) \/ Cmd!Fail(p) \/ Cmd!ReadId(p)
           \/ Cmd!ToolGone(p)
  BY <1>1 DEF Cmd!Prepare, Cmd!PrepareFails, Cmd!Exited, Cmd!Fail, Cmd!ReadId, Cmd!ToolGone,
     Cmd!ToolRuns, CmdStands, CmdStand
<1>2. CASE Cmd!BeginVdf(p)
  BY <1>2 DEF Cmd!BeginVdf
<1>3. CASE Cmd!EndVdf(p)
  BY <1>3 DEF Cmd!EndVdf
<1>4. CASE Cmd!ToolLoads(p)
  BY <1>4 DEF Cmd!ToolLoads
<1>5. CASE Cmd!ToolWritesId(p)
  <2>1. loaded[p] # None
    BY <1>5 DEF Cmd!ToolWritesId, CmdStands, CmdStand
  <2> QED BY <1>5, <2>1 DEF Cmd!ToolWritesId
<1>6. ASSUME NEW i \in Numbers, Cmd!ToolUploads(p, i)
      PROVE  CmdNamed'
  <2>1. loaded[p] \in CmdVdf
    BY <1>6 DEF Cmd!ToolUploads, CmdStands, CmdStand
  <2>2. published' = [published EXCEPT ![i] = loaded[p].payload] /\ loaded[p].payload \in Publishes
    BY <1>6 DEF Cmd!ToolUploads
  <2>3. loaded' = [loaded EXCEPT ![p] = [loaded[p] EXCEPT !.id = i]]
    BY <1>6 DEF Cmd!ToolUploads
  <2>4. cmdTarget[p] # None => i = cmdTarget[p]
    <3>1. loaded[p] # None
      BY <1>6 DEF Cmd!ToolUploads, CmdStands, CmdStand
    <3> QED BY <1>6, <3>1 DEF Cmd!ToolUploads
  <2>5. [loaded[p] EXCEPT !.id = i].id = i
    BY <2>1 DEF CmdVdf
  <2>6. vdf' = vdf /\ cmdTarget' = cmdTarget
    BY <1>6 DEF Cmd!ToolUploads
  <2> QED BY <2>2, <2>3, <2>4, <2>5, <2>6
<1> QED BY <1>1, <1>2, <1>3, <1>4, <1>5, <1>6 DEF CmdStep

LEMMA CmdNewStep ==
  ASSUME CmdType, CmdNamed, CmdNew, CmdStands, NEW p \in Publishes, CmdStep(p)
  PROVE  CmdNew'
<1> USE CmdAssumption DEF CmdType, CmdNew, Cmd!Goto, Cmd!Finish, Cmd!At,
        Cmd!clientVars, Cmd!toolVars, Cmd!VdfPath, Cmd!WriteVdf, Cmd!Partial
<1>1. CASE \/ Cmd!Prepare(p) \/ Cmd!PrepareFails(p) \/ Cmd!Exited(p) \/ Cmd!Fail(p) \/ Cmd!ReadId(p)
           \/ Cmd!ToolGone(p)
  BY <1>1 DEF Cmd!Prepare, Cmd!PrepareFails, Cmd!Exited, Cmd!Fail, Cmd!ReadId, Cmd!ToolGone,
     Cmd!ToolRuns, CmdStands, CmdStand
<1>2. CASE Cmd!BeginVdf(p)
  BY <1>2 DEF Cmd!BeginVdf
<1>3. CASE Cmd!EndVdf(p)
  BY <1>3 DEF Cmd!EndVdf
<1>4. CASE Cmd!ToolLoads(p)
  BY <1>4 DEF Cmd!ToolLoads
<1>5. CASE Cmd!ToolWritesId(p)
  <2>1. loaded[p] # None
    BY <1>5 DEF Cmd!ToolWritesId, CmdStands, CmdStand
  <2> QED BY <1>5, <2>1 DEF Cmd!ToolWritesId
<1>6. ASSUME NEW i \in Numbers, Cmd!ToolUploads(p, i)
      PROVE  CmdNew'
  <2>1. loaded[p] \in CmdVdf
    BY <1>6 DEF Cmd!ToolUploads, CmdStands, CmdStand
  <2>2. loaded' = [loaded EXCEPT ![p] = [loaded[p] EXCEPT !.id = i]]
    BY <1>6 DEF Cmd!ToolUploads
  <2>3. cmdTarget[p] = None => \A q \in Publishes : cmdTarget[q] # None => i # cmdTarget[q]
    <3>1. loaded[p] # None
      BY <1>6 DEF Cmd!ToolUploads, CmdStands, CmdStand
    <3>2. \A q \in Publishes : cmdTarget[q] # None => published[cmdTarget[q]] # None
      BY DEF CmdNamed
    <3> QED BY <1>6, <3>1, <3>2 DEF Cmd!ToolUploads
  <2>4. [loaded[p] EXCEPT !.id = i].id = i
    BY <2>1 DEF CmdVdf
  <2>5. /\ vdf' = vdf /\ cmdTarget' = cmdTarget /\ stage' = stage
        /\ tool[p] = "loaded" /\ tool' = [tool EXCEPT ![p] = "uploaded"]
    BY <1>6 DEF Cmd!ToolUploads
  <2> QED BY <2>2, <2>3, <2>4, <2>5
<1> QED BY <1>1, <1>2, <1>3, <1>4, <1>5, <1>6 DEF CmdStep

\* A publish is where it was as long as nobody writes its file or uploads to its item.
LEMMA CmdUndisturbed ==
  ASSUME CmdInv, NEW p \in Publishes, CmdStep(p), NEW q \in Publishes, q # p, q \notin shared'
  PROVE  /\ q \notin shared
         /\ Cmd!AtWork(q) => vdf'[cmdTarget[q]] = vdf[cmdTarget[q]]
         /\ CmdUploaded(q) =>
              \A i \in Numbers : published[i] = q /\ loaded[q].id = i => published'[i] = q
<1> USE CmdAssumption DEF CmdInv, CmdType, Cmd!Goto, Cmd!Finish, Cmd!At, Cmd!Active,
        Cmd!AtWork, Cmd!ToolRuns,
        Cmd!clientVars, Cmd!toolVars, Cmd!VdfPath, Cmd!WriteVdf
<1>1. q \notin shared
  BY DEF CmdStep, Cmd!Prepare, Cmd!PrepareFails, Cmd!Exited, Cmd!Fail, Cmd!ReadId, Cmd!BeginVdf,
     Cmd!EndVdf, Cmd!ToolLoads, Cmd!ToolWritesId, Cmd!ToolGone, Cmd!ToolUploads
<1>2. Cmd!AtWork(q) /\ Cmd!AtWork(p) => cmdTarget[q] # cmdTarget[p]
  BY <1>1 DEF CmdAlone
<1>3. Cmd!AtWork(q) => vdf'[cmdTarget[q]] = vdf[cmdTarget[q]]
  <2>1. vdf' = vdf \/ (Cmd!AtWork(p) /\ \E c : vdf' = [vdf EXCEPT ![cmdTarget[p]] = c])
    BY DEF CmdStep, Cmd!Prepare, Cmd!PrepareFails, Cmd!Exited, Cmd!Fail, Cmd!ReadId, Cmd!BeginVdf,
       Cmd!EndVdf, Cmd!ToolLoads, Cmd!ToolWritesId, Cmd!ToolGone, Cmd!ToolUploads
  <2> QED BY <2>1, <1>2
<1>4. ASSUME CmdUploaded(q), NEW i \in Numbers, published[i] = q, loaded[q].id = i
      PROVE  published'[i] = q
  <2>1. published' = published \/ \E j \in Numbers : Cmd!ToolUploads(p, j)
    BY DEF CmdStep, Cmd!Prepare, Cmd!PrepareFails, Cmd!Exited, Cmd!Fail, Cmd!ReadId, Cmd!BeginVdf,
       Cmd!EndVdf, Cmd!ToolLoads, Cmd!ToolWritesId, Cmd!ToolGone, Cmd!ToolUploads
  <2>2. ASSUME NEW j \in Numbers, Cmd!ToolUploads(p, j)
        PROVE  j # i
    <3>1. Cmd!AtWork(p) /\ Cmd!AtWork(q) /\ cmdTarget[q] # cmdTarget[p]
      BY <1>2, <1>4, <2>2 DEF Cmd!ToolUploads, CmdUploaded
    <3>2. loaded[p] # None /\ loaded[q] # None
      BY <1>1, <1>4, <2>2 DEF Cmd!ToolUploads, CmdStands, CmdStand
    <3>3. CASE loaded[p].id = None
      BY <1>4, <2>2, <3>3 DEF Cmd!ToolUploads
    <3>4. CASE loaded[p].id # None
      <4>1. j = loaded[p].id
        BY <2>2, <3>4 DEF Cmd!ToolUploads
      <4>2. CASE cmdTarget[p] # None
        <5>1. j = cmdTarget[p]
          BY <3>2, <4>1, <4>2 DEF CmdNamed
        <5>2. cmdTarget[q] # None => i = cmdTarget[q]
          BY <1>4, <3>2 DEF CmdNamed
        <5>3. cmdTarget[q] = None => i # cmdTarget[p]
          BY <1>4, <3>2, <4>2 DEF CmdNew
        <5> QED BY <3>1, <5>1, <5>2, <5>3
      <4>3. CASE cmdTarget[p] = None
        <5>1. i = cmdTarget[q] /\ cmdTarget[q] # None
          BY <1>4, <3>1, <3>2, <4>3 DEF CmdNamed
        <5>2. loaded[p].id # cmdTarget[q]
          BY <3>2, <4>3, <5>1 DEF CmdNew
        <5> QED BY <4>1, <5>1, <5>2
      <4> QED BY <4>2, <4>3
    <3> QED BY <3>3, <3>4
  <2>3. ASSUME NEW j \in Numbers, Cmd!ToolUploads(p, j)
        PROVE  published'[i] = q
    BY <1>4, <2>2, <2>3 DEF Cmd!ToolUploads
  <2> QED BY <1>4, <2>1, <2>3
<1> QED BY <1>1, <1>3, <1>4

\* The publish that makes the step.
LEMMA CmdStandOwn ==
  ASSUME CmdInv, NEW p \in Publishes, CmdStep(p)
  PROVE  CmdStand(p)'
<1> USE CmdAssumption DEF Cmd!Goto, Cmd!Finish, Cmd!At, Cmd!clientVars, Cmd!toolVars, Cmd!VdfPath,
        Cmd!WriteVdf
<1>1. CmdType /\ CmdStand(p)
  BY DEF CmdInv, CmdStands
<1>2. CASE Cmd!Prepare(p) \/ Cmd!PrepareFails(p)
  BY <1>1, <1>2 DEF Cmd!Prepare, Cmd!PrepareFails, CmdType, CmdStand, CmdUploaded, CmdOwn
<1>3. CASE Cmd!Fail(p) \/ Cmd!ReadId(p)
  BY <1>1, <1>3 DEF Cmd!Fail, Cmd!ReadId, CmdType, CmdStand, CmdUploaded, CmdOwn
<1>10. CASE Cmd!ToolGone(p)
  BY <1>1, <1>10 DEF Cmd!ToolGone, Cmd!ToolRuns, CmdType, CmdStand, CmdUploaded, CmdOwn
<1>4. CASE Cmd!BeginVdf(p)
  BY <1>1, <1>4 DEF Cmd!BeginVdf, CmdType, CmdStand, CmdUploaded, CmdOwn
<1>5. CASE Cmd!EndVdf(p)
  BY <1>1, <1>5 DEF Cmd!EndVdf, CmdType, CmdStand, CmdUploaded, CmdOwn
<1>6. CASE Cmd!Exited(p)
  BY <1>1, <1>6 DEF Cmd!Exited, CmdType, CmdStand, CmdUploaded, CmdOwn
<1>7. CASE Cmd!ToolLoads(p)
  BY <1>1, <1>7 DEF Cmd!ToolLoads, CmdType, CmdStand, CmdUploaded, CmdOwn
<1>8. CASE Cmd!ToolWritesId(p)
  BY <1>1, <1>8 DEF Cmd!ToolWritesId, CmdType, CmdStand, CmdUploaded, CmdOwn
<1>9. ASSUME NEW i \in Numbers, Cmd!ToolUploads(p, i)
      PROVE  CmdStand(p)'
  <2>1. loaded[p] \in CmdVdf /\ published' = [published EXCEPT ![i] = loaded[p].payload]
    BY <1>1, <1>9 DEF Cmd!ToolUploads, CmdType, CmdStand
  <2>2. loaded' = [loaded EXCEPT ![p] = [loaded[p] EXCEPT !.id = i]]
    BY <1>9 DEF Cmd!ToolUploads
  <2>3. /\ stage' = stage /\ tool[p] = "loaded" /\ tool'[p] = "uploaded"
        /\ cmdTarget' = cmdTarget /\ shared' = shared
    BY <1>1, <1>9 DEF Cmd!ToolUploads, CmdType
  <2>4. loaded'[p] = [id |-> i, payload |-> loaded[p].payload]
    BY <1>1, <2>1, <2>2 DEF CmdType, CmdVdf
  <2>5. ASSUME p \notin shared
        PROVE  /\ loaded'[p] = [id |-> i, payload |-> p] /\ published'[i] = p
               /\ cmdTarget[p] # None => i = cmdTarget[p]
    <3>1. loaded[p] = CmdOwn(p)
      BY <1>1, <2>3, <2>5 DEF CmdStand
    <3> QED BY <1>1, <1>9, <2>1, <2>4, <3>1 DEF Cmd!ToolUploads, CmdOwn, CmdType
  <2>6. loaded'[p] # None
    BY <2>1, <2>4 DEF CmdVdf
  <2>7. stage'[p] \notin {"new", "prepared", "writing", "exited"}
    BY <1>1, <2>3 DEF CmdStand
  <2> QED BY <2>3, <2>5, <2>6, <2>7 DEF CmdStand, CmdUploaded
<1> QED BY <1>2, <1>3, <1>4, <1>5, <1>6, <1>7, <1>8, <1>9, <1>10 DEF CmdStep

LEMMA CmdStandStep ==
  ASSUME CmdInv, NEW p \in Publishes, CmdStep(p)
  PROVE  CmdStands'
<1> USE CmdAssumption DEF CmdInv, CmdType, Cmd!Goto, Cmd!Finish, Cmd!At,
        Cmd!clientVars, Cmd!toolVars, Cmd!VdfPath, Cmd!WriteVdf
<1> SUFFICES ASSUME NEW q \in Publishes
             PROVE  CmdStand(q)'
  BY DEF CmdStands
<1>1. CmdStand(q)
  BY DEF CmdStands
<1>2. CASE q # p
  <2>1. /\ stage'[q] = stage[q] /\ tool'[q] = tool[q] /\ loaded'[q] = loaded[q]
        /\ cmdTarget' = cmdTarget
    BY <1>2 DEF CmdStep, Cmd!Prepare, Cmd!PrepareFails, Cmd!Exited, Cmd!Fail, Cmd!ReadId,
       Cmd!BeginVdf, Cmd!EndVdf, Cmd!ToolLoads, Cmd!ToolWritesId, Cmd!ToolGone, Cmd!ToolUploads
  <2>2. CASE q \in shared'
    BY <1>1, <2>1, <2>2 DEF CmdStand
  <2>3. CASE q \notin shared'
    <3>1. /\ q \notin shared
          /\ Cmd!AtWork(q) => vdf'[cmdTarget[q]] = vdf[cmdTarget[q]]
          /\ CmdUploaded(q) =>
               \A i \in Numbers : published[i] = q /\ loaded[q].id = i => published'[i] = q
      BY <1>2, <2>3, CmdUndisturbed
    <3>2. CmdUploaded(q) \/ tool[q] = "started" => Cmd!AtWork(q)
      BY DEF CmdUploaded, Cmd!Active, Cmd!AtWork, Cmd!ToolRuns
    <3>3. ASSUME CmdUploaded(q)
          PROVE  \E i \in Numbers :
                   /\ loaded[q] = [id |-> i, payload |-> q] /\ published'[i] = q
                   /\ cmdTarget[q] # None => i = cmdTarget[q]
                   /\ tool[q] = "ended" => vdf'[cmdTarget[q]] = loaded[q]
      <4>1. PICK i \in Numbers :
              /\ loaded[q] = [id |-> i, payload |-> q] /\ published[i] = q
              /\ cmdTarget[q] # None => i = cmdTarget[q]
              /\ tool[q] = "ended" => vdf[cmdTarget[q]] = loaded[q]
        BY <1>1, <3>1, <3>3 DEF CmdStand
      <4>2. published'[i] = q /\ vdf'[cmdTarget[q]] = vdf[cmdTarget[q]]
        BY <3>1, <3>2, <3>3, <4>1
      <4> QED BY <4>1, <4>2
    <3> QED BY <1>1, <2>1, <3>1, <3>2, <3>3 DEF CmdStand, CmdUploaded, CmdOwn
  <2> QED BY <2>2, <2>3
<1>3. CASE q = p
  BY <1>3, CmdStandOwn
<1> QED BY <1>2, <1>3

\* One upload, and one id handed back, for a publish with a file of its own.
LEMMA CmdOwnStep ==
  ASSUME CmdInv, NEW q \in Publishes, CmdStep(q), NEW p \in Publishes \ shared
  PROVE  /\ tool'[p] = "uploaded" /\ tool[p] # "uploaded" =>
              \E i \in Numbers : /\ published' = [published EXCEPT ![i] = p]
                                 /\ IF cmdTarget[p] = None THEN published[i] = None
                                                           ELSE i = cmdTarget[p]
         /\ stage[p] = "exited" /\ stage'[p] = "ok" =>
              \E i \in Numbers : result'[p] = i /\ published[i] = p
<1> USE CmdAssumption DEF CmdInv, CmdType, Cmd!Goto, Cmd!Finish, Cmd!At,
        Cmd!clientVars, Cmd!toolVars, Cmd!VdfPath, Cmd!WriteVdf
<1>1. CmdStand(p)
  BY DEF CmdStands
<1>2. ASSUME tool'[p] = "uploaded", tool[p] # "uploaded"
      PROVE  \E i \in Numbers : /\ published' = [published EXCEPT ![i] = p]
                                /\ IF cmdTarget[p] = None THEN published[i] = None
                                                          ELSE i = cmdTarget[p]
  <2>1. PICK i \in Numbers : p = q /\ Cmd!ToolUploads(p, i)
    BY <1>2 DEF CmdStep, Cmd!Prepare, Cmd!PrepareFails, Cmd!Exited, Cmd!Fail, Cmd!ReadId,
       Cmd!BeginVdf, Cmd!EndVdf, Cmd!ToolLoads, Cmd!ToolWritesId, Cmd!ToolGone, Cmd!ToolUploads
  <2>2. loaded[p] = CmdOwn(p)
    BY <1>1, <2>1 DEF CmdStand, Cmd!ToolUploads
  <2>3. published' = [published EXCEPT ![i] = p]
    BY <2>1, <2>2 DEF Cmd!ToolUploads, CmdOwn
  <2>4. IF cmdTarget[p] = None THEN published[i] = None ELSE i = cmdTarget[p]
    BY <2>1, <2>2 DEF Cmd!ToolUploads, CmdOwn
  <2> QED BY <2>3, <2>4
<1>3. ASSUME stage[p] = "exited", stage'[p] = "ok"
      PROVE  \E i \in Numbers : result'[p] = i /\ published[i] = p
  <2>1. p = q /\ Cmd!ReadId(p)
    BY <1>3 DEF CmdStep, Cmd!Prepare, Cmd!PrepareFails, Cmd!Exited, Cmd!Fail, Cmd!ReadId,
       Cmd!BeginVdf, Cmd!EndVdf, Cmd!ToolLoads, Cmd!ToolWritesId, Cmd!ToolGone, Cmd!ToolUploads
  <2>2. PICK i \in Numbers : vdf[cmdTarget[p]] = [id |-> i, payload |-> p] /\ published[i] = p
    BY <1>1, <1>3 DEF CmdStand, CmdUploaded
  <2>3. vdf[cmdTarget[p]] \notin {None, Cmd!Partial}
    BY <2>2 DEF Cmd!Partial, CmdVdf
  <2>4. result'[p] = i
    BY <2>1, <2>2, <2>3 DEF Cmd!ReadId
  <2> QED BY <2>2, <2>4
<1> QED BY <1>2, <1>3

\* Whatever files earlier publishes left, and whoever publishes what else at the same
\* time: a publish whose VDF file no other one used uploads its own payload, to its
\* item or to one that was not in use, and hands back the id of that item.
THEOREM CmdOwnsItem == Cmd!Spec => CmdOwnItem
<1>1. Cmd!Init => CmdInv
  BY CmdInitInv
<1>2. CmdInv /\ [Cmd!Next]_(Cmd!vars) => CmdInv'
  <2> SUFFICES ASSUME CmdInv, [Cmd!Next]_(Cmd!vars)
               PROVE  CmdInv'
    OBVIOUS
  <2>1. ASSUME NEW p \in Publishes, CmdStep(p)
        PROVE  CmdInv'
    BY <2>1, CmdTypeStep, CmdAloneStep, CmdNamedStep, CmdNewStep, CmdStandStep DEF CmdInv
  <2>2. CASE UNCHANGED Cmd!vars
    BY <2>2 DEF Cmd!vars, Cmd!clientVars, Cmd!toolVars, CmdInv, CmdType, CmdAlone, CmdNamed, CmdNew,
       CmdStands, CmdStand, CmdUploaded, CmdOwn, Cmd!Active, Cmd!AtWork, Cmd!ToolRuns
  <2> QED BY <2>1, <2>2 DEF Cmd!Next, CmdStep
<1>3. CmdInv /\ [Cmd!Next]_(Cmd!vars) =>
        [ \A p \in Publishes \ shared :
            /\ tool'[p] = "uploaded" /\ tool[p] # "uploaded" =>
                 \E i \in Numbers : /\ published' = [published EXCEPT ![i] = p]
                                    /\ IF cmdTarget[p] = None THEN published[i] = None
                                                              ELSE i = cmdTarget[p]
            /\ stage[p] = "exited" /\ stage'[p] = "ok" =>
                 \E i \in Numbers : result'[p] = i /\ published[i] = p ]_(Cmd!vars)
  BY CmdOwnStep DEF Cmd!Next, CmdStep
<1> QED BY <1>1, <1>2, <1>3, PTL DEF Cmd!Spec, CmdOwnItem, Cmd!OwnItem

=============================================================================

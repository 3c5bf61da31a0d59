---------------------------- MODULE SteamPipePublish ----------------------------
(***************************************************************************)
(* Publishing a Workshop item through Steamworks: WorkshopPublisher prepares  *)
(* the payload in temporary folders, SteamPipeClient starts the helper        *)
(* process and reads its events, the helper (Stunstick.SteamPipe) creates     *)
(* the item and submits the update, from a staged copy when Steam could not   *)
(* find the files, and the user may cancel meanwhile.                         *)
(*                                                                         *)
(* Steam is external: it answers each call in any of the ways the helper       *)
(* tells apart, or never.  A failed answer does not mean that nothing was     *)
(* done, and Steam may finish an update after the helper has died.  Folder     *)
(* names contain a new GUID: what a publish left behind is out of sight of     *)
(* the next one.                                                            *)
(***************************************************************************)
EXTENDS Naturals, Sequences, FiniteSets

CONSTANTS
  Ids,             \* the item ids Steam may hand out, and those that exist
  Existing,        \* those that exist at the start
  Files,           \* the files of the content folder
  Preparations,    \* the sequences of temporary folders a request may need
  MaxPublishes,    \* bound on the publishes, each begun when the last is over
  None

Temp     == {"stage", "pack"}       \* of WorkshopPublisher
Stagings == {"steamapps", "data"}   \* of the helper
Folders  == {"content"} \cup Temp \cup Stagings

ASSUME PublishAssumption ==
  /\ Existing \subseteq Ids /\ MaxPublishes \in Nat
  /\ None \notin Ids /\ \A files \in SUBSET Files : files # None
  /\ Preparations \subseteq {<<>>, <<"stage">>, <<"pack">>, <<"stage", "pack">>}

VARIABLES
  phase,      \* the publisher: "idle", "preparing", "running" or "cleaning"
  target,     \* request.PublishedFileId, None for a new item
  todo,       \* the temporary folders still to be made
  payload,    \* the folder to upload
  outcome,    \* the id PublishAsync returned, or "failed"
  cancelled,  \* the cancellation token
  got,        \* resultTcs of the client
  folder,     \* the files in every folder, None when it does not exist
  helper,     \* where the helper process is
  item,       \* its publishedFileId
  line,       \* its last event in the pipe, None before and after
  call, from, reply,   \* its outstanding Steam call, the folder and the answer
  items,      \* Steam's items: their files, None when there is no such item
  made,       \* history: the items created for this publish
  left,       \* history: folders whose owner died or whose making failed
  publishes

clientVars == <<phase, target, todo, payload, outcome, cancelled, got, publishes>>
callVars   == <<call, from, reply>>
vars == <<clientVars, folder, helper, item, line, callVars, items, made, left>>

Alive == helper \notin {"off", "ended", "dead"}

Present(fs) == {f \in fs : folder[f] # None}

Init ==
  /\ phase = "idle" /\ target = None /\ todo = <<>> /\ payload = "content"
  /\ outcome = "failed" /\ cancelled = FALSE /\ got = None /\ publishes = 0
  /\ folder = [f \in Folders |-> None]
  /\ helper = "off" /\ item = None /\ line = None
  /\ call = "none" /\ from = "content" /\ reply = "none"
  /\ items = [i \in Ids |-> IF i \in Existing THEN {} ELSE None]
  /\ made = {} /\ left = {}

-----------------------------------------------------------------------------
(* WorkshopPublisher *)

\* The user publishes a new item or updates one whose id is known.
StartPublish(id, steps, content) ==
  /\ phase = "idle" /\ ~Alive /\ publishes < MaxPublishes
  /\ id \in (Existing \cup {None, outcome}) \ {"failed"}
  /\ phase' = "preparing" /\ publishes' = publishes + 1
  /\ target' = id /\ todo' = steps /\ payload' = "content"
  /\ folder' = [f \in Folders |-> IF f = "content" THEN content ELSE None]
  /\ outcome' = "failed" /\ cancelled' = FALSE /\ got' = None
  /\ helper' = "off" /\ item' = None /\ line' = None
  /\ call' = "none" /\ from' = "content" /\ reply' = "none"
  /\ made' = {} /\ left' = {}
  /\ UNCHANGED items

PrepareFrame ==
  UNCHANGED <<target, outcome, cancelled, got, publishes, helper, item, line, callVars, items, made>>

PrepareFolder ==
  /\ phase = "preparing" /\ todo # <<>> /\ folder[Head(todo)] = None
  /\ folder' = [folder EXCEPT ![Head(todo)] = {}]
  /\ UNCHANGED <<phase, todo, payload, left>> /\ PrepareFrame

\* One more file of the payload is copied or packed into the next folder.
PrepareFile(f) ==
  /\ phase = "preparing" /\ todo # <<>>
  /\ folder[Head(todo)] # None /\ f \in folder[payload] \ folder[Head(todo)]
  /\ folder' = [folder EXCEPT ![Head(todo)] = @ \cup {f}]
  /\ UNCHANGED <<phase, todo, payload, left>> /\ PrepareFrame

Prepared ==
  /\ phase = "preparing" /\ todo # <<>>
  /\ folder[Head(todo)] = folder[payload]
  /\ payload' = Head(todo) /\ todo' = Tail(todo)
  /\ UNCHANGED <<phase, folder, left>> /\ PrepareFrame

\* An exception or a cancellation: the finally block is not reached, so the
\* folders stay, those that were complete included.
PrepareFails ==
  /\ phase = "preparing"
  /\ phase' = "idle" /\ left' = Present(Temp)
  /\ UNCHANGED <<todo, payload, folder>> /\ PrepareFrame

StartHelper ==
  /\ phase = "preparing" /\ todo = <<>>
  /\ phase' = "running" /\ helper' = "preflight"
  /\ UNCHANGED <<target, todo, payload, outcome, cancelled, got, publishes, folder, item,
                 line, callVars, items, made, left>>

\* The process cannot be started.
StartFails ==
  /\ phase = "preparing" /\ todo = <<>>
  /\ phase' = "cleaning"
  /\ UNCHANGED <<target, todo, payload, outcome, cancelled, got, publishes, folder, helper,
                 item, line, callVars, items, made, left>>

ClientFrame ==
  UNCHANGED <<target, todo, payload, publishes, item, callVars, items, made, left>>

\* Mutant: only the folder that was uploaded is deleted.
CleanUpPayload ==
  /\ phase = "cleaning"
  /\ phase' = "idle"
  /\ folder' = [f \in Folders |-> IF f \in Temp \cap {payload} THEN None ELSE folder[f]]
  /\ UNCHANGED <<outcome, cancelled, got, helper, line>> /\ ClientFrame

\* The finally block of PublishViaSteamPipeAsync.
CleanUp ==
  /\ phase = "cleaning"
  /\ phase' = "idle"
  /\ folder' = [f \in Folders |-> IF f \in Temp THEN None ELSE folder[f]]
  /\ UNCHANGED <<outcome, cancelled, got, helper, line>> /\ ClientFrame

-----------------------------------------------------------------------------
(* SteamPipeClient.RunAndParseAsync *)

\* The result or the error is the last line the client reads.
ReadEvent ==
  /\ phase = "running" /\ line # None
  /\ got' = line /\ line' = None
  /\ UNCHANGED <<phase, outcome, cancelled, folder, helper>> /\ ClientFrame

\* Mutant: the result is awaited too.
CompleteWithResult == ~Alive /\ line = None /\ got # None

\* WhenAll: the process has exited and both streams are at their end.
Complete == ~Alive /\ line = None

Return ==
  /\ phase = "running" /\ Complete
  /\ phase' = "cleaning" /\ outcome' = IF got = None THEN "failed" ELSE got
  /\ UNCHANGED <<cancelled, got, folder, helper, line>> /\ ClientFrame

Cancel ==
  /\ phase = "running" /\ ~cancelled
  /\ cancelled' = TRUE
  /\ UNCHANGED <<phase, outcome, got, folder, helper, line>> /\ ClientFrame

\* The callback registered with the token, if it runs before the method ends
\* and disposes the registration.
KillHelper ==
  /\ phase = "running" /\ cancelled /\ Alive
  /\ helper' = "dead" /\ left' = left \cup Present(Stagings)
  /\ UNCHANGED <<clientVars, folder, item, line, callVars, items, made>>

\* Mutant: a cancelled client waits for the process it killed.
ReturnCancelledAfterExit ==
  /\ phase = "running" /\ cancelled /\ ~Alive
  /\ phase' = "cleaning" /\ outcome' = "failed"
  /\ UNCHANGED <<cancelled, got, folder, helper, line>> /\ ClientFrame

\* The token ends all three waits, whatever the helper does.
ReturnCancelled ==
  /\ phase = "running" /\ cancelled
  /\ phase' = "cleaning" /\ outcome' = "failed"
  /\ UNCHANGED <<cancelled, got, folder, helper, line>> /\ ClientFrame

-----------------------------------------------------------------------------
(* The helper: Program.PublishAsync *)

HelperFrame == UNCHANGED <<clientVars, items, made>>

Call(op, f) == helper' = "waiting" /\ call' = op /\ from' = f /\ reply' = "none"

Report(event) ==
  /\ helper' = "reported" /\ line' = event
  /\ call' = "none" /\ reply' = "none" /\ UNCHANGED from

\* Steam cannot be initialised, the preview cannot be read, nothing to upload.
PreflightFails ==
  /\ helper = "preflight"
  /\ Report("failed") /\ item' = target
  /\ UNCHANGED <<folder, left>> /\ HelperFrame

Preflight ==
  /\ helper = "preflight" /\ folder[payload] \notin {None, {}}
  /\ Call(IF target = None THEN "create" ELSE "details", payload) /\ item' = target
  /\ UNCHANGED <<folder, left, line>> /\ HelperFrame

Answered(op) == helper = "waiting" /\ call = op /\ reply # "none"

DetailsAnswered ==
  /\ Answered("details")
  /\ IF reply = "missing" THEN Report("failed") ELSE Call("submit", payload) /\ UNCHANGED line
  /\ UNCHANGED <<folder, left, item>> /\ HelperFrame

\* Mutant: a creation that failed is tried again.
CreateAnsweredRepeats ==
  /\ Answered("create")
  /\ IF reply = "ok"
     THEN Call("submit", payload) /\ item' \in made
     ELSE Call("create", payload) /\ UNCHANGED item
  /\ UNCHANGED <<folder, left, line>> /\ HelperFrame

CreateAnswered ==
  /\ Answered("create")
  /\ IF reply = "ok"
     THEN /\ Call("submit", payload) /\ UNCHANGED line
          /\ item' \in made
     ELSE Report("failed") /\ UNCHANGED item
  /\ UNCHANGED <<folder, left>> /\ HelperFrame

\* Mutant: the answer is not looked at but for the retry.
SubmitAnsweredReports ==
  /\ Answered("submit") /\ from = payload
  /\ IF reply = "notfound"
     THEN helper' = "staging" /\ call' = "none" /\ reply' = "none" /\ UNCHANGED <<from, line>>
     ELSE Report(item)
  /\ UNCHANGED <<folder, left, item>> /\ HelperFrame

\* The first submission is answered; "not found" leads to the staged retry.
SubmitAnswered ==
  /\ Answered("submit") /\ from = payload
  /\ IF reply = "notfound"
     THEN helper' = "staging" /\ call' = "none" /\ reply' = "none" /\ UNCHANGED <<from, line>>
     ELSE Report(IF reply = "ok" THEN item ELSE "failed")
  /\ UNCHANGED <<folder, left, item>> /\ HelperFrame

\* StagePublishInputs in the preferred folder.
BeginStaging(base) ==
  /\ helper = "staging"
  /\ helper' = "copying" /\ from' = base
  /\ folder' = [folder EXCEPT ![base] = {}]
  /\ UNCHANGED <<line, call, reply, item, left>> /\ HelperFrame

StageFile(f) ==
  /\ helper = "copying" /\ folder[payload] # None /\ f \in folder[payload] \ folder[from]
  /\ folder' = [folder EXCEPT ![from] = @ \cup {f}]
  /\ UNCHANGED <<helper, line, callVars, item, left>> /\ HelperFrame

\* Mutant: the retry does not wait for the copy.
RetryEarly ==
  /\ helper = "copying"
  /\ Call("submit", from)
  /\ UNCHANGED <<folder, line, item, left>> /\ HelperFrame

Retry ==
  /\ helper = "copying" /\ folder[from] = folder[payload]
  /\ Call("submit", from)
  /\ UNCHANGED <<folder, line, item, left>> /\ HelperFrame

\* The copy fails: below Steam's folder another place is tried; then the
\* exception leaves stagingRoot null, so nothing is deleted.
StagingFails ==
  /\ helper = "copying"
  /\ left' = left \cup {from}
  /\ IF from = "steamapps"
     THEN /\ from' = "data" /\ folder' = [folder EXCEPT !["data"] = {}]
          /\ UNCHANGED <<helper, line, call, reply>>
     ELSE Report("failed") /\ UNCHANGED folder
  /\ UNCHANGED item /\ HelperFrame

\* The finally block, then the result of the retry or the first failure.
RetryAnswered ==
  /\ Answered("submit") /\ from # payload
  /\ folder' = [folder EXCEPT ![from] = None]
  /\ Report(IF reply = "ok" THEN item ELSE "failed")
  /\ UNCHANGED <<left, item>> /\ HelperFrame

HelperExit ==
  /\ helper = "reported"
  /\ helper' = "ended"
  /\ UNCHANGED <<folder, line, callVars, item, left>> /\ HelperFrame

\* The process dies by itself, in Steam's library for example.
HelperCrash ==
  /\ Alive
  /\ helper' = "dead" /\ left' = left \cup Present(Stagings)
  /\ UNCHANGED <<folder, line, callVars, item>> /\ HelperFrame

-----------------------------------------------------------------------------
(* Steam *)

SteamFrame == UNCHANGED <<clientVars, folder, helper, item, line, call, from, left>>

SteamDetails ==
  /\ call = "details" /\ reply = "none"
  /\ reply' \in {"ok", "missing"}
  /\ UNCHANGED <<items, made>> /\ SteamFrame

SteamCreates(id) ==
  /\ call = "create" /\ reply = "none" /\ items[id] = None
  /\ items' = [items EXCEPT ![id] = {}] /\ made' = made \cup {id}
  /\ reply' \in {"ok", "failed"}
  /\ SteamFrame

\* The files are taken as they are when Steam reads them.
SteamCommits ==
  /\ call = "submit" /\ reply = "none" /\ folder[from] # None
  /\ items' = [items EXCEPT ![item] = folder[from]]
  /\ reply' \in {"ok", "failed"}
  /\ UNCHANGED made /\ SteamFrame

SteamRefuses ==
  /\ call \in {"create", "submit"} /\ reply = "none"
  /\ reply' \in {"failed"} \cup (IF call = "submit" THEN {"notfound"} ELSE {})
  /\ UNCHANGED <<items, made>> /\ SteamFrame

-----------------------------------------------------------------------------

PublisherStep ==
  \/ PrepareFolder \/ (\E f \in Files : PrepareFile(f)) \/ Prepared
  \/ StartHelper \/ StartFails \/ CleanUp

ClientStep == ReadEvent \/ Return \/ ReturnCancelled

HelperStep ==
  \/ PreflightFails \/ Preflight \/ DetailsAnswered \/ CreateAnswered \/ SubmitAnswered
  \/ (\E base \in Stagings : BeginStaging(base)) \/ (\E f \in Files : StageFile(f))
  \/ Retry \/ StagingFails \/ RetryAnswered \/ HelperExit

Next ==
  \/ \E id \in Ids \cup {None}, steps \in Preparations, content \in {{}, Files} :
       StartPublish(id, steps, content)
  \/ PublisherStep \/ PrepareFails
  \/ ClientStep \/ Cancel \/ KillHelper
  \/ HelperStep \/ HelperCrash
  \/ SteamDetails \/ (\E id \in Ids : SteamCreates(id)) \/ SteamCommits \/ SteamRefuses

Spec == Init /\ [][Next]_vars

\* Processes that can run do.  Nothing is assumed of Steam or of the user.
Fairness == WF_vars(PublisherStep) /\ WF_vars(ClientStep) /\ WF_vars(HelperStep)

FairSpec == Spec /\ Fairness

-----------------------------------------------------------------------------

\* A publish that succeeds returns an item of Steam's that holds the whole
\* payload, also when it was uploaded by the staged retry, and the item is its
\* target or the only one it created.
ReportedComplete ==
  (phase \in {"cleaning", "idle"} /\ outcome # "failed") =>
    /\ items[outcome] = Files
    /\ made = {outcome} \ {target}

\* While the helper waits for an upload that nobody cancelled, the folder it
\* uploads is there in full: neither side cleans up too early.
PayloadHeld ==
  (call = "submit" /\ reply = "none" /\ helper = "waiting" /\ ~cancelled)
    => folder[from] = folder["content"]

\* When a publish is over and its helper gone, no folder is left but those whose
\* owner died or whose making failed.
NoLitter ==
  (phase = "idle" /\ ~Alive) => Present(Temp \cup Stagings) \subseteq left

\* A publish comes to an end unless it waits for Steam for ever, and a cancelled one
\* ends even when Steam never answers.
Returns ==
  /\ <>[](phase = "running") => <>[](helper = "waiting" /\ reply = "none")
  /\ (phase = "running" /\ cancelled) ~> (phase = "idle")

=============================================================================

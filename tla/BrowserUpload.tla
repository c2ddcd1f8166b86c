--------------------------- MODULE BrowserUpload ---------------------------
(***************************************************************************)
(* One upload task of the browser: web_ui/src/stores/uploads.ts, its saved *)
(* record in IndexedDB (task-db.ts), the buttons of UploadsView.vue, and   *)
(* the session as the gateway's answers show it (UploadSession has its     *)
(* inside).                                                                *)
(*                                                                         *)
(* A flow is one run of an async function of the store; an action is the   *)
(* effect and the answer of the call it awaits, with the code (and its     *)
(* saves and deletes in IndexedDB) up to the next call.  Flows share the   *)
(* task object they were given: a status read after an await may be one    *)
(* that another flow has set.  restore makes a new object of the saved     *)
(* record and shows that one, and leaves the flows of the old one running. *)
(***************************************************************************)
EXTENDS Integers, FiniteSetsExt

CONSTANTS
  Flows,      \* async functions in progress (a bound)
  Copies,     \* task objects in memory (a bound)
  NoCopy,
  NumParts,
  Senders,    \* parts sent at once: 3 in the code
  Ops,        \* what the user does besides adding the file
  Failures    \* calls, with or without their effect, and workers may fail

ASSUME BrowserAssumption ==
  /\ NoCopy \notin Copies
  /\ NumParts \in Nat \ {0} /\ Senders \in Nat \ {0}
  /\ Ops \subseteq {"pause", "resume", "cancel", "reload", "navigate"}
  /\ Failures \in BOOLEAN

VARIABLES
  session,     \* upload_session.status
  parts,       \* the parts GET /uploads/<id> lists
  announced,   \* the consumer has a FILE_UPLOAD_COMPLETE to apply
  catalogued,  \* the hash is a file_object
  busy,        \* another user uploads the hash
  added,       \* the user has added the file
  saved,       \* the record in IndexedDB
  shown,       \* the object in tasks.value
  copy,        \* the task objects
  pc, on,      \* of each flow: the call it awaits, its object
  queue, flying  \* of each flow: parts to send, parts being sent

server  == <<session, parts, announced, catalogued, busy>>
sending == <<queue, flying>>
flows   == <<pc, on, sending>>
vars    == <<server, added, saved, shown, copy, flows>>

\* Mutant: parts numbered from 0.
FromZero == 0..(NumParts - 1)

Parts == 1..NumParts

Task   == [status : {"none", "hashing", "waiting", "uploading", "paused",
                     "finalizing", "complete", "failed", "instant"},
           hash : BOOLEAN, id : BOOLEAN]
NoTask == [status |-> "none", hash |-> FALSE, id |-> FALSE]

HttpCalls == {"initiate", "complete", "poll", "pause", "resume", "get", "cancel",
              "reconcile"}
Awaits == HttpCalls \union {"idle", "hash", "timer", "upload", "rehash", "load"}

Init ==
  /\ session = "NONE" /\ parts = {} /\ announced = FALSE /\ catalogued = FALSE
  /\ busy \in BOOLEAN
  /\ added = FALSE /\ saved = NoTask /\ shown = NoCopy
  /\ copy = [c \in Copies |-> NoTask]
  /\ pc = [f \in Flows |-> "idle"] /\ on = [f \in Flows |-> NoCopy]
  /\ queue = [f \in Flows |-> {}] /\ flying = [f \in Flows |-> {}]

-----------------------------------------------------------------------------
(* The server: what a call does there.                                     *)

Decision ==
  IF catalogued THEN "INSTANT"
  ELSE IF busy \/ session \in {"FINALIZING", "COMPLETE"} THEN "WAIT" ELSE "UPLOAD"

Writable == {"UPLOADING", "PAUSED"}

\* A session the user has is taken up again, with the parts it has.
ServeInitiate ==
  IF Decision = "UPLOAD"
  THEN /\ session' = "UPLOADING"
       /\ parts' = IF session \in Writable THEN parts ELSE {}
       /\ UNCHANGED <<announced, catalogued, busy>>
  ELSE UNCHANGED server

\* A part authorised now, or before a pause or a completion.
ServePart(p) ==
  /\ session \in Writable \union {"FINALIZING", "COMPLETE"}
  /\ parts' = parts \union {p}
  /\ UNCHANGED <<session, announced, catalogued, busy>>

ServeComplete ==
  \/ /\ session = "UPLOADING" /\ parts = Parts
     /\ session' = "FINALIZING" /\ announced' = TRUE
     /\ UNCHANGED <<parts, catalogued, busy>>
  \/ session \in {"FINALIZING", "COMPLETE"} /\ UNCHANGED server

\* Announced, but that call's answer is lost: UPLOADING again, and an error.
ServeReverted ==
  /\ Failures
  /\ session = "UPLOADING" /\ parts = Parts
  /\ announced' = TRUE
  /\ UNCHANGED <<session, parts, catalogued, busy>>

CompleteRefused ==
  session \notin {"FINALIZING", "COMPLETE"} /\ (session # "UPLOADING" \/ parts # Parts)

SetStatus(st) == session' = st /\ UNCHANGED <<parts, announced, catalogued, busy>>

ServeCancel ==
  \/ /\ session \in Writable \union {"FAILED"}
     /\ session' = "CANCELLED" /\ parts' = {}
     /\ UNCHANGED <<announced, catalogued, busy>>
  \/ session = "CANCELLED" /\ UNCHANGED server

\* The call that f awaits takes effect.
Serve(f) ==
  \/ pc[f] = "initiate" /\ ServeInitiate
  \/ pc[f] = "complete" /\ (ServeComplete \/ ServeReverted)
  \/ pc[f] = "pause" /\ SetStatus("PAUSED")
  \/ pc[f] = "resume" /\ SetStatus("UPLOADING")
  \/ pc[f] = "cancel" /\ ServeCancel

HandleUploadComplete ==
  /\ announced /\ announced' = FALSE
  /\ \/ session \in {"CANCELLED", "FAILED"} /\ UNCHANGED <<session, catalogued>>
     \/ /\ session \notin {"CANCELLED", "FAILED"}
        /\ session' = "COMPLETE" /\ catalogued' = TRUE
  /\ UNCHANGED <<parts, busy, added, saved, shown, copy, flows>>

\* The other user completes the file or gives it up.
OtherEnds ==
  /\ busy /\ busy' = FALSE
  /\ catalogued' \in BOOLEAN
  /\ UNCHANGED <<session, parts, announced, added, saved, shown, copy, flows>>

-----------------------------------------------------------------------------
(* Flows.                                                                  *)

Free(f)  == pc[f] = "idle" /\ flying[f] = {}
task(f)  == copy[on[f]]
Unused(c) == c # shown /\ \A f \in Flows : on[f] = c => Free(f)

Begin(f, c, call) ==
  /\ Free(f)
  /\ pc' = [pc EXCEPT ![f] = call]
  /\ on' = [on EXCEPT ![f] = c]
  /\ UNCHANGED sending

Goto(f, call) == pc' = [pc EXCEPT ![f] = call] /\ UNCHANGED <<on, sending>>

\* The flow returns; runners of its uploadParts that still wait go on.
End(f) == Goto(f, "idle")

Assign(f, t) == copy' = [copy EXCEPT ![on[f]] = t]

\* Assignments to the object, and saveTask or deleteTask.
Save(f, t)   == Assign(f, t) /\ saved' = t
Delete(f, t) == Assign(f, t) /\ saved' = NoTask

WithStatus(f, st) == [task(f) EXCEPT !.status = st]

Fail(f) ==
  /\ \/ task(f).status = "paused" /\ UNCHANGED <<copy, saved>>
     \/ task(f).status # "paused" /\ Save(f, WithStatus(f, "failed"))
  /\ End(f)

-----------------------------------------------------------------------------
(* uploadParts.                                                            *)

Firsts(ps) == {p \in ps : Cardinality({q \in ps : q <= p}) <= Senders}

SendParts(f, uploaded) ==
  LET todo == Parts \ uploaded IN
  /\ pc' = [pc EXCEPT ![f] = "upload"]
  /\ flying' = [flying EXCEPT ![f] = Firsts(todo)]
  /\ queue' = [queue EXCEPT ![f] = todo \ Firsts(todo)]
  /\ UNCHANGED on

\* The part a runner whose part p was sent takes next, if any.
NextPart(f) ==
  IF task(f).status = "uploading" /\ queue[f] # {} THEN {Min(queue[f])} ELSE {}

PartSent(f, p) ==
  /\ p \in flying[f] /\ ServePart(p)
  /\ saved' = task(f)
  /\ flying' = [flying EXCEPT ![f] = (@ \ {p}) \union NextPart(f)]
  /\ queue' = [queue EXCEPT ![f] = @ \ NextPart(f)]
  /\ UNCHANGED <<added, shown, copy, pc, on>>

\* The last of the three attempts fails.  The runner of a task that is no
\* longer uploading returns; else it throws, the first time to initiate or
\* resume, which fails the task while the other runners still wait.
PartFailed(f, p) ==
  /\ p \in flying[f]
  /\ \/ session # "UPLOADING" /\ UNCHANGED server
     \/ Failures /\ (ServePart(p) \/ UNCHANGED server)
  /\ flying' = [flying EXCEPT ![f] = @ \ {p}]
  /\ IF task(f).status = "uploading" /\ pc[f] = "upload"
     THEN Save(f, WithStatus(f, "failed")) /\ pc' = [pc EXCEPT ![f] = "idle"]
     ELSE UNCHANGED <<saved, copy, pc>>
  /\ UNCHANGED <<added, shown, on, queue>>

\* All runners have returned.
PartsDone(f) ==
  /\ pc[f] = "upload" /\ flying[f] = {}
  /\ \/ /\ task(f).status = "uploading"
        /\ Save(f, WithStatus(f, "finalizing")) /\ Goto(f, "complete")
     \/ /\ task(f).status # "uploading"
        /\ End(f) /\ UNCHANGED <<saved, copy>>
  /\ UNCHANGED <<server, added, shown>>

-----------------------------------------------------------------------------
(* add, hashAndUpload, initiate, complete.                                 *)

Add(f, c) ==
  /\ ~added /\ added' = TRUE
  /\ Unused(c) /\ Begin(f, c, "hash")
  /\ LET t == [NoTask EXCEPT !.status = "hashing"] IN
       copy' = [copy EXCEPT ![c] = t] /\ saved' = t
  /\ shown' = c
  /\ UNCHANGED server

Hash(f) ==
  /\ pc[f] = "hash"
  /\ \/ Save(f, [task(f) EXCEPT !.hash = TRUE]) /\ Goto(f, "initiate")
     \/ Failures /\ Fail(f)
  /\ UNCHANGED <<server, added, shown>>

Initiate(f) ==
  /\ pc[f] = "initiate" /\ ServeInitiate
  /\ \/ /\ Decision = "INSTANT"
        /\ Delete(f, WithStatus(f, "instant")) /\ End(f)
     \/ /\ Decision = "WAIT"
        /\ Save(f, WithStatus(f, "waiting")) /\ Goto(f, "timer")
     \/ /\ Decision = "UPLOAD"
        /\ Save(f, [WithStatus(f, "uploading") EXCEPT !.id = TRUE])
        /\ SendParts(f, {})        \* the answer lists no parts
  /\ UNCHANGED <<added, shown>>

\* Ceph refuses to begin the upload.
InitiateRefused(f) ==
  /\ pc[f] = "initiate" /\ Failures
  /\ Decision = "UPLOAD" /\ session \notin Writable
  /\ SetStatus("FAILED") /\ Fail(f)
  /\ UNCHANGED <<added, shown>>

Timer(f) ==
  /\ pc[f] = "timer"
  /\ IF task(f).status = "waiting" THEN Goto(f, "initiate") ELSE End(f)
  /\ UNCHANGED <<server, added, saved, shown, copy>>

Complete(f) ==
  /\ pc[f] = "complete"
  /\ \/ ServeComplete /\ Goto(f, "poll") /\ UNCHANGED <<saved, copy>>
     \/ CompleteRefused /\ UNCHANGED server /\ Fail(f)
  /\ UNCHANGED <<added, shown>>

\* toUploadInfo answers a FINALIZING session as UPLOADING.
Told == IF session = "FINALIZING" THEN "UPLOADING" ELSE session

\* Mutant: an upload that is being confirmed is taken as complete.
ToldFinished == session \in {"FINALIZING", "COMPLETE"}

ToldComplete == Told = "COMPLETE"

\* Mutant: waitForComplete without its sixty attempts.
PollForEver(f) ==
  /\ pc[f] = "poll" /\ ToldComplete
  /\ Delete(f, WithStatus(f, "complete")) /\ End(f)
  /\ UNCHANGED <<server, added, shown>>

\* One attempt of waitForComplete, or the end of its sixty.
Poll(f) ==
  /\ pc[f] = "poll"
  /\ \/ ToldComplete /\ Delete(f, WithStatus(f, "complete")) /\ End(f)
     \/ ~ToldComplete /\ Fail(f)
  /\ UNCHANGED <<server, added, shown>>

-----------------------------------------------------------------------------
(* pause, resume, cancel: the buttons of UploadsView.                      *)

Click(f, op) == op \in Ops /\ shown # NoCopy /\ Free(f)

Pause(f) ==
  /\ Click(f, "pause") /\ copy[shown].status = "uploading"
  /\ LET t == [copy[shown] EXCEPT !.status = "paused"] IN
       copy' = [copy EXCEPT ![shown] = t] /\ saved' = t
  /\ Begin(f, shown, "pause")
  /\ UNCHANGED <<server, added, shown>>

Paused(f) ==
  /\ pc[f] = "pause"
  /\ SetStatus("PAUSED") /\ End(f)
  /\ UNCHANGED <<added, saved, shown, copy>>

Resume(f) ==
  /\ Click(f, "resume") /\ copy[shown].status = "paused"
  /\ copy' = [copy EXCEPT ![shown].status = "hashing"]
  /\ Begin(f, shown, "rehash")
  /\ UNCHANGED <<server, added, saved, shown>>

\* Another file of the same name and size may be chosen.
Rehash(f) ==
  /\ pc[f] = "rehash"
  /\ \/ Goto(f, IF task(f).id THEN "resume" ELSE "get") /\ UNCHANGED <<saved, copy>>
     \/ Save(f, WithStatus(f, "paused")) /\ End(f)
     \/ Failures /\ Fail(f)
  /\ UNCHANGED <<server, added, shown>>

Resumed(f) ==
  /\ pc[f] = "resume"
  /\ SetStatus("UPLOADING") /\ Goto(f, "get")
  /\ UNCHANGED <<added, saved, shown, copy>>

\* Without an id: GET /uploads/undefined.
Get(f) ==
  /\ pc[f] = "get"
  /\ \/ ~task(f).id /\ Fail(f)
     \/ /\ task(f).id /\ ToldComplete
        /\ Delete(f, WithStatus(f, "complete")) /\ End(f)
     \/ /\ task(f).id /\ ~ToldComplete
        /\ Save(f, WithStatus(f, "uploading")) /\ SendParts(f, parts)
  /\ UNCHANGED <<server, added, shown>>

Cancel(f) ==
  /\ Click(f, "cancel")
  /\ copy[shown].status \notin {"complete", "instant", "finalizing"}
  /\ \/ /\ copy[shown].id
        /\ Begin(f, shown, "cancel") /\ UNCHANGED <<saved, shown>>
     \/ /\ ~copy[shown].id
        /\ saved' = NoTask /\ shown' = NoCopy /\ UNCHANGED flows
  /\ UNCHANGED <<server, added, copy>>

Cancelled(f) ==
  /\ pc[f] = "cancel"
  /\ \/ ServeCancel /\ saved' = NoTask /\ shown' = NoCopy
     \/ /\ session \in {"FINALIZING", "COMPLETE"}                 \* refused
        /\ UNCHANGED <<server, saved, shown>>
  /\ End(f)
  /\ UNCHANGED <<added, copy>>

-----------------------------------------------------------------------------
(* restore, on each mount of a view that lists the tasks.                  *)

Load(f, c) ==
  /\ pc[f] = "load"
  /\ \/ /\ saved = NoTask /\ shown' = NoCopy
        /\ End(f) /\ UNCHANGED copy
     \/ /\ saved # NoTask /\ Unused(c)
        /\ copy' = [copy EXCEPT ![c] = saved]
        /\ on' = [on EXCEPT ![f] = c] /\ pc' = [pc EXCEPT ![f] = "reconcile"]
        /\ UNCHANGED <<shown, sending>>
  /\ UNCHANGED <<server, added, saved>>

\* Mutant: every record without a session is deleted.
SessionLess(t) == ~t.id

Hashless(t) == ~t.id /\ ~t.hash

Gone(t) ==
  \/ t.status \in {"complete", "instant"}
  \/ Hashless(t)
  \/ t.id /\ Told \in {"COMPLETE", "CANCELLED"}

\* Mutant: a record whose session could not be asked for loses its id.
Unasked(t) == [t EXCEPT !.status = "paused", !.id = FALSE]

AsPaused(t) == [t EXCEPT !.status = "paused"]

Reconciled(t) ==
  IF t.id THEN [t EXCEPT !.status = IF Told = "FAILED" THEN "failed" ELSE "paused",
                         !.hash = TRUE]
  ELSE AsPaused(t)

Reconcile(f) ==
  /\ pc[f] = "reconcile"
  /\ \/ Gone(task(f)) /\ saved' = NoTask /\ shown' = NoCopy /\ UNCHANGED copy
     \/ /\ ~Gone(task(f))
        /\ Save(f, Reconciled(task(f))) /\ shown' = on[f]
  /\ End(f)
  /\ UNCHANGED <<server, added>>

ReconcileFails(f) ==
  /\ pc[f] = "reconcile" /\ Failures
  /\ task(f).id /\ task(f).status \notin {"complete", "instant"}
  /\ Save(f, AsPaused(task(f))) /\ shown' = on[f]
  /\ End(f)
  /\ UNCHANGED <<server, added>>

Navigate(f) ==
  /\ "navigate" \in Ops
  /\ Begin(f, NoCopy, "load")
  /\ UNCHANGED <<server, added, saved, shown, copy>>

\* A call in flight may still take effect.  A reload before the file is
\* added is left out: its restore is that of Navigate.
Reload(f) ==
  /\ "reload" \in Ops /\ added
  /\ \/ UNCHANGED server
     \/ \E g \in Flows : Serve(g) \/ \E p \in flying[g] : ServePart(p)
  /\ pc' = [g \in Flows |-> IF g = f THEN "load" ELSE "idle"]
  /\ on' = [g \in Flows |-> NoCopy]
  /\ queue' = [g \in Flows |-> {}] /\ flying' = [g \in Flows |-> {}]
  /\ copy' = [c \in Copies |-> NoTask] /\ shown' = NoCopy
  /\ UNCHANGED <<added, saved>>

\* A call fails, with or without its effect: the catch of its flow.
CallFails(f) ==
  /\ Failures
  /\ Serve(f) \/ UNCHANGED server
  /\ \/ pc[f] \in {"initiate", "complete", "poll", "resume", "get"} /\ Fail(f)
     \/ pc[f] = "pause" /\ Save(f, WithStatus(f, "uploading")) /\ End(f)
     \/ pc[f] = "cancel" /\ End(f) /\ UNCHANGED <<saved, copy>>
  /\ UNCHANGED <<added, shown>>

-----------------------------------------------------------------------------

\* What the code owes: an answer or its absence is followed by the next call.
Step(f) ==
  \/ Hash(f) \/ Initiate(f) \/ InitiateRefused(f) \/ Timer(f)
  \/ \E p \in Parts : PartSent(f, p) \/ PartFailed(f, p)
  \/ PartsDone(f) \/ Complete(f) \/ Poll(f)
  \/ Paused(f) \/ Rehash(f) \/ Resumed(f) \/ Get(f) \/ Cancelled(f)
  \/ \E c \in Copies : Load(f, c)
  \/ Reconcile(f) \/ ReconcileFails(f) \/ CallFails(f)

User(f) ==
  \/ \E c \in Copies : Add(f, c)
  \/ Pause(f) \/ Resume(f) \/ Cancel(f) \/ Navigate(f) \/ Reload(f)

Next ==
  \/ \E f \in Flows : Step(f) \/ User(f)
  \/ HandleUploadComplete \/ OtherEnds

Spec == Init /\ [][Next]_vars

\* The event loop runs every callback; the user owes nothing.
FairSpec == Spec /\ \A f \in Flows : WF_vars(Step(f))

-----------------------------------------------------------------------------
(* Properties.                                                             *)

\* The session, the records and the flows hold values of their kinds, and
\* every part sent or to send is a part of the file.
TypeOK ==
  /\ session \in {"NONE", "UPLOADING", "PAUSED", "FINALIZING", "COMPLETE",
                  "FAILED", "CANCELLED"}
  /\ parts \subseteq 1..NumParts
  /\ saved \in Task /\ copy \in [Copies -> Task]
  /\ shown \in Copies \union {NoCopy}
  /\ pc \in [Flows -> Awaits] /\ on \in [Flows -> Copies \union {NoCopy}]
  /\ \A f \in Flows : queue[f] \union flying[f] \subseteq 1..NumParts

\* A task reads complete or instant only when the file is in the catalogue,
\* whatever pauses, reloads and late answers came between.
FinishedIsCatalogued ==
  \A c \in Copies : copy[c].status \in {"complete", "instant"} => catalogued

\* What ties a record to a session: its id, or the hash of the file.
Named(t) == t.hash \/ t.id

\* While the server holds an unfinished session of the user, IndexedDB has a
\* record that names it, or at least the file, so that a reload at any moment
\* shows the task again.  One with the id can be resumed; one with the hash
\* alone cannot (resume asks for /uploads/undefined), but adding the file again
\* takes its session up.
Recoverable == session \in Writable /\ ~catalogued => Named(saved)

\* Once the record names the session it goes on naming it until the session
\* is over: no save, failed answer or reload loses what resume needs.
IdIsKept == [][saved.id /\ ~saved'.id => catalogued \/ session = "CANCELLED"]_vars

Busy == shown # NoCopy /\ copy[shown].status \in {"hashing", "uploading", "finalizing"}

\* When calls do not fail, a task that hashes, uploads or is being confirmed
\* gets somewhere: it is not left so by pauses, resumptions and visits of
\* views that overlap.
BusyEnds == Busy ~> ~Busy
=============================================================================

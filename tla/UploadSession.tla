--------------------------- MODULE UploadSession ---------------------------
(***************************************************************************)
(* The life of one upload_session row: file_srv/handler/server.go, with    *)
(* the calls it makes to storage_srv and Ceph, the Redis keys it keeps and *)
(* the consumer of FILE_UPLOAD_COMPLETE.                                   *)
(*                                                                         *)
(* Every table row, Redis key and Ceph key of an upload is named by the    *)
(* hash of the file (or by the id of the one row its unique index allows), *)
(* so one hash is modelled.  A request is a slot that runs one handler;    *)
(* each action is one call the handler makes to MySQL, Redis, Ceph or      *)
(* RocketMQ, with the code up to the next one.  seen and got are the       *)
(* handler's locals, read before a call and used after it.                 *)
(***************************************************************************)
EXTENDS CephStore

CONSTANTS
  Users, NoUser,
  Reqs, NoReq,   \* slots for requests in flight (a bound), and an empty lock
  Multipart,     \* the mode UploadPlan chose for the file
  Slow,          \* requests whose initiation may outlive its 30 s lock
  Ops,           \* the endpoints clients call in this instance
  Faults         \* what may go wrong in this instance:
                 \*   crash    a process dies with a request half done
                 \*   outage   a service, Ceph, RocketMQ or Redis refuses a call
                 \*   reply    a call to one takes effect and its answer is lost
                 \*   sent     the same of the call that announces a completion
                 \*   abort    the same of an abort
                 \*   mysql    a call to MySQL fails, perhaps after its effect
                 \*   ignored  a call whose error the code drops fails

ASSUME RequestAssumption ==
  /\ NoUser \notin Users
  /\ NoReq \notin Reqs
  /\ Ops \subseteq {"initiate", "part", "get", "complete", "pause", "resume",
                     "heartbeat", "cancel"}
  /\ Slow \subseteq Reqs
  /\ Faults \subseteq {"crash", "outage", "reply", "sent", "abort", "mysql", "ignored"}

ASSUME ModeAssumption == Multipart \in BOOLEAN /\ (~Multipart => NumParts = 1)

VARIABLES
  row,         \* MySQL upload_session
  object,      \* MySQL file_object: there is one, COMPLETE
  refs,        \* MySQL user_file: the users who list the object
  lock,        \* Redis lock_hash:<hash>
  parts,       \* Redis upload_parts:<id>
  heartbeat,   \* Redis upload_heartbeat:<id> exists
  waiters,     \* Redis upload_waiters:<hash>
  allFile,     \* Redis all_file has the hash
  pending,     \* the broker holds a FILE_UPLOAD_COMPLETE for the row
  after,       \* the consumer has committed and not run AfterUploadComplete
  pc, who, seen, got   \* of each request: next call, user, row read, parts

mysql == <<row, object, refs>>
redis == <<lock, parts, heartbeat, waiters, allFile>>
queue == <<pending, after>>
local == <<who, seen, got>>
vars  == <<mysql, redis, queue, cephVars, pc, local>>

Active == {"INIT", "UPLOADING", "PAUSED"}

\* Mutant: CancelUpload without its refusal of a completed session.
CancellableOrComplete == Active \union {"FAILED", "COMPLETE"}

Cancellable == Active \union {"FAILED"}

Statuses == Cancellable \union {"NONE", "COMPLETE", "CANCELLED", "FINALIZING"}

Rows  == [user : Users \union {NoUser}, status : Statuses,
          ceph : CephIds \union {NoCeph}]
NoRow == [user |-> NoUser, status |-> "NONE", ceph |-> NoCeph]

\* The calls of InitiateUpload made with the lock held.
Locked == {"recheck", "lookup", "heartbeat", "takeover", "write", "begin",
           "mark", "save", "touch", "unlock"}

Calls == Locked \union
  {"idle", "lock",
   "put", "record",
   "getList", "getFill", "completeList", "completeFill",
   "claim", "resolve", "assemble", "stat", "announce", "revert",
   "cancel", "cancelResolve", "abort", "restore", "clean",
   "pause", "resume", "beat"}

Init ==
  /\ row = NoRow /\ object = FALSE /\ refs = {}
  /\ lock = NoReq /\ parts = {} /\ heartbeat = FALSE
  /\ waiters = {} /\ allFile = FALSE
  /\ pending = FALSE /\ after = FALSE
  /\ CephInit
  /\ pc = [r \in Reqs |-> "idle"]
  /\ who = [r \in Reqs |-> NoUser]
  /\ seen = [r \in Reqs |-> NoRow]
  /\ got = [r \in Reqs |-> {}]

-----------------------------------------------------------------------------
(* Requests.                                                               *)

Goto(r, call) ==
  pc[r] # "idle" /\ pc' = [pc EXCEPT ![r] = call] /\ UNCHANGED local

GotoSeeing(r, call, x) ==
  /\ pc' = [pc EXCEPT ![r] = call]
  /\ seen' = [seen EXCEPT ![r] = x]
  /\ UNCHANGED <<who, got>>

Return(r) ==
  /\ pc' = [pc EXCEPT ![r] = "idle"]
  /\ who' = [who EXCEPT ![r] = NoUser]
  /\ seen' = [seen EXCEPT ![r] = NoRow]
  /\ got' = [got EXCEPT ![r] = {}]

Arrive(r, op, u, call, x, ps) ==
  /\ op \in Ops
  /\ pc[r] = "idle"
  /\ pc' = [pc EXCEPT ![r] = call]
  /\ who' = [who EXCEPT ![r] = u]
  /\ seen' = [seen EXCEPT ![r] = x]
  /\ got' = [got EXCEPT ![r] = ps]

Fails(fault) == fault \in Faults

\* The values of a variable after `_ = write`: its error is dropped.
BestEffort(new, old) == {new} \union (IF Fails("ignored") THEN {old} ELSE {})

SetRowStatus(st) == [row EXCEPT !.status = st]

\* A write of the row that is answered by an error, whatever it did.
Unanswered(new) == Fails("mysql") /\ row' \in {new, row}

\* getSession: the row exists and is the user's.
Owns(u) == row.status # "NONE" /\ row.user = u

-----------------------------------------------------------------------------
(* InitiateUpload.                                                         *)

\* attachExisting of a catalogued hash: INSTANT, whatever the insert returns.
Attach(u) == refs' \in BestEffort(refs \union {u}, refs)

InitiateInstant(u) ==
  /\ "initiate" \in Ops /\ object /\ Attach(u)
  /\ UNCHANGED <<row, object, redis, queue, cephVars, pc, local>>

InitiateUpload(r, u) ==
  /\ ~object
  /\ Arrive(r, "initiate", u, "lock", NoRow, {})
  /\ UNCHANGED <<mysql, redis, queue, cephVars>>

\* Mutant: SET without NX.
TakeLock(r) ==
  /\ pc[r] = "lock"
  /\ lock' = r /\ Goto(r, "recheck")
  /\ UNCHANGED <<mysql, parts, heartbeat, waiters, allFile, queue, cephVars>>

AcquireLock(r) ==
  /\ pc[r] = "lock"
  /\ \/ lock = NoReq /\ lock' = r /\ Goto(r, "recheck")
     \/ lock = NoReq /\ Fails("reply") /\ lock' = r /\ Return(r)
     \/ lock # NoReq /\ Return(r) /\ UNCHANGED lock      \* WAIT
  /\ UNCHANGED <<mysql, parts, heartbeat, waiters, allFile, queue, cephVars>>

AttachExisting(r) ==
  /\ pc[r] = "recheck"
  /\ \/ object /\ Attach(who[r]) /\ Goto(r, "unlock")
     \/ ~object /\ Goto(r, "lookup") /\ UNCHANGED refs
     \/ Fails("mysql") /\ Goto(r, "unlock") /\ UNCHANGED refs
  /\ UNCHANGED <<row, object, redis, queue, cephVars>>

LookupSession(r) ==
  /\ pc[r] = "lookup"
  /\ \/ row.status \in Active /\ GotoSeeing(r, "heartbeat", row)
     \/ row.status \in {"NONE", "FAILED", "CANCELLED"} /\ GotoSeeing(r, "write", row)
     \/ row.status \in {"FINALIZING", "COMPLETE"} /\ Goto(r, "unlock")   \* WAIT
     \/ Fails("mysql") /\ Goto(r, "unlock")
  /\ UNCHANGED <<mysql, redis, queue, cephVars>>

IsLive(r) == seen[r].user # who[r] /\ heartbeat

CheckHeartbeat(r) ==
  /\ pc[r] = "heartbeat"
  /\ \/ /\ IsLive(r)                                                     \* WAIT
        /\ waiters' \in BestEffort(waiters \union {who[r]}, waiters)
        /\ Goto(r, "unlock")
     \/ /\ ~IsLive(r) \/ Fails("ignored")      \* an error reads as no heartbeat
        /\ GotoSeeing(r, "takeover",
             [seen[r] EXCEPT !.user = who[r], !.status = "UPLOADING"])
        /\ UNCHANGED waiters
  /\ UNCHANGED <<mysql, lock, parts, heartbeat, allFile, queue, cephVars>>

\* gorm's Save writes every column of the row read by LookupSession.
TakeOver(r) ==
  /\ pc[r] = "takeover"
  /\ \/ row' = seen[r] /\ Goto(r, "touch")
     \/ Unanswered(seen[r]) /\ Goto(r, "unlock")
  /\ UNCHANGED <<object, refs, redis, queue, cephVars>>

NewSession(u) == [user |-> u, status |-> "INIT", ceph |-> NoCeph]

\* Save over the old row's id, or Create, which the unique index may refuse.
WriteSession(r) ==
  /\ pc[r] = "write"
  /\ \/ /\ seen[r].status = "NONE" /\ row.status # "NONE"
        /\ Goto(r, "unlock")
        /\ UNCHANGED row
     \/ /\ seen[r].status # "NONE" \/ row.status = "NONE"
        /\ \/ /\ row' = NewSession(who[r])
              /\ GotoSeeing(r, "begin", NewSession(who[r]))
           \/ Unanswered(NewSession(who[r])) /\ Goto(r, "unlock")
  /\ UNCHANGED <<object, refs, redis, queue, cephVars>>

\* When the bound CephIds is used up, Ceph refuses too.
Refused == Fails("outage") \/ (Multipart /\ \A c \in CephIds : uploads[c].state # "fresh")

\* Mutant: the upload id BeginUpload returns is not kept.
BegunWithoutId(r, c) == [seen[r] EXCEPT !.status = "UPLOADING"]

Begun(r, c) == [seen[r] EXCEPT !.status = "UPLOADING", !.ceph = c]

BeginUpload(r) ==
  /\ pc[r] = "begin"
  /\ \/ /\ Multipart
        /\ \E c \in CephIds :
             /\ NewMultipartUpload(c)
             /\ \/ GotoSeeing(r, "save", Begun(r, c))
                \/ Fails("reply") /\ Goto(r, "mark")
     \/ /\ ~Multipart
        /\ GotoSeeing(r, "save", Begun(r, NoCeph))
        /\ UNCHANGED cephVars
     \/ /\ Refused
        /\ Goto(r, "mark")
        /\ UNCHANGED cephVars
  /\ UNCHANGED <<mysql, redis, queue>>

MarkFailed(r) ==
  /\ pc[r] = "mark"
  /\ row' \in BestEffort(SetRowStatus("FAILED"), row)
  /\ Goto(r, "unlock")
  /\ UNCHANGED <<object, refs, redis, queue, cephVars>>

SaveSession(r) ==
  /\ pc[r] = "save"
  /\ \/ row' = seen[r] /\ Goto(r, "touch")
     \/ Unanswered(seen[r]) /\ Goto(r, "unlock")
  /\ UNCHANGED <<object, refs, redis, queue, cephVars>>

Touched == heartbeat' \in BestEffort(TRUE, heartbeat)

TouchHeartbeat(r) ==
  /\ pc[r] = "touch"
  /\ Touched
  /\ Goto(r, "unlock")
  /\ UNCHANGED <<mysql, lock, parts, waiters, allFile, queue, cephVars>>

\* Mutant: a plain DEL.
NoLock(r) == NoReq

\* The compare-and-delete script of the deferred Eval.
ReleasedLock(r) == IF lock = r THEN NoReq ELSE lock

Unlock(r) ==
  /\ pc[r] = "unlock"
  /\ lock' \in BestEffort(ReleasedLock(r), lock)
  /\ Return(r)
  /\ UNCHANGED <<mysql, parts, heartbeat, waiters, allFile, queue, cephVars>>

-----------------------------------------------------------------------------
(* storage_srv UploadPart: AuthorizePart, the write to Ceph, RecordPart.   *)

\* Mutant: the check of the part number is off by one.
OneMorePart == 1..(NumParts + 1)

PartNumbers == 1..NumParts

AuthorizePart(r, u, p) ==
  /\ p \in PartNumbers
  /\ Owns(u) /\ row.status = "UPLOADING"
  /\ Arrive(r, "part", u, "put", row, {p})
  /\ Touched
  /\ UNCHANGED <<mysql, lock, parts, waiters, allFile, queue, cephVars>>

WritePart(r) ==
  IF Multipart THEN PutObjectPart(seen[r].ceph, got[r]) ELSE PutObject

PutPart(r) ==
  /\ pc[r] = "put"
  /\ \/ WritePart(r) /\ Goto(r, "record")
     \/ WritePart(r) /\ Fails("reply") /\ Return(r)
     \/ /\ Fails("outage") \/ (Multipart /\ ~IsOpen(seen[r].ceph))
        /\ Return(r)
        /\ UNCHANGED cephVars
  /\ UNCHANGED <<mysql, redis, queue>>

\* RecordPart checks neither the row's status nor its user.
RecordPart(r) ==
  /\ pc[r] = "record"
  /\ \/ parts' = parts \union got[r] /\ Touched
     \/ Fails("reply") /\ parts' = parts \union got[r] /\ UNCHANGED heartbeat
     \/ Fails("outage") /\ UNCHANGED <<parts, heartbeat>>
  /\ Return(r)
  /\ UNCHANGED <<mysql, lock, waiters, allFile, queue, cephVars>>

-----------------------------------------------------------------------------
(* GetUpload, and the loadParts it shares with CompleteUpload: the cached  *)
(* parts, or when there is none those of a multipart upload in Ceph.       *)

CacheMiss == parts = {} \/ Fails("ignored")

Complete(ps) == ps = Parts      \* len(parts) = ChunkCount

\* A CompleteUpload that finds the row FINALIZING does just this too.
GetUpload(r, u) ==
  /\ Owns(u) /\ Multipart /\ CacheMiss
  /\ Arrive(r, "get", u, "getList", row, {})
  /\ UNCHANGED <<mysql, redis, queue, cephVars>>

CompleteUpload(r, u) ==
  /\ Owns(u) /\ row.status = "UPLOADING"
  /\ \/ /\ Complete(parts)
        /\ Arrive(r, "complete", u, "claim", row, parts)
     \/ /\ Multipart /\ CacheMiss
        /\ Arrive(r, "complete", u, "completeList", row, {})
  /\ UNCHANGED <<mysql, redis, queue, cephVars>>

\* ListParts resolves the row again and asks Ceph; an error reads as no parts.
Remote(r) == IF Owns(who[r]) THEN ListedParts(row.ceph) ELSE {}

ListParts(r) ==
  /\ pc[r] \in {"getList", "completeList"}
  /\ \/ /\ Remote(r) # {}
        /\ got' = [got EXCEPT ![r] = Remote(r)]
        /\ pc' = [pc EXCEPT ![r] = IF @ = "getList" THEN "getFill" ELSE "completeFill"]
        /\ UNCHANGED <<who, seen>>
     \/ /\ Remote(r) = {} \/ Fails("outage")
        /\ Return(r)
  /\ UNCHANGED <<mysql, redis, queue, cephVars>>

LoadParts(r) ==
  /\ pc[r] \in {"getFill", "completeFill"}
  /\ parts' \in BestEffort(parts \union got[r], parts)
  /\ IF pc[r] = "completeFill" /\ Complete(got[r])
     THEN Goto(r, "claim") ELSE Return(r)
  /\ UNCHANGED <<mysql, lock, heartbeat, waiters, allFile, queue, cephVars>>

-----------------------------------------------------------------------------
(* CompleteUpload, in file_srv and storage_srv.                            *)

\* UPDATE ... WHERE id = ? AND status = UPLOADING.
ClaimCompletion(r) ==
  /\ pc[r] = "claim"
  /\ \/ /\ row.status = "UPLOADING"
        /\ \/ row' = SetRowStatus("FINALIZING") /\ Goto(r, "resolve")
           \/ Unanswered(SetRowStatus("FINALIZING")) /\ Return(r)
     \/ row.status # "UPLOADING" /\ Return(r) /\ UNCHANGED row
  /\ UNCHANGED <<object, refs, redis, queue, cephVars>>

ResolveComplete(r) ==
  /\ pc[r] = "resolve"
  /\ \/ /\ Owns(who[r])
        /\ GotoSeeing(r, IF Multipart THEN "assemble" ELSE "stat", row)
     \/ /\ ~Owns(who[r]) \/ Fails("outage")
        /\ Goto(r, "revert")
  /\ UNCHANGED <<mysql, redis, queue, cephVars>>

\* An object already under the key is taken for this upload's.
Assemble(r) ==
  /\ pc[r] = "assemble"
  /\ \/ stored /\ Goto(r, "stat") /\ UNCHANGED cephVars
     \/ /\ ~stored
        /\ CompleteMultipartUpload(seen[r].ceph, got[r])
        /\ \/ Goto(r, "stat")
           \/ Fails("reply") /\ Goto(r, "revert")
     \/ /\ ~stored
        /\ Fails("outage") \/ ~CanAssemble(seen[r].ceph, got[r])
        /\ Goto(r, "revert")
        /\ UNCHANGED cephVars
  /\ UNCHANGED <<mysql, redis, queue>>

StatObject(r) ==
  /\ pc[r] = "stat"
  /\ \/ stored /\ Goto(r, "announce")
     \/ /\ ~stored \/ Fails("outage")
        /\ Goto(r, "revert")
  /\ UNCHANGED <<mysql, redis, queue, cephVars>>

Announce(r) ==
  /\ pc[r] = "announce"
  /\ \/ pending' = TRUE /\ Return(r)
     \/ Fails("sent") /\ pending' = TRUE /\ Goto(r, "revert")
     \/ Fails("outage") /\ Goto(r, "revert") /\ UNCHANGED pending
  /\ UNCHANGED <<mysql, redis, after, cephVars>>

\* Mutant: a failed completion leaves the row as it is.
Unreverted == row

Reverted == SetRowStatus("UPLOADING")

RevertCompletion(r) ==
  /\ pc[r] = "revert"
  /\ \/ /\ row.status = "FINALIZING"
        /\ row' \in BestEffort(Reverted, row)
     \/ row.status # "FINALIZING" /\ UNCHANGED row
  /\ Return(r)
  /\ UNCHANGED <<object, refs, redis, queue, cephVars>>

-----------------------------------------------------------------------------
(* CancelUpload.                                                           *)

CancelUpload(r, u) ==
  /\ Owns(u) /\ row.status \in Cancellable
  /\ Arrive(r, "cancel", u, "cancel", row, {})
  /\ UNCHANGED <<mysql, redis, queue, cephVars>>

ClaimCancel(r) ==
  /\ pc[r] = "cancel"
  /\ \/ /\ row.status \in Cancellable
        /\ \/ row' = SetRowStatus("CANCELLED") /\ Goto(r, "cancelResolve")
           \/ Unanswered(SetRowStatus("CANCELLED")) /\ Return(r)
     \/ row.status \notin Cancellable /\ Return(r) /\ UNCHANGED row
  /\ UNCHANGED <<object, refs, redis, queue, cephVars>>

\* AbortUpload resolves the row again: its upload id is the one of now.
ResolveCancel(r) ==
  /\ pc[r] = "cancelResolve"
  /\ \/ /\ Owns(who[r])
        /\ GotoSeeing(r, "abort", [seen[r] EXCEPT !.ceph = row.ceph])
     \/ /\ ~Owns(who[r]) \/ Fails("outage")
        /\ Goto(r, "restore")
  /\ UNCHANGED <<mysql, redis, queue, cephVars>>

\* Mutant: every upload is discarded by removing its object.
NoUpload(r) == FALSE

HasUpload(r) == Multipart /\ seen[r].ceph # NoCeph

Discard(r) ==
  IF HasUpload(r) THEN AbortMultipartUpload(seen[r].ceph) ELSE RemoveObject

AbortUpload(r) ==
  /\ pc[r] = "abort"
  /\ \/ Discard(r) /\ Goto(r, "clean")
     \/ Discard(r) /\ Fails("abort") /\ Goto(r, "restore")
     \/ /\ Fails("outage") \/ (HasUpload(r) /\ ~IsOpen(seen[r].ceph))
        /\ Goto(r, "restore")
        /\ UNCHANGED cephVars
  /\ UNCHANGED <<mysql, redis, queue>>

RestoreStatus(r) ==
  /\ pc[r] = "restore"
  /\ \/ /\ row.status = "CANCELLED"
        /\ row' \in BestEffort(SetRowStatus(seen[r].status), row)
     \/ row.status # "CANCELLED" /\ UNCHANGED row
  /\ Return(r)
  /\ UNCHANGED <<object, refs, redis, queue, cephVars>>

\* Mutant: only the heartbeat is deleted.
ClearHeartbeat(r) ==
  /\ pc[r] = "clean"
  /\ heartbeat' = FALSE
  /\ Return(r)
  /\ UNCHANGED <<mysql, lock, parts, waiters, allFile, queue, cephVars>>

ClearUpload(r) ==
  /\ pc[r] = "clean"
  /\ \/ parts' = {} /\ heartbeat' = FALSE
     \/ Fails("ignored") /\ UNCHANGED <<parts, heartbeat>>
  /\ Return(r)
  /\ UNCHANGED <<mysql, lock, waiters, allFile, queue, cephVars>>

-----------------------------------------------------------------------------
(* PauseUpload, ResumeUpload, HeartbeatUpload.                             *)

UploadAction(r, u) ==
  /\ Owns(u)
  /\ \/ Arrive(r, "pause", u, "pause", row, {})
     \/ Arrive(r, "resume", u, "resume", row, {})
     \/ Arrive(r, "heartbeat", u, "beat", row, {})
  /\ UNCHANGED <<mysql, redis, queue, cephVars>>

\* setStatus updates by id alone, whatever the row has become.
SetStatus(r) ==
  /\ \/ pc[r] = "pause" /\ row' = SetRowStatus("PAUSED") /\ Return(r)
     \/ pc[r] = "pause" /\ Unanswered(SetRowStatus("PAUSED")) /\ Return(r)
     \/ pc[r] = "resume" /\ row' = SetRowStatus("UPLOADING") /\ Goto(r, "beat")
     \/ pc[r] = "resume" /\ Unanswered(SetRowStatus("UPLOADING")) /\ Return(r)
  /\ UNCHANGED <<object, refs, redis, queue, cephVars>>

Beat(r) ==
  /\ pc[r] = "beat"
  /\ Touched
  /\ Return(r)
  /\ UNCHANGED <<mysql, lock, parts, waiters, allFile, queue, cephVars>>

-----------------------------------------------------------------------------
(* The consumer of FILE_UPLOAD_COMPLETE, and the outside world.            *)

\* Mutant: only a FINALIZING row is completed.
AllButFinalizing == Statuses \ {"FINALIZING", "NONE"}

\* Mutant: the consumer completes whatever row the event names.
NoneDropped == {}

Dropped == {"CANCELLED", "FAILED"}

\* Mutant: an object that exists is not listed for the session's user.
ListedIfNew == IF object THEN refs ELSE refs \union {row.user}

Listed == refs \union {row.user}

\* One transaction under the row's lock.  The broker may deliver an event
\* again, so pending need not go.
HandleUploadComplete ==
  /\ pending
  /\ pending' \in BOOLEAN
  /\ \/ /\ row.status \in Dropped
        /\ UNCHANGED <<mysql, after>>
     \/ /\ row.status \notin Dropped \union {"NONE"}
        /\ object' = TRUE
        /\ refs' = Listed
        /\ row' = SetRowStatus("COMPLETE")
        /\ after' = TRUE
  /\ UNCHANGED <<redis, cephVars, pc, local>>

AfterUploadComplete ==
  /\ after
  /\ after' = FALSE
  /\ allFile' \in BestEffort(TRUE, allFile)
  /\ heartbeat' \in BestEffort(FALSE, heartbeat)
  /\ waiters' \in BestEffort({}, waiters)
  /\ UNCHANGED <<mysql, lock, parts, pending, cephVars, pc, local>>

\* The consumer dies after the commit, or the commit's answer is lost: the
\* event was never acknowledged.
ConsumerCrash ==
  /\ Fails("crash") \/ Fails("mysql")
  /\ after
  /\ after' = FALSE /\ pending' = TRUE
  /\ UNCHANGED <<mysql, redis, cephVars, pc, local>>

Crash(r) ==
  /\ Fails("crash") /\ pc[r] # "idle"
  /\ Return(r)
  /\ UNCHANGED <<mysql, redis, queue, cephVars>>

LockExpires ==
  /\ lock # NoReq
  /\ lock \in Slow \/ pc[lock] \notin Locked
  /\ lock' = NoReq
  /\ UNCHANGED <<mysql, parts, heartbeat, waiters, allFile, queue, cephVars, pc, local>>

HeartbeatExpires ==
  /\ heartbeat /\ heartbeat' = FALSE
  /\ UNCHANGED <<mysql, lock, parts, waiters, allFile, queue, cephVars, pc, local>>

-----------------------------------------------------------------------------

\* A client's call begins.
Request(r, u) ==
  \/ InitiateUpload(r, u)
  \/ \E p \in 1..(NumParts + 1) : AuthorizePart(r, u, p)
  \/ GetUpload(r, u) \/ CompleteUpload(r, u)
  \/ CancelUpload(r, u) \/ UploadAction(r, u)

\* The handler that runs in r makes its next call.
Handler(r) ==
  \/ AcquireLock(r) \/ AttachExisting(r) \/ LookupSession(r)
  \/ CheckHeartbeat(r) \/ TakeOver(r)
  \/ WriteSession(r) \/ BeginUpload(r) \/ MarkFailed(r) \/ SaveSession(r)
  \/ TouchHeartbeat(r) \/ Unlock(r)
  \/ PutPart(r) \/ RecordPart(r)
  \/ ListParts(r) \/ LoadParts(r)
  \/ ClaimCompletion(r) \/ ResolveComplete(r) \/ Assemble(r)
  \/ StatObject(r) \/ Announce(r) \/ RevertCompletion(r)
  \/ ClaimCancel(r) \/ ResolveCancel(r) \/ AbortUpload(r)
  \/ RestoreStatus(r) \/ ClearUpload(r)
  \/ SetStatus(r) \/ Beat(r)

Consumer == HandleUploadComplete \/ AfterUploadComplete

World ==
  \/ ConsumerCrash \/ LockExpires \/ HeartbeatExpires
  \/ \E r \in Reqs : Crash(r)

Next ==
  \/ \E u \in Users : InitiateInstant(u)
  \/ \E r \in Reqs, u \in Users : Request(r, u)
  \/ \E r \in Reqs : Handler(r)
  \/ Consumer
  \/ World

Spec == Init /\ [][Next]_vars

\* A goroutine that serves a request runs on, and RocketMQ delivers until it
\* is acknowledged.  No client, timer or crash is owed a step.
Fairness ==
  /\ \A r \in Reqs : WF_vars(Handler(r))
  /\ WF_vars(HandleUploadComplete) /\ WF_vars(AfterUploadComplete)

FairSpec == Spec /\ Fairness

-----------------------------------------------------------------------------
(* Properties.                                                             *)

TableTypeOK ==
  /\ row \in Rows
  /\ refs \subseteq Users
  /\ lock \in Reqs \union {NoReq}
  /\ parts \subseteq Parts
  /\ waiters \subseteq Users

FlagTypeOK ==
  /\ object \in BOOLEAN /\ heartbeat \in BOOLEAN /\ allFile \in BOOLEAN
  /\ pending \in BOOLEAN /\ after \in BOOLEAN

CallTypeOK ==
  /\ pc \in [Reqs -> Calls]
  /\ who \in [Reqs -> Users \union {NoUser}]
  /\ seen \in [Reqs -> Rows]
  /\ got \in [Reqs -> SUBSET Parts]

\* Every table, key, flag and handler's local holds a value of its kind; the
\* cached and the stored parts are parts of the file.
TypeOK == TableTypeOK /\ FlagTypeOK /\ CephTypeOK /\ CallTypeOK

\* Whatever handlers interleave, and however often a stale row is saved or a
\* status restored, a row reads COMPLETE only when the consumer's transaction
\* made the file_object and listed it for the user the row names; an object
\* always has a lister, and Redis announces none that MySQL lacks.
CompletedIsIndexed ==
  /\ row.status = "COMPLETE" => object /\ row.user \in refs
  /\ object <=> refs # {}
  /\ allFile \/ after => object

\* What a row's status tells a client.
Phase ==
  IF row.status = "NONE" THEN "none"
  ELSE IF row.status = "COMPLETE" THEN "complete"
  ELSE IF row.status \in {"CANCELLED", "FAILED"} THEN "dropped"
  ELSE "open"

Contract == INSTANCE UploadContract WITH
  phase <- Phase, owner <- row.user, catalogued <- object, listers <- refs

\* The handlers, the consumer and the stale rows they save keep the contract:
\* above all, no event or restored status completes a session that was
\* cancelled or failed, and no row is COMPLETE without its owner's file.
KeepsContract == Contract!Spec

\* A request that has passed SetNX, not yet run its deferred script and stays
\* within its 30 s is the one whose value lock_hash holds: a WAIT, a crash, or
\* the late script of one that does not stay within them, never frees it.
LockExclusive ==
  \A r \in Reqs : r \notin Slow /\ pc[r] \in Locked => lock = r

\* Even when initiations outlive the 30 s: the script that ends a late one
\* does not free the lock that another now holds.  Only its holder or its
\* expiry (which moves no handler) takes the lock away.
LockReleasedByOwner ==
  [][\A r \in Reqs : lock = r /\ pc[r] \in Locked /\ lock' # r
                     => pc'[r] = "idle" \/ pc' = pc]_vars

\* What the catalogue lists can be read: no cancel, abort or retry removes
\* the bytes of a file_object (the key is shared by every session of the hash).
\* (A single upload that is announced, reverted as the answer is lost, and then
\* cancelled and initiated again does: its event outlives its object.)
ObjectBacked == object => stored

\* A multipart session that clients may go on with, and whose object is not
\* there yet.
Unfinished ==
  Multipart /\ lock = NoReq /\ row.status \in {"UPLOADING", "PAUSED"} /\ ~stored

\* Such a session names an upload that Ceph still holds open: retries, calls a
\* service refuses and takeovers never leave a row whose parts no one can ever
\* write.  (A Save that MySQL refuses or answers with an error does.)
WritableIsOpen == Unfinished => IsOpen(row.ceph)

\* An upload that such a session names is open: what remains of WritableIsOpen
\* when MySQL fails, requests overlap or are paused, but nobody cancels.
NamedIsOpen == Unfinished => row.ceph = NoCeph \/ IsOpen(row.ceph)

\* Nor does Redis list a part that upload lacks, which the browser would skip
\* and CompleteMultipartUpload would then refuse for ever.
CachedPartsExist ==
  Unfinished /\ IsOpen(row.ceph) => parts \subseteq uploads[row.ceph].parts

\* CancelUpload's refusal: a completed file's session is never cancelled.
CompletedNotCancelled == ~(object /\ row.status = "CANCELLED")

\* The handler that claimed the completion is still at it, or its event waits.
BeingFinalized ==
  pending \/ \E r \in Reqs :
    pc[r] \in {"resolve", "assemble", "stat", "announce", "revert"}

\* FINALIZING locks the hash against every user, so it must not last: while a
\* handler or an event is there to see to it, it ends in an applied event or a
\* revert.  (With neither, after a claim that was answered by an error, a crash
\* or a revert whose error was dropped, the code has nothing that ends it.)
FinalizingResolves ==
  row.status = "FINALIZING" /\ BeingFinalized ~> row.status # "FINALIZING"

\* An announced upload gets into the catalogue even if it is paused, resumed
\* or taken over meanwhile, unless it is found cancelled or failed.
AnnouncedIsIndexed ==
  pending ~> object \/ row.status \in {"CANCELLED", "FAILED"}
=============================================================================

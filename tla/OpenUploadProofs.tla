-------------------------- MODULE OpenUploadProofs --------------------------
(***************************************************************************)
(* Clients that initiate, send parts, ask for their upload and complete    *)
(* it, any number of them at once, never strand a multipart session,       *)
(* though the services, Ceph, RocketMQ and Redis refuse calls or lose      *)
(* answers while MySQL serves: what the row names is an upload Ceph holds  *)
(* open, with every part that is cached.                                   *)
(*                                                                         *)
(* It takes an initiation that ends within its lock's 30 s, no cancel (it  *)
(* closes an upload another request goes on with), no pause or resume      *)
(* (they set an INIT row's status before it has an upload) and a MySQL     *)
(* that answers (the Save after BeginUpload that fails leaves an INIT row  *)
(* without an upload, for the next initiation to take over).  Without      *)
(* cancels alone, in either mode and whatever else happens or fails, what  *)
(* is catalogued is stored and an upload the row does name is open.        *)
(***************************************************************************)
EXTENDS UploadSessionProofs

Calm ==
  /\ Multipart /\ Slow = {}
  /\ Ops \subseteq {"initiate", "part", "get", "complete", "heartbeat"}
  /\ Faults \subseteq {"outage", "reply", "sent"}

\* The calls of CancelUpload.
Drops == {"cancel", "cancelResolve", "abort", "restore", "clean"}

NoneDrops  == \A r \in Reqs : pc[r] \notin Drops
NonePauses == \A r \in Reqs : pc[r] \notin {"pause", "resume"}

\* What leads to a file_object.
Backed ==
  /\ object \/ pending \/ after => stored
  /\ \A r \in Reqs : pc[r] = "announce" => stored

NotBegun == row.status \in {"NONE", "INIT", "FAILED"}
HasBegun == row.status \in {"UPLOADING", "FINALIZING"}

\* What a handler knows of the row it read or wrote.

InitiateKnows(r) ==
  /\ pc[r] \in {"write", "begin", "mark"} => NotBegun
  /\ pc[r] = "save" =>
       NotBegun /\ seen[r].status = "UPLOADING" /\ IsOpen(seen[r].ceph)
  /\ pc[r] \in {"heartbeat", "takeover"} => HasBegun /\ seen[r].ceph = row.ceph
  /\ pc[r] = "takeover" => seen[r].status = "UPLOADING"

PartKnows(r) ==
  /\ pc[r] \in {"put", "record"} => HasBegun /\ seen[r].ceph = row.ceph
  /\ pc[r] \in {"record", "getFill", "completeFill"} =>
       HasBegun /\ got[r] \subseteq uploads[row.ceph].parts

Knows(r) == pc[r] # "announce" /\ InitiateKnows(r) /\ PartKnows(r)

\* The request that wrote an INIT row still holds the lock.
InitIsHeld ==
  row.status = "INIT" => \E r \in Reqs : pc[r] \in {"begin", "mark", "save"}

\* Before the object is there.
Beginning ==
  /\ ~stored /\ ~pending
  /\ NotBegun \/ HasBegun
  /\ \A c \in CephIds : uploads[c].state # "closed"
  /\ NotBegun => parts = {} /\ row.ceph = NoCeph
  /\ HasBegun => IsOpen(row.ceph) /\ parts \subseteq uploads[row.ceph].parts
  /\ InitIsHeld /\ \A r \in Reqs : Knows(r)

OpenInv == NoneDrops /\ NonePauses /\ (stored \/ Beginning)

\* What the lemmas assume of a state.
Now == IInv /\ LockExclusive /\ NoneDrops /\ NonePauses /\ Beginning

LEMMA OneLocked ==
  ASSUME Calm, LockExclusive, NEW r \in Reqs, NEW q \in Reqs,
         pc[r] \in Locked, pc[q] \in Locked
  PROVE  r = q
BY DEF Calm, LockExclusive

-----------------------------------------------------------------------------
(* Without a cancel, no step drops the object.                             *)

\* A cancel, a pause or a resume begins as a request of a client, and an
\* announcement when the object is there.
LEMMA CallsBegin ==
  ASSUME CallTypeOK, [Next]_vars, NEW q \in Reqs, pc'[q] # pc[q]
  PROVE  \/ pc'[q] \in {"cancel", "pause", "resume"} \intersect Ops
         \/ pc'[q] \in Drops /\ pc[q] \in Drops
         \/ /\ pc'[q] \notin Drops \union {"pause", "resume"}
            /\ pc'[q] = "announce" => stored
<1> USE DEF Drops
<1>1. ASSUME NEW r \in Reqs, NEW call, pc' = [pc EXCEPT ![r] = call]
      PROVE  q = r /\ pc'[q] = call
  BY <1>1 DEF CallTypeOK
<1>2. CASE \E r \in Reqs, u \in Users : Request(r, u)
  <2>1. PICK r \in Reqs, u \in Users : Request(r, u)
    BY <1>2
  <2>2. PICK op, call :
          /\ op \in Ops
          /\ pc' = [pc EXCEPT ![r] = call]
          /\ \/ call \in {"lock", "put", "getList", "claim", "completeList", "beat"}
             \/ call \in {"cancel", "pause", "resume"} /\ call = op
    BY <2>1 DEF Request, InitiateUpload, AuthorizePart, GetUpload,
       CompleteUpload, CancelUpload, UploadAction, Arrive
  <2> QED BY <1>1, <2>2
<1>3. CASE \E r \in Reqs : Handler(r)
  <2>1. PICK r \in Reqs : Handler(r)
    BY <1>3
  <2>2. CASE \/ AcquireLock(r) \/ AttachExisting(r) \/ LookupSession(r)
             \/ CheckHeartbeat(r) \/ TakeOver(r)
             \/ WriteSession(r) \/ BeginUpload(r) \/ MarkFailed(r)
             \/ SaveSession(r) \/ TouchHeartbeat(r) \/ Unlock(r)
    <3>1. PICK call \in Locked \union {"idle"} : pc' = [pc EXCEPT ![r] = call]
      BY <2>2 DEF AcquireLock, AttachExisting, LookupSession, CheckHeartbeat,
         TakeOver, WriteSession, BeginUpload, MarkFailed, SaveSession,
         TouchHeartbeat, Unlock, Goto, GotoSeeing, Return, Locked
    <3> QED BY <1>1, <3>1 DEF Locked
  <2>3. CASE \/ PutPart(r) \/ RecordPart(r) \/ ListParts(r) \/ LoadParts(r)
             \/ ClaimCompletion(r) \/ ResolveComplete(r) \/ Assemble(r)
             \/ StatObject(r) \/ Announce(r) \/ RevertCompletion(r)
    <3>1. PICK call \in {"idle", "record", "getFill", "completeFill", "claim",
                         "resolve", "assemble", "stat", "announce", "revert"} :
            pc' = [pc EXCEPT ![r] = call] /\ (call = "announce" => stored)
      BY <2>3 DEF PutPart, RecordPart, ListParts, LoadParts, ClaimCompletion,
         ResolveComplete, Assemble, StatObject, Announce, RevertCompletion,
         Goto, GotoSeeing, Return
    <3> QED BY <1>1, <3>1
  <2>4. CASE \/ ClaimCancel(r) \/ ResolveCancel(r) \/ AbortUpload(r)
             \/ RestoreStatus(r) \/ ClearUpload(r)
    <3>1. pc[r] \in Drops
      BY <2>4 DEF ClaimCancel, ResolveCancel, AbortUpload, RestoreStatus,
         ClearUpload
    <3>2. PICK call \in Drops \union {"idle"} : pc' = [pc EXCEPT ![r] = call]
      BY <2>4 DEF ClaimCancel, ResolveCancel, AbortUpload, RestoreStatus,
         ClearUpload, Goto, GotoSeeing, Return
    <3> QED BY <1>1, <3>1, <3>2
  <2>5. CASE SetStatus(r) \/ Beat(r)
    <3>1. PICK call \in {"beat", "idle"} : pc' = [pc EXCEPT ![r] = call]
      BY <2>5 DEF SetStatus, Beat, Goto, Return
    <3> QED BY <1>1, <3>1
  <2> QED BY <2>1, <2>2, <2>3, <2>4, <2>5 DEF Handler
<1>4. CASE (\E u \in Users : InitiateInstant(u)) \/ Consumer
  BY <1>4 DEF InitiateInstant, Consumer, HandleUploadComplete, AfterUploadComplete
<1>5. CASE World
  <2>1. PICK r \in Reqs : Crash(r)
    BY <1>5 DEF World, ConsumerCrash, LockExpires, HeartbeatExpires
  <2> QED BY <1>1, <2>1 DEF Crash, Return
<1>6. CASE UNCHANGED vars
  BY <1>6 DEF vars
<1> QED BY <1>2, <1>3, <1>4, <1>5, <1>6 DEF Next

LEMMA NoneDropsStep ==
  ASSUME "cancel" \notin Ops, CallTypeOK, NoneDrops, [Next]_vars
  PROVE  NoneDrops'
BY CallsBegin DEF NoneDrops, Drops

LEMMA NonePausesStep ==
  ASSUME Calm, CallTypeOK, NonePauses, [Next]_vars
  PROVE  NonePauses'
BY CallsBegin DEF NonePauses, Calm, Drops

LEMMA StoredStays ==
  ASSUME NoneDrops, stored, [Next]_vars
  PROVE  stored'
<1>1. CASE \E r \in Reqs, u \in Users : Request(r, u)
  BY <1>1 DEF Request, InitiateUpload, AuthorizePart, GetUpload,
     CompleteUpload, CancelUpload, UploadAction, cephVars
<1>2. CASE \E r \in Reqs : Handler(r)
  <2>1. PICK r \in Reqs : Handler(r)
    BY <1>2
  <2>2. CASE PutPart(r) \/ Assemble(r)
    BY <2>2 DEF PutPart, WritePart, PutObjectPart, PutObject, Assemble,
       CompleteMultipartUpload, cephVars
  <2>3. CASE BeginUpload(r)
    BY <2>3 DEF BeginUpload, NewMultipartUpload, cephVars
  <2>4. ~AbortUpload(r)
    BY DEF AbortUpload, NoneDrops, Drops
  <2>5. ASSUME UNCHANGED cephVars PROVE stored'
    BY <2>5 DEF cephVars
  <2>6. CASE \/ AcquireLock(r) \/ AttachExisting(r) \/ LookupSession(r)
             \/ CheckHeartbeat(r) \/ TakeOver(r) \/ WriteSession(r)
             \/ MarkFailed(r) \/ SaveSession(r) \/ TouchHeartbeat(r) \/ Unlock(r)
    BY <2>5, <2>6 DEF AcquireLock, AttachExisting, LookupSession,
       CheckHeartbeat, TakeOver, WriteSession, MarkFailed, SaveSession,
       TouchHeartbeat, Unlock
  <2>7. CASE \/ RecordPart(r) \/ ListParts(r) \/ LoadParts(r)
             \/ ClaimCompletion(r) \/ ResolveComplete(r)
             \/ StatObject(r) \/ Announce(r) \/ RevertCompletion(r)
             \/ ClaimCancel(r) \/ ResolveCancel(r)
             \/ RestoreStatus(r) \/ ClearUpload(r) \/ SetStatus(r) \/ Beat(r)
    BY <2>5, <2>7 DEF RecordPart, ListParts, LoadParts, ClaimCompletion,
       ResolveComplete, StatObject, Announce, RevertCompletion, ClaimCancel,
       ResolveCancel, RestoreStatus, ClearUpload, SetStatus, Beat
  <2> QED BY <2>1, <2>2, <2>3, <2>4, <2>6, <2>7 DEF Handler
<1>3. CASE (\E u \in Users : InitiateInstant(u)) \/ Consumer \/ World
  BY <1>3 DEF InitiateInstant, Consumer, HandleUploadComplete,
     AfterUploadComplete, World, ConsumerCrash, LockExpires, HeartbeatExpires,
     Crash, cephVars
<1>4. CASE UNCHANGED vars
  BY <1>4 DEF vars, cephVars
<1> QED BY <1>1, <1>2, <1>3, <1>4 DEF Next

LEMMA BackedStep ==
  ASSUME NoneDrops, Backed, [Next]_vars, CallTypeOK
  PROVE  Backed'
<1>1. CASE stored
  BY <1>1, StoredStays DEF Backed
<1>2. CASE ~stored
  <2>1. ~object /\ ~pending /\ ~after /\ \A r \in Reqs : pc[r] # "announce"
    BY <1>2 DEF Backed
  <2>2. \A r \in Reqs : pc'[r] # "announce"
    BY <1>2, <2>1, CallsBegin DEF Drops
  <2>3. UNCHANGED <<object, pending, after>>
    <3>1. CASE \E r \in Reqs, u \in Users : Request(r, u)
      BY <3>1 DEF Request, InitiateUpload, AuthorizePart, GetUpload,
         CompleteUpload, CancelUpload, UploadAction, mysql, queue
    <3>2. CASE \E r \in Reqs : Handler(r)
      <4>1. PICK r \in Reqs : Handler(r)
        BY <3>2
      <4>2. ~Announce(r)
        BY <2>1 DEF Announce
      <4>3. CASE \/ AcquireLock(r) \/ AttachExisting(r) \/ LookupSession(r)
                 \/ CheckHeartbeat(r) \/ TakeOver(r) \/ WriteSession(r)
                 \/ BeginUpload(r) \/ MarkFailed(r) \/ SaveSession(r)
                 \/ TouchHeartbeat(r) \/ Unlock(r)
        BY <4>3 DEF AcquireLock, AttachExisting, LookupSession, CheckHeartbeat,
           TakeOver, WriteSession, BeginUpload, MarkFailed, SaveSession,
           TouchHeartbeat, Unlock, mysql, queue
      <4>4. CASE \/ PutPart(r) \/ RecordPart(r) \/ ListParts(r) \/ LoadParts(r)
                 \/ ClaimCompletion(r) \/ ResolveComplete(r) \/ Assemble(r)
                 \/ StatObject(r) \/ RevertCompletion(r)
        BY <4>4 DEF PutPart, RecordPart, ListParts, LoadParts, ClaimCompletion,
           ResolveComplete, Assemble, StatObject, RevertCompletion, mysql, queue
      <4>5. CASE \/ ClaimCancel(r) \/ ResolveCancel(r) \/ AbortUpload(r)
                 \/ RestoreStatus(r) \/ ClearUpload(r) \/ SetStatus(r) \/ Beat(r)
        BY <4>5 DEF ClaimCancel, ResolveCancel, AbortUpload, RestoreStatus,
           ClearUpload, SetStatus, Beat, mysql, queue
      <4> QED BY <4>1, <4>2, <4>3, <4>4, <4>5 DEF Handler
    <3>3. CASE (\E u \in Users : InitiateInstant(u)) \/ Consumer \/ World
      BY <2>1, <3>3 DEF InitiateInstant, Consumer, HandleUploadComplete,
         AfterUploadComplete, World, ConsumerCrash, LockExpires,
         HeartbeatExpires, Crash, mysql, queue
    <3>4. CASE UNCHANGED vars
      BY <3>4 DEF vars, mysql, queue
    <3> QED BY <3>1, <3>2, <3>3, <3>4 DEF Next
  <2> QED BY <2>1, <2>2, <2>3 DEF Backed
<1> QED BY <1>1, <1>2

\* As long as nobody cancels, no retry, takeover, crash or lost answer
\* catalogues a file whose object Ceph does not have.
THEOREM ObjectBackedAlways ==
  ASSUME "cancel" \notin Ops
  PROVE  Spec => []ObjectBacked
<1>1. Init => NoneDrops /\ Backed
  BY DEF Init, NoneDrops, Drops, Backed
<1>2. TypeOK /\ NoneDrops /\ Backed /\ [Next]_vars => NoneDrops' /\ Backed'
  BY NoneDropsStep, BackedStep DEF TypeOK
<1>3. Backed => ObjectBacked
  BY DEF Backed, ObjectBacked
<1> QED BY <1>1, <1>2, <1>3, TypeCorrect, PTL DEF Spec

-----------------------------------------------------------------------------
(* How a handler moves.                                                    *)

\* Nothing changes of the other requests.
Only(r) ==
  \A q \in Reqs \ {r} : pc'[q] = pc[q] /\ seen'[q] = seen[q] /\ got'[q] = got[q]

LEMMA GotoMoves ==
  ASSUME CallTypeOK, NEW r \in Reqs, NEW call, Goto(r, call)
  PROVE  /\ Only(r)
         /\ pc'[r] = call /\ seen'[r] = seen[r] /\ got'[r] = got[r]
BY DEF CallTypeOK, Only, Goto, local

LEMMA GotoSeeingMoves ==
  ASSUME CallTypeOK, NEW r \in Reqs, NEW call, NEW x, GotoSeeing(r, call, x)
  PROVE  Only(r) /\ pc'[r] = call /\ seen'[r] = x /\ got'[r] = got[r]
BY DEF CallTypeOK, Only, GotoSeeing

LEMMA ReturnMoves ==
  ASSUME CallTypeOK, NEW r \in Reqs, Return(r)
  PROVE  Only(r) /\ pc'[r] = "idle"
BY DEF CallTypeOK, Only, Return

LEMMA ArriveMoves ==
  ASSUME CallTypeOK, NEW r \in Reqs, NEW op, NEW u, NEW call, NEW x, NEW ps,
         Arrive(r, op, u, call, x, ps)
  PROVE  /\ Only(r) /\ op \in Ops /\ pc[r] = "idle"
         /\ pc'[r] = call /\ seen'[r] = x /\ got'[r] = ps
BY DEF CallTypeOK, Only, Arrive

\* A call that knows what it must and changes neither the row nor its parts.
LEMMA MovesBeginning ==
  ASSUME Beginning, UNCHANGED <<row, parts, pending, cephVars>>,
         NEW r \in Reqs, Only(r), Knows(r)',
         pc[r] \in {"begin", "mark", "save"} =>
           pc'[r] \in {"begin", "mark", "save"}
  PROVE  Beginning'
<1>1. UNCHANGED <<stored, uploads>>
  BY DEF cephVars
<1>2. NotBegun' = NotBegun /\ HasBegun' = HasBegun
  BY DEF NotBegun, HasBegun
<1>3. ASSUME NEW q \in Reqs PROVE Knows(q)'
  BY <1>1, <1>2 DEF Beginning, Only, Knows, InitiateKnows, PartKnows, IsOpen
<1>4. InitIsHeld'
  BY DEF Beginning, InitIsHeld, Only
<1> QED BY <1>1, <1>2, <1>3, <1>4 DEF Beginning, IsOpen

-----------------------------------------------------------------------------
(* Requests begin, and calls that change neither the row nor its parts.    *)

LEMMA RequestBeginning ==
  ASSUME Calm, Now, NEW r \in Reqs, NEW u \in Users, Request(r, u)
  PROVE  Beginning'
<1> CallTypeOK /\ Beginning
  BY DEF Now, IInv, TypeOK
<1>1. UNCHANGED <<row, parts, pending, cephVars>>
  BY DEF Request, InitiateUpload, AuthorizePart, GetUpload, CompleteUpload,
     CancelUpload, UploadAction, mysql, redis, queue
<1>2. PICK op, call, x, ps :
        /\ Arrive(r, op, u, call, x, ps)
        /\ \/ call \in {"lock", "getList", "claim", "completeList", "beat"}
           \/ op \in {"cancel", "pause", "resume"}
           \/ call = "put" /\ row.status = "UPLOADING" /\ x = row
  BY DEF Request, InitiateUpload, AuthorizePart, GetUpload, CompleteUpload,
     CancelUpload, UploadAction
<1>3. /\ Only(r) /\ pc[r] = "idle"
      /\ \/ pc'[r] \in {"lock", "getList", "claim", "completeList", "beat"}
         \/ pc'[r] = "put" /\ row.status = "UPLOADING" /\ seen'[r] = row
  BY <1>2, ArriveMoves DEF Calm
<1>4. Knows(r)'
  BY <1>1, <1>3 DEF Knows, InitiateKnows, PartKnows, HasBegun
<1> QED BY <1>1, <1>3, <1>4, MovesBeginning

LEMMA StillBeginning ==
  ASSUME Calm, Now, NEW r \in Reqs,
         \/ AcquireLock(r) \/ AttachExisting(r) \/ LookupSession(r)
         \/ CheckHeartbeat(r) \/ TouchHeartbeat(r) \/ Unlock(r)
         \/ ListParts(r) \/ ResolveComplete(r) \/ StatObject(r)
         \/ Announce(r) \/ Beat(r)
  PROVE  Beginning'
<1> /\ CallTypeOK /\ Beginning /\ Knows(r)
    /\ HasBegun \/ NotBegun
    /\ ~stored
  BY DEF Now, IInv, TypeOK, Beginning
<1>1. CASE AcquireLock(r)
  <2>1. Only(r) /\ pc'[r] \in {"recheck", "idle"} /\ pc[r] = "lock"
    BY <1>1, GotoMoves, ReturnMoves DEF AcquireLock
  <2> QED BY <1>1, <2>1, MovesBeginning
          DEF AcquireLock, mysql, queue, Knows, InitiateKnows, PartKnows
<1>2. CASE AttachExisting(r)
  <2>1. Only(r) /\ pc'[r] \in {"unlock", "lookup"} /\ pc[r] = "recheck"
    BY <1>2, GotoMoves DEF AttachExisting
  <2> QED BY <1>2, <2>1, MovesBeginning
          DEF AttachExisting, redis, queue, Knows, InitiateKnows, PartKnows
<1>3. CASE LookupSession(r)
  <2>1. pc[r] = "lookup" /\ UNCHANGED <<row, parts, pending, cephVars>>
    BY <1>3 DEF LookupSession, mysql, redis, queue
  <2>2. row.status # "INIT"
    <3>1. SUFFICES ASSUME row.status = "INIT" PROVE FALSE
      OBVIOUS
    <3>2. PICK q \in Reqs : pc[q] \in {"begin", "mark", "save"}
      BY <3>1 DEF Beginning, InitIsHeld
    <3> QED BY <2>1, <3>2, OneLocked DEF Now, Locked
  <2>3. CASE HasBegun
    <3>1. Only(r) /\ (\/ pc'[r] = "heartbeat" /\ seen'[r] = row
                      \/ pc'[r] = "unlock")
      BY <1>3, <2>3, GotoMoves, GotoSeeingMoves DEF LookupSession, HasBegun
    <3> QED BY <2>1, <2>3, <3>1, MovesBeginning
            DEF Knows, InitiateKnows, PartKnows, HasBegun
  <2>4. CASE NotBegun
    <3>1. Only(r) /\ pc'[r] = "write"
      BY <1>3, <2>2, <2>4, GotoSeeingMoves
      DEF LookupSession, NotBegun, Active, Calm, Fails
    <3> QED BY <2>1, <2>4, <3>1, MovesBeginning
            DEF Knows, InitiateKnows, PartKnows, NotBegun
  <2> QED BY <2>3, <2>4
<1>4. CASE CheckHeartbeat(r)
  <2> DEFINE mine == [seen[r] EXCEPT !.user = who[r], !.status = "UPLOADING"]
  <2>1. mine.ceph = seen[r].ceph /\ mine.status = "UPLOADING"
    BY DEF CallTypeOK, Rows
  <2> HIDE DEF mine
  <2>2. Only(r) /\ (\/ pc'[r] = "unlock"
                    \/ pc'[r] = "takeover" /\ seen'[r] = mine)
    BY <1>4, GotoMoves, GotoSeeingMoves DEF CheckHeartbeat, mine
  <2>3. pc[r] = "heartbeat" /\ UNCHANGED <<row, parts, pending, cephVars>>
    BY <1>4 DEF CheckHeartbeat, mysql, queue
  <2> QED BY <2>1, <2>2, <2>3, MovesBeginning
          DEF Knows, InitiateKnows, PartKnows, HasBegun
<1>5. CASE TouchHeartbeat(r)
  BY <1>5, GotoMoves, MovesBeginning
  DEF TouchHeartbeat, mysql, queue, Knows, InitiateKnows, PartKnows
<1>6. CASE Unlock(r) \/ Beat(r)
  <2>1. Only(r) /\ pc'[r] = "idle" /\ pc[r] \in {"unlock", "beat"}
    BY <1>6, ReturnMoves DEF Unlock, Beat
  <2> QED BY <1>6, <2>1, MovesBeginning
          DEF Unlock, Beat, mysql, queue, Knows, InitiateKnows, PartKnows
<1>7. CASE ListParts(r)
  <2>1. /\ pc[r] \in {"getList", "completeList"}
        /\ UNCHANGED <<row, parts, pending, cephVars>>
    BY <1>7 DEF ListParts, mysql, redis, queue
  <2>2. CASE Return(r)
    BY <2>1, <2>2, ReturnMoves, MovesBeginning DEF Knows, InitiateKnows, PartKnows
  <2>3. CASE ~Return(r)
    <3>1. /\ Remote(r) # {} /\ Only(r) /\ got'[r] = Remote(r)
          /\ pc'[r] \in {"getFill", "completeFill"}
      BY <1>7, <2>3 DEF ListParts, CallTypeOK, Only
    <3>2. HasBegun /\ Remote(r) = uploads[row.ceph].parts
      <4>1. IsOpen(row.ceph) /\ Remote(r) = uploads[row.ceph].parts
        BY <3>1 DEF Remote, ListedParts
      <4>2. ~NotBegun
        BY <4>1 DEF Beginning, IsOpen
      <4> QED BY <4>1, <4>2
    <3> QED BY <2>1, <3>1, <3>2, MovesBeginning
            DEF Knows, InitiateKnows, PartKnows, HasBegun, cephVars
  <2> QED BY <2>2, <2>3
<1>8. CASE ResolveComplete(r)
  <2>1. Only(r) /\ pc'[r] \in {"assemble", "revert"} /\ pc[r] = "resolve"
    BY <1>8, GotoMoves, GotoSeeingMoves DEF ResolveComplete, Calm
  <2> QED BY <1>8, <2>1, MovesBeginning
          DEF ResolveComplete, mysql, redis, queue, Knows, InitiateKnows, PartKnows
<1>9. CASE StatObject(r)
  <2>1. Only(r) /\ pc'[r] = "revert" /\ pc[r] = "stat"
    BY <1>9, GotoMoves DEF StatObject, Beginning
  <2> QED BY <1>9, <2>1, MovesBeginning
          DEF StatObject, mysql, redis, queue, Knows, InitiateKnows, PartKnows
<1>10. CASE Announce(r)
  BY <1>10 DEF Announce, Knows
<1> QED BY <1>1, <1>2, <1>3, <1>4, <1>5, <1>6, <1>7, <1>8, <1>9, <1>10

-----------------------------------------------------------------------------
(* Calls that write the row, cache parts or change the upload.             *)

\* A handler that knows what it must of the new row; what the others know of
\* it stays true.
LEMMA RowBeginning ==
  ASSUME Beginning, UNCHANGED <<pending, cephVars>>, NEW r \in Reqs, Only(r),
         Knows(r)', InitIsHeld',
         \/ /\ HasBegun /\ HasBegun' /\ row'.ceph = row.ceph
            /\ parts' \subseteq uploads[row.ceph].parts
         \/ /\ NotBegun' /\ row'.ceph = NoCeph /\ UNCHANGED parts
            /\ NotBegun
         \/ /\ NotBegun /\ HasBegun' /\ IsOpen(row'.ceph) /\ UNCHANGED parts
            /\ \A q \in Reqs \ {r} : pc[q] \notin {"write", "begin", "mark", "save"}
  PROVE  Beginning'
<1>1. UNCHANGED <<stored, uploads>>
  BY DEF cephVars
<1>2. ~(HasBegun /\ NotBegun) /\ ~(HasBegun /\ NotBegun)'
  BY DEF HasBegun, NotBegun
<1>3. ASSUME NEW q \in Reqs PROVE Knows(q)'
  <2>1. Knows(q)
    BY DEF Beginning
  <2>2. CASE q # r
    BY <1>1, <1>2, <2>1, <2>2 DEF Only, Knows, InitiateKnows, PartKnows, IsOpen
  <2> QED BY <2>2
<1> QED BY <1>1, <1>2, <1>3 DEF Beginning, IsOpen

LEMMA WriteBeginning ==
  ASSUME Calm, Now, NEW r \in Reqs,
         TakeOver(r) \/ WriteSession(r) \/ MarkFailed(r) \/ SaveSession(r)
  PROVE  Beginning'
<1> /\ CallTypeOK /\ TableTypeOK /\ Beginning /\ Knows(r)
  BY DEF Now, IInv, TypeOK, Beginning
<1>1. /\ pc[r] \in Locked /\ pc[r] \notin {"lookup", "heartbeat"}
      /\ UNCHANGED <<parts, pending, cephVars>>
  BY DEF TakeOver, WriteSession, MarkFailed, SaveSession, redis, queue, Locked
<1>2. \A q \in Reqs \ {r} : pc[q] \notin {"write", "begin", "mark", "save"}
  BY <1>1, OneLocked DEF Now, Locked
<1>3. CASE TakeOver(r)
  <2>1. pc'[r] = "touch" /\ Only(r) /\ row' = seen[r] /\ pc[r] = "takeover"
    BY <1>3, GotoMoves DEF TakeOver, Unanswered, Calm, Fails
  <2>2. HasBegun /\ HasBegun' /\ row'.ceph = row.ceph /\ row'.status = "UPLOADING"
    BY <2>1 DEF Knows, InitiateKnows, HasBegun
  <2> QED BY <1>1, <2>1, <2>2, RowBeginning
          DEF Knows, InitiateKnows, PartKnows, InitIsHeld, Beginning
<1>4. CASE SaveSession(r)
  <2>1. pc'[r] = "touch" /\ Only(r) /\ row' = seen[r] /\ pc[r] = "save"
    BY <1>4, GotoMoves DEF SaveSession, Unanswered, Calm, Fails
  <2>2. NotBegun /\ HasBegun' /\ IsOpen(row'.ceph) /\ row'.status = "UPLOADING"
    BY <2>1 DEF Knows, InitiateKnows, HasBegun
  <2> QED BY <1>1, <1>2, <2>1, <2>2, RowBeginning
          DEF Knows, InitiateKnows, PartKnows, InitIsHeld
<1>5. CASE MarkFailed(r)
  <2>1. pc'[r] = "unlock" /\ Only(r) /\ pc[r] = "mark"
    BY <1>5, GotoMoves DEF MarkFailed
  <2>2. row' = SetRowStatus("FAILED")
    BY <1>5 DEF MarkFailed, BestEffort, Calm, Fails
  <2>3. row'.status = "FAILED" /\ row'.ceph = row.ceph
    BY <2>2 DEF SetRowStatus, TableTypeOK, Rows
  <2>4. NotBegun /\ NotBegun' /\ row'.ceph = NoCeph
    BY <2>1, <2>3 DEF Knows, InitiateKnows, NotBegun, Beginning
  <2> QED BY <1>1, <2>1, <2>3, <2>4, RowBeginning
          DEF Knows, InitiateKnows, PartKnows, InitIsHeld
<1>6. CASE WriteSession(r)
  <2>1. pc[r] = "write" /\ NotBegun
    BY <1>6 DEF WriteSession, Knows, InitiateKnows
  <2>2. CASE UNCHANGED row /\ Goto(r, "unlock")
    BY <1>1, <2>1, <2>2, GotoMoves, MovesBeginning
    DEF Knows, InitiateKnows, PartKnows
  <2>3. CASE /\ row' = NewSession(who[r])
             /\ GotoSeeing(r, "begin", NewSession(who[r]))
    <3>1. Only(r) /\ pc'[r] = "begin"
      BY <2>3, GotoSeeingMoves
    <3>2. row'.status = "INIT" /\ row'.ceph = NoCeph
      BY <2>3 DEF NewSession
    <3> QED BY <1>1, <2>1, <3>1, <3>2, RowBeginning
            DEF Knows, InitiateKnows, PartKnows, InitIsHeld, NotBegun
  <2> QED BY <1>6, <2>2, <2>3 DEF WriteSession, Unanswered, Calm, Fails
<1> QED BY <1>3, <1>4, <1>5, <1>6

LEMMA BeginBeginning ==
  ASSUME Calm, Now, NEW r \in Reqs, BeginUpload(r)
  PROVE  Beginning'
<1> /\ CallTypeOK /\ CephTypeOK /\ Beginning /\ Knows(r)
  BY DEF Now, IInv, TypeOK, Beginning
<1>1. pc[r] = "begin" /\ UNCHANGED <<row, parts, pending>> /\ NotBegun
  BY DEF BeginUpload, mysql, redis, queue, Knows, InitiateKnows
<1>2. CASE UNCHANGED cephVars
  <2>1. Only(r) /\ pc'[r] = "mark"
    BY <1>1, <1>2, GotoMoves, CephAssumption
    DEF BeginUpload, Calm, NewMultipartUpload, cephVars, CephTypeOK
  <2> QED BY <1>1, <1>2, <2>1, MovesBeginning
          DEF Knows, InitiateKnows, PartKnows, NotBegun
<1>3. CASE \E c \in CephIds :
              /\ NewMultipartUpload(c)
              /\ GotoSeeing(r, "save", Begun(r, c)) \/ Goto(r, "mark")
  <2>1. PICK c \in CephIds :
          /\ NewMultipartUpload(c)
          /\ GotoSeeing(r, "save", Begun(r, c)) \/ Goto(r, "mark")
    BY <1>3
  <2>2. c # NoCeph /\ Begun(r, c).status = "UPLOADING" /\ Begun(r, c).ceph = c
    BY CephAssumption DEF Begun, CallTypeOK, Rows
  <2>3. Only(r) /\ (\/ pc'[r] = "save" /\ seen'[r] = Begun(r, c)
                    \/ pc'[r] = "mark")
    BY <2>1, GotoMoves, GotoSeeingMoves
  <2>4. uploads'[c].state = "open"
        /\ \A d \in CephIds : uploads'[d].state # "closed"
    BY <2>1 DEF NewMultipartUpload, CephTypeOK, Beginning
  <2>5. NotBegun' /\ ~HasBegun /\ ~HasBegun' /\ ~stored'
    BY <1>1, <2>1 DEF NotBegun, HasBegun, NewMultipartUpload, Beginning
  <2>6. Knows(r)'
    BY <2>2, <2>3, <2>4, <2>5 DEF Knows, InitiateKnows, PartKnows, IsOpen
  <2>7. ASSUME NEW q \in Reqs \ {r} PROVE Knows(q)'
    <3>1. pc[q] # "save"
      BY <1>1, OneLocked DEF Now, Locked
    <3>2. Knows(q) /\ pc'[q] = pc[q] /\ seen'[q] = seen[q]
      BY <2>3 DEF Beginning, Only
    <3> QED BY <2>5, <3>1, <3>2 DEF Knows, InitiateKnows, PartKnows
  <2>8. InitIsHeld'
    BY <2>3 DEF InitIsHeld
  <2> QED BY <1>1, <2>4, <2>5, <2>6, <2>7, <2>8 DEF Beginning
<1> QED BY <1>2, <1>3 DEF BeginUpload, Calm

LEMMA PartBeginning ==
  ASSUME Calm, Now, NEW r \in Reqs, PutPart(r) \/ RecordPart(r) \/ LoadParts(r)
  PROVE  Beginning'
<1> /\ CallTypeOK /\ CephTypeOK /\ Beginning /\ Knows(r) /\ Multipart
  BY DEF Now, IInv, TypeOK, Beginning, Calm
<1>1. CASE RecordPart(r)
  <2>1. Only(r) /\ pc'[r] = "idle" /\ pc[r] = "record"
    BY <1>1, ReturnMoves DEF RecordPart
  <2>2. /\ HasBegun /\ HasBegun' /\ UNCHANGED <<row, pending, cephVars>>
        /\ parts' \subseteq uploads[row.ceph].parts
    BY <1>1, <2>1 DEF RecordPart, mysql, queue, Knows, PartKnows, HasBegun, Beginning
  <2> QED BY <2>1, <2>2, RowBeginning
          DEF Knows, InitiateKnows, PartKnows, InitIsHeld, Beginning, HasBegun
<1>2. CASE LoadParts(r)
  <2>1. /\ Only(r) /\ pc'[r] \in {"idle", "claim"}
        /\ pc[r] \in {"getFill", "completeFill"}
    BY <1>2, ReturnMoves, GotoMoves DEF LoadParts
  <2>2. /\ HasBegun /\ HasBegun' /\ UNCHANGED <<row, pending, cephVars>>
        /\ parts' \subseteq uploads[row.ceph].parts
    BY <1>2, <2>1
    DEF LoadParts, BestEffort, mysql, queue, Knows, PartKnows, HasBegun, Beginning
  <2> QED BY <2>1, <2>2, RowBeginning
          DEF Knows, InitiateKnows, PartKnows, InitIsHeld, Beginning, HasBegun
<1>3. CASE PutPart(r)
  <2>1. /\ pc[r] = "put" /\ HasBegun /\ ~NotBegun /\ seen[r].ceph = row.ceph
        /\ UNCHANGED <<row, parts, pending>>
    BY <1>3 DEF PutPart, mysql, redis, queue, Knows, PartKnows, HasBegun, NotBegun
  <2>2. CASE UNCHANGED cephVars /\ Return(r)
    BY <2>1, <2>2, ReturnMoves, MovesBeginning
    DEF Knows, InitiateKnows, PartKnows
  <2>3. CASE /\ PutObjectPart(row.ceph, got[r])
             /\ Goto(r, "record") \/ Return(r)
    <3>1. /\ row.ceph \in CephIds /\ UNCHANGED stored
          /\ uploads' = [uploads EXCEPT ![row.ceph].parts = @ \union got[r]]
      BY <2>1, <2>3 DEF PutObjectPart, IsOpen, CephTypeOK, Now, IInv, TypeOK,
         TableTypeOK, Rows
    <3>2. /\ uploads'[row.ceph].parts = uploads[row.ceph].parts \union got[r]
          /\ \A c \in CephIds : uploads'[c].state = uploads[c].state
      BY <3>1 DEF CephTypeOK
    <3>3. Only(r) /\ (\/ pc'[r] = "idle"
                      \/ pc'[r] = "record" /\ seen'[r] = seen[r] /\ got'[r] = got[r])
      BY <2>3, GotoMoves, ReturnMoves
    <3>4. HasBegun' /\ ~NotBegun'
      BY <2>1 DEF HasBegun, NotBegun
    <3>5. Knows(r)'
      BY <2>1, <3>2, <3>3, <3>4 DEF Knows, InitiateKnows, PartKnows
    <3>6. ASSUME NEW q \in Reqs \ {r} PROVE Knows(q)'
      <4>1. Knows(q) /\ pc'[q] = pc[q] /\ seen'[q] = seen[q] /\ got'[q] = got[q]
        BY <3>3 DEF Beginning, Only
      <4> QED BY <2>1, <3>2, <3>4, <4>1 DEF Knows, InitiateKnows, PartKnows
    <3>7. InitIsHeld'
      BY <2>1 DEF InitIsHeld, HasBegun
    <3>8. IsOpen(row.ceph)' /\ parts' \subseteq uploads'[row'.ceph].parts
      BY <2>1, <3>1, <3>2 DEF Beginning, IsOpen
    <3> QED BY <2>1, <3>1, <3>2, <3>4, <3>5, <3>6, <3>7, <3>8 DEF Beginning
  <2> QED BY <1>3, <2>1, <2>2, <2>3 DEF PutPart, WritePart
<1> QED BY <1>1, <1>2, <1>3

\* A completion claims or gives back a session that has begun, and ends with
\* the object there.
LEMMA CompleteBeginning ==
  ASSUME Calm, Now, NEW r \in Reqs,
         ClaimCompletion(r) \/ RevertCompletion(r) \/ Assemble(r)
  PROVE  stored' \/ Beginning'
<1> /\ CallTypeOK /\ TableTypeOK /\ Beginning /\ Knows(r)
  BY DEF Now, IInv, TypeOK, Beginning
<1>1. CASE Assemble(r)
  <2>1. CASE CompleteMultipartUpload(seen[r].ceph, got[r])
    BY <2>1 DEF CompleteMultipartUpload
  <2>2. CASE UNCHANGED cephVars /\ Goto(r, "revert")
    <3>1. Only(r) /\ pc'[r] = "revert" /\ pc[r] = "assemble"
      BY <1>1, <2>2, GotoMoves DEF Assemble
    <3> QED BY <1>1, <2>2, <3>1, MovesBeginning
            DEF Assemble, mysql, redis, queue, Knows, InitiateKnows, PartKnows
  <2> QED BY <1>1, <2>1, <2>2 DEF Assemble, Beginning
<1>2. CASE ClaimCompletion(r) \/ RevertCompletion(r)
  <2>1. /\ Only(r) /\ pc[r] \in {"claim", "revert"} /\ pc'[r] \in {"resolve", "idle"}
        /\ UNCHANGED <<parts, pending, cephVars>>
    BY <1>2, GotoMoves, ReturnMoves
    DEF ClaimCompletion, RevertCompletion, redis, queue
  <2>2. CASE row' = row
    BY <2>1, <2>2, MovesBeginning DEF Knows, InitiateKnows, PartKnows
  <2>3. CASE row' # row
    <3>1. /\ HasBegun /\ row'.ceph = row.ceph
          /\ row'.status \in {"FINALIZING", "UPLOADING"}
      BY <1>2, <2>3 DEF ClaimCompletion, RevertCompletion, Unanswered, BestEffort,
         Reverted, SetRowStatus, HasBegun, TableTypeOK, Rows
    <3>2. HasBegun' /\ parts' \subseteq uploads[row.ceph].parts
      BY <2>1, <3>1 DEF HasBegun, Beginning
    <3> QED BY <2>1, <3>1, <3>2, RowBeginning
            DEF Knows, InitiateKnows, PartKnows, InitIsHeld
  <2> QED BY <2>2, <2>3
<1> QED BY <1>1, <1>2

-----------------------------------------------------------------------------
(* The invariant holds in every state.                                     *)

LEMMA HandlerBeginning ==
  ASSUME Calm, Now, NEW r \in Reqs, Handler(r)
  PROVE  stored' \/ Beginning'
<1>1. ~(\/ ClaimCancel(r) \/ ResolveCancel(r) \/ AbortUpload(r)
        \/ RestoreStatus(r) \/ ClearUpload(r) \/ SetStatus(r))
  BY DEF ClaimCancel, ResolveCancel, AbortUpload, RestoreStatus,
     ClearUpload, SetStatus, Now, NoneDrops, NonePauses, Drops
<1>2. CASE \/ AcquireLock(r) \/ AttachExisting(r) \/ LookupSession(r)
           \/ CheckHeartbeat(r) \/ TouchHeartbeat(r) \/ Unlock(r)
           \/ ListParts(r) \/ ResolveComplete(r) \/ StatObject(r)
           \/ Announce(r) \/ Beat(r)
  BY <1>2, StillBeginning
<1>3. CASE \/ TakeOver(r) \/ WriteSession(r) \/ MarkFailed(r) \/ SaveSession(r)
           \/ BeginUpload(r)
  BY <1>3, WriteBeginning, BeginBeginning
<1>4. CASE \/ PutPart(r) \/ RecordPart(r) \/ LoadParts(r)
           \/ ClaimCompletion(r) \/ RevertCompletion(r) \/ Assemble(r)
  BY <1>4, PartBeginning, CompleteBeginning
<1> QED BY <1>1, <1>2, <1>3, <1>4 DEF Handler

\* No handler takes part in what the rest of the world does meanwhile.
LEMMA WorldBeginning ==
  ASSUME Calm, Now,
         \/ \E u \in Users : InitiateInstant(u)
         \/ Consumer \/ World \/ UNCHANGED vars
  PROVE  Beginning'
<1>1. UNCHANGED <<row, pending, parts, cephVars, pc, seen, got>>
  BY DEF InitiateInstant, Consumer, HandleUploadComplete, AfterUploadComplete,
     World, ConsumerCrash, LockExpires, HeartbeatExpires, Crash, Calm, Fails,
     vars, mysql, redis, queue, local, Now, Beginning
<1> QED BY <1>1 DEF cephVars, Now, Beginning, NotBegun, HasBegun, IsOpen,
        InitIsHeld, Knows, InitiateKnows, PartKnows

LEMMA OpenInvStep ==
  Calm /\ IInv /\ LockExclusive /\ OpenInv /\ [Next]_vars => OpenInv'
<1> SUFFICES ASSUME Calm, IInv, LockExclusive, OpenInv, [Next]_vars PROVE OpenInv'
  OBVIOUS
<1>1. NoneDrops' /\ NonePauses'
  BY NoneDropsStep, NonePausesStep DEF OpenInv, IInv, TypeOK, Calm
<1>2. CASE stored
  BY <1>1, <1>2, StoredStays DEF OpenInv
<1>3. CASE Beginning
  <2>1. Now
    BY <1>3 DEF Now, OpenInv
  <2>2. stored' \/ Beginning'
    BY <2>1, RequestBeginning, HandlerBeginning, WorldBeginning DEF Next
  <2> QED BY <1>1, <2>2 DEF OpenInv
<1> QED BY <1>2, <1>3 DEF OpenInv

LEMMA OpenInvInit == Init => OpenInv
BY DEF Init, CephInit, NoRow, OpenInv, NoneDrops, NonePauses, Drops, Beginning,
   NotBegun, HasBegun, InitIsHeld, Knows, InitiateKnows, PartKnows

LEMMA OpenInvAlways ==
  ASSUME Calm
  PROVE  Spec => []OpenInv
BY OpenInvInit, OpenInvStep, InitIInv, NextKeepsIInv, LockIsExclusive, PTL
DEF Spec

\* Without cancels and pauses, while MySQL serves and initiations keep their
\* 30 s, any number of requests leave a multipart session one can go on with:
\* the upload its row names is open, though services, Ceph, RocketMQ and Redis
\* refuse calls or lose answers and clients try again.
THEOREM WritableIsOpenAlways ==
  ASSUME Calm
  PROVE  Spec => []WritableIsOpen
<1>1. OpenInv => WritableIsOpen
  BY DEF OpenInv, Beginning, NotBegun, HasBegun, WritableIsOpen, Unfinished
<1> QED BY <1>1, OpenInvAlways, PTL

\* And under the same conditions the parts that Redis lists are in it.
THEOREM CachedPartsExistAlways ==
  ASSUME Calm
  PROVE  Spec => []CachedPartsExist
<1>1. OpenInv => CachedPartsExist
  BY DEF OpenInv, Beginning, NotBegun, HasBegun, CachedPartsExist, Unfinished
<1> QED BY <1>1, OpenInvAlways, PTL

-----------------------------------------------------------------------------
(* Whatever fails: MySQL too, crashes, dropped errors, late initiations,   *)
(* pauses.  Without cancels only an assembly closes an upload, and then    *)
(* the object is there; so every upload id anyone keeps is an open one.    *)

OpenOrNone(c) == c = NoCeph \/ IsOpen(c)

NoneClosed == \A c \in CephIds : uploads[c].state # "closed"

NamesOpen ==
  /\ NoneClosed
  /\ OpenOrNone(row.ceph)
  /\ \A r \in Reqs : OpenOrNone(seen[r].ceph)

NamedInv == NoneDrops /\ (stored \/ NamesOpen)

LEMMA UploadsStayOpen ==
  ASSUME CephTypeOK, NoneDrops, NoneClosed, [Next]_vars, ~stored'
  PROVE  NoneClosed' /\ \A c : OpenOrNone(c) /\ c \in CephIds \union {NoCeph}
                               => OpenOrNone(c)'
<1> USE DEF NoneClosed, OpenOrNone, IsOpen
<1>1. ASSUME UNCHANGED cephVars
      PROVE  NoneClosed' /\ \A c : OpenOrNone(c) => OpenOrNone(c)'
  BY <1>1 DEF cephVars
<1>2. CASE \E r \in Reqs, u \in Users : Request(r, u)
  BY <1>1, <1>2 DEF Request, InitiateUpload, AuthorizePart, GetUpload,
     CompleteUpload, CancelUpload, UploadAction
<1>3. CASE \E r \in Reqs : Handler(r)
  <2>1. PICK r \in Reqs : Handler(r)
    BY <1>3
  <2>2. CASE PutPart(r)
    BY <1>1, <2>2 DEF PutPart, WritePart, PutObjectPart, PutObject, CephTypeOK
  <2>3. CASE Assemble(r)
    BY <1>1, <2>3 DEF Assemble, CompleteMultipartUpload
  <2>4. CASE BeginUpload(r)
    BY <1>1, <2>4 DEF BeginUpload, NewMultipartUpload, CephTypeOK
  <2>5. ~AbortUpload(r)
    BY DEF AbortUpload, NoneDrops, Drops
  <2>6. CASE \/ AcquireLock(r) \/ AttachExisting(r) \/ LookupSession(r)
             \/ CheckHeartbeat(r) \/ TakeOver(r) \/ WriteSession(r)
             \/ MarkFailed(r) \/ SaveSession(r) \/ TouchHeartbeat(r) \/ Unlock(r)
    BY <1>1, <2>6 DEF AcquireLock, AttachExisting, LookupSession,
       CheckHeartbeat, TakeOver, WriteSession, MarkFailed, SaveSession,
       TouchHeartbeat, Unlock
  <2>7. CASE \/ RecordPart(r) \/ ListParts(r) \/ LoadParts(r)
             \/ ClaimCompletion(r) \/ ResolveComplete(r)
             \/ StatObject(r) \/ Announce(r) \/ RevertCompletion(r)
             \/ ClaimCancel(r) \/ ResolveCancel(r)
             \/ RestoreStatus(r) \/ ClearUpload(r) \/ SetStatus(r) \/ Beat(r)
    BY <1>1, <2>7 DEF RecordPart, ListParts, LoadParts, ClaimCompletion,
       ResolveComplete, StatObject, Announce, RevertCompletion, ClaimCancel,
       ResolveCancel, RestoreStatus, ClearUpload, SetStatus, Beat
  <2> QED BY <2>1, <2>2, <2>3, <2>4, <2>5, <2>6, <2>7 DEF Handler
<1>4. CASE (\E u \in Users : InitiateInstant(u)) \/ Consumer \/ World
  BY <1>1, <1>4 DEF InitiateInstant, Consumer, HandleUploadComplete,
     AfterUploadComplete, World, ConsumerCrash, LockExpires, HeartbeatExpires,
     Crash
<1>5. CASE UNCHANGED vars
  BY <1>1, <1>5 DEF vars
<1> QED BY <1>2, <1>3, <1>4, <1>5 DEF Next

\* A handler keeps in the row and in its locals an id it found there, none, or
\* the one it has just begun.
LEMMA HandlerNames ==
  ASSUME TypeOK, NoneDrops, NEW r \in Reqs, Handler(r), ~BeginUpload(r)
  PROVE  /\ row'.ceph \in {row.ceph, seen[r].ceph, NoCeph}
         /\ seen'[r].ceph \in {row.ceph, seen[r].ceph, NoCeph}
         /\ \A q \in Reqs \ {r} : seen'[q] = seen[q]
<1> CallTypeOK /\ TableTypeOK
  BY DEF TypeOK
<1>1. ASSUME NEW call, Goto(r, call) PROVE seen' = seen
  BY <1>1 DEF Goto, local
<1>2. ASSUME Return(r)
      PROVE  seen'[r].ceph = NoCeph /\ \A q \in Reqs \ {r} : seen'[q] = seen[q]
  BY <1>2 DEF Return, CallTypeOK, NoRow
<1>3. ASSUME NEW call, NEW x, GotoSeeing(r, call, x)
      PROVE  seen'[r] = x /\ \A q \in Reqs \ {r} : seen'[q] = seen[q]
  BY <1>3 DEF GotoSeeing, CallTypeOK
<1>4. \A st : SetRowStatus(st).ceph = row.ceph
  BY DEF SetRowStatus, TableTypeOK, Rows
<1>5. CASE \/ AcquireLock(r) \/ AttachExisting(r) \/ TouchHeartbeat(r) \/ Unlock(r)
  BY <1>1, <1>2, <1>5 DEF AcquireLock, AttachExisting, TouchHeartbeat, Unlock,
     mysql
<1>6. CASE LookupSession(r) \/ CheckHeartbeat(r)
  <2>1. [seen[r] EXCEPT !.user = who[r], !.status = "UPLOADING"].ceph = seen[r].ceph
    BY DEF CallTypeOK, Rows
  <2> QED BY <1>1, <1>3, <1>6, <2>1 DEF LookupSession, CheckHeartbeat, mysql,
          CallTypeOK
<1>7. CASE TakeOver(r) \/ SaveSession(r)
  BY <1>1, <1>7 DEF TakeOver, SaveSession, Unanswered
<1>8. CASE WriteSession(r)
  <2>1. NewSession(who[r]).ceph = NoCeph
    BY DEF NewSession
  <2> QED BY <1>1, <1>3, <1>8, <2>1 DEF WriteSession, Unanswered
<1>9. CASE MarkFailed(r)
  BY <1>1, <1>4, <1>9 DEF MarkFailed, BestEffort
<1>10. CASE \/ PutPart(r) \/ RecordPart(r) \/ ListParts(r) \/ LoadParts(r)
            \/ Assemble(r) \/ StatObject(r) \/ Announce(r) \/ Beat(r)
  BY <1>1, <1>2, <1>10 DEF PutPart, RecordPart, ListParts, LoadParts, Assemble,
     StatObject, Announce, Beat, mysql
<1>11. CASE ResolveComplete(r)
  BY <1>1, <1>3, <1>11 DEF ResolveComplete, mysql
<1>12. CASE ClaimCompletion(r) \/ RevertCompletion(r) \/ SetStatus(r)
  BY <1>1, <1>2, <1>4, <1>12 DEF ClaimCompletion, RevertCompletion, SetStatus,
     Unanswered, BestEffort, Reverted
<1>13. ~(\/ ClaimCancel(r) \/ ResolveCancel(r) \/ AbortUpload(r)
         \/ RestoreStatus(r) \/ ClearUpload(r))
  BY DEF ClaimCancel, ResolveCancel, AbortUpload, RestoreStatus, ClearUpload,
     NoneDrops, Drops
<1> QED BY <1>5, <1>6, <1>7, <1>8, <1>9, <1>10, <1>11, <1>12, <1>13 DEF Handler

LEMMA NamesOpenStep ==
  ASSUME TypeOK, NoneDrops, NamesOpen, [Next]_vars, ~stored'
  PROVE  NamesOpen'
<1> CephTypeOK /\ CallTypeOK /\ TableTypeOK /\ NoneClosed
  BY DEF TypeOK, NamesOpen
<1>1. /\ NoneClosed'
      /\ \A c : OpenOrNone(c) /\ c \in CephIds \union {NoCeph} => OpenOrNone(c)'
  BY UploadsStayOpen
<1>2. /\ OpenOrNone(row.ceph) /\ row.ceph \in CephIds \union {NoCeph}
      /\ \A r \in Reqs : /\ OpenOrNone(seen[r].ceph)
                         /\ seen[r].ceph \in CephIds \union {NoCeph}
  BY DEF NamesOpen, TableTypeOK, CallTypeOK, Rows
<1>3. OpenOrNone(NoCeph)
  BY DEF OpenOrNone
<1> DEFINE GoodNow(c) == c = NoCeph \/ (c # NoCeph /\ uploads'[c].state = "open")
<1>4. \A c : OpenOrNone(c) /\ c \in CephIds \union {NoCeph} => GoodNow(c)
  BY <1>1 DEF OpenOrNone, IsOpen
<1>5. SUFFICES GoodNow(row'.ceph) /\ \A q \in Reqs : GoodNow(seen'[q].ceph)
  BY <1>1 DEF NamesOpen, OpenOrNone, IsOpen
<1>6. GoodNow(NoCeph) /\ GoodNow(row.ceph) /\ \A q \in Reqs : GoodNow(seen[q].ceph)
  BY <1>2, <1>3, <1>4
<1>7. CASE row' = row /\ seen' = seen
  BY <1>6, <1>7
<1>8. CASE \E r \in Reqs, u \in Users : Request(r, u)
  <2>1. PICK r \in Reqs, u \in Users : Request(r, u)
    BY <1>8
  <2>2. PICK op, call, x, ps :
          Arrive(r, op, u, call, x, ps) /\ x \in {NoRow, row} /\ row' = row
    BY <2>1 DEF Request, InitiateUpload, AuthorizePart, GetUpload,
       CompleteUpload, CancelUpload, UploadAction, mysql
  <2>3. seen'[r] \in {NoRow, row} /\ \A q \in Reqs \ {r} : seen'[q] = seen[q]
    BY <2>2 DEF Arrive, CallTypeOK
  <2> QED BY <1>6, <2>2, <2>3 DEF NoRow
<1>9. CASE \E r \in Reqs : Handler(r)
  <2>1. PICK r \in Reqs : Handler(r)
    BY <1>9
  <2>2. CASE ~BeginUpload(r)
    BY <1>6, <2>1, <2>2, HandlerNames
  <2>3. CASE BeginUpload(r)
    <3>1. row' = row /\ \A q \in Reqs \ {r} : seen'[q] = seen[q]
      BY <2>3 DEF BeginUpload, GotoSeeing, Goto, local, CallTypeOK, mysql
    <3>2. CASE seen' = seen
      BY <1>6, <3>1, <3>2
    <3>3. CASE \E c \in CephIds : NewMultipartUpload(c) /\ seen'[r] = Begun(r, c)
      <4>1. PICK c \in CephIds : NewMultipartUpload(c) /\ seen'[r] = Begun(r, c)
        BY <3>3
      <4>2. seen'[r].ceph = c
        BY <4>1 DEF Begun, CallTypeOK, Rows
      <4>3. c # NoCeph /\ uploads'[c].state = "open"
        BY <4>1, CephAssumption DEF NewMultipartUpload, CephTypeOK
      <4> QED BY <1>6, <3>1, <4>2, <4>3
    <3>4. CASE seen'[r] = Begun(r, NoCeph)
      <4>1. seen'[r].ceph = NoCeph
        BY <3>4 DEF Begun, CallTypeOK, Rows
      <4> QED BY <1>6, <3>1, <4>1
    <3> QED BY <2>3, <3>2, <3>3, <3>4 DEF BeginUpload, GotoSeeing, Goto, local,
            CallTypeOK
  <2> QED BY <2>2, <2>3
<1>10. CASE (\E u \in Users : InitiateInstant(u)) \/ AfterUploadComplete
  BY <1>7, <1>10 DEF InitiateInstant, AfterUploadComplete, local, mysql
<1>11. CASE HandleUploadComplete
  <2>1. seen' = seen /\ row'.ceph = row.ceph
    BY <1>11 DEF HandleUploadComplete, SetRowStatus, local, mysql, TableTypeOK, Rows
  <2> QED BY <1>6, <2>1
<1>12. CASE World
  <2>1. CASE \E r \in Reqs : Crash(r)
    BY <1>6, <2>1 DEF Crash, Return, mysql, CallTypeOK, NoRow
  <2> QED BY <1>7, <1>12, <2>1 DEF World, ConsumerCrash, LockExpires,
          HeartbeatExpires, local, mysql
<1>13. CASE UNCHANGED vars
  BY <1>7, <1>13 DEF vars, mysql, local
<1> QED BY <1>8, <1>9, <1>10, <1>11, <1>12, <1>13 DEF Next, Consumer

\* As long as nobody cancels, whatever else happens, an upload id in the row
\* of an unfinished session is one under which Ceph takes parts.
THEOREM NamedIsOpenAlways ==
  ASSUME "cancel" \notin Ops
  PROVE  Spec => []NamedIsOpen
<1>1. Init => NamedInv
  BY DEF Init, CephInit, NoRow, NamedInv, NoneDrops, Drops, NamesOpen, NoneClosed,
     OpenOrNone
<1>2. TypeOK /\ NamedInv /\ [Next]_vars => NamedInv'
  BY NoneDropsStep, StoredStays, NamesOpenStep DEF TypeOK, NamedInv
<1>3. NamedInv => NamedIsOpen
  BY DEF NamedInv, NamesOpen, OpenOrNone, NamedIsOpen, Unfinished
<1> QED BY <1>1, <1>2, <1>3, TypeCorrect, PTL DEF Spec
=============================================================================

------------------------ MODULE UploadSessionProofs ------------------------
(***************************************************************************)
(* Theorems about UploadSession for any users, request slots, upload ids,  *)
(* mode, endpoints and faults: its types, the agreement of the session     *)
(* with the catalogue, the ownership of lock_hash, and the refinement of   *)
(* UploadContract.                                                         *)
(***************************************************************************)
EXTENDS UploadSession, TLAPS

\* What handlers know of rows they read earlier and will write or restore.

RowOwned == row.status # "NONE" => row.user \in Users

Called == \A r \in Reqs : pc[r] # "idle" => who[r] \in Users

\* The row a handler will Save is never a finished one.
SavesUnfinished ==
  \A r \in Reqs : pc[r] \in {"takeover", "begin", "save"} =>
    seen[r].user \in Users /\ seen[r].status \in {"INIT", "UPLOADING"}

\* The status CancelUpload may restore is one it was allowed to cancel.
RestoresCancellable ==
  \A r \in Reqs : pc[r] \in {"cancel", "cancelResolve", "abort", "restore"} =>
    seen[r].status \in Cancellable

\* A status is set by id only after the row has been read or written.
UpdatesExisting ==
  \A r \in Reqs : pc[r] \in {"begin", "mark", "pause", "resume"} =>
    row.status # "NONE"

HandlerInv ==
  RowOwned /\ Called /\ SavesUnfinished /\ RestoresCancellable /\ UpdatesExisting

IInv == TypeOK /\ HandlerInv /\ CompletedIsIndexed

-----------------------------------------------------------------------------
(* How a request's slot moves.                                             *)

LEMMA GotoType ==
  ASSUME CallTypeOK, NEW r \in Reqs, NEW call \in Calls, Goto(r, call)
  PROVE  CallTypeOK'
BY DEF CallTypeOK, Goto, local

LEMMA GotoSeeingType ==
  ASSUME CallTypeOK, NEW r \in Reqs, NEW call \in Calls, NEW x \in Rows,
         GotoSeeing(r, call, x)
  PROVE  CallTypeOK'
BY DEF CallTypeOK, GotoSeeing

LEMMA ReturnType ==
  ASSUME CallTypeOK, NEW r \in Reqs, Return(r)
  PROVE  CallTypeOK'
<1>1. NoRow \in Rows /\ "idle" \in Calls
  BY DEF NoRow, Rows, Statuses, Calls
<1> QED BY <1>1 DEF CallTypeOK, Return

LEMMA ArriveType ==
  ASSUME CallTypeOK, NEW r \in Reqs, NEW op, NEW u \in Users, NEW call \in Calls,
         NEW x \in Rows, NEW ps \in SUBSET Parts, Arrive(r, op, u, call, x, ps)
  PROVE  CallTypeOK'
BY DEF CallTypeOK, Arrive

LEMMA NoRowType == NoRow \in Rows
BY DEF NoRow, Rows, Statuses

-----------------------------------------------------------------------------
(* What Ceph's calls do to its uploads.                                    *)

LEMMA NewMultipartUploadType ==
  ASSUME CephTypeOK, NEW c \in CephIds, NewMultipartUpload(c)
  PROVE  CephTypeOK'
BY DEF CephTypeOK, NewMultipartUpload

LEMMA PutObjectPartType ==
  ASSUME CephTypeOK, NEW c \in CephIds \union {NoCeph}, NEW p \in SUBSET Parts,
         PutObjectPart(c, p)
  PROVE  CephTypeOK'
BY DEF CephTypeOK, PutObjectPart, IsOpen

LEMMA ClosedType ==
  ASSUME CephTypeOK, NEW c \in CephIds, stored' \in BOOLEAN, uploads' = Closed(c)
  PROVE  CephTypeOK'
BY DEF CephTypeOK, Closed

LEMMA CompleteMultipartUploadType ==
  ASSUME CephTypeOK, NEW c \in CephIds \union {NoCeph}, NEW p \in SUBSET Parts,
         CompleteMultipartUpload(c, p)
  PROVE  CephTypeOK'
BY ClosedType DEF CompleteMultipartUpload, CanAssemble, IsOpen

LEMMA AbortMultipartUploadType ==
  ASSUME CephTypeOK, NEW c \in CephIds \union {NoCeph}, AbortMultipartUpload(c)
  PROVE  CephTypeOK'
BY ClosedType DEF CephTypeOK, AbortMultipartUpload, IsOpen

LEMMA ListedPartsType ==
  ASSUME CephTypeOK, NEW c \in CephIds \union {NoCeph}
  PROVE  ListedParts(c) \in SUBSET Parts
BY DEF CephTypeOK, ListedParts, IsOpen

-----------------------------------------------------------------------------
(* Requests begin.                                                         *)

LEMMA InitiateInstantStep ==
  ASSUME IInv, NEW u \in Users, InitiateInstant(u)
  PROVE  IInv'
<1> USE DEF IInv, TypeOK, InitiateInstant, mysql, redis, queue, local, cephVars
<1>1. FlagTypeOK' /\ CephTypeOK' /\ CallTypeOK'
  BY DEF FlagTypeOK, CephTypeOK, CallTypeOK
<1>2. TableTypeOK'
  BY DEF TableTypeOK, Attach, BestEffort
<1>3. HandlerInv' /\ CompletedIsIndexed'
  BY DEF HandlerInv, RowOwned, Called, SavesUnfinished, RestoresCancellable,
     UpdatesExisting, CompletedIsIndexed, Attach, BestEffort
<1> QED BY <1>1, <1>2, <1>3

LEMMA InitiateUploadStep ==
  ASSUME IInv, NEW r \in Reqs, NEW u \in Users, InitiateUpload(r, u)
  PROVE  IInv'
<1> USE DEF IInv, TypeOK, InitiateUpload, mysql, redis, queue, local, cephVars
<1>1. TableTypeOK' /\ FlagTypeOK' /\ CephTypeOK'
  BY DEF TableTypeOK, FlagTypeOK, CephTypeOK
<1>2. CallTypeOK'
  BY ArriveType, NoRowType DEF Calls, TableTypeOK
<1>3. HandlerInv' /\ CompletedIsIndexed'
  BY DEF HandlerInv, RowOwned, Called, SavesUnfinished, RestoresCancellable,
     UpdatesExisting, CompletedIsIndexed, CallTypeOK, Arrive, TableTypeOK,
     Rows, Cancellable, Active
<1> QED BY <1>1, <1>2, <1>3

LEMMA AuthorizePartStep ==
  ASSUME IInv, NEW r \in Reqs, NEW u \in Users, NEW p \in 1..(NumParts + 1),
         AuthorizePart(r, u, p)
  PROVE  IInv'
<1> USE DEF IInv, TypeOK, AuthorizePart, mysql, redis, queue, local, cephVars
<1>1. TableTypeOK'
  BY DEF TableTypeOK, BestEffort
<1>2. FlagTypeOK'
  BY DEF FlagTypeOK, Touched, BestEffort
<1>3. CephTypeOK'
  BY DEF CephTypeOK
<1>4. CallTypeOK'
  BY ArriveType DEF Calls, TableTypeOK, PartNumbers, Parts
<1>5. HandlerInv' /\ CompletedIsIndexed'
  BY DEF HandlerInv, RowOwned, Called, SavesUnfinished, RestoresCancellable,
     UpdatesExisting, CompletedIsIndexed, CallTypeOK, Arrive, Touched, Owns,
     BestEffort, TableTypeOK, Rows, Cancellable, Active
<1> QED BY <1>1, <1>2, <1>3, <1>4, <1>5

LEMMA GetUploadStep ==
  ASSUME IInv, NEW r \in Reqs, NEW u \in Users, GetUpload(r, u)
  PROVE  IInv'
<1> USE DEF IInv, TypeOK, GetUpload, mysql, redis, queue, local, cephVars
<1>1. TableTypeOK' /\ FlagTypeOK' /\ CephTypeOK'
  BY DEF TableTypeOK, FlagTypeOK, CephTypeOK
<1>2. CallTypeOK'
  BY ArriveType DEF Calls, TableTypeOK
<1>3. HandlerInv' /\ CompletedIsIndexed'
  BY DEF HandlerInv, RowOwned, Called, SavesUnfinished, RestoresCancellable,
     UpdatesExisting, CompletedIsIndexed, CallTypeOK, Arrive, Owns,
     TableTypeOK, Rows, Cancellable, Active
<1> QED BY <1>1, <1>2, <1>3

LEMMA CompleteUploadStep ==
  ASSUME IInv, NEW r \in Reqs, NEW u \in Users, CompleteUpload(r, u)
  PROVE  IInv'
<1> USE DEF IInv, TypeOK, CompleteUpload, mysql, redis, queue, local, cephVars
<1>1. TableTypeOK' /\ CephTypeOK'
  BY DEF TableTypeOK, CephTypeOK
<1>2. FlagTypeOK'
  BY DEF FlagTypeOK
<1>3. CallTypeOK'
  <2>1. CASE Arrive(r, "complete", u, "claim", row, parts)
    BY <2>1, ArriveType DEF TableTypeOK, Calls
  <2>2. CASE Arrive(r, "complete", u, "completeList", row, {})
    BY <2>2, ArriveType DEF TableTypeOK, Calls
  <2> QED BY <2>1, <2>2
<1>4. HandlerInv' /\ CompletedIsIndexed'
  BY DEF HandlerInv, RowOwned, Called, SavesUnfinished, RestoresCancellable,
     UpdatesExisting, CompletedIsIndexed, CallTypeOK, Arrive
<1> QED BY <1>1, <1>2, <1>3, <1>4

LEMMA CancelUploadStep ==
  ASSUME IInv, NEW r \in Reqs, NEW u \in Users, CancelUpload(r, u)
  PROVE  IInv'
<1> USE DEF IInv, TypeOK, CancelUpload, mysql, redis, queue, local, cephVars
<1>1. TableTypeOK' /\ FlagTypeOK' /\ CephTypeOK'
  BY DEF TableTypeOK, FlagTypeOK, CephTypeOK
<1>2. CallTypeOK'
  BY ArriveType DEF Calls, TableTypeOK
<1>3. HandlerInv' /\ CompletedIsIndexed'
  BY DEF HandlerInv, RowOwned, Called, SavesUnfinished, RestoresCancellable,
     UpdatesExisting, CompletedIsIndexed, CallTypeOK, Arrive, Owns,
     TableTypeOK, Rows, Cancellable, Active
<1> QED BY <1>1, <1>2, <1>3

LEMMA UploadActionStep ==
  ASSUME IInv, NEW r \in Reqs, NEW u \in Users, UploadAction(r, u)
  PROVE  IInv'
<1> USE DEF IInv, TypeOK, UploadAction, mysql, redis, queue, local, cephVars
<1>1. TableTypeOK' /\ CephTypeOK'
  BY DEF TableTypeOK, CephTypeOK
<1>2. FlagTypeOK'
  BY DEF FlagTypeOK
<1>3. PICK op, call : call \in {"pause", "resume", "beat"} /\ Arrive(r, op, u, call, row, {})
  OBVIOUS
<1>4. CallTypeOK'
  BY <1>3, ArriveType DEF TableTypeOK, Calls
<1>5. pc' = [pc EXCEPT ![r] = call] /\ who' = [who EXCEPT ![r] = u]
      /\ seen' = [seen EXCEPT ![r] = row]
  BY <1>3 DEF Arrive
<1>6. HandlerInv' /\ CompletedIsIndexed'
  BY <1>3, <1>5 DEF HandlerInv, RowOwned, Called, SavesUnfinished,
     RestoresCancellable, UpdatesExisting, CompletedIsIndexed, CallTypeOK,
     Owns
<1> QED BY <1>1, <1>2, <1>4, <1>6

-----------------------------------------------------------------------------
(* InitiateUpload.                                                         *)

LEMMA AcquireLockStep ==
  ASSUME IInv, NEW r \in Reqs, AcquireLock(r)
  PROVE  IInv'
<1> USE DEF IInv, TypeOK, AcquireLock, mysql, redis, queue, local, cephVars
<1>1. TableTypeOK' /\ FlagTypeOK' /\ CephTypeOK'
  BY DEF TableTypeOK, FlagTypeOK, CephTypeOK
<1>2. CallTypeOK'
  BY GotoType, ReturnType DEF Calls, Locked
<1>3. HandlerInv' /\ CompletedIsIndexed'
  BY DEF HandlerInv, RowOwned, Called, SavesUnfinished, RestoresCancellable,
     UpdatesExisting, CompletedIsIndexed, CallTypeOK, Goto, Return
<1> QED BY <1>1, <1>2, <1>3

LEMMA AttachExistingStep ==
  ASSUME IInv, NEW r \in Reqs, AttachExisting(r)
  PROVE  IInv'
<1> USE DEF IInv, TypeOK, AttachExisting, mysql, redis, queue, local, cephVars
<1>1. FlagTypeOK' /\ CephTypeOK'
  BY DEF FlagTypeOK, CephTypeOK
<1>2. TableTypeOK'
  BY DEF TableTypeOK, Attach, BestEffort, HandlerInv, Called
<1>3. CallTypeOK'
  BY GotoType DEF Calls, Locked
<1>4. HandlerInv' /\ CompletedIsIndexed'
  BY DEF HandlerInv, RowOwned, Called, SavesUnfinished, RestoresCancellable,
     UpdatesExisting, CompletedIsIndexed, CallTypeOK, Goto, Attach,
     BestEffort
<1> QED BY <1>1, <1>2, <1>3, <1>4

LEMMA LookupSessionStep ==
  ASSUME IInv, NEW r \in Reqs, LookupSession(r)
  PROVE  IInv'
<1> USE DEF IInv, TypeOK, LookupSession, mysql, redis, queue, local, cephVars
<1>1. TableTypeOK' /\ FlagTypeOK' /\ CephTypeOK'
  BY DEF TableTypeOK, FlagTypeOK, CephTypeOK
<1>2. CallTypeOK'
  BY GotoType, GotoSeeingType DEF Calls, Locked, TableTypeOK
<1>3. HandlerInv' /\ CompletedIsIndexed'
  BY DEF HandlerInv, RowOwned, Called, SavesUnfinished, RestoresCancellable,
     UpdatesExisting, CompletedIsIndexed, CallTypeOK, Goto, GotoSeeing
<1> QED BY <1>1, <1>2, <1>3

LEMMA CheckHeartbeatStep ==
  ASSUME IInv, NEW r \in Reqs, CheckHeartbeat(r)
  PROVE  IInv'
<1> DEFINE mine == [seen[r] EXCEPT !.user = who[r], !.status = "UPLOADING"]
<1> USE DEF IInv, TypeOK, CheckHeartbeat, mysql, redis, queue, local, cephVars
<1>1. who[r] \in Users /\ mine \in Rows /\ mine.user = who[r] /\ mine.status = "UPLOADING"
  BY DEF HandlerInv, Called, CallTypeOK, Rows, Statuses, Cancellable, Active
<1> HIDE DEF mine
<1>2. GotoSeeing(r, "takeover", mine) \/ Goto(r, "unlock")
  BY DEF mine
<1>3. TableTypeOK' /\ CephTypeOK'
  BY <1>1 DEF TableTypeOK, CephTypeOK, BestEffort
<1>4. FlagTypeOK'
  BY DEF FlagTypeOK
<1>5. CallTypeOK'
  BY <1>1, <1>2, GotoType, GotoSeeingType DEF Calls, Locked
<1>6. HandlerInv' /\ CompletedIsIndexed'
  BY <1>1, <1>2 DEF HandlerInv, RowOwned, Called, SavesUnfinished,
     RestoresCancellable, UpdatesExisting, CompletedIsIndexed, CallTypeOK,
     Goto, GotoSeeing
<1> QED BY <1>3, <1>4, <1>5, <1>6

LEMMA TakeOverStep ==
  ASSUME IInv, NEW r \in Reqs, TakeOver(r)
  PROVE  IInv'
<1> USE DEF IInv, TypeOK, TakeOver, Unanswered, mysql, redis, queue, local,
       cephVars
<1>1. FlagTypeOK' /\ CephTypeOK'
  BY DEF FlagTypeOK, CephTypeOK
<1>2. TableTypeOK'
  BY DEF TableTypeOK, Rows, Statuses, Cancellable, Active, CallTypeOK
<1>3. CallTypeOK'
  BY GotoType DEF Calls, Locked
<1>4. HandlerInv' /\ CompletedIsIndexed'
  BY DEF HandlerInv, RowOwned, Called, SavesUnfinished, RestoresCancellable,
     UpdatesExisting, CompletedIsIndexed, CallTypeOK, Goto, TableTypeOK,
     Rows, Cancellable, Active
<1> QED BY <1>1, <1>2, <1>3, <1>4

LEMMA WriteSessionStep ==
  ASSUME IInv, NEW r \in Reqs, WriteSession(r)
  PROVE  IInv'
<1> USE DEF IInv, TypeOK, WriteSession, Unanswered, mysql, redis, queue, local,
       cephVars
<1>1. who[r] \in Users /\ NewSession(who[r]) \in Rows
  BY DEF HandlerInv, Called, NewSession, Rows, Statuses, Cancellable, Active
<1>2. TableTypeOK' /\ CephTypeOK'
  BY <1>1 DEF TableTypeOK, CephTypeOK
<1>3. FlagTypeOK'
  BY DEF FlagTypeOK
<1>4. CallTypeOK'
  BY <1>1, GotoType, GotoSeeingType DEF Calls, Locked
<1>5. HandlerInv' /\ CompletedIsIndexed'
  BY <1>1 DEF HandlerInv, RowOwned, Called, SavesUnfinished,
     RestoresCancellable, UpdatesExisting, CompletedIsIndexed, CallTypeOK,
     Goto, GotoSeeing, NewSession, Cancellable, Active
<1> QED BY <1>2, <1>3, <1>4, <1>5

LEMMA BeginUploadStep ==
  ASSUME IInv, NEW r \in Reqs, BeginUpload(r)
  PROVE  IInv'
<1> USE DEF IInv, TypeOK, BeginUpload, mysql, redis, queue, local, cephVars
<1>1. \A c \in CephIds \union {NoCeph} :
        /\ Begun(r, c) \in Rows
        /\ Begun(r, c).user \in Users /\ Begun(r, c).status = "UPLOADING"
  BY DEF Begun, HandlerInv, SavesUnfinished, CallTypeOK, Rows, Statuses,
     Cancellable, Active
<1>2. PICK c \in CephIds \union {NoCeph} : GotoSeeing(r, "save", Begun(r, c)) \/ Goto(r, "mark")
  OBVIOUS
<1>3. TableTypeOK'
  BY DEF TableTypeOK
<1>4. FlagTypeOK'
  BY DEF FlagTypeOK
<1>5. CephTypeOK'
  BY NewMultipartUploadType DEF CephTypeOK
<1>6. CallTypeOK'
  BY <1>1, <1>2, GotoType, GotoSeeingType DEF Calls, Locked
<1>7. HandlerInv' /\ CompletedIsIndexed'
  BY <1>1, <1>2 DEF HandlerInv, RowOwned, Called, SavesUnfinished,
     RestoresCancellable, UpdatesExisting, CompletedIsIndexed, CallTypeOK,
     Goto, GotoSeeing
<1> QED BY <1>3, <1>4, <1>5, <1>6, <1>7

LEMMA MarkFailedStep ==
  ASSUME IInv, NEW r \in Reqs, MarkFailed(r)
  PROVE  IInv'
<1> USE DEF IInv, TypeOK, MarkFailed, mysql, redis, queue, local, cephVars
<1>1. FlagTypeOK' /\ CephTypeOK'
  BY DEF FlagTypeOK, CephTypeOK
<1>2. TableTypeOK'
  BY DEF TableTypeOK, SetRowStatus, BestEffort, Rows, Statuses, Cancellable,
     Active
<1>3. CallTypeOK'
  BY GotoType DEF Calls, Locked
<1>4. HandlerInv' /\ CompletedIsIndexed'
  BY DEF HandlerInv, RowOwned, Called, SavesUnfinished, RestoresCancellable,
     UpdatesExisting, CompletedIsIndexed, CallTypeOK, Goto, SetRowStatus,
     BestEffort, TableTypeOK, Rows, Cancellable, Active
<1> QED BY <1>1, <1>2, <1>3, <1>4

LEMMA SaveSessionStep ==
  ASSUME IInv, NEW r \in Reqs, SaveSession(r)
  PROVE  IInv'
<1> USE DEF IInv, TypeOK, SaveSession, Unanswered, mysql, redis, queue, local,
       cephVars
<1>1. FlagTypeOK' /\ CephTypeOK'
  BY DEF FlagTypeOK, CephTypeOK
<1>2. TableTypeOK'
  BY DEF TableTypeOK, Rows, Statuses, Cancellable, Active, CallTypeOK
<1>3. CallTypeOK'
  BY GotoType DEF Calls, Locked
<1>4. HandlerInv' /\ CompletedIsIndexed'
  BY DEF HandlerInv, RowOwned, Called, SavesUnfinished, RestoresCancellable,
     UpdatesExisting, CompletedIsIndexed, CallTypeOK, Goto, TableTypeOK,
     Rows, Cancellable, Active
<1> QED BY <1>1, <1>2, <1>3, <1>4

LEMMA TouchHeartbeatStep ==
  ASSUME IInv, NEW r \in Reqs, TouchHeartbeat(r)
  PROVE  IInv'
<1> USE DEF IInv, TypeOK, TouchHeartbeat, mysql, redis, queue, local, cephVars
<1>1. TableTypeOK'
  BY DEF TableTypeOK, BestEffort
<1>2. FlagTypeOK'
  BY DEF FlagTypeOK, Touched, BestEffort
<1>3. CephTypeOK'
  BY DEF CephTypeOK
<1>4. CallTypeOK'
  BY GotoType DEF Calls, Locked
<1>5. HandlerInv' /\ CompletedIsIndexed'
  BY DEF HandlerInv, RowOwned, Called, SavesUnfinished, RestoresCancellable,
     UpdatesExisting, CompletedIsIndexed, CallTypeOK, Goto, Touched,
     BestEffort
<1> QED BY <1>1, <1>2, <1>3, <1>4, <1>5

LEMMA UnlockStep ==
  ASSUME IInv, NEW r \in Reqs, Unlock(r)
  PROVE  IInv'
<1> USE DEF IInv, TypeOK, Unlock, mysql, redis, queue, local, cephVars
<1>1. FlagTypeOK' /\ CephTypeOK'
  BY DEF FlagTypeOK, CephTypeOK
<1>2. TableTypeOK'
  BY DEF TableTypeOK, BestEffort, ReleasedLock
<1>3. CallTypeOK'
  BY ReturnType DEF Calls, Locked
<1>4. HandlerInv' /\ CompletedIsIndexed'
  BY DEF HandlerInv, RowOwned, Called, SavesUnfinished, RestoresCancellable,
     UpdatesExisting, CompletedIsIndexed, CallTypeOK, Return, BestEffort
<1> QED BY <1>1, <1>2, <1>3, <1>4

-----------------------------------------------------------------------------
(* Parts.                                                                  *)

LEMMA PutPartStep ==
  ASSUME IInv, NEW r \in Reqs, PutPart(r)
  PROVE  IInv'
<1> USE DEF IInv, TypeOK, PutPart, mysql, redis, queue, local, cephVars
<1>1. TableTypeOK' /\ FlagTypeOK'
  BY DEF TableTypeOK, FlagTypeOK
<1>2. CephTypeOK'
  BY PutObjectPartType DEF CephTypeOK, PutObject, WritePart, CallTypeOK,
     Rows
<1>3. CallTypeOK'
  BY GotoType, ReturnType DEF Calls
<1>4. HandlerInv' /\ CompletedIsIndexed'
  BY DEF HandlerInv, RowOwned, Called, SavesUnfinished, RestoresCancellable,
     UpdatesExisting, CompletedIsIndexed, CallTypeOK, Goto, Return
<1> QED BY <1>1, <1>2, <1>3, <1>4

LEMMA RecordPartStep ==
  ASSUME IInv, NEW r \in Reqs, RecordPart(r)
  PROVE  IInv'
<1> USE DEF IInv, TypeOK, RecordPart, mysql, redis, queue, local, cephVars
<1>1. TableTypeOK'
  BY DEF TableTypeOK, BestEffort, CallTypeOK
<1>2. FlagTypeOK'
  BY DEF FlagTypeOK, Touched, BestEffort
<1>3. CephTypeOK'
  BY DEF CephTypeOK
<1>4. CallTypeOK'
  BY ReturnType DEF Calls
<1>5. HandlerInv' /\ CompletedIsIndexed'
  BY DEF HandlerInv, RowOwned, Called, SavesUnfinished, RestoresCancellable,
     UpdatesExisting, CompletedIsIndexed, CallTypeOK, Return, Touched,
     BestEffort
<1> QED BY <1>1, <1>2, <1>3, <1>4, <1>5

LEMMA ListPartsStep ==
  ASSUME IInv, NEW r \in Reqs, ListParts(r)
  PROVE  IInv'
<1> USE DEF IInv, TypeOK, ListParts, mysql, redis, queue, local, cephVars
<1>1. Remote(r) \in SUBSET Parts
  BY ListedPartsType DEF Remote, TableTypeOK, Rows
<1>2. TableTypeOK' /\ CephTypeOK'
  BY DEF TableTypeOK, CephTypeOK
<1>3. FlagTypeOK'
  BY DEF FlagTypeOK
<1>4. CallTypeOK'
  BY <1>1, ReturnType DEF CallTypeOK, Calls
<1>5. HandlerInv' /\ CompletedIsIndexed'
  BY DEF HandlerInv, RowOwned, Called, SavesUnfinished, RestoresCancellable,
     UpdatesExisting, CompletedIsIndexed, CallTypeOK, Return
<1> QED BY <1>2, <1>3, <1>4, <1>5

LEMMA LoadPartsStep ==
  ASSUME IInv, NEW r \in Reqs, LoadParts(r)
  PROVE  IInv'
<1> USE DEF IInv, TypeOK, LoadParts, mysql, redis, queue, local, cephVars
<1>1. FlagTypeOK' /\ CephTypeOK'
  BY DEF FlagTypeOK, CephTypeOK
<1>2. TableTypeOK'
  BY DEF TableTypeOK, BestEffort, CallTypeOK
<1>3. CallTypeOK'
  BY GotoType, ReturnType DEF Calls
<1>4. HandlerInv' /\ CompletedIsIndexed'
  BY DEF HandlerInv, RowOwned, Called, SavesUnfinished, RestoresCancellable,
     UpdatesExisting, CompletedIsIndexed, CallTypeOK, Goto, Return,
     BestEffort
<1> QED BY <1>1, <1>2, <1>3, <1>4

-----------------------------------------------------------------------------
(* CompleteUpload.                                                         *)

LEMMA ClaimCompletionStep ==
  ASSUME IInv, NEW r \in Reqs, ClaimCompletion(r)
  PROVE  IInv'
<1> USE DEF IInv, TypeOK, ClaimCompletion, Unanswered, mysql, redis, queue, local,
       cephVars
<1>1. FlagTypeOK' /\ CephTypeOK'
  BY DEF FlagTypeOK, CephTypeOK
<1>2. TableTypeOK'
  BY DEF TableTypeOK, SetRowStatus, Rows, Statuses, Cancellable, Active
<1>3. CallTypeOK'
  BY GotoType, ReturnType DEF Calls
<1>4. HandlerInv' /\ CompletedIsIndexed'
  BY DEF HandlerInv, RowOwned, Called, SavesUnfinished, RestoresCancellable,
     UpdatesExisting, CompletedIsIndexed, CallTypeOK, Goto, Return,
     SetRowStatus, TableTypeOK, Rows, Cancellable, Active
<1> QED BY <1>1, <1>2, <1>3, <1>4

LEMMA ResolveCompleteStep ==
  ASSUME IInv, NEW r \in Reqs, ResolveComplete(r)
  PROVE  IInv'
<1> USE DEF IInv, TypeOK, ResolveComplete, mysql, redis, queue, local, cephVars
<1>1. TableTypeOK' /\ FlagTypeOK' /\ CephTypeOK'
  BY DEF TableTypeOK, FlagTypeOK, CephTypeOK
<1>2. CallTypeOK'
  BY GotoType, GotoSeeingType DEF Calls, TableTypeOK
<1>3. HandlerInv' /\ CompletedIsIndexed'
  BY DEF HandlerInv, RowOwned, Called, SavesUnfinished, RestoresCancellable,
     UpdatesExisting, CompletedIsIndexed, CallTypeOK, Goto, GotoSeeing, Owns
<1> QED BY <1>1, <1>2, <1>3

LEMMA AssembleStep ==
  ASSUME IInv, NEW r \in Reqs, Assemble(r)
  PROVE  IInv'
<1> USE DEF IInv, TypeOK, Assemble, mysql, redis, queue, local, cephVars
<1>1. TableTypeOK' /\ FlagTypeOK'
  BY DEF TableTypeOK, FlagTypeOK
<1>2. CephTypeOK'
  BY CompleteMultipartUploadType DEF CephTypeOK, CallTypeOK, Rows
<1>3. CallTypeOK'
  BY GotoType DEF Calls
<1>4. HandlerInv' /\ CompletedIsIndexed'
  BY DEF HandlerInv, RowOwned, Called, SavesUnfinished, RestoresCancellable,
     UpdatesExisting, CompletedIsIndexed, CallTypeOK, Goto
<1> QED BY <1>1, <1>2, <1>3, <1>4

LEMMA StatObjectStep ==
  ASSUME IInv, NEW r \in Reqs, StatObject(r)
  PROVE  IInv'
<1> USE DEF IInv, TypeOK, StatObject, mysql, redis, queue, local, cephVars
<1>1. TableTypeOK' /\ FlagTypeOK' /\ CephTypeOK'
  BY DEF TableTypeOK, FlagTypeOK, CephTypeOK
<1>2. CallTypeOK'
  BY GotoType DEF Calls
<1>3. HandlerInv' /\ CompletedIsIndexed'
  BY DEF HandlerInv, RowOwned, Called, SavesUnfinished, RestoresCancellable,
     UpdatesExisting, CompletedIsIndexed, CallTypeOK, Goto
<1> QED BY <1>1, <1>2, <1>3

LEMMA AnnounceStep ==
  ASSUME IInv, NEW r \in Reqs, Announce(r)
  PROVE  IInv'
<1> USE DEF IInv, TypeOK, Announce, mysql, redis, queue, local, cephVars
<1>1. TableTypeOK' /\ FlagTypeOK' /\ CephTypeOK'
  BY DEF TableTypeOK, FlagTypeOK, CephTypeOK
<1>2. CallTypeOK'
  BY GotoType, ReturnType DEF Calls
<1>3. HandlerInv' /\ CompletedIsIndexed'
  BY DEF HandlerInv, RowOwned, Called, SavesUnfinished, RestoresCancellable,
     UpdatesExisting, CompletedIsIndexed, CallTypeOK, Goto, Return
<1> QED BY <1>1, <1>2, <1>3

LEMMA RevertCompletionStep ==
  ASSUME IInv, NEW r \in Reqs, RevertCompletion(r)
  PROVE  IInv'
<1> USE DEF IInv, TypeOK, RevertCompletion, mysql, redis, queue, local, cephVars
<1>1. FlagTypeOK' /\ CephTypeOK'
  BY DEF FlagTypeOK, CephTypeOK
<1>2. TableTypeOK'
  BY DEF TableTypeOK, Reverted, BestEffort, SetRowStatus, Rows, Statuses,
     Cancellable, Active
<1>3. CallTypeOK'
  BY ReturnType DEF Calls
<1>4. HandlerInv' /\ CompletedIsIndexed'
  BY DEF HandlerInv, RowOwned, Called, SavesUnfinished, RestoresCancellable,
     UpdatesExisting, CompletedIsIndexed, CallTypeOK, Return, Reverted,
     BestEffort, SetRowStatus, TableTypeOK, Rows, Cancellable, Active
<1> QED BY <1>1, <1>2, <1>3, <1>4

-----------------------------------------------------------------------------
(* CancelUpload, and statuses set by id.                                   *)

LEMMA ClaimCancelStep ==
  ASSUME IInv, NEW r \in Reqs, ClaimCancel(r)
  PROVE  IInv'
<1> USE DEF IInv, TypeOK, ClaimCancel, Unanswered, mysql, redis, queue, local,
       cephVars
<1>1. FlagTypeOK' /\ CephTypeOK'
  BY DEF FlagTypeOK, CephTypeOK
<1>2. TableTypeOK'
  BY DEF TableTypeOK, SetRowStatus, Rows, Statuses, Cancellable, Active
<1>3. CallTypeOK'
  BY GotoType, ReturnType DEF Calls
<1>4. CompletedIsIndexed'
  BY DEF CompletedIsIndexed, SetRowStatus, TableTypeOK, Rows, Cancellable, Active
<1>5. (RowOwned /\ UpdatesExisting)'
  BY DEF HandlerInv, RowOwned, UpdatesExisting, CallTypeOK, Goto, Return,
     SetRowStatus, TableTypeOK, Rows, Cancellable, Active
<1>6. (Called /\ SavesUnfinished /\ RestoresCancellable)'
  BY DEF HandlerInv, Called, SavesUnfinished, RestoresCancellable, CallTypeOK,
     Goto, Return
<1> QED BY <1>1, <1>2, <1>3, <1>4, <1>5, <1>6 DEF HandlerInv

LEMMA ResolveCancelStep ==
  ASSUME IInv, NEW r \in Reqs, ResolveCancel(r)
  PROVE  IInv'
<1> USE DEF IInv, TypeOK, ResolveCancel, mysql, redis, queue, local, cephVars
<1>1. TableTypeOK' /\ FlagTypeOK' /\ CephTypeOK'
  BY DEF TableTypeOK, FlagTypeOK, CephTypeOK
<1>2. CallTypeOK'
  BY GotoType, GotoSeeingType DEF Calls, TableTypeOK, CallTypeOK, Rows
<1>3. HandlerInv' /\ CompletedIsIndexed'
  BY DEF HandlerInv, RowOwned, Called, SavesUnfinished, RestoresCancellable,
     UpdatesExisting, CompletedIsIndexed, CallTypeOK, Goto, GotoSeeing,
     Owns, Rows
<1> QED BY <1>1, <1>2, <1>3

LEMMA AbortUploadStep ==
  ASSUME IInv, NEW r \in Reqs, AbortUpload(r)
  PROVE  IInv'
<1> USE DEF IInv, TypeOK, AbortUpload, mysql, redis, queue, local, cephVars
<1>1. TableTypeOK' /\ FlagTypeOK'
  BY DEF TableTypeOK, FlagTypeOK
<1>2. CephTypeOK'
  BY AbortMultipartUploadType DEF CephTypeOK, RemoveObject, Discard,
     CallTypeOK, Rows
<1>3. CallTypeOK'
  BY GotoType DEF Calls
<1>4. HandlerInv' /\ CompletedIsIndexed'
  BY DEF HandlerInv, RowOwned, Called, SavesUnfinished, RestoresCancellable,
     UpdatesExisting, CompletedIsIndexed, CallTypeOK, Goto
<1> QED BY <1>1, <1>2, <1>3, <1>4

LEMMA RestoreStatusStep ==
  ASSUME IInv, NEW r \in Reqs, RestoreStatus(r)
  PROVE  IInv'
<1> USE DEF IInv, TypeOK, RestoreStatus, mysql, redis, queue, local, cephVars
<1>1. FlagTypeOK' /\ CephTypeOK'
  BY DEF FlagTypeOK, CephTypeOK
<1>2. TableTypeOK'
  BY DEF TableTypeOK, SetRowStatus, BestEffort, Rows, Statuses, Cancellable,
     Active, CallTypeOK
<1>3. CallTypeOK'
  BY ReturnType DEF Calls
<1>4. HandlerInv' /\ CompletedIsIndexed'
  BY DEF HandlerInv, RowOwned, Called, SavesUnfinished, RestoresCancellable,
     UpdatesExisting, CompletedIsIndexed, CallTypeOK, Return, SetRowStatus,
     BestEffort, TableTypeOK, Rows, Cancellable, Active
<1> QED BY <1>1, <1>2, <1>3, <1>4

LEMMA ClearUploadStep ==
  ASSUME IInv, NEW r \in Reqs, ClearUpload(r)
  PROVE  IInv'
<1> USE DEF IInv, TypeOK, ClearUpload, mysql, redis, queue, local, cephVars
<1>1. TableTypeOK' /\ FlagTypeOK' /\ CephTypeOK'
  BY DEF TableTypeOK, FlagTypeOK, CephTypeOK
<1>2. CallTypeOK'
  BY ReturnType DEF Calls
<1>3. HandlerInv' /\ CompletedIsIndexed'
  BY DEF HandlerInv, RowOwned, Called, SavesUnfinished, RestoresCancellable,
     UpdatesExisting, CompletedIsIndexed, CallTypeOK, Return
<1> QED BY <1>1, <1>2, <1>3

LEMMA SetStatusStep ==
  ASSUME IInv, NEW r \in Reqs, SetStatus(r)
  PROVE  IInv'
<1> USE DEF IInv, TypeOK, SetStatus, Unanswered, mysql, redis, queue, local,
       cephVars
<1>1. FlagTypeOK' /\ CephTypeOK'
  BY DEF FlagTypeOK, CephTypeOK
<1>2. TableTypeOK'
  BY DEF TableTypeOK, SetRowStatus, Rows, Statuses, Cancellable, Active
<1>3. CallTypeOK'
  BY GotoType, ReturnType DEF Calls
<1>4. HandlerInv' /\ CompletedIsIndexed'
  BY DEF HandlerInv, RowOwned, Called, SavesUnfinished, RestoresCancellable,
     UpdatesExisting, CompletedIsIndexed, CallTypeOK, Goto, Return,
     SetRowStatus, TableTypeOK, Rows, Cancellable, Active
<1> QED BY <1>1, <1>2, <1>3, <1>4

LEMMA BeatStep ==
  ASSUME IInv, NEW r \in Reqs, Beat(r)
  PROVE  IInv'
<1> USE DEF IInv, TypeOK, Beat, mysql, redis, queue, local, cephVars
<1>1. TableTypeOK'
  BY DEF TableTypeOK, BestEffort
<1>2. FlagTypeOK'
  BY DEF FlagTypeOK, Touched, BestEffort
<1>3. CephTypeOK'
  BY DEF CephTypeOK
<1>4. CallTypeOK'
  BY ReturnType DEF Calls
<1>5. HandlerInv' /\ CompletedIsIndexed'
  BY DEF HandlerInv, RowOwned, Called, SavesUnfinished, RestoresCancellable,
     UpdatesExisting, CompletedIsIndexed, CallTypeOK, Return, Touched,
     BestEffort
<1> QED BY <1>1, <1>2, <1>3, <1>4, <1>5

-----------------------------------------------------------------------------
(* The consumer, and the outside world.                                    *)

LEMMA HandleUploadCompleteStep ==
  ASSUME IInv, HandleUploadComplete
  PROVE  IInv'
<1> USE DEF IInv, TypeOK, HandleUploadComplete, mysql, redis, queue, local, cephVars
<1>1. CASE UNCHANGED <<row, object, refs, after>>
  <2>1. TableTypeOK' /\ CephTypeOK' /\ CallTypeOK' /\ HandlerInv' /\ CompletedIsIndexed'
    BY <1>1 DEF TableTypeOK, CephTypeOK, CallTypeOK, HandlerInv, RowOwned,
       Called,
                SavesUnfinished, RestoresCancellable, UpdatesExisting, CompletedIsIndexed
  <2>2. FlagTypeOK'
    BY <1>1 DEF FlagTypeOK
  <2> QED BY <2>1, <2>2
<1>2. CASE /\ row.status # "NONE" /\ object' = TRUE /\ refs' = Listed
           /\ row' = SetRowStatus("COMPLETE") /\ after' = TRUE
  <2>1. row' \in Rows /\ row'.user = row.user /\ row'.status = "COMPLETE" /\ row.user \in Users
    BY <1>2 DEF TableTypeOK, Rows, Statuses, SetRowStatus, HandlerInv, RowOwned
  <2>2. TableTypeOK' /\ CephTypeOK' /\ CallTypeOK'
    BY <1>2, <2>1 DEF TableTypeOK, CephTypeOK, CallTypeOK, Listed
  <2>3. FlagTypeOK'
    BY <1>2 DEF FlagTypeOK
  <2>4. HandlerInv'
    BY <2>1 DEF HandlerInv, RowOwned, Called, SavesUnfinished,
       RestoresCancellable, UpdatesExisting
  <2>5. CompletedIsIndexed'
    BY <1>2, <2>1 DEF CompletedIsIndexed, Listed
  <2> QED BY <2>2, <2>3, <2>4, <2>5
<1> QED BY <1>1, <1>2

LEMMA AfterUploadCompleteStep ==
  ASSUME IInv, AfterUploadComplete
  PROVE  IInv'
<1> USE DEF IInv, TypeOK, AfterUploadComplete, mysql, redis, queue, local, cephVars
<1>1. CephTypeOK' /\ CallTypeOK'
  BY DEF CephTypeOK, CallTypeOK
<1>2. TableTypeOK'
  BY DEF TableTypeOK, BestEffort
<1>3. FlagTypeOK'
  BY DEF FlagTypeOK, BestEffort
<1>4. HandlerInv' /\ CompletedIsIndexed'
  BY DEF HandlerInv, RowOwned, Called, SavesUnfinished, RestoresCancellable,
     UpdatesExisting, CompletedIsIndexed, BestEffort, FlagTypeOK
<1> QED BY <1>1, <1>2, <1>3, <1>4

LEMMA ConsumerCrashStep ==
  ASSUME IInv, ConsumerCrash
  PROVE  IInv'
<1> USE DEF IInv, TypeOK, ConsumerCrash, mysql, redis, queue, local, cephVars
<1>1. TableTypeOK' /\ FlagTypeOK' /\ CephTypeOK' /\ CallTypeOK'
  BY DEF TableTypeOK, FlagTypeOK, CephTypeOK, CallTypeOK
<1>2. HandlerInv' /\ CompletedIsIndexed'
  BY DEF HandlerInv, RowOwned, Called, SavesUnfinished, RestoresCancellable,
     UpdatesExisting, CompletedIsIndexed, FlagTypeOK
<1> QED BY <1>1, <1>2

LEMMA CrashStep ==
  ASSUME IInv, NEW r \in Reqs, Crash(r)
  PROVE  IInv'
<1> USE DEF IInv, TypeOK, Crash, mysql, redis, queue, local, cephVars
<1>1. TableTypeOK' /\ FlagTypeOK' /\ CephTypeOK'
  BY DEF TableTypeOK, FlagTypeOK, CephTypeOK
<1>2. CallTypeOK'
  BY ReturnType DEF Calls
<1>3. HandlerInv' /\ CompletedIsIndexed'
  BY DEF HandlerInv, RowOwned, Called, SavesUnfinished, RestoresCancellable,
     UpdatesExisting, CompletedIsIndexed, CallTypeOK, Return
<1> QED BY <1>1, <1>2, <1>3

LEMMA LockExpiresStep ==
  ASSUME IInv, LockExpires
  PROVE  IInv'
<1> USE DEF IInv, TypeOK, LockExpires, mysql, redis, queue, local, cephVars
<1>1. TableTypeOK' /\ FlagTypeOK' /\ CephTypeOK' /\ CallTypeOK'
  BY DEF TableTypeOK, FlagTypeOK, CephTypeOK, CallTypeOK
<1>2. HandlerInv' /\ CompletedIsIndexed'
  BY DEF HandlerInv, RowOwned, Called, SavesUnfinished, RestoresCancellable,
     UpdatesExisting, CompletedIsIndexed
<1> QED BY <1>1, <1>2

LEMMA HeartbeatExpiresStep ==
  ASSUME IInv, HeartbeatExpires
  PROVE  IInv'
<1> USE DEF IInv, TypeOK, HeartbeatExpires, mysql, redis, queue, local, cephVars
<1>1. TableTypeOK' /\ FlagTypeOK' /\ CephTypeOK' /\ CallTypeOK'
  BY DEF TableTypeOK, FlagTypeOK, CephTypeOK, CallTypeOK
<1>2. HandlerInv' /\ CompletedIsIndexed'
  BY DEF HandlerInv, RowOwned, Called, SavesUnfinished, RestoresCancellable,
     UpdatesExisting, CompletedIsIndexed
<1> QED BY <1>1, <1>2

-----------------------------------------------------------------------------
(* The invariant holds in every state.                                     *)

LEMMA InitIInv == Init => IInv
<1> SUFFICES ASSUME Init PROVE IInv
  OBVIOUS
<1> USE DEF Init
<1>1. TableTypeOK /\ FlagTypeOK
  BY NoRowType DEF TableTypeOK, FlagTypeOK
<1>2. CephTypeOK
  BY DEF CephInit, CephTypeOK
<1>3. CallTypeOK
  BY NoRowType DEF CallTypeOK, Calls
<1>4. HandlerInv /\ CompletedIsIndexed
  BY DEF HandlerInv, RowOwned, Called, SavesUnfinished, RestoresCancellable,
     UpdatesExisting, CompletedIsIndexed, NoRow
<1> QED BY <1>1, <1>2, <1>3, <1>4 DEF IInv, TypeOK

LEMMA RequestStep ==
  ASSUME IInv, NEW r \in Reqs, NEW u \in Users, Request(r, u)
  PROVE  IInv'
BY InitiateUploadStep, AuthorizePartStep, GetUploadStep, CompleteUploadStep,
   CancelUploadStep, UploadActionStep DEF Request

LEMMA HandlerStep ==
  ASSUME IInv, NEW r \in Reqs, Handler(r)
  PROVE  IInv'
<1>1. CASE \/ AcquireLock(r) \/ AttachExisting(r) \/ LookupSession(r)
           \/ CheckHeartbeat(r) \/ TakeOver(r)
           \/ WriteSession(r) \/ BeginUpload(r) \/ MarkFailed(r)
           \/ SaveSession(r) \/ TouchHeartbeat(r) \/ Unlock(r)
  BY <1>1, AcquireLockStep, AttachExistingStep, LookupSessionStep,
     CheckHeartbeatStep, TakeOverStep, WriteSessionStep, BeginUploadStep,
     MarkFailedStep, SaveSessionStep, TouchHeartbeatStep, UnlockStep
<1>2. CASE PutPart(r) \/ RecordPart(r) \/ ListParts(r) \/ LoadParts(r)
  BY <1>2, PutPartStep, RecordPartStep, ListPartsStep, LoadPartsStep
<1>3. CASE \/ ClaimCompletion(r) \/ ResolveComplete(r) \/ Assemble(r)
           \/ StatObject(r) \/ Announce(r) \/ RevertCompletion(r)
  BY <1>3, ClaimCompletionStep, ResolveCompleteStep, AssembleStep,
     StatObjectStep, AnnounceStep, RevertCompletionStep
<1>4. CASE \/ ClaimCancel(r) \/ ResolveCancel(r) \/ AbortUpload(r)
           \/ RestoreStatus(r) \/ ClearUpload(r) \/ SetStatus(r) \/ Beat(r)
  BY <1>4, ClaimCancelStep, ResolveCancelStep, AbortUploadStep,
     RestoreStatusStep, ClearUploadStep, SetStatusStep, BeatStep
<1> QED BY <1>1, <1>2, <1>3, <1>4 DEF Handler

LEMMA StutterStep ==
  ASSUME IInv, UNCHANGED vars
  PROVE  IInv'
<1> USE DEF IInv, TypeOK, vars, mysql, redis, queue, cephVars, local
<1>1. TableTypeOK' /\ FlagTypeOK'
  BY DEF TableTypeOK, FlagTypeOK
<1>2. CephTypeOK' /\ CallTypeOK'
  BY DEF CephTypeOK, CallTypeOK
<1>3. HandlerInv' /\ CompletedIsIndexed'
  BY DEF HandlerInv, RowOwned, Called, SavesUnfinished, RestoresCancellable,
     UpdatesExisting, CompletedIsIndexed
<1> QED BY <1>1, <1>2, <1>3

LEMMA NextKeepsIInv == IInv /\ [Next]_vars => IInv'
<1> SUFFICES ASSUME IInv, [Next]_vars PROVE IInv'
  OBVIOUS
<1>1. CASE \E u \in Users : InitiateInstant(u)
  BY <1>1, InitiateInstantStep
<1>2. CASE \E r \in Reqs, u \in Users : Request(r, u)
  BY <1>2, RequestStep
<1>3. CASE \E r \in Reqs : Handler(r)
  BY <1>3, HandlerStep
<1>4. CASE Consumer
  BY <1>4, HandleUploadCompleteStep, AfterUploadCompleteStep DEF Consumer
<1>5. CASE World
  BY <1>5, ConsumerCrashStep, LockExpiresStep, HeartbeatExpiresStep, CrashStep
  DEF World
<1>6. CASE UNCHANGED vars
  BY <1>6, StutterStep
<1> QED BY <1>1, <1>2, <1>3, <1>4, <1>5, <1>6 DEF Next

\* Every table, Redis key, Ceph upload, flag and handler's local keeps its
\* type, for any users, slots, upload ids, parts, mode, endpoints and faults.
THEOREM TypeCorrect == Spec => []TypeOK
<1>1. IInv => TypeOK
  BY DEF IInv
<1> QED BY <1>1, InitIInv, NextKeepsIInv, PTL DEF Spec

\* However many requests interleave, and whatever fails, crashes or is lost, a
\* COMPLETE row agrees with file_object, user_file and all_file.
THEOREM CompletedIsIndexedAlways == Spec => []CompletedIsIndexed
<1>1. IInv => CompletedIsIndexed
  BY DEF IInv
<1> QED BY <1>1, InitIInv, NextKeepsIInv, PTL DEF Spec

-----------------------------------------------------------------------------
(* lock_hash.                                                              *)

\* The step neither touches the lock nor brings a request past SetNX.
KeepsLock ==
  lock' = lock /\ \A q \in Reqs : pc'[q] \in Locked => pc[q] \in Locked

LEMMA MoveKeepsLock ==
  ASSUME CallTypeOK, NEW r \in Reqs, NEW call, lock' = lock,
         pc' = [pc EXCEPT ![r] = call], call \notin Locked \/ pc[r] \in Locked
  PROVE  KeepsLock
BY DEF CallTypeOK, KeepsLock

LEMMA RequestKeepsLock ==
  ASSUME CallTypeOK, NEW r \in Reqs, NEW u \in Users, Request(r, u)
  PROVE  KeepsLock
<1>1. lock' = lock
  BY DEF Request, InitiateUpload, AuthorizePart, GetUpload, CompleteUpload,
     CancelUpload, UploadAction, redis
<1>2. PICK call : /\ pc' = [pc EXCEPT ![r] = call]
                  /\ call \in {"lock", "put", "getList", "claim", "completeList",
                               "cancel", "pause", "resume", "beat"}
  BY DEF Request, InitiateUpload, AuthorizePart, GetUpload, CompleteUpload,
     CancelUpload, UploadAction, Arrive
<1> QED BY <1>1, <1>2, MoveKeepsLock DEF Locked

LEMMA HandlerKeepsLock ==
  ASSUME CallTypeOK, NEW r \in Reqs, Handler(r), ~AcquireLock(r), ~Unlock(r)
  PROVE  KeepsLock
<1>1. CASE \/ AttachExisting(r) \/ LookupSession(r) \/ CheckHeartbeat(r)
           \/ TakeOver(r) \/ WriteSession(r) \/ BeginUpload(r)
           \/ MarkFailed(r) \/ SaveSession(r) \/ TouchHeartbeat(r)
  <2>1. lock' = lock /\ pc[r] \in Locked
    BY <1>1 DEF AttachExisting, LookupSession, CheckHeartbeat, TakeOver,
       WriteSession, BeginUpload, MarkFailed, SaveSession, TouchHeartbeat,
       redis, Locked
  <2>2. \E call : pc' = [pc EXCEPT ![r] = call]
    BY <1>1 DEF AttachExisting, LookupSession, CheckHeartbeat, TakeOver,
       WriteSession, BeginUpload, MarkFailed, SaveSession, TouchHeartbeat,
       Goto, GotoSeeing
  <2> QED BY <2>1, <2>2, MoveKeepsLock
<1>2. CASE PutPart(r) \/ RecordPart(r) \/ ListParts(r) \/ LoadParts(r)
  <2>1. lock' = lock
    BY <1>2 DEF PutPart, RecordPart, ListParts, LoadParts, redis
  <2>2. PICK call \in {"idle", "record", "getFill", "completeFill", "claim"} :
          pc' = [pc EXCEPT ![r] = call]
    BY <1>2 DEF PutPart, RecordPart, ListParts, LoadParts, Goto, Return
  <2> QED BY <2>1, <2>2, MoveKeepsLock DEF Locked
<1>3. CASE \/ ClaimCompletion(r) \/ ResolveComplete(r) \/ Assemble(r)
           \/ StatObject(r) \/ Announce(r) \/ RevertCompletion(r)
  <2>1. lock' = lock
    BY <1>3 DEF ClaimCompletion, ResolveComplete, Assemble, StatObject,
       Announce, RevertCompletion, redis
  <2>2. PICK call \in {"idle", "resolve", "assemble", "stat", "announce", "revert"} :
          pc' = [pc EXCEPT ![r] = call]
    BY <1>3 DEF ClaimCompletion, ResolveComplete, Assemble, StatObject,
       Announce, RevertCompletion, Goto, GotoSeeing, Return
  <2> QED BY <2>1, <2>2, MoveKeepsLock DEF Locked
<1>4. CASE \/ ClaimCancel(r) \/ ResolveCancel(r) \/ AbortUpload(r)
           \/ RestoreStatus(r) \/ ClearUpload(r) \/ SetStatus(r) \/ Beat(r)
  <2>1. lock' = lock
    BY <1>4 DEF ClaimCancel, ResolveCancel, AbortUpload, RestoreStatus,
       ClearUpload, SetStatus, Beat, redis
  <2>2. PICK call \in {"idle", "cancelResolve", "abort", "restore", "clean", "beat"} :
          pc' = [pc EXCEPT ![r] = call]
    BY <1>4 DEF ClaimCancel, ResolveCancel, AbortUpload, RestoreStatus,
       ClearUpload, SetStatus, Beat, Goto, GotoSeeing, Return
  <2> QED BY <2>1, <2>2, MoveKeepsLock DEF Locked
<1> QED BY <1>1, <1>2, <1>3, <1>4 DEF Handler

\* Only SetNX, the deferred script and the 30 s move the lock.
LEMMA LockSteps ==
  ASSUME CallTypeOK, [Next]_vars
  PROVE  \/ KeepsLock
         \/ \E r \in Reqs : AcquireLock(r) \/ Unlock(r)
         \/ LockExpires
<1>1. CASE \E u \in Users : InitiateInstant(u)
  BY <1>1 DEF InitiateInstant, KeepsLock, redis
<1>2. CASE \E r \in Reqs, u \in Users : Request(r, u)
  BY <1>2, RequestKeepsLock
<1>3. CASE \E r \in Reqs : Handler(r)
  BY <1>3, HandlerKeepsLock
<1>4. CASE Consumer
  BY <1>4 DEF Consumer, HandleUploadComplete, AfterUploadComplete, KeepsLock,
     redis
<1>5. CASE World
  <2>1. CASE ConsumerCrash \/ HeartbeatExpires
    BY <2>1 DEF ConsumerCrash, HeartbeatExpires, KeepsLock, redis
  <2>2. CASE \E r \in Reqs : Crash(r)
    <3>1. PICK r \in Reqs : Crash(r)
      BY <2>2
    <3> QED BY <3>1, MoveKeepsLock DEF Crash, Return, redis, Locked
  <2> QED BY <1>5, <2>1, <2>2 DEF World
<1>6. CASE UNCHANGED vars
  BY <1>6 DEF vars, redis, KeepsLock
<1> QED BY <1>1, <1>2, <1>3, <1>4, <1>5, <1>6 DEF Next

\* While a request stays within its 30 s, lock_hash holds its value from SetNX
\* to its deferred script, however late others are.
THEOREM LockIsExclusive == Spec => []LockExclusive
<1>1. Init => LockExclusive
  BY DEF Init, LockExclusive, Locked
<1>2. TypeOK /\ LockExclusive /\ [Next]_vars => LockExclusive'
  <2> SUFFICES ASSUME TypeOK, LockExclusive, [Next]_vars,
                      NEW q \in Reqs, pc'[q] \in Locked, q \notin Slow
               PROVE  lock' = q
    BY DEF LockExclusive
  <2> CallTypeOK
    BY DEF TypeOK
  <2>1. CASE KeepsLock
    BY <2>1 DEF KeepsLock, LockExclusive
  <2>2. CASE \E r \in Reqs : AcquireLock(r)
    <3>1. PICK r \in Reqs : AcquireLock(r)
      BY <2>2
    <3>2. CASE q = r
      BY <3>1, <3>2 DEF AcquireLock, Goto, Return, CallTypeOK, Locked
    <3>3. CASE q # r
      BY <3>1, <3>3, RequestAssumption
      DEF AcquireLock, Goto, Return, CallTypeOK, LockExclusive
    <3> QED BY <3>2, <3>3
  <2>3. CASE \E r \in Reqs : Unlock(r)
    <3>1. PICK r \in Reqs : Unlock(r)
      BY <2>3
    <3>2. q # r /\ pc'[q] = pc[q]
      BY <3>1 DEF Unlock, Return, CallTypeOK, Locked
    <3>3. lock = q
      BY <3>2 DEF LockExclusive
    <3> QED BY <3>1, <3>2, <3>3 DEF Unlock, BestEffort, ReleasedLock
  <2>4. CASE LockExpires
    <3>1. pc'[q] = pc[q]
      BY <2>4 DEF LockExpires
    <3> QED BY <2>4, <3>1 DEF LockExpires, LockExclusive
  <2> QED BY <2>1, <2>2, <2>3, <2>4, LockSteps
<1> QED BY <1>1, <1>2, TypeCorrect, PTL DEF Spec

\* Whatever is late, the lock is taken from a request in its critical section
\* only by the request's own script or by expiry.
THEOREM LockIsReleasedByOwner == Spec => LockReleasedByOwner
<1> DEFINE Kept == \A r \in Reqs : lock = r /\ pc[r] \in Locked /\ lock' # r
                                   => pc'[r] = "idle" \/ pc' = pc
<1>1. TypeOK /\ [Next]_vars => [Kept]_vars
  <2> SUFFICES ASSUME TypeOK, [Next]_vars, NEW q \in Reqs,
                      lock = q, pc[q] \in Locked, lock' # q
               PROVE  pc'[q] = "idle" \/ pc' = pc
    OBVIOUS
  <2> CallTypeOK
    BY DEF TypeOK
  <2>1. CASE KeepsLock
    BY <2>1 DEF KeepsLock
  <2>2. CASE \E r \in Reqs : AcquireLock(r)
    BY <2>2, RequestAssumption DEF AcquireLock
  <2>3. CASE \E r \in Reqs : Unlock(r)
    BY <2>3 DEF Unlock, BestEffort, ReleasedLock, Return, CallTypeOK
  <2>4. CASE LockExpires
    BY <2>4 DEF LockExpires
  <2> QED BY <2>1, <2>2, <2>3, <2>4, LockSteps
<1> QED BY <1>1, TypeCorrect, PTL DEF Spec, LockReleasedByOwner

-----------------------------------------------------------------------------
(* UploadSession implements UploadContract: each call maps to a step of the  *)
(* contract or to none.                                                      *)

\* What a call does to the three tables.

Works ==
  /\ UNCHANGED <<object, refs>>
  /\ row'.status \notin {"NONE", "COMPLETE"}

Shares ==
  /\ object /\ UNCHANGED <<row, object>>
  /\ \E u \in Users : refs' = refs \union {u}

Publishes ==
  /\ row.status \notin {"NONE", "CANCELLED", "FAILED"}
  /\ object' = TRUE /\ refs' = refs \union {row.user}
  /\ row' = SetRowStatus("COMPLETE")

-----------------------------------------------------------------------------
(* Each of these is a step of the contract.                                *)

LEMMA WorksRefines ==
  ASSUME IInv', Works
  PROVE  Contract!Work
<1>1. row'.user \in Users
  BY DEF IInv, HandlerInv, RowOwned, Works
<1>2. Phase' \in {"open", "dropped"}
  BY DEF Phase, Works
<1> QED BY <1>1, <1>2 DEF Works, Contract!Work

LEMMA SharesRefines ==
  ASSUME Shares
  PROVE  \E u \in Users : Contract!Share(u)
BY DEF Shares, Contract!Share, Phase

LEMMA PublishesRefines ==
  ASSUME IInv, Publishes
  PROVE  Contract!Publish
<1>1. row'.status = "COMPLETE" /\ row'.user = row.user
  BY DEF IInv, TypeOK, TableTypeOK, Rows, Publishes, SetRowStatus
<1>2. Phase' = "complete" /\ Phase \in {"open", "complete"}
  BY <1>1 DEF Phase, Publishes
<1> QED BY <1>1, <1>2 DEF Publishes, Contract!Publish

-----------------------------------------------------------------------------
(* Each call of the program is one of these, or leaves the tables alone.   *)

LEMMA RequestTables ==
  ASSUME NEW r \in Reqs, NEW u \in Users, Request(r, u)
  PROVE  UNCHANGED mysql
BY DEF Request, InitiateUpload, AuthorizePart, GetUpload, CompleteUpload,
   CancelUpload, UploadAction

LEMMA SetsStatus ==
  ASSUME IInv, UNCHANGED <<object, refs>>,
         NEW st \in Statuses \ {"NONE", "COMPLETE"}, row' = SetRowStatus(st)
  PROVE  Works
BY DEF IInv, TypeOK, TableTypeOK, Rows, SetRowStatus, Works

LEMMA InitiateTables ==
  ASSUME IInv, NEW r \in Reqs,
         \/ AcquireLock(r) \/ AttachExisting(r) \/ LookupSession(r)
         \/ CheckHeartbeat(r) \/ TakeOver(r) \/ WriteSession(r)
         \/ BeginUpload(r) \/ MarkFailed(r) \/ SaveSession(r)
         \/ TouchHeartbeat(r) \/ Unlock(r)
  PROVE  UNCHANGED mysql \/ Works \/ Shares
<1>1. CASE \/ AcquireLock(r) \/ LookupSession(r) \/ CheckHeartbeat(r)
           \/ BeginUpload(r) \/ TouchHeartbeat(r) \/ Unlock(r)
  BY <1>1 DEF AcquireLock, LookupSession, CheckHeartbeat, BeginUpload,
     TouchHeartbeat, Unlock, mysql
<1>2. CASE AttachExisting(r)
  <2>1. who[r] \in Users
    BY <1>2 DEF AttachExisting, IInv, HandlerInv, Called
  <2> QED BY <1>2, <2>1 DEF AttachExisting, Attach, BestEffort, Shares, mysql
<1>3. CASE TakeOver(r) \/ SaveSession(r)
  <2>1. row' \in {seen[r], row} /\ seen[r].status \in {"INIT", "UPLOADING"}
    BY <1>3 DEF TakeOver, SaveSession, Unanswered, IInv, HandlerInv,
       SavesUnfinished
  <2> QED BY <1>3, <2>1 DEF TakeOver, SaveSession, Works, mysql
<1>4. CASE WriteSession(r)
  BY <1>4 DEF WriteSession, NewSession, Unanswered, Works, mysql
<1>5. CASE MarkFailed(r)
  BY <1>5, SetsStatus DEF MarkFailed, BestEffort, Statuses, Cancellable, mysql
<1> QED BY <1>1, <1>2, <1>3, <1>4, <1>5

LEMMA PartTables ==
  ASSUME NEW r \in Reqs,
         PutPart(r) \/ RecordPart(r) \/ ListParts(r) \/ LoadParts(r)
  PROVE  UNCHANGED mysql
BY DEF PutPart, RecordPart, ListParts, LoadParts

LEMMA CompleteTables ==
  ASSUME IInv, NEW r \in Reqs,
         \/ ClaimCompletion(r) \/ ResolveComplete(r) \/ Assemble(r)
         \/ StatObject(r) \/ Announce(r) \/ RevertCompletion(r)
  PROVE  UNCHANGED mysql \/ Works
<1>1. CASE ResolveComplete(r) \/ Assemble(r) \/ StatObject(r) \/ Announce(r)
  BY <1>1 DEF ResolveComplete, Assemble, StatObject, Announce
<1>2. CASE ClaimCompletion(r)
  BY <1>2, SetsStatus DEF ClaimCompletion, Unanswered, Statuses, mysql
<1>3. CASE RevertCompletion(r)
  BY <1>3, SetsStatus
  DEF RevertCompletion, Reverted, BestEffort, Statuses, Cancellable, Active, mysql
<1> QED BY <1>1, <1>2, <1>3

LEMMA CancelTables ==
  ASSUME IInv, NEW r \in Reqs,
         \/ ClaimCancel(r) \/ ResolveCancel(r) \/ AbortUpload(r)
         \/ RestoreStatus(r) \/ ClearUpload(r) \/ SetStatus(r) \/ Beat(r)
  PROVE  UNCHANGED mysql \/ Works
<1>1. CASE ResolveCancel(r) \/ AbortUpload(r) \/ ClearUpload(r) \/ Beat(r)
  BY <1>1 DEF ResolveCancel, AbortUpload, ClearUpload, Beat
<1>2. CASE ClaimCancel(r)
  BY <1>2, SetsStatus DEF ClaimCancel, Unanswered, Statuses, mysql
<1>3. CASE RestoreStatus(r)
  <2>1. seen[r].status \in Statuses \ {"NONE", "COMPLETE"}
    BY <1>3 DEF RestoreStatus, IInv, HandlerInv, RestoresCancellable, Statuses,
       Cancellable, Active
  <2> QED BY <1>3, <2>1, SetsStatus DEF RestoreStatus, BestEffort, mysql
<1>4. CASE SetStatus(r)
  BY <1>4, SetsStatus DEF SetStatus, Unanswered, Statuses, Cancellable, Active,
     mysql
<1> QED BY <1>1, <1>2, <1>3, <1>4

LEMMA NextTables ==
  ASSUME IInv, [Next]_vars
  PROVE  UNCHANGED mysql \/ Works \/ Shares \/ Publishes
<1>1. CASE \E u \in Users : InitiateInstant(u)
  BY <1>1 DEF InitiateInstant, Attach, BestEffort, Shares, mysql
<1>2. CASE \E r \in Reqs, u \in Users : Request(r, u)
  BY <1>2, RequestTables
<1>3. CASE \E r \in Reqs : Handler(r)
  BY <1>3, InitiateTables, PartTables, CompleteTables, CancelTables DEF Handler
<1>4. CASE HandleUploadComplete
  BY <1>4 DEF HandleUploadComplete, Dropped, Listed, Publishes
<1>5. CASE AfterUploadComplete \/ World
  BY <1>5 DEF AfterUploadComplete, World, ConsumerCrash, LockExpires,
     HeartbeatExpires, Crash
<1>6. CASE UNCHANGED vars
  BY <1>6 DEF vars
<1> QED BY <1>1, <1>2, <1>3, <1>4, <1>5, <1>6 DEF Next, Consumer

\* Whatever requests interleave, and whatever fails, is late or is lost, the
\* session keeps its contract: a row becomes COMPLETE from an open one only,
\* in the step that lists the file for the row's user.
THEOREM ImplementsContract == Spec => KeepsContract
<1>1. Init => Contract!Init
  BY DEF Init, NoRow, Phase, Contract!Init
<1>2. IInv /\ IInv' /\ [Next]_vars => [Contract!Next]_(Contract!contractVars)
  <2> SUFFICES ASSUME IInv, IInv', [Next]_vars
               PROVE  Contract!Next \/ UNCHANGED Contract!contractVars
    OBVIOUS
  <2>1. CASE UNCHANGED mysql
    BY <2>1 DEF mysql, Phase, Contract!contractVars
  <2>2. CASE Works \/ Shares \/ Publishes
    BY <2>2, WorksRefines, SharesRefines, PublishesRefines DEF Contract!Next
  <2> QED BY <2>1, <2>2, NextTables
<1> QED BY <1>1, <1>2, InitIInv, NextKeepsIInv, PTL
        DEF Spec, KeepsContract, Contract!Spec
=============================================================================

---------------------------- MODULE Maintenance ----------------------------
(***************************************************************************)
(* The commands run by hand on the catalogue and its uploads: the reset of *)
(* scripts/reset-dev-data.ps1 (purge_ceph, then resetdev) and the repair   *)
(* of an object.  The script stops every service first, so a reset is one  *)
(* step, by where it ends; RocketMQ keeps its events.                      *)
(***************************************************************************)
EXTENDS Catalogue

VARIABLES       \* no part of the program: why a listed file may have no bytes
  lost,         \* hashes whose object a refused reset has purged
  reopened,     \* hashes listed or announced whose session was in use again
  outlived      \* ids of sessions whose event a reset left in RocketMQ

maintenanceVars == <<vars, lost, reopened, outlived>>

MaintenanceInit == Init /\ lost = {} /\ reopened = {} /\ outlived = {}

-----------------------------------------------------------------------------

\* stop-local: no request goes on, and a page is loaded again afterwards.
StopServices == request' = Idle /\ view' = Closed

\* purge_ceph: objects and incomplete multipart uploads.
PurgeCeph == ceph' = [h \in Hashes |-> "nothing"]

\* Mutant: a session that waits for the consumer does not count.
ActiveButFinalizing == {"INIT", "UPLOADING", "PAUSED"}

\* status IN (0,1,4,6).
ActiveStatuses == {"INIT", "UPLOADING", "PAUSED", "FINALIZING"}

InUse == \E h \in Hashes : session[h].status \in ActiveStatuses

\* The event of h is on its way.
Announced(h) == session[h] # NoSession /\ session[h].id \in events

\* resetdev refuses, but Ceph is purged by then.
ResetRefused ==
  /\ InUse
  /\ StopServices /\ PurgeCeph
  /\ lost' = {h \in Hashes : Catalogued(h) \/ Announced(h)}
  /\ UNCHANGED <<tables, parts, events, reopened, outlived>>

\* Mutant: upload_parts:* is not among the patterns.
NoKeys == parts

\* The keys that are left after all projectPatterns are deleted.
KeysLeft == {}

ClearTables ==
  session' = [h \in Hashes |-> NoSession] /\ objects' = <<>> /\ files' = <<>>

ResetCounters == nextSession' = 1 /\ nextFile' = 1

\* The events of no session that waits for one.
Unawaited == {id \in events :
  ~\E h \in Hashes : session[h].status = "FINALIZING" /\ session[h].id = id}

\* The transaction, the ALTER TABLEs, the keys: log.Fatal ends it after any.
Reset ==
  /\ ~InUse
  /\ StopServices /\ PurgeCeph /\ ClearTables
  /\ lost' = {} /\ reopened' = {} /\ outlived' = outlived \union Unawaited
  /\ UNCHANGED events
  /\ \/ ResetCounters /\ parts' = KeysLeft
     \/ "stopped" \in Faults /\ ResetCounters /\ parts' = parts
     \/ UNCHANGED <<nextSession, nextFile, parts>>

\* repair puts the object of a listed file back from a local copy.
Repair(h) ==
  /\ Catalogued(h) /\ ceph[h] # "object"
  /\ ceph' = [ceph EXCEPT ![h] = "object"]
  /\ lost' = lost \ {h}
  /\ UNCHANGED <<tables, parts, events, request, view, reopened, outlived>>

\* PauseUpload, ResumeUpload and a completion that is reverted put a session in
\* use that is complete, or about to be.
Reopened == {h \in Hashes :
  /\ session[h] # NoSession /\ session'[h].status \in {"UPLOADING", "PAUSED"}
  /\ Catalogued(h) \/ session[h].id \in events'}

MaintenanceNext ==
  \/ Serve /\ reopened' = reopened \union Reopened /\ UNCHANGED <<lost, outlived>>
  \/ ResetRefused \/ Reset
  \/ \E h \in Hashes : Repair(h)

MaintenanceSpec == MaintenanceInit /\ [][MaintenanceNext]_maintenanceVars

-----------------------------------------------------------------------------
(* Properties.                                                             *)

\* What the catalogue lists can be read, through cancels, resets and the ids
\* they hand out again.  Three things can take a listed file's bytes: a reset
\* refused after its purge; a session in use again, by a pause, a resumption or
\* a lost answer, after its completion was announced; an event that a reset
\* left behind, of an upload that was not waiting for it.
ListedIsStored ==
  \A o \in ToSet(objects) :
    \/ ceph[o.hash] = "object"
    \/ o.hash \in lost \union reopened \/ session[o.hash].id \in outlived

\* The parts cached under a session's id were sent for its own file, also when
\* the id was another's before a reset.
PartsAreOwn ==
  \A p \in parts, h \in Hashes :
    session[h] # NoSession /\ session[h].id = p.id => p.hash = h
=============================================================================

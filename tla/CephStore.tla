----------------------------- MODULE CephStore -----------------------------
(***************************************************************************)
(* The part of Ceph RGW (S3) that storage_srv relies on, for the one key   *)
(* sha256/xx/yy/<hash> of a file: the object under the key, and the        *)
(* multipart uploads begun for it.  External: modelled from the calls of   *)
(* storage_srv/handler/server.go.                                          *)
(*                                                                         *)
(* The bytes of part p are determined by the file's hash, and the ETag of  *)
(* a part by its bytes, so a part is its number.                           *)
(***************************************************************************)
EXTENDS Integers

CONSTANTS
  CephIds,    \* upload ids NewMultipartUpload can still hand out (a bound)
  NoCeph,     \* the empty ceph_upload_id
  NumParts    \* chunk_count of the file

ASSUME CephAssumption == NoCeph \notin CephIds /\ NumParts \in Nat \ {0}

Parts == 1..NumParts

VARIABLES
  stored,     \* the object exists under the key
  uploads     \* the multipart uploads of the key

cephVars == <<stored, uploads>>

CephTypeOK ==
  /\ stored \in BOOLEAN
  /\ uploads \in [CephIds -> [state : {"fresh", "open", "closed"},
                              parts : SUBSET Parts]]

CephInit ==
  /\ stored = FALSE
  /\ uploads = [c \in CephIds |-> [state |-> "fresh", parts |-> {}]]

IsOpen(c) == c # NoCeph /\ uploads[c].state = "open"

NewMultipartUpload(c) ==
  /\ uploads[c].state = "fresh"
  /\ uploads' = [uploads EXCEPT ![c].state = "open"]
  /\ UNCHANGED stored

PutObject == stored' = TRUE /\ UNCHANGED uploads

PutObjectPart(c, p) ==
  /\ IsOpen(c)
  /\ uploads' = [uploads EXCEPT ![c].parts = @ \union p]
  /\ UNCHANGED stored

\* Every listed part must be there, or S3 answers InvalidPart.
CanAssemble(c, ps) == IsOpen(c) /\ ps \subseteq uploads[c].parts

Closed(c) == [uploads EXCEPT ![c] = [state |-> "closed", parts |-> {}]]

CompleteMultipartUpload(c, ps) ==
  CanAssemble(c, ps) /\ stored' = TRUE /\ uploads' = Closed(c)

\* An upload that is not open is answered NoSuchUpload.
AbortMultipartUpload(c) == IsOpen(c) /\ uploads' = Closed(c) /\ UNCHANGED stored

RemoveObject == stored' = FALSE /\ UNCHANGED uploads

\* ListObjectParts; an upload that is not open is an error, read as no parts.
ListedParts(c) == IF IsOpen(c) THEN uploads[c].parts ELSE {}
=============================================================================

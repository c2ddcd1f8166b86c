-------------------------- MODULE UploadSessionMC --------------------------
(* UploadSession for TLC, with the mode and the parts UploadPlan gives a    *)
(* file of FileSize bytes.  Users, upload ids and, when all of them or none *)
(* may be slow, request slots are interchangeable: no action orders them.   *)
EXTENDS UploadSession, UploadPlan, TLC

CONSTANTS FileSize, LargestSize

PlannedMode  == IsMultipart(FileSize)
PlannedParts == ChunkCount(FileSize)

\* A session that is written, for a file of any size up to LargestSize, larger
\* chunks among them, has a plan by which the whole file can be sent.
EveryPlanFits ==
  row.status # "NONE" => \A size \in 1..LargestSize : PlanFits(size)

UserSymmetry == Permutations(Users)

\* What tells states apart: no handler reads waiters or allFile, which only
\* must not be there without the object, nor its locals in its last two calls.
Read == <<row, object, refs, lock, parts, heartbeat, allFile => object,
          queue, cephVars, pc,
          [r \in Reqs |-> IF pc[r] \in {"touch", "unlock"} THEN NoRow
                         ELSE <<who[r], seen[r], got[r]>>]>>

Symmetry ==
  UserSymmetry \union Permutations(Reqs) \union Permutations(CephIds)
=============================================================================

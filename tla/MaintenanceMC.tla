--------------------------- MODULE MaintenanceMC ---------------------------
(* Maintenance for TLC: names of which two differ only after the characters *)
(* that the unique key holds.                                               *)
EXTENDS Maintenance, TLC

Name(key, region, text) == [key |-> key, region |-> region, text |-> text]

\* One that uploads have, a scientific one with the same key, and another.
Uploaded   == {Name("k", NoRegion, "a")}
ThreeNames == Uploaded \union {Name("k", 11, "b"), Name("l", NoRegion, "c")}

\* An answer is read by nothing that follows it, and nothing tells an INIT
\* session from a paused one.
Read == <<[h \in Hashes |-> IF session[h].status = "INIT"
                            THEN [session[h] EXCEPT !.status = "PAUSED"] ELSE session[h]],
          nextSession, objects, files, nextFile,
          ceph, parts, events, view, lost \ reopened, reopened, outlived,
          IF request.pc = "answered" THEN Idle ELSE request>>

\* The uploads that are not on the way from UPLOADING to COMPLETE, and the
\* files whose bytes or session something took.
Astray == lost \union reopened \union
  {h \in Hashes : session[h].status \in {"INIT", "PAUSED", "FAILED", "CANCELLED"}}

\* One upload goes astray at a time (a bound).  Meanwhile no page is read, no
\* file attached and created_at does not differ (bounds): pages and attaches
\* read the tables alone.
Bounded ==
  \/ Astray = {} /\ outlived = {}
  \/ /\ Cardinality(Astray) <= 1
     /\ view = Closed /\ request.pc \in {"idle", "answered"}
     /\ \A r \in ToSet(objects) \union ToSet(files) : r.at = 1 /\ r.name \in UploadNames

Symmetry == Permutations(Users) \union Permutations(Hashes)
=============================================================================

--------------------------- MODULE UploadContract ---------------------------
(***************************************************************************)
(* What the upload session of one hash promises its clients, without the   *)
(* calls that bring it about: the session is opened, dropped and opened    *)
(* again for any user; only an open one becomes complete, in the same      *)
(* step as its file is catalogued and listed for its owner; and the        *)
(* catalogue never loses a lister.                                         *)
(***************************************************************************)
CONSTANTS Users, NoUser

VARIABLES phase, owner, catalogued, listers

contractVars == <<phase, owner, catalogued, listers>>

Init ==
  phase = "none" /\ owner = NoUser /\ catalogued = FALSE /\ listers = {}

\* Clients and handlers move an unfinished session, or reopen a finished one.
Work ==
  /\ phase' \in {"open", "dropped"}
  /\ owner' \in Users
  /\ UNCHANGED <<catalogued, listers>>

\* Also again, when the completion is announced again.
Publish ==
  /\ phase \in {"open", "complete"}
  /\ phase' = "complete"
  /\ catalogued' = TRUE
  /\ listers' = listers \union {owner}
  /\ UNCHANGED owner

\* The instant upload of a file that is catalogued.
Share(u) ==
  /\ catalogued
  /\ listers' = listers \union {u}
  /\ UNCHANGED <<phase, owner, catalogued>>

Next == Work \/ Publish \/ \E u \in Users : Share(u)

Spec == Init /\ [][Next]_contractVars
=============================================================================

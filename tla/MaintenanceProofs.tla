------------------------- MODULE MaintenanceProofs -------------------------
(***************************************************************************)
(* What uploads, instant uploads, readers of pages and the maintenance     *)
(* commands leave of the catalogue, for any users, files, names, page size *)
(* and ids: the keys of the tables, who the team's list names as uploader, *)
(* what an instant upload answers, that a listed file is stored but for    *)
(* three reasons, and that pages skip only rows that tie.  For resets that *)
(* are not cut off between MySQL and Redis: no session has the parts of    *)
(* another file.                                                           *)
(***************************************************************************)
EXTENDS Maintenance, FiniteSetTheorems, TLAPS

RowsOK ==
  /\ session \in [Hashes -> Sessions \union {NoSession}]
  /\ nextSession \in Nat \ {0}
  /\ parts \subseteq [id : Nat, hash : Hashes]
  /\ ceph \in [Hashes -> {"nothing", "parts", "object"}]
  /\ objects \in Seq(ToSet(objects))
  /\ \A o \in ToSet(objects) : "hash" \in DOMAIN o /\ o.hash \in Hashes

\* An id is one session's at a time, and was handed out since the counters
\* were reset.
IdsOK ==
  /\ \A h \in Hashes : session[h] # NoSession => session[h].id < nextSession
  /\ \A h, g \in Hashes :
       session[h] # NoSession /\ session[g] # NoSession /\ session[h].id = session[g].id
         => h = g

\* An event is a session's, or one that a reset left.
EventsOK ==
  \A id \in events :
    id \in outlived \/ \E h \in Hashes : session[h] # NoSession /\ session[h].id = id

\* Why a file that is listed, or will be, may have no bytes.
Strayed(h) == h \in reopened \/ session[h].id \in outlived

\* Its session cannot be cancelled, and it is stored.
Settled(h) ==
  /\ session[h].status \in {"FINALIZING", "COMPLETE"}
  /\ ceph[h] = "object" \/ h \in lost

StoredOK ==
  \A h \in Hashes :
    /\ Catalogued(h) => session[h] # NoSession
    /\ Catalogued(h) \/ Announced(h) => Strayed(h) \/ Settled(h)

MInv == RowsOK /\ IdsOK /\ EventsOK /\ StoredOK

\* The parts that are cached were sent in sessions of now.
PInv == MInv /\ PartsAreOwn /\ \A p \in parts : p.id < nextSession

-----------------------------------------------------------------------------
(* Rows.                                                                   *)

\* A row that is inserted joins its table and leaves the others in place.
LEMMA AppendedIs ==
  ASSUME NEW S, NEW s \in Seq(S), NEW x \in S
  PROVE  /\ Append(s, x) \in Seq(S) /\ Len(Append(s, x)) = Len(s) + 1
         /\ \A i \in 1..Len(s) : Append(s, x)[i] = s[i]
         /\ Append(s, x)[Len(s) + 1] = x
         /\ ToSet(Append(s, x)) = ToSet(s) \union {x}
<1> DEFINE t == Append(s, x)
           n == Len(s)
<1>1. /\ t \in Seq(S) /\ Len(t) = n + 1 /\ n \in Nat
      /\ \A i \in 1..n : t[i] = s[i]
      /\ t[n + 1] = x
  OBVIOUS
<1>2. DOMAIN s = 1..n /\ DOMAIN t = 1..(n + 1)
  BY <1>1
<1> HIDE DEF t, n
<1>3. /\ ToSet(t) = {t[j] : j \in 1..(n + 1)}
      /\ ToSet(s) = {s[i] : i \in 1..n}
  BY <1>2 DEF ToSet
<1>4. \A j \in 1..(n + 1) : j \in 1..n \/ j = n + 1
  BY <1>1
<1>5. 1..n \subseteq 1..(n + 1) /\ n + 1 \in 1..(n + 1)
  BY <1>1
<1>6. ToSet(t) = ToSet(s) \union {x}
  BY <1>1, <1>3, <1>4, <1>5
<1> QED BY <1>1, <1>6 DEF t, n

\* Metadata that is filled in moves and renames no object.
LEMMA FilledIs ==
  ASSUME RowsOK, NEW h, NEW region
  PROVE  /\ Filled(h, region) \in Seq(ToSet(Filled(h, region)))
         /\ \A o \in ToSet(Filled(h, region)) :
              "hash" \in DOMAIN o /\ \E q \in ToSet(objects) : o.hash = q.hash
         /\ \A q \in ToSet(objects) :
              \E o \in ToSet(Filled(h, region)) : o.hash = q.hash
<1> DEFINE t == Filled(h, region)
<1>1. /\ objects \in Seq(ToSet(objects)) /\ DOMAIN objects = 1..Len(objects)
      /\ Len(objects) \in Nat
  BY DEF RowsOK
<1>2. DOMAIN t = 1..Len(objects) /\ t = [i \in 1..Len(objects) |-> t[i]]
  BY <1>1 DEF Filled
<1>3. \A i \in 1..Len(objects) : t[i] \in ToSet(t)
  BY <1>2 DEF ToSet
<1>4. ASSUME NEW i \in 1..Len(objects)
      PROVE  "hash" \in DOMAIN t[i] /\ t[i].hash = objects[i].hash
  <2>1. objects[i] \in ToSet(objects)
    BY <1>1 DEF ToSet
  <2>2. "hash" \in DOMAIN objects[i]
    BY <2>1 DEF RowsOK
  <2>3. t[i] = IF objects[i].hash = h THEN [objects[i] EXCEPT !.region = region]
               ELSE objects[i]
    BY <1>1 DEF Filled
  <2> QED BY <2>2, <2>3
<1>5. t \in Seq(ToSet(t))
  BY <1>1, <1>2, <1>3
<1> HIDE DEF t
<1>6. ToSet(t) = {t[i] : i \in 1..Len(objects)}
      /\ ToSet(objects) = {objects[i] : i \in 1..Len(objects)}
  BY <1>1, <1>2 DEF ToSet
<1>7. \A o \in ToSet(t) : "hash" \in DOMAIN o /\ \E q \in ToSet(objects) : o.hash = q.hash
  BY <1>4, <1>6
<1>8. \A q \in ToSet(objects) : \E o \in ToSet(t) : o.hash = q.hash
  BY <1>4, <1>6
<1> QED BY <1>5, <1>7, <1>8 DEF t

\* A row that is there has a status.
LEMMA SessionKinds ==
  ASSUME RowsOK, NEW h \in Hashes
  PROVE  /\ session[h] = NoSession <=> session[h].status = "NONE"
         /\ session[h] # NoSession => session[h] \in Sessions
BY DEF RowsOK, NoSession, Sessions, Statuses

-----------------------------------------------------------------------------
(* Uploads.                                                                *)

\* The row of h becomes x, under its own id or a fresh one.
Rewrites(h, x) ==
  /\ session' = [session EXCEPT ![h] = x]
  /\ x \in Sessions
  /\ nextSession' \in Nat \ {0}
  /\ \/ session[h] # NoSession /\ x.id = session[h].id /\ nextSession <= nextSession'
     \/ session[h] = NoSession /\ x.id = nextSession /\ nextSession < nextSession'

\* Everything else stays, and ids are still in order.
Rewritten(h, x) ==
  /\ session' \in [Hashes -> Sessions \union {NoSession}]
  /\ x # NoSession /\ session'[h] = x
  /\ \A g \in Hashes \ {h} : session'[g] = session[g]
  /\ \A g \in Hashes \ {h} : session[g] # NoSession => session[g].id # x.id
  /\ \A g \in Hashes : session[g] # NoSession =>
       session'[g] # NoSession /\ session'[g].id = session[g].id
  /\ IdsOK'

LEMMA RewritesIds ==
  ASSUME MInv, NEW h \in Hashes, NEW x, Rewrites(h, x)
  PROVE  Rewritten(h, x)
<1> USE DEF Rewrites
<1>1. x # NoSession
  BY DEF NoSession, Sessions
<1>2. /\ session' \in [Hashes -> Sessions \union {NoSession}]
      /\ session'[h] = x
      /\ \A g \in Hashes \ {h} : session'[g] = session[g]
  BY DEF MInv, RowsOK
<1>3. \A g \in Hashes : session[g] # NoSession =>
        session[g].id < nextSession /\ session[g].id \in Nat
  BY DEF MInv, RowsOK, IdsOK, Sessions
<1>4. nextSession \in Nat /\ x.id < nextSession'
  BY <1>3 DEF MInv, RowsOK
<1>5. \A g \in Hashes \ {h} : session[g] # NoSession => session[g].id # x.id
  BY <1>3, <1>4 DEF MInv, IdsOK
<1>6. session[h] # NoSession => x.id = session[h].id \/ x.id = nextSession
  OBVIOUS
<1>7. IdsOK'
  BY <1>1, <1>2, <1>3, <1>4, <1>5 DEF MInv, IdsOK
<1> QED BY <1>1, <1>2, <1>5, <1>7 DEF Rewritten

\* What a step of the upload of h, or of its consumer, may do.
Uploads(h, x) ==
  /\ Rewrites(h, x)
  /\ UNCHANGED <<lost, outlived>> /\ reopened \subseteq reopened'
  /\ ceph' \in [Hashes -> {"nothing", "parts", "object"}]
  /\ \A g \in Hashes \ {h} : ceph'[g] = ceph[g]
  /\ parts' \subseteq parts \union {[id |-> x.id, hash |-> h]}
  /\ events' \subseteq events \union {x.id}
  /\ objects' \in Seq(ToSet(objects'))
  /\ \A o \in ToSet(objects') : o \in ToSet(objects) \/ ("hash" \in DOMAIN o /\ o.hash = h)
  /\ Catalogued(h)' \/ x.id \in events' =>
       \/ h \in reopened' \/ x.id \in outlived
       \/ x.status \in {"FINALIZING", "COMPLETE"} /\ (ceph'[h] = "object" \/ h \in lost)

LEMMA UploadsStep ==
  ASSUME MInv, NEW h \in Hashes, NEW x, Uploads(h, x)
  PROVE  MInv' /\ (PInv => PInv')
<1>1. Rewrites(h, x) /\ Rewritten(h, x)
  BY RewritesIds DEF Uploads
<1>2. x \in Sessions /\ x.id \in Nat
  BY <1>1 DEF Rewrites, Sessions
<1>3. RowsOK'
  BY <1>1, <1>2 DEF Uploads, Rewrites, Rewritten, MInv, RowsOK
<1>4. EventsOK'
  BY <1>1 DEF Uploads, Rewritten, MInv, EventsOK
<1>5. ASSUME NEW g \in Hashes
      PROVE  /\ Catalogued(g)' => session'[g] # NoSession
             /\ Catalogued(g)' \/ Announced(g)' => Strayed(g)' \/ Settled(g)'
  <2>1. CASE g = h
    BY <1>1, <2>1 DEF Uploads, Rewritten, Announced, Strayed, Settled
  <2>2. CASE g # h
    <3>1. session'[g] = session[g] /\ ceph'[g] = ceph[g]
      BY <1>1, <2>2 DEF Uploads, Rewritten
    <3>2. Catalogued(g)' => Catalogued(g)
      BY <2>2 DEF Uploads, Catalogued
    <3>3. Announced(g)' => Announced(g)
      BY <1>1, <2>2, <3>1 DEF Uploads, Rewritten, Announced
    <3> QED BY <3>1, <3>2, <3>3 DEF Uploads, MInv, StoredOK, Strayed, Settled
  <2> QED BY <2>1, <2>2
<1>6. MInv'
  BY <1>1, <1>3, <1>4, <1>5 DEF Rewritten, MInv, StoredOK
<1>7. ASSUME PInv PROVE PInv'
  <2>1. \A p \in parts' : p \in parts \/ (p.id = x.id /\ p.hash = h)
    BY DEF Uploads
  <2>2. \A p \in parts' : p.id < nextSession'
    <3>1. nextSession <= nextSession' /\ nextSession \in Nat /\ nextSession' \in Nat
      BY <1>1 DEF Rewrites, MInv, RowsOK
    <3>2. x.id < nextSession'
      BY <1>1 DEF Rewritten, IdsOK
    <3>3. \A p \in parts : p.id \in Nat /\ p.id < nextSession
      BY <1>7 DEF PInv, MInv, RowsOK
    <3> QED BY <2>1, <3>1, <3>2, <3>3
  <2>3. ASSUME NEW p \in parts', NEW g \in Hashes, session'[g] # NoSession,
               session'[g].id = p.id
        PROVE  p.hash = g
    <3>1. CASE p.id = x.id /\ p.hash = h
      BY <1>1, <2>3, <3>1 DEF Rewritten, IdsOK
    <3>2. CASE p \in parts /\ session[g] # NoSession
      BY <1>1, <1>7, <2>3, <3>2 DEF Rewritten, PInv, PartsAreOwn
    <3>3. CASE p \in parts /\ session[g] = NoSession
      <4>1. g = h /\ p.id = nextSession
        BY <1>1, <2>3, <3>3 DEF Rewrites, Rewritten
      <4>2. p.id < nextSession /\ p.id \in Nat /\ nextSession \in Nat
        BY <1>7, <3>3 DEF PInv, MInv, RowsOK
      <4> QED BY <4>1, <4>2
    <3> QED BY <2>1, <3>1, <3>2, <3>3
  <2> QED BY <1>6, <2>2, <2>3 DEF PInv, PartsAreOwn
<1> QED BY <1>6, <1>7

\* A step that moves no session and at most consumes an event.
LEMMA KeepsStep ==
  ASSUME MInv, UNCHANGED <<session, nextSession, ceph, parts, lost, outlived>>,
         reopened \subseteq reopened', events' \subseteq events,
         objects' \in Seq(ToSet(objects')),
         \A o \in ToSet(objects') :
           "hash" \in DOMAIN o /\ \E q \in ToSet(objects) : o.hash = q.hash
  PROVE  MInv' /\ (PInv => PInv')
<1>1. RowsOK'
  BY DEF MInv, RowsOK
<1>2. IdsOK' /\ EventsOK'
  BY DEF MInv, IdsOK, EventsOK
<1>3. \A h : Catalogued(h)' => Catalogued(h)
  BY DEF Catalogued
<1>4. StoredOK'
  BY <1>3 DEF MInv, StoredOK, Announced, Strayed, Settled
<1>5. PInv => PartsAreOwn' /\ \A p \in parts' : p.id < nextSession'
  BY DEF PInv, PartsAreOwn
<1> QED BY <1>1, <1>2, <1>4, <1>5 DEF MInv, PInv

\* A session that is neither complete nor about to be is not listed or
\* announced, if nothing has led it astray.
LEMMA UnsettledIs ==
  ASSUME MInv, NEW h \in Hashes, session[h].status \notin {"FINALIZING", "COMPLETE"},
         Catalogued(h) \/ Announced(h)
  PROVE  session[h] # NoSession /\ (h \in reopened \/ session[h].id \in outlived)
BY DEF MInv, StoredOK, Strayed, Settled, Announced

\* What an upload's step does not touch.
Aside == <<objects, lost, outlived>>

LEMMA BeginStep ==
  ASSUME MInv, UNCHANGED Aside, reopened \subseteq reopened',
         NEW u \in Users, NEW h \in Hashes, NEW n \in UploadNames, BeginUpload(u, h, n)
  PROVE  \E x : Uploads(h, x)
<1>1. PICK end \in {"UPLOADING", "INIT", "FAILED"} :
        session' = [session EXCEPT ![h] =
          [id |-> IF session[h] = NoSession THEN nextSession ELSE session[h].id,
           user |-> u, name |-> n, status |-> end]]
  BY DEF BeginUpload
<1> DEFINE x == [id |-> IF session[h] = NoSession THEN nextSession ELSE session[h].id,
                 user |-> u, name |-> n, status |-> end]
<1>2. /\ ~Catalogued(h) /\ UNCHANGED <<objects, ceph, parts, events>>
      /\ session[h] = NoSession => nextSession <= MaxId
      /\ session[h].status \notin {"FINALIZING", "COMPLETE"}
      /\ nextSession' = IF session[h] = NoSession THEN nextSession + 1 ELSE nextSession
  BY DEF BeginUpload, NoSession
<1>3. session[h] # NoSession => session[h].id \in 1..MaxId
  BY DEF MInv, RowsOK, Sessions
<1>4. nextSession \in Nat \ {0} /\ (session[h] = NoSession => nextSession \in 1..MaxId)
  BY <1>2, CatalogueAssumption DEF MInv, RowsOK
<1>5. x \in Sessions
      /\ x.id = IF session[h] = NoSession THEN nextSession ELSE session[h].id
  BY <1>3, <1>4, CatalogueAssumption DEF Sessions, Statuses
<1> HIDE DEF x
<1>6. Rewrites(h, x)
  BY <1>1, <1>2, <1>4, <1>5 DEF Rewrites, x
<1>7. x.id \in events => h \in reopened \/ x.id \in outlived
  <2>1. CASE session[h] = NoSession
    <3>1. \A g \in Hashes : session[g] # NoSession =>
            session[g].id < nextSession /\ session[g].id \in Nat
      BY DEF MInv, RowsOK, IdsOK, Sessions
    <3>2. \A g \in Hashes : session[g] # NoSession => session[g].id # nextSession
      BY <1>4, <3>1
    <3> QED BY <1>5, <2>1, <3>2 DEF MInv, EventsOK
  <2>2. CASE session[h] # NoSession
    BY <1>2, <1>5, <2>2, UnsettledIs DEF Announced
  <2> QED BY <2>1, <2>2
<1>8. ~Catalogued(h)'
  BY <1>2 DEF Catalogued
<1>9. Uploads(h, x)
  BY <1>2, <1>6, <1>7, <1>8 DEF Uploads, Aside, MInv, RowsOK
<1> QED BY <1>9

\* A row that is there changes its status, user or name.
LEMMA Rewriting ==
  ASSUME MInv, NEW h \in Hashes, session[h] # NoSession, NEW x \in Sessions,
         x.id = session[h].id, session' = [session EXCEPT ![h] = x],
         UNCHANGED nextSession
  PROVE  Rewrites(h, x)
BY DEF Rewrites, MInv, RowsOK

LEMMA TakeOverStep ==
  ASSUME MInv, UNCHANGED Aside, reopened \subseteq reopened',
         NEW u \in Users, NEW h \in Hashes, NEW n \in UploadNames, TakeOver(u, h, n)
  PROVE  \E x : Uploads(h, x)
<1> DEFINE x == [session[h] EXCEPT !.user = u, !.name = n, !.status = "UPLOADING"]
<1>1. /\ UNCHANGED <<nextSession, objects, ceph, parts, events>>
      /\ session' = [session EXCEPT ![h].user = u, ![h].name = n, ![h].status = "UPLOADING"]
      /\ session[h].status \in {"INIT", "UPLOADING", "PAUSED"} /\ ~Catalogued(h)
  BY DEF TakeOver
<1>2. session[h] # NoSession /\ session[h] \in Sessions
  BY <1>1, SessionKinds DEF MInv, NoSession
<1>3. session' = [session EXCEPT ![h] = x]
  BY <1>1, <1>2 DEF MInv, RowsOK
<1>4. x \in Sessions /\ x.id = session[h].id
  BY <1>2, CatalogueAssumption DEF Sessions, Statuses
<1> HIDE DEF x
<1>5. Rewrites(h, x)
  BY <1>1, <1>2, <1>3, <1>4, Rewriting
<1>6. x.id \in events => h \in reopened \/ x.id \in outlived
  BY <1>1, <1>2, <1>4, UnsettledIs DEF Announced
<1>7. ~Catalogued(h)'
  BY <1>1 DEF Catalogued
<1>8. Uploads(h, x)
  BY <1>1, <1>5, <1>6, <1>7 DEF Uploads, Aside, MInv, RowsOK
<1> QED BY <1>8

LEMMA UploadPartStep ==
  ASSUME MInv, UNCHANGED Aside, reopened \subseteq reopened',
         NEW h \in Hashes, UploadPart(h)
  PROVE  \E x : Uploads(h, x)
<1> DEFINE x == session[h]
<1>1. /\ session[h].status = "UPLOADING"
      /\ UNCHANGED <<session, nextSession, objects, events>>
      /\ ceph' = [ceph EXCEPT ![h] = IF @ = "object" THEN @ ELSE "parts"]
      /\ parts' = parts \union {[id |-> x.id, hash |-> h]}
  BY DEF UploadPart, tables
<1>2. x # NoSession /\ x \in Sessions
  BY <1>1, SessionKinds DEF MInv, NoSession
<1>3. Rewrites(h, x)
  BY <1>1, <1>2, Rewriting DEF MInv, RowsOK
<1>4. Catalogued(h)' \/ x.id \in events => h \in reopened \/ x.id \in outlived
  BY <1>1, <1>2, UnsettledIs DEF Announced, Catalogued
<1>5. Uploads(h, x)
  BY <1>1, <1>3, <1>4 DEF Uploads, Aside, MInv, RowsOK
<1> QED BY <1>5

\* The row's status becomes that; nothing else of it changes.
Restatus(h, status) == [session[h] EXCEPT !.status = status]

LEMMA RestatusIs ==
  ASSUME MInv, NEW h \in Hashes, session[h] # NoSession, NEW status \in Statuses,
         session' = [session EXCEPT ![h].status = status], UNCHANGED nextSession
  PROVE  /\ Rewrites(h, Restatus(h, status))
         /\ Restatus(h, status).id = session[h].id
         /\ Restatus(h, status).status = status
         /\ session'[h].status = status
<1> DEFINE x == Restatus(h, status)
<1>1. session[h] \in Sessions
  BY SessionKinds DEF MInv
<1>2. x \in Sessions /\ x.id = session[h].id /\ x.status = status
  BY <1>1 DEF Sessions, Restatus
<1>3. session' = [session EXCEPT ![h] = x] /\ session'[h] = x
  BY DEF MInv, RowsOK, Restatus
<1> HIDE DEF x
<1>4. Rewrites(h, x)
  BY <1>2, <1>3, Rewriting
<1> QED BY <1>2, <1>3, <1>4 DEF x

LEMMA SetStatusStep ==
  ASSUME MInv, UNCHANGED Aside, reopened' = reopened \union Reopened,
         NEW h \in Hashes, SetStatus(h)
  PROVE  \E x : Uploads(h, x)
<1>1. PICK status \in {"PAUSED", "UPLOADING"} :
        session' = [session EXCEPT ![h].status = status]
  BY DEF SetStatus
<1>2. session[h] # NoSession /\ UNCHANGED <<nextSession, objects, ceph, parts, events>>
  BY DEF SetStatus
<1> DEFINE x == Restatus(h, status)
<1>3. Rewrites(h, x) /\ x.id = session[h].id /\ session'[h].status = status
  BY <1>1, <1>2, RestatusIs DEF Statuses
<1> HIDE DEF x
<1>4. Catalogued(h)' \/ x.id \in events' => h \in reopened'
  BY <1>2, <1>3 DEF Reopened, Catalogued
<1>5. Uploads(h, x)
  BY <1>2, <1>3, <1>4 DEF Uploads, Aside, MInv, RowsOK
<1> QED BY <1>5

LEMMA CompleteStep ==
  ASSUME MInv, UNCHANGED Aside, reopened' = reopened \union Reopened,
         NEW h \in Hashes, CompleteUpload(h)
  PROVE  \E x : Uploads(h, x)
<1>1. PICK end \in {"UPLOADING", "FINALIZING"} :
        session' = [session EXCEPT ![h].status = end]
  BY DEF CompleteUpload
<1>2. /\ session[h].status = "UPLOADING" /\ UNCHANGED <<nextSession, objects, parts>>
      /\ \/ UNCHANGED <<ceph, events>>
         \/ /\ ceph' = [ceph EXCEPT ![h] = "object"]
            /\ events' \in {events, events \union {session[h].id}}
  BY DEF CompleteUpload
<1>3. session[h] # NoSession
  BY <1>2 DEF NoSession
<1> DEFINE x == Restatus(h, end)
<1>4. /\ Rewrites(h, x) /\ x.id = session[h].id /\ x.status = end
      /\ session'[h].status = end
  <2>1. end \in Statuses /\ UNCHANGED nextSession
    BY <1>2 DEF Statuses
  <2> QED BY <1>1, <1>3, <2>1, RestatusIs
<1> HIDE DEF x
<1>5. Catalogued(h) \/ x.id \in events => h \in reopened \/ x.id \in outlived
  <2>1. session[h].status \notin {"FINALIZING", "COMPLETE"}
    BY <1>2
  <2>2. x.id \in events => Announced(h)
    BY <1>3, <1>4 DEF Announced
  <2> QED BY <1>4, <2>1, <2>2, UnsettledIs
<1>6. Catalogued(h)' => Catalogued(h)
  BY <1>2 DEF Catalogued
<1>7. ASSUME x.id \in events', x.id \notin events
      PROVE  h \in reopened' \/ (x.status = "FINALIZING" /\ ceph'[h] = "object")
  <2>1. ceph'[h] = "object"
    BY <1>2, <1>7 DEF MInv, RowsOK
  <2>2. end = "UPLOADING" => h \in reopened'
    BY <1>3, <1>4, <1>7 DEF Reopened
  <2> QED BY <1>4, <2>1, <2>2
<1>8. /\ ceph' \in [Hashes -> {"nothing", "parts", "object"}]
      /\ \A g \in Hashes \ {h} : ceph'[g] = ceph[g]
  BY <1>2 DEF MInv, RowsOK
<1>9. events' \subseteq events \union {x.id}
  BY <1>2, <1>4
<1>10. Uploads(h, x)
  BY <1>2, <1>4, <1>5, <1>6, <1>7, <1>8, <1>9 DEF Uploads, Aside, MInv, RowsOK
<1> QED BY <1>10

LEMMA CancelStep ==
  ASSUME MInv, UNCHANGED Aside, reopened \subseteq reopened',
         NEW h \in Hashes, CancelUpload(h)
  PROVE  \E x : Uploads(h, x)
<1>1. /\ session[h].status \in Cancellable /\ UNCHANGED <<nextSession, objects, events>>
      /\ ceph' \in {ceph, [ceph EXCEPT ![h] = "nothing"]} /\ parts' \subseteq parts
      /\ \/ UNCHANGED session
         \/ session' = [session EXCEPT ![h].status = "CANCELLED"]
  BY DEF CancelUpload
<1>2. session[h] # NoSession /\ session[h] \in Sessions
  BY <1>1, SessionKinds DEF MInv, Cancellable, NoSession
<1>3. session[h].status \notin {"FINALIZING", "COMPLETE"}
  BY <1>1 DEF Cancellable
<1>4. PICK x : Rewrites(h, x) /\ x.id = session[h].id
  <2>1. CASE UNCHANGED session
    <3>1. Rewrites(h, session[h])
      BY <1>1, <1>2, <2>1, Rewriting DEF MInv, RowsOK
    <3> QED BY <3>1
  <2>2. CASE session' = [session EXCEPT ![h].status = "CANCELLED"]
    BY <1>1, <1>2, <2>2, RestatusIs DEF Statuses
  <2> QED BY <1>1, <2>1, <2>2
<1>5. Catalogued(h)' \/ x.id \in events => h \in reopened \/ x.id \in outlived
  BY <1>1, <1>2, <1>3, <1>4, UnsettledIs DEF Announced, Catalogued
<1>6. /\ ceph' \in [Hashes -> {"nothing", "parts", "object"}]
      /\ \A g \in Hashes \ {h} : ceph'[g] = ceph[g]
  BY <1>1 DEF MInv, RowsOK
<1>7. Uploads(h, x)
  BY <1>1, <1>4, <1>5, <1>6 DEF Uploads, Aside, MInv, RowsOK
<1> QED BY <1>7

LEMMA ConsumeStep ==
  ASSUME MInv, UNCHANGED <<lost, outlived>>, reopened \subseteq reopened',
         NEW id \in events, HandleUploadComplete(id)
  PROVE  \E h \in Hashes : \E x : Uploads(h, x)
<1>1. PICK h \in Hashes :
        /\ session[h] # NoSession /\ session[h].id = id
        /\ session' = [session EXCEPT ![h].status = "COMPLETE"]
        /\ \E t \in Times :
             objects' = IF Catalogued(h) THEN objects
                        ELSE Append(objects, [hash |-> h, name |-> session[h].name, at |-> t,
                                              region |-> session[h].name.region,
                                              by |-> session[h].user])
        /\ Consumed(id) /\ UNCHANGED <<nextSession, ceph, parts>>
  BY DEF HandleUploadComplete
<1> DEFINE x == Restatus(h, "COMPLETE")
<1>2. Rewrites(h, x) /\ x.id = id /\ x.status = "COMPLETE"
  BY <1>1, RestatusIs DEF Statuses
<1> HIDE DEF x
<1>3. events' \subseteq events
  BY <1>1 DEF Consumed
<1>4. /\ objects' \in Seq(ToSet(objects'))
      /\ \A o \in ToSet(objects') : o \in ToSet(objects) \/ ("hash" \in DOMAIN o /\ o.hash = h)
  <2>1. CASE UNCHANGED objects
    BY <2>1 DEF MInv, RowsOK
  <2>2. ASSUME NEW o, "hash" \in DOMAIN o, o.hash = h, objects' = Append(objects, o)
        PROVE  /\ objects' \in Seq(ToSet(objects'))
               /\ \A e \in ToSet(objects') :
                    e \in ToSet(objects) \/ ("hash" \in DOMAIN e /\ e.hash = h)
    <3> DEFINE S == ToSet(objects) \union {o}
    <3>1. objects \in Seq(S) /\ o \in S
      BY DEF MInv, RowsOK
    <3>2. objects' \in Seq(S) /\ ToSet(objects') = S
      BY <2>2, <3>1, AppendedIs
    <3> QED BY <2>2, <3>2
  <2>3. PICK t \in Times :
          objects' = IF Catalogued(h) THEN objects
                     ELSE Append(objects, [hash |-> h, name |-> session[h].name, at |-> t,
                                           region |-> session[h].name.region,
                                           by |-> session[h].user])
    BY <1>1
  <2>4. CASE ~Catalogued(h)
    <3> DEFINE o == [hash |-> h, name |-> session[h].name, at |-> t,
                     region |-> session[h].name.region, by |-> session[h].user]
    <3>1. "hash" \in DOMAIN o /\ o.hash = h
      OBVIOUS
    <3>2. objects' = Append(objects, o)
      BY <2>3, <2>4
    <3> HIDE DEF o
    <3> QED BY <2>2, <3>1, <3>2
  <2> QED BY <2>1, <2>3, <2>4
<1>5. Strayed(h) \/ Settled(h)
  BY <1>1 DEF MInv, StoredOK, Announced
<1>6. Uploads(h, x)
  BY <1>1, <1>2, <1>3, <1>4, <1>5 DEF Uploads, Strayed, Settled, MInv, RowsOK
<1> QED BY <1>6

-----------------------------------------------------------------------------
(* Maintenance, and the rest.                                              *)

LEMMA ResetRefusedStep ==
  ASSUME MInv, ResetRefused
  PROVE  MInv' /\ (PInv => PInv')
<1>1. /\ UNCHANGED <<session, nextSession, objects, parts, events, reopened, outlived>>
      /\ ceph' = [h \in Hashes |-> "nothing"]
      /\ lost' = {h \in Hashes : Catalogued(h) \/ Announced(h)}
  BY DEF ResetRefused, PurgeCeph, tables
<1>2. RowsOK'
  BY <1>1 DEF MInv, RowsOK
<1>3. IdsOK' /\ EventsOK'
  BY <1>1 DEF MInv, IdsOK, EventsOK
<1>4. \A h \in Hashes : /\ Catalogued(h)' <=> Catalogued(h)
                        /\ Announced(h)' <=> Announced(h)
                        /\ Strayed(h)' <=> Strayed(h)
  BY <1>1 DEF Catalogued, Announced, Strayed
<1>5. StoredOK'
  BY <1>1, <1>4 DEF MInv, StoredOK, Settled
<1>6. PInv => PartsAreOwn' /\ \A p \in parts' : p.id < nextSession'
  BY <1>1 DEF PInv, PartsAreOwn
<1> QED BY <1>2, <1>3, <1>5, <1>6 DEF MInv, PInv

LEMMA ResetStep ==
  ASSUME MInv, Reset
  PROVE  MInv' /\ ("stopped" \notin Faults /\ PInv => PInv')
<1>1. /\ ~InUse /\ UNCHANGED events /\ outlived' = outlived \union Unawaited
      /\ ceph' = [h \in Hashes |-> "nothing"]
      /\ session' = [h \in Hashes |-> NoSession] /\ objects' = <<>>
      /\ nextSession' \in {1, nextSession} /\ parts' \subseteq parts
      /\ "stopped" \notin Faults => parts' = {} \/ UNCHANGED <<nextSession, parts>>
  BY DEF Reset, PurgeCeph, ClearTables, ResetCounters, KeysLeft
<1>2. events \subseteq outlived'
  BY <1>1 DEF Unawaited, InUse, ActiveStatuses
<1>3. ToSet(objects') = {}
  BY <1>1 DEF ToSet
<1>4. RowsOK'
  BY <1>1, <1>3 DEF MInv, RowsOK
<1>5. IdsOK'
  BY <1>1 DEF MInv, IdsOK
<1>6. EventsOK'
  BY <1>1, <1>2 DEF EventsOK
<1>7. StoredOK'
  BY <1>1, <1>3 DEF StoredOK, Catalogued, Announced
<1>8. PartsAreOwn'
  BY <1>1 DEF PartsAreOwn
<1>9. "stopped" \notin Faults /\ PInv => \A p \in parts' : p.id < nextSession'
  BY <1>1 DEF PInv
<1> QED BY <1>4, <1>5, <1>6, <1>7, <1>8, <1>9 DEF MInv, PInv

LEMMA RepairStep ==
  ASSUME MInv, NEW h \in Hashes, Repair(h)
  PROVE  MInv' /\ (PInv => PInv')
<1>1. /\ UNCHANGED <<session, nextSession, objects, parts, events, reopened, outlived>>
      /\ ceph' = [ceph EXCEPT ![h] = "object"]
      /\ lost' = lost \ {h}
  BY DEF Repair, tables
<1>2. RowsOK'
  BY <1>1 DEF MInv, RowsOK
<1>3. IdsOK' /\ EventsOK'
  BY <1>1 DEF MInv, IdsOK, EventsOK
<1>4. \A g \in Hashes : /\ Catalogued(g)' <=> Catalogued(g)
                        /\ Announced(g)' <=> Announced(g)
                        /\ Strayed(g)' <=> Strayed(g)
                        /\ Settled(g) => Settled(g)'
  BY <1>1 DEF Catalogued, Announced, Strayed, Settled, MInv, RowsOK
<1>5. StoredOK'
  BY <1>1, <1>4 DEF MInv, StoredOK
<1>6. PInv => PartsAreOwn' /\ \A p \in parts' : p.id < nextSession'
  BY <1>1 DEF PInv, PartsAreOwn
<1> QED BY <1>2, <1>3, <1>5, <1>6 DEF MInv, PInv

LEMMA CoreStep ==
  ASSUME MInv, UNCHANGED <<session, nextSession, objects, ceph, parts, lost, outlived>>,
         reopened \subseteq reopened', events' \subseteq events
  PROVE  MInv' /\ (PInv => PInv')
<1>1. /\ objects' \in Seq(ToSet(objects'))
      /\ \A o \in ToSet(objects') :
           "hash" \in DOMAIN o /\ \E q \in ToSet(objects) : o.hash = q.hash
  BY DEF MInv, RowsOK
<1> QED BY <1>1, KeepsStep

-----------------------------------------------------------------------------
(* The invariants hold in every state.                                     *)

LEMMA ServeStep ==
  ASSUME MInv, Serve, reopened' = reopened \union Reopened, UNCHANGED <<lost, outlived>>
  PROVE  MInv' /\ (PInv => PInv')
<1>1. reopened \subseteq reopened'
  OBVIOUS
<1>2. CASE Upload
  <2>1. UNCHANGED Aside
    BY <1>2 DEF Upload, BeginUpload, TakeOver, UploadPart, SetStatus, CompleteUpload,
         CancelUpload, tables, Aside
  <2>2. \E h \in Hashes : \E x : Uploads(h, x)
    BY <1>1, <1>2, <2>1, BeginStep, TakeOverStep, UploadPartStep, SetStatusStep,
       CompleteStep, CancelStep DEF Upload
  <2> QED BY <2>2, UploadsStep
<1>3. CASE Consumer
  <2>1. PICK id \in events : HandleUploadComplete(id) \/ SkipUploadComplete(id)
    BY <1>3 DEF Consumer
  <2>2. CASE HandleUploadComplete(id)
    BY <1>1, <2>2, ConsumeStep, UploadsStep
  <2>3. CASE SkipUploadComplete(id)
    BY <1>1, <2>3, CoreStep DEF SkipUploadComplete, Consumed, tables
  <2> QED BY <2>1, <2>2, <2>3
<1>4. CASE Attach
  <2>1. CASE FillMetadata
    <3>1. /\ objects' = Filled(request.hash, request.name.region)
          /\ UNCHANGED <<session, nextSession, ceph, parts, events>>
      BY <2>1 DEF FillMetadata
    <3>2. /\ objects' \in Seq(ToSet(objects'))
          /\ \A o \in ToSet(objects') :
               "hash" \in DOMAIN o /\ \E q \in ToSet(objects) : o.hash = q.hash
      BY <3>1, FilledIs DEF MInv
    <3> QED BY <1>1, <3>1, <3>2, KeepsStep
  <2>2. CASE \E u \in Users, h \in Hashes, n \in Names : AttachExisting(u, h, n)
    BY <1>1, <2>2, CoreStep DEF AttachExisting, tables
  <2>3. CASE InsertUserFile
    BY <1>1, <2>3, CoreStep DEF InsertUserFile, tables
  <2> QED BY <1>4, <2>1, <2>2, <2>3 DEF Attach
<1>5. CASE Browse
  BY <1>1, <1>5, CoreStep DEF Browse, Open, SelectFiles, NextPage, tables
<1> QED BY <1>2, <1>3, <1>4, <1>5 DEF Serve

LEMMA MInvStep ==
  ASSUME MInv, [MaintenanceNext]_maintenanceVars
  PROVE  MInv' /\ ("stopped" \notin Faults /\ PInv => PInv')
<1>1. CASE Serve /\ reopened' = reopened \union Reopened /\ UNCHANGED <<lost, outlived>>
  BY <1>1, ServeStep
<1>2. CASE ResetRefused \/ Reset \/ \E h \in Hashes : Repair(h)
  BY <1>2, ResetRefusedStep, ResetStep, RepairStep
<1>3. CASE UNCHANGED maintenanceVars
  BY <1>3, CoreStep DEF maintenanceVars, vars, tables
<1> QED BY <1>1, <1>2, <1>3 DEF MaintenanceNext

LEMMA MInvInit == MaintenanceInit => MInv /\ PInv
<1> SUFFICES ASSUME MaintenanceInit PROVE MInv /\ PInv
  OBVIOUS
<1> USE DEF MaintenanceInit, Init
<1>1. ToSet(objects) = {}
  BY DEF ToSet
<1> QED BY <1>1 DEF MInv, PInv, RowsOK, IdsOK, EventsOK, StoredOK, PartsAreOwn,
        Catalogued, Announced, NoSession

LEMMA MInvAlways == MaintenanceSpec => []MInv
<1>1. MInv /\ [MaintenanceNext]_maintenanceVars => MInv'
  BY MInvStep
<1> QED BY <1>1, MInvInit, PTL DEF MaintenanceSpec

\* Whatever is uploaded, paused, cancelled, answered or lost, delivered again,
\* purged, reset, numbered anew and repaired, a listed file is stored but for
\* the three reasons that ListedIsStored names.
THEOREM ListedIsStoredAlways == MaintenanceSpec => []ListedIsStored
<1>1. ASSUME MInv PROVE ListedIsStored
  <2> SUFFICES ASSUME NEW o \in ToSet(objects)
               PROVE  \/ ceph[o.hash] = "object"
                      \/ o.hash \in lost \union reopened \/ session[o.hash].id \in outlived
    BY DEF ListedIsStored
  <2>1. o.hash \in Hashes /\ Catalogued(o.hash)
    BY <1>1 DEF MInv, RowsOK, Catalogued
  <2> QED BY <1>1, <2>1 DEF MInv, StoredOK, Strayed, Settled
<1> QED BY <1>1, MInvAlways, PTL

\* An id that a reset hands out again brings no parts of another file along.
THEOREM PartsAreOwnAlways ==
  ASSUME "stopped" \notin Faults
  PROVE  MaintenanceSpec => []PartsAreOwn
<1>1. PInv /\ [MaintenanceNext]_maintenanceVars => PInv'
  BY MInvStep DEF PInv
<1>2. PInv => PartsAreOwn
  BY DEF PInv
<1> QED BY <1>1, <1>2, MInvInit, PTL DEF MaintenanceSpec

-----------------------------------------------------------------------------
(* Who is shown as the uploader.                                           *)

listing == <<objects, files, nextFile>>

ListRowsOK ==
  /\ nextFile \in Nat
  /\ files \in Seq(ToSet(files)) /\ objects \in Seq(ToSet(objects))
  /\ \A o \in ToSet(objects) : "hash" \in DOMAIN o /\ "by" \in DOMAIN o
  /\ \A f \in ToSet(files) : f.id \in Nat /\ f.id < nextFile
  /\ \A f, g \in ToSet(files) : f.id = g.id => f = g

\* Nothing lists, or is about to list, a file the catalogue does not have.
ListedLate ==
  /\ \A f \in ToSet(files) : Catalogued(f.hash)
  /\ request.pc \in {"fill", "insert"} => Catalogued(request.hash)

UploaderFirst ==
  \A o \in ToSet(objects) : \E f \in Refs(o.hash) :
    f.user = o.by /\ \A g \in Refs(o.hash) : f.id <= g.id

OwnerInv == ListRowsOK /\ ListedLate /\ UploaderFirst

LEMMA FirstIsUploader == OwnerInv => OwnerIsUploader
<1> SUFFICES ASSUME OwnerInv, NEW o \in ToSet(objects)
             PROVE  FirstRef(o.hash).user = o.by
  BY DEF OwnerIsUploader
<1>1. PICK f \in Refs(o.hash) :
        f.user = o.by /\ \A g \in Refs(o.hash) : f.id <= g.id
  BY DEF OwnerInv, UploaderFirst
<1>2. ASSUME NEW g \in Refs(o.hash), \A e \in Refs(o.hash) : g.id <= e.id
      PROVE  g = f
  <2>1. f.id \in Nat /\ g.id \in Nat /\ f.id = g.id
    BY <1>1, <1>2 DEF OwnerInv, ListRowsOK, Refs
  <2> QED BY <1>1, <2>1 DEF OwnerInv, ListRowsOK, Refs
<1>3. FirstRef(o.hash) = f
  BY <1>1, <1>2 DEF FirstRef
<1> QED BY <1>1, <1>3

\* A file is listed already, or its row is new and has the highest id.
LEMMA AttachedIs ==
  ASSUME ListRowsOK, NEW u, NEW h, NEW n, NEW t, Attached(u, h, n, t)
  PROVE  \/ UNCHANGED <<files, nextFile>> /\ Refs(h) # {}
         \/ \E x : /\ x.id = nextFile /\ x.user = u /\ x.hash = h
                   /\ files' \in Seq(ToSet(files'))
                   /\ ToSet(files') = ToSet(files) \union {x}
                   /\ nextFile' = nextFile + 1
<1>1. CASE \E f \in ToSet(files) : SamePath(f, u, h, n)
  BY <1>1 DEF Attached, SamePath, Refs
<1>2. CASE ~ \E f \in ToSet(files) : SamePath(f, u, h, n)
  <2> DEFINE x == [id |-> nextFile, user |-> u, hash |-> h, name |-> n, at |-> t]
             S == ToSet(files) \union {x}
  <2>1. files' = Append(files, x) /\ nextFile' = nextFile + 1
    BY <1>2 DEF Attached
  <2>2. x.id = nextFile /\ x.user = u /\ x.hash = h
    OBVIOUS
  <2>3. files \in Seq(S) /\ x \in S
    BY DEF ListRowsOK
  <2> HIDE DEF x
  <2>4. files' \in Seq(S) /\ ToSet(files') = S
    BY <2>1, <2>3, AppendedIs
  <2> QED BY <2>1, <2>2, <2>4
<1> QED BY <1>1, <1>2

\* An object that is new has no lister before its uploader.
LEMMA ListingStep ==
  ASSUME OwnerInv, NEW u, NEW h, NEW n, NEW t, Attached(u, h, n, t),
         objects' \in Seq(ToSet(objects')),
         \/ UNCHANGED objects /\ Catalogued(h)
         \/ \E y : /\ ~Catalogued(h) /\ y.hash = h /\ y.by = u
                   /\ "hash" \in DOMAIN y /\ "by" \in DOMAIN y
                   /\ ToSet(objects') = ToSet(objects) \union {y},
         request'.pc \in {"fill", "insert"} => UNCHANGED request
  PROVE  OwnerInv'
<1> ListRowsOK /\ ListedLate /\ UploaderFirst
  BY DEF OwnerInv
<1>1. CASE UNCHANGED <<files, nextFile>> /\ Refs(h) # {}
  <2>1. Catalogued(h) /\ UNCHANGED objects
    BY <1>1 DEF ListedLate, Refs
  <2> QED BY <1>1, <2>1 DEF OwnerInv, ListRowsOK, ListedLate, UploaderFirst,
          Catalogued, Refs
<1>2. ASSUME NEW x, x.id = nextFile, x.user = u, x.hash = h,
             files' \in Seq(ToSet(files')),
             ToSet(files') = ToSet(files) \union {x}, nextFile' = nextFile + 1
      PROVE  OwnerInv'
  <2>1. ToSet(objects) \subseteq ToSet(objects') /\ Catalogued(h)'
        /\ \A o \in ToSet(objects') : "hash" \in DOMAIN o /\ "by" \in DOMAIN o
    BY DEF Catalogued, ListRowsOK
  <2>2. ListRowsOK'
    BY <1>2, <2>1 DEF ListRowsOK
  <2>3. ListedLate'
    BY <1>2, <2>1 DEF ListedLate, Catalogued
  <2>4. ASSUME NEW o \in ToSet(objects)
        PROVE  \E f \in Refs(o.hash)' :
                 f.user = o.by /\ \A g \in Refs(o.hash)' : f.id <= g.id
    <3>1. PICK f \in Refs(o.hash) :
            f.user = o.by /\ \A g \in Refs(o.hash) : f.id <= g.id
      BY DEF UploaderFirst
    <3>2. f \in Refs(o.hash)' /\ f.id <= x.id
      BY <1>2 DEF Refs, ListRowsOK
    <3>3. \A g \in Refs(o.hash)' : g \in Refs(o.hash) \/ g = x
      BY <1>2 DEF Refs
    <3> QED BY <3>1, <3>2, <3>3
  <2>5. ASSUME ~Catalogued(h)
        PROVE  \A g \in Refs(h)' : g = x
    BY <1>2, <2>5 DEF Refs, ListedLate
  <2>6. x \in Refs(h)' /\ x.id <= x.id
    BY <1>2 DEF Refs, ListRowsOK
  <2>7. UploaderFirst'
    <3> SUFFICES ASSUME NEW o \in ToSet(objects')
                 PROVE  \E f \in Refs(o.hash)' :
                          f.user = o.by /\ \A g \in Refs(o.hash)' : f.id <= g.id
      BY DEF UploaderFirst
    <3>1. o \in ToSet(objects) \/ (~Catalogued(h) /\ o.hash = h /\ o.by = u)
      OBVIOUS
    <3>2. CASE ~Catalogued(h) /\ o.hash = h /\ o.by = u
      BY <1>2, <2>5, <2>6, <3>2
    <3> QED BY <2>4, <3>1, <3>2
  <2> QED BY <2>2, <2>3, <2>7 DEF OwnerInv
<1> QED BY <1>1, <1>2, AttachedIs

LEMMA ConsumeOwner ==
  ASSUME OwnerInv, NEW id, HandleUploadComplete(id)
  PROVE  OwnerInv'
<1>1. PICK h \in Hashes, t \in Times :
        /\ objects' = IF Catalogued(h) THEN objects
                      ELSE Append(objects, [hash |-> h, name |-> session[h].name, at |-> t,
                                            region |-> session[h].name.region,
                                            by |-> session[h].user])
        /\ Attached(session[h].user, h, session[h].name, t)
        /\ UNCHANGED request
  BY DEF HandleUploadComplete
<1>2. objects \in Seq(ToSet(objects))
  BY DEF OwnerInv, ListRowsOK
<1>3. CASE Catalogued(h)
  BY <1>1, <1>2, <1>3, ListingStep
<1>4. CASE ~Catalogued(h)
  <2> DEFINE y == [hash |-> h, name |-> session[h].name, at |-> t,
                   region |-> session[h].name.region, by |-> session[h].user]
             S == ToSet(objects) \union {y}
  <2>1. y.hash = h /\ y.by = session[h].user /\ "hash" \in DOMAIN y /\ "by" \in DOMAIN y
    OBVIOUS
  <2>2. objects' = Append(objects, y)
    BY <1>1, <1>4
  <2>3. objects \in Seq(S) /\ y \in S
    BY <1>2
  <2> HIDE DEF y
  <2>4. objects' \in Seq(S) /\ ToSet(objects') = S
    BY <2>2, <2>3, AppendedIs
  <2> QED BY <1>1, <1>4, <2>1, <2>4, ListingStep
<1> QED BY <1>3, <1>4

LEMMA FillOwner ==
  ASSUME OwnerInv, FillMetadata
  PROVE  OwnerInv'
<1> DEFINE t == Filled(request.hash, request.name.region)
<1>1. /\ objects' = t /\ UNCHANGED <<files, nextFile>>
      /\ request' = [request EXCEPT !.pc = "insert"] /\ request.pc = "fill"
  BY DEF FillMetadata
<1>2. /\ objects \in Seq(ToSet(objects)) /\ DOMAIN objects = 1..Len(objects)
      /\ Len(objects) \in Nat
  BY DEF OwnerInv, ListRowsOK
<1>3. DOMAIN t = 1..Len(objects) /\ t = [i \in 1..Len(objects) |-> t[i]]
  BY <1>2 DEF Filled
<1>4. ASSUME NEW i \in 1..Len(objects)
      PROVE  /\ "hash" \in DOMAIN t[i] /\ t[i].hash = objects[i].hash
             /\ "by" \in DOMAIN t[i] /\ t[i].by = objects[i].by
  <2>1. objects[i] \in ToSet(objects)
    BY <1>2 DEF ToSet
  <2>2. "hash" \in DOMAIN objects[i] /\ "by" \in DOMAIN objects[i]
    BY <2>1 DEF OwnerInv, ListRowsOK
  <2>3. t[i] = IF objects[i].hash = request.hash
               THEN [objects[i] EXCEPT !.region = request.name.region] ELSE objects[i]
    BY <1>2 DEF Filled
  <2> QED BY <2>2, <2>3
<1>5. \A i \in 1..Len(objects) : t[i] \in ToSet(t)
  BY <1>3 DEF ToSet
<1>6. t \in Seq(ToSet(t))
  BY <1>2, <1>3, <1>5
<1> HIDE DEF t
<1>7. ToSet(t) = {t[i] : i \in 1..Len(objects)}
      /\ ToSet(objects) = {objects[i] : i \in 1..Len(objects)}
  BY <1>2, <1>3 DEF ToSet
<1>8. \A o \in ToSet(t) : /\ "hash" \in DOMAIN o /\ "by" \in DOMAIN o
                          /\ \E q \in ToSet(objects) : o.hash = q.hash /\ o.by = q.by
  BY <1>4, <1>7
<1>9. \A q \in ToSet(objects) : \E o \in ToSet(t) : o.hash = q.hash
  BY <1>4, <1>7
<1>10. \A h : Catalogued(h) => Catalogued(h)'
  BY <1>1, <1>9 DEF Catalogued
<1>11. ListRowsOK'
  BY <1>1, <1>6, <1>8 DEF OwnerInv, ListRowsOK
<1>12. \E o \in ToSet(objects') : o.hash = request'.hash
  <2>1. request'.hash = request.hash
    BY <1>1
  <2>2. Catalogued(request.hash)
    BY <1>1 DEF OwnerInv, ListedLate
  <2> QED BY <2>1, <2>2, <1>10 DEF Catalogued
<1>13. ListedLate'
  BY <1>1, <1>10, <1>12 DEF OwnerInv, ListedLate, Catalogued
<1>14. UploaderFirst'
  <2> SUFFICES ASSUME NEW o \in ToSet(t)
               PROVE  \E f \in Refs(o.hash) :
                        f.user = o.by /\ \A g \in Refs(o.hash) : f.id <= g.id
    BY <1>1 DEF UploaderFirst, Refs
  <2>1. PICK q \in ToSet(objects) : o.hash = q.hash /\ o.by = q.by
    BY <1>8
  <2> QED BY <2>1 DEF OwnerInv, UploaderFirst
<1> QED BY <1>11, <1>13, <1>14 DEF OwnerInv

LEMMA InsertOwner ==
  ASSUME OwnerInv, InsertUserFile
  PROVE  OwnerInv'
<1>1. request'.pc = "answered" /\ UNCHANGED objects
  BY DEF InsertUserFile, Instant
<1>2. Catalogued(request.hash)
  BY DEF InsertUserFile, OwnerInv, ListedLate
<1>3. ASSUME NEW t \in Times, Attached(request.user, request.hash, request.name, t)
      PROVE  OwnerInv'
  <2>1. objects' \in Seq(ToSet(objects'))
    BY <1>1 DEF OwnerInv, ListRowsOK
  <2> QED BY <1>1, <1>2, <1>3, <2>1, ListingStep
<1>4. CASE UNCHANGED <<files, nextFile>>
  BY <1>1, <1>4 DEF OwnerInv, ListRowsOK, ListedLate, UploaderFirst, Catalogued, Refs
<1> QED BY <1>3, <1>4 DEF InsertUserFile

\* Every other step leaves the lists as they are, or empties them.
LEMMA ListingStays ==
  ASSUME OwnerInv, UNCHANGED listing,
         request'.pc \in {"fill", "insert"} =>
           UNCHANGED request \/ Catalogued(request'.hash)
  PROVE  OwnerInv'
<1> USE DEF listing
<1>1. ListRowsOK' /\ UploaderFirst'
  BY DEF OwnerInv, ListRowsOK, UploaderFirst, Refs
<1>2. ListedLate'
  BY DEF OwnerInv, ListedLate, Catalogued
<1> QED BY <1>1, <1>2 DEF OwnerInv

LEMMA EmptiedOwner ==
  ASSUME OwnerInv, Reset
  PROVE  OwnerInv'
<1>1. objects' = <<>> /\ files' = <<>> /\ request'.pc = "idle"
      /\ nextFile' \in {1, nextFile}
  BY DEF Reset, ClearTables, ResetCounters, StopServices, Idle
<1>2. ToSet(objects') = {} /\ ToSet(files') = {}
  BY <1>1 DEF ToSet
<1> QED BY <1>1, <1>2 DEF OwnerInv, ListRowsOK, ListedLate, UploaderFirst

LEMMA OwnerStep ==
  OwnerInv /\ [MaintenanceNext]_maintenanceVars => OwnerInv'
<1> SUFFICES ASSUME OwnerInv, [MaintenanceNext]_maintenanceVars PROVE OwnerInv'
  OBVIOUS
<1>1. CASE Upload
  <2>1. UNCHANGED listing /\ UNCHANGED request
    BY <1>1 DEF Upload, BeginUpload, TakeOver, UploadPart, SetStatus, CompleteUpload,
         CancelUpload, tables, listing
  <2> QED BY <2>1, ListingStays
<1>2. CASE Consumer
  <2>1. ASSUME NEW id, SkipUploadComplete(id) PROVE OwnerInv'
    <3>1. UNCHANGED listing /\ UNCHANGED request
      BY <2>1 DEF SkipUploadComplete, tables, listing
    <3> QED BY <3>1, ListingStays
  <2> QED BY <1>2, <2>1, ConsumeOwner DEF Consumer
<1>3. CASE Attach
  <2>1. ASSUME NEW u \in Users, NEW h \in Hashes, NEW n \in Names,
               AttachExisting(u, h, n)
        PROVE  OwnerInv'
    <3>1. UNCHANGED listing /\ Catalogued(h) /\ request'.hash = h
      BY <2>1 DEF AttachExisting, tables, listing
    <3> QED BY <3>1, ListingStays
  <2> QED BY <1>3, <2>1, FillOwner, InsertOwner DEF Attach
<1>4. CASE Browse
  <2>1. UNCHANGED listing /\ UNCHANGED request
    BY <1>4 DEF Browse, Open, SelectFiles, NextPage, tables, listing
  <2> QED BY <2>1, ListingStays
<1>5. CASE ResetRefused
  <2>1. UNCHANGED listing /\ request'.pc = "idle"
    BY <1>5 DEF ResetRefused, StopServices, Idle, tables, listing
  <2> QED BY <2>1, ListingStays
<1>6. CASE \E h \in Hashes : Repair(h)
  <2>1. UNCHANGED listing /\ UNCHANGED request
    BY <1>6 DEF Repair, tables, listing
  <2> QED BY <2>1, ListingStays
<1>7. CASE UNCHANGED maintenanceVars
  <2>1. UNCHANGED listing /\ UNCHANGED request
    BY <1>7 DEF maintenanceVars, vars, tables, listing
  <2> QED BY <2>1, ListingStays
<1> QED BY <1>1, <1>2, <1>3, <1>4, <1>5, <1>6, <1>7, EmptiedOwner
        DEF MaintenanceNext, Serve

LEMMA OwnerInit == MaintenanceInit => OwnerInv
<1> SUFFICES ASSUME MaintenanceInit PROVE OwnerInv
  OBVIOUS
<1> USE DEF MaintenanceInit, Init
<1>1. ToSet(objects) = {} /\ ToSet(files) = {}
  BY DEF ToSet
<1> QED BY <1>1 DEF OwnerInv, ListRowsOK, ListedLate, UploaderFirst, Idle

\* Whoever attaches a file, in whatever order and with whatever failures and
\* resets between, its uploader stays the one the team's list names.
THEOREM OwnerIsUploaderAlways == MaintenanceSpec => []OwnerIsUploader
<1>1. MaintenanceInit => OwnerInv
  BY OwnerInit
<1>2. OwnerInv /\ [MaintenanceNext]_maintenanceVars => OwnerInv'
  BY OwnerStep
<1> QED BY <1>1, <1>2, FirstIsUploader, PTL DEF MaintenanceSpec

-----------------------------------------------------------------------------
(* What an instant upload answers.                                         *)

\* One step of InstantIsListed.
Answers ==
  request.pc = "insert" /\ request'.pc = "answered" =>
    /\ request'.dropped \/ \E f \in ToSet(files') :
         SamePath(f, request.user, request.hash, request.name)
    /\ request'.id # 0 => \E f \in ToSet(files') :
         /\ f.id = request'.id /\ f.user = request.user
         /\ f.hash = request.hash /\ f.name = request.name

\* The select finds the very row, or none.
LEMMA SelectedIs ==
  ASSUME NEW id \in SelectUserFile, id # 0
  PROVE  \E f \in ToSet(files) : /\ f.id = id /\ f.user = request.user
                                 /\ f.hash = request.hash /\ f.name = request.name
<1>1. PICK f \in Same : id = f.id
  BY DEF SelectUserFile
<1> QED BY <1>1 DEF Same, Refs

LEMMA InsertAnswers ==
  ASSUME OwnerInv, InsertUserFile
  PROVE  Answers
<1> DEFINE x(t) == [id |-> nextFile, user |-> request.user, hash |-> request.hash,
                    name |-> request.name, at |-> t]
<1>1. CASE UNCHANGED files /\ \E id \in SelectUserFile : request' = Instant(id, TRUE)
  <2>1. PICK id \in SelectUserFile : request' = Instant(id, TRUE)
    BY <1>1
  <2>2. request'.id = id /\ request'.dropped
    BY <2>1 DEF Instant
  <2> QED BY <1>1, <2>2, SelectedIs DEF Answers
<1>2. CASE /\ UNCHANGED files
           /\ \E f \in ToSet(files) :
                SamePath(f, request.user, request.hash, request.name)
           /\ \E id \in SelectUserFile : request' = Instant(id, FALSE)
  <2>1. PICK id \in SelectUserFile : request' = Instant(id, FALSE)
    BY <1>2
  <2>2. request'.id = id
    BY <2>1 DEF Instant
  <2> QED BY <1>2, <2>2, SelectedIs DEF Answers
<1>3. ASSUME NEW t, files' = Append(files, x(t)), request' = Instant(nextFile, FALSE)
      PROVE  Answers
  <2> DEFINE y == x(t)
             S == ToSet(files) \union {y}
  <2>1. files \in Seq(S) /\ y \in S
    BY DEF OwnerInv, ListRowsOK
  <2>2. /\ y.id = nextFile /\ y.user = request.user
        /\ y.hash = request.hash /\ y.name = request.name
    OBVIOUS
  <2> HIDE DEF x
  <2>3. y \in ToSet(files')
    BY <1>3, <2>1, AppendedIs
  <2>4. request'.id = nextFile
    BY <1>3 DEF Instant
  <2> QED BY <2>2, <2>3, <2>4 DEF Answers, SamePath
<1>4. ASSUME NEW t \in Times, Attached(request.user, request.hash, request.name, t),
             \/ nextFile' # nextFile /\ request' = Instant(nextFile, FALSE)
             \/ /\ nextFile' = nextFile
                /\ \E id \in SelectUserFile : request' = Instant(id, FALSE)
      PROVE  Answers
  <2>1. nextFile \in Nat
    BY DEF OwnerInv, ListRowsOK
  <2>2. CASE \E f \in ToSet(files) :
               SamePath(f, request.user, request.hash, request.name)
    <3>1. UNCHANGED files /\ nextFile' = nextFile
      BY <1>4, <2>2 DEF Attached
    <3>2. \E id \in SelectUserFile : request' = Instant(id, FALSE)
      BY <1>4, <3>1
    <3> QED BY <1>2, <2>2, <3>1, <3>2
  <2>3. CASE ~ \E f \in ToSet(files) :
                 SamePath(f, request.user, request.hash, request.name)
    <3>1. files' = Append(files, x(t)) /\ nextFile' = nextFile + 1
      BY <1>4, <2>3 DEF Attached
    <3>2. nextFile' # nextFile
      BY <2>1, <3>1
    <3>3. request' = Instant(nextFile, FALSE)
      BY <1>4, <3>2, Zenon
    <3> QED BY <1>3, <3>1, <3>3
  <2> QED BY <2>2, <2>3
<1> QED BY <1>1, <1>4 DEF InsertUserFile

LEMMA AnswersStep ==
  OwnerInv /\ [MaintenanceNext]_maintenanceVars => [Answers]_vars
<1> SUFFICES ASSUME OwnerInv, MaintenanceNext, request.pc = "insert",
                    request'.pc = "answered"
             PROVE  Answers
  BY DEF Answers, maintenanceVars
<1>1. ASSUME UNCHANGED request PROVE FALSE
  BY <1>1
<1>2. CASE Upload
  BY <1>1, <1>2 DEF Upload, BeginUpload, TakeOver, UploadPart, SetStatus, CompleteUpload,
         CancelUpload
<1>3. CASE Consumer
  BY <1>1, <1>3 DEF Consumer, HandleUploadComplete, SkipUploadComplete
<1>4. CASE Attach
  BY <1>4, InsertAnswers DEF Attach, AttachExisting, FillMetadata
<1>5. CASE Browse
  BY <1>1, <1>5 DEF Browse, Open, SelectFiles, NextPage
<1>6. CASE ResetRefused \/ Reset
  BY <1>6 DEF ResetRefused, Reset, StopServices, Idle
<1>7. CASE \E h \in Hashes : Repair(h)
  BY <1>1, <1>7 DEF Repair
<1> QED BY <1>2, <1>3, <1>4, <1>5, <1>6, <1>7 DEF MaintenanceNext, Serve

\* attachExisting's answer, for any users, names, unique keys and failures,
\* and any rows that others insert before it: the file is in the user's list,
\* and an id that is told is the id of the row asked for.
THEOREM InstantIsListedAlways == MaintenanceSpec => InstantIsListed
<1>1. MaintenanceInit => OwnerInv
  BY OwnerInit
<1>2. OwnerInv /\ [MaintenanceNext]_maintenanceVars => OwnerInv'
  BY OwnerStep
<1>3. OwnerInv /\ [MaintenanceNext]_maintenanceVars => [Answers]_vars
  BY AnswersStep
<1> QED BY <1>1, <1>2, <1>3, PTL DEF MaintenanceSpec, InstantIsListed, Answers

-----------------------------------------------------------------------------
(* The tables: what kind of rows they have, and their keys.                *)

ObjectRows ==
  [hash : Hashes, name : Names, region : {n.region : n \in Names}, by : Users,
   at : Times]

FileRows ==
  [id : 1..MaxFile, user : Users, hash : Hashes, name : Names, at : Times]

\* uk_file_object_hash and uk_user_file_path, row by row.
OneObject ==
  \A i, j \in 1..Len(objects) : objects[i].hash = objects[j].hash => i = j

OneRow ==
  \A i, j \in 1..Len(files) :
    SamePath(files[i], files[j].user, files[j].hash, files[j].name) => i = j

ObjectsOK == objects \in Seq(ObjectRows) /\ OneObject

FilesOK == files \in Seq(FileRows) /\ OneRow /\ nextFile \in 1..(MaxFile + 1)

SessionsOK ==
  /\ session \in [Hashes -> Sessions \union {NoSession}]
  /\ nextSession \in 1..(MaxId + 1)
  /\ ceph \in [Hashes -> {"nothing", "parts", "object"}]
  /\ parts \subseteq [id : 1..MaxId, hash : Hashes]
  /\ events \subseteq 1..MaxId

RequestOK ==
  request.pc \in {"fill", "insert"} =>
    request.user \in Users /\ request.hash \in Hashes /\ request.name \in Names

TInv == ObjectsOK /\ FilesOK /\ SessionsOK /\ RequestOK

\* A table whose rows differ in what is counted has as many of it as rows.
LEMMA CountedOnce ==
  ASSUME NEW n \in Nat, NEW f, f = [i \in 1..n |-> f[i]],
         \A i, j \in 1..n : f[i] = f[j] => i = j
  PROVE  Cardinality({f[i] : i \in 1..n}) = n
<1> DEFINE S == {f[i] : i \in 1..n}
<1>1. f \in [1..n -> S]
  OBVIOUS
<1>2. f \in Bijection(1..n, S)
  BY <1>1 DEF Bijection, Injection, Surjection, IsInjective
<1>3. ExistsBijection(1..n, S)
  BY <1>2 DEF ExistsBijection
<1> QED BY <1>3, FS_CountingElements

LEMMA TablesTyped == TInv => TypeOK
<1> SUFFICES ASSUME TInv PROVE TypeOK
  OBVIOUS
<1>1. /\ DOMAIN objects = 1..Len(objects) /\ Len(objects) \in Nat
      /\ DOMAIN files = 1..Len(files) /\ Len(files) \in Nat
  BY DEF TInv, ObjectsOK, FilesOK
<1>2. /\ ToSet(objects) = {objects[i] : i \in 1..Len(objects)}
      /\ ToSet(files) = {files[i] : i \in 1..Len(files)}
  BY <1>1 DEF ToSet
<1>3. ToSet(objects) \subseteq ObjectRows /\ ToSet(files) \subseteq FileRows
  BY <1>1, <1>2 DEF TInv, ObjectsOK, FilesOK
<1>4. Cardinality({o.hash : o \in ToSet(objects)}) = Len(objects)
  <2> DEFINE f == [i \in 1..Len(objects) |-> objects[i].hash]
  <2>1. \A i, j \in 1..Len(objects) : f[i] = f[j] => i = j
    BY DEF TInv, ObjectsOK, OneObject
  <2>2. {f[i] : i \in 1..Len(objects)} = {o.hash : o \in ToSet(objects)}
    BY <1>2
  <2>3. f = [i \in 1..Len(objects) |-> f[i]]
    OBVIOUS
  <2> HIDE DEF f
  <2>4. Cardinality({f[i] : i \in 1..Len(objects)}) = Len(objects)
    BY <1>1, <2>1, <2>3, CountedOnce
  <2> QED BY <2>2, <2>4
<1>5. Cardinality({<<r.user, r.hash, r.name.key>> : r \in ToSet(files)}) = Len(files)
  <2> DEFINE f == [i \in 1..Len(files) |->
                     <<files[i].user, files[i].hash, files[i].name.key>>]
  <2>1. \A i, j \in 1..Len(files) : f[i] = f[j] => i = j
    BY DEF TInv, FilesOK, OneRow, SamePath
  <2>2. {f[i] : i \in 1..Len(files)}
          = {<<r.user, r.hash, r.name.key>> : r \in ToSet(files)}
    BY <1>2
  <2>3. f = [i \in 1..Len(files) |-> f[i]]
    OBVIOUS
  <2> HIDE DEF f
  <2>4. Cardinality({f[i] : i \in 1..Len(files)}) = Len(files)
    BY <1>1, <2>1, <2>3, CountedOnce
  <2> QED BY <2>2, <2>4
<1> QED BY <1>3, <1>4, <1>5
        DEF TInv, FilesOK, SessionsOK, TypeOK, ObjectRows, FileRows

\* A row whose key no other has joins a table without breaking the key.
LEMMA AppendObject ==
  ASSUME ObjectsOK, NEW y \in ObjectRows, ~Catalogued(y.hash),
         objects' = Append(objects, y)
  PROVE  ObjectsOK'
<1> DEFINE n == Len(objects)
<1>1. objects \in Seq(ObjectRows) /\ n \in Nat /\ DOMAIN objects = 1..n
  BY DEF ObjectsOK
<1>2. /\ objects' \in Seq(ObjectRows) /\ Len(objects') = n + 1
      /\ \A i \in 1..n : objects'[i] = objects[i]
      /\ objects'[n + 1] = y
  BY <1>1, AppendedIs
<1>3. \A i \in 1..n : objects[i].hash # y.hash
  BY <1>1 DEF Catalogued, ToSet
<1>4. \A i, j \in 1..n : objects[i].hash = objects[j].hash => i = j
  BY DEF ObjectsOK, OneObject
<1> HIDE DEF n
<1>5. \A i \in 1..(n + 1) : i \in 1..n \/ i = n + 1
  BY <1>1
<1>6. ASSUME NEW i \in 1..(n + 1), NEW j \in 1..(n + 1),
             objects'[i].hash = objects'[j].hash
      PROVE  i = j
  BY <1>2, <1>3, <1>4, <1>5, <1>6
<1> QED BY <1>2, <1>6 DEF ObjectsOK, OneObject

LEMMA AttachFile ==
  ASSUME FilesOK, NEW u \in Users, NEW h \in Hashes, NEW n \in Names, NEW t \in Times,
         Attached(u, h, n, t)
  PROVE  FilesOK' /\ (UNCHANGED files \/ \E x \in FileRows : files' = Append(files, x))
<1>1. CASE \E f \in ToSet(files) : SamePath(f, u, h, n)
  <2>1. UNCHANGED <<files, nextFile>>
    BY <1>1 DEF Attached
  <2> QED BY <2>1 DEF FilesOK, OneRow
<1>2. CASE ~ \E f \in ToSet(files) : SamePath(f, u, h, n)
  <2> DEFINE x == [id |-> nextFile, user |-> u, hash |-> h, name |-> n, at |-> t]
             m == Len(files)
  <2>1. /\ nextFile <= MaxFile /\ nextFile' = nextFile + 1
        /\ files' = Append(files, x)
    BY <1>2 DEF Attached
  <2>2. nextFile \in 1..MaxFile /\ nextFile' \in 1..(MaxFile + 1)
    BY <2>1, CatalogueAssumption DEF FilesOK
  <2>3. x \in FileRows
    BY <2>2 DEF FileRows
  <2>4. x.user = u /\ x.hash = h /\ x.name = n
    OBVIOUS
  <2> HIDE DEF x
  <2>5. files \in Seq(FileRows) /\ m \in Nat /\ DOMAIN files = 1..m
    BY DEF FilesOK
  <2>6. /\ files' \in Seq(FileRows) /\ Len(files') = m + 1
        /\ \A i \in 1..m : files'[i] = files[i]
        /\ files'[m + 1] = x
    BY <2>1, <2>3, <2>5, AppendedIs
  <2>7. \A i \in 1..m : ~ SamePath(files[i], u, h, n)
    BY <1>2, <2>5 DEF ToSet
  <2>8. \A i, j \in 1..m :
           SamePath(files[i], files[j].user, files[j].hash, files[j].name) => i = j
    BY DEF FilesOK, OneRow
  <2> HIDE DEF m
  <2>9. \A i \in 1..(m + 1) : i \in 1..m \/ i = m + 1
    BY <2>5
  <2>10. ASSUME NEW i \in 1..(m + 1), NEW j \in 1..(m + 1),
                SamePath(files'[i], files'[j].user, files'[j].hash, files'[j].name)
         PROVE  i = j
    <3> DEFINE Twins(a, b) == SamePath(a, b.user, b.hash, b.name)
    <3>1. Twins(files'[i], files'[j]) /\ Twins(files'[j], files'[i])
      BY <2>10 DEF SamePath
    <3>2. \A e \in 1..m : ~ Twins(files[e], x)
      BY <2>4, <2>7
    <3>3. \A e, g \in 1..m : Twins(files[e], files[g]) => e = g
      BY <2>8
    <3> HIDE DEF Twins
    <3> QED BY <2>6, <2>9, <3>1, <3>2, <3>3
  <2>11. OneRow'
    BY <2>6, <2>10 DEF OneRow, SamePath
  <2> QED BY <2>1, <2>2, <2>3, <2>6, <2>11 DEF FilesOK
<1> QED BY <1>1, <1>2

\* A row that is there.
LEMMA UsedIs ==
  ASSUME SessionsOK, NEW h \in Hashes, session[h].status # "NONE"
  PROVE  session[h] \in Sessions /\ session[h].id \in 1..MaxId
BY DEF SessionsOK, NoSession, Sessions

\* Its status may become any other.
LEMMA StatusSet ==
  ASSUME SessionsOK, NEW h \in Hashes, session[h] \in Sessions, NEW status \in Statuses,
         session' = [session EXCEPT ![h].status = status]
  PROVE  session' \in [Hashes -> Sessions \union {NoSession}]
<1>1. [session[h] EXCEPT !.status = status] \in Sessions
  BY DEF Sessions
<1> QED BY <1>1 DEF SessionsOK

LEMMA UploadTables ==
  ASSUME TInv, Upload
  PROVE  TInv'
<1> SessionsOK
  BY DEF TInv
<1>1. UNCHANGED <<objects, files, nextFile, request>>
  BY DEF Upload, BeginUpload, TakeOver, UploadPart, SetStatus, CompleteUpload,
     CancelUpload, tables
<1>2. ASSUME NEW u \in Users, NEW h \in Hashes, NEW n \in UploadNames,
             BeginUpload(u, h, n)
      PROVE  SessionsOK'
  <2>1. PICK end \in {"UPLOADING", "INIT", "FAILED"} :
          session' = [session EXCEPT ![h] =
            [id |-> IF session[h] = NoSession THEN nextSession ELSE session[h].id,
             user |-> u, name |-> n, status |-> end]]
    BY <1>2 DEF BeginUpload
  <2> DEFINE s == [id |-> IF session[h] = NoSession THEN nextSession ELSE session[h].id,
                   user |-> u, name |-> n, status |-> end]
  <2>2. /\ UNCHANGED <<ceph, parts, events>>
        /\ session[h] = NoSession => nextSession <= MaxId
        /\ nextSession' = IF session[h] = NoSession THEN nextSession + 1 ELSE nextSession
    BY <1>2 DEF BeginUpload, NoSession
  <2>3. session[h] # NoSession => session[h].id \in 1..MaxId
    BY DEF SessionsOK, Sessions
  <2>4. nextSession \in 1..(MaxId + 1) /\ MaxId \in Nat
    BY CatalogueAssumption DEF SessionsOK
  <2>5. session[h] = NoSession => nextSession \in 1..MaxId
    BY <2>2, <2>4
  <2>6. s \in Sessions
    BY <2>3, <2>5, CatalogueAssumption DEF Sessions, Statuses
  <2>7. session' = [session EXCEPT ![h] = s]
    BY <2>1
  <2> HIDE DEF s
  <2> QED BY <2>2, <2>4, <2>5, <2>6, <2>7 DEF SessionsOK
<1>3. ASSUME NEW u \in Users, NEW h \in Hashes, NEW n \in UploadNames, TakeOver(u, h, n)
      PROVE  SessionsOK'
  <2> DEFINE s == [session[h] EXCEPT !.user = u, !.name = n, !.status = "UPLOADING"]
  <2>1. session[h] \in Sessions
    BY <1>3, UsedIs DEF TakeOver
  <2>2. s \in Sessions
    BY <2>1, CatalogueAssumption DEF Sessions, Statuses
  <2>3. /\ session' = [session EXCEPT ![h] = s]
        /\ UNCHANGED <<nextSession, ceph, parts, events>>
    BY <1>3, <2>1 DEF TakeOver, SessionsOK
  <2> HIDE DEF s
  <2> QED BY <2>2, <2>3 DEF SessionsOK
<1>4. ASSUME NEW h \in Hashes, UploadPart(h)
      PROVE  SessionsOK'
  <2>1. session[h].id \in 1..MaxId
    BY <1>4, UsedIs DEF UploadPart
  <2>2. /\ UNCHANGED <<session, nextSession, events>>
        /\ ceph' = [ceph EXCEPT ![h] = IF @ = "object" THEN @ ELSE "parts"]
        /\ parts' = parts \union {[id |-> session[h].id, hash |-> h]}
    BY <1>4 DEF UploadPart, tables
  <2> QED BY <2>1, <2>2 DEF SessionsOK
<1>5. ASSUME NEW h \in Hashes, SetStatus(h)
      PROVE  SessionsOK'
  <2>1. session[h] \in Sessions
    BY <1>5 DEF SetStatus, SessionsOK
  <2>2. session' \in [Hashes -> Sessions \union {NoSession}]
    BY <1>5, <2>1, StatusSet DEF SetStatus, Statuses
  <2> QED BY <1>5, <2>2 DEF SetStatus, SessionsOK
<1>6. ASSUME NEW h \in Hashes, CompleteUpload(h)
      PROVE  SessionsOK'
  <2>1. session[h] \in Sessions /\ session[h].id \in 1..MaxId
    BY <1>6, UsedIs DEF CompleteUpload
  <2>2. session' \in [Hashes -> Sessions \union {NoSession}]
    BY <1>6, <2>1, StatusSet DEF CompleteUpload, Statuses
  <2>3. /\ ceph' \in [Hashes -> {"nothing", "parts", "object"}]
        /\ events' \subseteq events \union {session[h].id}
        /\ UNCHANGED <<nextSession, parts>>
    BY <1>6 DEF CompleteUpload, SessionsOK
  <2> QED BY <2>1, <2>2, <2>3 DEF SessionsOK
<1>7. ASSUME NEW h \in Hashes, CancelUpload(h)
      PROVE  SessionsOK'
  <2>1. session[h] \in Sessions
    BY <1>7, UsedIs DEF CancelUpload, Cancellable
  <2>2. session' \in [Hashes -> Sessions \union {NoSession}]
    BY <1>7, <2>1, StatusSet DEF CancelUpload, Statuses, SessionsOK
  <2>3. /\ ceph' \in [Hashes -> {"nothing", "parts", "object"}] /\ parts' \subseteq parts
        /\ UNCHANGED <<nextSession, events>>
    BY <1>7 DEF CancelUpload, SessionsOK
  <2> QED BY <2>2, <2>3 DEF SessionsOK
<1>8. SessionsOK'
  BY <1>2, <1>3, <1>4, <1>5, <1>6, <1>7 DEF Upload
<1> QED BY <1>1, <1>8
        DEF TInv, ObjectsOK, OneObject, FilesOK, OneRow, SamePath, RequestOK

\* The object that the consumer makes of a session.
Made(h, t) == [hash |-> h, name |-> session[h].name, at |-> t,
               region |-> session[h].name.region, by |-> session[h].user]

\* What the consumer does to the tables, by the session it finds.
Consumes(h, t) ==
  /\ session[h] \in Sessions
  /\ objects' = IF Catalogued(h) THEN objects ELSE Append(objects, Made(h, t))
  /\ Attached(session[h].user, h, session[h].name, t)
  /\ session' = [session EXCEPT ![h].status = "COMPLETE"]
  /\ events' \subseteq events
  /\ UNCHANGED <<nextSession, ceph, parts, request, view>>

LEMMA ConsumesIs ==
  ASSUME TInv, NEW id, HandleUploadComplete(id)
  PROVE  \E h \in Hashes, t \in Times : Consumes(h, t)
<1>1. PICK h \in Hashes, t \in Times :
        /\ session[h] # NoSession
        /\ objects' = IF Catalogued(h) THEN objects ELSE Append(objects, Made(h, t))
        /\ Attached(session[h].user, h, session[h].name, t)
        /\ session' = [session EXCEPT ![h].status = "COMPLETE"]
        /\ Consumed(id)
        /\ UNCHANGED <<nextSession, ceph, parts, request, view>>
  BY DEF HandleUploadComplete, Made
<1>2. session[h] \in Sessions
  BY <1>1 DEF TInv, SessionsOK
<1> QED BY <1>1, <1>2 DEF Consumes, Consumed

\* Both tables keep their rows where they are; each may get one more.
Grown ==
  /\ UNCHANGED objects \/ \E y : ObjectsOK' /\ objects' = Append(objects, y)
  /\ UNCHANGED files \/ \E x \in FileRows : files' = Append(files, x)

LEMMA ConsumeTables ==
  ASSUME TInv, NEW h \in Hashes, NEW t \in Times, Consumes(h, t)
  PROVE  TInv' /\ Grown
<1> DEFINE y == Made(h, t)
<1>1. session[h] \in Sessions /\ session[h].user \in Users /\ session[h].name \in Names
  BY DEF Consumes, Sessions
<1>2. y \in ObjectRows /\ y.hash = h
  BY <1>1 DEF ObjectRows, Made
<1>3. UNCHANGED objects \/ (~Catalogued(h) /\ objects' = Append(objects, y))
  BY DEF Consumes
<1> HIDE DEF y
<1>4. ObjectsOK'
  <2>1. CASE UNCHANGED objects
    BY <2>1 DEF TInv, ObjectsOK, OneObject
  <2>2. CASE ~Catalogued(h) /\ objects' = Append(objects, y)
    BY <1>2, <2>2, AppendObject DEF TInv
  <2> QED BY <1>3, <2>1, <2>2
<1>5. FilesOK' /\ (UNCHANGED files \/ \E x \in FileRows : files' = Append(files, x))
  <2>1. Attached(session[h].user, h, session[h].name, t)
    BY DEF Consumes
  <2> QED BY <1>1, <2>1, AttachFile DEF TInv
<1>6. session' \in [Hashes -> Sessions \union {NoSession}]
  BY <1>1, StatusSet DEF Consumes, TInv, Statuses
<1>7. SessionsOK' /\ RequestOK'
  BY <1>6 DEF Consumes, TInv, SessionsOK, RequestOK
<1> QED BY <1>3, <1>4, <1>5, <1>7 DEF TInv, Grown

\* Metadata that is filled in leaves the objects in their places.
FillsIn(h, region) ==
  /\ Len(objects') = Len(objects)
  /\ \A i \in 1..Len(objects) :
       /\ objects'[i].hash = objects[i].hash /\ objects'[i].at = objects[i].at
       /\ objects[i].hash # h => objects'[i] = objects[i]

LEMMA FillTables ==
  ASSUME TInv, FillMetadata
  PROVE  TInv' /\ FillsIn(request.hash, request.name.region)
<1> DEFINE h == request.hash
           region == request.name.region
<1>1. /\ objects' = Filled(h, region) /\ request.pc = "fill"
      /\ request' = [request EXCEPT !.pc = "insert"]
      /\ UNCHANGED <<session, nextSession, files, nextFile, ceph, parts, events>>
  BY DEF FillMetadata
<1>2. region \in {n.region : n \in Names}
  BY <1>1 DEF TInv, RequestOK
<1>3. objects \in Seq(ObjectRows) /\ DOMAIN objects = 1..Len(objects)
      /\ Len(objects) \in Nat
  BY DEF TInv, ObjectsOK
<1>4. objects' = [i \in 1..Len(objects) |->
         IF objects[i].hash = h THEN [objects[i] EXCEPT !.region = region] ELSE objects[i]]
  BY <1>1, <1>3 DEF Filled
<1>5. RequestOK'
  BY <1>1 DEF TInv, RequestOK
<1> HIDE DEF h, region
<1>6. ASSUME NEW i \in 1..Len(objects)
      PROVE  /\ objects'[i] \in ObjectRows
             /\ objects'[i].hash = objects[i].hash /\ objects'[i].at = objects[i].at
             /\ objects[i].hash # h => objects'[i] = objects[i]
  <2>1. objects[i] \in ObjectRows
    BY <1>3
  <2>2. objects'[i] = IF objects[i].hash = h
                      THEN [objects[i] EXCEPT !.region = region] ELSE objects[i]
    BY <1>4
  <2> QED BY <1>2, <2>1, <2>2 DEF ObjectRows
<1>7. objects' \in Seq(ObjectRows) /\ Len(objects') = Len(objects)
  BY <1>3, <1>4, <1>6
<1>8. ObjectsOK'
  BY <1>6, <1>7 DEF TInv, ObjectsOK, OneObject
<1>9. FilesOK' /\ SessionsOK'
  BY <1>1 DEF TInv, FilesOK, OneRow, SamePath, SessionsOK
<1>10. FillsIn(h, region)
  BY <1>6, <1>7 DEF FillsIn
<1> QED BY <1>5, <1>8, <1>9, <1>10 DEF TInv, h, region

LEMMA ResetTables ==
  ASSUME TInv, ResetRefused \/ Reset
  PROVE  TInv'
<1>1. request'.pc = "idle" /\ events' = events /\ ceph' = [h \in Hashes |-> "nothing"]
      /\ parts' \subseteq parts
      /\ nextSession' \in {1, nextSession} /\ nextFile' \in {1, nextFile}
      /\ \/ UNCHANGED <<session, objects, files>>
         \/ /\ session' = [h \in Hashes |-> NoSession]
            /\ objects' = <<>> /\ files' = <<>>
  BY DEF ResetRefused, Reset, StopServices, PurgeCeph, ClearTables, ResetCounters,
         Idle, KeysLeft, tables
<1>2. 1 \in 1..(MaxId + 1) /\ 1 \in 1..(MaxFile + 1)
  BY CatalogueAssumption
<1>3. SessionsOK'
  BY <1>1, <1>2 DEF TInv, SessionsOK
<1>4. RequestOK'
  BY <1>1 DEF RequestOK
<1>5. ObjectsOK'
  <2>1. CASE UNCHANGED objects
    BY <2>1 DEF TInv, ObjectsOK, OneObject
  <2>2. CASE objects' = <<>>
    BY <2>2 DEF ObjectsOK, OneObject
  <2> QED BY <1>1, <2>1, <2>2
<1>6. FilesOK'
  <2>1. nextFile' \in 1..(MaxFile + 1)
    BY <1>1, <1>2 DEF TInv, FilesOK
  <2>2. CASE UNCHANGED files
    BY <2>1, <2>2 DEF TInv, FilesOK, OneRow, SamePath
  <2>3. CASE files' = <<>>
    BY <2>1, <2>3 DEF FilesOK, OneRow
  <2> QED BY <1>1, <2>2, <2>3
<1> QED BY <1>3, <1>4, <1>5, <1>6 DEF TInv

\* A step that leaves the tables and the bookkeeping of uploads alone.
LEMMA TablesStay ==
  ASSUME TInv, UNCHANGED <<session, nextSession, objects, files, nextFile, parts, events>>,
         ceph' \in [Hashes -> {"nothing", "parts", "object"}], RequestOK'
  PROVE  TInv'
<1>1. ObjectsOK' /\ FilesOK'
  BY DEF TInv, ObjectsOK, OneObject, FilesOK, OneRow, SamePath
<1>2. SessionsOK'
  BY DEF TInv, SessionsOK
<1> QED BY <1>1, <1>2 DEF TInv

LEMMA TInvStep ==
  TInv /\ [MaintenanceNext]_maintenanceVars => TInv'
<1> SUFFICES ASSUME TInv, [MaintenanceNext]_maintenanceVars PROVE TInv'
  OBVIOUS
<1>1. CASE Consumer
  <2>1. PICK id \in events : HandleUploadComplete(id) \/ SkipUploadComplete(id)
    BY <1>1 DEF Consumer
  <2>2. CASE SkipUploadComplete(id)
    <3>1. /\ UNCHANGED <<session, nextSession, objects, files, nextFile, ceph, parts,
                         request>>
          /\ events' \subseteq events
      BY <2>2 DEF SkipUploadComplete, Consumed, tables
    <3> QED BY <3>1 DEF TInv, ObjectsOK, OneObject, FilesOK, OneRow, SamePath, SessionsOK,
            RequestOK
  <2> QED BY <2>1, <2>2, ConsumesIs, ConsumeTables
<1>2. ASSUME NEW u \in Users, NEW h \in Hashes, NEW n \in Names, AttachExisting(u, h, n)
      PROVE  TInv'
  <2>1. /\ UNCHANGED <<session, nextSession, objects, files, nextFile, ceph, parts, events>>
        /\ request'.user = u /\ request'.hash = h /\ request'.name = n
    BY <1>2 DEF AttachExisting, tables
  <2>2. RequestOK'
    BY <2>1 DEF RequestOK
  <2>3. ceph' \in [Hashes -> {"nothing", "parts", "object"}]
    BY <2>1 DEF TInv, SessionsOK
  <2> QED BY <2>1, <2>2, <2>3, TablesStay
<1>3. CASE InsertUserFile
  <2>1. /\ request'.pc = "answered" /\ request.pc = "insert"
        /\ UNCHANGED <<session, nextSession, objects, ceph, parts, events>>
    BY <1>3 DEF InsertUserFile, Instant
  <2>2. RequestOK'
    BY <2>1 DEF RequestOK
  <2>3. request.user \in Users /\ request.hash \in Hashes /\ request.name \in Names
    BY <2>1 DEF TInv, RequestOK
  <2>4. ASSUME NEW t \in Times, Attached(request.user, request.hash, request.name, t)
        PROVE  TInv'
    <3>1. FilesOK'
      BY <2>3, <2>4, AttachFile DEF TInv
    <3> QED BY <2>1, <2>2, <3>1 DEF TInv, ObjectsOK, OneObject, SessionsOK
  <2>5. CASE UNCHANGED <<files, nextFile>>
    <3>1. ceph' \in [Hashes -> {"nothing", "parts", "object"}]
      BY <2>1 DEF TInv, SessionsOK
    <3> QED BY <2>1, <2>2, <2>5, <3>1, TablesStay
  <2> QED BY <1>3, <2>4, <2>5 DEF InsertUserFile
<1>4. CASE Browse \/ UNCHANGED maintenanceVars
  <2>1. UNCHANGED <<session, nextSession, objects, files, nextFile, ceph, parts, events,
                    request>>
    BY <1>4 DEF Browse, Open, SelectFiles, NextPage, maintenanceVars, vars, tables
  <2>2. RequestOK' /\ ceph' \in [Hashes -> {"nothing", "parts", "object"}]
    BY <2>1 DEF TInv, RequestOK, SessionsOK
  <2> QED BY <2>1, <2>2, TablesStay
<1>5. ASSUME NEW h \in Hashes, Repair(h)
      PROVE  TInv'
  <2>1. /\ UNCHANGED <<session, nextSession, objects, files, nextFile, parts, events,
                       request>>
        /\ ceph' = [ceph EXCEPT ![h] = "object"]
    BY <1>5 DEF Repair, tables
  <2>2. RequestOK' /\ ceph' \in [Hashes -> {"nothing", "parts", "object"}]
    BY <2>1 DEF TInv, RequestOK, SessionsOK
  <2> QED BY <2>1, <2>2, TablesStay
<1>6. CASE Attach
  BY <1>2, <1>3, <1>6, FillTables DEF Attach
<1> QED BY <1>1, <1>4, <1>5, <1>6, UploadTables, ResetTables DEF MaintenanceNext, Serve

LEMMA TInvInit == MaintenanceInit => TInv
<1> SUFFICES ASSUME MaintenanceInit PROVE TInv
  OBVIOUS
<1> USE DEF MaintenanceInit, Init
<1>1. 1 \in 1..(MaxId + 1) /\ 1 \in 1..(MaxFile + 1)
  BY CatalogueAssumption
<1>2. ObjectsOK /\ FilesOK
  BY <1>1 DEF ObjectsOK, OneObject, FilesOK, OneRow
<1>3. SessionsOK /\ RequestOK
  BY <1>1 DEF SessionsOK, RequestOK, Idle
<1> QED BY <1>2, <1>3 DEF TInv

\* Every row is of its kind, no hash has two objects and no user a file twice:
\* for any names and unique keys, failures, deliveries and resets.
THEOREM TypeCorrect == MaintenanceSpec => []TypeOK
<1>1. MaintenanceInit => TInv
  BY TInvInit
<1>2. TInv /\ [MaintenanceNext]_maintenanceVars => TInv'
  BY TInvStep
<1> QED BY <1>1, <1>2, TablesTyped, PTL DEF MaintenanceSpec

-----------------------------------------------------------------------------
(* Paging through a list that others insert into.                          *)

\* How many places the pages that were shown have gone past.
Seen == (IF view.pc = "rows" THEN view.page - 1 ELSE view.page) * PageSize

\* What is still to be seen is on a page that is still to come, or ties.
Ahead(i) == i \in Listed /\ (Tied(i) # {i} \/ Seen <= Cardinality(Newer(i)))

AllAhead ==
  view.pc \in {"rows", "shown"} =>
    /\ DOMAIN view = {"pc", "scope", "region", "page", "total", "unseen"}
    /\ view.page \in Nat \ {0}
    /\ \A i \in view.unseen : Ahead(i)

\* Metadata is filled in where there is none, so nothing leaves a filtered list.
FillsNothing == request.pc = "fill" => ObjectOf(request.hash).region = NoRegion

PagesInv == TInv /\ OwnerInv /\ FillsNothing /\ AllAhead

\* What the tables list, by the indexes of a table.
LEMMA ListedIs ==
  ASSUME TInv
  PROVE  /\ Listed \subseteq 1..Len(Table(view.scope))
         /\ Len(Table(view.scope)) \in Nat
         /\ IsFiniteSet(Listed)
         /\ \A i \in Listed : Table(view.scope)[i].at \in Int
<1>1. /\ Listed \subseteq 1..Len(Table(view.scope))
      /\ Len(Table(view.scope)) \in Nat
  BY DEF TInv, ObjectsOK, FilesOK, Listed, Listing, TeamFiles, OwnFiles, Table
<1>2. IsFiniteSet(Listed)
  <2>1. IsFiniteSet(1..Len(Table(view.scope)))
    BY <1>1, FS_Interval
  <2> QED BY <1>1, <2>1, FS_Subset
<1>3. ASSUME NEW i \in 1..Len(Table(view.scope))
      PROVE  Table(view.scope)[i].at \in Int
  <2>1. Table(view.scope)[i] \in ObjectRows \union FileRows
    BY DEF TInv, ObjectsOK, FilesOK, Table
  <2> QED BY <2>1, CatalogueAssumption DEF ObjectRows, FileRows
<1> QED BY <1>1, <1>2, <1>3

\* A row that ties with no other is on the page that its place is on.
LEMMA AloneIs ==
  ASSUME TInv, NEW i \in Listed, Tied(i) = {i}, NEW rows \in Pages
  PROVE  LET n == Cardinality(Newer(i)) IN
         /\ n \in Nat /\ n + 1 <= Cardinality(Listed) /\ Cardinality(Listed) \in Nat
         /\ i \in rows <=> n + 1 \in Offset + 1 .. Offset + PageSize
<1> DEFINE N == Newer(i)
           n == Cardinality(N)
           W == Offset + 1 .. Offset + PageSize
<1>1. IsFiniteSet(Listed) /\ Table(view.scope)[i].at \in Int
  BY ListedIs
<1>2. N \in SUBSET Listed /\ i \notin N
  BY <1>1 DEF Newer
<1>3. IsFiniteSet(N) /\ n \in Nat
  BY <1>1, <1>2, FS_Subset, FS_CardinalityType
<1>4. Cardinality(N \union {i}) = n + 1
  BY <1>2, <1>3, FS_AddElement
<1>5. n + 1 <= Cardinality(Listed) /\ Cardinality(Listed) \in Nat
  <2>1. N \union {i} \in SUBSET Listed
    BY <1>2
  <2> QED BY <1>1, <1>4, <2>1, FS_Subset, FS_CardinalityType
<1>6. Cardinality({i}) = 1
  BY FS_Singleton
<1>7. Places(i) = {n + 1}
  BY <1>3, <1>6 DEF Places
<1>8. Cardinality(rows \intersect {i}) = Cardinality({n + 1} \intersect W)
  BY <1>7 DEF Pages
<1>9. Cardinality({n + 1}) = 1 /\ Cardinality({}) = 0
  BY FS_Singleton, FS_EmptySet
<1> HIDE DEF N, n, W
<1>10. CASE i \in rows
  <2>1. rows \intersect {i} = {i}
    BY <1>10
  <2>2. {n + 1} \intersect W # {}
    BY <1>6, <1>8, <1>9, <2>1
  <2> QED BY <1>3, <1>5, <1>10, <2>2 DEF N, n, W
<1>11. CASE i \notin rows
  <2>1. rows \intersect {i} = {}
    BY <1>11
  <2>2. {n + 1} \intersect W # {n + 1}
    BY <1>8, <1>9, <2>1
  <2> QED BY <1>3, <1>5, <1>11, <2>2 DEF N, n, W
<1> QED BY <1>10, <1>11

\* The object of a hash, in a table that has one.
Object(s, h) == CHOOSE o \in ToSet(s) : o.hash = h

LEMMA ObjectIs ==
  ASSUME NEW S, NEW s \in Seq(S),
         \A i, j \in 1..Len(s) : s[i].hash = s[j].hash => i = j,
         NEW i \in 1..Len(s)
  PROVE  Object(s, s[i].hash) = s[i]
<1>1. ToSet(s) = {s[j] : j \in 1..Len(s)}
  BY DEF ToSet
<1>2. s[i] \in ToSet(s)
  BY <1>1
<1>3. \A o \in ToSet(s) : o.hash = s[i].hash => o = s[i]
  BY <1>1
<1> QED BY <1>2, <1>3 DEF Object

\* The rows of a table go on where they are.
Grows(s, t) ==
  /\ Len(s) <= Len(t)
  /\ \A i \in 1..Len(s) : t[i].hash = s[i].hash /\ t[i].at = s[i].at

\* So they do when one is appended.
LEMMA Appends ==
  ASSUME TInv, Grown
  PROVE  /\ Grows(objects, objects') /\ \A i \in 1..Len(objects) : objects'[i] = objects[i]
         /\ Grows(files, files') /\ \A i \in 1..Len(files) : files'[i] = files[i]
<1>1. /\ objects \in Seq(ObjectRows) /\ Len(objects) \in Nat
      /\ files \in Seq(FileRows) /\ Len(files) \in Nat
  BY DEF TInv, ObjectsOK, FilesOK
<1>2. ASSUME NEW S, NEW s \in Seq(S), NEW x
      PROVE  /\ Len(Append(s, x)) = Len(s) + 1
             /\ \A i \in 1..Len(s) : Append(s, x)[i] = s[i]
  <2>1. s \in Seq(S \union {x}) /\ x \in S \union {x}
    OBVIOUS
  <2> QED BY <2>1, AppendedIs
<1>3. /\ Len(objects) <= Len(objects')
      /\ \A i \in 1..Len(objects) : objects'[i] = objects[i]
  BY <1>1, <1>2 DEF Grown
<1>4. /\ Len(files) <= Len(files')
      /\ \A i \in 1..Len(files) : files'[i] = files[i]
  BY <1>1, <1>2 DEF Grown
<1> QED BY <1>3, <1>4 DEF Grows

\* No step changes the object of a hash by inserting another's.
LEMMA ObjectsStay ==
  ASSUME TInv, ObjectsOK', Grows(objects, objects'),
         \A i \in 1..Len(objects) : objects'[i] = objects[i]
  PROVE  \A h : Catalogued(h) => Object(objects', h) = Object(objects, h)
<1> SUFFICES ASSUME NEW h, Catalogued(h) PROVE Object(objects', h) = Object(objects, h)
  OBVIOUS
<1> DEFINE t == objects'
<1>1. /\ objects \in Seq(ObjectRows) /\ t \in Seq(ObjectRows)
      /\ DOMAIN objects = 1..Len(objects)
  BY DEF TInv, ObjectsOK
<1>2. PICK i \in 1..Len(objects) : objects[i].hash = h
  BY <1>1 DEF Catalogued, ToSet
<1>3. Object(objects, h) = objects[i]
  BY <1>1, <1>2, ObjectIs DEF TInv, ObjectsOK, OneObject
<1>4. \A e, g \in 1..Len(t) : t[e].hash = t[g].hash => e = g
  BY DEF ObjectsOK, OneObject
<1>5. i \in 1..Len(t) /\ t[i] = objects[i]
  <2>1. Len(objects) \in Nat /\ Len(t) \in Nat /\ Len(objects) <= Len(t)
    BY <1>1 DEF Grows
  <2> QED BY <2>1
<1> HIDE DEF t
<1>6. Object(t, h) = objects[i]
  BY <1>1, <1>2, <1>4, <1>5, ObjectIs
<1> QED BY <1>3, <1>6 DEF t

\* A region that is known stays.
RegionsStay ==
  \A h : Catalogued(h) /\ Object(objects, h).region # NoRegion =>
    Object(objects', h).region = Object(objects, h).region

LEMMA FillShows ==
  ASSUME PagesInv, request.pc = "fill", ObjectsOK',
         NEW region, FillsIn(request.hash, region)
  PROVE  RegionsStay
<1> SUFFICES ASSUME NEW h, Catalogued(h), Object(objects, h).region # NoRegion
             PROVE  Object(objects', h) = Object(objects, h)
  BY DEF RegionsStay
<1>1. h # request.hash
  BY DEF PagesInv, FillsNothing, ObjectOf, Object
<1>2. /\ objects \in Seq(ObjectRows) /\ objects' \in Seq(ObjectRows)
      /\ Len(objects) \in Nat /\ DOMAIN objects = 1..Len(objects)
  BY DEF PagesInv, TInv, ObjectsOK
<1>3. PICK i \in 1..Len(objects) : objects[i].hash = h
  BY <1>2 DEF Catalogued, ToSet
<1>4. Object(objects, h) = objects[i]
  BY <1>2, <1>3, ObjectIs DEF PagesInv, TInv, ObjectsOK, OneObject
<1>5. objects'[i] = objects[i] /\ Len(objects') = Len(objects)
  BY <1>1, <1>3 DEF FillsIn
<1> DEFINE t == objects'
<1>6. t \in Seq(ObjectRows) /\ i \in 1..Len(t) /\ t[i] = objects[i]
  BY <1>2, <1>5
<1>7. \A e, g \in 1..Len(t) : t[e].hash = t[g].hash => e = g
  BY DEF ObjectsOK, OneObject
<1> HIDE DEF t
<1>8. Object(t, h) = objects[i]
  BY <1>3, <1>6, <1>7, ObjectIs
<1> QED BY <1>4, <1>8 DEF t

\* A listing of the tables s and fs.
Lists(scope, region, s, fs) ==
  {i \in DOMAIN (IF scope = Team THEN s ELSE fs) :
     LET h == (IF scope = Team THEN s ELSE fs)[i].hash IN
     /\ IF scope = Team THEN \E f \in ToSet(fs) : f.hash = h ELSE fs[i].user = scope
     /\ region = NoRegion \/ Object(s, h).region = region}

LEMMA ListedAre ==
  /\ Listed = Lists(view.scope, view.region, objects, files)
  /\ Listed' = Lists(view'.scope, view'.region, objects', files')
BY DEF Listed, Listing, TeamFiles, OwnFiles, Shows, Refs, ObjectOf, Object, Lists

\* What is listed stays listed, whatever is inserted or filled in.
LEMMA ListsGrow ==
  ASSUME PagesInv, TInv', RegionsStay, NEW scope, NEW region,
         Grows(objects, objects'), Grows(files, files'),
         \A i \in 1..Len(files) : files'[i] = files[i],
         NEW i \in Lists(scope, region, objects, files)
  PROVE  i \in Lists(scope, region, objects', files')
<1>1. /\ DOMAIN objects = 1..Len(objects) /\ DOMAIN objects' = 1..Len(objects')
      /\ DOMAIN files = 1..Len(files) /\ DOMAIN files' = 1..Len(files')
      /\ 1..Len(objects) \subseteq 1..Len(objects')
      /\ 1..Len(files) \subseteq 1..Len(files')
  <2>1. /\ DOMAIN objects = 1..Len(objects) /\ DOMAIN objects' = 1..Len(objects')
        /\ DOMAIN files = 1..Len(files) /\ DOMAIN files' = 1..Len(files')
        /\ Len(objects) \in Nat /\ Len(objects') \in Nat
        /\ Len(files) \in Nat /\ Len(files') \in Nat
    BY DEF PagesInv, TInv, ObjectsOK, FilesOK
  <2>2. Len(objects) <= Len(objects') /\ Len(files) <= Len(files')
    BY DEF Grows
  <2> QED BY <2>1, <2>2
<1>2. /\ \A j \in 1..Len(objects) : Catalogued(objects[j].hash)
      /\ \A j \in 1..Len(files) : Catalogued(files[j].hash)
  <2>1. \A j \in 1..Len(files) : files[j] \in ToSet(files)
    BY <1>1 DEF ToSet
  <2>2. \A j \in 1..Len(objects) : objects[j] \in ToSet(objects)
    BY <1>1 DEF ToSet
  <2> QED BY <2>1, <2>2 DEF PagesInv, OwnerInv, ListedLate, Catalogued
<1>3. ToSet(files) \subseteq ToSet(files')
  BY <1>1 DEF ToSet
<1>4. CASE scope = Team
  <2>1. PICK h : h = objects[i].hash
    OBVIOUS
  <2>2. /\ i \in 1..Len(objects) /\ \E f \in ToSet(files) : f.hash = h
        /\ region = NoRegion \/ Object(objects, h).region = region
    BY <1>1, <1>4, <2>1 DEF Lists
  <2>3. i \in 1..Len(objects') /\ objects'[i].hash = h
    BY <1>1, <2>1, <2>2 DEF Grows
  <2>4. region = NoRegion \/ Object(objects', h).region = region
    BY <1>2, <2>1, <2>2 DEF RegionsStay
  <2> QED BY <1>1, <1>3, <1>4, <2>2, <2>3, <2>4 DEF Lists
<1>5. CASE scope # Team
  <2>1. PICK h : h = files[i].hash
    OBVIOUS
  <2>2. /\ i \in 1..Len(files) /\ files[i].user = scope
        /\ region = NoRegion \/ Object(objects, h).region = region
    BY <1>1, <1>5, <2>1 DEF Lists
  <2>3. i \in 1..Len(files') /\ files'[i].hash = h /\ files'[i].user = scope
    BY <1>1, <2>1, <2>2
  <2>4. region = NoRegion \/ Object(objects', h).region = region
    BY <1>2, <2>1, <2>2 DEF RegionsStay
  <2> QED BY <1>1, <1>5, <2>2, <2>3, <2>4 DEF Lists
<1> QED BY <1>4, <1>5

\* So what is ahead of a reader stays ahead.
LEMMA AheadStays ==
  ASSUME PagesInv, UNCHANGED view, TInv', RegionsStay,
         Grows(objects, objects'), Grows(files, files'),
         \A i \in 1..Len(files) : files'[i] = files[i]
  PROVE  AllAhead'
<1>1. Listed \subseteq Listed'
  BY ListedAre, ListsGrow
<1>2. /\ Listed \subseteq 1..Len(Table(view.scope)) /\ IsFiniteSet(Listed')
  <2>1. Listed \subseteq 1..Len(Table(view.scope))
    BY ListedIs DEF PagesInv
  <2>2. Listed' \subseteq DOMAIN Table(view.scope)'
    BY DEF Listed, Listing, TeamFiles, OwnFiles, Table
  <2>3. /\ Len(objects') \in Nat /\ DOMAIN objects' = 1..Len(objects')
        /\ Len(files') \in Nat /\ DOMAIN files' = 1..Len(files')
    BY DEF TInv, ObjectsOK, FilesOK
  <2>4. Table(view.scope)' = objects' \/ Table(view.scope)' = files'
    BY DEF Table
  <2>5. \E m \in Nat : Listed' \subseteq 1..m
    BY <2>2, <2>3, <2>4
  <2>6. PICK m \in Nat : Listed' \subseteq 1..m
    BY <2>5
  <2>7. IsFiniteSet(1..m)
    BY FS_Interval
  <2> QED BY <2>1, <2>6, <2>7, FS_Subset
<1>3. \A i \in Listed : Table(view.scope)'[i].at = Table(view.scope)[i].at
  <2>1. CASE view.scope = Team
    <3>1. Table(view.scope) = objects /\ Table(view.scope)' = objects'
      BY <2>1 DEF Table
    <3> QED BY <1>2, <3>1 DEF Grows
  <2>2. CASE view.scope # Team
    <3>1. Table(view.scope) = files /\ Table(view.scope)' = files'
      BY <2>2 DEF Table
    <3> QED BY <1>2, <3>1 DEF Grows
  <2> QED BY <2>1, <2>2
<1>4. Seen' = Seen
  BY DEF Seen
<1>5. AllAhead
  BY DEF PagesInv
<1>6. ASSUME NEW i, Ahead(i), view.page \in Nat \ {0}
      PROVE  Ahead(i)'
  <2>1. i \in Listed /\ i \in Listed' /\ (Tied(i) # {i} \/ Seen <= Cardinality(Newer(i)))
    BY <1>1, <1>6 DEF Ahead
  <2>2. Tied(i) \subseteq Tied(i)' /\ i \in Tied(i)
    BY <1>1, <1>3, <2>1 DEF Tied
  <2>3. Newer(i) \subseteq Newer(i)' /\ Newer(i)' \subseteq Listed'
    BY <1>1, <1>3, <2>1 DEF Newer
  <2> DEFINE n == Cardinality(Newer(i))
             m == Cardinality(Newer(i)')
             e == Seen
  <2>4. n \in Nat /\ m \in Nat /\ n <= m
    <3>1. IsFiniteSet(Newer(i)')
      BY <1>2, <2>3, FS_Subset
    <3> QED BY <2>3, <3>1, FS_Subset, FS_CardinalityType
  <2>5. e \in Int
    BY <1>6, CatalogueAssumption DEF Seen
  <2> HIDE DEF n, m, e
  <2>6. e <= n => e <= m
    BY <2>4, <2>5
  <2>7. Seen <= Cardinality(Newer(i)) => Seen' <= Cardinality(Newer(i)')
    BY <1>4, <2>6 DEF n, m, e
  <2>8. Tied(i) # {i} => Tied(i)' # {i}
    BY <2>2
  <2> QED BY <2>1, <2>7, <2>8 DEF Ahead
<1> QED BY <1>5, <1>6 DEF AllAhead

\* A reader sets out to see what is listed then.
LEMMA OpenPages ==
  ASSUME TInv, TInv', NEW scope, NEW region, Open(scope, region)
  PROVE  AllAhead'
<1> DEFINE L == Listing(scope, region)
<1>1. /\ view' = [pc |-> "rows", scope |-> scope, region |-> region, page |-> 1,
                  total |-> Cardinality(L), unseen |-> L]
      /\ UNCHANGED <<objects, files>>
  BY DEF Open, tables
<1>2. Listed' = L
  BY <1>1 DEF Listed, Listing, TeamFiles, OwnFiles, Shows, Refs, ObjectOf
<1>3. Seen' = 0
  BY <1>1, CatalogueAssumption DEF Seen
<1>4. IsFiniteSet(L)
  <2>1. L \subseteq 1..Len(Table(scope)) /\ Len(Table(scope)) \in Nat
    BY DEF TInv, ObjectsOK, FilesOK, Listing, TeamFiles, OwnFiles, Table
  <2>2. IsFiniteSet(1..Len(Table(scope)))
    BY <2>1, FS_Interval
  <2> QED BY <2>1, <2>2, FS_Subset
<1> HIDE DEF L
<1>5. ASSUME NEW i \in L
      PROVE  Ahead(i)'
  <2>1. Newer(i)' \subseteq L
    BY <1>2 DEF Newer
  <2>2. Cardinality(Newer(i)') \in Nat
    BY <1>4, <2>1, FS_Subset, FS_CardinalityType
  <2>3. Cardinality(Newer(i))' \in Nat
    BY <2>2
  <2> QED BY <1>2, <1>3, <2>3 DEF Ahead
<1>6. /\ DOMAIN view' = {"pc", "scope", "region", "page", "total", "unseen"}
      /\ view'.page \in Nat \ {0} /\ view'.unseen = L
  BY <1>1
<1> QED BY <1>5, <1>6 DEF AllAhead

\* A step that leaves the tables and the list that is read.
LEMMA AheadKept ==
  ASSUME UNCHANGED <<objects, files>>, view'.scope = view.scope,
         view'.region = view.region, NEW i
  PROVE  /\ Listed' = Listed /\ Tied(i)' = Tied(i)
         /\ Cardinality(Newer(i))' = Cardinality(Newer(i))
<1>1. Listed' = Listed /\ Table(view.scope)' = Table(view.scope)
  BY DEF Listed, Listing, TeamFiles, OwnFiles, Shows, Refs, ObjectOf, Table
<1> QED BY <1>1 DEF Newer, Tied

\* A page shows the rows that come next, and goes past no other that is alone.
LEMMA SelectPages ==
  ASSUME TInv, AllAhead, SelectFiles
  PROVE  AllAhead'
<1>1. CASE LastPage
  BY <1>1 DEF SelectFiles, Closed, AllAhead
<1>2. CASE ~LastPage
  <2>1. PICK rows \in Pages :
          view' = [view EXCEPT !.pc = "shown", !.unseen = @ \ rows]
    BY <1>2 DEF SelectFiles
  <2>2. view.pc = "rows" /\ UNCHANGED <<objects, files>>
    BY DEF SelectFiles, tables
  <2>3. /\ DOMAIN view = {"pc", "scope", "region", "page", "total", "unseen"}
        /\ view.page \in Nat \ {0} /\ \A i \in view.unseen : Ahead(i)
    BY <2>2 DEF AllAhead
  <2>4. /\ DOMAIN view' = DOMAIN view /\ view'.pc = "shown"
        /\ view'.page = view.page /\ view'.scope = view.scope
        /\ view'.region = view.region /\ view'.unseen = view.unseen \ rows
    BY <2>1, <2>3
  <2>5. /\ Seen = Offset /\ Seen \in Int
        /\ Seen' = Seen + PageSize /\ PageSize \in Nat
    <3> DEFINE a == view.page
    <3>1. Seen = (a - 1) * PageSize /\ Offset = (a - 1) * PageSize
      BY <2>2 DEF Seen, Offset
    <3>2. Seen' = a * PageSize
      BY <2>4 DEF Seen
    <3>3. a \in Nat \ {0} /\ PageSize \in Nat
      BY <2>3, CatalogueAssumption
    <3> HIDE DEF a
    <3> QED BY <3>1, <3>2, <3>3
  <2>6. ASSUME NEW i \in view.unseen, i \notin rows
        PROVE  Ahead(i)'
    <3>1. i \in Listed /\ (Tied(i) # {i} \/ Seen <= Cardinality(Newer(i)))
      BY <2>3 DEF Ahead
    <3>2. ASSUME Tied(i) = {i}
          PROVE  Seen + PageSize <= Cardinality(Newer(i))
      <4> DEFINE n == Cardinality(Newer(i))
      <4>1. n \in Nat /\ ~ (n + 1 \in Offset + 1 .. Offset + PageSize)
        BY <2>6, <3>1, <3>2, AloneIs
      <4>2. Seen <= n
        BY <3>1, <3>2
      <4> HIDE DEF n
      <4>3. Seen + PageSize <= n
        BY <2>5, <4>1, <4>2
      <4> QED BY <4>3 DEF n
    <3>3. /\ Listed' = Listed /\ Tied(i)' = Tied(i)
          /\ Cardinality(Newer(i))' = Cardinality(Newer(i))
      BY <2>2, <2>4, AheadKept
    <3> QED BY <2>5, <3>1, <3>2, <3>3 DEF Ahead
  <2> QED BY <2>3, <2>4, <2>6 DEF AllAhead
<1> QED BY <1>1, <1>2

LEMMA NextPages ==
  ASSUME AllAhead, NextPage
  PROVE  AllAhead'
<1>1. /\ view.pc = "shown" /\ UNCHANGED <<objects, files>>
      /\ view' = [view EXCEPT !.pc = "rows", !.page = @ + 1, !.total = Cardinality(Listed)]
  BY DEF NextPage, tables
<1>2. /\ DOMAIN view = {"pc", "scope", "region", "page", "total", "unseen"}
      /\ view.page \in Nat \ {0} /\ \A i \in view.unseen : Ahead(i)
  BY <1>1 DEF AllAhead
<1>3. /\ DOMAIN view' = DOMAIN view /\ view'.pc = "rows"
      /\ view'.page = view.page + 1 /\ view'.scope = view.scope
      /\ view'.region = view.region /\ view'.unseen = view.unseen
  BY <1>1, <1>2
<1>4. Seen' = Seen
  BY <1>1, <1>2, <1>3 DEF Seen
<1>5. \A i \in view.unseen : Ahead(i)'
  BY <1>1, <1>2, <1>3, <1>4, AheadKept DEF Ahead
<1> QED BY <1>2, <1>3, <1>5 DEF AllAhead

\* Steps that leave the lists alone, or close the page.
LEMMA PagesStay ==
  ASSUME PagesInv, UNCHANGED <<objects, files, view>> \/ view'.pc = "closed"
  PROVE  AllAhead'
<1>1. CASE view'.pc = "closed"
  BY <1>1 DEF AllAhead
<1>2. CASE UNCHANGED <<objects, files, view>>
  <2>1. Seen' = Seen
    BY <1>2 DEF Seen
  <2>2. \A i : Ahead(i) => Ahead(i)'
    BY <1>2, <2>1, AheadKept DEF Ahead
  <2> QED BY <1>2, <2>2 DEF PagesInv, AllAhead
<1> QED BY <1>1, <1>2

\* Rows that are inserted, into either table or both.
LEMMA InsertPages ==
  ASSUME PagesInv, TInv', UNCHANGED view, Grown
  PROVE  AllAhead'
<1>1. /\ Grows(objects, objects') /\ \A i \in 1..Len(objects) : objects'[i] = objects[i]
      /\ Grows(files, files') /\ \A i \in 1..Len(files) : files'[i] = files[i]
  BY Appends DEF PagesInv
<1>2. RegionsStay
  BY <1>1, ObjectsStay DEF PagesInv, TInv, RegionsStay
<1> QED BY <1>1, <1>2, AheadStays

\* Metadata that is filled in.
LEMMA FillPages ==
  ASSUME PagesInv, FillMetadata
  PROVE  AllAhead'
<1>1. /\ TInv' /\ FillsIn(request.hash, request.name.region)
      /\ UNCHANGED <<files, view>> /\ request.pc = "fill"
  BY FillTables DEF FillMetadata, PagesInv
<1>2. RegionsStay
  BY <1>1, FillShows DEF TInv
<1>3. Len(objects) \in Nat /\ Len(files) \in Nat
  BY DEF PagesInv, TInv, ObjectsOK, FilesOK
<1>4. Grows(objects, objects') /\ Grows(files, files')
  BY <1>1, <1>3 DEF FillsIn, Grows
<1> QED BY <1>1, <1>2, <1>4, AheadStays

\* A request that is to fill metadata in still finds none there.
LEMMA FillsStay ==
  ASSUME PagesInv, TInv',
         request'.pc # "fill" \/ (UNCHANGED request /\ Grown)
  PROVE  FillsNothing'
<1> SUFFICES ASSUME request'.pc = "fill" PROVE FillsNothing'
  BY DEF FillsNothing
<1>1. Catalogued(request.hash) /\ Object(objects, request.hash).region = NoRegion
  BY DEF PagesInv, OwnerInv, ListedLate, FillsNothing, ObjectOf, Object
<1>2. PICK h : h = request.hash
  OBVIOUS
<1>3. Object(objects', h) = Object(objects, h)
  BY <1>1, <1>2, Appends, ObjectsStay DEF PagesInv, TInv
<1>4. ObjectOf(request.hash)' = Object(objects', request'.hash)
  BY DEF ObjectOf, Object
<1>5. Object(objects', request'.hash).region = NoRegion
  BY <1>1, <1>2, <1>3
<1> QED BY <1>4, <1>5 DEF FillsNothing

LEMMA PagesStep ==
  PagesInv /\ [MaintenanceNext]_maintenanceVars => PagesInv'
<1> SUFFICES ASSUME PagesInv, [MaintenanceNext]_maintenanceVars
             PROVE  FillsNothing' /\ AllAhead'
  BY TInvStep, OwnerStep DEF PagesInv
<1>1. TInv /\ TInv'
  BY TInvStep DEF PagesInv
<1>2. ASSUME NEW id \in events, HandleUploadComplete(id)
      PROVE  FillsNothing' /\ AllAhead'
  <2>1. PICK h \in Hashes, t \in Times : Consumes(h, t)
    BY <1>1, <1>2, ConsumesIs
  <2>2. UNCHANGED <<request, view>>
    BY <2>1 DEF Consumes
  <2>3. Grown
    BY <1>1, <2>1, ConsumeTables
  <2> QED BY <1>1, <2>2, <2>3, FillsStay, InsertPages
<1>3. ASSUME NEW u \in Users, NEW h \in Hashes, NEW n \in Names, AttachExisting(u, h, n)
      PROVE  FillsNothing' /\ AllAhead'
  <2>1. UNCHANGED <<objects, files, view>>
    BY <1>3 DEF AttachExisting, tables
  <2>2. FillsNothing'
    <3>1. request'.hash = h /\ (request'.pc = "fill" => ObjectOf(h).region = NoRegion)
      BY <1>3 DEF AttachExisting
    <3> QED BY <2>1, <3>1 DEF FillsNothing, ObjectOf
  <2> QED BY <2>1, <2>2, PagesStay
<1>4. CASE FillMetadata
  <2>1. request'.pc # "fill"
    BY <1>4 DEF FillMetadata
  <2> QED BY <1>4, <2>1, FillPages DEF FillsNothing
<1>5. CASE InsertUserFile
  <2>1. /\ request'.pc = "answered" /\ request.pc = "insert"
        /\ UNCHANGED <<objects, view>>
    BY <1>5 DEF InsertUserFile, Instant
  <2>2. request.user \in Users /\ request.hash \in Hashes /\ request.name \in Names
    BY <1>1, <2>1 DEF TInv, RequestOK
  <2>3. UNCHANGED files \/ \E x \in FileRows : files' = Append(files, x)
    BY <1>1, <1>5, <2>2, AttachFile DEF InsertUserFile, TInv
  <2> QED BY <1>1, <2>1, <2>3, InsertPages DEF FillsNothing, Grown
<1>6. CASE Attach
  BY <1>3, <1>4, <1>5, <1>6 DEF Attach
<1>7. CASE \/ Upload \/ UNCHANGED maintenanceVars \/ \E h \in Hashes : Repair(h)
           \/ \E id \in events : SkipUploadComplete(id)
  <2>1. UNCHANGED <<objects, files, request, view>>
    BY <1>7 DEF Upload, BeginUpload, TakeOver, UploadPart, SetStatus, CompleteUpload,
         CancelUpload, SkipUploadComplete, Repair, maintenanceVars, vars, tables
  <2> QED BY <1>1, <2>1, FillsStay, PagesStay DEF Grown
<1>8. CASE Browse
  <2>1. UNCHANGED <<objects, files, request>>
    BY <1>8 DEF Browse, Open, SelectFiles, NextPage, tables
  <2>2. AllAhead'
    BY <1>1, <1>8, OpenPages, SelectPages, NextPages DEF Browse, PagesInv
  <2> QED BY <1>1, <2>1, <2>2, FillsStay DEF Grown
<1>9. CASE ResetRefused \/ Reset
  <2>1. request'.pc = "idle" /\ view'.pc = "closed"
    BY <1>9 DEF ResetRefused, Reset, StopServices, Idle, Closed
  <2> QED BY <2>1, PagesStay DEF FillsNothing
<1> QED BY <1>2, <1>6, <1>7, <1>8, <1>9 DEF MaintenanceNext, Serve, Consumer

\* On the last page everything that is still to be seen is shown, or ties.
LEMMA LastShowsAll == PagesInv => NothingSkipped
<1> SUFFICES ASSUME PagesInv, view.pc = "rows", LastPage,
                    view.total = Cardinality(Listed),
                    NEW rows \in Pages, NEW i \in view.unseen, Tied(i) = {i}
             PROVE  i \in rows
  BY DEF NothingSkipped
<1> DEFINE n == Cardinality(Newer(i))
           a == view.page
           m == Cardinality(Listed)
<1>1. a \in Nat \ {0} /\ i \in Listed /\ (a - 1) * PageSize <= n
  BY DEF PagesInv, AllAhead, Ahead, Seen
<1>2. /\ n \in Nat /\ n + 1 <= m /\ m \in Nat
      /\ i \in rows <=> n + 1 \in Offset + 1 .. Offset + PageSize
  BY <1>1, AloneIs DEF PagesInv
<1>3. a * PageSize >= m
  BY DEF LastPage
<1>4. Offset = (a - 1) * PageSize /\ PageSize \in Nat
  BY CatalogueAssumption DEF Offset
<1> HIDE DEF n, a, m
<1>5. n + 1 \in Offset + 1 .. Offset + PageSize
  BY <1>1, <1>2, <1>3, <1>4
<1> QED BY <1>2, <1>5

LEMMA PagesInit == MaintenanceInit => PagesInv
<1> SUFFICES ASSUME MaintenanceInit PROVE FillsNothing /\ AllAhead
  BY TInvInit, OwnerInit DEF PagesInv
<1> QED BY DEF MaintenanceInit, Init, Idle, Closed, FillsNothing, AllAhead

\* Whoever pages through a list to its end, whose total is then that of the
\* list, has seen every file that was there at first and shares its created_at
\* with no other in the list: for any page size and number of pages, whatever
\* rows are inserted, stamped, attached and classified between the pages or
\* inside one, and however MySQL orders the rows that tie.
THEOREM NothingSkippedAlways == MaintenanceSpec => []NothingSkipped
<1>1. MaintenanceInit => PagesInv
  BY PagesInit
<1>2. PagesInv /\ [MaintenanceNext]_maintenanceVars => PagesInv'
  BY PagesStep
<1> QED BY <1>1, <1>2, LastShowsAll, PTL DEF MaintenanceSpec
=============================================================================

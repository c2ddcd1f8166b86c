----------------------------- MODULE Catalogue -----------------------------
(***************************************************************************)
(* The catalogue of the file service: file_object and user_file, what adds *)
(* to them (the consumer of FILE_UPLOAD_COMPLETE, attachExisting), and one *)
(* browser that pages through ListFiles meanwhile.                         *)
(*                                                                         *)
(* Uploads, call by call in UploadSession, are here one step per request,  *)
(* for several hashes at once.  A name stands for a folder and a file name *)
(* with what the program sees in it: key, the 191 characters of each that  *)
(* uk_user_file_path holds, and region, its scientific metadata.  A table  *)
(* is the sequence of its rows as they were inserted; at is their          *)
(* created_at.  The service stamps a row before it inserts it, so at need  *)
(* not grow, and two rows may have the same.                               *)
(***************************************************************************)
EXTENDS Integers, FiniteSets, SequencesExt

CONSTANTS
  Users, Team,   \* whose files a page lists: a user's, or everybody's
  Hashes,
  Names,         \* records [key, region, text]
  UploadNames,   \* the names that uploads are begun with (a bound)
  Times,         \* the values of created_at (a bound)
  NoRegion,      \* the region of a name that is not scientific
  PageSize,
  MaxId, MaxFile,   \* the ids upload_session and user_file hand out (bounds)
  Faults         \* what may go wrong in this instance:
                 \*   insert       attachExisting's insert fails, which it drops
                 \*   redelivered  RocketMQ delivers an event it delivered before
                 \*   stopped      a reset stops between MySQL and Redis

ASSUME CatalogueAssumption ==
  /\ Team \notin Users
  /\ PageSize \in Nat \ {0} /\ MaxId \in Nat \ {0} /\ MaxFile \in Nat \ {0}
  /\ UploadNames \subseteq Names /\ Times \subseteq Int
  /\ \A n \in Names : {"key", "region", "text"} \subseteq DOMAIN n
  /\ Faults \subseteq {"insert", "redelivered", "stopped"}

VARIABLES
  session,    \* MySQL upload_session: one row for a hash at most
  nextSession,
  objects,    \* MySQL file_object
  files,      \* MySQL user_file
  nextFile,
  ceph,       \* what Ceph has of a hash: nothing, parts or the object
  parts,      \* Redis upload_parts: the id of the key, the hash of its parts
  events,     \* FILE_UPLOAD_COMPLETE of the ids
  request,    \* an attachExisting in flight
  view        \* FilesView in a browser

tables  == <<session, nextSession, objects, files, nextFile>>
vars    == <<tables, ceph, parts, events, request, view>>

NoSession == [status |-> "NONE"]
Statuses  == {"INIT", "UPLOADING", "PAUSED", "CANCELLED", "FAILED",
              "FINALIZING", "COMPLETE"}
Sessions  == [id : 1..MaxId, user : Users, name : Names, status : Statuses]

Idle   == [pc |-> "idle"]
Instant(id, dropped) == [pc |-> "answered", id |-> id, dropped |-> dropped]
Closed == [pc |-> "closed"]

Init ==
  /\ session = [h \in Hashes |-> NoSession] /\ nextSession = 1
  /\ objects = <<>> /\ files = <<>> /\ nextFile = 1
  /\ ceph = [h \in Hashes |-> "nothing"]
  /\ parts = {} /\ events = {}
  /\ request = Idle /\ view = Closed

-----------------------------------------------------------------------------
(* The tables.                                                             *)

Catalogued(h) == \E o \in ToSet(objects) : o.hash = h
ObjectOf(h)   == CHOOSE o \in ToSet(objects) : o.hash = h
Refs(h)       == {f \in ToSet(files) : f.hash = h}

\* Mutant: the unique key holds the whole path.
SameName(f, u, h, n) == f.user = u /\ f.hash = h /\ f.name = n

\* uk_user_file_path.
SamePath(f, u, h, n) == f.user = u /\ f.hash = h /\ f.name.key = n.key

\* INSERT ... ON CONFLICT DO NOTHING, stamped t.
Attached(u, h, n, t) ==
  IF \E f \in ToSet(files) : SamePath(f, u, h, n)
  THEN files' = files /\ nextFile' = nextFile
  ELSE /\ nextFile <= MaxFile
       /\ files' = Append(files, [id |-> nextFile, user |-> u, hash |-> h,
                                  name |-> n, at |-> t])
       /\ nextFile' = nextFile + 1

-----------------------------------------------------------------------------
(* Uploads.  A request is a step, by where it ends: with an effect whose   *)
(* answer was lost, and with an error that the program drops, as well.     *)

\* A new row or a dropped one's id again.  The row stays INIT when a Save fails,
\* and is FAILED when Ceph refuses.
BeginUpload(u, h, n) ==
  /\ ~Catalogued(h)
  /\ \/ session[h] = NoSession /\ nextSession <= MaxId
     \/ session[h].status \in {"CANCELLED", "FAILED"}
  /\ \E end \in {"UPLOADING", "INIT", "FAILED"} :
       session' = [session EXCEPT ![h] =
         [id |-> IF @ = NoSession THEN nextSession ELSE @.id,
          user |-> u, name |-> n, status |-> end]]
  /\ nextSession' = IF session[h] = NoSession THEN nextSession + 1 ELSE nextSession
  /\ UNCHANGED <<objects, files, nextFile, ceph, parts, events, request, view>>

\* A session in use is the requester's from now on.
TakeOver(u, h, n) ==
  /\ ~Catalogued(h) /\ session[h].status \in {"INIT", "UPLOADING", "PAUSED"}
  /\ session' = [session EXCEPT ![h].user = u, ![h].name = n, ![h].status = "UPLOADING"]
  /\ UNCHANGED <<nextSession, objects, files, nextFile, ceph, parts, events, request, view>>

UploadPart(h) ==
  /\ session[h].status = "UPLOADING"
  /\ ceph' = [ceph EXCEPT ![h] = IF @ = "object" THEN @ ELSE "parts"]
  /\ parts' = parts \union {[id |-> session[h].id, hash |-> h]}
  /\ UNCHANGED <<tables, events, request, view>>

\* PauseUpload and ResumeUpload, of a session in any status.
SetStatus(h) ==
  /\ session[h] # NoSession
  /\ \E status \in {"PAUSED", "UPLOADING"} :
       session' = [session EXCEPT ![h].status = status]
  /\ UNCHANGED <<nextSession, objects, files, nextFile, ceph, parts, events, request, view>>

\* The parts cached under the session's id are the ones Ceph is asked for.  The
\* event follows the object; FINALIZING is reverted if no answer says it was sent.
CompleteUpload(h) ==
  /\ session[h].status = "UPLOADING"
  /\ [id |-> session[h].id, hash |-> h] \in parts /\ ceph[h] # "nothing"
  /\ \E end \in {"UPLOADING", "FINALIZING"} :
       session' = [session EXCEPT ![h].status = end]
  /\ \/ UNCHANGED <<ceph, events>>
     \/ /\ ceph' = [ceph EXCEPT ![h] = "object"]
        /\ events' \in {events, events \union {session[h].id}}
  /\ UNCHANGED <<nextSession, objects, files, nextFile, parts, request, view>>

\* Mutant: a completed upload is cancelled as well.
AnyStatus == Statuses \ {"CANCELLED"}

\* status IN (INIT, UPLOADING, PAUSED, FAILED).
Cancellable == {"INIT", "UPLOADING", "PAUSED", "FAILED"}

\* Ceph removes the bytes or not, and the status is restored if it did not
\* answer; then the keys of the parts go, unless Redis refuses.
CancelUpload(h) ==
  /\ session[h].status \in Cancellable
  /\ ceph' \in {ceph, [ceph EXCEPT ![h] = "nothing"]}
  /\ \/ UNCHANGED <<session, parts>>
     \/ /\ session' = [session EXCEPT ![h].status = "CANCELLED"]
        /\ parts' \in {parts, {p \in parts : p.id # session[h].id}}
  /\ UNCHANGED <<nextSession, objects, files, nextFile, events, request, view>>

Consumed(id) ==
  \/ events' = events \ {id}
  \/ "redelivered" \in Faults /\ events' = events

\* The event names a row by its id alone.  One transaction.
HandleUploadComplete(id) ==
  \E h \in Hashes :
    LET s == session[h] IN
    /\ s # NoSession /\ s.id = id /\ s.status \notin {"CANCELLED", "FAILED"}
    /\ \E t \in Times :
         /\ objects' = IF Catalogued(h) THEN objects
                       ELSE Append(objects, [hash |-> h, name |-> s.name, at |-> t,
                                             region |-> s.name.region, by |-> s.user])
         /\ Attached(s.user, h, s.name, t)
    /\ session' = [session EXCEPT ![h].status = "COMPLETE"]
    /\ Consumed(id)
    /\ UNCHANGED <<nextSession, ceph, parts, request, view>>

\* An upload that was cancelled, or failed, meanwhile.
SkipUploadComplete(id) ==
  /\ \E h \in Hashes : /\ session[h] # NoSession /\ session[h].id = id
                       /\ session[h].status \in {"CANCELLED", "FAILED"}
  /\ Consumed(id)
  /\ UNCHANGED <<tables, ceph, parts, request, view>>

-----------------------------------------------------------------------------
(* attachExisting, for a file the catalogue has.                           *)

Classified(n) == n.region # NoRegion

\* None begins when the ids (MaxFile) are used up.
AttachExisting(u, h, n) ==
  /\ request.pc \in {"idle", "answered"} /\ Catalogued(h) /\ nextFile <= MaxFile
  /\ request' = [user |-> u, hash |-> h, name |-> n,
                 pc |-> IF Classified(n) /\ ObjectOf(h).region = NoRegion
                        THEN "fill" ELSE "insert"]
  /\ UNCHANGED <<tables, ceph, parts, events, view>>

Filled(h, region) ==
  [i \in DOMAIN objects |->
     IF objects[i].hash = h THEN [objects[i] EXCEPT !.region = region] ELSE objects[i]]

FillMetadata ==
  /\ request.pc = "fill"
  /\ objects' = Filled(request.hash, request.name.region)
  /\ request' = [request EXCEPT !.pc = "insert"]
  /\ UNCHANGED <<session, nextSession, files, nextFile, ceph, parts, events, view>>

\* Mutant: the row is looked for by its user and file alone.
AnyOwn == {f \in Refs(request.hash) : f.user = request.user}

\* The row that stood in the way, if its whole path is the request's.
Same == {f \in Refs(request.hash) : f.user = request.user /\ f.name = request.name}

\* The id that is answered when the insert gave none.
SelectUserFile == {f.id : f \in Same} \union (IF Same = {} THEN {0} ELSE {})

\* The insert and, when it gave no id, the select after it.
InsertUserFile ==
  /\ request.pc = "insert"
  /\ \/ /\ \E t \in Times : Attached(request.user, request.hash, request.name, t)
        /\ \/ nextFile' # nextFile /\ request' = Instant(nextFile, FALSE)
           \/ /\ nextFile' = nextFile
              /\ \E id \in SelectUserFile : request' = Instant(id, FALSE)
     \/ /\ "insert" \in Faults
        /\ \E id \in SelectUserFile : request' = Instant(id, TRUE)
        /\ UNCHANGED <<files, nextFile>>
  /\ UNCHANGED <<session, nextSession, objects, ceph, parts, events, view>>

-----------------------------------------------------------------------------
(* ListFiles and ListFileFacets, and the FilesView that calls them.        *)

\* Mutant: the last who listed the file.
LastRef(h) == CHOOSE f \in Refs(h) : \A g \in Refs(h) : g.id <= f.id

\* The user_file that names the uploader: MIN(first_ref.id).
FirstRef(h) == CHOOSE f \in Refs(h) : \A g \in Refs(h) : f.id <= g.id

Shows(region, h) == region = NoRegion \/ ObjectOf(h).region = region

\* The rows of a listing, as indexes in its table.  scope "mine": one for each
\* file of the user.
OwnFiles(u, region) ==
  {i \in DOMAIN files : files[i].user = u /\ Shows(region, files[i].hash)}

\* scope "team": one for each object that anybody lists.
TeamFiles(region) ==
  {i \in DOMAIN objects : Refs(objects[i].hash) # {} /\ Shows(region, objects[i].hash)}

Table(scope) == IF scope = Team THEN objects ELSE files

Listing(scope, region) ==
  IF scope = Team THEN TeamFiles(region) ELSE OwnFiles(scope, region)

Listed == Listing(view.scope, view.region)

\* ListFileFacets: the regions a select offers.
Facets(scope) ==
  {o.region : o \in {o \in ToSet(objects) :
     scope = Team \/ \E f \in Refs(o.hash) : f.user = scope}} \ {NoRegion}

\* Mutant: OFFSET page * page_size.
OffsetOfNext == view.page * PageSize

Offset == (view.page - 1) * PageSize

\* ORDER BY created_at DESC: the rows before i, and those that MySQL may put
\* before or behind it, i among them.
Newer(i) == {j \in Listed : Table(view.scope)[j].at > Table(view.scope)[i].at}
Tied(i)  == {j \in Listed : Table(view.scope)[j].at = Table(view.scope)[i].at}

\* Where in the listing i and the rows tied with it are.
Places(i) == Cardinality(Newer(i)) + 1 .. Cardinality(Newer(i)) + Cardinality(Tied(i))

\* LIMIT ... OFFSET ...: every SELECT orders tied rows anew, so a page is some
\* rows of each such group, as many as places of it are on the page.
Pages ==
  {rows \in SUBSET Listed : \A i \in Listed :
     Cardinality(rows \intersect Tied(i))
       = Cardinality(Places(i) \intersect Offset + 1 .. Offset + PageSize)}

\* The page asks for the facets, then for its first page, whose SELECT COUNT(*)
\* is this step.  What is listed then is what the user sets out to see.  A
\* reading that is broken off leaves nothing behind, and is one not begun.
Open(scope, region) ==
  /\ view.pc = "closed"
  /\ region \in Facets(scope) \union {NoRegion}
  /\ LET now == Listing(scope, region) IN
     view' = [pc |-> "rows", scope |-> scope, region |-> region, page |-> 1,
              total |-> Cardinality(now), unseen |-> now]
  /\ UNCHANGED <<tables, ceph, parts, events, request>>

LastPage == view.page * PageSize >= view.total

SelectFiles ==
  /\ view.pc = "rows"
  /\ \/ LastPage /\ view' = Closed
     \/ /\ ~LastPage
        /\ \E rows \in Pages :
             view' = [view EXCEPT !.pc = "shown", !.unseen = @ \ rows]
  /\ UNCHANGED <<tables, ceph, parts, events, request>>

\* SELECT COUNT(*) again, for the next page.
NextPage ==
  /\ view.pc = "shown"
  /\ view' = [view EXCEPT !.pc = "rows", !.page = @ + 1, !.total = Cardinality(Listed)]
  /\ UNCHANGED <<tables, ceph, parts, events, request>>

-----------------------------------------------------------------------------

Upload ==
  \/ \E u \in Users, h \in Hashes, n \in UploadNames :
       BeginUpload(u, h, n) \/ TakeOver(u, h, n)
  \/ \E h \in Hashes :
       UploadPart(h) \/ SetStatus(h) \/ CompleteUpload(h) \/ CancelUpload(h)

Consumer == \E id \in events : HandleUploadComplete(id) \/ SkipUploadComplete(id)

Attach ==
  \/ \E u \in Users, h \in Hashes, n \in Names : AttachExisting(u, h, n)
  \/ FillMetadata \/ InsertUserFile

Browse ==
  \/ \E scope \in Users \union {Team} :
       \E region \in Facets(scope) \union {NoRegion} : Open(scope, region)
  \/ SelectFiles \/ NextPage

Serve == Upload \/ Consumer \/ Attach \/ Browse

Spec == Init /\ [][Serve]_vars

-----------------------------------------------------------------------------
(* Properties.                                                             *)

\* The tables, keys and events hold rows of their kind; no hash has two
\* objects and no user a file twice.
TypeOK ==
  /\ session \in [Hashes -> Sessions \union {NoSession}]
  /\ nextSession \in 1..(MaxId + 1) /\ nextFile \in 1..(MaxFile + 1)
  /\ ToSet(objects) \subseteq
       [hash : Hashes, name : Names, region : {n.region : n \in Names}, by : Users,
        at : Times]
  /\ ToSet(files) \subseteq
       [id : 1..MaxFile, user : Users, hash : Hashes, name : Names, at : Times]
  /\ Cardinality({o.hash : o \in ToSet(objects)}) = Len(objects)
  /\ Cardinality({<<f.user, f.hash, f.name.key>> : f \in ToSet(files)}) = Len(files)
  /\ ceph \in [Hashes -> {"nothing", "parts", "object"}]
  /\ parts \subseteq [id : 1..MaxId, hash : Hashes]
  /\ events \subseteq 1..MaxId

\* Whoever reads every page sees every file that was there at the first one,
\* though rows are inserted and classified between the pages and between the
\* two queries of one; unless the total shown is not that of now, or the file's
\* created_at is also another row's, which nothing keeps in one order.
NothingSkipped ==
  view.pc = "rows" /\ LastPage /\ view.total = Cardinality(Listed) =>
    \A rows \in Pages : \A i \in view.unseen \ rows : Tied(i) # {i}

\* The team's list names as uploader of a file the user whose upload brought
\* it (by, which no column holds), whoever attaches it and in whatever order.
OwnerIsUploader == \A o \in ToSet(objects) : FirstRef(o.hash).user = o.by

\* A user told INSTANT has the file in the list, under the name asked for or
\* one that the unique key takes for it, unless the insert's dropped error
\* was real; an id in the answer is that of the very row.
InstantIsListed ==
  [][request.pc = "insert" /\ request'.pc = "answered" =>
       /\ request'.dropped \/ \E f \in ToSet(files') :
            SamePath(f, request.user, request.hash, request.name)
       /\ request'.id # 0 => \E f \in ToSet(files') :
            /\ f.id = request'.id /\ f.user = request.user
            /\ f.hash = request.hash /\ f.name = request.name]_vars
=============================================================================

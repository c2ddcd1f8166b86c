------------------------ MODULE BrowserUploadProofs ------------------------
(* What the browser's upload store keeps: for any number of flows, task     *)
(* objects, parts and senders, whichever calls fail and with what effect.   *)
EXTENDS BrowserUpload, WellFoundedInduction, TLAPS

(* What a reader sees of a task is true, whatever the user does.           *)

Finished(t) == t.status \in {"complete", "instant"}

\* A task of a hash that another user uploads has not got past its first call.
Early(t) == ~t.id /\ t.status \notin {"uploading", "finalizing", "complete", "instant"}

Good(t) ==
  /\ t \in Task
  /\ Finished(t) => catalogued
  /\ busy => Early(t)

Records ==
  /\ copy \in [Copies -> Task] /\ \A c \in Copies : Good(copy[c])
  /\ Good(saved)
  /\ shown \in Copies \union {NoCopy}

\* Calls that are made only once the server has let the upload begin.
Later == {"upload", "complete", "poll", "pause", "resume", "cancel"}

Active(f) == pc[f] \notin {"idle", "load"} \/ flying[f] # {}

FlowsOK ==
  /\ pc \in [Flows -> Awaits] /\ on \in [Flows -> Copies \union {NoCopy}]
  /\ queue \in [Flows -> SUBSET Parts] /\ flying \in [Flows -> SUBSET Parts]
  /\ \A f \in Flows : Active(f) => on[f] \in Copies
  /\ \A f \in Flows : flying[f] # {} => pc[f] \in {"upload", "idle"}
  /\ busy => \A f \in Flows : pc[f] \notin Later /\ flying[f] = {}

Sessions == {"NONE", "UPLOADING", "PAUSED", "FINALIZING", "COMPLETE",
             "FAILED", "CANCELLED"}

ServerOK ==
  /\ session \in Sessions /\ parts \subseteq Parts
  /\ catalogued \in BOOLEAN /\ busy \in BOOLEAN
  /\ session = "COMPLETE" => catalogued
  /\ busy => session = "NONE" /\ ~announced /\ ~catalogued

BInv == ServerOK /\ Records /\ FlowsOK

-----------------------------------------------------------------------------
(* What resume needs is kept, unless the user cancels.                     *)

PastHash == {"initiate", "timer", "upload", "complete", "poll", "pause", "resume"}

\* The server may have a session of the user.
Begun ==
  \/ session # "NONE"
  \/ \E f \in Flows : pc[f] \in PastHash \/ flying[f] # {}

\* All flows work for one task object, which is the one shown.
OneTask ==
  /\ \A c, d \in Copies : copy[c] # NoTask /\ copy[d] # NoTask => c = d
  /\ \A f \in Flows : Active(f) => copy[on[f]] # NoTask
  /\ shown # NoCopy => copy[shown] # NoTask

\* restore runs alone, after a reload.
RestoreAlone ==
  \A f \in Flows : pc[f] \in {"load", "reconcile"} =>
    /\ shown = NoCopy /\ flying[f] = {}
    /\ \A g \in Flows \ {f} : Free(g)
    /\ pc[f] = "load" => \A c \in Copies : copy[c] = NoTask

Untouched ==
  ~added =>
    /\ session = "NONE" /\ saved = NoTask /\ shown = NoCopy
    /\ \A f \in Flows : Free(f)
    /\ \A c \in Copies : copy[c] = NoTask

Kept(t) ==
  /\ Begun => Named(t)
  /\ t.status = "uploading" => Named(t)
  /\ t.id => session # "NONE"

RecordsKept ==
  /\ Begun => Named(saved)
  /\ saved.id => session # "NONE"
  /\ saved.status = "uploading" => Named(saved)
  /\ \A c \in Copies : copy[c] # NoTask => Kept(copy[c]) /\ (saved.id => copy[c].id)

KInv ==
  /\ session # "CANCELLED" /\ \A f \in Flows : pc[f] # "cancel"
  /\ ~catalogued => OneTask /\ RestoreAlone /\ Untouched /\ RecordsKept

-----------------------------------------------------------------------------
(* Task objects and their parts.                                           *)

Statuses == {"none", "hashing", "waiting", "uploading", "paused",
             "finalizing", "complete", "failed", "instant"}

USE DEF task

LEMMA NoTaskIs ==
  NoTask \in Task /\ ~Named(NoTask) /\ ~NoTask.id /\ ~NoTask.hash /\ NoTask.status = "none"
  BY DEF NoTask, Task, Named

\* An assignment to a field leaves the others.
LEMMA StatusSet ==
  ASSUME NEW t \in Task, NEW st \in Statuses \ {"none"}
  PROVE  LET u == [t EXCEPT !.status = st] IN
         /\ u \in Task /\ u # NoTask /\ u.status = st /\ u.hash = t.hash /\ u.id = t.id
         /\ t.id \in BOOLEAN /\ t.hash \in BOOLEAN /\ t.status \in Statuses
  BY DEF Task, NoTask, Statuses

LEMMA IdSet ==
  ASSUME NEW t \in Task
  PROVE  LET u == [t EXCEPT !.id = TRUE] IN
         u \in Task /\ u.id /\ u.hash = t.hash /\ u.status = t.status
  BY DEF Task

LEMMA HashSet ==
  ASSUME NEW t \in Task
  PROVE  LET u == [t EXCEPT !.hash = TRUE] IN
         u \in Task /\ u.hash /\ u.id = t.id /\ u.status = t.status
  BY DEF Task

LEMMA SetsHaveMin ==
  ASSUME NEW S \in SUBSET Nat, S # {}
  PROVE  Min(S) \in S
<1> DEFINE R == OpToRel(<, Nat)
<1>1. \E m \in S : \A n \in S : <<n, m>> \notin R
  BY NatLessThanWellFounded, WFMin
<1>2. \A m, n \in S : <<n, m>> \notin R => m <= n
  BY DEF OpToRel
<1>3. \E m \in S : \A n \in S : m =< n
  BY <1>1, <1>2
<1> QED BY <1>3 DEF Min

\* A runner takes one of the parts that wait.
LEMMA NextPartIs ==
  ASSUME NEW f \in Flows, queue[f] \subseteq Parts
  PROVE  NextPart(f) \subseteq queue[f]
<1>1. CASE task(f).status = "uploading" /\ queue[f] # {}
  <2>1. queue[f] \in SUBSET Nat
    BY BrowserAssumption DEF Parts
  <2>3. Min(queue[f]) \in queue[f]
    BY <1>1, <2>1, SetsHaveMin
  <2> QED BY <1>1, <2>3 DEF NextPart
<1>2. CASE ~(task(f).status = "uploading" /\ queue[f] # {})
  BY <1>2 DEF NextPart
<1> QED BY <1>1, <1>2

-----------------------------------------------------------------------------
(* Steps of a flow that works for its task object: everything but clicks,   *)
(* restore and what happens outside the browser.                            *)

\* What the step does to the server: nothing a flow that has not got past its
\* first call could not do, and never a COMPLETE session.
Served(f) ==
  /\ ServerOK' /\ catalogued' = catalogued /\ busy' = busy
  /\ session # "NONE" => session' # "NONE"
  /\ session' # "NONE" => Begun
  /\ session' = "CANCELLED" => session = "CANCELLED" \/ pc[f] = "cancel"

\* To its flow: it goes on to a call of its own, with parts of the file.
Turned(f) ==
  \E call \in Awaits \ {"load", "reconcile", "cancel"}, q, r \in SUBSET Parts :
    /\ pc' = [pc EXCEPT ![f] = call] /\ on' = on
    /\ queue' = [queue EXCEPT ![f] = q] /\ flying' = [flying EXCEPT ![f] = r]
    /\ busy => call \notin Later /\ r = {}
    /\ r # {} => call \in {"upload", "idle"}
    /\ call \in PastHash \/ r # {} =>
         \/ Begun \/ task(f).id
         \/ Named(copy'[on[f]]) /\ saved' = copy'[on[f]]

\* To its object, which it may save, or whose record it deletes at the end.
Written(f) ==
  \E t \in Task :
    /\ copy' = [copy EXCEPT ![on[f]] = t]
    /\ t = task(f) \/ t # NoTask
    /\ Finished(t) => catalogued
    /\ busy => Early(t)
    /\ saved' \in {saved, t} \/ (saved' = NoTask /\ catalogued)
    /\ Named(task(f)) => Named(t)
    /\ task(f).id => t.id
    /\ t.id => task(f).id \/ session' # "NONE"
    /\ t.status = "uploading" =>
         task(f).status = "uploading" \/ Named(t) \/ pc[f] \in PastHash

Works(f) ==
  /\ Active(f) /\ pc[f] # "reconcile"
  /\ Served(f) /\ Turned(f) /\ Written(f)
  /\ UNCHANGED <<added, shown>>

LEMMA BInvTyped ==
  ASSUME BInv
  PROVE  /\ copy \in [Copies -> Task] /\ saved \in Task
         /\ shown \in Copies \union {NoCopy}
         /\ pc \in [Flows -> Awaits] /\ on \in [Flows -> Copies \union {NoCopy}]
         /\ queue \in [Flows -> SUBSET Parts] /\ flying \in [Flows -> SUBSET Parts]
         /\ session \in Sessions /\ parts \in SUBSET Parts
         /\ \A f \in Flows : Active(f) => on[f] \in Copies /\ task(f) \in Task
<1>1. copy \in [Copies -> Task] /\ saved \in Task /\ shown \in Copies \union {NoCopy}
  BY DEF BInv, Records, Good
<1>2. /\ pc \in [Flows -> Awaits] /\ on \in [Flows -> Copies \union {NoCopy}]
      /\ queue \in [Flows -> SUBSET Parts] /\ flying \in [Flows -> SUBSET Parts]
      /\ \A f \in Flows : Active(f) => on[f] \in Copies
  BY DEF BInv, FlowsOK
<1>3. session \in Sessions /\ parts \in SUBSET Parts
  BY DEF BInv, ServerOK
<1> QED BY <1>1, <1>2, <1>3

LEMMA WorkKeepsBInv ==
  ASSUME BInv, NEW f \in Flows, Works(f)
  PROVE  BInv'
<1>1. on[f] \in Copies /\ ServerOK' /\ catalogued' = catalogued /\ busy' = busy
  BY DEF BInv, FlowsOK, Works, Served
<1>2. PICK t \in Task :
        /\ copy' = [copy EXCEPT ![on[f]] = t]
        /\ Finished(t) => catalogued
        /\ busy => Early(t)
        /\ saved' \in {saved, t, NoTask}
  BY DEF Works, Written
<1>3. Records'
  <2>1. copy' \in [Copies -> Task] /\ shown' \in Copies \union {NoCopy}
    BY <1>1, <1>2 DEF BInv, Records, Works
  <2>2. \A u : Good(u)' <=> Good(u)
    BY <1>1 DEF Good
  <2>3. Good(t) /\ Good(NoTask)
    BY <1>2, NoTaskIs DEF Good, Finished, Early
  <2>4. Good(saved')
    BY <1>2, <2>3 DEF BInv, Records
  <2>5. \A c \in Copies : Good(copy'[c])
    BY <1>1, <1>2, <2>3 DEF BInv, Records
  <2> QED BY <1>1, <2>1, <2>4, <2>5 DEF Records, Good
<1>4. FlowsOK'
  <2>1. PICK call \in Awaits, q \in SUBSET Parts, r \in SUBSET Parts :
          /\ pc' = [pc EXCEPT ![f] = call] /\ on' = on
          /\ queue' = [queue EXCEPT ![f] = q] /\ flying' = [flying EXCEPT ![f] = r]
          /\ busy => call \notin Later /\ r = {}
          /\ r # {} => call \in {"upload", "idle"}
    BY DEF Works, Turned
  <2>2. /\ pc' \in [Flows -> Awaits] /\ on' \in [Flows -> Copies \union {NoCopy}]
        /\ queue' \in [Flows -> SUBSET Parts] /\ flying' \in [Flows -> SUBSET Parts]
    BY <2>1 DEF BInv, FlowsOK
  <2>3. ASSUME NEW g \in Flows, Active(g)'  PROVE on'[g] \in Copies
    BY <1>1, <2>1, <2>3 DEF BInv, FlowsOK, Active
  <2>4. ASSUME busy, NEW g \in Flows  PROVE pc'[g] \notin Later /\ flying'[g] = {}
    BY <2>1, <2>4 DEF BInv, FlowsOK
  <2>5. \A g \in Flows : flying'[g] # {} => pc'[g] \in {"upload", "idle"}
    BY <2>1 DEF BInv, FlowsOK
  <2> QED BY <1>1, <2>2, <2>3, <2>4, <2>5 DEF FlowsOK
<1> QED BY <1>1, <1>3, <1>4 DEF BInv

LEMMA WorkKeepsKInv ==
  ASSUME BInv, KInv, NEW f \in Flows, Works(f)
  PROVE  KInv'
<1>1. /\ on[f] \in Copies /\ catalogued' = catalogued /\ task(f) \in Task
      /\ Active(f) /\ pc[f] # "reconcile" /\ UNCHANGED <<added, shown>>
      /\ copy \in [Copies -> Task] /\ pc \in [Flows -> Awaits]
      /\ flying \in [Flows -> SUBSET Parts]
  BY BInvTyped DEF Works, Served
<1>2. PICK call \in Awaits \ {"load", "reconcile", "cancel"},
           q \in SUBSET Parts, r \in SUBSET Parts :
        /\ pc' = [pc EXCEPT ![f] = call] /\ on' = on
        /\ flying' = [flying EXCEPT ![f] = r]
        /\ call \in PastHash \/ r # {} =>
             \/ Begun \/ task(f).id
             \/ Named(copy'[on[f]]) /\ saved' = copy'[on[f]]
  BY DEF Works, Turned
<1>3. session' # "CANCELLED" /\ \A g \in Flows : pc'[g] # "cancel"
  BY <1>1, <1>2 DEF KInv, Works, Served
<1>4. ASSUME ~catalogued  PROVE (OneTask /\ RestoreAlone /\ Untouched /\ RecordsKept)'
  <2>1. OneTask /\ RestoreAlone /\ Untouched /\ RecordsKept
    BY <1>4 DEF KInv
  <2>2. PICK t \in Task :
          /\ copy' = [copy EXCEPT ![on[f]] = t]
          /\ t = task(f) \/ t # NoTask
          /\ saved' \in {saved, t}
          /\ Named(task(f)) => Named(t)
          /\ task(f).id => t.id
          /\ t.id => task(f).id \/ session' # "NONE"
          /\ t.status = "uploading" =>
               task(f).status = "uploading" \/ Named(t) \/ pc[f] \in PastHash
    BY <1>4 DEF Works, Written
  <2>3. task(f) # NoTask /\ \A c \in Copies \ {on[f]} : copy[c] = NoTask
    <3>1. task(f) # NoTask
      BY <1>1, <2>1 DEF OneTask
    <3>2. \A c, d \in Copies : copy[c] # NoTask /\ copy[d] # NoTask => c = d
      BY <2>1 DEF OneTask
    <3> QED BY <1>1, <3>1, <3>2
  <2>4. t # NoTask /\ copy'[on[f]] = t /\ \A c \in Copies \ {on[f]} : copy'[c] = NoTask
    BY <1>1, <2>2, <2>3
  <2>5. OneTask'
    <3>1. \A c, d \in Copies : copy'[c] # NoTask /\ copy'[d] # NoTask => c = d
      BY <1>1, <2>4
    <3>2. \A g \in Flows : Active(g)' => copy'[on'[g]] # NoTask
      <4>1. \A g \in Flows : Active(g)' => Active(g)
        BY <1>1, <1>2 DEF Active
      <4>2. \A g \in Flows : Active(g) => on[g] = on[f]
        BY <1>1, <2>1, <2>3 DEF OneTask, BInv, FlowsOK
      <4> QED BY <1>2, <2>4, <4>1, <4>2
    <3>3. shown' # NoCopy => copy'[shown'] # NoTask
      BY <1>1, <2>1, <2>3, <2>4 DEF OneTask, BInv, Records
    <3> QED BY <3>1, <3>2, <3>3 DEF OneTask
  <2>6. RestoreAlone'
    <3>1. \A g \in Flows : pc'[g] \notin {"load", "reconcile"}
      BY <1>1, <1>2, <2>1 DEF RestoreAlone, Active, Free
    <3> QED BY <3>1 DEF RestoreAlone
  <2>7. Untouched'
    BY <1>1, <2>1 DEF Untouched, Active, Free
  <2>8. (task(f).id => session # "NONE") /\ (task(f).status = "uploading" => Named(task(f)))
        /\ (Begun => Named(task(f)))
    BY <1>1, <2>1, <2>3 DEF RecordsKept, Kept, Named
  <2>9. session # "NONE" => session' # "NONE"
    BY DEF Works, Served
  <2>10. Begun' => Begun \/ (Named(t) /\ saved' = t)
    <3>1. session' # "NONE" => Begun
      BY DEF Works, Served
    <3> QED BY <1>1, <1>2, <2>4, <2>8, <3>1 DEF Begun
  <2>11. pc[f] \in PastHash => Begun
    BY DEF Begun
  <2>12. Kept(t)'
    BY <2>2, <2>8, <2>9, <2>10, <2>11 DEF Kept
  <2>13. (Begun' => Named(saved')) /\ (saved'.id => session' # "NONE" /\ t.id)
         /\ (saved'.status = "uploading" => Named(saved'))
    <3>1. CASE saved' = t
      <4>1. Kept(t)' => (Begun' => Named(t)) /\ (t.status = "uploading" => Named(t))
                       /\ (t.id => session' # "NONE")
        BY DEF Kept
      <4> QED BY <2>12, <3>1, <4>1
    <3>2. CASE saved' = saved /\ saved' # t
      <4>1. Begun' => Begun
        BY <2>10, <3>2
      <4>2. /\ Begun => Named(saved)
            /\ saved.id => session # "NONE" /\ task(f).id
            /\ saved.status = "uploading" => Named(saved)
        BY <1>1, <2>1, <2>3 DEF RecordsKept
      <4> QED BY <2>2, <2>9, <3>2, <4>1, <4>2
    <3> QED BY <2>2, <3>1, <3>2
  <2>14. RecordsKept'
    BY <1>1, <2>4, <2>12, <2>13 DEF RecordsKept, Kept
  <2> QED BY <2>5, <2>6, <2>7, <2>14
<1> QED BY <1>1, <1>3, <1>4 DEF KInv

-----------------------------------------------------------------------------
(* What the calls of a flow do.                                            *)

LEMMA NothingServed ==
  ASSUME BInv, NEW f \in Flows, UNCHANGED server
  PROVE  Served(f)
  BY DEF server, BInv, ServerOK, Served, Begun

\* While another user uploads the hash nothing is begun, so no later call is
\* made; and no call alone completes a session.
LEMMA CallServed ==
  ASSUME BInv, NEW f \in Flows, Serve(f)
  PROVE  Served(f)
<1>1. /\ ServerOK /\ session \in Sessions
      /\ busy => pc[f] \notin Later
  BY DEF BInv, ServerOK, FlowsOK
<1>2. CASE pc[f] = "initiate" /\ ServeInitiate
  <2>1. CASE Decision = "UPLOAD"
    BY <1>1, <1>2, <2>1 DEF ServeInitiate, Decision, Served, ServerOK, Sessions, Begun, PastHash
  <2>2. CASE Decision # "UPLOAD"
    BY <1>2, <2>2, NothingServed DEF ServeInitiate
  <2> QED BY <2>1, <2>2
<1>3. CASE pc[f] = "complete" /\ ServeComplete
  <2>1. CASE UNCHANGED server
    BY <2>1, NothingServed
  <2>2. CASE /\ session' = "FINALIZING" /\ announced' = TRUE
             /\ UNCHANGED <<parts, catalogued, busy>>
    BY <1>1, <1>3, <2>2 DEF Served, ServerOK, Sessions, Begun, PastHash, Later
  <2> QED BY <1>3, <2>1, <2>2 DEF ServeComplete
<1>4. CASE pc[f] = "complete" /\ ServeReverted
  BY <1>1, <1>4 DEF ServeReverted, Served, ServerOK, Begun, PastHash, Later
<1>5. CASE pc[f] \in {"pause", "resume"} /\ \E st \in {"PAUSED", "UPLOADING"} : SetStatus(st)
  BY <1>1, <1>5 DEF SetStatus, Served, ServerOK, Sessions, Begun, PastHash, Later
<1>6. CASE pc[f] = "cancel" /\ ServeCancel
  <2>1. CASE UNCHANGED server
    BY <2>1, NothingServed
  <2>2. CASE /\ session \in Writable \union {"FAILED"}
             /\ session' = "CANCELLED" /\ parts' = {}
             /\ UNCHANGED <<announced, catalogued, busy>>
    BY <1>1, <1>6, <2>2 DEF Served, ServerOK, Sessions, Begun, Later, Writable
  <2> QED BY <1>6, <2>1, <2>2 DEF ServeCancel
<1> QED BY <1>2, <1>3, <1>4, <1>5, <1>6 DEF Serve

LEMMA PartServed ==
  ASSUME BInv, NEW f \in Flows, NEW p \in flying[f], ServePart(p)
  PROVE  Served(f)
  BY DEF ServePart, Served, BInv, ServerOK, FlowsOK, Begun, Writable

LEMMA Went ==
  ASSUME BInv, NEW f \in Flows, NEW call \in Awaits \ {"load", "reconcile", "cancel"},
         Goto(f, call),
         busy => call \notin Later,
         call = "idle" \/ pc[f] \notin {"upload", "idle"} \/ flying[f] = {},
         call \in PastHash => \/ Begun \/ task(f).id
                              \/ Named(copy'[on[f]]) /\ saved' = copy'[on[f]]
  PROVE  Turned(f)
<1>1. /\ pc' = [pc EXCEPT ![f] = call] /\ on' = on
      /\ queue' = [queue EXCEPT ![f] = queue[f]]
      /\ flying' = [flying EXCEPT ![f] = flying[f]]
      /\ queue[f] \in SUBSET Parts /\ flying[f] \in SUBSET Parts
  BY BInvTyped DEF Goto, sending
<1>2. busy => flying[f] = {}
  BY DEF BInv, FlowsOK
<1>3. flying[f] # {} => Begun /\ call \in {"upload", "idle"}
  BY DEF Begun, BInv, FlowsOK
<1> QED BY <1>1, <1>2, <1>3 DEF Turned

\* The object stays as it is; a runner may save it.
LEMMA Stood ==
  ASSUME BInv, NEW f \in Flows, Active(f), copy' = copy, saved' \in {saved, task(f)}
  PROVE  Written(f)
<1>1. task(f) \in Task /\ on[f] \in Copies /\ copy \in [Copies -> Task]
  BY BInvTyped
<1>2. Good(task(f))
  BY <1>1 DEF BInv, Records
<1>3. copy' = [copy EXCEPT ![on[f]] = task(f)]
  BY <1>1
<1> QED BY <1>1, <1>2, <1>3 DEF Written, Good

\* The object gets a status, and is saved with it or its record deleted.
LEMMA StatusWritten ==
  ASSUME BInv, NEW f \in Flows, Active(f), NEW st \in Statuses \ {"none"},
         Assign(f, WithStatus(f, st)),
         saved' = WithStatus(f, st) \/ (saved' = NoTask /\ catalogued),
         st \in {"complete", "instant"} => catalogued,
         busy => st \notin {"uploading", "finalizing"},
         st = "uploading" => Named(task(f)) \/ pc[f] \in PastHash
  PROVE  Written(f)
<1> DEFINE t == WithStatus(f, st)
<1>1. task(f) \in Task /\ on[f] \in Copies
  BY BInvTyped
<1>2. /\ t \in Task /\ t # NoTask /\ t.status = st
      /\ t.hash = task(f).hash /\ t.id = task(f).id
  BY <1>1, StatusSet DEF WithStatus
<1>3. Good(task(f)) /\ (busy => ~catalogued)
  BY <1>1 DEF BInv, Records, ServerOK
<1>4. busy => Early(t)
  BY <1>2, <1>3 DEF Good, Early
<1> QED BY <1>2, <1>4 DEF Written, Assign, Named, Finished

LEMMA FailWorks ==
  ASSUME BInv, NEW f \in Flows, Active(f), pc[f] # "reconcile", Served(f), Fail(f),
         UNCHANGED <<added, shown>>
  PROVE  Works(f)
<1>1. Turned(f)
  BY Went DEF Fail, End, Awaits, HttpCalls, Later, PastHash
<1>2. Written(f)
  BY Stood, StatusWritten DEF Fail, Save, Statuses
<1> QED BY <1>1, <1>2 DEF Works

-----------------------------------------------------------------------------
(* The actions of a flow.                                                  *)

USE DEF Awaits, HttpCalls, Later, PastHash, Statuses

LEMMA HashWorks ==
  ASSUME BInv, NEW f \in Flows, Hash(f)
  PROVE  Works(f)
<1> DEFINE t == [task(f) EXCEPT !.hash = TRUE]
<1>1. /\ pc[f] = "hash" /\ UNCHANGED <<server, added, shown>>
      /\ Served(f) /\ Active(f) /\ task(f) \in Task /\ on[f] \in Copies
  BY NothingServed, BInvTyped DEF Hash, Active
<1>2. CASE Save(f, t) /\ Goto(f, "initiate")
  <2>1. t \in Task /\ t.hash /\ t.id = task(f).id /\ t.status = task(f).status /\ t # NoTask
    BY <1>1, HashSet, NoTaskIs
  <2>2. copy' = [copy EXCEPT ![on[f]] = t] /\ saved' = t
    BY <1>2 DEF Save, Assign
  <2>3. copy'[on[f]] = t
    BY <1>1, <2>2, BInvTyped
  <2>4. Turned(f)
    BY <1>1, <1>2, <2>1, <2>2, <2>3, Went DEF Named
  <2>5. Good(task(f))
    BY <1>1 DEF BInv, Records
  <2>6. Written(f)
    BY <2>1, <2>2, <2>5 DEF Written, Named, Good, Finished, Early
  <2> QED BY <1>1, <2>4, <2>6 DEF Works
<1>3. CASE Fail(f)
  BY <1>1, <1>3, FailWorks
<1> QED BY <1>2, <1>3 DEF Hash

\* Parts are sent of the file, and only once the server has begun.
LEMMA PartsTurned ==
  ASSUME BInv, NEW f \in Flows, NEW uploaded, SendParts(f, uploaded), ~busy,
         Begun \/ task(f).id
  PROVE  Turned(f)
<1> DEFINE todo == Parts \ uploaded
<1>1. Firsts(todo) \in SUBSET Parts /\ todo \ Firsts(todo) \in SUBSET Parts
  BY DEF Firsts
<1>2. /\ pc' = [pc EXCEPT ![f] = "upload"] /\ on' = on
      /\ queue' = [queue EXCEPT ![f] = todo \ Firsts(todo)]
      /\ flying' = [flying EXCEPT ![f] = Firsts(todo)]
  BY DEF SendParts
<1> QED BY <1>1, <1>2 DEF Turned

LEMMA InitiateWorks ==
  ASSUME BInv, NEW f \in Flows, Initiate(f)
  PROVE  Works(f)
<1>1. /\ pc[f] = "initiate" /\ UNCHANGED <<added, shown>>
      /\ Served(f) /\ Active(f) /\ task(f) \in Task /\ on[f] \in Copies /\ Begun
  BY CallServed, BInvTyped DEF Initiate, Serve, Active, Begun
<1>2. CASE Decision = "INSTANT" /\ Delete(f, WithStatus(f, "instant")) /\ End(f)
  <2>1. catalogued
    BY <1>2 DEF Decision
  <2>2. Turned(f)
    BY <1>2, Went DEF End
  <2>3. Written(f)
    BY <1>1, <1>2, <2>1, StatusWritten DEF Delete
  <2> QED BY <1>1, <2>2, <2>3 DEF Works
<1>3. CASE Decision = "WAIT" /\ Save(f, WithStatus(f, "waiting")) /\ Goto(f, "timer")
  <2>1. Turned(f)
    BY <1>1, <1>3, Went
  <2>2. Written(f)
    BY <1>1, <1>3, StatusWritten DEF Save
  <2> QED BY <1>1, <2>1, <2>2 DEF Works
<1>4. CASE /\ Decision = "UPLOAD"
           /\ Save(f, [WithStatus(f, "uploading") EXCEPT !.id = TRUE])
           /\ SendParts(f, {})
  <2> DEFINE u == WithStatus(f, "uploading")
             t == [u EXCEPT !.id = TRUE]
  <2>1. ~busy /\ session' = "UPLOADING"
    BY <1>4 DEF Initiate, ServeInitiate, Decision
  <2>2. /\ u \in Task /\ u.status = "uploading" /\ u.hash = task(f).hash
    BY <1>1, StatusSet DEF WithStatus
  <2>3. t \in Task /\ t.id /\ t.status = "uploading" /\ t.hash = task(f).hash /\ t # NoTask
    BY <2>2, IdSet, NoTaskIs
  <2>4. copy' = [copy EXCEPT ![on[f]] = t] /\ saved' = t
    BY <1>4 DEF Save, Assign
  <2>5. Written(f)
    BY <2>1, <2>3, <2>4 DEF Written, Named, Finished
  <2>6. Turned(f)
    BY <1>1, <1>4, <2>1, PartsTurned
  <2> QED BY <1>1, <2>5, <2>6 DEF Works
<1> QED BY <1>2, <1>3, <1>4 DEF Initiate

LEMMA RefusedWorks ==
  ASSUME BInv, NEW f \in Flows, InitiateRefused(f)
  PROVE  Works(f)
<1>1. /\ pc[f] = "initiate" /\ UNCHANGED <<added, shown>> /\ Active(f) /\ Begun
      /\ ~busy /\ ~catalogued
      /\ session' = "FAILED" /\ UNCHANGED <<parts, announced, catalogued, busy>>
  BY DEF InitiateRefused, SetStatus, Decision, Active, Begun
<1>2. Served(f)
  BY <1>1 DEF Served, BInv, ServerOK, Sessions
<1> QED BY <1>1, <1>2, FailWorks DEF InitiateRefused

LEMMA TimerWorks ==
  ASSUME BInv, NEW f \in Flows, Timer(f)
  PROVE  Works(f)
<1>1. /\ pc[f] = "timer" /\ UNCHANGED <<server, added, saved, shown, copy>>
      /\ Active(f) /\ Begun
  BY DEF Timer, Active, Begun
<1>2. Served(f) /\ Written(f)
  BY <1>1, NothingServed, Stood
<1>3. Turned(f)
  BY <1>1, Went DEF Timer, End
<1> QED BY <1>1, <1>2, <1>3 DEF Works

LEMMA PartWorks ==
  ASSUME BInv, NEW f \in Flows, NEW p, PartSent(f, p) \/ PartFailed(f, p)
  PROVE  Works(f)
<1>1. p \in flying[f] /\ Active(f) /\ Begun /\ ~busy /\ UNCHANGED <<added, shown>>
      /\ flying[f] \in SUBSET Parts /\ queue[f] \in SUBSET Parts
  BY BInvTyped DEF PartSent, PartFailed, Active, Begun, BInv, FlowsOK
<1>2. Served(f)
  BY <1>1, PartServed, NothingServed DEF PartSent, PartFailed
<1>3. pc[f] \in {"upload", "idle"}
  BY <1>1 DEF BInv, FlowsOK
<1>4. CASE PartSent(f, p)
  <2> DEFINE q == queue[f] \ NextPart(f)
             r == (flying[f] \ {p}) \union NextPart(f)
  <2>1. q \in SUBSET Parts /\ r \in SUBSET Parts
    BY <1>1, NextPartIs
  <2>2. /\ pc' = [pc EXCEPT ![f] = pc[f]] /\ on' = on
        /\ queue' = [queue EXCEPT ![f] = q] /\ flying' = [flying EXCEPT ![f] = r]
    BY <1>4, BInvTyped DEF PartSent
  <2>3. Turned(f)
    BY <1>1, <1>3, <2>1, <2>2 DEF Turned
  <2>4. Written(f)
    BY <1>1, <1>4, Stood DEF PartSent
  <2> QED BY <1>1, <1>2, <1>3, <2>3, <2>4 DEF Works
<1>5. CASE PartFailed(f, p)
  <2>1. PICK call \in {pc[f], "idle"} :
          /\ pc' = [pc EXCEPT ![f] = call] /\ on' = on
          /\ queue' = [queue EXCEPT ![f] = queue[f]]
          /\ flying' = [flying EXCEPT ![f] = flying[f] \ {p}]
    BY <1>5, BInvTyped DEF PartFailed
  <2>2. Turned(f)
    BY <1>1, <1>3, <2>1 DEF Turned
  <2>3. Written(f)
    BY <1>1, <1>5, Stood, StatusWritten DEF PartFailed, Save
  <2> QED BY <1>1, <1>2, <1>3, <2>2, <2>3 DEF Works
<1> QED BY <1>4, <1>5

LEMMA PartsDoneWorks ==
  ASSUME BInv, NEW f \in Flows, PartsDone(f)
  PROVE  Works(f)
<1>1. /\ pc[f] = "upload" /\ flying[f] = {} /\ UNCHANGED <<server, added, shown>>
      /\ Active(f) /\ Begun /\ ~busy
  BY DEF PartsDone, Active, Begun, BInv, FlowsOK
<1>2. Served(f)
  BY <1>1, NothingServed
<1>3. CASE Save(f, WithStatus(f, "finalizing")) /\ Goto(f, "complete")
  <2>1. Turned(f)
    BY <1>1, <1>3, Went
  <2>2. Written(f)
    BY <1>1, <1>3, StatusWritten DEF Save
  <2> QED BY <1>1, <1>2, <2>1, <2>2 DEF Works
<1>4. CASE End(f) /\ UNCHANGED <<saved, copy>>
  <2>1. Turned(f)
    BY <1>1, <1>4, Went DEF End
  <2>2. Written(f)
    BY <1>1, <1>4, Stood
  <2> QED BY <1>1, <1>2, <2>1, <2>2 DEF Works
<1> QED BY <1>3, <1>4 DEF PartsDone

LEMMA CompleteWorks ==
  ASSUME BInv, NEW f \in Flows, Complete(f)
  PROVE  Works(f)
<1>1. /\ pc[f] = "complete" /\ UNCHANGED <<added, shown>>
      /\ Active(f) /\ Begun /\ ~busy
  BY DEF Complete, Active, Begun, BInv, FlowsOK
<1>2. CASE ServeComplete /\ Goto(f, "poll") /\ UNCHANGED <<saved, copy>>
  <2>1. Served(f)
    BY <1>1, <1>2, CallServed DEF Serve
  <2>2. Turned(f)
    BY <1>1, <1>2, Went
  <2>3. Written(f)
    BY <1>1, <1>2, Stood
  <2> QED BY <1>1, <2>1, <2>2, <2>3 DEF Works
<1>3. CASE UNCHANGED server /\ Fail(f)
  BY <1>1, <1>3, NothingServed, FailWorks
<1> QED BY <1>2, <1>3 DEF Complete

\* The browser is told COMPLETE of a catalogued file only.
LEMMA ToldIsCatalogued ==
  ASSUME BInv, ToldComplete
  PROVE  catalogued
  BY DEF ToldComplete, Told, BInv, ServerOK

LEMMA PollWorks ==
  ASSUME BInv, NEW f \in Flows, Poll(f)
  PROVE  Works(f)
<1>1. /\ pc[f] = "poll" /\ UNCHANGED <<server, added, shown>> /\ Active(f)
  BY DEF Poll, Active
<1>2. Served(f)
  BY <1>1, NothingServed
<1>3. CASE ToldComplete /\ Delete(f, WithStatus(f, "complete")) /\ End(f)
  <2>1. Turned(f)
    BY <1>3, Went DEF End
  <2>2. Written(f)
    BY <1>1, <1>3, ToldIsCatalogued, StatusWritten DEF Delete
  <2> QED BY <1>1, <1>2, <2>1, <2>2 DEF Works
<1>4. CASE Fail(f)
  BY <1>1, <1>2, <1>4, FailWorks
<1> QED BY <1>3, <1>4 DEF Poll

LEMMA StatusSetWorks ==
  ASSUME BInv, NEW f \in Flows, Paused(f) \/ Resumed(f)
  PROVE  Works(f)
<1>1. /\ pc[f] \in {"pause", "resume"} /\ UNCHANGED <<added, saved, shown, copy>>
      /\ Active(f) /\ Served(f)
  BY CallServed DEF Paused, Resumed, Serve, Active
<1>2. Turned(f)
  BY <1>1, Went DEF Paused, Resumed, End
<1>3. Written(f)
  BY <1>1, Stood
<1> QED BY <1>1, <1>2, <1>3 DEF Works

\* Only a task that has a session goes on to resume it.
LEMMA RehashWorks ==
  ASSUME BInv, NEW f \in Flows, Rehash(f)
  PROVE  Works(f)
<1>1. /\ pc[f] = "rehash" /\ UNCHANGED <<server, added, shown>> /\ Active(f)
      /\ task(f) \in Task /\ on[f] \in Copies
  BY BInvTyped DEF Rehash, Active
<1>2. Served(f)
  BY <1>1, NothingServed
<1>3. busy => ~task(f).id
  BY <1>1 DEF BInv, Records, Good, Early
<1>4. CASE /\ Goto(f, IF task(f).id THEN "resume" ELSE "get")
           /\ UNCHANGED <<saved, copy>>
  <2>1. Turned(f)
    BY <1>1, <1>3, <1>4, Went
  <2>2. Written(f)
    BY <1>1, <1>4, Stood
  <2> QED BY <1>1, <1>2, <2>1, <2>2 DEF Works
<1>5. CASE Save(f, WithStatus(f, "paused")) /\ End(f)
  <2>1. Turned(f)
    BY <1>5, Went DEF End
  <2>2. Written(f)
    BY <1>1, <1>5, StatusWritten DEF Save
  <2> QED BY <1>1, <1>2, <2>1, <2>2 DEF Works
<1>6. CASE Fail(f)
  BY <1>1, <1>2, <1>6, FailWorks
<1> QED BY <1>4, <1>5, <1>6 DEF Rehash

LEMMA GetWorks ==
  ASSUME BInv, NEW f \in Flows, Get(f)
  PROVE  Works(f)
<1>1. /\ pc[f] = "get" /\ UNCHANGED <<server, added, shown>> /\ Active(f)
      /\ task(f) \in Task /\ on[f] \in Copies
  BY BInvTyped DEF Get, Active
<1>2. Served(f)
  BY <1>1, NothingServed
<1>3. task(f).id => ~busy
  BY <1>1 DEF BInv, Records, Good, Early
<1>4. CASE Fail(f)
  BY <1>1, <1>2, <1>4, FailWorks
<1>5. CASE ToldComplete /\ Delete(f, WithStatus(f, "complete")) /\ End(f)
  <2>1. Turned(f)
    BY <1>5, Went DEF End
  <2>2. Written(f)
    BY <1>1, <1>5, ToldIsCatalogued, StatusWritten DEF Delete
  <2> QED BY <1>1, <1>2, <2>1, <2>2 DEF Works
<1>6. CASE task(f).id /\ Save(f, WithStatus(f, "uploading")) /\ SendParts(f, parts)
  <2>1. Turned(f)
    BY <1>3, <1>6, PartsTurned
  <2>2. Written(f)
    BY <1>1, <1>3, <1>6, StatusWritten DEF Save, Named
  <2> QED BY <1>1, <1>2, <2>1, <2>2 DEF Works
<1> QED BY <1>4, <1>5, <1>6 DEF Get

LEMMA FailedCallWorks ==
  ASSUME BInv, NEW f \in Flows, CallFails(f)
  PROVE  Works(f)
<1>1. UNCHANGED <<added, shown>> /\ Served(f)
  BY CallServed, NothingServed DEF CallFails
<1>2. CASE pc[f] \in {"initiate", "complete", "poll", "resume", "get"} /\ Fail(f)
  BY <1>1, <1>2, FailWorks DEF Active
<1>3. CASE pc[f] = "pause" /\ Save(f, WithStatus(f, "uploading")) /\ End(f)
  <2>1. Active(f) /\ ~busy
    BY <1>3 DEF Active, BInv, FlowsOK
  <2>2. Turned(f)
    BY <1>3, Went DEF End
  <2>3. Written(f)
    BY <1>3, <2>1, StatusWritten DEF Save
  <2> QED BY <1>1, <1>3, <2>1, <2>2, <2>3 DEF Works
<1>4. CASE pc[f] = "cancel" /\ End(f) /\ UNCHANGED <<saved, copy>>
  <2>1. Active(f)
    BY <1>4 DEF Active
  <2>2. Turned(f)
    BY <1>4, Went DEF End
  <2>3. Written(f)
    BY <1>4, <2>1, Stood
  <2> QED BY <1>1, <1>4, <2>1, <2>2, <2>3 DEF Works
<1> QED BY <1>2, <1>3, <1>4 DEF CallFails

\* The steps of a flow but those of restore and of a cancellation.
Runs(f) ==
  \/ Hash(f) \/ Initiate(f) \/ InitiateRefused(f) \/ Timer(f)
  \/ \E p \in Parts : PartSent(f, p) \/ PartFailed(f, p)
  \/ PartsDone(f) \/ Complete(f) \/ Poll(f)
  \/ Paused(f) \/ Rehash(f) \/ Resumed(f) \/ Get(f) \/ CallFails(f)

LEMMA RunWorks ==
  ASSUME BInv, NEW f \in Flows, Runs(f)
  PROVE  Works(f)
  BY HashWorks, InitiateWorks, RefusedWorks, TimerWorks, PartWorks, PartsDoneWorks,
     CompleteWorks, PollWorks, StatusSetWorks, RehashWorks, GetWorks, FailedCallWorks
     DEF Runs

-----------------------------------------------------------------------------
(* Clicks, restore, and what happens outside the browser.                  *)

LEMMA RecordsSame ==
  ASSUME BInv, UNCHANGED <<copy, busy>>, catalogued => catalogued',
         saved' \in {saved, NoTask}, shown' \in Copies \union {NoCopy}
  PROVE  Records'
<1>1. \A t : Good(t) => Good(t)'
  BY DEF Good
<1>2. Good(NoTask)
  BY NoTaskIs DEF Good, Finished, Early
<1>3. copy \in [Copies -> Task] /\ (\A c \in Copies : Good(copy[c])) /\ Good(saved)
  BY DEF BInv, Records
<1>4. (\A c \in Copies : Good(copy[c]))'
  BY <1>3 DEF Good
<1>5. Good(saved)'
  BY <1>2, <1>3 DEF Good
<1> QED BY <1>3, <1>4, <1>5 DEF Records

LEMMA RecordSet ==
  ASSUME BInv, NEW c \in Copies, NEW t, Good(t), copy' = [copy EXCEPT ![c] = t],
         UNCHANGED <<busy, catalogued>>,
         saved' \in {saved, t, NoTask}, shown' \in Copies \union {NoCopy}
  PROVE  Records'
<1>1. Good(NoTask)
  BY NoTaskIs DEF Good, Finished, Early
<1>2. copy \in [Copies -> Task] /\ (\A d \in Copies : Good(copy[d])) /\ Good(saved)
  BY DEF BInv, Records
<1>3. \A d \in Copies : Good(copy'[d])
  BY <1>2
<1>4. (\A d \in Copies : Good(copy[d]))'
  BY <1>3 DEF Good
<1>5. Good(saved)'
  BY <1>1, <1>2 DEF Good
<1>6. copy' \in [Copies -> Task]
  BY <1>2 DEF Good
<1> QED BY <1>4, <1>5, <1>6 DEF Records

LEMMA FlowSet ==
  ASSUME BInv, NEW f \in Flows, NEW call \in Awaits, NEW c \in Copies \union {NoCopy},
         pc' = [pc EXCEPT ![f] = call], on' = [on EXCEPT ![f] = c],
         UNCHANGED <<queue, flying>>, flying[f] = {},
         call \notin {"idle", "load"} => c \in Copies,
         busy' => busy, busy => call \notin Later
  PROVE  FlowsOK'
  BY DEF BInv, FlowsOK, Active

LEMMA FlowEnds ==
  ASSUME BInv, NEW f \in Flows, pc[f] \in {"load", "reconcile", "cancel"}, End(f),
         busy' => busy
  PROVE  FlowsOK'
<1>1. /\ pc' = [pc EXCEPT ![f] = "idle"] /\ on' = [on EXCEPT ![f] = on[f]]
      /\ UNCHANGED <<queue, flying>> /\ on[f] \in Copies \union {NoCopy}
  BY BInvTyped DEF End, Goto, sending
<1>2. flying[f] = {}
  BY DEF BInv, FlowsOK
<1> QED BY <1>1, <1>2, FlowSet

LEMMA ServerSame ==
  ASSUME BInv, UNCHANGED server
  PROVE  ServerOK' /\ UNCHANGED <<busy, catalogued>>
  BY DEF server, BInv, ServerOK

LEMMA ClicksKeepBInv ==
  ASSUME BInv, NEW f \in Flows,
         \/ \E c \in Copies : Add(f, c)
         \/ Pause(f) \/ Resume(f) \/ Cancel(f) \/ Navigate(f)
  PROVE  BInv'
<1>1. UNCHANGED server
  BY DEF Add, Pause, Resume, Cancel, Navigate
<1>2. ServerOK' /\ UNCHANGED <<busy, catalogued>>
  BY <1>1, ServerSame
<1>3. ASSUME NEW c \in Copies, Add(f, c)  PROVE BInv'
  <2> DEFINE t == [NoTask EXCEPT !.status = "hashing"]
  <2>1. Good(t)
    BY StatusSet, NoTaskIs DEF Good, Finished, Early
  <2>2. copy' = [copy EXCEPT ![c] = t] /\ saved' = t /\ shown' = c
    BY <1>3 DEF Add
  <2>3. Records'
    BY <1>2, <2>1, <2>2, RecordSet
  <2>4. FlowsOK'
    BY <1>2, <1>3, FlowSet DEF Add, Begin, Free, sending
  <2> QED BY <1>2, <2>3, <2>4 DEF BInv
<1>4. CASE Pause(f)
  <2> DEFINE t == [copy[shown] EXCEPT !.status = "paused"]
  <2>1. shown \in Copies /\ copy[shown] \in Task /\ Good(copy[shown])
        /\ copy[shown].status = "uploading"
    BY <1>4, BInvTyped DEF Pause, Click, BInv, Records
  <2>2. ~busy
    BY <2>1 DEF Good, Early
  <2>3. Good(t)
    BY <2>1, <2>2, StatusSet DEF Good, Finished
  <2>4. copy' = [copy EXCEPT ![shown] = t] /\ saved' = t /\ shown' = shown
    BY <1>4 DEF Pause
  <2>5. Records'
    BY <1>2, <2>1, <2>3, <2>4, RecordSet
  <2>6. FlowsOK'
    BY <1>2, <1>4, <2>1, <2>2, FlowSet DEF Pause, Begin, Free, sending
  <2> QED BY <1>2, <2>5, <2>6 DEF BInv
<1>5. CASE Resume(f)
  <2> DEFINE t == [copy[shown] EXCEPT !.status = "hashing"]
  <2>1. shown \in Copies /\ copy[shown] \in Task /\ Good(copy[shown])
    BY <1>5, BInvTyped DEF Resume, Click, BInv, Records
  <2>2. Good(t)
    BY <2>1, StatusSet DEF Good, Finished, Early
  <2>3. copy' = [copy EXCEPT ![shown] = t] /\ saved' = saved /\ shown' = shown
    BY <1>5 DEF Resume
  <2>4. Records'
    BY <1>2, <2>1, <2>2, <2>3, RecordSet
  <2>5. FlowsOK'
    BY <1>2, <1>5, <2>1, FlowSet DEF Resume, Begin, Free, sending
  <2> QED BY <1>2, <2>4, <2>5 DEF BInv
<1>6. CASE Cancel(f)
  <2>1. shown \in Copies /\ Good(copy[shown]) /\ UNCHANGED copy
    BY <1>6, BInvTyped DEF Cancel, Click, BInv, Records
  <2>2. saved' \in {saved, NoTask} /\ shown' \in {shown, NoCopy}
    BY <1>6 DEF Cancel
  <2>3. Records'
    BY <1>2, <2>1, <2>2, RecordsSame, BInvTyped
  <2>4. CASE copy[shown].id /\ Begin(f, shown, "cancel")
    <3>1. ~busy
      BY <2>1, <2>4 DEF Good, Early
    <3>2. FlowsOK'
      BY <1>2, <2>1, <2>4, <3>1, FlowSet DEF Begin, Free, sending
    <3> QED BY <1>2, <2>3, <3>2 DEF BInv
  <2>5. CASE UNCHANGED flows
    <3>1. FlowsOK'
      BY <1>2, <2>5 DEF flows, sending, BInv, FlowsOK, Active
    <3> QED BY <1>2, <2>3, <3>1 DEF BInv
  <2> QED BY <1>6, <2>4, <2>5 DEF Cancel
<1>7. CASE Navigate(f)
  <2>1. Records'
    BY <1>2, <1>7, RecordsSame, BInvTyped DEF Navigate
  <2>2. FlowsOK'
    BY <1>2, <1>7, FlowSet DEF Navigate, Begin, Free, sending
  <2> QED BY <1>2, <2>1, <2>2 DEF BInv
<1> QED BY <1>3, <1>4, <1>5, <1>6, <1>7

LEMMA CancelledKeepsBInv ==
  ASSUME BInv, NEW f \in Flows, Cancelled(f)
  PROVE  BInv'
<1>1. /\ pc[f] = "cancel" /\ End(f) /\ UNCHANGED copy
      /\ saved' \in {saved, NoTask} /\ shown' \in {shown, NoCopy}
      /\ ServeCancel \/ UNCHANGED server
  BY DEF Cancelled
<1>2. ServerOK' /\ UNCHANGED <<busy, catalogued>>
  BY <1>1, CallServed, ServerSame DEF Serve, Served
<1>3. Records'
  BY <1>1, <1>2, RecordsSame, BInvTyped
<1> QED BY <1>1, <1>2, <1>3, FlowEnds DEF BInv

\* A record that restore has read keeps its promise, whatever it writes back.
LEMMA ReconciledIs ==
  ASSUME BInv, NEW t \in Task, Good(t), NEW u \in {Reconciled(t), AsPaused(t)}
  PROVE  /\ Good(u) /\ u # NoTask /\ u.id = t.id /\ u.status # "uploading"
         /\ Named(t) => Named(u)
<1>1. CASE u = AsPaused(t)
  BY <1>1, StatusSet DEF AsPaused, Good, Finished, Early, Named
<1>2. CASE t.id /\ u = Reconciled(t)
  <2> DEFINE st == IF Told = "FAILED" THEN "failed" ELSE "paused"
             v == [t EXCEPT !.status = st]
  <2>1. v \in Task /\ v.status = st /\ v.id = t.id
    BY StatusSet
  <2>2. u = [v EXCEPT !.hash = TRUE]
    BY <1>2 DEF Reconciled, Task
  <2>3. u \in Task /\ u.hash /\ u.id = t.id /\ u.status = st
    BY <2>1, <2>2, HashSet
  <2> QED BY <1>2, <2>3, NoTaskIs DEF Good, Finished, Early, Named
<1> QED BY <1>1, <1>2 DEF Reconciled

LEMMA RestoreKeepsBInv ==
  ASSUME BInv, NEW f \in Flows,
         (\E c \in Copies : Load(f, c)) \/ Reconcile(f) \/ ReconcileFails(f)
  PROVE  BInv'
<1>1. UNCHANGED server /\ pc[f] \in {"load", "reconcile"}
  BY DEF Load, Reconcile, ReconcileFails
<1>2. ServerOK' /\ UNCHANGED <<busy, catalogued>> /\ flying[f] = {}
  BY <1>1, ServerSame DEF BInv, FlowsOK
<1>3. ASSUME NEW c \in Copies, Load(f, c)  PROVE BInv'
  <2>1. CASE saved = NoTask /\ shown' = NoCopy /\ End(f) /\ UNCHANGED copy
    <3>1. Records'
      BY <1>2, <1>3, <2>1, RecordsSame DEF Load
    <3> QED BY <1>1, <1>2, <2>1, <3>1, FlowEnds DEF BInv
  <2>2. CASE /\ copy' = [copy EXCEPT ![c] = saved]
             /\ on' = [on EXCEPT ![f] = c] /\ pc' = [pc EXCEPT ![f] = "reconcile"]
             /\ UNCHANGED <<shown, sending>>
    <3>1. Good(saved)
      BY DEF BInv, Records
    <3>2. Records'
      BY <1>2, <1>3, <2>2, <3>1, RecordSet, BInvTyped DEF Load
    <3>3. FlowsOK'
      BY <1>2, <2>2, FlowSet DEF sending
    <3> QED BY <1>2, <3>2, <3>3 DEF BInv
  <2> QED BY <1>3, <2>1, <2>2 DEF Load
<1>4. CASE Reconcile(f) \/ ReconcileFails(f)
  <2>1. pc[f] = "reconcile" /\ End(f) /\ on[f] \in Copies /\ task(f) \in Task
    BY <1>4, BInvTyped DEF Reconcile, ReconcileFails, Active
  <2>2. Good(task(f))
    BY <2>1 DEF BInv, Records
  <2>3. CASE saved' = NoTask /\ shown' = NoCopy /\ UNCHANGED copy
    BY <1>2, <2>1, <2>3, RecordsSame, FlowEnds DEF BInv
  <2>4. CASE /\ shown' = on[f]
             /\ \E u \in {Reconciled(task(f)), AsPaused(task(f))} :
                  copy' = [copy EXCEPT ![on[f]] = u] /\ saved' = u
    <3>1. PICK u \in {Reconciled(task(f)), AsPaused(task(f))} :
            copy' = [copy EXCEPT ![on[f]] = u] /\ saved' = u
      BY <2>4
    <3>2. Good(u)
      BY <2>1, <2>2, ReconciledIs
    <3>3. Records'
      BY <1>2, <2>1, <2>4, <3>1, <3>2, RecordSet
    <3> QED BY <1>2, <2>1, <3>3, FlowEnds DEF BInv
  <2> QED BY <1>4, <2>3, <2>4 DEF Reconcile, ReconcileFails, Save, Assign
<1> QED BY <1>3, <1>4

LEMMA ReloadKeepsBInv ==
  ASSUME BInv, NEW f \in Flows, Reload(f)
  PROVE  BInv' /\ (session' # "NONE" => Begun)
<1>1. ServerOK' /\ UNCHANGED <<busy, catalogued>> /\ (session' # "NONE" => Begun)
  <2>1. CASE UNCHANGED server
    BY <2>1, ServerSame DEF server, Begun
  <2>2. ASSUME NEW g \in Flows, Serve(g)
        PROVE  ServerOK' /\ UNCHANGED <<busy, catalogued>> /\ (session' # "NONE" => Begun)
    BY <2>2, CallServed DEF Served
  <2>3. ASSUME NEW g \in Flows, NEW p \in flying[g], ServePart(p)
        PROVE  ServerOK' /\ UNCHANGED <<busy, catalogued>> /\ (session' # "NONE" => Begun)
    BY <2>3, PartServed DEF Served
  <2> QED BY <2>1, <2>2, <2>3 DEF Reload
<1>2. /\ pc' = [g \in Flows |-> IF g = f THEN "load" ELSE "idle"]
      /\ on' = [g \in Flows |-> NoCopy]
      /\ queue' = [g \in Flows |-> {}] /\ flying' = [g \in Flows |-> {}]
      /\ copy' = [c \in Copies |-> NoTask] /\ shown' = NoCopy /\ saved' = saved
  BY DEF Reload
<1>3. FlowsOK'
  BY <1>2 DEF FlowsOK, Active
<1>4. Records'
  <2>1. \A t : Good(t)' <=> Good(t)
    BY <1>1 DEF Good
  <2>2. Good(NoTask) /\ Good(saved) /\ NoTask \in Task
    BY NoTaskIs DEF Good, Finished, Early, BInv, Records
  <2>3. copy' \in [Copies -> Task] /\ \A c \in Copies : Good(copy'[c])
    BY <1>2, <2>2
  <2> QED BY <1>1, <1>2, <2>2, <2>3 DEF Records, Good
<1> QED BY <1>1, <1>3, <1>4 DEF BInv

LEMMA OutsideKeepsBInv ==
  ASSUME BInv, HandleUploadComplete \/ OtherEnds \/ UNCHANGED vars
  PROVE  BInv' /\ (catalogued => catalogued')
<1>1. /\ ServerOK' /\ (catalogued => catalogued') /\ (busy' => busy)
      /\ UNCHANGED <<saved, shown, copy, flows>>
  <2>1. CASE HandleUploadComplete
    <3>1. ServerOK /\ announced /\ ~busy /\ UNCHANGED <<parts, busy>>
          /\ UNCHANGED <<saved, shown, copy, flows>>
      BY <2>1 DEF HandleUploadComplete, BInv, ServerOK
    <3>2. CASE UNCHANGED <<session, catalogued>>
      BY <3>1, <3>2 DEF ServerOK
    <3>3. CASE session' = "COMPLETE" /\ catalogued' = TRUE
      BY <3>1, <3>3 DEF ServerOK, Sessions
    <3> QED BY <2>1, <3>2, <3>3 DEF HandleUploadComplete
  <2>2. CASE OtherEnds
    BY <2>2 DEF OtherEnds, BInv, ServerOK
  <2>3. CASE UNCHANGED vars
    BY <2>3, ServerSame DEF vars
  <2> QED BY <2>1, <2>2, <2>3
<1>2. Records'
  <2>1. \A t : Good(t) => Good(t)'
    BY <1>1 DEF Good
  <2> QED BY <1>1, <2>1 DEF BInv, Records, Good
<1>3. FlowsOK'
  BY <1>1 DEF flows, sending, BInv, FlowsOK, Active
<1> QED BY <1>1, <1>2, <1>3 DEF BInv

LEMMA InitBInv == Init => BInv
<1> SUFFICES ASSUME Init  PROVE BInv
  OBVIOUS
<1>1. ServerOK
  BY DEF Init, ServerOK, Sessions
<1>2. Good(NoTask)
  BY NoTaskIs DEF Good, Finished, Early
<1>3. Records
  BY <1>2, NoTaskIs DEF Init, Records
<1>4. FlowsOK
  BY DEF Init, FlowsOK, Active
<1> QED BY <1>1, <1>3, <1>4 DEF BInv

LEMMA NextKeepsBInv == BInv /\ [Next]_vars => BInv'
<1> SUFFICES ASSUME BInv, [Next]_vars  PROVE BInv'
  OBVIOUS
<1>1. ASSUME NEW f \in Flows, Step(f)  PROVE BInv'
  <2>1. CASE Runs(f)
    BY <2>1, RunWorks, WorkKeepsBInv
  <2>2. CASE Cancelled(f)
    BY <2>2, CancelledKeepsBInv
  <2>3. CASE (\E c \in Copies : Load(f, c)) \/ Reconcile(f) \/ ReconcileFails(f)
    BY <2>3, RestoreKeepsBInv
  <2> QED BY <1>1, <2>1, <2>2, <2>3 DEF Step, Runs
<1>2. ASSUME NEW f \in Flows, User(f)  PROVE BInv'
  BY <1>2, ClicksKeepBInv, ReloadKeepsBInv DEF User
<1> QED BY <1>1, <1>2, OutsideKeepsBInv DEF Next

LEMMA BInvAlways == Spec => []BInv
  BY InitBInv, NextKeepsBInv, PTL DEF Spec

\* The session, the records and the flows hold values of their kinds, and every
\* part sent or to send is one of the file: for any number of each.
THEOREM TypeCorrect == Spec => []TypeOK
<1>1. BInv => TypeOK
  BY BInvTyped DEF TypeOK, Sessions, Parts
<1> QED BY <1>1, BInvAlways, PTL

\* hashAndUpload, initiate, waitForComplete, resume and restore: whatever the
\* user does and whichever calls fail, a task reads complete or instant only
\* when its file is in the catalogue.
THEOREM FinishedIsCataloguedAlways == Spec => []FinishedIsCatalogued
<1>1. BInv => FinishedIsCatalogued
  BY DEF BInv, Records, Good, Finished, FinishedIsCatalogued
<1> QED BY <1>1, BInvAlways, PTL

-----------------------------------------------------------------------------
(* A record that can be resumed, unless the user cancels.  Views are not     *)
(* left either: restore replaces the shown object under its flows.           *)

KeepsRecords == "cancel" \notin Ops /\ "navigate" \notin Ops

LEMMA InitKInv == Init => KInv
  BY NoTaskIs DEF Init, KInv, OneTask, RestoreAlone, Untouched, RecordsKept, Begun, Active, Free

\* Nobody has added the file, so there is nothing to lose.
LEMMA AddKeepsKInv ==
  ASSUME BInv, KInv, NEW f \in Flows, NEW c \in Copies, Add(f, c)
  PROVE  KInv'
<1> DEFINE t == [NoTask EXCEPT !.status = "hashing"]
<1>1. /\ ~added /\ added' = TRUE /\ pc[f] = "idle" /\ UNCHANGED server
      /\ pc' = [pc EXCEPT ![f] = "hash"] /\ on' = [on EXCEPT ![f] = c]
      /\ UNCHANGED <<queue, flying>>
      /\ copy' = [copy EXCEPT ![c] = t] /\ saved' = t /\ shown' = c
  BY DEF Add, Begin, Free, sending
<1>2. t # NoTask /\ ~t.id /\ t.status = "hashing"
  BY StatusSet, NoTaskIs
<1>3. session' # "CANCELLED" /\ \A g \in Flows : pc'[g] # "cancel"
  BY <1>1, BInvTyped DEF KInv, server
<1>4. ASSUME ~catalogued  PROVE (OneTask /\ RestoreAlone /\ Untouched /\ RecordsKept)'
  <2>1. /\ session = "NONE" /\ shown = NoCopy
        /\ (\A g \in Flows : pc[g] = "idle" /\ flying[g] = {})
        /\ (\A d \in Copies : copy[d] = NoTask)
    BY <1>1, <1>4 DEF KInv, Untouched, Free
  <2>2. /\ copy'[c] = t /\ (\A d \in Copies \ {c} : copy'[d] = NoTask)
        /\ pc'[f] = "hash" /\ on'[f] = c
        /\ (\A g \in Flows \ {f} : pc'[g] = "idle")
        /\ (\A g \in Flows : flying'[g] = {}) /\ session' = "NONE"
    BY <1>1, <2>1, BInvTyped DEF server
  <2>3. OneTask'
    BY <1>1, <1>2, <2>2 DEF OneTask, Active
  <2>4. RestoreAlone' /\ Untouched'
    BY <1>1, <2>2 DEF RestoreAlone, Untouched
  <2>5. ~Begun'
    BY <2>2 DEF Begun
  <2>6. RecordsKept'
    BY <1>1, <1>2, <2>2, <2>5 DEF RecordsKept, Kept
  <2> QED BY <2>3, <2>4, <2>6
<1>5. catalogued' = catalogued
  BY <1>1 DEF server
<1> QED BY <1>3, <1>4, <1>5 DEF KInv

\* Pause and Resume are clicked on the one task there is.
LEMMA ClickKeepsKInv ==
  ASSUME BInv, KInv, NEW f \in Flows, NEW t \in Task, NEW call \in {"pause", "rehash"},
         UNCHANGED <<server, added, shown, queue, flying>>,
         shown # NoCopy, Free(f),
         t # NoTask, t.id = copy[shown].id, t.hash = copy[shown].hash,
         t.status # "uploading",
         copy' = [copy EXCEPT ![shown] = t], saved' \in {saved, t},
         pc' = [pc EXCEPT ![f] = call], on' = [on EXCEPT ![f] = shown],
         call = "pause" => copy[shown].status = "uploading" /\ saved' = t
  PROVE  KInv'
<1>1. /\ shown \in Copies /\ copy \in [Copies -> Task] /\ pc \in [Flows -> Awaits]
      /\ on \in [Flows -> Copies \union {NoCopy}] /\ pc[f] = "idle" /\ flying[f] = {}
      /\ session' = session /\ catalogued' = catalogued
  BY BInvTyped DEF Free, server
<1>2. session' # "CANCELLED" /\ \A g \in Flows : pc'[g] # "cancel"
  BY <1>1 DEF KInv
<1>3. ASSUME ~catalogued  PROVE (OneTask /\ RestoreAlone /\ Untouched /\ RecordsKept)'
  <2>1. OneTask /\ RestoreAlone /\ Untouched /\ RecordsKept
    BY <1>3 DEF KInv
  <2>2. copy[shown] # NoTask /\ \A c \in Copies \ {shown} : copy[c] = NoTask
    BY <1>1, <2>1 DEF OneTask
  <2>3. copy'[shown] = t /\ \A c \in Copies \ {shown} : copy'[c] = NoTask
    BY <1>1, <2>2
  <2>4. OneTask'
    <3>1. \A g \in Flows : Active(g)' => on'[g] = shown
      BY <1>1, <2>1, <2>2, BInvTyped DEF OneTask, Active
    <3> QED BY <1>1, <2>3, <3>1 DEF OneTask
  <2>5. \A g \in Flows : pc[g] \notin {"load", "reconcile"}
    BY <2>1 DEF RestoreAlone
  <2>6. RestoreAlone'
    BY <1>1, <2>5 DEF RestoreAlone
  <2>7. Untouched'
    BY <2>1 DEF Untouched
  <2>8. Kept(copy[shown]) /\ (saved.id => t.id)
    BY <1>1, <2>1, <2>2 DEF RecordsKept
  <2>9. call = "pause" => Named(t)
    BY <2>8 DEF Kept, Named
  <2>10. Begun' => Begun \/ call = "pause"
    BY <1>1 DEF Begun
  <2>11. Kept(t)'
    <3>1. Begun' => Named(t)
      BY <2>8, <2>9, <2>10 DEF Kept, Named
    <3>2. t.id => session' # "NONE"
      BY <1>1, <2>8 DEF Kept
    <3> QED BY <3>1, <3>2 DEF Kept
  <2>14. (\A c \in Copies : copy[c] # NoTask => Kept(copy[c]))'
    BY <2>3, <2>11 DEF Kept
  <2>15. \A c \in Copies : copy'[c] # NoTask => copy'[c] = t
    BY <2>3
  <2>16. (Begun' => Named(t)) /\ (t.id => session' # "NONE")
    BY <2>11 DEF Kept
  <2>12. ASSUME saved' = t  PROVE RecordsKept'
    <3>1. (Begun => Named(saved))' /\ (saved.id => session # "NONE")'
          /\ (saved.status = "uploading" => Named(saved))'
      BY <2>12, <2>16 DEF Named
    <3>2. \A c \in Copies : copy'[c] # NoTask => copy'[c].id = t.id
      BY <2>15
    <3> QED BY <2>12, <2>14, <3>1, <3>2 DEF RecordsKept
  <2>13. ASSUME saved' = saved, call # "pause"  PROVE RecordsKept'
    <3>1. Begun' => Begun
      BY <2>10, <2>13
    <3>2. (Begun => Named(saved)) /\ (saved.id => session # "NONE")
          /\ (saved.status = "uploading" => Named(saved))
      BY <2>1 DEF RecordsKept
    <3>3. (Begun => Named(saved))' /\ (saved.id => session # "NONE")'
          /\ (saved.status = "uploading" => Named(saved))'
      BY <1>1, <2>13, <3>1, <3>2 DEF Named
    <3>4. saved'.id => t.id
      BY <2>8, <2>13
    <3> QED BY <2>14, <2>15, <3>3, <3>4 DEF RecordsKept
  <2> QED BY <2>4, <2>6, <2>7, <2>12, <2>13
<1> QED BY <1>1, <1>2, <1>3 DEF KInv

LEMMA PauseKeepsKInv ==
  ASSUME BInv, KInv, NEW f \in Flows, Pause(f) \/ Resume(f)
  PROVE  KInv'
<1>1. shown \in Copies /\ copy[shown] \in Task /\ shown # NoCopy /\ Free(f)
  BY BInvTyped DEF Pause, Resume, Click
<1>2. CASE Pause(f)
  <2> DEFINE t == [copy[shown] EXCEPT !.status = "paused"]
  <2>1. /\ t \in Task /\ t # NoTask /\ t.id = copy[shown].id
        /\ t.hash = copy[shown].hash /\ t.status # "uploading"
    BY <1>1, StatusSet
  <2>2. /\ copy' = [copy EXCEPT ![shown] = t] /\ saved' = t
        /\ copy[shown].status = "uploading"
        /\ pc' = [pc EXCEPT ![f] = "pause"] /\ on' = [on EXCEPT ![f] = shown]
        /\ UNCHANGED <<server, added, shown, queue, flying>>
    BY <1>2 DEF Pause, Begin, sending
  <2> HIDE DEF t
  <2> QED BY <1>1, <2>1, <2>2, ClickKeepsKInv
<1>3. CASE Resume(f)
  <2> DEFINE t == [copy[shown] EXCEPT !.status = "hashing"]
  <2>1. /\ t \in Task /\ t # NoTask /\ t.id = copy[shown].id
        /\ t.hash = copy[shown].hash /\ t.status # "uploading"
    BY <1>1, StatusSet
  <2>2. /\ copy' = [copy EXCEPT ![shown] = t] /\ saved' = saved
        /\ pc' = [pc EXCEPT ![f] = "rehash"] /\ on' = [on EXCEPT ![f] = shown]
        /\ UNCHANGED <<server, added, shown, queue, flying>>
    BY <1>3 DEF Resume, Begin, sending
  <2> HIDE DEF t
  <2> QED BY <1>1, <2>1, <2>2, ClickKeepsKInv
<1> QED BY <1>2, <1>3

\* restore shows the record it has read, and drops only what the server has
\* finished or never heard of.
LEMMA RestoreKeepsKInv ==
  ASSUME BInv, KInv, NEW f \in Flows,
         (\E c \in Copies : Load(f, c)) \/ Reconcile(f) \/ ReconcileFails(f)
  PROVE  /\ KInv'
         /\ ~catalogued /\ saved.id => saved'.id
<1>1. /\ UNCHANGED server /\ added' = added /\ pc[f] \in {"load", "reconcile"}
      /\ pc \in [Flows -> Awaits] /\ copy \in [Copies -> Task] /\ saved \in Task
      /\ on \in [Flows -> Copies \union {NoCopy}]
  BY BInvTyped DEF Load, Reconcile, ReconcileFails
<1>2. session' = session /\ catalogued' = catalogued
  BY <1>1 DEF server
<1>3. PICK call \in {"idle", "reconcile"} :
        /\ pc' = [pc EXCEPT ![f] = call]
        /\ UNCHANGED <<queue, flying>>
        /\ call = "reconcile" => pc[f] = "load"
  BY DEF Load, Reconcile, ReconcileFails, End, Goto, sending
<1>4. session' # "CANCELLED" /\ \A g \in Flows : pc'[g] # "cancel"
  BY <1>1, <1>2, <1>3 DEF KInv
<1>5. ASSUME ~catalogued
      PROVE  /\ (OneTask /\ RestoreAlone /\ Untouched /\ RecordsKept)'
             /\ saved.id => saved'.id
  <2>1. OneTask /\ RestoreAlone /\ Untouched /\ RecordsKept
    BY <1>5 DEF KInv
  <2>2. /\ shown = NoCopy /\ flying[f] = {} /\ added
        /\ \A g \in Flows \ {f} : pc[g] = "idle" /\ flying[g] = {}
    BY <1>1, <2>1 DEF RestoreAlone, Untouched, Free
  <2>3. /\ pc'[f] = call /\ flying'[f] = {}
        /\ \A g \in Flows \ {f} : pc'[g] = "idle" /\ flying'[g] = {}
    BY <1>1, <1>3, <2>2
  <2>4. Begun' => Begun
    BY <1>2, <2>3 DEF Begun
  <2>5. Untouched'
    BY <1>1, <2>2 DEF Untouched
  <2>6. ASSUME NEW c \in Copies, Load(f, c)
        PROVE  (OneTask /\ RestoreAlone /\ RecordsKept)' /\ (saved.id => saved'.id)
    <3>1. saved' = saved /\ pc[f] = "load" /\ (\A d \in Copies : copy[d] = NoTask)
      BY <2>1, <2>6 DEF Load, RestoreAlone
    <3>2. CASE shown' = NoCopy /\ End(f) /\ UNCHANGED copy
      <4>1. pc'[f] = "idle"
        BY <1>1, <3>2 DEF End, Goto
      <4>2. OneTask' /\ RestoreAlone'
        BY <2>3, <3>1, <3>2, <4>1 DEF OneTask, RestoreAlone, Active
      <4>3. RecordsKept'
        BY <1>2, <2>1, <2>4, <3>1, <3>2 DEF RecordsKept
      <4> QED BY <3>1, <4>2, <4>3
    <3>3. CASE /\ saved # NoTask
               /\ copy' = [copy EXCEPT ![c] = saved]
               /\ on' = [on EXCEPT ![f] = c] /\ pc' = [pc EXCEPT ![f] = "reconcile"]
               /\ UNCHANGED <<shown, sending>>
      <4>1. /\ copy'[c] = saved /\ (\A d \in Copies \ {c} : copy'[d] = NoTask)
            /\ on'[f] = c /\ pc'[f] = "reconcile"
        BY <1>1, <3>1, <3>3
      <4>2. OneTask'
        BY <2>2, <2>3, <3>3, <4>1 DEF OneTask, Active
      <4>3. RestoreAlone'
        BY <2>2, <2>3, <3>3, <4>1 DEF RestoreAlone, Free
      <4>4. /\ Begun' => Named(saved)
            /\ saved.id => session' # "NONE"
            /\ saved.status = "uploading" => Named(saved)
        BY <1>2, <2>1, <2>4 DEF RecordsKept
      <4>5. RecordsKept'
        BY <3>1, <4>1, <4>4 DEF RecordsKept, Kept
      <4> QED BY <3>1, <4>2, <4>3, <4>5
    <3> QED BY <2>6, <3>2, <3>3 DEF Load
  <2>7. ASSUME Reconcile(f) \/ ReconcileFails(f)
        PROVE  (OneTask /\ RestoreAlone /\ RecordsKept)' /\ (saved.id => saved'.id)
    <3> DEFINE t == task(f)
    <3>1. /\ pc[f] = "reconcile" /\ End(f) /\ on' = on
          /\ on[f] \in Copies /\ t \in Task /\ Good(t)
      BY <2>7, BInvTyped DEF Reconcile, ReconcileFails, Active, BInv, Records, End, Goto
    <3>2. pc'[f] = "idle"
      BY <1>1, <3>1 DEF End, Goto
    <3>3. t # NoTask /\ (\A c \in Copies \ {on[f]} : copy[c] = NoTask)
          /\ Kept(t) /\ (saved.id => t.id)
      BY <2>1, <3>1 DEF OneTask, Active, RecordsKept
    <3>4. RestoreAlone'
      BY <2>3, <3>2 DEF RestoreAlone
    <3>5. CASE Gone(t) /\ saved' = NoTask /\ shown' = NoCopy /\ UNCHANGED copy
      <4>1. ~Named(t)
        BY <1>5, <3>1, <3>3, <3>5
           DEF Gone, Good, Finished, Hashless, Named, Told, KInv, BInv, ServerOK
      <4>2. ~Begun /\ ~t.id
        BY <3>3, <4>1 DEF Kept, Named
      <4>3. ~saved.id
        BY <3>3, <4>2
      <4>4. OneTask'
        BY <2>1, <2>3, <3>2, <3>5 DEF OneTask, Active
      <4>5. RecordsKept'
        BY <1>2, <2>1, <2>4, <3>5, <4>2, NoTaskIs DEF RecordsKept, Kept
      <4> QED BY <3>4, <4>3, <4>4, <4>5
    <3>6. CASE /\ shown' = on[f]
               /\ \E u \in {Reconciled(t), AsPaused(t)} :
                    copy' = [copy EXCEPT ![on[f]] = u] /\ saved' = u
      <4>1. PICK u \in {Reconciled(t), AsPaused(t)} :
              copy' = [copy EXCEPT ![on[f]] = u] /\ saved' = u
        BY <3>6
      <4>2. /\ u # NoTask /\ u.id = t.id /\ u.status # "uploading"
            /\ Named(t) => Named(u)
        BY <3>1, ReconciledIs
      <4>3. copy'[on[f]] = u /\ (\A c \in Copies \ {on[f]} : copy'[c] = NoTask)
        BY <1>1, <3>1, <3>3, <4>1
      <4>4. OneTask'
        BY <2>3, <3>1, <3>2, <3>6, <4>2, <4>3 DEF OneTask, Active
      <4>5. (Begun' => Named(u)) /\ (u.id => session' # "NONE")
        BY <1>2, <2>4, <3>3, <4>2 DEF Kept
      <4>6. RecordsKept'
        BY <4>1, <4>2, <4>3, <4>5 DEF RecordsKept, Kept
      <4> QED BY <3>3, <3>4, <4>1, <4>2, <4>4, <4>6
    <3> QED BY <2>7, <3>5, <3>6 DEF Reconcile, ReconcileFails, Save, Assign
  <2> QED BY <2>5, <2>6, <2>7
<1> QED BY <1>2, <1>4, <1>5 DEF KInv

LEMMA ReloadKeepsKInv ==
  ASSUME BInv, KInv, NEW f \in Flows, Reload(f)
  PROVE  KInv'
<1>1. /\ session' # "NONE" => Begun
      /\ added /\ added' /\ saved' = saved
      /\ pc' = [g \in Flows |-> IF g = f THEN "load" ELSE "idle"]
      /\ flying' = [g \in Flows |-> {}]
      /\ copy' = [c \in Copies |-> NoTask] /\ shown' = NoCopy
  BY ReloadKeepsBInv DEF Reload
<1>2. session' # "CANCELLED" /\ catalogued' = catalogued
  <2>1. CASE UNCHANGED server
    BY <2>1 DEF server, KInv
  <2>2. ASSUME NEW g \in Flows, Serve(g)
        PROVE  session' # "CANCELLED" /\ catalogued' = catalogued
    BY <2>2, CallServed DEF Served, KInv
  <2>3. ASSUME NEW g \in Flows, NEW p \in flying[g], ServePart(p)
        PROVE  session' # "CANCELLED" /\ catalogued' = catalogued
    BY <2>3, PartServed DEF ServePart, KInv
  <2> QED BY <2>1, <2>2, <2>3 DEF Reload
<1>3. Begun' => session' # "NONE"
  BY <1>1 DEF Begun
<1>4. session # "NONE" => session' # "NONE"
  <2>1. CASE UNCHANGED server
    BY <2>1 DEF server
  <2>2. ASSUME NEW g \in Flows, Serve(g)  PROVE session # "NONE" => session' # "NONE"
    BY <2>2, CallServed DEF Served
  <2>3. ASSUME NEW g \in Flows, NEW p \in flying[g], ServePart(p)
        PROVE  session # "NONE" => session' # "NONE"
    BY <2>3 DEF ServePart
  <2> QED BY <2>1, <2>2, <2>3 DEF Reload
<1>5. ASSUME ~catalogued  PROVE (OneTask /\ RestoreAlone /\ Untouched /\ RecordsKept)'
  <2>1. OneTask' /\ RestoreAlone' /\ Untouched'
    BY <1>1 DEF OneTask, RestoreAlone, Untouched, Active, Free
  <2>2. /\ Begun => Named(saved)
        /\ saved.id => session # "NONE"
        /\ saved.status = "uploading" => Named(saved)
    BY <1>5 DEF KInv, RecordsKept
  <2>3. RecordsKept'
    BY <1>1, <1>3, <1>4, <2>2 DEF RecordsKept
  <2> QED BY <2>1, <2>3
<1>6. \A g \in Flows : pc'[g] # "cancel"
  BY <1>1
<1> QED BY <1>2, <1>5, <1>6 DEF KInv

LEMMA OutsideKeepsKInv ==
  ASSUME BInv, KInv, HandleUploadComplete \/ OtherEnds \/ UNCHANGED vars
  PROVE  KInv' /\ saved' = saved
<1>1. /\ UNCHANGED <<added, saved, shown, copy, flows>>
      /\ catalogued => catalogued'
      /\ session' = session \/ (session' = "COMPLETE" /\ catalogued')
  BY OutsideKeepsBInv DEF HandleUploadComplete, OtherEnds, vars, server
<1>2. session' # "CANCELLED" /\ \A f \in Flows : pc'[f] # "cancel"
  BY <1>1 DEF KInv, flows
<1>3. CASE catalogued'
  BY <1>1, <1>2, <1>3 DEF KInv
<1>4. CASE ~catalogued'
  <2>1. ~catalogued /\ session' = session
    BY <1>1, <1>4
  <2>2. OneTask /\ RestoreAlone /\ Untouched /\ RecordsKept
    BY <2>1 DEF KInv
  <2>3. UNCHANGED <<pc, on, flying>>
    BY <1>1 DEF flows, sending
  <2>4. OneTask' /\ RestoreAlone' /\ Untouched'
    BY <1>1, <2>1, <2>2, <2>3 DEF OneTask, RestoreAlone, Untouched, Active, Free
  <2>5. Begun' <=> Begun
    BY <2>1, <2>3 DEF Begun
  <2>6. RecordsKept'
    BY <1>1, <2>1, <2>2, <2>5 DEF RecordsKept, Kept
  <2> QED BY <1>1, <1>2, <2>4, <2>6 DEF KInv
<1> QED BY <1>1, <1>3, <1>4

\* A flow at work drops the id of a record only with the record, and only of a
\* file that is in the catalogue.
LEMMA WorkKeepsId ==
  ASSUME BInv, KInv, NEW f \in Flows, Works(f), saved.id, ~catalogued
  PROVE  saved'.id
<1>1. task(f).id
  BY BInvTyped DEF KInv, OneTask, RecordsKept, Works
<1> QED BY <1>1 DEF Works, Written

\* The invariant, and what each step does to the id of the record.
LEMMA NextKeepsKInv ==
  ASSUME KeepsRecords, BInv, KInv, [Next]_vars
  PROVE  /\ KInv'
         /\ saved.id /\ ~saved'.id => catalogued
<1>1. ASSUME NEW f \in Flows, Step(f)
      PROVE  KInv' /\ (saved.id /\ ~saved'.id => catalogued)
  <2>1. CASE Runs(f)
    BY <2>1, RunWorks, WorkKeepsKInv, WorkKeepsId
  <2>2. CASE (\E c \in Copies : Load(f, c)) \/ Reconcile(f) \/ ReconcileFails(f)
    BY <2>2, RestoreKeepsKInv
  <2>3. ~Cancelled(f)
    BY DEF Cancelled, KInv
  <2> QED BY <1>1, <2>1, <2>2, <2>3 DEF Step, Runs
<1>2. ASSUME NEW f \in Flows, User(f)
      PROVE  KInv' /\ (saved.id /\ ~saved'.id => catalogued)
  <2>1. ASSUME NEW c \in Copies, Add(f, c)
        PROVE  KInv' /\ (saved.id /\ ~saved'.id => catalogued)
    BY <2>1, AddKeepsKInv, NoTaskIs DEF Add, KInv, Untouched
  <2>2. CASE Pause(f) \/ Resume(f)
    <3>1. KInv'
      BY <2>2, PauseKeepsKInv
    <3>2. saved' = saved \/ saved'.id = copy[shown].id
      <4> DEFINE t == [copy[shown] EXCEPT !.status = "paused"]
      <4>1. copy[shown] \in Task
        BY <2>2, BInvTyped DEF Pause, Resume, Click
      <4>2. t.id = copy[shown].id
        BY <4>1, StatusSet
      <4>3. saved' \in {saved, t}
        BY <2>2 DEF Pause, Resume
      <4> QED BY <4>2, <4>3
    <3>3. saved.id /\ ~catalogued => copy[shown].id
      BY <2>2, BInvTyped DEF Pause, Resume, Click, KInv, OneTask, RecordsKept
    <3> QED BY <3>1, <3>2, <3>3
  <2>3. CASE Reload(f)
    BY <2>3, ReloadKeepsKInv DEF Reload
  <2>4. ~Cancel(f) /\ ~Navigate(f)
    BY DEF Cancel, Click, Navigate, KeepsRecords
  <2> QED BY <1>2, <2>1, <2>2, <2>3, <2>4 DEF User
<1>3. CASE HandleUploadComplete \/ OtherEnds \/ UNCHANGED vars
  BY <1>3, OutsideKeepsKInv
<1> QED BY <1>1, <1>2, <1>3 DEF Next

\* saveTask and deleteTask against pauses, resumptions, failed calls and reloads,
\* of a user who neither cancels nor visits other views meanwhile: while the
\* server holds an unfinished session, IndexedDB has a record that names it by
\* its id or by the file's hash.
THEOREM RecoverableAlways ==
  ASSUME KeepsRecords
  PROVE  Spec => []Recoverable
<1>1. Init => BInv /\ KInv
  BY InitBInv, InitKInv
<1>2. BInv /\ KInv /\ [Next]_vars => (BInv /\ KInv)'
  BY NextKeepsBInv, NextKeepsKInv
<1>3. BInv /\ KInv => Recoverable
  BY DEF KInv, RecordsKept, Begun, Recoverable, Writable
<1> QED BY <1>1, <1>2, <1>3, PTL DEF Spec

\* And the record goes on naming the session: nothing the store saves loses what
\* resume needs.
THEOREM IdIsKeptAlways ==
  ASSUME KeepsRecords
  PROVE  Spec => IdIsKept
<1>1. Init => BInv /\ KInv
  BY InitBInv, InitKInv
<1>2. BInv /\ KInv /\ [Next]_vars => (BInv /\ KInv)'
  BY NextKeepsBInv, NextKeepsKInv
<1>3. BInv /\ KInv /\ [Next]_vars =>
        [saved.id /\ ~saved'.id => catalogued \/ session = "CANCELLED"]_vars
  BY NextKeepsKInv
<1> QED BY <1>1, <1>2, <1>3, PTL DEF Spec, IdIsKept
=============================================================================

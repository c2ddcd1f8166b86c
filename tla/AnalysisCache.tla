--------------------------- MODULE AnalysisCache ---------------------------
(***************************************************************************)
(* The analysis_result row of one cache key: AcquireAnalysisCache,         *)
(* CompleteAnalysisCache and FailAnalysisCache of                          *)
(* file_srv/handler/server.go, called by any number of analysis workers.   *)
(*                                                                         *)
(* Time is kept as what is left of it: the lease and the expiry count down *)
(* with Tick, and lag is how long ago an acquisition read its clock, which *)
(* it does once, before a transaction that may wait for the row.           *)
(***************************************************************************)
EXTENDS Integers

CONSTANTS
  Workers,   \* acquisitions in flight (a bound)
  Tokens,    \* lease tokens; one not in use stands for a new UUID
  None,
  Lease,     \* 90 s, in ticks
  MaxLag,    \* innodb_lock_wait_timeout (50 s), in ticks
  TTLs       \* ttl_seconds of a result in ticks; 0: it does not expire

ASSUME CacheAssumption ==
  /\ None \notin Tokens
  /\ Lease \in Nat \ {0} /\ MaxLag \in 0..Lease
  /\ TTLs \subseteq Nat

VARIABLES
  status,    \* MySQL: NONE when there is no row, PROCESSING, COMPLETE, FAILED
  token,     \* MySQL lease_token
  left,      \* MySQL lease_expires_at - now; below -MaxLag it is -MaxLag
  expires,   \* MySQL expires_at - now, likewise; None: NULL
  result,    \* MySQL result_json: the token of the computation it came from
  pc,        \* of each worker: its next call
  lag,       \* of each worker: now - the time its acquisition read
  held       \* of each worker: the token it was granted

entry == <<status, token, left, expires, result>>
vars  == <<entry, pc, lag, held>>

Calls == {"idle", "lookup", "create", "wait", "compute"}

Ticks == (-MaxLag)..Lease

InUse == {token, result} \union {held[w] : w \in Workers}

Init ==
  /\ status = "NONE" /\ token = None /\ left = -MaxLag
  /\ expires = None /\ result = None
  /\ pc = [w \in Workers |-> "idle"]
  /\ lag = [w \in Workers |-> 0]
  /\ held = [w \in Workers |-> None]

Goto(w, call) == pc' = [pc EXCEPT ![w] = call] /\ UNCHANGED <<lag, held>>

Return(w) ==
  /\ pc' = [pc EXCEPT ![w] = "idle"]
  /\ lag' = [lag EXCEPT ![w] = 0]
  /\ held' = [held EXCEPT ![w] = None]

-----------------------------------------------------------------------------
(* AcquireAnalysisCache.                                                   *)

\* A new call, or the one a WAIT asks for after 500 ms: now is read here.
Acquire(w) ==
  /\ pc[w] \in {"idle", "wait"}
  /\ Goto(w, "lookup")
  /\ UNCHANGED entry

\* Was the time in the future of the time w read?
After(remaining, w) == remaining + lag[w] > 0

Valid(w) == status = "COMPLETE" /\ (expires # None => After(expires, w))

\* Mutant: a row that is PROCESSING is left to its worker for ever.
LeasedForEver(w) == status = "PROCESSING"

\* Mutant: the lease does not keep others from computing.
NeverLeased(w) == FALSE

Leased(w) == status = "PROCESSING" /\ After(left, w)

Hit(w) ==
  /\ pc[w] = "lookup" /\ Valid(w)
  /\ Return(w)
  /\ UNCHANGED entry

Wait(w) ==
  /\ pc[w] = "lookup" /\ Leased(w)
  /\ pc' = [pc EXCEPT ![w] = "wait"]
  /\ lag' = [lag EXCEPT ![w] = 0]
  /\ UNCHANGED <<entry, held>>

\* Mutant: the age of the time read is added.
Overlong(w) == Lease + lag[w]

\* lease_expires_at is 90 s after the time read, so less than 90 s from now.
Granting(w) == Lease - lag[w]

Granted(w, t) ==
  /\ t \notin InUse
  /\ status' = "PROCESSING" /\ token' = t /\ left' = Granting(w)
  /\ expires' = None /\ result' = None
  /\ pc' = [pc EXCEPT ![w] = "compute"]
  /\ lag' = [lag EXCEPT ![w] = 0]
  /\ held' = [held EXCEPT ![w] = t]

\* The row is locked from the SELECT ... FOR UPDATE to the commit.
TakeOver(w) ==
  /\ pc[w] = "lookup"
  /\ status # "NONE" /\ ~Valid(w) /\ ~Leased(w)
  /\ \E t \in Tokens : Granted(w, t)

\* There is no row to lock: another may insert before this insert.
Missing(w) ==
  /\ pc[w] = "lookup" /\ status = "NONE"
  /\ Goto(w, "create")
  /\ UNCHANGED entry

\* The insert succeeds, or is a duplicate and the transaction runs again with
\* the same now, or is the victim of a deadlock, which is not retried.
Create(w) ==
  /\ pc[w] = "create"
  /\ \/ status = "NONE" /\ \E t \in Tokens : Granted(w, t)
     \/ status # "NONE" /\ Goto(w, "lookup") /\ UNCHANGED entry
     \/ /\ \E v \in Workers \ {w} : pc[v] \in {"create", "compute"}
        /\ Return(w)
        /\ UNCHANGED entry

-----------------------------------------------------------------------------
(* CompleteAnalysisCache and FailAnalysisCache.                            *)

\* Mutant: WHERE id = ? AND status = PROCESSING, without the token.
HoldsAnyLease(w) == status = "PROCESSING"

\* WHERE id = ? AND status = PROCESSING AND lease_token = ?
HoldsLease(w) == status = "PROCESSING" /\ token = held[w]

Complete(w) ==
  /\ pc[w] = "compute"
  /\ \/ /\ HoldsLease(w)
        /\ status' = "COMPLETE" /\ token' = None /\ left' = -MaxLag
        /\ \E ttl \in TTLs : expires' = IF ttl = 0 THEN None ELSE ttl
        /\ result' = held[w]
     \/ ~HoldsLease(w) /\ UNCHANGED entry
  /\ Return(w)

Fail(w) ==
  /\ pc[w] = "compute"
  /\ \/ /\ HoldsLease(w)
        /\ status' = "FAILED" /\ token' = None /\ left' = -MaxLag
        /\ UNCHANGED <<expires, result>>
     \/ ~HoldsLease(w) /\ UNCHANGED entry
  /\ Return(w)

-----------------------------------------------------------------------------

\* The worker, or the file service under it, dies.
Crash(w) ==
  /\ pc[w] # "idle"
  /\ Return(w)
  /\ UNCHANGED entry

Aged(remaining) == IF remaining > -MaxLag THEN remaining - 1 ELSE remaining

Reading == {"lookup", "create"}

Tick ==
  /\ \A w \in Workers : pc[w] \in Reading => lag[w] < MaxLag
  /\ left' = Aged(left)
  /\ expires' = IF expires = None THEN None ELSE Aged(expires)
  /\ lag' = [w \in Workers |-> IF pc[w] \in Reading THEN lag[w] + 1 ELSE 0]
  /\ UNCHANGED <<status, token, result, pc, held>>

\* The steps that end a transaction of w.
Transaction(w) == Hit(w) \/ Wait(w) \/ TakeOver(w) \/ Missing(w) \/ Create(w)

Next ==
  \/ \E w \in Workers :
       Acquire(w) \/ Transaction(w) \/ Complete(w) \/ Fail(w) \/ Crash(w)
  \/ Tick

Spec == Init /\ [][Next]_vars

\* Transactions end, time passes, and a worker told to wait asks again;
\* nobody need start a call, nor finish a computation.
Fairness ==
  /\ WF_vars(Tick)
  /\ \A w \in Workers :
       WF_vars(Transaction(w)) /\ WF_vars(pc[w] = "wait" /\ Acquire(w))

FairSpec == Spec /\ Fairness

-----------------------------------------------------------------------------
(* Properties.                                                             *)

\* Columns and locals hold values of their kinds; a lease lasts at most Lease.
TypeOK ==
  /\ status \in {"NONE", "PROCESSING", "COMPLETE", "FAILED"}
  /\ token \in Tokens \union {None} /\ result \in Tokens \union {None}
  /\ left \in Ticks
  /\ expires = None \/ expires \in Int
  /\ pc \in [Workers -> Calls]
  /\ lag \in [Workers -> 0..MaxLag]
  /\ held \in [Workers -> Tokens \union {None}]

\* A worker is replaced only when its lease has run out on the clock, however
\* old the time was that the one taking over read.
LeaseHonoured ==
  [][status = "PROCESSING" /\ token' \notin {token, None} => left <= 0]_vars

\* A result is served only from the computation granted last: one that lost
\* its lease can neither publish nor fail the row.
Fenced == INSTANCE FencedCache WITH owner <- token, value <- result

FencedOnly == Fenced!FencedSpec

\* A key whose worker died does not stay so while another asks for it: once
\* the lease has run out, the one that asks is told to compute (or gives up).
Abandoned ==
  status = "PROCESSING" /\ \A w \in Workers : ~(pc[w] = "compute" /\ HoldsLease(w))

Kept(w) == Abandoned /\ pc[w] \in {"wait", "lookup"}

Recovers == \A w \in Workers : Kept(w) ~> ~Kept(w)
=============================================================================

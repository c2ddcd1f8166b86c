------------------------ MODULE AnalysisCacheProofs ------------------------
(***************************************************************************)
(* Theorems about AnalysisCache for any workers, tokens and durations.     *)
(***************************************************************************)
EXTENDS AnalysisCache, TLAPS

\* A row that is being computed names the computation.
InCharge == status = "PROCESSING" => token \in Tokens

IInv == TypeOK /\ InCharge

-----------------------------------------------------------------------------
(* One step.                                                               *)

LEMMA GrantedKeepsIInv ==
  ASSUME IInv, NEW w \in Workers, NEW t \in Tokens, Granted(w, t)
  PROVE  IInv'
BY CacheAssumption DEF IInv, InCharge, TypeOK, Granted, Granting, Ticks, Calls

LEMMA NextKeepsIInv == IInv /\ [Next]_vars => IInv'
<1> SUFFICES ASSUME IInv, [Next]_vars PROVE IInv'
  OBVIOUS
<1> USE CacheAssumption DEF IInv, InCharge, TypeOK, Calls, Ticks, entry
<1>1. ASSUME NEW w \in Workers, Acquire(w) PROVE IInv'
  BY <1>1 DEF Acquire, Goto
<1>2. ASSUME NEW w \in Workers, Hit(w) PROVE IInv'
  BY <1>2 DEF Hit, Return
<1>3. ASSUME NEW w \in Workers, Wait(w) PROVE IInv'
  BY <1>3 DEF Wait
<1>4. ASSUME NEW w \in Workers, TakeOver(w) PROVE IInv'
  BY <1>4, GrantedKeepsIInv DEF TakeOver
<1>5. ASSUME NEW w \in Workers, Missing(w) PROVE IInv'
  BY <1>5 DEF Missing, Goto
<1>6. ASSUME NEW w \in Workers, Create(w) PROVE IInv'
  <2>1. CASE \E t \in Tokens : Granted(w, t)
    BY <2>1, GrantedKeepsIInv
  <2>2. CASE (Goto(w, "lookup") \/ Return(w)) /\ UNCHANGED entry
    BY <2>2 DEF Goto, Return
  <2> QED BY <1>6, <2>1, <2>2 DEF Create
<1>7. ASSUME NEW w \in Workers, Complete(w) PROVE IInv'
  BY <1>7 DEF Complete, HoldsLease, Return
<1>8. ASSUME NEW w \in Workers, Fail(w) PROVE IInv'
  BY <1>8 DEF Fail, HoldsLease, Return
<1>9. ASSUME NEW w \in Workers, Crash(w) PROVE IInv'
  BY <1>9 DEF Crash, Return
<1>10. CASE Tick
  BY <1>10 DEF Tick, Aged, Reading
<1>11. CASE UNCHANGED vars
  BY <1>11 DEF vars
<1> QED BY <1>1, <1>2, <1>3, <1>4, <1>5, <1>6, <1>7, <1>8, <1>9, <1>10, <1>11
    DEF Next, Transaction

\* Types hold of every reachable state: in particular no lease that is granted
\* after a wait for the row lasts more than Lease.
THEOREM TypeCorrect == Spec => []TypeOK
<1>1. Init => IInv
  BY CacheAssumption DEF Init, IInv, InCharge, TypeOK, Ticks, Calls
<1> QED BY <1>1, NextKeepsIInv, PTL DEF Spec, IInv

-----------------------------------------------------------------------------

\* Only a grant replaces the token by another: after the lease had run out, or
\* for a row that was not being computed.
LEMMA GrantAfterLease ==
  ASSUME IInv, NEW w \in Workers, TakeOver(w) \/ Create(w)
  PROVE  \/ UNCHANGED entry
         \/ /\ status = "PROCESSING" => left <= 0
            /\ token' \in Tokens \ {token} /\ result' = None
BY CacheAssumption DEF IInv, InCharge, TypeOK, Ticks, TakeOver, Create, Granted,
                       Leased, After, InUse, entry

\* A worker whose lease still runs is not replaced (AcquireAnalysisCache).
THEOREM LeaseIsHonoured == Spec => LeaseHonoured
<1>1. IInv /\ [Next]_vars =>
        [status = "PROCESSING" /\ token' \notin {token, None} => left <= 0]_vars
  <2> SUFFICES ASSUME IInv, Next, status = "PROCESSING", token' \notin {token, None}
               PROVE  left <= 0
    BY DEF vars, entry
  <2>1. PICK w \in Workers : TakeOver(w) \/ Create(w)
    BY DEF Next, Transaction, Acquire, Hit, Wait, Missing, Complete, Fail, Crash, Tick, entry
  <2> QED BY <2>1, GrantAfterLease DEF entry
<1>2. Init => IInv
  BY CacheAssumption DEF Init, IInv, InCharge, TypeOK, Ticks, Calls
<1> QED BY <1>1, <1>2, NextKeepsIInv, PTL DEF Spec, LeaseHonoured

-----------------------------------------------------------------------------

\* Every step of the row is a grant, a publication or a withdrawal by the
\* computation in charge, or leaves both as they are: a computation that lost
\* its lease changes nothing.
LEMMA StepIsFenced ==
  IInv /\ [Next]_vars => [Fenced!FencedNext]_(Fenced!fencedVars)
<1> SUFFICES ASSUME IInv, [Next]_vars
             PROVE  Fenced!FencedNext \/ UNCHANGED <<token, result>>
  BY DEF Fenced!fencedVars
<1>1. ASSUME NEW w \in Workers, TakeOver(w) \/ Create(w)
      PROVE  Fenced!FencedNext \/ UNCHANGED <<token, result>>
  BY <1>1, GrantAfterLease DEF Fenced!FencedNext, Fenced!Grant, entry
<1>2. ASSUME NEW w \in Workers, Complete(w)
      PROVE  Fenced!FencedNext \/ UNCHANGED <<token, result>>
  BY <1>2, CacheAssumption
     DEF IInv, InCharge, Complete, HoldsLease, Fenced!FencedNext, Fenced!Publish, entry
<1>3. ASSUME NEW w \in Workers, Fail(w)
      PROVE  Fenced!FencedNext \/ UNCHANGED <<token, result>>
  BY <1>3, CacheAssumption
     DEF IInv, InCharge, Fail, HoldsLease, Fenced!FencedNext, Fenced!Withdraw, entry
<1>4. ASSUME NEW w \in Workers, Acquire(w) \/ Hit(w) \/ Wait(w) \/ Missing(w) \/ Crash(w)
      PROVE  UNCHANGED <<token, result>>
  BY <1>4 DEF Acquire, Hit, Wait, Missing, Crash, entry
<1>5. CASE Tick \/ UNCHANGED vars
  BY <1>5 DEF Tick, vars, entry
<1> QED BY <1>1, <1>2, <1>3, <1>4, <1>5 DEF Next, Transaction

\* The row, its leases and its clocks implement the fenced cache.
THEOREM CacheIsFenced == Spec => FencedOnly
<1>1. Init => IInv /\ Fenced!FencedInit
  BY CacheAssumption DEF Init, IInv, InCharge, TypeOK, Ticks, Calls, Fenced!FencedInit
<1> QED BY <1>1, NextKeepsIInv, StepIsFenced, PTL
    DEF Spec, FencedOnly, Fenced!FencedSpec
=============================================================================

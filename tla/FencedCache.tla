---------------------------- MODULE FencedCache ----------------------------
(***************************************************************************)
(* What the analysis cache promises for one cache key, whoever crashes or  *)
(* comes late: the computation in charge is named by the token of the last *)
(* grant, and the value served was written by that computation.            *)
(***************************************************************************)

CONSTANTS Tokens, None

VARIABLES
  owner,   \* the computation in charge, None when there is none
  value    \* the computation that wrote the value, None when there is none

fencedVars == <<owner, value>>

FencedInit == owner = None /\ value = None

\* A grant ends whatever was in charge, and withdraws the old value.
Grant(t) == t # owner /\ owner' = t /\ value' = None

Publish == owner # None /\ value' = owner /\ owner' = None

Withdraw == owner # None /\ owner' = None /\ UNCHANGED value

FencedNext == (\E t \in Tokens : Grant(t)) \/ Publish \/ Withdraw

FencedSpec == FencedInit /\ [][FencedNext]_fencedVars
=============================================================================

----------------------------- MODULE MCReadiness -----------------------------
(* A small instance of Readiness for TLC: two dependencies whose successes  *)
(* live as long as a failure and longer; the second one ignores its context. *)
EXTENDS Readiness

MCDeps == <<"redis", "snmp_olts">>
MCTtl == <<2, 4>>
=============================================================================

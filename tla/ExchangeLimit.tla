---------------------------- MODULE ExchangeLimit ----------------------------
(***************************************************************************)
(* What the SNMP pool of an OLT promises: goroutines exchange packets with *)
(* the OLT, never more than Slots of them at a time.                       *)
(***************************************************************************)
EXTENDS Naturals, FiniteSets

CONSTANTS Callers,  \* goroutines
          Slots     \* exchanges the OLT bears at the same time

VARIABLE busy       \* goroutines that are exchanging packets

Init == busy = {}

Begin(p) ==
  /\ p \notin busy
  /\ Cardinality(busy) < Slots
  /\ busy' = busy \cup {p}

End(p) ==
  /\ p \in busy
  /\ busy' = busy \ {p}

Next == \E p \in Callers : Begin(p) \/ End(p)

Spec == Init /\ [][Next]_busy
=============================================================================

----------------------------- MODULE MCRegistry -----------------------------
(* Small instances of Registry for TLC. *)
EXTENDS Registry

CONSTANTS h1, h2, b1, k1, k2, k3

MCConns == {k1, k2, k3}
MCHandlers == {h1, h2}
MCBackground == {b1}
MCCallers == {h1, h2, b1}
=============================================================================

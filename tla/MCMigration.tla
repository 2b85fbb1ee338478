----------------------------- MODULE MCMigration -----------------------------
(* Small instances of Migration for TLC. *)
EXTENDS Migration, TLC

CONSTANTS s1, s2, online, offline, up, down

MCSerials == {s1, s2}
MCStatuses == {online, offline}
MCLinks == {up, down, "unknown"}
MCPorts == {1}
MCModels == {0, 2}

\* Nothing tells one serial number, status or observed port state from another.
Symmetry == Permutations(MCSerials) \cup Permutations(MCStatuses) \cup Permutations({up, down})
=============================================================================

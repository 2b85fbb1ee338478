----------------------------- MODULE MCPonCache -----------------------------
(* Small instances of PonCache for TLC. *)
EXTENDS PonCache, TLC

CONSTANTS c1, c2, c3

MCCallers == {c1, c2, c3, Poller}
TwoCallers == {c1, c2, Poller}

\* Goroutines other than the poller are interchangeable.
CallerSymmetry == Permutations({c1, c2, c3})
PairSymmetry == Permutations({c1, c2})

ListRequests   == {"list", "poll", "invalidate"}
SerialRequests == {"serial", "serial_nocache", "delete"}
KeyRequests    == SerialRequests \cup {"empty", "update"}
NestedRequests == {"serial", "serial_nocache", "detail"}
=============================================================================

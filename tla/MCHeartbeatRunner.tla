------------------------- MODULE MCHeartbeatRunner --------------------------
(* Constants of the heartbeat runs.                                        *)
EXTENDS HeartbeatRunner

CONSTANTS t0, tA, a1

OneAgent == [t \in {tA} |-> a1]
Configs == {{}, {a1}}

=============================================================================

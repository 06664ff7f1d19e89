---------------------------- MODULE MCAgentRuns -----------------------------
(* Small instances of AgentRuns for TLC. *)
EXTENDS AgentRuns

CONSTANTS r1, r2, r3, main, cronL, nested, sA, sB

AllEntries == {"cron", "session", "global"} \X Run

(* r1 and r2 share a session, every other run has the second one.          *)
TwoSessions == [r \in Run |-> IF r \in {r1, r2} THEN sA ELSE sB]

=============================================================================

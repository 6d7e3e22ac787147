----------------------------- MODULE MCAgentRuns -----------------------------
(* One agent: runs of different agents share nothing but the store.         *)
EXTENDS AgentRuns

CONSTANT agent

MCAgentOf == [r \in Runs |-> agent]
=============================================================================

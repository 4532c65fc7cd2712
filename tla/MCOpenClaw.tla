----------------------------- MODULE MCOpenClaw -----------------------------
(***************************************************************************)
(* An instance of OpenClaw for TLC: every role calls, and the workflow     *)
(* starts where the constructor's default has it start.                    *)
(***************************************************************************)
EXTENDS OpenClaw

AllRoles == {OWNERS[s] : s \in STATES} \cup {HUMAN_ROLE, OPENCLAW_ROLE}

DefaultState == {"PROPOSAL"}
=============================================================================

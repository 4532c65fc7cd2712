----------------------------- MODULE MCPipeline -----------------------------
(***************************************************************************)
(* Instances of Pipeline for TLC: every scanner has a definition, one of   *)
(* them the project's own with the default reading of reports, and the     *)
(* workflow starts where the constructor's default has it start.           *)
(***************************************************************************)
EXTENDS Pipeline, TLC

CONSTANTS c1, c2

EveryTool == TOOLS
ProjectsOwn == {"semgrep"}
Roles == {OWNERS[s] : s \in STATES} \cup {HUMAN_ROLE, OPENCLAW_ROLE}
(* Commits are compared, and nothing names one of them. *)
CommitSymmetry == Permutations({c1, c2})
Proposal == {"PROPOSAL"}
=============================================================================

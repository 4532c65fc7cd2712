------------------------------ MODULE Registry ------------------------------
(***************************************************************************)
(* The agent registry as data: who is in agent_registry.json, with what    *)
(* permissions and what forbidden actions, the lookups of registry.py, and *)
(* the question the security gate asks of a project's registry file.       *)
(* Pure operators: the registry is loaded once and never changed.          *)
(***************************************************************************)
EXTENDS FiniteSets

REQUIRED_AGENTS ==
    {"ai_council", "project_council", "coding_agent", "handoff_agent",
     "quality_guardian", "security_gate", "deployment_check", "openclaw"}

(* A record of the registry, as far as anything asks for it. *)
Agent(permissions, forbidden) ==
    [permissions |-> permissions, forbidden_actions |-> forbidden]

(* agent_registry.json *)
AGENTS ==
    [ai_council |->
        Agent({"research_and_analysis"},
              {"deploy", "release", "bypass_human_approval", "grant_approval"}),
     project_council |->
        Agent({"planning_and_assignment"},
              {"code_implementation", "release", "work_before_human_approval",
               "assign_missing_capability"}),
     coding_agent |->
        Agent({"code_edit_in_scope"},
              {"release", "deploy", "approve_own_work", "modify_out_of_scope",
               "bypass_checkpoint"}),
     handoff_agent |->
        Agent({"checkpoint_accept", "checkpoint_reject", "handoff_transport"},
              {"quality_approval", "security_approval", "deployment_approval",
               "code_modification", "deploy"}),
     quality_guardian |->
        Agent({"read_only_audit"},
              {"code_edit", "file_modification", "commit", "push", "deploy",
               "self_approve", "bypass_security_gate"}),
     security_gate |->
        Agent({"security_verification", "release_blocking"},
              {"code_implementation", "treat_not_scanned_as_pass",
               "bypass_human_approval"}),
     deployment_check |->
        Agent({"deployment_after_approval", "rollback_execution"},
              {"deploy_without_approval", "treat_dry_run_as_deploy",
               "release_without_rollback"}),
     openclaw |->
        Agent({"orchestration"},
              {"grant_approval", "change_security_verdict",
               "change_quality_verdict", "bypass_handoff_checkpoint",
               "bypass_security_gate", "treat_not_scanned_as_pass",
               "decide_release", "allow_invalid_transition"})]

(* validate_permissions of a registry, when it does not raise. *)
Permitted(agents, agent, requested) ==
    /\ agent \in DOMAIN agents
    /\ requested \subseteq agents[agent].permissions

(* ai.registry_forbidden_actions, of the registry file of the project that is
   scanned: an empty one passes. *)
LeastPrivilege(agents) ==
    /\ \A a \in DOMAIN agents : agents[a].forbidden_actions # {}
    /\ "deployment_check" \in DOMAIN agents =>
          Permitted(agents, "deployment_check", {"deployment_after_approval"})
    /\ "openclaw" \in DOMAIN agents =>
          "grant_approval" \in agents["openclaw"].forbidden_actions
    /\ \A a \in DOMAIN agents \ {"deployment_check"} :
          ~Permitted(agents, a, {"deploy"})
=============================================================================

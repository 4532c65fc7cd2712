------------------------------ MODULE Workflow ------------------------------
(***************************************************************************)
(* The Development F workflow as data: openclaw/workflow.py, and the       *)
(* routing table of openclaw/orchestrator.py.  The states, the legal       *)
(* transitions, the owner of each state, the question                      *)
(* can_transition(current, target) that every move of the orchestrator     *)
(* asks, and what verdict leads where.  The security gate reads these      *)
(* tables too, in its governance check.                                    *)
(***************************************************************************)
EXTENDS Naturals, FiniteSets

STATES ==
    {"PROPOSAL", "RESEARCH", "COUNCIL_REVIEW", "HUMAN_APPROVAL", "PLANNING",
     "IMPLEMENTATION", "HANDOFF_CHECKPOINT", "QUALITY_AUDIT",
     "SECURITY_AUDIT", "DEPLOYMENT_CHECK", "HUMAN_RELEASE_APPROVAL", "DEPLOY",
     "POST_DEPLOY_VERIFY", "PRODUCTION", "ABORTED", "ESCALATED",
     "ROLLED_BACK"}

TRANSITIONS ==
    {<<"PROPOSAL", "RESEARCH">>,
     <<"RESEARCH", "COUNCIL_REVIEW">>,
     <<"COUNCIL_REVIEW", "RESEARCH">>,
     <<"COUNCIL_REVIEW", "HUMAN_APPROVAL">>,
     <<"COUNCIL_REVIEW", "ABORTED">>,
     <<"HUMAN_APPROVAL", "PLANNING">>,
     <<"HUMAN_APPROVAL", "COUNCIL_REVIEW">>,
     <<"HUMAN_APPROVAL", "ABORTED">>,
     <<"PLANNING", "IMPLEMENTATION">>,
     <<"IMPLEMENTATION", "HANDOFF_CHECKPOINT">>,
     <<"HANDOFF_CHECKPOINT", "QUALITY_AUDIT">>,
     <<"HANDOFF_CHECKPOINT", "IMPLEMENTATION">>,
     <<"QUALITY_AUDIT", "SECURITY_AUDIT">>,
     <<"QUALITY_AUDIT", "IMPLEMENTATION">>,
     <<"QUALITY_AUDIT", "ESCALATED">>,
     <<"SECURITY_AUDIT", "DEPLOYMENT_CHECK">>,
     <<"SECURITY_AUDIT", "IMPLEMENTATION">>,
     <<"SECURITY_AUDIT", "ESCALATED">>,
     <<"DEPLOYMENT_CHECK", "HUMAN_RELEASE_APPROVAL">>,
     <<"DEPLOYMENT_CHECK", "IMPLEMENTATION">>,
     <<"DEPLOYMENT_CHECK", "ESCALATED">>,
     <<"HUMAN_RELEASE_APPROVAL", "DEPLOY">>,
     <<"HUMAN_RELEASE_APPROVAL", "ABORTED">>,
     <<"HUMAN_RELEASE_APPROVAL", "ESCALATED">>,
     <<"DEPLOY", "POST_DEPLOY_VERIFY">>,
     <<"DEPLOY", "ROLLED_BACK">>,
     <<"POST_DEPLOY_VERIFY", "PRODUCTION">>,
     <<"POST_DEPLOY_VERIFY", "ROLLED_BACK">>,
     <<"ROLLED_BACK", "IMPLEMENTATION">>,
     <<"ROLLED_BACK", "ESCALATED">>}

OWNERS ==
    [PROPOSAL               |-> "ai_council",
     RESEARCH               |-> "ai_council",
     COUNCIL_REVIEW         |-> "ai_council",
     HUMAN_APPROVAL         |-> "human",
     PLANNING               |-> "project_council",
     IMPLEMENTATION         |-> "coding_agent",
     HANDOFF_CHECKPOINT     |-> "handoff_agent",
     QUALITY_AUDIT          |-> "quality_guardian",
     SECURITY_AUDIT         |-> "security_gate",
     DEPLOYMENT_CHECK       |-> "deployment_check",
     HUMAN_RELEASE_APPROVAL |-> "human",
     DEPLOY                 |-> "deployment_check",
     POST_DEPLOY_VERIFY     |-> "deployment_check",
     ROLLED_BACK            |-> "deployment_check",
     PRODUCTION             |-> "human",
     ABORTED                |-> "human",
     ESCALATED              |-> "human"]

(* can_transition, and what validate_transition lets through. *)
CanTransition(current, target) == <<current, target>> \in TRANSITIONS

(* The way from the proposal to production, numbered; 0 is off the way. *)
STATION ==
    [PROPOSAL |-> 1, RESEARCH |-> 2, COUNCIL_REVIEW |-> 3, HUMAN_APPROVAL |-> 4,
     PLANNING |-> 5, IMPLEMENTATION |-> 6, HANDOFF_CHECKPOINT |-> 7,
     QUALITY_AUDIT |-> 8, SECURITY_AUDIT |-> 9, DEPLOYMENT_CHECK |-> 10,
     HUMAN_RELEASE_APPROVAL |-> 11, DEPLOY |-> 12, POST_DEPLOY_VERIFY |-> 13,
     PRODUCTION |-> 14, ROLLED_BACK |-> 0, ABORTED |-> 0, ESCALATED |-> 0]

(* The orchestrator's mark of a repair in its routing table. *)
REPAIR == "__REPAIR__"

(* _ROUTING as a relation: what verdict sends which state where. *)
ROUTING ==
    {<<"HANDOFF_CHECKPOINT", "ACCEPTED",     "QUALITY_AUDIT">>,
     <<"HANDOFF_CHECKPOINT", "REJECTED",     REPAIR>>,
     <<"QUALITY_AUDIT",      "PASS",         "SECURITY_AUDIT">>,
     <<"QUALITY_AUDIT",      "NOT_SCANNED",  "ESCALATED">>,
     <<"QUALITY_AUDIT",      "NEEDS_REVIEW", "ESCALATED">>,
     <<"QUALITY_AUDIT",      "FAIL",         REPAIR>>,
     <<"QUALITY_AUDIT",      "ERROR",        REPAIR>>,
     <<"SECURITY_AUDIT",     "PASS",         "DEPLOYMENT_CHECK">>,
     <<"SECURITY_AUDIT",     "NOT_SCANNED",  "ESCALATED">>,
     <<"SECURITY_AUDIT",     "NEEDS_REVIEW", "ESCALATED">>,
     <<"SECURITY_AUDIT",     "BLOCK",        "ESCALATED">>,
     <<"SECURITY_AUDIT",     "FAIL",         REPAIR>>,
     <<"SECURITY_AUDIT",     "ERROR",        REPAIR>>,
     <<"DEPLOYMENT_CHECK",   "PASS",         "HUMAN_RELEASE_APPROVAL">>,
     <<"DEPLOYMENT_CHECK",   "NEEDS_REVIEW", "ESCALATED">>,
     <<"DEPLOYMENT_CHECK",   "FAIL",         REPAIR>>,
     <<"DEPLOYMENT_CHECK",   "ERROR",        REPAIR>>,
     <<"DEPLOY",             "SUCCESS",      "POST_DEPLOY_VERIFY">>,
     <<"DEPLOY",             "FAILURE",      "ROLLED_BACK">>,
     <<"POST_DEPLOY_VERIFY", "PASS",         "PRODUCTION">>,
     <<"POST_DEPLOY_VERIFY", "FAIL",         "ROLLED_BACK">>,
     <<"ROLLED_BACK",        "REPAIR",       "IMPLEMENTATION">>,
     <<"ROLLED_BACK",        "ESCALATE",     "ESCALATED">>}
=============================================================================

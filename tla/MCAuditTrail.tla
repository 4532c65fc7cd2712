---------------------------- MODULE MCAuditTrail ----------------------------
(***************************************************************************)
(* Instances of AuditTrail for TLC.  The log makes every history a state,  *)
(* so the runs start in the middle of the workflow, as the constructor's   *)
(* initial_state allows, and follow histories of MaxLog entries.           *)
(***************************************************************************)
EXTENDS AuditTrail

(* The human, the handoff client, and the owner of the deployment states, who
   are strangers everywhere else. *)
ThreeActors == {HUMAN_ROLE, HANDOFF_AGENT_ROLE, "deployment_check"}

MiddleStates == {"HUMAN_APPROVAL", "IMPLEMENTATION", "HANDOFF_CHECKPOINT",
                 "DEPLOYMENT_CHECK", "POST_DEPLOY_VERIFY"}
=============================================================================

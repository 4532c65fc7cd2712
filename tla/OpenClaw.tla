------------------------------ MODULE OpenClaw ------------------------------
(***************************************************************************)
(* The orchestrator: class OpenClaw of openclaw/orchestrator.py.  One      *)
(* action per public method, called by any actor in any order, as the      *)
(* class allows.  A call that raises before it assigns anything leaves the *)
(* object as it was and is a stuttering step; a call that raises half way  *)
(* is an action of its own (RouteRefused).                                 *)
(*                                                                         *)
(* The audit log is added by module AuditTrail, which conjoins to each of  *)
(* these actions the entries the method records.                           *)
(***************************************************************************)
EXTENDS Workflow

CONSTANTS
    Actors,         \* who may call a method: strings, the roles and strangers
    InitialStates,  \* values of the constructor's initial_state
    MaxRepair,      \* the constructor's max_repair_iterations
    MaxRequests     \* bound of the model on approval requests

ASSUME InitialStatesAssumption == InitialStates \subseteq STATES
ASSUME MaxRepairAssumption == MaxRepair \in Nat
ASSUME MaxRequestsAssumption == MaxRequests \in Nat

VARIABLES
    state,        \* _state
    repairs,      \* _repairs
    approvals,    \* _approvals: the last answer recorded for each human gate
    pending,      \* _pending: the open request of each human gate
    requestSeq,   \* _request_seq
    lastVerdict   \* _last_verdict

vars == <<state, repairs, approvals, pending, requestSeq, lastVerdict>>

HUMAN_ROLE == "human"
OPENCLAW_ROLE == "openclaw"
VERDICTS == {"ACCEPTED", "REJECTED", "PASS", "NOT_SCANNED", "NEEDS_REVIEW",
             "BLOCK", "FAIL", "ERROR", "SUCCESS", "FAILURE", "REPAIR",
             "ESCALATE"}

HUMAN_GATES == {"HUMAN_APPROVAL", "HUMAN_RELEASE_APPROVAL"}

(* _APPROVAL_SUCCESSOR *)
ApprovalSuccessor(gate) ==
    IF gate = "HUMAN_APPROVAL" THEN "PLANNING" ELSE "DEPLOY"

(* Request ids are "<gate>-<n>" with n from 1: the model keeps n, and 0 is
   the absent key of the dicts _pending and _approvals. *)
NoAnswer == [approved |-> FALSE, request |-> 0]
Answers == [approved : BOOLEAN, request : Nat]

(* _assert_actor *)
MayAct(actor) == actor \in {OWNERS[state], HUMAN_ROLE, OPENCLAW_ROLE}

(* Mutant: the retry bound is not looked at. *)
RepairAlways == "IMPLEMENTATION"

(* _repair_or_escalate: where a repair leads, and what it costs. *)
RepairOrEscalate ==
    IF repairs >= MaxRepair THEN "ESCALATED" ELSE "IMPLEMENTATION"

(* Mutant: the verdicts that escalate are retried like failures. *)
ResolvedAsFailure(target) ==
    IF target \in {REPAIR, "ESCALATED"} THEN RepairOrEscalate ELSE target

(* Where an entry of the routing table leads. *)
Resolved(target) == IF target = REPAIR THEN RepairOrEscalate ELSE target

(* Mutant: the counter goes up before the bound is looked at. *)
CountEveryRepair(target) ==
    repairs' = IF target = REPAIR THEN repairs + 1 ELSE repairs

(* Mutant: the counter does not go up. *)
CountNoRepair(target) == UNCHANGED repairs

CountRepair(target) ==
    repairs' = IF target = REPAIR /\ repairs < MaxRepair
                  THEN repairs + 1
                  ELSE repairs
-----------------------------------------------------------------------------
Init ==
    /\ state \in InitialStates
    /\ repairs = 0
    /\ approvals = [gate \in HUMAN_GATES |-> NoAnswer]
    /\ pending = [gate \in HUMAN_GATES |-> 0]
    /\ requestSeq = 0
    /\ lastVerdict = "None"

(* Mutant: validate_transition is not called. *)
TransitionAnywhere(target, actor) ==
    /\ MayAct(actor)
    /\ state' = target
    /\ UNCHANGED <<repairs, approvals, pending, requestSeq, lastVerdict>>

(* _transition: the actor check, the transition check, the assignment. *)
Transition(target, actor) ==
    /\ MayAct(actor)
    /\ CanTransition(state, target)
    /\ state' = target
    /\ UNCHANGED <<repairs, approvals, pending, requestSeq, lastVerdict>>

(* advance *)
Advance(target, actor) == Transition(target, actor)

(* A verdict the current state routes on, from an actor that may act. *)
Routable(verdict, target, actor) ==
    /\ <<state, verdict, target>> \in ROUTING
    /\ MayAct(actor)

(* Recovery from ROLLED_BACK is refused to anyone but the human. *)
RecoveryDenied(actor) == state = "ROLLED_BACK" /\ actor # HUMAN_ROLE

(* route, when it returns. *)
Route(verdict, actor) ==
    \E target \in STATES \cup {REPAIR} :
        /\ Routable(verdict, target, actor)
        /\ ~RecoveryDenied(actor)
        /\ CanTransition(state, Resolved(target))
        /\ state' = Resolved(target)
        /\ CountRepair(target)
        /\ lastVerdict' = verdict
        /\ UNCHANGED <<approvals, pending, requestSeq>>

(* route, when it raises after _last_verdict was assigned: PermissionDenied
   at ROLLED_BACK, or validate_transition on the resolved target. *)
RouteRefused(verdict, actor) ==
    \E target \in STATES \cup {REPAIR} :
        /\ Routable(verdict, target, actor)
        /\ \/ RecoveryDenied(actor) /\ UNCHANGED repairs
           \/ /\ ~RecoveryDenied(actor)
              /\ ~CanTransition(state, Resolved(target))
              /\ CountRepair(target)
        /\ lastVerdict' = verdict
        /\ UNCHANGED <<state, approvals, pending, requestSeq>>

(* request_human_approval: a second request for a gate replaces the first. *)
RequestHumanApproval(gate) ==
    /\ requestSeq < MaxRequests
    /\ state = gate
    /\ requestSeq' = requestSeq + 1
    /\ pending' = [pending EXCEPT ![gate] = requestSeq + 1]
    /\ UNCHANGED <<state, repairs, approvals, lastVerdict>>

(* Mutant: the answered request stays open. *)
RecordWithoutClosing(gate, approved, approver) ==
    /\ approver = HUMAN_ROLE
    /\ pending[gate] # 0
    /\ approvals' = [approvals EXCEPT ![gate] =
                        [approved |-> approved, request |-> pending[gate]]]
    /\ UNCHANGED <<state, repairs, pending, requestSeq, lastVerdict>>

(* record_human_approval: whatever state the workflow has moved to since. *)
RecordHumanApproval(gate, approved, approver) ==
    /\ approver = HUMAN_ROLE
    /\ pending[gate] # 0
    /\ approvals' = [approvals EXCEPT ![gate] =
                        [approved |-> approved, request |-> pending[gate]]]
    /\ pending' = [pending EXCEPT ![gate] = 0]
    /\ UNCHANGED <<state, repairs, requestSeq, lastVerdict>>

(* Mutant: that an answer is on record is enough, whatever it says. *)
ContinueOnAnyAnswer(actor) ==
    /\ state \in HUMAN_GATES
    /\ approvals[state] # NoAnswer
    /\ Transition(ApprovalSuccessor(state), actor)

(* continue_after_human_gate: a recorded answer is read, never consumed. *)
ContinueAfterHumanGate(actor) ==
    /\ state \in HUMAN_GATES
    /\ approvals[state] # NoAnswer
    /\ \/ /\ approvals[state].approved
          /\ Transition(ApprovalSuccessor(state), actor)
       \/ /\ ~approvals[state].approved
          /\ Transition("ABORTED", actor)

(* escalate *)
Escalate(actor) == Transition("ESCALATED", actor)

Next ==
    \/ \E actor \in Actors :
          \/ \E target \in STATES : Advance(target, actor)
          \/ \E verdict \in VERDICTS : Route(verdict, actor)
          \/ \E verdict \in VERDICTS : RouteRefused(verdict, actor)
          \/ ContinueAfterHumanGate(actor)
          \/ Escalate(actor)
          \/ \E gate \in HUMAN_GATES, approved \in BOOLEAN :
                RecordHumanApproval(gate, approved, actor)
    \/ \E gate \in HUMAN_GATES : RequestHumanApproval(gate)

Spec == Init /\ [][Next]_vars
-----------------------------------------------------------------------------
(* The types of the object's fields; the repair counter never passes the
   bound the constructor was given, nor the request counter the model's. *)
TypeOK ==
    /\ state \in STATES
    /\ repairs \in 0 .. MaxRepair
    /\ approvals \in [HUMAN_GATES -> Answers]
    /\ pending \in [HUMAN_GATES -> Nat]
    /\ requestSeq \in 0 .. MaxRequests
    /\ lastVerdict \in VERDICTS \cup {"None"}

(* Verdicts that say "a person has to look": nothing was scanned, a review is
   needed, or the security gate blocks. *)
HALTING_VERDICTS == {"NOT_SCANNED", "NEEDS_REVIEW", "BLOCK"}

(* Once a gate has reported NOT_SCANNED, NEEDS_REVIEW or BLOCK, no sequence of
   calls by anybody brings the workflow anywhere but ESCALATED: route() sends
   it there at once and nothing leads out. *)
HaltingVerdictsEscalate ==
    lastVerdict \in HALTING_VERDICTS => state = "ESCALATED"

(* The bookkeeping of request ids: an id is open or answered, never both; an
   open request of a gate is younger than the answer the gate holds; an id
   belongs to one gate; none lies beyond the counter.  So an answer given for
   an earlier request can never be taken for the answer to the open one. *)
OneAnswerPerRequest ==
    /\ \A g \in HUMAN_GATES :
          /\ pending[g] <= requestSeq
          /\ approvals[g].request <= requestSeq
          /\ pending[g] # 0 => approvals[g].request < pending[g]
    /\ \A g, h \in HUMAN_GATES : g # h =>
          /\ pending[g] # 0 => pending[g] # pending[h]
          /\ pending[g] # 0 => pending[g] # approvals[h].request
          /\ approvals[g] # NoAnswer =>
                approvals[g].request # approvals[h].request

(* A failing verdict never moves the workflow towards release: a step that
   takes a new FAIL, ERROR, REJECTED or FAILURE goes back to IMPLEMENTATION
   or ROLLED_BACK, stops at ESCALATED, or leaves the state where it was; and
   it goes back to IMPLEMENTATION only by spending one repair. *)
FailuresNeverForward ==
    [][(lastVerdict' # lastVerdict
        /\ lastVerdict' \in {"FAIL", "ERROR", "REJECTED", "FAILURE"}) =>
          \/ state' \in {"ESCALATED", "ROLLED_BACK", state}
          \/ state' = "IMPLEMENTATION" /\ repairs' = repairs + 1]_vars

(* orchestrator.py says "OpenClaw cannot skip a human gate": whenever the
   workflow enters DEPLOY, the answer on record for the release is a yes.  (It
   may be a no later: an answer is recorded whatever the state.)  Fails of the
   class itself, whose advance() takes any legal transition, and holds of
   callers that use it only where its docstring says: see PipelineProofs. *)
ReleaseIsApproved ==
    [][state # "DEPLOY" /\ state' = "DEPLOY" =>
          approvals["HUMAN_RELEASE_APPROVAL"].approved]_vars
=============================================================================

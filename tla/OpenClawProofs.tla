--------------------------- MODULE OpenClawProofs ---------------------------
(***************************************************************************)
(* What holds of the orchestrator for every set of callers, every initial  *)
(* state, every repair bound: types and counters, the fate of the halting  *)
(* verdicts, the bookkeeping of approval requests, and what a failing      *)
(* verdict may do.                                                         *)
(***************************************************************************)
EXTENDS OpenClaw, TLAPS

(* Legal transitions join states, and nothing leads out of ESCALATED
   (TRANSITIONS of workflow.py). *)
LEMMA TransitionFacts ==
    \A s, t : CanTransition(s, t) => /\ s \in STATES
                                     /\ t \in STATES
                                     /\ s # "ESCALATED"
BY DEF CanTransition, TRANSITIONS, STATES

(* The routing table's verdicts are verdicts, its targets are states or the
   repair mark, and a halting verdict's only target is ESCALATED (_ROUTING of
   orchestrator.py). *)
LEMMA RoutingFacts ==
    \A s, v, t : <<s, v, t>> \in ROUTING =>
        /\ v \in VERDICTS
        /\ v \in HALTING_VERDICTS => t = "ESCALATED"
        /\ v \in {"FAIL", "ERROR", "REJECTED", "FAILURE"} =>
              t \in {REPAIR, "ROLLED_BACK"}
        /\ s # "ESCALATED"
BY DEF ROUTING, VERDICTS, HALTING_VERDICTS, REPAIR

(* The states a halting verdict is routed from reach ESCALATED in one legal
   transition, so route() cannot refuse such a verdict half way. *)
LEMMA HaltingIsLegal ==
    \A s, v, t : <<s, v, t>> \in ROUTING /\ v \in HALTING_VERDICTS
                    => s # "ROLLED_BACK" /\ CanTransition(s, t)
BY DEF ROUTING, HALTING_VERDICTS, CanTransition, TRANSITIONS, REPAIR

(* How the routing table and the transition table fit together. *)
LEMMA TablesFit ==
    /\ \A s, v, t : <<s, v, t>> \in ROUTING /\ t # REPAIR =>
          CanTransition(s, t)
    /\ \A s, v : <<s, v, REPAIR>> \in ROUTING =>
          /\ CanTransition(s, "IMPLEMENTATION")
          /\ s # "HANDOFF_CHECKPOINT" => CanTransition(s, "ESCALATED")
          /\ s # "ROLLED_BACK"
    /\ \A s, v : <<s, v, "IMPLEMENTATION">> \in ROUTING => s = "ROLLED_BACK"
BY DEF ROUTING, CanTransition, TRANSITIONS, REPAIR

(* The repair mark is no state. *)
LEMMA RepairIsNoState == REPAIR \notin STATES
BY DEF REPAIR, STATES
-----------------------------------------------------------------------------
(* Every field keeps its type and the repair counter its bound: route() tests
   the counter before it adds to it (_repair_or_escalate). *)
THEOREM TypeCorrect == Spec => []TypeOK
<1>1. Init => TypeOK
  BY InitialStatesAssumption, MaxRepairAssumption, MaxRequestsAssumption
     DEF Init, TypeOK, NoAnswer, Answers
<1>2. TypeOK /\ [Next]_vars => TypeOK'
  <2> SUFFICES ASSUME TypeOK, [Next]_vars PROVE TypeOK'
    OBVIOUS
  <2> USE MaxRepairAssumption, MaxRequestsAssumption
  <2>1. ASSUME NEW target, NEW actor, Transition(target, actor)
        PROVE  TypeOK'
    BY <2>1, TransitionFacts DEF Transition, TypeOK
  <2>2. ASSUME NEW verdict, NEW actor, Route(verdict, actor) PROVE TypeOK'
    <3>1. PICK target : /\ Routable(verdict, target, actor)
                        /\ CanTransition(state, Resolved(target))
                        /\ state' = Resolved(target)
                        /\ CountRepair(target)
                        /\ lastVerdict' = verdict
                        /\ UNCHANGED <<approvals, pending, requestSeq>>
      BY <2>2 DEF Route
    <3>2. state' \in STATES /\ lastVerdict' \in VERDICTS
      BY <3>1, TransitionFacts, RoutingFacts DEF Routable
    <3>3. repairs' \in 0 .. MaxRepair
      BY <3>1 DEF CountRepair, TypeOK
    <3> QED
      BY <3>1, <3>2, <3>3 DEF TypeOK
  <2>3. ASSUME NEW verdict, NEW actor, RouteRefused(verdict, actor)
        PROVE  TypeOK'
    <3>1. PICK target : /\ Routable(verdict, target, actor)
                        /\ UNCHANGED repairs \/ CountRepair(target)
      BY <2>3 DEF RouteRefused
    <3>2. lastVerdict' = verdict
          /\ UNCHANGED <<state, approvals, pending, requestSeq>>
      BY <2>3 DEF RouteRefused
    <3>3. verdict \in VERDICTS
      BY <3>1, RoutingFacts DEF Routable
    <3>4. repairs' \in 0 .. MaxRepair
      BY <3>1 DEF CountRepair, TypeOK
    <3> QED
      BY <3>2, <3>3, <3>4 DEF TypeOK
  <2>4. ASSUME NEW gate \in HUMAN_GATES, RequestHumanApproval(gate)
        PROVE  TypeOK'
    BY <2>4 DEF RequestHumanApproval, TypeOK
  <2>5. ASSUME NEW gate \in HUMAN_GATES, NEW approved \in BOOLEAN,
               NEW approver, RecordHumanApproval(gate, approved, approver)
        PROVE  TypeOK'
    BY <2>5 DEF RecordHumanApproval, TypeOK, Answers
  <2>6. ASSUME UNCHANGED vars PROVE TypeOK'
    BY <2>6 DEF vars, TypeOK
  <2> QED
    BY <2>1, <2>2, <2>3, <2>4, <2>5, <2>6
       DEF Next, Advance, ContinueAfterHumanGate, Escalate
<1> QED
  BY <1>1, <1>2, PTL DEF Spec
-----------------------------------------------------------------------------
(* NOT_SCANNED, NEEDS_REVIEW and BLOCK always end in ESCALATED, for any
   callers: route() assigns the verdict and the state together for these
   verdicts, and ESCALATED has no successor. *)
THEOREM HaltingVerdictsStop == Spec => []HaltingVerdictsEscalate
<1>1. Init => HaltingVerdictsEscalate
  BY DEF Init, HaltingVerdictsEscalate, HALTING_VERDICTS
<1>2. TypeOK /\ HaltingVerdictsEscalate /\ [Next]_vars
         => HaltingVerdictsEscalate'
  <2> SUFFICES ASSUME TypeOK, HaltingVerdictsEscalate, [Next]_vars
               PROVE  HaltingVerdictsEscalate'
    OBVIOUS
  <2>1. ASSUME NEW target, NEW actor, Transition(target, actor)
        PROVE  HaltingVerdictsEscalate'
    BY <2>1, TransitionFacts DEF Transition, HaltingVerdictsEscalate
  <2>2. ASSUME NEW verdict, NEW actor, Route(verdict, actor)
        PROVE  HaltingVerdictsEscalate'
    <3>1. PICK target : /\ <<state, verdict, target>> \in ROUTING
                        /\ state' = Resolved(target)
                        /\ lastVerdict' = verdict
      BY <2>2 DEF Route, Routable
    <3>2. "ESCALATED" # REPAIR
      BY DEF REPAIR
    <3> QED
      BY <3>1, <3>2, RoutingFacts DEF HaltingVerdictsEscalate, Resolved
  <2>3. ASSUME NEW verdict, NEW actor, RouteRefused(verdict, actor)
        PROVE  HaltingVerdictsEscalate'
    <3>1. PICK target :
             /\ <<state, verdict, target>> \in ROUTING
             /\ \/ state = "ROLLED_BACK"
                \/ ~CanTransition(state, Resolved(target))
             /\ lastVerdict' = verdict
      BY <2>3 DEF RouteRefused, Routable, RecoveryDenied
    <3>2. verdict \notin HALTING_VERDICTS
      <4> SUFFICES ASSUME verdict \in HALTING_VERDICTS PROVE FALSE
        OBVIOUS
      <4>1. target = "ESCALATED" /\ target # REPAIR
        BY <3>1, RoutingFacts DEF REPAIR
      <4> QED
        BY <3>1, <4>1, HaltingIsLegal DEF Resolved
    <3> QED
      BY <3>1, <3>2 DEF HaltingVerdictsEscalate
  <2>4. CASE UNCHANGED <<state, lastVerdict>>
    BY <2>4 DEF HaltingVerdictsEscalate
  <2> QED
    BY <2>1, <2>2, <2>3, <2>4
       DEF Next, Advance, ContinueAfterHumanGate, Escalate, vars,
           RequestHumanApproval, RecordHumanApproval
<1> QED
  BY <1>1, <1>2, TypeCorrect, PTL DEF Spec
-----------------------------------------------------------------------------
(* An answer belongs to exactly one request and never to a later one, however
   requests of the two gates and their answers interleave: the ids grow with
   every request and an answer takes its request's id away. *)
THEOREM AnswersMatchRequests == Spec => []OneAnswerPerRequest
<1>1. Init => OneAnswerPerRequest
  BY DEF Init, OneAnswerPerRequest, NoAnswer, HUMAN_GATES
<1>2. TypeOK /\ OneAnswerPerRequest /\ [Next]_vars => OneAnswerPerRequest'
  <2> SUFFICES ASSUME TypeOK, OneAnswerPerRequest, [Next]_vars
               PROVE  OneAnswerPerRequest'
    OBVIOUS
  <2>1. ASSUME UNCHANGED <<approvals, pending, requestSeq>>
        PROVE  OneAnswerPerRequest'
    BY <2>1 DEF OneAnswerPerRequest
  <2>2. ASSUME NEW gate \in HUMAN_GATES, RequestHumanApproval(gate)
        PROVE  OneAnswerPerRequest'
    <3>1. /\ requestSeq \in Nat
          /\ requestSeq' = requestSeq + 1
          /\ approvals' = approvals
          /\ \A g \in HUMAN_GATES :
                /\ approvals[g].request \in Nat
                /\ pending[g] \in Nat
                /\ pending'[g] = IF g = gate THEN requestSeq + 1
                                             ELSE pending[g]
      BY <2>2, MaxRequestsAssumption
         DEF RequestHumanApproval, TypeOK, Answers
    <3> QED
      BY <3>1 DEF OneAnswerPerRequest
  <2>3. ASSUME NEW gate \in HUMAN_GATES, NEW approved \in BOOLEAN,
               NEW approver, RecordHumanApproval(gate, approved, approver)
        PROVE  OneAnswerPerRequest'
    <3>1. /\ requestSeq \in Nat
          /\ requestSeq' = requestSeq
          /\ pending[gate] # 0
          /\ \A g \in HUMAN_GATES :
                /\ approvals[g].request \in Nat
                /\ pending[g] \in Nat
                /\ pending'[g] = IF g = gate THEN 0 ELSE pending[g]
                /\ approvals'[g].request =
                      IF g = gate THEN pending[gate]
                                  ELSE approvals[g].request
                /\ g # gate => approvals'[g] = approvals[g]
      BY <2>3, MaxRequestsAssumption
         DEF RecordHumanApproval, TypeOK, Answers
    <3>2. \A g \in HUMAN_GATES :
             /\ pending'[g] <= requestSeq'
             /\ approvals'[g].request <= requestSeq'
             /\ pending'[g] # 0 => approvals'[g].request < pending'[g]
      BY <3>1 DEF OneAnswerPerRequest
    <3>3. \A g, h \in HUMAN_GATES : g # h =>
             /\ pending'[g] # 0 => pending'[g] # pending'[h]
             /\ pending'[g] # 0 => pending'[g] # approvals'[h].request
      BY <3>1 DEF OneAnswerPerRequest
    <3>4. \A g, h \in HUMAN_GATES : g # h /\ approvals'[g] # NoAnswer =>
             approvals'[g].request # approvals'[h].request
      BY <3>1 DEF OneAnswerPerRequest
    <3> QED
      BY <3>2, <3>3, <3>4 DEF OneAnswerPerRequest
  <2> QED
    BY <2>1, <2>2, <2>3
       DEF Next, Advance, ContinueAfterHumanGate, Escalate, vars, Transition,
           Route, RouteRefused
<1> QED
  BY <1>1, <1>2, TypeCorrect, PTL DEF Spec
-----------------------------------------------------------------------------
(* A newly taken failing verdict never moves the work towards release, and
   sends it back to IMPLEMENTATION only at the price of one repair. *)
THEOREM FailuresStayBehind == Spec => FailuresNeverForward
<1> DEFINE Allowed ==
      (lastVerdict' # lastVerdict
        /\ lastVerdict' \in {"FAIL", "ERROR", "REJECTED", "FAILURE"}) =>
          \/ state' \in {"ESCALATED", "ROLLED_BACK", state}
          \/ state' = "IMPLEMENTATION" /\ repairs' = repairs + 1
<1>1. TypeOK /\ [Next]_vars => [Allowed]_vars
  <2> SUFFICES ASSUME TypeOK, Next PROVE Allowed
    OBVIOUS
  <2>1. ASSUME NEW verdict, NEW actor, Route(verdict, actor) PROVE Allowed
    <3>1. PICK target : /\ <<state, verdict, target>> \in ROUTING
                        /\ state' = Resolved(target)
                        /\ CountRepair(target)
                        /\ lastVerdict' = verdict
      BY <2>1 DEF Route, Routable
    <3>2. CASE target = REPAIR
      BY <3>1, <3>2, MaxRepairAssumption
         DEF Resolved, RepairOrEscalate, CountRepair, TypeOK
    <3>3. CASE target # REPAIR
      BY <3>1, <3>3, RoutingFacts DEF Resolved
    <3> QED
      BY <3>2, <3>3
  <2>2. CASE UNCHANGED lastVerdict
    BY <2>2
  <2>3. CASE UNCHANGED state
    BY <2>3
  <2> QED
    BY <2>1, <2>2, <2>3
       DEF Next, Advance, ContinueAfterHumanGate, Escalate, Transition,
           RouteRefused, RequestHumanApproval, RecordHumanApproval
<1> QED
  BY <1>1, TypeCorrect, PTL DEF Spec, FailuresNeverForward
=============================================================================

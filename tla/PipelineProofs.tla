--------------------------- MODULE PipelineProofs ---------------------------
(***************************************************************************)
(* What holds of the release pipeline for any number of commits and        *)
(* requests, any repair bound and any scanners: its orchestrator is the    *)
(* orchestrator, no run of a gate outlives the gate, human gates are left  *)
(* by answers, what is released is what was audited, and it was scanned.   *)
(***************************************************************************)
EXTENDS Pipeline, OpenClawProofs, GatesProofs

(* What routing and transitions lead out of and into (_ROUTING,
   TRANSITIONS): the states of the release path are entered one from
   another, and the first of them by a PASS of the security gate. *)
LEMMA PathFacts ==
    /\ \A s, t : CanTransition(s, t) /\ s \notin DECISION_STATES =>
          t \notin RELEASE_PATH \cup AUDITS
    /\ \A s, t : CanTransition(s, t) =>
          /\ t = "DEPLOYMENT_CHECK" => s = "SECURITY_AUDIT"
          /\ t = "SECURITY_AUDIT" => s = "QUALITY_AUDIT"
          /\ t = "QUALITY_AUDIT" => s = "HANDOFF_CHECKPOINT"
          /\ t \in RELEASE_PATH \ {"DEPLOYMENT_CHECK"} => s \in RELEASE_PATH
    /\ "IMPLEMENTATION" \notin RELEASE_PATH \cup GATES
    /\ "ESCALATED" \notin RELEASE_PATH \cup GATES \cup HUMAN_GATES
    /\ GATES \subseteq DECISION_STATES
    /\ HUMAN_GATES \subseteq DECISION_STATES
    /\ \A s, v, t : <<s, v, t>> \in ROUTING => s \notin HUMAN_GATES
BY DEF CanTransition, TRANSITIONS, DECISION_STATES, RELEASE_PATH, AUDITS, GATES,
       HUMAN_GATES, ROUTING, REPAIR

(* A routed verdict is one of the orchestrator's. *)
LEMMA RouteIsStep ==
    ASSUME NEW verdict, NEW actor \in Actors
    PROVE  /\ Route(verdict, actor) => Next
           /\ RouteRefused(verdict, actor) => Next
BY RoutingFacts DEF Route, RouteRefused, Routable, Next

(* The release pipeline's orchestrator is the orchestrator: whatever clients
   and people do around it, it makes a call of the class or none. *)
LEMMA PipelineStep == [PipelineNext]_pipelineVars => [Next]_vars
<1> SUFFICES ASSUME [PipelineNext]_pipelineVars PROVE [Next]_vars
  OBVIOUS
<1> USE ClientsAssumption DEF CLIENTS
<1>1. CASE UNCHANGED pipelineVars
  BY <1>1 DEF pipelineVars
<1>2. ASSUME Work \/ (\E sound, answers \in BOOLEAN :
                         CreateCheckpoint(sound, answers))
             \/ (\E answers \in BOOLEAN : StartRun(answers)) \/ RunRaises
             \/ (\E report \in QualityReports : QualityRunRefused(report))
             \/ SecurityGather
             \/ (\E answers \in BOOLEAN : PreflightClean(answers))
      PROVE  UNCHANGED vars
  BY <1>2 DEF Work, CreateCheckpoint, StartRun, RunRaises, QualityRunRefused,
              SecurityGather, PreflightClean
<1>3. ASSUME NEW actor \in Actors, NEW target \in STATES,
             AdvancePlainly(target, actor)
      PROVE  Next
  BY <1>3 DEF AdvancePlainly, Next
<1>4. ASSUME NEW actor \in Actors, NEW verdict \in VERDICTS,
             Report(verdict, actor)
      PROVE  Next
  BY <1>4, RouteIsStep DEF Report
<1>5. ASSUME HumanGate PROVE Next
  BY <1>5 DEF HumanGate, Next
<1>6. ASSUME CallForHelp PROVE Next
  BY <1>6 DEF CallForHelp, Next
<1>7. ASSUME NEW stale, NEW answers, RouteCheckpoint(stale, answers)
      PROVE  Next
  <2>1. "handoff_agent" \in Actors
    OBVIOUS
  <2> QED
    BY <1>7, <2>1, RouteIsStep DEF RouteCheckpoint
<1>8. ASSUME NEW report, QualityRun(report) PROVE Next
  <2>1. "quality_guardian" \in Actors
    OBVIOUS
  <2> QED
    BY <1>8, <2>1, RouteIsStep DEF QualityRun
<1>9. ASSUME SecurityRun \/ SecurityException PROVE Next
  <2>1. "security_gate" \in Actors
    OBVIOUS
  <2> QED
    BY <1>9, <2>1, RouteIsStep DEF SecurityRun, SecurityException
<1>10. ASSUME NEW others, DeploymentRun(others) PROVE Next
  <2>1. "deployment_check" \in Actors
    OBVIOUS
  <2> QED
    BY <1>10, <2>1, RouteIsStep DEF DeploymentRun
<1> QED
  BY <1>1, <1>2, <1>3, <1>4, <1>5, <1>6, <1>7, <1>8, <1>9, <1>10
     DEF PipelineNext

THEOREM PipelineImplements == PipelineSpec => Spec
<1>1. PipelineInit => Init
  BY DEF PipelineInit
<1> QED
  BY <1>1, PipelineStep, PTL DEF PipelineSpec, Spec
-----------------------------------------------------------------------------
(* One gatherer further, a run is a run. *)
LEMMA FurtherFacts ==
    ASSUME NEW run \in Jobs, run.step < Len(GATHERERS),
           NEW found \in GatheredBy[run.step + 1]
    PROVE  /\ Further(run, found) \in Jobs
           /\ Further(run, found).gate = run.gate
           /\ Further(run, found).step = run.step + 1
           /\ Further(run, found).commits = run.commits
           /\ Further(run, found).identity = run.identity
           /\ Further(run, found).statuses = run.statuses \cup found.statuses
           /\ Further(run, found).clean <=> run.clean /\ found.clean
<1>1. run.step + 1 \in 1 .. 6
  BY SixGatherers DEF Jobs
<1>2. found \in Gathered(GATHERERS[run.step + 1])
  BY <1>1, SixGatherers
<1>3. found.statuses \in SUBSET BLOCKING /\ found.clean \in BOOLEAN
  BY <1>2, GatheredFacts
<1> DEFINE c == run.clean /\ found.clean
<1>4. c \in BOOLEAN
  BY Zenon
<1>5. Further(run, found) = [run EXCEPT !.step = @ + 1,
                                        !.statuses = @ \cup found.statuses,
                                        !.clean = c]
  BY Zenon DEF Further
<1>6. run.clean /\ found.clean <=> c
  OBVIOUS
<1> HIDE DEF c
<1>7. Further(run, found) =
         [gate |-> run.gate, step |-> run.step + 1,
          statuses |-> run.statuses \cup found.statuses, clean |-> c,
          commits |-> run.commits, identity |-> run.identity]
  BY <1>5 DEF Jobs
<1> QED
  BY <1>1, <1>3, <1>4, <1>6, <1>7, SixGatherers DEF Jobs
-----------------------------------------------------------------------------
(* Everything keeps its type, and no run outlives its gate: only the run's own
   end and a call for help leave a gate (DECISION_STATES are not advanced). *)
THEOREM PipelineTypeCorrect == PipelineSpec => []PipelineTypeOK
<1>1. PipelineInit /\ TypeOK => PipelineTypeOK
  <2> SUFFICES ASSUME PipelineInit, TypeOK PROVE PipelineTypeOK
    OBVIOUS
  <2>1. 0 \in 0 .. MaxRequests
    BY MaxRequestsAssumption
  <2>2. dirty \in BOOLEAN /\ scanned \in BOOLEAN
    BY DEF PipelineInit
  <2> QED
    BY <2>1, <2>2 DEF PipelineInit, PipelineTypeOK
<1>2. PipelineTypeOK /\ TypeOK' /\ [PipelineNext]_pipelineVars
         => PipelineTypeOK'
  <2> SUFFICES ASSUME PipelineTypeOK, TypeOK', [PipelineNext]_pipelineVars
               PROVE  PipelineTypeOK'
    OBVIOUS
  <2> DEFINE Stands == job # NoJob => state \in {job.gate, "ESCALATED"}
  <2>0. /\ job \in {NoJob} \cup Jobs
        /\ head \in Commits
        /\ job # NoJob => job \in Jobs /\ job.gate \in GATES
        /\ Stands
    BY DEF PipelineTypeOK, Jobs
  <2>a. ASSUME NEW answers \in BOOLEAN
        PROVE  Told(answers) \in Commits \cup {Untold}
    BY <2>0 DEF Told
  <2>1. ASSUME UNCHANGED <<repository, checkpoint, pinned, job, history>>,
               Stands'
        PROVE  PipelineTypeOK'
    BY <2>1 DEF PipelineTypeOK, repository, history
  <2>2. ASSUME Work PROVE PipelineTypeOK'
    <3>0. dirty' \in BOOLEAN
      <4>1. dirty \in BOOLEAN
        BY Zenon DEF PipelineTypeOK
      <4>2. dirty' = ~dirty \/ dirty' \in {FALSE, dirty}
        BY <2>2, Zenon DEF Work
      <4> QED
        BY <4>1, <4>2, Zenon
    <3>1. head' \in Commits /\ left' \subseteq Commits
      BY <2>2 DEF Work, PipelineTypeOK
    <3>2. CASE job = NoJob
      BY <2>2, <3>0, <3>1, <3>2 DEF Work, PipelineTypeOK, vars
    <3>3. CASE job # NoJob
      <4>1. job' = [job EXCEPT !.commits = job.commits \cup {head'}]
        BY <2>2, <3>3 DEF Work
      <4>2. job' \in Jobs /\ job'.gate = job.gate
        BY <4>1, <3>1, <3>3, <2>0 DEF Jobs
      <4> QED
        BY <2>2, <3>0, <3>1, <4>2, <3>3, <2>0
           DEF Work, PipelineTypeOK, vars
    <3> QED
      BY <3>2, <3>3
  <2>3. ASSUME NEW target, NEW actor, AdvancePlainly(target, actor)
        PROVE  PipelineTypeOK'
    <3>1. Stands'
      BY <2>0, <2>3, TransitionFacts, PathFacts
         DEF AdvancePlainly, Advance, Transition, Elsewhere
    <3> QED
      BY <2>1, <2>3, <3>1 DEF AdvancePlainly, Elsewhere
  <2>4. ASSUME NEW verdict, NEW actor, Report(verdict, actor)
        PROVE  PipelineTypeOK'
    <3>1. job = NoJob
      BY <2>0, <2>4 DEF Report, GATES, AUDITS
    <3> QED
      BY <2>1, <2>4, <3>1 DEF Report, Elsewhere
  <2>5. ASSUME HumanGate PROVE PipelineTypeOK'
    <3>1. state' = state \/ state \in HUMAN_GATES
      BY <2>5 DEF HumanGate, RequestHumanApproval, RecordHumanApproval,
                  ContinueAfterHumanGate
    <3>2. GATES \cap HUMAN_GATES = {} /\ "ESCALATED" \notin HUMAN_GATES
      BY DEF GATES, AUDITS, HUMAN_GATES
    <3>3. Stands'
      BY <2>0, <2>5, <3>1, <3>2 DEF HumanGate, Elsewhere
    <3> QED
      BY <2>1, <2>5, <3>3 DEF HumanGate, Elsewhere
  <2>6. ASSUME CallForHelp PROVE PipelineTypeOK'
    <3>1. Stands'
      BY <2>6 DEF CallForHelp, Escalate, Transition
    <3> QED
      BY <2>1, <2>6, <3>1 DEF CallForHelp, Elsewhere
  <2>7. ASSUME NEW sound \in BOOLEAN, NEW answers \in BOOLEAN,
               CreateCheckpoint(sound, answers)
        PROVE  PipelineTypeOK'
    <3>1. checkpoint' \in [head : Commits \cup {Untold}, sound : BOOLEAN]
      BY <2>7, <2>a DEF CreateCheckpoint
    <3> QED
      BY <2>7, <3>1
         DEF CreateCheckpoint, PipelineTypeOK, repository, history, vars
  <2>8. ASSUME NEW stale, NEW answers, RouteCheckpoint(stale, answers)
        PROVE  PipelineTypeOK'
    <3>1. job = NoJob /\ job' = NoJob
      BY <2>0, <2>8 DEF RouteCheckpoint, GATES, AUDITS
    <3>2. pinned' \in Commits \cup {Untold}
      <4>1. checkpoint # NoCheckpoint =>
               checkpoint.head \in Commits \cup {Untold}
        BY DEF PipelineTypeOK
      <4> QED
        BY <2>8, <4>1 DEF RouteCheckpoint, PipelineTypeOK
    <3>3. seen' \in [AUDITS -> SUBSET Commits]
      BY <2>8 DEF RouteCheckpoint
    <3> QED
      BY <2>8, <3>1, <3>2, <3>3
         DEF RouteCheckpoint, PipelineTypeOK, repository
  <2>9. ASSUME NEW answers \in BOOLEAN, StartRun(answers)
        PROVE  PipelineTypeOK'
    <3>1. job' \in Jobs /\ job'.gate = state
      <4>1. 0 \in 0 .. Len(GATHERERS)
        BY SixGatherers
      <4> QED
        BY <2>9, <2>a, <2>0, <4>1 DEF StartRun, Jobs
    <3> QED
      BY <2>9, <3>1 DEF StartRun, PipelineTypeOK, repository, history, vars
  <2>10. ASSUME RunRaises \/ \E report \in QualityReports :
                                QualityRunRefused(report)
         PROVE  PipelineTypeOK'
    BY <2>10 DEF RunRaises, QualityRunRefused, EndRun, PipelineTypeOK,
                 repository, history, vars
  <2>11. ASSUME NEW report, QualityRun(report) PROVE PipelineTypeOK'
    <3>1. seen' \in [AUDITS -> SUBSET Commits]
      BY <2>11, <2>0 DEF QualityRun, Running, Jobs, PipelineTypeOK
    <3> QED
      BY <2>11, <3>1 DEF QualityRun, EndRun, PipelineTypeOK, repository
  <2>12. ASSUME SecurityGather PROVE PipelineTypeOK'
    <3>1. PICK found \in GatheredBy[job.step + 1] : job' = Further(job, found)
      BY <2>12 DEF SecurityGather
    <3>2. job' \in Jobs /\ job'.gate = job.gate
      BY <2>12, <2>0, <3>1, FurtherFacts DEF SecurityGather, Running
    <3> QED
      BY <2>12, <2>0, <3>2
         DEF SecurityGather, Running, PipelineTypeOK, repository, history, vars
  <2>13. ASSUME SecurityRun PROVE PipelineTypeOK'
    <3>1. seen' \in [AUDITS -> SUBSET Commits] /\ scanned' \in BOOLEAN
      BY <2>13, <2>0 DEF SecurityRun, Running, Jobs, PipelineTypeOK
    <3> QED
      BY <2>13, <3>1 DEF SecurityRun, EndRun, PipelineTypeOK, repository
  <2>14. ASSUME SecurityException PROVE PipelineTypeOK'
    BY <2>1, <2>14 DEF SecurityException, Elsewhere
  <2>15. ASSUME NEW answers, PreflightClean(answers) PROVE PipelineTypeOK'
    <3>1. job' \in Jobs /\ job'.gate = job.gate
      <4>1. 1 \in 0 .. Len(GATHERERS)
        BY SixGatherers
      <4> QED
        BY <2>15, <2>0, <4>1 DEF PreflightClean, Running, Jobs
    <3> QED
      BY <2>15, <2>0, <3>1
         DEF PreflightClean, Running, PipelineTypeOK, repository, history, vars
  <2>16. ASSUME NEW others, DeploymentRun(others) PROVE PipelineTypeOK'
    <3>1. artifact' \in Commits \cup {Untold}
      BY <2>16, <2>0 DEF DeploymentRun, Running, Jobs, PipelineTypeOK
    <3>2. asked' \in 0 .. MaxRequests
      BY <2>16 DEF DeploymentRun, PipelineTypeOK, TypeOK
    <3> QED
      BY <2>16, <3>1, <3>2 DEF DeploymentRun, EndRun, PipelineTypeOK, repository
  <2>17. ASSUME UNCHANGED pipelineVars PROVE PipelineTypeOK'
    BY <2>17 DEF pipelineVars, PipelineTypeOK, vars, history
  <2> QED
    BY <2>2, <2>3, <2>4, <2>5, <2>6, <2>7, <2>8, <2>9, <2>10, <2>11, <2>12,
       <2>13, <2>14, <2>15, <2>16, <2>17
       DEF PipelineNext
<1> QED
  BY <1>1, <1>2, PipelineImplements, TypeCorrect, PTL DEF PipelineSpec
-----------------------------------------------------------------------------
(* Nothing but the recorded answer leads on from a human gate: _ROUTING has no
   entry for it, advance() is not used there, and escalate() is refused at
   HUMAN_APPROVAL, which ESCALATED does not follow. *)
LEMMA HumanGateLeft ==
    ASSUME PipelineNext, state \in HUMAN_GATES, state' # state
    PROVE  \/ ContinueAfterHumanGate(HUMAN_ROLE)
           \/ state = "HUMAN_RELEASE_APPROVAL" /\ state' = "ESCALATED"
<1> DEFINE Left == \/ ContinueAfterHumanGate(HUMAN_ROLE)
                   \/ state = "HUMAN_RELEASE_APPROVAL" /\ state' = "ESCALATED"
<1>1. ASSUME NEW verdict, NEW actor, Route(verdict, actor) PROVE FALSE
  BY <1>1, PathFacts DEF Route, Routable
<1>2. ASSUME NEW actor, Escalate(actor) PROVE Left
  BY <1>2 DEF Escalate, Transition, CanTransition, TRANSITIONS, HUMAN_GATES
<1>3. CASE HumanGate
  BY <1>3 DEF HumanGate, RequestHumanApproval, RecordHumanApproval
<1> HIDE DEF Left
<1>4. Left
  BY <1>1, <1>2, <1>3, PathFacts
     DEF PipelineNext, vars, Work, AdvancePlainly, Report, CallForHelp,
         CreateCheckpoint, RouteCheckpoint, RouteRefused, StartRun,
         RunRaises, QualityRun, QualityRunRefused, SecurityGather,
         SecurityRun, SecurityException, PreflightClean, DeploymentRun, Left
<1> QED
  BY <1>4 DEF Left

(* GatesAreAnswered: forwards on a yes, to ABORTED on a no, whatever gates,
   reports and calls for help come in between. *)
THEOREM HumanGatesAreAnswered == PipelineSpec => GatesAreAnswered
<1> DEFINE Answered ==
      \A gate \in HUMAN_GATES : state = gate /\ state' # gate =>
          \/ state' = ApprovalSuccessor(gate) /\ approvals[gate].approved
          \/ /\ state' = "ABORTED"
             /\ approvals[gate] # NoAnswer /\ ~approvals[gate].approved
          \/ gate = "HUMAN_RELEASE_APPROVAL" /\ state' = "ESCALATED"
<1>1. [PipelineNext]_pipelineVars => [Answered]_pipelineVars
  <2> SUFFICES ASSUME PipelineNext, state \in HUMAN_GATES, state' # state
               PROVE  Answered
    BY DEF vars
  <2>1. CASE ContinueAfterHumanGate(HUMAN_ROLE)
    BY <2>1 DEF ContinueAfterHumanGate, Transition
  <2> QED
    BY <2>1, HumanGateLeft
<1> QED
  BY <1>1, PTL DEF PipelineSpec, GatesAreAnswered
-----------------------------------------------------------------------------
(* A gate's client moves the workflow onto or along the release path only by
   PASS. *)
LEMMA RouteLeads ==
    ASSUME NEW verdict, NEW actor, Route(verdict, actor)
    PROVE  /\ CanTransition(state, state')
           /\ state \in {"SECURITY_AUDIT", "DEPLOYMENT_CHECK"}
                 /\ state' \in RELEASE_PATH => verdict = "PASS"
<1>1. PICK target : /\ <<state, verdict, target>> \in ROUTING
                    /\ CanTransition(state, Resolved(target))
                    /\ state' = Resolved(target)
  BY DEF Route, Routable
<1>2. \A s, v, t : <<s, v, t>> \in ROUTING
                   /\ s \in {"SECURITY_AUDIT", "DEPLOYMENT_CHECK"}
                   /\ v # "PASS" => t \in {REPAIR, "ESCALATED"}
  BY DEF ROUTING
<1>3. "ESCALATED" # REPAIR
  BY DEF REPAIR
<1>4. target \in {REPAIR, "ESCALATED"} =>
         Resolved(target) \in {"ESCALATED", "IMPLEMENTATION"}
  BY <1>3 DEF Resolved, RepairOrEscalate
<1> QED
  BY <1>1, <1>2, <1>4, PathFacts

(* How the workflow gets on: onto the release path only by a passed run of the
   security gate, from the deployment gate only by a passed preflight, and to
   the two audits only by an accepted checkpoint and a routed report. *)
LEMMA WaysOn ==
    ASSUME PipelineNext, state' # state
    PROVE  /\ CanTransition(state, state')
           /\ state' \in RELEASE_PATH /\ state \notin RELEASE_PATH =>
                 /\ state = "SECURITY_AUDIT" /\ state' = "DEPLOYMENT_CHECK"
                 /\ SecurityRun /\ Decide(job.statuses) = "PASS"
           /\ state' \in RELEASE_PATH /\ state = "DEPLOYMENT_CHECK" =>
                 \E others \in OthersAfterPass :
                    /\ DeploymentRun(others)
                    /\ Decide(PreflightStatuses(others)) = "PASS"
           /\ state' = "SECURITY_AUDIT" =>
                 \E report \in QualityReports : QualityRun(report)
           /\ state' = "QUALITY_AUDIT" =>
                 /\ state = "HANDOFF_CHECKPOINT"
                 /\ \E stale, answers \in BOOLEAN :
                       RouteCheckpoint(stale, answers)
<1> DEFINE Plain == \E actor \in Actors, target \in STATES :
                       AdvancePlainly(target, actor)
           Reported == \E actor \in Actors, verdict \in VERDICTS :
                          Report(verdict, actor)
           HandedOff == \E stale, answers \in BOOLEAN :
                           RouteCheckpoint(stale, answers)
           Audited == \E report \in QualityReports : QualityRun(report)
           Checked == \E others \in OthersAfterPass : DeploymentRun(others)
<1>1. \/ Plain \/ Reported \/ HumanGate \/ CallForHelp \/ HandedOff
      \/ Audited \/ SecurityRun \/ SecurityException \/ Checked
  BY DEF PipelineNext, vars, Work, CreateCheckpoint, StartRun, RunRaises,
         QualityRunRefused, SecurityGather, PreflightClean
<1>2. ASSUME NEW target, NEW actor, Transition(target, actor)
      PROVE  CanTransition(state, state')
  BY <1>2 DEF Transition
<1>3. CanTransition(state, state')
  <2>1. CASE Plain
    BY <1>2, <2>1 DEF AdvancePlainly, Advance
  <2>2. CASE HumanGate \/ CallForHelp
    BY <1>2, <2>2 DEF HumanGate, CallForHelp, RequestHumanApproval,
                      RecordHumanApproval, ContinueAfterHumanGate, Escalate
  <2>3. CASE Reported \/ HandedOff
    BY <2>3, RouteLeads DEF Report, RouteCheckpoint, RouteRefused
  <2>4. CASE Audited \/ SecurityRun \/ SecurityException \/ Checked
    BY <2>4, RouteLeads
       DEF QualityRun, SecurityRun, SecurityException, DeploymentRun
  <2> QED
    BY <1>1, <2>1, <2>2, <2>3, <2>4
<1>4. Plain => state' \notin RELEASE_PATH \cup AUDITS
  BY PathFacts DEF AdvancePlainly, Advance, Transition
<1>5. HumanGate => state \in HUMAN_GATES
  BY DEF HumanGate, RequestHumanApproval, RecordHumanApproval,
         ContinueAfterHumanGate, vars
<1>6. CallForHelp => state' = "ESCALATED"
  BY DEF CallForHelp, Escalate, Transition
<1>7. /\ Reported => state \in {"DEPLOY", "POST_DEPLOY_VERIFY", "ROLLED_BACK"}
      /\ HandedOff => state = "HANDOFF_CHECKPOINT"
      /\ Audited => state = "QUALITY_AUDIT"
      /\ SecurityRun \/ SecurityException => state = "SECURITY_AUDIT"
      /\ Checked => state = "DEPLOYMENT_CHECK"
  BY DEF Report, RouteCheckpoint, QualityRun, SecurityRun, SecurityException,
         DeploymentRun
<1>8. ~ (state' \in RELEASE_PATH /\ SecurityException)
  BY <1>7, RouteLeads DEF SecurityException
<1>9. state' \in RELEASE_PATH /\ SecurityRun => Decide(job.statuses) = "PASS"
  BY <1>7, RouteLeads DEF SecurityRun
<1>10. ASSUME NEW others, DeploymentRun(others), state' \in RELEASE_PATH
       PROVE  Decide(PreflightStatuses(others)) = "PASS"
  BY <1>10, RouteLeads DEF DeploymentRun, DeploymentVerdict
<1>11. /\ "ESCALATED" \notin RELEASE_PATH \cup AUDITS
       /\ AUDITS \cap HUMAN_GATES = {} /\ "DEPLOYMENT_CHECK" \notin HUMAN_GATES
       /\ "HANDOFF_CHECKPOINT" \notin HUMAN_GATES
       /\ "QUALITY_AUDIT" \in AUDITS /\ "SECURITY_AUDIT" \in AUDITS
       /\ "DEPLOYMENT_CHECK" \in RELEASE_PATH
  BY DEF RELEASE_PATH, AUDITS, HUMAN_GATES
<1>12. state' \in RELEASE_PATH /\ state \notin RELEASE_PATH =>
          state = "SECURITY_AUDIT" /\ state' = "DEPLOYMENT_CHECK"
  BY <1>3, PathFacts
<1>13. /\ state' = "SECURITY_AUDIT" => state = "QUALITY_AUDIT"
       /\ state' = "QUALITY_AUDIT" => state = "HANDOFF_CHECKPOINT"
  BY <1>3, PathFacts
<1> HIDE DEF Plain, Reported, HandedOff, Audited, Checked
<1>14. state' \in RELEASE_PATH /\ state = "SECURITY_AUDIT" => SecurityRun
  BY <1>1, <1>4, <1>5, <1>6, <1>7, <1>8, <1>11
<1>15. state' \in RELEASE_PATH /\ state = "DEPLOYMENT_CHECK" => Checked
  BY <1>1, <1>4, <1>5, <1>6, <1>7, <1>11
<1>16. state' = "SECURITY_AUDIT" => Audited
  BY <1>1, <1>4, <1>5, <1>6, <1>7, <1>11, <1>13
<1>17. state' = "QUALITY_AUDIT" => HandedOff
  BY <1>1, <1>4, <1>5, <1>6, <1>7, <1>11, <1>13
<1> USE DEF Audited, Checked, HandedOff
<1>18. state' \in RELEASE_PATH /\ state = "DEPLOYMENT_CHECK" =>
          \E others \in OthersAfterPass :
             /\ DeploymentRun(others)
             /\ Decide(PreflightStatuses(others)) = "PASS"
  BY <1>10, <1>15
<1> QED
  BY <1>3, <1>9, <1>12, <1>13, <1>14, <1>16, <1>17, <1>18

(* ReleaseIsApproved, which the class does not keep, is kept by clients that
   use advance() as its docstring says: DEPLOY follows no state but the human
   gate, and that is left for DEPLOY by a recorded yes only. *)
THEOREM ReleasesAreApproved == PipelineSpec => ReleaseIsApproved
<1> DEFINE Approved == state # "DEPLOY" /\ state' = "DEPLOY" =>
                          approvals["HUMAN_RELEASE_APPROVAL"].approved
<1>1. [PipelineNext]_pipelineVars => [Approved]_vars
  <2> SUFFICES ASSUME PipelineNext, state # "DEPLOY", state' = "DEPLOY"
               PROVE  approvals["HUMAN_RELEASE_APPROVAL"].approved
    BY DEF vars, pipelineVars
  <2>1. \A s : CanTransition(s, "DEPLOY") => s = "HUMAN_RELEASE_APPROVAL"
    BY DEF CanTransition, TRANSITIONS
  <2>2. state = "HUMAN_RELEASE_APPROVAL"
    BY <2>1, WaysOn
  <2>3. ContinueAfterHumanGate(HUMAN_ROLE)
    BY <2>2, HumanGateLeft DEF HUMAN_GATES
  <2> QED
    BY <2>2, <2>3 DEF ContinueAfterHumanGate, Transition
<1> QED
  BY <1>1, PTL DEF PipelineSpec, ReleaseIsApproved
-----------------------------------------------------------------------------
(* How much of the way a state has still ahead: Ahead, of any state. *)
AheadOf(s) ==
    IF STATION[s] # 0 THEN 15 - STATION[s]
    ELSE IF s = "ROLLED_BACK" THEN 1 ELSE 0

(* Each transition leaves less of the way, but for the way back to research,
   to the councils and to the implementation. *)
LEMMA WaysBack ==
    /\ \A s \in STATES : AheadOf(s) \in 0 .. 14
    /\ AheadOf("IMPLEMENTATION") = 9
    /\ \A s, t : CanTransition(s, t) =>
          \/ AheadOf(t) < AheadOf(s)
          \/ s = "COUNCIL_REVIEW" /\ t = "RESEARCH"
          \/ s = "HUMAN_APPROVAL" /\ t = "COUNCIL_REVIEW"
          \/ /\ t = "IMPLEMENTATION"
             /\ s \in {"HANDOFF_CHECKPOINT", "ROLLED_BACK"} \cup GATES
<1>1. \A s \in STATES : AheadOf(s) \in 0 .. 14
  BY DEF STATES, STATION, AheadOf
<1>2. AheadOf("IMPLEMENTATION") = 9
  BY DEF STATION, AheadOf
<1>3. \A s, t : CanTransition(s, t) =>
          \/ AheadOf(t) < AheadOf(s)
          \/ s = "COUNCIL_REVIEW" /\ t = "RESEARCH"
          \/ s = "HUMAN_APPROVAL" /\ t = "COUNCIL_REVIEW"
          \/ /\ t = "IMPLEMENTATION"
             /\ s \in {"HANDOFF_CHECKPOINT", "ROLLED_BACK"} \cup GATES
  BY DEF CanTransition, TRANSITIONS, STATION, AheadOf, GATES, AUDITS
<1> QED
  BY <1>1, <1>2, <1>3

(* A repair is spent where the workflow goes back to be repaired, never given
   back, and not spent on the way back after a rollback. *)
LEMMA RouteSpends ==
    ASSUME TypeOK, NEW verdict, NEW actor, Route(verdict, actor)
    PROVE  /\ repairs' \in {repairs, repairs + 1}
           /\ state' = "IMPLEMENTATION" /\ state # "ROLLED_BACK" =>
                 repairs' = repairs + 1
           /\ state' = "IMPLEMENTATION" /\ state = "ROLLED_BACK" =>
                 repairs' = repairs /\ lastVerdict' = "REPAIR"
<1>1. PICK target : /\ <<state, verdict, target>> \in ROUTING
                    /\ state' = Resolved(target)
                    /\ CountRepair(target)
                    /\ lastVerdict' = verdict
  BY DEF Route, Routable
<1>2. repairs \in Nat /\ MaxRepair \in Nat
  BY MaxRepairAssumption DEF TypeOK
<1>3. CASE target = REPAIR
  <2>1. state # "ROLLED_BACK"
    BY <1>1, <1>3, TablesFit
  <2> QED
    BY <1>1, <1>2, <1>3, <2>1 DEF Resolved, RepairOrEscalate, CountRepair
<1>4. CASE target # REPAIR
  <2>1. state' = target /\ repairs' = repairs
    BY <1>1, <1>4 DEF Resolved, CountRepair
  <2>2. target = "IMPLEMENTATION" => state = "ROLLED_BACK"
    BY <1>1, TablesFit
  <2>3. \A v : <<"ROLLED_BACK", v, "IMPLEMENTATION">> \in ROUTING
                  => v = "REPAIR"
    BY DEF ROUTING, REPAIR
  <2> QED
    BY <1>1, <2>1, <2>2, <2>3
<1> QED
  BY <1>3, <1>4

(* What a step does to the workflow: it routes a verdict, in whole or in part,
   where there is one to route, or it moves it without spending a repair. *)
LEMMA StepsSpend ==
    ASSUME TypeOK, PipelineNext
    PROVE  \/ \E verdict, actor : /\ Route(verdict, actor)
                                  /\ state \in DECISION_STATES \ HUMAN_GATES
           \/ UNCHANGED state /\ repairs' \in {repairs, repairs + 1}
           \/ /\ UNCHANGED repairs
              /\ state \in DECISION_STATES => \/ state \in HUMAN_GATES
                                             \/ state' = "ESCALATED"
<1> DEFINE Spends ==
           \/ \E verdict, actor : /\ Route(verdict, actor)
                                  /\ state \in DECISION_STATES \ HUMAN_GATES
           \/ UNCHANGED state /\ repairs' \in {repairs, repairs + 1}
           \/ /\ UNCHANGED repairs
              /\ state \in DECISION_STATES => \/ state \in HUMAN_GATES
                                             \/ state' = "ESCALATED"
<1>1. ASSUME NEW verdict, NEW actor, Route(verdict, actor) PROVE Spends
  <2>1. state \in DECISION_STATES \ HUMAN_GATES
    BY <1>1, PathFacts DEF Route, Routable, DECISION_STATES
  <2> QED
    BY <1>1, <2>1
<1>2. ASSUME NEW verdict, NEW actor, RouteRefused(verdict, actor)
      PROVE  UNCHANGED state /\ repairs' \in {repairs, repairs + 1}
  BY <1>2 DEF RouteRefused, CountRepair
<1>3. ASSUME UNCHANGED vars PROVE Spends
  BY <1>3 DEF vars
<1>4. ASSUME NEW target, NEW actor, AdvancePlainly(target, actor)
      PROVE  Spends
  BY <1>4 DEF AdvancePlainly, Advance, Transition
<1>5. ASSUME HumanGate PROVE Spends
  BY <1>5 DEF HumanGate, RequestHumanApproval, RecordHumanApproval,
              ContinueAfterHumanGate, Transition
<1>6. ASSUME CallForHelp PROVE Spends
  BY <1>6 DEF CallForHelp, Escalate, Transition
<1>7. ASSUME NEW verdict, NEW actor, RouteRefused(verdict, actor) PROVE Spends
  BY <1>2, <1>7
<1> HIDE DEF Spends
<1>8. ASSUME Work \/ (\E sound, answers \in BOOLEAN :
                         CreateCheckpoint(sound, answers))
             \/ (\E answers \in BOOLEAN : StartRun(answers)) \/ RunRaises
             \/ (\E report \in QualityReports : QualityRunRefused(report))
             \/ SecurityGather
             \/ (\E answers \in BOOLEAN : PreflightClean(answers))
      PROVE  Spends
  <2>1. UNCHANGED vars
    BY <1>8 DEF Work, CreateCheckpoint, StartRun, RunRaises, QualityRunRefused,
                SecurityGather, PreflightClean
  <2> QED
    BY <1>3, <2>1
<1>9. ASSUME SecurityRun \/ SecurityException PROVE Spends
  BY <1>1, <1>9 DEF SecurityRun, SecurityException
<1>10. ASSUME NEW stale, NEW answers, RouteCheckpoint(stale, answers)
       PROVE  Spends
  BY <1>1, <1>7, <1>10 DEF RouteCheckpoint
<1>11. ASSUME NEW report, QualityRun(report) PROVE Spends
  BY <1>1, <1>11 DEF QualityRun
<1>12. ASSUME NEW others, DeploymentRun(others) PROVE Spends
  BY <1>1, <1>12 DEF DeploymentRun
<1>13. ASSUME NEW verdict, NEW actor, Report(verdict, actor) PROVE Spends
  BY <1>1, <1>13 DEF Report
<1>14. Spends
  BY <1>4, <1>5, <1>6, <1>8, <1>9, <1>10, <1>11, <1>12, <1>13 DEF PipelineNext
<1> QED
  BY <1>14 DEF Spends

(* NoFreeWayBack, for any repair bound: so between two of the moves it excepts
   the workflow moves fewer than 15 * (MaxRepair + 1) times. *)
THEOREM WaysBackAreSpent == PipelineSpec => NoFreeWayBack
<1> DEFINE Spent ==
      \/ WorkLeft' < WorkLeft
      \/ WorkLeft' = WorkLeft /\ UNCHANGED state
      \/ state = "COUNCIL_REVIEW" /\ state' = "RESEARCH" /\ UNCHANGED repairs
      \/ /\ state = "ROLLED_BACK" /\ state' = "IMPLEMENTATION"
         /\ lastVerdict' = "REPAIR" /\ UNCHANGED repairs
<1>1. TypeOK /\ TypeOK' /\ [PipelineNext]_pipelineVars
         => [Spent]_pipelineVars
  <2> SUFFICES ASSUME TypeOK, TypeOK', PipelineNext PROVE Spent
    OBVIOUS
  <2>1. /\ WorkLeft = 15 * (MaxRepair - repairs) + AheadOf(state)
        /\ WorkLeft' = 15 * (MaxRepair - repairs') + AheadOf(state')
    BY DEF WorkLeft, Ahead, AheadOf
  <2>2. /\ MaxRepair \in Nat
        /\ repairs \in 0 .. MaxRepair /\ repairs' \in 0 .. MaxRepair
        /\ AheadOf(state) \in 0 .. 14 /\ AheadOf(state') \in 0 .. 14
    BY MaxRepairAssumption, WaysBack DEF TypeOK
  <2>3. ASSUME repairs' = repairs + 1 PROVE WorkLeft' < WorkLeft
    BY <2>1, <2>2, <2>3
  <2>4. ASSUME repairs' = repairs, AheadOf(state') < AheadOf(state)
        PROVE  WorkLeft' < WorkLeft
    BY <2>1, <2>2, <2>4
  <2>5. CASE UNCHANGED <<state, repairs>>
    BY <2>1, <2>5
  <2>6. CASE state' # state /\ repairs' = repairs
    <3>1. CanTransition(state, state')
      BY <2>6, WaysOn
    <3>2. CASE state = "HUMAN_APPROVAL"
      <4>1. state' \in {"PLANNING", "ABORTED"}
        BY <2>6, <3>2, HumanGateLeft
           DEF HUMAN_GATES, ContinueAfterHumanGate, Transition,
               ApprovalSuccessor
      <4>2. AheadOf(state') < AheadOf(state)
        BY <3>2, <4>1 DEF AheadOf, STATION
      <4> QED
        BY <2>4, <2>6, <4>2
    <3>3. CASE /\ state' = "IMPLEMENTATION"
               /\ state \in {"HANDOFF_CHECKPOINT", "ROLLED_BACK"} \cup GATES
      <4>1. PICK verdict, actor : Route(verdict, actor)
        <5>1. state \in DECISION_STATES \ HUMAN_GATES
          BY <3>3 DEF DECISION_STATES, ROUTING, HUMAN_GATES, GATES, AUDITS
        <5> QED
          BY <2>6, <3>3, <5>1, StepsSpend
      <4> QED
        BY <2>2, <2>6, <3>3, <4>1, RouteSpends
    <3> QED
      BY <2>4, <2>6, <3>1, <3>2, <3>3, WaysBack
  <2>7. repairs' \in {repairs, repairs + 1}
    BY StepsSpend, RouteSpends
  <2> QED
    BY <2>3, <2>5, <2>6, <2>7
<1> QED
  BY <1>1, PipelineImplements, TypeCorrect, PTL
     DEF PipelineSpec, NoFreeWayBack
-----------------------------------------------------------------------------
(* ResultsAreRoutable: the vocabularies of the three gates against _ROUTING,
   for any repair bound and wherever the counter stands. *)
THEOREM ResultsAreRouted == PipelineSpec => []ResultsAreRoutable
<1> DEFINE Common == {"PASS", "FAIL", "ERROR", "NEEDS_REVIEW"}
<1>1. /\ Results["QUALITY_AUDIT"] \subseteq Common \cup {"NOT_SCANNED"}
      /\ Results["SECURITY_AUDIT"] \subseteq Common \cup {"NOT_SCANNED"}
      /\ Results["DEPLOYMENT_CHECK"] \subseteq Common
  <2>1. ASSUME NEW report \in QualityReports, Validated(report), Routed(report)
        PROVE  QualityVerdict(report) \in Common \cup {"NOT_SCANNED"}
    BY <2>1 DEF QualityReports, Validated, Routed, QualityVerdict
  <2>2. ASSUME NEW statuses \in SUBSET BLOCKING
        PROVE  Decide(statuses) \in Common \cup {"NOT_SCANNED"}
    BY DecideFacts DEF BLOCKING
  <2>3. ASSUME NEW statuses \in SUBSET BLOCKING
        PROVE  DeploymentVerdict(Decide(statuses)) \in Common
    BY <2>2 DEF DeploymentVerdict
  <2> QED
    BY <2>1, <2>2, <2>3 DEF Results
<1>2. /\ <<"QUALITY_AUDIT", "PASS", "SECURITY_AUDIT">> \in ROUTING
      /\ <<"QUALITY_AUDIT", "NOT_SCANNED", "ESCALATED">> \in ROUTING
      /\ <<"QUALITY_AUDIT", "NEEDS_REVIEW", "ESCALATED">> \in ROUTING
      /\ <<"QUALITY_AUDIT", "FAIL", REPAIR>> \in ROUTING
      /\ <<"QUALITY_AUDIT", "ERROR", REPAIR>> \in ROUTING
  BY DEF ROUTING
<1>3. /\ <<"SECURITY_AUDIT", "PASS", "DEPLOYMENT_CHECK">> \in ROUTING
      /\ <<"SECURITY_AUDIT", "NOT_SCANNED", "ESCALATED">> \in ROUTING
      /\ <<"SECURITY_AUDIT", "NEEDS_REVIEW", "ESCALATED">> \in ROUTING
      /\ <<"SECURITY_AUDIT", "FAIL", REPAIR>> \in ROUTING
      /\ <<"SECURITY_AUDIT", "ERROR", REPAIR>> \in ROUTING
  BY DEF ROUTING
<1>4. /\ <<"DEPLOYMENT_CHECK", "PASS", "HUMAN_RELEASE_APPROVAL">> \in ROUTING
      /\ <<"DEPLOYMENT_CHECK", "NEEDS_REVIEW", "ESCALATED">> \in ROUTING
      /\ <<"DEPLOYMENT_CHECK", "FAIL", REPAIR>> \in ROUTING
      /\ <<"DEPLOYMENT_CHECK", "ERROR", REPAIR>> \in ROUTING
  BY DEF ROUTING
<1>5. ASSUME NEW gate \in GATES, state = gate, NEW verdict, NEW target,
             <<gate, verdict, target>> \in ROUTING
      PROVE  /\ Routable(verdict, target, OWNERS[gate])
             /\ CanTransition(gate, Resolved(target))
  <2>1. Routable(verdict, target, OWNERS[gate])
    BY <1>5 DEF Routable, MayAct
  <2>2. gate # "HANDOFF_CHECKPOINT"
    BY DEF GATES, AUDITS
  <2> QED
    BY <1>5, <2>1, <2>2, TablesFit DEF Resolved, RepairOrEscalate
<1>6. ResultsAreRoutable
  <2> SUFFICES ASSUME NEW gate \in GATES, state = gate,
                      NEW verdict \in Results[gate]
               PROVE  \E target \in STATES \cup {REPAIR} :
                         <<gate, verdict, target>> \in ROUTING
    BY <1>5 DEF ResultsAreRoutable
  <2>1. {"SECURITY_AUDIT", "DEPLOYMENT_CHECK", "HUMAN_RELEASE_APPROVAL",
         "ESCALATED"} \subseteq STATES
    BY DEF STATES
  <2>2. gate \in {"QUALITY_AUDIT", "SECURITY_AUDIT", "DEPLOYMENT_CHECK"}
    BY DEF GATES, AUDITS
  <2>3. CASE gate = "QUALITY_AUDIT"
    BY <1>1, <1>2, <2>1, <2>3
  <2>4. CASE gate = "SECURITY_AUDIT"
    BY <1>1, <1>3, <2>1, <2>4
  <2>5. CASE gate = "DEPLOYMENT_CHECK"
    BY <1>1, <1>4, <2>1, <2>5
  <2> QED
    BY <2>2, <2>3, <2>4, <2>5
<1> QED
  BY <1>6, PTL
-----------------------------------------------------------------------------
(* What the pipeline adds to a run is no matter to a gatherer. *)
LEMMA GathersAlike ==
    ASSUME NEW j \in Jobs, NEW found
    PROVE  SecurityRunOf(Further(j, found)) = Further(SecurityRunOf(j), found)
<1> DEFINE c == j.clean /\ found.clean
           statuses == j.statuses \cup found.statuses
<1>1. Further(j, found) = [j EXCEPT !.step = @ + 1, !.statuses = statuses,
                                    !.clean = c]
  BY Zenon DEF Further
<1>2. Further(SecurityRunOf(j), found) =
         [SecurityRunOf(j) EXCEPT !.step = @ + 1, !.statuses = statuses,
                                  !.clean = c]
  BY Zenon DEF Further, SecurityRunOf
<1> HIDE DEF c, statuses
<1>3. Further(j, found).step = j.step + 1
      /\ Further(j, found).statuses = statuses /\ Further(j, found).clean = c
  BY <1>1 DEF Jobs
<1>4. Further(SecurityRunOf(j), found) =
         [step |-> j.step + 1, statuses |-> statuses, clean |-> c]
  BY <1>2 DEF SecurityRunOf
<1> QED
  BY <1>3, <1>4, Zenon DEF SecurityRunOf

(* A step while a security run is under way: the run's own, or one the caller
   is told nothing by. *)
LEMMA AuditUnderWay ==
    ASSUME PipelineTypeOK, Running("SECURITY_AUDIT"), PipelineNext
    PROVE  \/ UNCHANGED <<AuditRun, lastVerdict>>
           \/ SecurityGather \/ SecurityRun \/ RunRaises
<1>0. /\ job # NoJob /\ job \in Jobs /\ job.gate = "SECURITY_AUDIT"
      /\ state \in {"SECURITY_AUDIT", "ESCALATED"}
  BY DEF Running, PipelineTypeOK
<1>1. ASSUME UNCHANGED <<job, lastVerdict>>
      PROVE  UNCHANGED <<AuditRun, lastVerdict>>
  BY <1>1 DEF AuditRun, Running, SecurityRunOf
<1>2. ASSUME Work PROVE UNCHANGED <<AuditRun, lastVerdict>>
  <2>1. job' = [job EXCEPT !.commits = @ \cup {head'}]
    BY <1>0, <1>2 DEF Work
  <2>2. /\ job'.gate = job.gate /\ job'.step = job.step
        /\ job'.statuses = job.statuses /\ job'.clean = job.clean
        /\ job' \in [gate : GATES, step : 0 .. Len(GATHERERS),
                     statuses : SUBSET BLOCKING, clean : BOOLEAN,
                     commits : {job'.commits},
                     identity : Commits \cup {Untold}]
    BY <1>0, <2>1 DEF Jobs
  <2>3. job' # NoJob
    BY <1>0, <2>2 DEF NoJob
  <2>4. SecurityRunOf(job') = SecurityRunOf(job)
    BY <2>2, Zenon DEF SecurityRunOf
  <2>5. AuditRun' = AuditRun
    BY <1>0, <2>2, <2>3, <2>4 DEF AuditRun, Running
  <2> QED
    BY <1>2, <2>5 DEF Work, vars
<1>3. ASSUME \/ \E actor, target : AdvancePlainly(target, actor)
             \/ HumanGate \/ CallForHelp
             \/ \E sound, answers : CreateCheckpoint(sound, answers)
      PROVE  UNCHANGED <<job, lastVerdict>>
  BY <1>3 DEF AdvancePlainly, Advance, HumanGate, RequestHumanApproval,
              RecordHumanApproval, ContinueAfterHumanGate, CallForHelp,
              Escalate, Transition, CreateCheckpoint, Elsewhere, vars
<1>4. /\ \A actor, verdict : ~Report(verdict, actor)
      /\ \A stale, answers : ~RouteCheckpoint(stale, answers)
      /\ \A answers : ~StartRun(answers) /\ ~PreflightClean(answers)
      /\ \A report : ~QualityRun(report) /\ ~QualityRunRefused(report)
      /\ \A others : ~DeploymentRun(others)
      /\ ~SecurityException
  BY <1>0 DEF Report, RouteCheckpoint, StartRun, PreflightClean, QualityRun,
              QualityRunRefused, DeploymentRun, SecurityException, Running
<1> QED
  BY <1>1, <1>2, <1>3, <1>4 DEF PipelineNext

(* A step while none is: another call, or the start of one. *)
LEMMA NoAuditUnderWay ==
    ASSUME PipelineTypeOK, ~Running("SECURITY_AUDIT"), PipelineNext
    PROVE  \/ ~Running("SECURITY_AUDIT")'
           \/ (\E answers \in BOOLEAN : StartRun(answers)) /\ UNCHANGED vars
<1>0. job # NoJob => job \in Jobs /\ job.gate # "SECURITY_AUDIT"
  BY DEF Running, PipelineTypeOK
<1>1. ASSUME job' = job \/ job' = NoJob PROVE ~Running("SECURITY_AUDIT")'
  BY <1>0, <1>1 DEF Running
<1>2. ASSUME Work, job # NoJob PROVE ~Running("SECURITY_AUDIT")'
  <2>1. job'.gate = job.gate
    BY <1>0, <1>2 DEF Work, Jobs
  <2> QED
    BY <1>0, <1>2, <2>1 DEF Running
<1>3. ASSUME Work, job = NoJob PROVE job' = job
  BY <1>3 DEF Work
<1>4. ASSUME NEW answers, PreflightClean(answers)
      PROVE  ~Running("SECURITY_AUDIT")'
  <2>1. job'.gate = job.gate /\ job.gate = "DEPLOYMENT_CHECK"
    BY <1>0, <1>4 DEF PreflightClean, Running, Jobs
  <2> QED
    BY <2>1 DEF Running
<1>5. ASSUME NEW answers, StartRun(answers) PROVE UNCHANGED vars
  BY <1>5 DEF StartRun
<1>6. ~SecurityGather /\ ~SecurityRun
  BY DEF SecurityGather, SecurityRun
<1>7. ASSUME \/ \E actor, target : AdvancePlainly(target, actor)
             \/ \E actor, verdict : Report(verdict, actor)
             \/ HumanGate \/ CallForHelp \/ SecurityException
             \/ \E sound, answers : CreateCheckpoint(sound, answers)
             \/ \E stale, answers : RouteCheckpoint(stale, answers)
      PROVE  job' = job
  BY <1>7 DEF AdvancePlainly, Report, HumanGate, CallForHelp, SecurityException,
              CreateCheckpoint, RouteCheckpoint, Elsewhere
<1>8. ASSUME \/ RunRaises
             \/ \E report : QualityRun(report) \/ QualityRunRefused(report)
             \/ \E others : DeploymentRun(others)
      PROVE  job' = NoJob
  BY <1>8 DEF RunRaises, QualityRun, QualityRunRefused, DeploymentRun, EndRun
<1> QED
  BY <1>1, <1>2, <1>3, <1>4, <1>5, <1>6, <1>7, <1>8 DEF PipelineNext

(* RunsAreAudits: the pipeline implements the audit of a caller that also
   hears from others, whatever goes on around a run. *)
THEOREM RunsRefineAudits == PipelineSpec => RunsAreAudits
<1>1. PipelineInit => Audit!Init
  BY DEF PipelineInit, Init, Audit!Init, Audit!NoRun, AuditRun, Running, NoJob
<1>2. PipelineTypeOK /\ [PipelineNext]_pipelineVars
         => [Audit!Next \/ Audit!Elsewhere]_<<AuditRun, lastVerdict>>
  <2> SUFFICES ASSUME PipelineTypeOK, [PipelineNext]_pipelineVars
               PROVE  \/ Audit!Next \/ Audit!Elsewhere
                      \/ UNCHANGED <<AuditRun, lastVerdict>>
    OBVIOUS
  <2>0. Audit!NoRun = NoJob /\ Len(GatheredBy) = Len(GATHERERS)
    BY DEF Audit!NoRun, NoJob, GatheredBy, GATHERERS
  <2>1. CASE UNCHANGED pipelineVars
    BY <2>1 DEF pipelineVars, vars, AuditRun, Running, SecurityRunOf
  <2>2. CASE PipelineNext /\ ~Running("SECURITY_AUDIT")
    <3>1. AuditRun = NoJob
      BY <2>2 DEF AuditRun
    <3>2. CASE ~Running("SECURITY_AUDIT")'
      <4>1. AuditRun' = NoJob
        BY <3>2 DEF AuditRun
      <4> QED
        BY <2>0, <3>1, <4>1 DEF Audit!Elsewhere
    <3>3. CASE Running("SECURITY_AUDIT")'
      <4>1. PICK answers \in BOOLEAN : StartRun(answers) /\ UNCHANGED vars
        BY <2>2, <3>3, NoAuditUnderWay
      <4>2. job' = [gate |-> state, step |-> 0, statuses |-> {},
                    clean |-> TRUE, commits |-> {head},
                    identity |-> Told(answers)]
        BY <4>1 DEF StartRun
      <4>3. AuditRun' = Audit!NewRun
        BY <3>3, <4>2 DEF AuditRun, SecurityRunOf, Audit!NewRun
      <4> QED
        BY <2>0, <3>1, <4>1, <4>3 DEF Audit!Next, Audit!Start, vars
    <3> QED
      BY <3>2, <3>3
  <2>3. CASE PipelineNext /\ Running("SECURITY_AUDIT")
    <3>1. job \in Jobs /\ job # NoJob /\ AuditRun = SecurityRunOf(job)
      BY <2>3 DEF AuditRun, Running, PipelineTypeOK
    <3>2. /\ AuditRun.step = job.step /\ AuditRun.statuses = job.statuses
          /\ AuditRun # Audit!NoRun
      BY <3>1 DEF SecurityRunOf, Audit!NoRun
    <3>3. CASE SecurityGather
      <4>1. PICK found \in GatheredBy[job.step + 1] :
               job' = Further(job, found)
        BY <3>3 DEF SecurityGather
      <4>2. job' \in Jobs /\ job'.gate = "SECURITY_AUDIT"
        BY <3>1, <3>3, <4>1, FurtherFacts DEF SecurityGather, Running
      <4>3. AuditRun' = Further(AuditRun, found)
        <5>1. job' # NoJob
          BY <4>2 DEF Jobs, NoJob
        <5>2. AuditRun' = SecurityRunOf(job')
          BY <4>2, <5>1 DEF AuditRun, Running
        <5> QED
          BY <3>1, <4>1, <5>2, GathersAlike
      <4>4. job.step < Len(GATHERERS) /\ UNCHANGED lastVerdict
        BY <3>3 DEF SecurityGather, vars
      <4> QED
        BY <2>0, <3>2, <4>1, <4>3, <4>4 DEF Audit!Next, Audit!Gather
    <3>4. ASSUME job' = NoJob PROVE AuditRun' = Audit!NoRun
      BY <2>0, <3>4 DEF AuditRun, Running
    <3>5. CASE SecurityRun
      <4>1. /\ job.step = Len(GATHERERS) /\ job' = NoJob
            /\ lastVerdict' = Decide(job.statuses)
        BY <3>5 DEF SecurityRun, EndRun, Route
      <4> QED
        BY <2>0, <3>2, <3>4, <4>1 DEF Audit!Next, Audit!Return
    <3>6. CASE RunRaises
      <4>1. job' = NoJob /\ UNCHANGED lastVerdict
        BY <3>6 DEF RunRaises, EndRun, vars
      <4> QED
        BY <3>2, <3>4, <4>1 DEF Audit!Next, Audit!Raise
    <3> QED
      BY <2>3, <3>3, <3>5, <3>6, AuditUnderWay
  <2> QED
    BY <2>1, <2>2, <2>3
<1> QED
  BY <1>1, <1>2, PipelineTypeCorrect, PTL
     DEF PipelineSpec, RunsAreAudits, Audit!SharedSpec
-----------------------------------------------------------------------------
(* A security run in progress that has met no obstacle has met clean scans. *)
RunIsTrue ==
    job # NoJob /\ job.gate = "SECURITY_AUDIT" /\ job.statuses = {} => job.clean

(* ReleasePathIsScanned: every status that is no obstacle of a gatherer is a
   clean run of its tools (FoundFacts), a run adds them up (RunIsTrue), and a
   PASS has no obstacle (validate).  Of a ScannerRunner with a definition of
   every tool: default_scanner answers for one without. *)
THEOREM ReleaseIsScanned ==
    ASSUME Defined = TOOLS, InitialStates \cap RELEASE_PATH = {}
    PROVE  PipelineSpec => []ReleasePathIsScanned
<1>1. PipelineInit => RunIsTrue /\ ReleasePathIsScanned
  BY DEF PipelineInit, Init, RunIsTrue, ReleasePathIsScanned
<1>2. PipelineTypeOK /\ RunIsTrue /\ [PipelineNext]_pipelineVars => RunIsTrue'
  <2> SUFFICES ASSUME PipelineTypeOK, RunIsTrue, [PipelineNext]_pipelineVars
               PROVE  RunIsTrue'
    OBVIOUS
  <2>0. job # NoJob => job \in Jobs
    BY DEF PipelineTypeOK
  <2>1. CASE UNCHANGED job \/ job' = NoJob
    BY <2>1 DEF RunIsTrue
  <2>2. ASSUME NEW answers, StartRun(answers) PROVE RunIsTrue'
    BY <2>2 DEF StartRun, RunIsTrue
  <2>3. ASSUME SecurityGather PROVE RunIsTrue'
    <3>1. job \in Jobs /\ job.step < Len(GATHERERS)
      BY <2>0, <2>3 DEF SecurityGather, Running
    <3>2. PICK found \in GatheredBy[job.step + 1] : job' = Further(job, found)
      BY <2>3 DEF SecurityGather
    <3>3. /\ job'.statuses = job.statuses \cup found.statuses
          /\ job'.clean <=> job.clean /\ found.clean
      BY <3>1, <3>2, FurtherFacts
    <3>4. job.step + 1 \in 1 .. 6
      BY <3>1, SixGatherers DEF Jobs
    <3>5. found.statuses = {} => found.clean
      BY <3>4, FoundFacts
    <3> QED
      BY <2>3, <3>3, <3>5 DEF RunIsTrue, SecurityGather, Running
  <2>4. ASSUME NEW answers, PreflightClean(answers) PROVE RunIsTrue'
    BY <2>0, <2>4 DEF PreflightClean, Running, RunIsTrue, Jobs
  <2>5. ASSUME Work PROVE RunIsTrue'
    <3>1. CASE job = NoJob
      BY <2>1, <2>5, <3>1 DEF Work
    <3>2. CASE job # NoJob
      BY <2>0, <2>5, <3>2 DEF Work, RunIsTrue, Jobs
    <3> QED
      BY <3>1, <3>2
  <2> QED
    BY <2>1, <2>2, <2>3, <2>4, <2>5
       DEF PipelineNext, pipelineVars, AdvancePlainly, Report, HumanGate,
           CallForHelp, Elsewhere, CreateCheckpoint, RouteCheckpoint,
           RunRaises, QualityRun, QualityRunRefused, SecurityRun,
           SecurityException, DeploymentRun, EndRun
<1>3. PipelineTypeOK /\ RunIsTrue /\ ReleasePathIsScanned
         /\ [PipelineNext]_pipelineVars => ReleasePathIsScanned'
  <2> SUFFICES ASSUME PipelineTypeOK, RunIsTrue, ReleasePathIsScanned,
                      [PipelineNext]_pipelineVars, state' \in RELEASE_PATH
               PROVE  scanned'
    BY DEF ReleasePathIsScanned
  <2>1. ASSUME SecurityRun, state' # state PROVE scanned'
    <3>1. PipelineNext
      BY <2>1 DEF PipelineNext
    <3>2. state \notin RELEASE_PATH
      BY <2>1 DEF SecurityRun, RELEASE_PATH
    <3>3. Decide(job.statuses) = "PASS"
      BY <2>1, <3>1, <3>2, WaysOn
    <3>4. job \in Jobs /\ job.gate = "SECURITY_AUDIT"
      BY <2>1 DEF SecurityRun, Running, PipelineTypeOK
    <3>5. job.statuses = {}
      BY <2>1, <3>3, <3>4 DEF SecurityRun, Valid, Jobs
    <3> QED
      BY <2>1, <3>4, <3>5 DEF SecurityRun, Running, RunIsTrue
  <2>2. state \in RELEASE_PATH \/ (SecurityRun /\ state' # state)
    BY WaysOn DEF pipelineVars, vars
  <2>3. CASE state \in RELEASE_PATH
    <3>1. state \notin {"SECURITY_AUDIT", "HANDOFF_CHECKPOINT"}
      BY <2>3 DEF RELEASE_PATH
    <3>2. UNCHANGED scanned
      BY <3>1 DEF PipelineNext, pipelineVars, history, Work, AdvancePlainly,
                  Report, HumanGate, CallForHelp, Elsewhere, CreateCheckpoint,
                  RouteCheckpoint, StartRun, RunRaises, QualityRun,
                  QualityRunRefused, SecurityGather, SecurityRun,
                  SecurityException, PreflightClean, DeploymentRun
    <3> QED
      BY <2>3, <3>2 DEF ReleasePathIsScanned
  <2> QED
    BY <2>1, <2>2, <2>3
<1> QED
  BY <1>1, <1>2, <1>3, PipelineTypeCorrect, PTL DEF PipelineSpec
-----------------------------------------------------------------------------
(* What makes AuditedIsReleased inductive.  Every run has seen something, and
   so has every audit that was passed.  While HEAD has not been moved away from
   the accepted checkpoint's commit during the audits, nothing else was seen. *)
AuditInv ==
    /\ job # NoJob => job.commits # {}
    /\ state \in {"SECURITY_AUDIT"} \cup RELEASE_PATH =>
          seen["QUALITY_AUDIT"] # {}
    /\ state \in RELEASE_PATH => seen["SECURITY_AUDIT"] # {}
    /\ state \in GATES /\ pinned \in Commits \ left =>
          /\ \A gate \in AUDITS : seen[gate] \subseteq {pinned}
          /\ state \in AUDITS =>
                /\ left = {} /\ head = pinned
                /\ job # NoJob => job.commits = {pinned}

(* A rejected checkpoint leads to no gate. *)
LEMMA RejectedStaysOut ==
    ASSUME state = "HANDOFF_CHECKPOINT", NEW actor,
           Route("REJECTED", actor) \/ RouteRefused("REJECTED", actor)
    PROVE  state' \notin GATES
  <1>1. CASE RouteRefused("REJECTED", actor)
    BY <1>1 DEF RouteRefused, GATES, AUDITS
  <1>2. CASE Route("REJECTED", actor)
    <2>1. PICK target : /\ <<"HANDOFF_CHECKPOINT", "REJECTED", target>> \in ROUTING
                        /\ state' = Resolved(target)
      BY <1>2 DEF Route, Routable
    <2>2. target \in {REPAIR, "ESCALATED"}
      BY <2>1 DEF ROUTING
    <2>3. "ESCALATED" # REPAIR
      BY DEF REPAIR
    <2>4. Resolved(target) \in {"ESCALATED", "IMPLEMENTATION"}
      BY <2>2, <2>3 DEF Resolved, RepairOrEscalate
    <2> QED
      BY <2>1, <2>4, PathFacts
  <1> QED
    BY <1>1, <1>2

LEMMA GateFacts ==
    /\ AUDITS = {"QUALITY_AUDIT", "SECURITY_AUDIT"}
    /\ GATES = {"QUALITY_AUDIT", "SECURITY_AUDIT", "DEPLOYMENT_CHECK"}
    /\ AUDITS \cap RELEASE_PATH = {}
    /\ GATES \cap RELEASE_PATH = {"DEPLOYMENT_CHECK"}
    /\ "HANDOFF_CHECKPOINT" \notin RELEASE_PATH \cup GATES
  BY DEF AUDITS, GATES, RELEASE_PATH

(* AuditedIsReleased: a passed preflight read an identity that is the
   checkpoint's commit (CommitCheck) and one that git told (RollbackCheck); the
   audits saw nothing else, unless HEAD left that commit while they had their
   turn, which the exception names.  Of a workflow that starts before its
   audits. *)
THEOREM ReleaseIsAudited ==
    ASSUME InitialStates \cap ({"SECURITY_AUDIT"} \cup RELEASE_PATH) = {}
    PROVE  PipelineSpec => []AuditedIsReleased
<1>1. PipelineInit => AuditInv /\ AuditedIsReleased
  BY CommitsAssumption
     DEF PipelineInit, Init, AuditInv, AuditedIsReleased
<1>2. PipelineTypeOK /\ AuditInv /\ [PipelineNext]_pipelineVars => AuditInv'
  <2> SUFFICES ASSUME PipelineTypeOK, AuditInv, [PipelineNext]_pipelineVars
               PROVE  AuditInv'
    OBVIOUS
  <2>0. /\ head \in Commits
        /\ job # NoJob => job \in Jobs /\ state \in {job.gate, "ESCALATED"}
        /\ seen \in [AUDITS -> SUBSET Commits]
    BY DEF PipelineTypeOK
  (* A step that moves the workflow but ends no audit leads to no gate. *)
  <2>1. ASSUME state' # state, ~SecurityRun,
               ~(\E report \in QualityReports : QualityRun(report)),
               ~(\E stale, answers \in BOOLEAN : RouteCheckpoint(stale, answers))
        PROVE  /\ state' \notin GATES
               /\ state' \in RELEASE_PATH => state \in RELEASE_PATH
    <3>1. PipelineNext
      BY <2>1 DEF pipelineVars, vars
    <3>2. /\ state' \in RELEASE_PATH => state \in RELEASE_PATH
          /\ state' \notin AUDITS
      BY <2>1, <3>1, WaysOn, GateFacts
    <3>3. CanTransition(state, state')
      BY <2>1, <3>1, WaysOn
    <3>4. state' # "DEPLOYMENT_CHECK"
      BY <3>2, <3>3, PathFacts, GateFacts
    <3> QED
      BY <3>2, <3>4, GateFacts
  <2>2. ASSUME Work PROVE AuditInv'
    <3>1. /\ head' \in Commits /\ UNCHANGED <<state, pinned, seen>>
          /\ left' = IF state \in AUDITS /\ head' # head
                        THEN left \cup {head} ELSE left
      BY <2>0, <2>2 DEF Work, vars
    <3>2. CASE job = NoJob
      BY <2>0, <2>2, <3>1, <3>2, GateFacts DEF AuditInv, Work
    <3>3. CASE job # NoJob
      <4>1. job' = [job EXCEPT !.commits = job.commits \cup {head'}]
        BY <2>2, <3>3 DEF Work
      <4>2. job'.commits = job.commits \cup {head'}
        BY <2>0, <3>3, <4>1 DEF Jobs
      <4> QED
        BY <3>1, <3>3, <4>2 DEF AuditInv
    <3> QED
      BY <3>2, <3>3
  <2>3. ASSUME NEW stale \in BOOLEAN, NEW answers \in BOOLEAN,
               RouteCheckpoint(stale, answers)
        PROVE  AuditInv'
    <3>1. job = NoJob /\ job' = NoJob
      BY <2>0, <2>3 DEF RouteCheckpoint, Jobs, GATES, AUDITS
    <3>2. /\ seen' = [gate \in AUDITS |-> {}] /\ left' = {}
          /\ head' = head /\ state = "HANDOFF_CHECKPOINT"
      BY <2>3 DEF RouteCheckpoint, repository
    <3>3. state' \in GATES /\ pinned' \in Commits => pinned' = head
      <4>1. CASE ValidCheckpoint(checkpoint, stale, answers)
        BY <2>3, <4>1, CommitsAssumption
        DEF RouteCheckpoint, ValidCheckpoint, Told
      <4>2. CASE ~ValidCheckpoint(checkpoint, stale, answers)
        <5>1. \/ Route("REJECTED", "handoff_agent")
              \/ RouteRefused("REJECTED", "handoff_agent")
          BY <2>3, <4>2 DEF RouteCheckpoint
        <5> QED
          BY <3>2, <5>1, RejectedStaysOut, GateFacts
      <4> QED
        BY <4>1, <4>2
    <3>4. state' \notin {"SECURITY_AUDIT"} \cup RELEASE_PATH
      <4>1. state' = state \/ CanTransition(state, state')
        BY <2>3, RouteLeads DEF RouteCheckpoint, RouteRefused
      <4> QED
        BY <3>2, <4>1, PathFacts DEF RELEASE_PATH
    <3> QED
      BY <3>1, <3>2, <3>3, <3>4 DEF AuditInv
  <2>4. ASSUME NEW answers \in BOOLEAN, StartRun(answers) PROVE AuditInv'
    <3>1. /\ job'.commits = {head}
          /\ UNCHANGED <<state, head, pinned, seen, left>>
      BY <2>4 DEF StartRun, vars, repository, history
    <3> QED
      BY <3>1 DEF AuditInv
  <2>5. ASSUME NEW report \in QualityReports, QualityRun(report)
        PROVE  AuditInv'
    <3>1. /\ job # NoJob /\ job' = NoJob /\ state = "QUALITY_AUDIT"
          /\ seen' = [seen EXCEPT !["QUALITY_AUDIT"] = job.commits]
          /\ UNCHANGED <<head, pinned, left>>
      BY <2>5 DEF QualityRun, Running, EndRun, repository
    <3>2. state' \notin RELEASE_PATH
      <4>1. state' # state => PipelineNext
        BY DEF pipelineVars, vars
      <4> QED
        BY <3>1, <4>1, WaysOn, GateFacts
    <3> QED
      BY <2>0, <3>1, <3>2, GateFacts DEF AuditInv
  <2>6. ASSUME SecurityRun PROVE AuditInv'
    <3>1. /\ job # NoJob /\ job' = NoJob /\ state = "SECURITY_AUDIT"
          /\ seen' = [seen EXCEPT !["SECURITY_AUDIT"] = job.commits]
          /\ UNCHANGED <<head, pinned, left>>
      BY <2>6 DEF SecurityRun, Running, EndRun, repository
    <3> QED
      BY <2>0, <3>1, GateFacts DEF AuditInv
  <2>7. ASSUME SecurityGather \/ \E answers \in BOOLEAN : PreflightClean(answers)
        PROVE  AuditInv'
    <3>1. /\ job \in Jobs /\ job # NoJob
          /\ UNCHANGED <<state, head, pinned, seen, left>>
      BY <2>0, <2>7
      DEF SecurityGather, PreflightClean, Running, vars, repository, history
    <3>2. job'.commits = job.commits
      <4>1. CASE SecurityGather
        <5>1. PICK found \in GatheredBy[job.step + 1] : job' = Further(job, found)
          BY <4>1 DEF SecurityGather
        <5>2. job.step < Len(GATHERERS)
          BY <4>1 DEF SecurityGather
        <5> QED
          BY <3>1, <5>1, <5>2, FurtherFacts
      <4>2. CASE \E answers \in BOOLEAN : PreflightClean(answers)
        BY <3>1, <4>2 DEF PreflightClean, Jobs
      <4> QED
        BY <2>7, <4>1, <4>2
    <3> QED
      BY <3>1, <3>2 DEF AuditInv
  <2> DEFINE Quiet == UNCHANGED <<repository, pinned, seen, left>>
             Advances == \E actor \in Actors, target \in STATES :
                            AdvancePlainly(target, actor)
             Reported == \E actor \in Actors, verdict \in VERDICTS :
                            Report(verdict, actor)
             Creates == \E sound, answers \in BOOLEAN :
                           CreateCheckpoint(sound, answers)
             Refuses == \E report \in QualityReports :
                           QualityRunRefused(report)
             Preflights == \E others \in OthersAfterPass : DeploymentRun(others)
             Audits == \E report \in QualityReports : QualityRun(report)
             HandsOff == \E stale, answers \in BOOLEAN :
                            RouteCheckpoint(stale, answers)
             Gathers == SecurityGather
                          \/ \E answers \in BOOLEAN : PreflightClean(answers)
  <2>8. ASSUME Quiet, job' = job \/ job' = NoJob,
               ~SecurityRun, ~Audits, ~HandsOff
        PROVE  AuditInv'
    <3>1. CASE state' = state
      BY <2>8, <3>1 DEF AuditInv, repository
    <3>2. CASE state' # state
      <4>1. /\ state' \notin GATES
            /\ state' \in RELEASE_PATH => state \in RELEASE_PATH
        BY <2>1, <2>8, <3>2
      <4> QED
        BY <2>8, <4>1, GateFacts DEF AuditInv
    <3> QED
      BY <3>1, <3>2
  <2>9. Advances \/ Reported \/ HumanGate \/ CallForHelp
           \/ SecurityException => Quiet /\ job' = job
    BY DEF AdvancePlainly, Report, HumanGate, CallForHelp, Elsewhere,
           SecurityException, history
  <2>10. Creates => Quiet /\ job' = job
    BY DEF CreateCheckpoint, history
  <2>11. RunRaises \/ Refuses \/ Preflights => Quiet /\ job' = NoJob
    BY DEF RunRaises, QualityRunRefused, DeploymentRun, EndRun, history
  <2>12. UNCHANGED pipelineVars => Quiet /\ job' = job
    BY DEF pipelineVars, repository, history
  <2>13. \/ Work \/ SecurityRun \/ Gathers \/ Audits \/ HandsOff
         \/ \E answers \in BOOLEAN : StartRun(answers)
         \/ Advances \/ Reported \/ HumanGate \/ CallForHelp
         \/ SecurityException \/ Creates \/ RunRaises \/ Refuses \/ Preflights
         \/ UNCHANGED pipelineVars
    BY DEF PipelineNext
  <2>14. ~SecurityRun /\ ~Audits /\ ~HandsOff /\ Quiet
            /\ (job' = job \/ job' = NoJob) => AuditInv'
    BY <2>8
  <2>15. Audits => AuditInv'
    BY <2>5
  <2>16. HandsOff => AuditInv'
    BY <2>3
  <2>17. Gathers => AuditInv'
    BY <2>7
  <2> HIDE DEF Quiet, Advances, Reported, Creates, Refuses, Preflights, Audits,
               HandsOff, Gathers
  <2> QED
    BY <2>2, <2>4, <2>6, <2>9, <2>10, <2>11, <2>12, <2>13, <2>14, <2>15, <2>16,
       <2>17
<1>3. PipelineTypeOK /\ AuditInv /\ AuditedIsReleased
         /\ [PipelineNext]_pipelineVars => AuditedIsReleased'
  <2> SUFFICES ASSUME PipelineTypeOK, AuditInv, AuditedIsReleased,
                      [PipelineNext]_pipelineVars,
                      state' \in RELEASE_PATH \ {"DEPLOYMENT_CHECK"}
               PROVE  /\ artifact' = pinned' /\ artifact' # Untold
                      /\ \/ artifact' \in left'
                         \/ \A gate \in AUDITS : seen'[gate] = {artifact'}
    BY DEF AuditedIsReleased
  <2>1. state \in RELEASE_PATH
    BY WaysOn DEF pipelineVars, vars
  <2>2. state \notin {"QUALITY_AUDIT", "SECURITY_AUDIT", "HANDOFF_CHECKPOINT"}
    BY <2>1 DEF RELEASE_PATH
  <2>3. UNCHANGED <<seen, pinned, left>>
    BY <2>2, GateFacts
       DEF PipelineNext, pipelineVars, history, Work, AdvancePlainly,
           Report, HumanGate, CallForHelp, Elsewhere, CreateCheckpoint,
           RouteCheckpoint, StartRun, RunRaises, QualityRun,
           QualityRunRefused, SecurityGather, SecurityRun,
           SecurityException, PreflightClean, DeploymentRun
  <2>4. CASE state = "DEPLOYMENT_CHECK"
    <3>1. PICK others \in OthersAfterPass :
             /\ DeploymentRun(others)
             /\ Decide(PreflightStatuses(others)) = "PASS"
      BY <2>1, <2>4, WaysOn DEF pipelineVars, vars
    <3>2. /\ job \in Jobs /\ job # NoJob /\ job.gate = "DEPLOYMENT_CHECK"
          /\ artifact' = job.identity
          /\ PreflightStatuses(others) \cap BLOCKING = {}
      BY <3>1 DEF DeploymentRun, Running, PipelineTypeOK, Valid
    <3>3. /\ CommitCheck(job.identity, pinned) \notin BLOCKING
          /\ RollbackCheck(job.identity # Untold) \notin BLOCKING
      BY <3>2 DEF PreflightStatuses
    <3>4. job.identity = pinned /\ job.identity # Untold
      BY <3>3 DEF CommitCheck, RollbackCheck, Met, BLOCKING
    <3>5. \A gate \in AUDITS : seen[gate] # {}
      BY <2>1, GateFacts DEF AuditInv
    <3>6. pinned \notin left => \A gate \in AUDITS : seen[gate] \subseteq {pinned}
      BY <2>4, <3>2, <3>4, GateFacts DEF AuditInv, Jobs
    <3> QED
      BY <2>3, <3>2, <3>4, <3>5, <3>6
  <2>5. CASE state # "DEPLOYMENT_CHECK"
    <3>1. UNCHANGED artifact
      BY <2>2, <2>5
         DEF PipelineNext, pipelineVars, history, Work, AdvancePlainly,
             Report, HumanGate, CallForHelp, Elsewhere, CreateCheckpoint,
             RouteCheckpoint, StartRun, RunRaises, QualityRun,
             QualityRunRefused, SecurityGather, SecurityRun,
             SecurityException, PreflightClean, DeploymentRun
    <3> QED
      BY <2>1, <2>3, <2>5, <3>1 DEF AuditedIsReleased
  <2> QED
    BY <2>4, <2>5
<1> QED
  BY <1>1, <1>2, <1>3, PipelineTypeCorrect, PTL DEF PipelineSpec
=============================================================================

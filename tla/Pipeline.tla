------------------------------ MODULE Pipeline ------------------------------
(***************************************************************************)
(* The release pipeline: the orchestrator driven the way the package's own *)
(* clients drive it.  advance() is used only between non-decision states,  *)
(* as its docstring says; every gate is run by its own client while the    *)
(* workflow stands at that gate, and the client routes the result of that  *)
(* run.  The repository lives on meanwhile: edits, commits and checkouts,  *)
(* back to a commit HEAD has left too, happen between any two steps, also  *)
(* in the middle of a gate's run.                                          *)
(*                                                                         *)
(* Variables above the line "history" are the program's; those below       *)
(* record what happened, for the properties, and no action reads them.     *)
(***************************************************************************)
EXTENDS OpenClaw, Gates

CONSTANT Commits   \* what HEAD may be at: commit SHAs

(* What the program has for a commit when git fails. *)
Untold == ""

ASSUME CommitsAssumption == Untold \notin Commits

(* The roles the gates' clients route with, and the human. *)
CLIENTS == {"handoff_agent", "quality_guardian", "security_gate",
            "deployment_check"}

ASSUME ClientsAssumption == CLIENTS \cup {HUMAN_ROLE} \subseteq Actors

VARIABLES
    head,        \* the commit `git rev-parse HEAD` tells
    dirty,       \* does `git status --porcelain` tell of changes
    checkpoint,  \* the last checkpoint created, or NoCheckpoint
    pinned,      \* what the accepted checkpoint tells: expected_commit
    job,         \* the gate run in progress, or NoJob
    (* history *)
    artifact,    \* the commit the last passed preflight recorded
    seen,        \* by gate: the commits that were HEAD during its run, since the
                 \* last handoff
    left,        \* the commits HEAD was moved away from while the audits had
                 \* their turn, since the last handoff
    scanned,     \* did every tool asked in the last security run run clean
    asked        \* requestSeq when the deployment gate last decided

repository == <<head, dirty>>
history == <<artifact, seen, left, scanned, asked>>
pipelineVars == <<vars, head, dirty, checkpoint, pinned, job, history>>

(* What `git rev-parse HEAD` tells, if it answers. *)
Told(answers) == IF answers THEN head ELSE Untold

NoCheckpoint == [absent |-> TRUE]
NoJob == [absent |-> TRUE]

DECISION_STATES == HUMAN_GATES \cup {entry[1] : entry \in ROUTING}
AUDITS == {"QUALITY_AUDIT", "SECURITY_AUDIT"}
GATES == AUDITS \cup {"DEPLOYMENT_CHECK"}
-----------------------------------------------------------------------------
PipelineInit ==
    /\ Init
    /\ head \in Commits
    /\ dirty = FALSE
    /\ checkpoint = NoCheckpoint
    /\ pinned = Untold
    /\ job = NoJob
    /\ artifact = Untold
    /\ seen = [gate \in AUDITS |-> {}]
    /\ left = {}
    /\ scanned = FALSE
    /\ asked = 0

(* Somebody works on the repository, at any time: edits files or puts them
   back, or moves HEAD, by a commit, which leaves nothing changed, or by a
   checkout or reset, which may.  A running gate sees it. *)
Work ==
    /\ \/ dirty' = ~dirty /\ UNCHANGED head
       \/ head' \in Commits \ {head} /\ dirty' \in {FALSE, dirty}
    /\ job' = IF job = NoJob THEN job
                             ELSE [job EXCEPT !.commits = @ \cup {head'}]
    /\ left' = IF state \in AUDITS /\ head' # head THEN left \cup {head}
                                                   ELSE left
    /\ UNCHANGED <<vars, checkpoint, pinned, artifact, seen, scanned, asked>>

(* A call of the orchestrator that is no gate's business. *)
Elsewhere == UNCHANGED <<repository, checkpoint, pinned, job, history>>

AdvancePlainly(target, actor) ==
    /\ state \notin DECISION_STATES
    /\ Advance(target, actor)
    /\ Elsewhere

(* deploy and post-deploy reports of the deployment check, and the human's
   decision after a rollback. *)
Report(verdict, actor) ==
    /\ \/ state \in {"DEPLOY", "POST_DEPLOY_VERIFY"}
          /\ actor = "deployment_check"
       \/ state = "ROLLED_BACK" /\ actor = HUMAN_ROLE
    /\ Route(verdict, actor)
    /\ Elsewhere

(* The human gates: DeploymentGate's request_release_approval,
   record_release_approval and continue_after_release_approval for the
   release, the orchestrator's own methods for HUMAN_APPROVAL. *)
HumanGate ==
    /\ \/ \E gate \in HUMAN_GATES : RequestHumanApproval(gate)
       \/ \E gate \in HUMAN_GATES, approved \in BOOLEAN :
             RecordHumanApproval(gate, approved, HUMAN_ROLE)
       \/ ContinueAfterHumanGate(HUMAN_ROLE)
    /\ Elsewhere

CallForHelp == \E actor \in Actors : Escalate(actor) /\ Elsewhere
-----------------------------------------------------------------------------
(* HandoffClient.create_checkpoint with default_git_state: sound when every
   field is filled in, the owner is the coding agent and the state is one of
   the workflow's. *)
CreateCheckpoint(sound, answers) ==
    /\ state = "IMPLEMENTATION"
    /\ checkpoint' = [head |-> Told(answers), sound |-> sound]
    /\ UNCHANGED <<vars, repository, pinned, job, history>>

(* validate_checkpoint: fields, owner and state; age; GIT TRUTH, which two
   failures of git agree on. *)
ValidCheckpoint(c, stale, answers) ==
    c.sound /\ ~stale /\ c.head = Told(answers)

(* HandoffClient.route_checkpoint, with the Git state read by the caller at
   the call; a rejection may find the repair bound reached and raise. *)
RouteCheckpoint(stale, answers) ==
    /\ state = "HANDOFF_CHECKPOINT"
    /\ checkpoint # NoCheckpoint
    /\ IF ValidCheckpoint(checkpoint, stale, answers)
          THEN /\ Route("ACCEPTED", "handoff_agent")
               /\ pinned' = checkpoint.head
          ELSE /\ \/ Route("REJECTED", "handoff_agent")
                  \/ RouteRefused("REJECTED", "handoff_agent")
               /\ UNCHANGED pinned
    /\ seen' = [gate \in AUDITS |-> {}]
    /\ left' = {}
    /\ scanned' = FALSE
    /\ UNCHANGED <<repository, checkpoint, job, artifact, asked>>
-----------------------------------------------------------------------------
(* A gate's client starts its run; the deployment gate reads the artifact's
   identity first and looks at everything else later. *)
StartRun(answers) ==
    /\ job = NoJob
    /\ state \in GATES
    /\ job' = [gate |-> state, step |-> 0, statuses |-> {}, clean |-> TRUE,
               commits |-> {head}, identity |-> Told(answers)]
    /\ UNCHANGED <<vars, repository, checkpoint, pinned, history>>

Running(gate) == job # NoJob /\ job.gate = gate

(* Mutant: the finished run is not forgotten. *)
KeepRun == UNCHANGED job

EndRun == job' = NoJob

(* A run that raises: git or the build does not answer in time (neither gate
   catches TimeoutExpired), the agent or a file cannot be read.  The caller
   may start again. *)
RunRaises ==
    /\ job # NoJob
    /\ EndRun
    /\ UNCHANGED <<vars, repository, checkpoint, pinned, history>>

(* QualityGuardianClient.invoke and route_result. *)
QualityRun(report) ==
    /\ Running("QUALITY_AUDIT")
    /\ state = "QUALITY_AUDIT"
    /\ Validated(report)
    /\ Routed(report)
    /\ Route(QualityVerdict(report), "quality_guardian")
    /\ seen' = [seen EXCEPT !["QUALITY_AUDIT"] = job.commits]
    /\ EndRun
    /\ UNCHANGED <<repository, checkpoint, pinned, artifact, left, scanned,
                   asked>>

(* A run whose report is refused by validate_result or by route_result: the
   caller starts again. *)
QualityRunRefused(report) ==
    /\ Running("QUALITY_AUDIT")
    /\ state = "QUALITY_AUDIT"
    /\ ~(Validated(report) /\ Routed(report))
    /\ EndRun
    /\ UNCHANGED <<vars, repository, checkpoint, pinned, history>>

(* SecurityGate.run, one gatherer. *)
SecurityGather ==
    /\ Running("SECURITY_AUDIT")
    /\ job.step < Len(GATHERERS)
    /\ \E found \in GatheredBy[job.step + 1] : job' = Further(job, found)
    /\ UNCHANGED <<vars, repository, checkpoint, pinned, history>>

(* SecurityGateClient.route_result *)
SecurityRun ==
    /\ Running("SECURITY_AUDIT")
    /\ job.step = Len(GATHERERS)
    /\ state = "SECURITY_AUDIT"
    /\ Valid(Decide(job.statuses), job.statuses)
    /\ Route(Decide(job.statuses), "security_gate")
    /\ seen' = [seen EXCEPT !["SECURITY_AUDIT"] = job.commits]
    /\ scanned' = job.clean
    /\ EndRun
    /\ UNCHANGED <<repository, checkpoint, pinned, artifact, left, asked>>

(* Mutant: a run that is under way does not keep the caller from giving up. *)
SecurityExceptionAnytime ==
    /\ state = "SECURITY_AUDIT"
    /\ Route("NEEDS_REVIEW", "security_gate")
    /\ Elsewhere

(* SecurityGate.need_review, routed instead of a run.  That no run is under way
   is the caller's discipline: one client, which does one thing at a time. *)
SecurityException ==
    /\ job = NoJob
    /\ state = "SECURITY_AUDIT"
    /\ Route("NEEDS_REVIEW", "security_gate")
    /\ Elsewhere

(* DeploymentGate.preflight after the identity was read: is the tree clean. *)
PreflightClean(answers) ==
    /\ Running("DEPLOYMENT_CHECK")
    /\ job.step = 0
    /\ job' = [job EXCEPT !.step = 1,
                          !.statuses = BLOCKING \cap {CleanCheck(dirty, answers)}]
    /\ UNCHANGED <<vars, repository, checkpoint, pinned, history>>

(* What the rest of preflight decides, of a caller that hands in the decisions
   of the two gates that let the workflow get here. *)
PreflightStatuses(others) ==
    job.statuses \cup others \cup
        (BLOCKING \cap {CommitCheck(job.identity, pinned),
                        RollbackCheck(job.identity # Untold)})

OthersAfterPass == OtherPreflight("PASS", "PASS")

(* The rest of preflight, and DeploymentGateClient.route_result. *)
DeploymentRun(others) ==
    LET decision == Decide(PreflightStatuses(others))
    IN  /\ Running("DEPLOYMENT_CHECK")
        /\ job.step = 1
        /\ state = "DEPLOYMENT_CHECK"
        /\ Valid(decision, PreflightStatuses(others))
        /\ Route(DeploymentVerdict(decision), "deployment_check")
        /\ artifact' = IF decision = "PASS" THEN job.identity ELSE artifact
        /\ asked' = requestSeq
        /\ EndRun
        /\ UNCHANGED <<repository, checkpoint, pinned, seen, left, scanned>>

PipelineNext ==
    \/ Work
    \/ \E actor \in Actors, target \in STATES : AdvancePlainly(target, actor)
    \/ \E actor \in Actors, verdict \in VERDICTS : Report(verdict, actor)
    \/ HumanGate
    \/ CallForHelp
    \/ \E sound, answers \in BOOLEAN : CreateCheckpoint(sound, answers)
    \/ \E stale, answers \in BOOLEAN : RouteCheckpoint(stale, answers)
    \/ \E answers \in BOOLEAN : StartRun(answers)
    \/ RunRaises
    \/ \E report \in QualityReports :
          QualityRun(report) \/ QualityRunRefused(report)
    \/ SecurityGather
    \/ SecurityRun
    \/ SecurityException
    \/ \E answers \in BOOLEAN : PreflightClean(answers)
    \/ \E others \in OthersAfterPass : DeploymentRun(others)

PipelineSpec == PipelineInit /\ [][PipelineNext]_pipelineVars
-----------------------------------------------------------------------------
Jobs ==
    [gate : GATES, step : 0 .. Len(GATHERERS), statuses : SUBSET BLOCKING,
     clean : BOOLEAN, commits : SUBSET Commits,
     identity : Commits \cup {Untold}]

(* The types, and that a gate's run never outlives the gate: whenever a run
   is in progress the workflow stands at its gate, or was escalated. *)
PipelineTypeOK ==
    /\ TypeOK
    /\ head \in Commits
    /\ {pinned, artifact} \subseteq Commits \cup {Untold}
    /\ dirty \in BOOLEAN
    /\ checkpoint \in {NoCheckpoint} \cup
                      [head : Commits \cup {Untold}, sound : BOOLEAN]
    /\ job \in {NoJob} \cup Jobs
    /\ job # NoJob => state \in {job.gate, "ESCALATED"}
    /\ seen \in [AUDITS -> SUBSET Commits]
    /\ left \subseteq Commits
    /\ scanned \in BOOLEAN
    /\ asked \in 0 .. MaxRequests

RELEASE_PATH ==
    {"DEPLOYMENT_CHECK", "HUMAN_RELEASE_APPROVAL", "DEPLOY",
     "POST_DEPLOY_VERIFY", "PRODUCTION"}

(* "NOT_SCANNED is never PASS", from end to end: wherever the workflow is past
   the security gate, each scanner the gate consults really ran to its end in
   the run that let it pass, and reported nothing.  No missing binary, broken
   version, signal, timeout or unreadable report on the way from the
   subprocess to the orchestrator can be taken for a clean scan.  Needs a
   definition of every tool: see the README on default_scanner. *)
ReleasePathIsScanned ==
    state \in RELEASE_PATH => scanned

(* What is offered for release is what was handed off and audited: past the
   deployment gate the recorded artifact is the accepted checkpoint's commit,
   one that git told, and the one commit that was HEAD, from beginning to end,
   while the quality and the security gate ran.  The results of those gates
   name no commit, so this rests on the checkpoint's commit being given as
   expected_commit, and, should git have told neither the handoff nor preflight
   a commit, on the rollback check.  It rests no further than that: if HEAD was
   moved away from the artifact during the audits and brought back before
   preflight, nothing in the code can tell, and the audits may have seen another
   commit. *)
AuditedIsReleased ==
    state \in RELEASE_PATH \ {"DEPLOYMENT_CHECK"} =>
        /\ artifact = pinned /\ artifact # Untold
        /\ \/ artifact \in left
           \/ \A gate \in AUDITS : seen[gate] = {artifact}

(* A human gate is left only by the human's answer on record: forwards on a
   yes, to ABORTED on a no, whatever gates, reports and calls for help come in
   between; the release gate may also be left by calling for help.  An old
   answer is an answer here: see EachReleaseHasItsAnswer. *)
GatesAreAnswered ==
    [][\A gate \in HUMAN_GATES : state = gate /\ state' # gate =>
          \/ state' = ApprovalSuccessor(gate) /\ approvals[gate].approved
          \/ /\ state' = "ABORTED"
             /\ approvals[gate] # NoAnswer /\ ~approvals[gate].approved
          \/ gate = "HUMAN_RELEASE_APPROVAL" /\ state' = "ESCALATED"]_pipelineVars

(* How much work may be left: what the repairs not yet spent can ask for, and
   the stations still ahead. *)
Ahead ==
    IF STATION[state] # 0 THEN 15 - STATION[state]
    ELSE IF state = "ROLLED_BACK" THEN 1 ELSE 0

WorkLeft == 15 * (MaxRepair - repairs) + Ahead

(* No way back is free: each move of the workflow leaves less work than there
   was, and no call that does not move it adds any.  The two exceptions have no
   bound: the councils may go back to research, and the human may send what was
   rolled back to be repaired, which spends no repair. *)
NoFreeWayBack ==
    [][\/ WorkLeft' < WorkLeft
       \/ WorkLeft' = WorkLeft /\ UNCHANGED state
       \/ state = "COUNCIL_REVIEW" /\ state' = "RESEARCH" /\ UNCHANGED repairs
       \/ /\ state = "ROLLED_BACK" /\ state' = "IMPLEMENTATION"
          /\ lastVerdict' = "REPAIR" /\ UNCHANGED repairs]_pipelineVars

(* What the runs of the three gates can come to, as their clients route it. *)
Results ==
    [QUALITY_AUDIT    |-> {QualityVerdict(report) :
                              report \in {r \in QualityReports :
                                             Validated(r) /\ Routed(r)}},
     SECURITY_AUDIT   |-> {Decide(statuses) : statuses \in SUBSET BLOCKING}
                             \cup {"NEEDS_REVIEW"},
     DEPLOYMENT_CHECK |-> {DeploymentVerdict(Decide(statuses)) :
                              statuses \in SUBSET BLOCKING}]

(* Whatever a gate's run comes to, its client can hand it over: the three
   vocabularies of results fit the routing table, and where the table says
   "repair" the move is legal below the bound and at it.  (It is not at
   HANDOFF_CHECKPOINT: see EscalationHappens.) *)
ResultsAreRoutable ==
    \A gate \in GATES : state = gate =>
       \A verdict \in Results[gate] :
          \E target \in STATES \cup {REPAIR} :
             /\ Routable(verdict, target, OWNERS[gate])
             /\ CanTransition(gate, Resolved(target))

(* The security run in progress, without what only the pipeline knows of it. *)
SecurityRunOf(j) == [step |-> j.step, statuses |-> j.statuses, clean |-> j.clean]

AuditRun == IF Running("SECURITY_AUDIT") THEN SecurityRunOf(job) ELSE NoJob

Audit == INSTANCE AbstractAudit WITH run <- AuditRun, decision <- lastVerdict

(* The caller gets what a security run promises, whatever goes on around it:
   commits and edits, calls for help, runs of other gates that raise. *)
RunsAreAudits == Audit!SharedSpec

(* WORKFLOW.md gives HUMAN_RELEASE_APPROVAL "before DEPLOY" and allows "no
   silent bypass of any human gate": each time the workflow enters DEPLOY, the
   approval it goes by was requested after the deployment gate let it pass.
   Fails: an approval is never consumed, and after a rollback and a repair
   the old one opens the gate again for an artifact nobody was asked about. *)
EachReleaseHasItsAnswer ==
    [][state # "DEPLOY" /\ state' = "DEPLOY" =>
          approvals["HUMAN_RELEASE_APPROVAL"].request > asked]_pipelineVars
=============================================================================

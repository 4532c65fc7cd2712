------------------------------- MODULE Gates -------------------------------
(***************************************************************************)
(* What the gates decide, as pure operators: the checks of the security    *)
(* gate and the order it gathers them in (security_gate.py), the preflight *)
(* checks of the deployment gate (deployment_gate.py), how checks become a *)
(* decision in both, and how a quality report becomes a verdict            *)
(* (quality_integration.py).                                               *)
(***************************************************************************)
EXTENDS Workflow, Registry, Scanners

VALID_STATUSES ==
    {"PASS", "FAIL", "ERROR", "NOT_APPLICABLE", "NOT_SCANNED", "NEEDS_REVIEW"}

(* The status of a check that asks one yes-or-no question. *)
Met(condition) == IF condition THEN "PASS" ELSE "FAIL"
PassOrFail == {Met(c) : c \in BOOLEAN}
-----------------------------------------------------------------------------
(* The gatherers of the security gate: each with the tools it asks, in their
   order, and the sets of statuses its built-in checks can come to.

   _check_repository: secrets, .gitignore, key files, file modes, and the
   branch protection the host has evidence of. *)
CheckRepository ==
    [tools |-> <<"gitleaks">>,
     builtin |-> {{secrets, ignored, keyFiles, modes, protection} :
                     secrets, keyFiles, modes \in PassOrFail,
                     ignored \in {"PASS", "NEEDS_REVIEW", "FAIL"},
                     protection \in {"PASS", "NOT_SCANNED"}}]

(* _check_dependency: are the requirements pinned, if there are any. *)
CheckDependency ==
    [tools |-> <<"pip-audit", "osv-scanner">>,
     builtin |-> {{exact} : exact \in PassOrFail \cup {"NOT_APPLICABLE"}}]

(* _check_application: dangerous calls. *)
CheckApplication ==
    [tools |-> <<"semgrep">>, builtin |-> {{calls} : calls \in PassOrFail}]

(* _check_infrastructure: environment files, credentials in configuration, a
   server's headers (never looked at); secret management always passes. *)
CheckInfrastructure ==
    [tools |-> <<>>,
     builtin |-> {{env, credentials, headers, "PASS"} :
                     env, credentials \in PassOrFail,
                     headers \in {"NOT_APPLICABLE", "NOT_SCANNED"}}]

(* _check_ai_agent: two markers in the orchestrator's source, if the project
   has one, and its registry file, if it has one. *)
CheckAiAgent ==
    [tools |-> <<>>,
     builtin |-> {orchestrator \cup {registry} :
                     orchestrator \in {{"NOT_APPLICABLE"}} \cup
                         {{actor, approver} : actor, approver \in PassOrFail},
                     registry \in {Met(LeastPrivilege(AGENTS)), "FAIL"}}]

(* _check_governance: of the tables of the running package itself. *)
DeployIsSafe ==
    /\ CanTransition("HUMAN_RELEASE_APPROVAL", "DEPLOY")
    /\ \A s \in {"HANDOFF_CHECKPOINT", "QUALITY_AUDIT", "SECURITY_AUDIT",
                 "DEPLOYMENT_CHECK"} : ~CanTransition(s, "DEPLOY")
NotScannedIsSafe ==
    /\ \A entry \in ROUTING :
          entry[1] = "SECURITY_AUDIT" /\ entry[2] = "NOT_SCANNED" =>
             entry[3] = "ESCALATED"
    /\ <<"SECURITY_AUDIT", "PASS", "DEPLOYMENT_CHECK">> \in ROUTING
GatesAreOwned ==
    /\ OWNERS.SECURITY_AUDIT = "security_gate"
    /\ OWNERS.QUALITY_AUDIT = "quality_guardian"
CheckGovernance ==
    [tools |-> <<>>,
     builtin |-> {{Met(DeployIsSafe), Met(NotScannedIsSafe),
                   Met(GatesAreOwned)}}]

(* SecurityGate.run: the gatherers in their order. *)
GATHERERS == <<CheckRepository, CheckDependency, CheckApplication,
               CheckInfrastructure, CheckAiAgent, CheckGovernance>>

(* The statuses that keep a gate from passing. *)
BLOCKING == {"FAIL", "ERROR", "NOT_SCANNED", "NEEDS_REVIEW"}

(* The tools a gatherer asks. *)
ToolsNamed(gatherer) == {gatherer.tools[i] : i \in DOMAIN gatherer.tools}

(* What one gatherer adds: the blocking statuses of its checks (PASS and
   NOT_APPLICABLE count for nothing in a decision), and whether each tool it
   asks ran clean. *)
Added(gatherer, builtin, scans) ==
    [statuses |-> BLOCKING \cap
                    (builtin \cup {scans[t].status : t \in ToolsNamed(gatherer)}),
     clean    |-> \A t \in ToolsNamed(gatherer) : scans[t].clean]

Gathered(gatherer) ==
    LET outcomes == [ToolsNamed(gatherer) -> UNION {ExternalScan(t) : t \in TOOLS}]
    IN  {Added(gatherer, builtin, scans) :
            builtin \in gatherer.builtin,
            scans \in {f \in outcomes : \A t \in ToolsNamed(gatherer) :
                                         f[t] \in ExternalScan(t)}}

(* Gathered of each member of GATHERERS: a tuple, which TLC computes once. *)
GatheredBy ==
    <<Gathered(CheckRepository), Gathered(CheckDependency),
      Gathered(CheckApplication), Gathered(CheckInfrastructure),
      Gathered(CheckAiAgent), Gathered(CheckGovernance)>>

(* A run of the gate, one gatherer further. *)
Further(run, found) ==
    [run EXCEPT !.step = @ + 1,
                !.statuses = @ \cup found.statuses,
                !.clean = @ /\ found.clean]
-----------------------------------------------------------------------------
(* _DECISION_PRECEDENCE *)
PRECEDENCE == <<"FAIL", "ERROR", "NOT_SCANNED", "NEEDS_REVIEW">>

(* Mutant: a review that is needed is not among the obstacles. *)
DecideWithoutReview(statuses) ==
    LET blocking == {i \in 1 .. 3 : PRECEDENCE[i] \in statuses}
    IN  IF blocking = {}
           THEN "PASS"
           ELSE PRECEDENCE[CHOOSE i \in blocking : \A j \in blocking : i <= j]

(* _decide: the first blocking status there is. *)
Decide(statuses) ==
    LET blocking == {i \in DOMAIN PRECEDENCE : PRECEDENCE[i] \in statuses}
    IN  IF blocking = {}
           THEN "PASS"
           ELSE PRECEDENCE[CHOOSE i \in blocking : \A j \in blocking : i <= j]

(* validate, of the result of either gate: else it raises. *)
Valid(decision, statuses) ==
    /\ decision \in BLOCKING \cup {"PASS"}
    /\ statuses \subseteq VALID_STATUSES
    /\ decision = "PASS" => statuses \cap BLOCKING = {}
    /\ decision \in {"FAIL", "ERROR"} => statuses \cap {"FAIL", "ERROR"} # {}
-----------------------------------------------------------------------------
(* Mutant: whatever commit the caller expected, one is there. *)
AnyCommit(commit, expected) == "PASS"

(* _commit_check, of a caller that names the commit it expects; a commit git
   does not tell is "". *)
CommitCheck(commit, expected) == Met(commit = expected)

(* _rollback_check *)
RollbackCheck(told) == IF told THEN "PASS" ELSE "ERROR"

(* _clean_check: a `git status` that fails has no lines either. *)
CleanCheck(changed, answers) == Met(~(changed /\ answers))

(* _branch_check, _remote_check: nothing, the right or the wrong one. *)
ExpectationChecks == {"NOT_SCANNED"} \cup PassOrFail

(* _quality_gate_check, _security_gate_check: of the decision handed in. *)
GateCheck(decision) ==
    IF decision \in {"PASS", "NOT_SCANNED"} THEN decision ELSE "FAIL"

(* _tests_check, _build_check, _env_config_check, _secrets_check *)
TestsChecks == {"PASS", "FAIL", "ERROR", "NOT_SCANNED"}
BuildChecks == {"PASS", "ERROR"}
EnvConfigChecks == {"NOT_APPLICABLE", "PASS", "NEEDS_REVIEW"}
SecretsChecks == {"NOT_APPLICABLE", "PASS"}

(* The blocking ones of the checks of preflight that look at neither the
   commit nor the tree: the caller hands in the decisions of the two gates. *)
OtherPreflight(quality, security) ==
    {BLOCKING \cap {branch, remote, tests, GateCheck(quality),
                    GateCheck(security), build, env, secrets} :
        branch, remote \in ExpectationChecks, tests \in TestsChecks,
        build \in BuildChecks, env \in EnvConfigChecks,
        secrets \in SecretsChecks}

(* Mutant: the decision is routed under its own name. *)
DecisionAsVerdict(decision) == decision

(* DeploymentGateClient.route_result: the orchestrator has no NOT_SCANNED at
   DEPLOYMENT_CHECK, missing evidence is routed as a review. *)
DeploymentVerdict(decision) ==
    IF decision = "NOT_SCANNED" THEN "NEEDS_REVIEW" ELSE decision
-----------------------------------------------------------------------------
(* What the agent behind QualityGuardianClient.invoke may report: a status, a
   decision, either of them perhaps none the client knows, and what it says of
   single scanners: they passed with evidence of their target, passed without
   any, or came to something else, such as not having scanned. *)
QualityReports ==
    [status   : {"PASS", "FAIL", "ERROR", "NOT_APPLICABLE", "NOT_SCANNED",
                 "unknown"},
     decision : {"PASS", "BLOCK", "NEEDS_REVIEW", "unknown"},
     scanners : SUBSET {"covered PASS", "bare PASS", "no PASS"}]

(* verify_preserves_evidence_model: a scanner's pass needs evidence of its
   target; one that did not scan is not looked at. *)
EvidenceIsPreserved(report) == "bare PASS" \notin report.scanners

(* validate_result, when it does not raise. *)
Validated(report) ==
    /\ report.status # "unknown"
    /\ report.decision # "unknown"
    /\ EvidenceIsPreserved(report)

(* A NOT_APPLICABLE report is valid and unroutable: route_result raises. *)
Routed(report) == report.status # "NOT_APPLICABLE"

(* QualityGuardianClient.route_result: the status comes before the decision. *)
QualityVerdict(report) ==
    IF report.status # "PASS" THEN report.status
    ELSE IF report.decision = "BLOCK" THEN "FAIL"
    ELSE report.decision
=============================================================================

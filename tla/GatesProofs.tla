---------------------------- MODULE GatesProofs ----------------------------
(***************************************************************************)
(* Facts about a run of the security gate, whatever scanners are defined:  *)
(* what a scan and a gatherer add to it, and what no obstacle means.       *)
(***************************************************************************)
EXTENDS Gates, TLAPS

(* What a scan and a gatherer add to a run. *)
LEMMA AddedFacts ==
    ASSUME NEW gatherer, NEW builtin, NEW scans
    PROVE  /\ Added(gatherer, builtin, scans).statuses \in SUBSET BLOCKING
           /\ Added(gatherer, builtin, scans).clean \in BOOLEAN
           /\ Added(gatherer, builtin, scans).clean <=>
                 \A t \in ToolsNamed(gatherer) : scans[t].clean
<1> DEFINE c == \A t \in ToolsNamed(gatherer) : scans[t].clean
           S == builtin \cup {scans[t].status : t \in ToolsNamed(gatherer)}
<1>1. c \in BOOLEAN
  BY Zenon
<1>2. Added(gatherer, builtin, scans) =
         [statuses |-> BLOCKING \cap S, clean |-> c]
  BY Zenon DEF Added
<1>3. c <=> \A t \in ToolsNamed(gatherer) : scans[t].clean
  OBVIOUS
<1> HIDE DEF c, S
<1> QED
  BY <1>1, <1>2, <1>3

(* A gatherer adds obstacles, and whether its tools ran clean. *)
LEMMA GatheredFacts ==
    ASSUME NEW gatherer, NEW found \in Gathered(gatherer)
    PROVE  /\ found.statuses \in SUBSET BLOCKING
           /\ found.clean \in BOOLEAN
BY AddedFacts DEF Gathered

LEMMA GatheredHas ==
    ASSUME NEW gatherer, NEW builtin \in gatherer.builtin,
           NEW scans \in [ToolsNamed(gatherer) ->
                             UNION {ExternalScan(t) : t \in TOOLS}],
           \A t \in ToolsNamed(gatherer) : scans[t] \in ExternalScan(t)
    PROVE  Added(gatherer, builtin, scans) \in Gathered(gatherer)
BY DEF Gathered

(* SecurityGate.run has six gatherers. *)
LEMMA SixGatherers ==
    /\ Len(GATHERERS) = 6
    /\ \A i \in 1 .. 6 : GatheredBy[i] = Gathered(GATHERERS[i])
BY DEF GATHERERS, GatheredBy

(* From the subprocess to the check: of one execution, only a clean run is no
   obstacle. *)
LEMMA OnlyCleanRunsPass ==
    ASSUME NEW name, NEW x \in Executions,
           CheckStatus(RunScanner(name, x)) \notin BLOCKING
    PROVE  RanClean(name, x)
<1>1. RunScanner(name, x) = "PASS"
  BY DEF CheckStatus, BLOCKING
<1>2. x.target \in {"inside", "refused"}
      /\ x.version \in {"readable", "unreadable"}
  BY DEF Executions
<1> QED
  BY <1>1, <1>2 DEF RunScanner, RanClean

(* If each tool has a definition, the check of a tool is no obstacle only if
   that very tool ran clean. *)
LEMMA ScanFacts ==
    ASSUME Defined = TOOLS, NEW tool \in TOOLS,
           NEW scan \in ExternalScan(tool), scan.status \notin BLOCKING
    PROVE  scan.clean
<1>1. scan \in {[status |-> "NOT_SCANNED", clean |-> FALSE]}
         \/ \E x \in Executions :
               scan = [status |-> CheckStatus(RunScanner(tool, x)),
                       clean  |-> RanClean(tool, x) /\ tool = tool]
  BY DEF ExternalScan, ScannerFor
<1>2. PICK x \in Executions :
         scan = [status |-> CheckStatus(RunScanner(tool, x)),
                 clean  |-> RanClean(tool, x) /\ tool = tool]
  BY <1>1 DEF BLOCKING
<1>3. CheckStatus(RunScanner(tool, x)) \notin BLOCKING
  BY <1>2
<1>4. RanClean(tool, x)
  BY <1>3, OnlyCleanRunsPass
<1> QED
  BY <1>2, <1>4, Zenon

(* No tool is in the list twice. *)
Distinct(list) == \A i, j \in DOMAIN list : list[i] = list[j] => i = j

(* The gatherers ask known tools, at most two each and none of them twice,
   and between them all. *)
LEMMA GatherersAskTools ==
    /\ \A i \in 1 .. 6 : /\ ToolsNamed(GATHERERS[i]) \subseteq TOOLS
                         /\ GATHERERS[i].tools \in Seq(TOOLS)
                         /\ Len(GATHERERS[i].tools) <= 2
                         /\ Distinct(GATHERERS[i].tools)
    /\ TOOLS \subseteq UNION {ToolsNamed(GATHERERS[i]) : i \in 1 .. 6}
<1>1. /\ CheckRepository.tools = <<"gitleaks">>
      /\ CheckDependency.tools = <<"pip-audit", "osv-scanner">>
      /\ CheckApplication.tools = <<"semgrep">>
      /\ CheckInfrastructure.tools = <<>>
      /\ CheckAiAgent.tools = <<>>
      /\ CheckGovernance.tools = <<>>
  BY DEF CheckRepository, CheckDependency, CheckApplication,
         CheckInfrastructure, CheckAiAgent, CheckGovernance
<1>2. /\ ToolsNamed(CheckRepository) = {"gitleaks"}
      /\ ToolsNamed(CheckDependency) = {"pip-audit", "osv-scanner"}
      /\ ToolsNamed(CheckApplication) = {"semgrep"}
      /\ ToolsNamed(CheckInfrastructure) = {}
      /\ ToolsNamed(CheckAiAgent) = {}
      /\ ToolsNamed(CheckGovernance) = {}
  BY <1>1 DEF ToolsNamed
<1> DEFINE Lists == {<<"gitleaks">>, <<"pip-audit", "osv-scanner">>,
                     <<"semgrep">>, <<>>}
<1>3. \A l \in Lists : l \in Seq(TOOLS) /\ Len(l) <= 2 /\ Distinct(l)
  <2>1. <<"gitleaks">> \in Seq(TOOLS) /\ <<"semgrep">> \in Seq(TOOLS)
    BY DEF TOOLS
  <2>2. <<"pip-audit", "osv-scanner">> \in Seq(TOOLS) /\ <<>> \in Seq(TOOLS)
    BY DEF TOOLS
  <2>3. /\ Len(<<"gitleaks">>) = 1 /\ Len(<<"semgrep">>) = 1
        /\ Len(<<"pip-audit", "osv-scanner">>) = 2 /\ Len(<<>>) = 0
    OBVIOUS
  <2>4. /\ Len(<<"gitleaks">>) <= 2 /\ Len(<<"semgrep">>) <= 2
        /\ Len(<<"pip-audit", "osv-scanner">>) <= 2 /\ Len(<<>>) <= 2
    BY <2>3
  <2>5. /\ Distinct(<<"gitleaks">>) /\ Distinct(<<"semgrep">>)
        /\ Distinct(<<"pip-audit", "osv-scanner">>) /\ Distinct(<<>>)
    BY DEF Distinct
  <2> QED
    BY <2>1, <2>2, <2>4, <2>5, Zenon
<1> HIDE DEF Lists
<1>4. \A i \in 1 .. 6 : /\ ToolsNamed(GATHERERS[i]) \subseteq TOOLS
                        /\ GATHERERS[i].tools \in Seq(TOOLS)
                        /\ Len(GATHERERS[i].tools) <= 2
                        /\ Distinct(GATHERERS[i].tools)
  <2>1. \A i \in 1 .. 6 :
           GATHERERS[i] \in {CheckRepository, CheckDependency,
                             CheckApplication, CheckInfrastructure,
                             CheckAiAgent, CheckGovernance}
    BY DEF GATHERERS
  <2>2. \A i \in 1 .. 6 : GATHERERS[i].tools \in Lists
    BY <1>1, <2>1 DEF Lists
  <2>3. \A i \in 1 .. 6 : ToolsNamed(GATHERERS[i]) \subseteq TOOLS
    BY <1>2, <2>1 DEF TOOLS
  <2> QED
    BY <1>3, <2>2, <2>3
<1>5. /\ GATHERERS[1] = CheckRepository /\ GATHERERS[2] = CheckDependency
      /\ GATHERERS[3] = CheckApplication
  BY DEF GATHERERS
<1>6. 1 \in 1 .. 6 /\ 2 \in 1 .. 6 /\ 3 \in 1 .. 6
  OBVIOUS
<1>7. TOOLS \subseteq UNION {ToolsNamed(GATHERERS[i]) : i \in 1 .. 6}
  BY <1>2, <1>5, <1>6 DEF TOOLS
<1> QED
  BY <1>4, <1>7

(* A gatherer that adds no obstacle had all its tools run clean. *)
LEMMA FoundFacts ==
    ASSUME Defined = TOOLS, NEW i \in 1 .. 6, NEW found \in GatheredBy[i],
           found.statuses = {}
    PROVE  found.clean
<1> DEFINE gatherer == GATHERERS[i]
<1>1. PICK builtin, scans :
         /\ found = Added(gatherer, builtin, scans)
         /\ \A t \in ToolsNamed(gatherer) : scans[t] \in ExternalScan(t)
  BY SixGatherers DEF Gathered
<1>2. Added(gatherer, builtin, scans).statuses =
         BLOCKING \cap
            (builtin \cup {scans[t].status : t \in ToolsNamed(gatherer)})
  BY DEF Added
<1>3. ASSUME NEW t \in ToolsNamed(gatherer) PROVE scans[t].clean
  <2>1. scans[t].status \notin BLOCKING
    BY <1>1, <1>2
  <2> QED
    BY <1>1, <2>1, ScanFacts, GatherersAskTools
<1> QED
  BY <1>1, <1>3, AddedFacts

(* What the scan of a tool may come to: a tool that is not there, an error of
   any kind, and what an execution of the scanner that answers for it gives. *)
LEMMA ScanOutcomes ==
    ASSUME NEW tool \in TOOLS
    PROVE  /\ [status |-> "NOT_SCANNED", clean |-> FALSE] \in ExternalScan(tool)
           /\ [status |-> "ERROR", clean |-> FALSE] \in ExternalScan(tool)
           /\ ScannerFor(tool) \in Defined => \A x \in Executions :
                 [status |-> CheckStatus(RunScanner(ScannerFor(tool), x)),
                  clean  |-> /\ RanClean(ScannerFor(tool), x)
                             /\ ScannerFor(tool) = tool] \in ExternalScan(tool)
<1>1. [status |-> "NOT_SCANNED", clean |-> FALSE] \in ExternalScan(tool)
  BY DEF ExternalScan
<1>2. ASSUME ScannerFor(tool) \in Defined, NEW x \in Executions
      PROVE  [status |-> CheckStatus(RunScanner(ScannerFor(tool), x)),
              clean  |-> /\ RanClean(ScannerFor(tool), x)
                         /\ ScannerFor(tool) = tool] \in ExternalScan(tool)
  BY <1>2, Zenon DEF ExternalScan
<1>3. [status |-> "ERROR", clean |-> FALSE] \in ExternalScan(tool)
  <2>1. CASE ScannerFor(tool) \notin Defined
    BY <2>1 DEF ExternalScan
  <2>2. CASE ScannerFor(tool) \in Defined
    <3> DEFINE x == [target |-> "refused", installed |-> FALSE,
                     version |-> "unreadable", ended |-> "not started",
                     report |-> NoReport]
               r == [status |-> CheckStatus(RunScanner(ScannerFor(tool), x)),
                     clean  |-> /\ RanClean(ScannerFor(tool), x)
                                /\ ScannerFor(tool) = tool]
    <3>1. NoReport \in Reports
      BY DEF NoReport, Reports, SHAPES
    <3>2. x \in Executions
      BY <3>1 DEF Executions
    <3>3. CheckStatus(RunScanner(ScannerFor(tool), x)) = "ERROR"
      BY DEF RunScanner, CheckStatus
    <3>4. ~(RanClean(ScannerFor(tool), x) /\ ScannerFor(tool) = tool)
      BY DEF RanClean
    <3>5. (RanClean(ScannerFor(tool), x) /\ ScannerFor(tool) = tool) = FALSE
      BY <3>4, Zenon
    <3>6. r \in ExternalScan(tool)
      BY <1>2, <2>2, <3>2
    <3> QED
      BY <3>3, <3>5, <3>6, Zenon
  <2> QED
    BY <2>1, <2>2
<1> QED
  BY <1>1, <1>2, <1>3
-----------------------------------------------------------------------------
(* _decide: PASS if there is no obstacle, else one of those there are, and
   FAIL or ERROR if one of them is there; validate accepts it. *)
LEMMA DecideFacts ==
    ASSUME NEW statuses \in SUBSET BLOCKING
    PROVE  /\ Decide(statuses) \in statuses \cup {"PASS"}
           /\ Decide(statuses) = "PASS" <=> statuses = {}
           /\ Decide(statuses) \in {"FAIL", "ERROR"} <=>
                 statuses \cap {"FAIL", "ERROR"} # {}
           /\ Valid(Decide(statuses), statuses)
<1> DEFINE blocking == {i \in DOMAIN PRECEDENCE : PRECEDENCE[i] \in statuses}
           Least(i) == i \in blocking /\ \A j \in blocking : i <= j
<1>1. /\ DOMAIN PRECEDENCE = 1 .. 4
      /\ PRECEDENCE[1] = "FAIL" /\ PRECEDENCE[2] = "ERROR"
      /\ PRECEDENCE[3] = "NOT_SCANNED" /\ PRECEDENCE[4] = "NEEDS_REVIEW"
  BY DEF PRECEDENCE
<1>2. \A i : i \in DOMAIN PRECEDENCE <=> i \in {1, 2, 3, 4}
  BY <1>1
<1>3. CASE statuses = {}
  <2>1. blocking = {}
    BY <1>3
  <2>2. Decide(statuses) = "PASS"
    BY <2>1 DEF Decide
  <2> QED
    BY <1>3, <2>2 DEF Valid, BLOCKING
<1>4. CASE statuses # {}
  <2>1. blocking # {}
    BY <1>1, <1>2, <1>4 DEF BLOCKING
  <2>2. \E i : Least(i)
    <3>1. CASE 1 \in blocking
      <4>1. Least(1)
        BY <1>2, <3>1
      <4> QED
        BY <4>1
    <3>2. CASE 1 \notin blocking /\ 2 \in blocking
      <4>1. Least(2)
        BY <1>2, <3>2
      <4> QED
        BY <4>1
    <3>3. CASE 1 \notin blocking /\ 2 \notin blocking /\ 3 \in blocking
      <4>1. Least(3)
        BY <1>2, <3>3
      <4> QED
        BY <4>1
    <3>4. CASE blocking \subseteq {4}
      <4>1. Least(4)
        BY <1>2, <2>1, <3>4
      <4> QED
        BY <4>1
    <3> QED
      BY <1>2, <3>1, <3>2, <3>3, <3>4
  <2> DEFINE first == CHOOSE i \in blocking : \A j \in blocking : i <= j
  <2>3. Least(first)
    BY <2>2
  <2>4. Decide(statuses) = PRECEDENCE[first]
    BY <2>1 DEF Decide
  <2> HIDE DEF first
  <2>5. /\ first \in {1, 2, 3, 4} /\ PRECEDENCE[first] \in statuses
        /\ \A j \in {1, 2, 3, 4} : PRECEDENCE[j] \in statuses => first <= j
    BY <1>2, <2>3
  <2>6. Decide(statuses) \in statuses
    BY <2>4, <2>5
  <2>7. statuses \cap {"FAIL", "ERROR"} # {} => first \in {1, 2}
    BY <1>1, <2>5
  <2>8. Decide(statuses) \in {"FAIL", "ERROR"} <=>
           statuses \cap {"FAIL", "ERROR"} # {}
    BY <1>1, <2>4, <2>6, <2>7
  <2> QED
    BY <1>4, <2>6, <2>8 DEF Valid, BLOCKING, VALID_STATUSES
<1> QED
  BY <1>3, <1>4
=============================================================================

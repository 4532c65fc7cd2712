------------------------------ MODULE Scanners ------------------------------
(***************************************************************************)
(* Scanners as the infrastructure runs them (scanner_infrastructure.py):   *)
(* what an extractor makes of a report, what ScannerRunner.run_scanner     *)
(* makes of one execution, and what the adapter makes of that for the      *)
(* security gate.  Pure operators; module SecurityAudit takes them apart   *)
(* into the steps between which the host may change.                       *)
(***************************************************************************)
EXTENDS Naturals, Sequences, FiniteSets

CONSTANTS
    Defined,         \* tools the ScannerRunner holds a definition of
    Custom,          \* those whose definition keeps the default findings_from
    DefaultScanner   \* make_gate_scanner_runner's default_scanner

(* The scanners the security gate consults; trivy, in the table of known
   tools, is asked by no check. *)
TOOLS == {"gitleaks", "pip-audit", "osv-scanner", "semgrep"}

ASSUME DefinedAssumption == Defined \subseteq TOOLS
ASSUME CustomAssumption == Custom \subseteq Defined
ASSUME DefaultScannerAssumption == DefaultScanner \in TOOLS
-----------------------------------------------------------------------------
(* What a scanner printed, after redaction (which may break the JSON): its
   shape, whether the list in it has members, and whether an object in it has
   one of the keys the scanner's extractor looks for. *)
SHAPES == {"no JSON", "no list", "object with list", "object with Findings",
           "list"}

Reports ==
    {r \in [shape : SHAPES, members : BOOLEAN, keyed : BOOLEAN] :
        /\ r.members => r.shape \notin {"no JSON", "no list"}
        /\ r.keyed => r.shape # "no JSON" /\ (r.shape = "list" => r.members)}

NoReport == [shape |-> "no JSON", members |-> FALSE, keyed |-> FALSE]

(* _extract: findings are the objects with one of its keys, anywhere; ValueError
   for anything but a list and an object with a list in it. *)
Extract(report) ==
    IF report.shape \in {"no JSON", "no list"} THEN "refused"
    ELSE IF report.keyed THEN "findings" ELSE "no findings"

(* _default_findings: the members of the list, or of "Findings". *)
DefaultFindings(report) ==
    IF report.shape \notin {"object with Findings", "list"} THEN "refused"
    ELSE IF report.members THEN "findings" ELSE "no findings"

(* findings_from of a scanner's definition *)
FindingsFrom(name, report) ==
    IF name \in Custom THEN DefaultFindings(report) ELSE Extract(report)

(* One run of a scanner as the host lets it go: is the target below the
   project's root, is the binary there, does it tell its version, how does the
   process end, what has it printed if it ended by itself. *)
Executions ==
    {x \in [target    : {"inside", "refused"},
            installed : BOOLEAN,
            version   : {"readable", "unreadable"},
            ended     : {"zero", "nonzero", "signal", "timeout", "not started"},
            report    : Reports] :
        x.ended \notin {"zero", "nonzero"} => x.report = NoReport}

(* Mutant: the exit code of a scan without findings is not looked at. *)
RunScannerTrusting(name, x) ==
    IF x.target = "refused" THEN "raised"
    ELSE IF ~x.installed THEN "NOT_SCANNED"
    ELSE IF \/ x.version = "unreadable"
            \/ x.ended \in {"signal", "timeout", "not started"} THEN "ERROR"
    ELSE IF FindingsFrom(name, x.report) = "findings" THEN "FAIL"
    ELSE IF FindingsFrom(name, x.report) = "no findings" THEN "PASS"
    ELSE "NEEDS_REVIEW"

(* ScannerRunner.run_scanner.  A report without findings has been parsed, so
   it is not empty, and the exit code alone settles whether it is trusted. *)
RunScanner(name, x) ==
    IF x.target = "refused" THEN "raised"
    ELSE IF ~x.installed THEN "NOT_SCANNED"
    ELSE IF \/ x.version = "unreadable"
            \/ x.ended \in {"signal", "timeout", "not started"} THEN "ERROR"
    ELSE IF FindingsFrom(name, x.report) = "findings" THEN "FAIL"
    ELSE IF /\ FindingsFrom(name, x.report) = "no findings"
            /\ x.ended = "zero" THEN "PASS"
    ELSE "NEEDS_REVIEW"

(* The scanner ran to its end on the project and reported nothing. *)
RanClean(name, x) ==
    /\ x.target = "inside" /\ x.installed
    /\ x.version = "readable"
    /\ x.ended = "zero"
    /\ FindingsFrom(name, x.report) = "no findings"
-----------------------------------------------------------------------------
(* Mutant: a run without findings passes, trusted or not. *)
NoFindingsIsClean(status) == IF status = "FAIL" THEN "FAIL" ELSE "PASS"

(* make_gate_scanner_runner's mapping of a ScannerResult to a ScannerRun,
   with what _external_scan makes of the ScannerRun, or of an exception. *)
CheckStatus(status) == IF status \in {"PASS", "FAIL"} THEN status ELSE "ERROR"

(* The scanner that answers for a tool: the default one, for a tool that has
   no definition.  (A default without a definition raises: an error.) *)
ScannerFor(tool) == IF tool \in Defined THEN tool ELSE DefaultScanner

(* _external_scan of one tool, over everything the host may do: the status of
   the check, and whether the very tool the check names ran clean.  The
   availability the gate asks about first is not the one run_scanner sees. *)
ExternalScan(tool) ==
    {[status |-> "NOT_SCANNED", clean |-> FALSE]}
    \cup IF ScannerFor(tool) \in Defined
            THEN {[status |-> CheckStatus(RunScanner(ScannerFor(tool), x)),
                   clean  |-> /\ RanClean(ScannerFor(tool), x)
                              /\ ScannerFor(tool) = tool] : x \in Executions}
            ELSE {[status |-> "ERROR", clean |-> FALSE]}
=============================================================================

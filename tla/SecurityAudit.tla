--------------------------- MODULE SecurityAudit ---------------------------
(***************************************************************************)
(* SecurityGate.run with its scanners, at the grain of what it asks of the *)
(* host: is the tool there, is its binary, its version, its scan.  Between *)
(* any two of these somebody may install or remove a tool or change the    *)
(* tree.  Between gatherers it is a run of module AbstractAudit.           *)
(*                                                                         *)
(* Variables above the line "the world" are the program's.                 *)
(***************************************************************************)
EXTENDS Gates

CONSTANTS
    InitialHosts,   \* sets of tools the host may begin with
    InitialFlaws,   \* sets of tools that may have something to find then
    MaxChanges      \* bound of the model on changes to host and tree

ASSUME InitialAssumption ==
    InitialHosts \subseteq SUBSET TOOLS /\ InitialFlaws \subseteq SUBSET TOOLS
ASSUME MaxChangesAssumption == MaxChanges \in Nat

VARIABLES
    run,        \* the run in progress between gatherers, or NoRun
    decision,   \* of the last run that returned, or "None" since it began
    todo,       \* the tools the current gatherer has still to ask
    found,      \* what its scans have come to so far
    attempt,    \* the execution of the first of todo as far as it has got
    (* the world *)
    host,       \* the tools whose binary is on the PATH
    flawed,     \* the tools that have something to find in the tree
    changes,    \* how often host or tree has changed
    proven      \* the tools of this run that were answered for by a scanner
                \* that was there and had nothing to find when it ran

program == <<run, decision, todo, found, attempt>>
world == <<host, flawed, changes>>
vars == <<program, world, proven>>

Abstract == INSTANCE AbstractAudit
NoRun == [absent |-> TRUE]
NewRun == [step |-> 0, statuses |-> {}, clean |-> TRUE]

(* How far the execution of a scanner has got: which question comes next. *)
NoAttempt == "ask"
PHASES == {NoAttempt, "resolve", "version", "scan"}

NothingFound == [statuses |-> {}, clean |-> TRUE]
ToolsOf(step) == IF step < Len(GATHERERS) THEN GATHERERS[step + 1].tools ELSE <<>>
-----------------------------------------------------------------------------
Init ==
    /\ run = NoRun
    /\ decision = "None"
    /\ todo = <<>>
    /\ found = NothingFound
    /\ attempt = NoAttempt
    /\ host \in InitialHosts
    /\ flawed \in InitialFlaws
    /\ changes = 0
    /\ proven = {}

(* Somebody installs or removes a tool. *)
HostChanges(tool) ==
    /\ changes < MaxChanges
    /\ changes' = changes + 1
    /\ host' = IF tool \in host THEN host \ {tool} ELSE host \cup {tool}
    /\ UNCHANGED <<program, flawed, proven>>

(* Somebody adds or mends what a tool would find. *)
TreeChanges(tool) ==
    /\ changes < MaxChanges
    /\ changes' = changes + 1
    /\ flawed' = IF tool \in flawed THEN flawed \ {tool} ELSE flawed \cup {tool}
    /\ UNCHANGED <<program, host, proven>>

(* SecurityGate.run is called. *)
Start ==
    /\ run = NoRun
    /\ run' = NewRun
    /\ decision' = "None"
    /\ todo' = ToolsOf(0)
    /\ found' = NothingFound
    /\ attempt' = NoAttempt
    /\ proven' = {}
    /\ UNCHANGED world
-----------------------------------------------------------------------------
Asking(phase) == run # NoRun /\ todo # <<>> /\ attempt = phase

(* Mutant: only a pass and a finding make a check of a scan. *)
AnswerOfScans(status, clean) ==
    /\ found' = [statuses |-> found.statuses \cup ({"FAIL"} \cap {status}),
                 clean    |-> found.clean /\ clean]
    /\ todo' = Tail(todo)
    /\ attempt' = NoAttempt
    /\ UNCHANGED <<run, decision, world>>

(* Mutant: a scan that came to nothing is asked for again. *)
AnswerAtLast(status, clean) ==
    /\ found' = [statuses |-> found.statuses \cup (BLOCKING \cap {status}),
                 clean    |-> found.clean /\ clean]
    /\ todo' = IF status = "ERROR" THEN todo ELSE Tail(todo)
    /\ attempt' = NoAttempt
    /\ UNCHANGED <<run, decision, world>>

(* Mutant: the next tool goes on with the path and version of this one. *)
AnswerKeepingPath(status, clean) ==
    /\ found' = [statuses |-> found.statuses \cup (BLOCKING \cap {status}),
                 clean    |-> found.clean /\ clean]
    /\ todo' = Tail(todo)
    /\ UNCHANGED <<run, decision, attempt, world>>

(* _external_scan returns a check of this status for the tool. *)
Answer(status, clean) ==
    /\ found' = [statuses |-> found.statuses \cup (BLOCKING \cap {status}),
                 clean    |-> found.clean /\ clean]
    /\ todo' = Tail(todo)
    /\ attempt' = NoAttempt
    /\ UNCHANGED <<run, decision, world>>

(* The execution goes on to its next question. *)
GoOn(phase) ==
    /\ attempt' = phase
    /\ UNCHANGED <<run, decision, todo, found, world, proven>>

(* _tool_available: shutil.which, of the name the gate asks for. *)
AskTool ==
    /\ Asking(NoAttempt)
    /\ IF Head(todo) \in host
          THEN GoOn("resolve")
          ELSE Answer("NOT_SCANNED", FALSE) /\ UNCHANGED proven

(* run_scanner of the scanner that answers for the tool: its definition, its
   target, the path of its binary. *)
Resolve(target) ==
    LET scanner == ScannerFor(Head(todo))
    IN  /\ Asking("resolve")
        /\ IF /\ scanner \in Defined
              /\ target = "inside"
              /\ scanner \in host
              THEN GoOn("version")
              ELSE Answer("ERROR", FALSE) /\ UNCHANGED proven

(* read_version, which looks the path up again. *)
Version(readable) ==
    /\ Asking("version")
    /\ IF readable /\ ScannerFor(Head(todo)) \in host
          THEN GoOn("scan")
          ELSE Answer("ERROR", FALSE) /\ UNCHANGED proven

(* The executions of a scanner that got as far as its scan. *)
Scans == {x \in Executions : /\ x.target = "inside"
                             /\ x.installed
                             /\ x.version = "readable"}

(* What the world lets a scan come to: a binary that is gone does not start,
   and a scanner that ends with zero has told what it found. *)
Honest(scanner, x) ==
    /\ scanner \notin host => x.ended = "not started"
    /\ scanner \in flawed /\ x.ended = "zero" =>
          FindingsFrom(scanner, x.report) # "no findings"

(* The scan, its reading, and the adapter. *)
Scanned(tool, scanner, x) ==
    /\ Honest(scanner, x)
    /\ Answer(CheckStatus(RunScanner(scanner, x)),
              RanClean(scanner, x) /\ scanner = tool)
    /\ proven' = IF scanner \in host \ flawed THEN proven \cup {tool}
                                             ELSE proven

Scan ==
    /\ Asking("scan")
    /\ \E x \in Scans : Scanned(Head(todo), ScannerFor(Head(todo)), x)

(* The gatherer's built-in checks, and its return. *)
Gather ==
    /\ run # NoRun
    /\ run.step < Len(GATHERERS)
    /\ todo = <<>>
    /\ \E builtin \in GATHERERS[run.step + 1].builtin :
          run' = Further(run, [statuses |-> found.statuses \cup
                                               (BLOCKING \cap builtin),
                               clean    |-> found.clean])
    /\ todo' = ToolsOf(run.step + 1)
    /\ found' = NothingFound
    /\ UNCHANGED <<decision, attempt, world, proven>>

(* _decide and validate. *)
Return ==
    /\ run # NoRun
    /\ run.step = Len(GATHERERS)
    /\ Valid(Decide(run.statuses), run.statuses)
    /\ decision' = Decide(run.statuses)
    /\ run' = NoRun
    /\ UNCHANGED <<todo, found, attempt, world, proven>>

(* The run raises: git does not answer in time, a file cannot be read, or the
   runner, asked for availability as its adapter's docstring has it wired,
   does not know the tool. *)
Raise ==
    /\ run # NoRun
    /\ run' = NoRun
    /\ todo' = <<>>
    /\ found' = NothingFound
    /\ attempt' = NoAttempt
    /\ proven' = {}
    /\ UNCHANGED <<decision, world>>

GateStep ==
    \/ AskTool
    \/ \E target \in {"inside", "refused"} : Resolve(target)
    \/ \E readable \in BOOLEAN : Version(readable)
    \/ Scan
    \/ Gather
    \/ Return

Next ==
    \/ \E tool \in TOOLS : HostChanges(tool)
    \/ \E tool \in TOOLS : TreeChanges(tool)
    \/ Start
    \/ GateStep
    \/ Raise

(* Nothing makes a caller run the gate; a run, once begun, goes on: each of
   its subprocesses has a timeout. *)
Spec == Init /\ [][Next]_vars /\ WF_vars(GateStep)
-----------------------------------------------------------------------------
Runs == {NoRun} \cup
        [step : 0 .. Len(GATHERERS), statuses : SUBSET BLOCKING, clean : BOOLEAN]

(* The types; only a run asks tools, and only those of its gatherer. *)
AuditTypeOK ==
    /\ run \in Runs
    /\ decision \in BLOCKING \cup {"PASS", "None"}
    /\ found \in [statuses : SUBSET BLOCKING, clean : BOOLEAN]
    /\ attempt \in PHASES
    /\ host \subseteq TOOLS /\ flawed \subseteq TOOLS /\ proven \subseteq TOOLS
    /\ changes \in 0 .. MaxChanges
    /\ todo # <<>> => /\ run # NoRun
                      /\ \E tools \in {ToolsOf(run.step)} :
                            todo \in {tools, Tail(tools)}
    /\ attempt # NoAttempt => todo # <<>>

(* "NOT_SCANNED is never PASS", against a host that changes under the gate:
   when a run has decided PASS, each of the four tools was answered for by a
   scanner whose binary was there and that had nothing to find in the tree at
   the moment it scanned.  What the gate asked before (is the tool there, its
   path, its version) proves nothing of that moment. *)
PassIsTrue == decision = "PASS" => proven = TOOLS

(* How many questions a run may still ask: at most two tools in a gatherer, and
   four phases of each. *)
QuestionsLeft ==
    IF run = NoRun THEN 0
    ELSE 1 + 10 * (Len(GATHERERS) - run.step)
           + (IF todo = <<>> THEN 0 ELSE 4 * (Len(todo) - 1)
                  + [ask |-> 4, resolve |-> 3, version |-> 2, scan |-> 1][attempt])

(* Every step of the gate counts: no tool is asked a second time, no answer
   sends the run back, whatever changes in the world meanwhile. *)
EveryStepCounts ==
    [][Start \/ QuestionsLeft' < QuestionsLeft \/ UNCHANGED program]_vars

(* A run is never stuck: there is always a next question, a scan always has an
   outcome that the world allows, and what a run decides it can validate, so
   validate never raises out of a finished run. *)
RunsGoOn ==
    run # NoRun =>
       \/ todo # <<>> /\ (attempt = "scan" =>
                            \E x \in Scans : Honest(ScannerFor(Head(todo)), x))
       \/ /\ todo = <<>> /\ run.step < Len(GATHERERS)
          /\ GATHERERS[run.step + 1].builtin # {}
       \/ /\ run.step = Len(GATHERERS)
          /\ Valid(Decide(run.statuses), run.statuses)

(* Whatever the scanners and the host do, a run ends. *)
AuditEnds == (run # NoRun) ~> (run = NoRun)

(* The run is the pipeline's, seen between gatherers. *)
AuditImplements == Abstract!Spec
=============================================================================

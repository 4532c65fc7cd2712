# Quality Guardian / OpenClaw: a TLA+ verification project

The repository implements "Development F": a workflow that takes a proposal to
production through councils, agents, gates and human approvals. The Python
package `openclaw` coordinates it. This directory models the package, checks the
models with TLC and proves their invariants with TLAPS.

## 1. Inventory

| Component | State it keeps | Operations | Properties that make it correct |
|---|---|---|---|
| `workflow.py` | none (tables) | `can_transition`, `validate_transition`, `owner_of` | only what the orchestrator does with them |
| `orchestrator.py` | state, repair counter, answers and open requests per human gate, last verdict | `advance`, `route`, `request_human_approval`, `record_human_approval`, `continue_after_human_gate`, `escalate` | halting verdicts stop the work; failures only go back, at the price of a repair; an answer belongs to its request; no release without a yes |
| `events.py` | the audit log | `record` | the log is the history: connected, complete, legal moves |
| `persistent_memory.py` | files `.json`, `.bak`, `.meta`, `.lock` shared by processes | `initialize`, `load`, `save_locked`, `backup`, `restore_from_backup`, `migrate_legacy_state`, the lock | acknowledged records survive crashes; writers do not lose each other's records; repositories stay apart; the lock excludes, and is released |
| `memory.py` | a live view per process: active records, history, tombstones | `write`, `update`, `delete`, `history`, retrieval | unique ids, a chain of versions, facts are never removed, wherever a save stops; trust is backed; a view shows what is or was on disk |
| `handoff_integration.py` | checkpoints (values) | `create_checkpoint`, `validate_checkpoint`, `route_checkpoint` | Git truth beats the claim |
| `quality_integration.py` | none | `invoke`, `validate_result`, `route_result` | no unfinished audit is routed as PASS |
| `security_gate.py` | none (a run gathers checks) | `run`, `_external_scan`, `_decide`, `need_review`, `route_result` | NOT_SCANNED is never PASS |
| `scanner_infrastructure.py` | none | `run_scanner`, `read_version`, extractors, `make_gate_scanner_runner` | only a complete, readable, clean run passes |
| `deployment_gate.py` | none | `preflight`, approval wrappers, `route_result` | what is released is what was audited |
| `registry.py`, `agent_registry.json` | a table read at start | lookups, validators | least privilege |
| `__init__.py`, `detection/`, `profiles/`, `agent/`, `install.sh` | none | | not modelled: section 6 |

How they interact. The orchestrator is an object in one process; agents call
its methods, and nothing forces an order on their calls. The gate clients run
something outside (an agent, the scanners, `git`), and hand a verdict to
`route()`. The repository under audit, and the host the scanners are installed
on, change meanwhile. The memory is used by several processes at once, which
meet only in the files and the lock.

What is hard: calls in an order nobody tested; `route()` raising half way; a
verdict computed from a repository that has moved on; an approval that outlives
its artifact; a tool that is there when the gate asks and gone when it is run;
crashes and I/O errors between two system calls of a save; a lock that others
break; a save that stops half way, and views that run ahead of it or outlive the
file; unlocked readers; two
repositories sharing one storage root; statuses passed through four layers,
where one missing case turns "not scanned" into "clean". `PROJECT.json` lists
these hazards with their lines.

## 2. Modules

    Workflow            states, transitions, owners, routing table
    OpenClaw            the orchestrator                  (EXTENDS Workflow)
      OpenClawProofs    its theorems
    AuditTrail          orchestrator with its log         (EXTENDS OpenClaw)
      AuditTrailProofs  its theorems, and AuditTrail => OpenClaw
    Mutex               what a lock promises (abstract)
    FileLock            _FileLock on both platforms       (INSTANCE Mutex)
      FileLockProofs    its theorems, and FileLock => Mutex
    DurableStore        what the storage promises (abstract)
    MemoryStorage       files, lock, processes, faults
                                      (INSTANCE DurableStore)
      MemoryStorageProofs  its theorems, and MemoryStorage => DurableStore
    ProjectMemory       records, versions, live views, file and backup
      ProjectMemoryProofs  its theorems
    Registry            the agents and their permissions: pure operators
    Scanners            scanners and the adapter: pure operators
    Gates               checks and decisions: pure operators
                                      (EXTENDS Workflow, Registry, Scanners)
      GatesProofs       lemmas on them
    AbstractAudit       what a security run promises its caller (abstract)
    Pipeline            orchestrator, gate clients, git
                          (EXTENDS OpenClaw, Gates, INSTANCE AbstractAudit)
      PipelineProofs    its theorems, and Pipeline => OpenClaw, AbstractAudit
    SecurityAudit       a security run, question by question
                                      (EXTENDS Gates, INSTANCE AbstractAudit)
      SecurityAuditProofs  its theorems, and SecurityAudit => AbstractAudit
    MC...               instances for TLC

**OpenClaw.** Variables are the object's fields (`state` is `_state`, `pending`
is `_pending`, ...). An action is a public method; `actor` ranges over `Actors`,
which may contain strangers. A call that raises before it assigns is a
stuttering step; `RouteRefused` is `route()` raising after `_last_verdict` was
assigned. A request id `"<gate>-<n>"` is its `n`, and 0 stands for an absent key.

**AuditTrail.** Each action is the OpenClaw action and the entries that method
records, in order. `LoggedRouteAtBound` records two, `LoggedRouteRefused` one or
none. The clients write to the same log: `EVIDENCE` at any time,
`HANDOFF_REJECTED` before a rejection is routed, also when the routing raises.
Detail texts and timestamps are left out.

**FileLock.** A step is one system call of `__enter__` or `__exit__`. With
`fcntl` the lock is a flock on a file that stays; without it the file is the
lock, and any waiter may unlink it once it is older than the stale limit, which
on Windows fails while someone has it open. Time passes in ticks that age the
file and the waiting; `slow` says whether a holder may outstay the limit. A
process may crash anywhere, and the owner line may fail to be written after the
lock was taken: `__enter__` raises, `__exit__` is never called, and the open
descriptor keeps the lock (`failed`).

**MemoryStorage.** A step is one system call that another process or the next
start could see: taking the lock, `os.replace`, `unlink`. Reading under the lock
is one step with the computation after it; the temporary file is private to its
writer. `Crash`, `WriteFails` and `Damage` may come at every step, `MaxFaults`
times in all. The lock is atomic here; FileLock shows that it may be. Both
repositories of an instance use one root and one project id. `sound` is a
history variable: see the refinement in section 5.

**ProjectMemory.** Several processes with a live view each, one state file and
its backup. A mutation is one transaction: refresh the view, change it, save it.
`save_locked` drops the old `.bak`, moves the state file there and puts the new
file into place; it may stop after each of these (`NotSaved`, and `Saved` when only
`.meta` is missing), and the view is not rolled back. What is not there is read as
an empty store: a save, or the `Initialize` of a process that starts, then begins
anew although `.bak` has records (`Forgotten`). `ahead` is a history variable: the
processes that may show what the store has not. A
record keeps what the properties tell apart: version, creation and update time,
author, classification, whether any evidence was stored, the id it supersedes.
`Acceptable` is the write authority and the rules on trust; a call it refuses is
a stuttering step. `Refresh` is a restart, or a call refused under the lock.

**Registry, Scanners, Gates.** Everything the gates compute, without state: the
least-privilege check (`LeastPrivilege`); what an extractor makes of a report
(`Extract`, `DefaultFindings`), how an execution becomes a status (`RunScanner`),
a check (`CheckStatus`, `ExternalScan`) and a decision (`Decide`, `Valid`); which
scanner answers for a tool (`ScannerFor`); which statuses each of the six
gatherers may come to (`GatheredBy`); what preflight looks at; what a quality
report is routed as. What the built-in checks look for in the files is abstracted
to the statuses they can return.

**Pipeline.** The orchestrator driven by the package's own clients.
`CreateCheckpoint` and `RouteCheckpoint` are the handoff client; `StartRun`
begins a gate's run; `SecurityGather` is one gatherer; `PreflightClean` is the
first look of `preflight`, after the artifact's identity was read; `QualityRun`,
`SecurityRun` and `DeploymentRun` end a run and route its result; `RunRaises` and
`QualityRunRefused` end it without one; `SecurityException` routes `need_review`.
Whether `git` answers is a parameter of each action that asks it. `Work` is the
world outside, at any moment: an edit, a commit, or a checkout or reset, which
may bring back a commit HEAD was at before. The variables `artifact`, `seen`,
`left`, `scanned`, `asked` are history for the properties; no action reads them.

**SecurityAudit.** The step `SecurityGather` taken apart: is the tool there, the
path of its binary, its version, its scan, each a step, and `HostChanges` and
`TreeChanges` may come between any two. Both models implement AbstractAudit:
SecurityAudit its `Spec`, with the steps of a gatherer hidden; Pipeline, whose
workflow, repository and other gates go on around a run, its `SharedSpec`, which
lets the caller hear from others between two runs. `Abstract!Gather` is the
pipeline's `SecurityGather`.

## 3. Runs

| Run | Question | Bounds |
|---|---|---|
| `audit_trail` | All sequences of calls by three roles. Is the log a true account (`LoggedTypeOK`, `LogIsTheWalk`, `RepairsAreLogged`, `ApprovalsAreLogged`), and is the walk a good one (`NoStationIsSkipped`, `HaltingVerdictsEscalate`, `OneAnswerPerRequest`, `FailuresNeverForward`)? | 6 entries, repair bound 1, 3 requests, 5 initial states: enough for a repair, the bound, a request and an answer in one history |
| `openclaw_release` | Can DEPLOY be reached without an approval? Yes, by `advance()` | starts at PROPOSAL |
| `audit_escalation` | Does every logged escalation happen? No, at HANDOFF_CHECKPOINT | 5 entries |
| `storage` | `TypeOK`, `Isolation`, `NoLostUpdate`, `LockInv`, `Durable` (refinement of DurableStore) | two processes of one repository, one of another, two keys (interchangeable, so under symmetry), one fault of any kind, fresh or legacy files |
| `storage_lock` | `LockInv`, `Serializes` (refinement of Mutex), and under fairness `LockIsReleased`, `CallersAreAnswered` | both platforms, slow holders or not, three processes, a tick of ten seconds (timeout 1, stale after 3), two faults |
| `storage_copy` | "a known-good copy always exists"? Not after a crash in the save window | one crash |
| `storage_readers` | "readers always see a complete state"? Not in the save window | no fault |
| `project_memory` | `TypeOK`, `IdsAreUnique`, `VersionChain`, `FactsAreKept`, `ViewsAreOfThePast`, `PromptIsBacked` | two processes (interchangeable), a human decision and an agent's checkpoint, clock up to 5, one save that stops: a key can be written, updated, deleted, written and deleted again |
| `memory_history` | "newest first"? Not after a new life of the key | clock up to 6 |
| `pipeline` | `PipelineTypeOK`, `ReleasePathIsScanned`, `AuditedIsReleased`, `ResultsAreRoutable`, `GatesAreAnswered`, `NoFreeWayBack`, `RunsAreAudits` (refinement of AbstractAudit) | from PROPOSAL; two commits HEAD may be at (interchangeable) and any edits; repair bound 1; 2 requests, since an old answer and a newer request are what the gates tell apart; one custom scanner |
| `pipeline_release` | Does each release have its own answer? No | as above |
| `security_audit` | `AuditTypeOK`, `PassIsTrue`, `RunsGoOn`, `EveryStepCounts`, `AuditImplements` (refinement of AbstractAudit), and under fairness `AuditEnds` | four tools of which one is undefined and answered for by the default scanner, one custom; all installed, at most one with something to find; two changes of host or tree |

Why the bounds are enough. The orchestrator's data are a few counters compared
with one bound; each bound lets every comparison go both ways and the repair loop
be taken, and refused. Two commits, between which HEAD moves as often as anybody
likes, tell "the same commit" from "another one", and "back again" from both; no
definition compares more than two. In the storage, three processes give
two writers of one repository and a stranger; around the lock, a holder, one that
breaks it and one that creates it anew. Two changes of the host take a tool away
and bring it back within a run. The theorems hold for all bounds.

The stops. The workflow really ends in PRODUCTION, ABORTED and ESCALATED, and
the log and clock models end at their bound, so those runs say
`CHECK_DEADLOCK FALSE`. The runs of the storage, of the lock and of the security
audit check for deadlock.

Fairness. `FileLock`: `WF_vars(Tick)` and `WF_vars(Step(p))`. Time passes; a call
of `__enter__` either returns, sleeps and tries again, or raises at its deadline;
the body of a `with` ends, since all it waits for has a deadline. Nothing obliges
a process to call, or the process that failed to write its owner line to die,
which is why `LockIsReleased` excepts it. If holders may outstay the stale limit,
a waiter that has broken a lock tries again without a look at its deadline, so
`CallersAreAnswered` speaks of the others. `SecurityAudit`: `WF_vars(GateStep)`,
since each subprocess of a run has a timeout; nothing makes a caller start one.
The orchestrator is passive, and no liveness is claimed for it.

## 4. Findings

Six runs expect a violation. Each quotes a line of the repository and shows what
the code does instead; `PROJECT.json` has the text. In short: `advance()` passes
human gates; the escalation at the repair bound cannot happen at
HANDOFF_CHECKPOINT; a crash in the save window loses acknowledged records
silently; an unlocked reader may see an empty memory; `history()` is not newest
first after a deletion; an approval is never used up.

Nine more were met while translating and have no run: the way back from
ROLLED_BACK spends no repair; the default scanner answers for a tool without a
definition, under that tool's name; an owner line that cannot be written leaves
the lock with a process that does not know it has it; evidence given as an
iterator is empty when it is stored; the second deletion of a key loses the
tombstone of the first; the clean-tree check passes when `git status` fails;
`plan_rollback` names the commit that is about to be released; the documented
wiring of `tool_available` raises for a tool without a definition; the pip-audit
extractor takes every dependency for a finding.

`ReleaseIsApproved` fails of the class and holds of callers who use `advance()`
only where its docstring says (the theorem `ReleasesAreApproved`). It speaks of
the moment DEPLOY is entered. While a deployment is under way the record may turn
into a refusal: `record_human_approval` takes the answer to a second request
whatever the state is by then. `NoStationIsSkipped` is what even `advance()` cannot
break: it may pass a gate without its verdict, never without standing at it.

`NoFreeWayBack` names the two ways back that have no bound: from the councils to
research, and from ROLLED_BACK to IMPLEMENTATION. Of every other move it says that
less work is left than before, so between two of these the workflow moves at most
`15 * (MaxRepair + 1)` times. (A gate may run again without a move: a run that
raises or is refused costs nothing.)

## 5. Theorems

All proofs are checked by `tlapm`, with no assumption beyond those the modules
and the statements name: bounds are naturals, initial states are states, initial
files are well formed, sentinels are no members, the clients' roles and the human
are among the actors.

* **OpenClawProofs.** `TypeCorrect`, then `HaltingVerdictsStop`: inductive as it
  stands, because the only source of a halting verdict is `route()`, whose entry
  leads to ESCALATED (`HaltingIsLegal`), and nothing is routed or leaves from
  there. `AnswersMatchRequests`: `OneAnswerPerRequest` is inductive with the
  types, its comparisons with `requestSeq` being what makes a new id fresh.
  `FailuresStayBehind`: an action property, by cases on the routing table.
* **AuditTrailProofs.** `LoggedStep` shows that each logged step is a step of
  OpenClaw, hence `LoggedImplements`, and OpenClaw's theorems carry over. A log
  only grows by one or two entries (`OneIsLonger`, `TwoIsLonger`), so
  `LogTellsTheWalk` needs only the new entries and the last old one; it needs
  `TruthLasts`, since an "announced" escalation is judged by a counter that later
  steps only raise. `NoStationSkipped` numbers the stations: no transition goes up
  by more than one (`NoTransitionJumps`). Inductive is the stronger `WalkedUp`, in
  which ROLLED_BACK has the height of the station it is entered from; an entry
  more keeps it (`OneStepMore`), and the log's entries are such steps
  (`WalkGrows`). `RepairCounterIsLogged` and `ApprovalCallsAreLogged` count
  positions: `CountOneMore` and the lemmas on positions after one or two entries.
* **FileLockProofs.** `LockInv` is inductive: the one descriptor there is belongs
  to whoever holds the lock or failed to write its owner line, and while there is
  one the file cannot be removed. So a waiter that has found a file stale, however
  late it acts, removes only a file nobody has (`LockHeld`), and the processes
  inside are the holders of a Mutex (`LockSerializes`).
* **MemoryStorageProofs.** The inductive invariant `Inv` joins the types with
  `LockInv` (a process past "waiting" and before "opening" holds the lock: the
  reason why no two processes are in a critical section; `LockIsHeldAtWork`),
  `CallInv` (what a call carries at which step: nothing before it has read, one
  record at most), `IsolationInv` (files and the records a call carries belong to
  one identity), `NoLostUpdate` (needs `LockInv`: nobody else moves the files
  between a process's read and its write) and `SoundInv` (while the promise
  holds, acknowledged records are in the state file, or in `.bak` or in the
  records being written while there is none). `StorageImplements` maps `stored`
  to `Best`, the records a recovery could still bring back, and shows that each
  step puts one record, acknowledges one, voids the promise, or stutters;
  `AcknowledgedAreKept` is what a caller gets from it. `sound` turns FALSE on
  exactly three events: damage from outside, a restore over a state file that is
  there, and a call that takes the leftovers of an interrupted save for fresh
  storage (`StartsOver`). The refinement thus says that these are the *only* ways
  to lose an acknowledged record; the run `storage_copy` shows that the third is a
  real one.
* **ProjectMemoryProofs.** All six properties of the run. A mutation changes one
  key, and each invariant is a statement about one key (`KeyLater`,
  `HistoryAfter`), so a step needs one lemma on the key it changes. `Steps` lists
  what a step may leave on disk: what was there, an empty file where there was
  none, the backup alone, or a mutation of the file. `Known` is the file's content
  or, when there is no file, the backup's: it only grows by appended records, but
  for a step that starts over (`KnownKept`, `FactsKept`). Hence a view that showed
  it once shows its past until somebody starts over (`ViewsShowThePast`,
  `PrefixTransitive`); that is why starting over, which drops records, and not
  only a failed save of one's own, has to be excepted. `TrustedIsBacked` assumes
  that no caller hands in an iterator, `IdsUnique` that the clock moves between
  two mutations: without either they are false.
* **GatesProofs.** Lemmas for the two below. `OnlyCleanRunsPass`: a scanner's
  PASS is a run to the end with nothing found. `ScanFacts`, `FoundFacts`: through
  the adapter, the check and the gatherer, a status that is no obstacle comes from
  a clean run of every tool asked. `ScanOutcomes` lists what a scan can come to.
* **PipelineProofs.** `PipelineStep`: every step of the pipeline is one of the
  orchestrator's or leaves it alone, hence `PipelineImplements`, and OpenClaw's
  theorems carry over. `PipelineTypeCorrect` includes that no run outlives its
  gate. `HumanGatesAreAnswered` is an action property, by the ways out of a human
  gate (`HumanGateLeft`); `ReleasesAreApproved` follows, as DEPLOY is entered from
  one only. `WaysBackAreSpent`: `WaysBack` lists the transitions that do not bring
  the workflow nearer to its end, `StepsSpend` and `RouteSpends` say what each step
  does to the counter. `ResultsAreRouted` compares three vocabularies with the
  table, report by report and status by status (`DecideFacts`). `RunsRefineAudits`
  splits on whether a security run is under way: then only its own steps and such
  as tell the caller nothing are possible (`AuditUnderWay`), else only its start is
  of interest (`NoAuditUnderWay`). `ReleaseIsScanned` needs `RunIsTrue` (a run that has met no obstacle has
  met clean scans) and `WaysOn` (which step enters which state), of a runner that
  defines every tool. `ReleaseIsAudited` needs `AuditInv`: from the handoff
  on, every commit HEAD was moved away from while the audits had their turn is in
  `left`; so what a gate saw is in there or is HEAD still, the identity preflight
  read was compared with the checkpoint's commit, and if that one is not in `left`
  HEAD has never been anywhere else. The case that it is in `left` is the
  property's exception and cannot be proved away: HEAD was moved and brought back,
  and no result names the commit it speaks of. Both theorems are of a workflow
  that starts before its audits.
* **SecurityAuditProofs.** `AuditTypeCorrect`; `PassIsProven`, by an invariant
  that keeps a clean run's tools either proven or still to be asked; and
  `AuditRefines`: between its gatherers a run that asks one question at a time is
  AbstractAudit's, since what it has found is at each moment what some choice of
  scans of the tools asked so far comes to (`AskedInv`). `StepsCount` and
  `RunsAreNeverStuck` are the safety half of `AuditEnds`: a run always has a next
  step, and each step leaves fewer of finitely many questions. What is missing to
  the whole is the fairness of `GateStep`, thus ENABLED.

Only model-checked: the liveness properties `LockIsReleased`,
`CallersAreAnswered` and `AuditEnds`, which are out of the prover's reach. Every
other property of a passing run is a theorem.

## 6. Assumptions and what is not modelled

* **Pipeline** assumes disciplined callers: one run at a time, started at the
  gate it is for, its fresh result routed by that gate's client; `expected_commit`
  is the accepted checkpoint's commit (`preflight` accepts any commit when the
  caller names none), and the decisions handed to `preflight` are those of the
  gates that let the workflow get there. `SecurityException` is one of these
  callers: `need_review` itself does not ask whether a run is under way. HEAD may be
  moved anywhere at any time. The edits that an audit may see in a dirty tree are
  not compared. `plan_rollback` and
  `verify_rollback_readiness` change no state.
* **SecurityAudit** takes scanners to be honest: one that ends with zero has
  reported what it has to find.
* **Scanners** has redaction only as what may break a report; evidence ids, the
  check's wording and the version's text are left out.
* **FileLock** has no filesystem on which an open file can be unlinked and `fcntl`
  is missing. **MemoryStorage** has no loss of power (what `fsync` is for) and no
  `.meta` content, by which nothing in the code decides. Its files are those the
  program writes: `_verify_schema` would also pass one in which the schema version,
  the project id or the identity is absent, which no operation leaves out. A state
  file's content is its kind, owner and set of records: that a view is saved whole,
  version by version, is ProjectMemory.
* **ProjectMemory** leaves out secret screening and text limits, which only refuse
  calls, and search, which changes nothing. `backup`, `restore_from_backup` and
  `migrate_legacy_state` are MemoryStorage's, as are readers between two system
  calls of a save and damage from outside: a restore over a state file, which drops
  what is newer than the backup, is excepted in `Durable`.
* **Registry** has the lookups and the check the security gate makes of it. The
  other validators compare a field with an argument, and nothing in the package
  calls them.

Not modelled at all: the package interface (`__init__.py`, re-exports), project
detection and profiles (a pure function from marker files to a name, and data),
the quality guardian's own instructions (prose for an agent outside; `Gates` takes
every report that agent may hand in), the installer (a sequential copy of files).

## 7. Plan

Everything planned is done: the core with its log, the storage with its lock and
its records, the gates with scanners and registry, the pipeline, the security run,
the abstract specifications Mutex, DurableStore and AbstractAudit, and theorems
about all of them. What would be next:

1. `ProjectMemory` as a refinement over `MemoryStorage`: one model with versions
   and system calls, in place of two that meet in the transaction.
2. A property for the tree, not the commit, that the audits looked at, once the
   code records it.

## 8. Running

    tlc -workers 4 -config MCPipeline.cfg MCPipeline
    tlapm PipelineProofs.tla

Each run's module and configuration are in `PROJECT.json`. `audit_trail`,
`storage`, `project_memory`, `pipeline`, `pipeline_release` and `security_audit`
take one to four minutes, the others seconds.

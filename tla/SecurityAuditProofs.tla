------------------------ MODULE SecurityAuditProofs ------------------------
(***************************************************************************)
(* What holds of a run of the security gate for any hosts, trees, scanner  *)
(* definitions and number of changes: its types, and that PASS is true of  *)
(* every tool at the moment it scanned.                                    *)
(***************************************************************************)
EXTENDS SecurityAudit, GatesProofs

(* What a gatherer has to ask is a short list of known tools. *)
LEMMA ToolsOfFacts ==
    /\ \A step \in 0 .. 6 :
          ToolsOf(step) \in Seq(TOOLS) /\ Len(ToolsOf(step)) <= 2
    /\ \A step \in 0 .. 5 : ToolsOf(step) = GATHERERS[step + 1].tools
    /\ ToolsOf(6) = <<>>
<1>1. \A step \in 0 .. 5 : step + 1 \in 1 .. 6 /\ step < 6
  OBVIOUS
<1>2. \A step \in 0 .. 5 : ToolsOf(step) = GATHERERS[step + 1].tools
  BY <1>1, SixGatherers DEF ToolsOf
<1>3. ToolsOf(6) = <<>>
  BY SixGatherers DEF ToolsOf
<1>4. <<>> \in Seq(TOOLS) /\ Len(<<>>) <= 2
  OBVIOUS
<1>5. \A step \in 0 .. 6 : step \in 0 .. 5 \/ step = 6
  OBVIOUS
<1> QED
  BY <1>1, <1>2, <1>3, <1>4, <1>5, GatherersAskTools

(* What is still to ask is a suffix of the present gatherer's list. *)
LEMMA TodoFacts ==
    ASSUME AuditTypeOK
    PROVE  /\ todo \in Seq(TOOLS)
           /\ run # NoRun => /\ run.step \in 0 .. 6
                             /\ run.statuses \in SUBSET BLOCKING
                             /\ run.clean \in BOOLEAN
           /\ todo # <<>> => \/ todo = ToolsOf(run.step)
                             \/ todo = Tail(ToolsOf(run.step))
<1>1. run # NoRun => /\ run.step \in 0 .. 6
                     /\ run.statuses \in SUBSET BLOCKING
                     /\ run.clean \in BOOLEAN
  BY SixGatherers DEF AuditTypeOK, Runs
<1>2. todo # <<>> => /\ run # NoRun
                     /\ \/ todo = ToolsOf(run.step)
                        \/ todo = Tail(ToolsOf(run.step))
  BY DEF AuditTypeOK
<1>3. <<>> \in Seq(TOOLS)
  OBVIOUS
<1>4. ASSUME todo # <<>> PROVE todo \in Seq(TOOLS)
  <2>1. ToolsOf(run.step) \in Seq(TOOLS)
    BY <1>1, <1>2, <1>4, ToolsOfFacts
  <2>2. CASE todo = ToolsOf(run.step)
    BY <2>1, <2>2
  <2>3. CASE todo # ToolsOf(run.step)
    <3>1. todo = Tail(ToolsOf(run.step))
      BY <1>2, <1>4, <2>3
    <3>2. CASE ToolsOf(run.step) = <<>>
      <4>1. run.step \in 0 .. 6
        BY <1>1, <1>2, <1>4
      <4> QED
        BY <1>4, <3>1, <3>2 DEF ToolsOf
    <3>3. CASE ToolsOf(run.step) # <<>>
      BY <2>1, <3>1, <3>3
    <3> QED
      BY <3>2, <3>3
  <2> QED
    BY <2>2, <2>3
<1> QED
  BY <1>1, <1>2, <1>3, <1>4

(* What an answer does to the types. *)
LEMMA AnswerKeepsTypes ==
    ASSUME AuditTypeOK, todo # <<>>, run # NoRun,
           NEW status, NEW clean \in BOOLEAN, Answer(status, clean),
           proven' \subseteq TOOLS
    PROVE  AuditTypeOK'
<1>1. found' \in [statuses : SUBSET BLOCKING, clean : BOOLEAN]
  <2> DEFINE c == found.clean /\ clean
  <2>1. c \in BOOLEAN
    BY Zenon
  <2>2. found' = [statuses |-> found.statuses \cup (BLOCKING \cap {status}),
                  clean    |-> c]
    BY Zenon DEF Answer
  <2> HIDE DEF c
  <2> QED
    BY <2>1, <2>2 DEF AuditTypeOK
<1>2. todo' # <<>> => todo' = Tail(ToolsOf(run.step))
  <2>1. /\ run.step \in 0 .. 6
        /\ todo = ToolsOf(run.step) \/ todo = Tail(ToolsOf(run.step))
    BY TodoFacts
  <2>2. ToolsOf(run.step) \in Seq(TOOLS) /\ Len(ToolsOf(run.step)) <= 2
    BY <2>1, ToolsOfFacts
  <2>3. todo' = Tail(todo)
    BY DEF Answer
  <2>4. ASSUME todo = Tail(ToolsOf(run.step)) PROVE todo' = <<>>
    BY <2>2, <2>3, <2>4
  <2> QED
    BY <2>1, <2>3, <2>4
<1>3. /\ UNCHANGED <<run, decision, host, flawed, changes>>
      /\ attempt' = NoAttempt
  BY DEF Answer, world
<1> QED
  BY <1>1, <1>2, <1>3 DEF AuditTypeOK, PHASES

(* One gatherer further, a run is a run. *)
LEMMA FurtherIsRun ==
    ASSUME AuditTypeOK, run # NoRun, run.step < 6, NEW statuses,
           NEW next, next = Further(run, [statuses |-> found.statuses \cup
                                                         (BLOCKING \cap statuses),
                                          clean    |-> found.clean])
    PROVE  /\ next \in Runs /\ next # NoRun
           /\ next.step = run.step + 1
           /\ next.statuses = run.statuses \cup found.statuses
                                \cup (BLOCKING \cap statuses)
<1> DEFINE c == run.clean /\ found.clean
           s == run.statuses \cup found.statuses \cup (BLOCKING \cap statuses)
<1>1. c \in BOOLEAN
  BY Zenon
<1>2. run \in [step : 0 .. 6, statuses : SUBSET BLOCKING, clean : BOOLEAN]
  BY SixGatherers DEF AuditTypeOK, Runs
<1>3. s \in SUBSET BLOCKING
  BY <1>2 DEF AuditTypeOK
<1>4. next = [run EXCEPT !.step = @ + 1,
                         !.statuses = @ \cup (found.statuses \cup
                                                (BLOCKING \cap statuses)),
                         !.clean = c]
  BY Zenon DEF Further
<1> HIDE DEF c
<1>5. next = [step |-> run.step + 1, statuses |-> s, clean |-> c]
  BY <1>2, <1>4
<1> HIDE DEF s
<1>6. next \in [step : 0 .. 6, statuses : SUBSET BLOCKING, clean : BOOLEAN]
  BY <1>1, <1>2, <1>3, <1>5
<1>7. next # NoRun
  BY <1>5 DEF NoRun
<1> QED
  BY <1>5, <1>6, <1>7, SixGatherers DEF Runs, s

(* The types; only a run asks tools, and only those of its gatherer. *)
THEOREM AuditTypeCorrect == Spec => []AuditTypeOK
<1>1. Init => AuditTypeOK
  BY InitialAssumption, MaxChangesAssumption
     DEF Init, AuditTypeOK, Runs, NothingFound, PHASES
<1>2. AuditTypeOK /\ [Next]_vars => AuditTypeOK'
  <2> SUFFICES ASSUME AuditTypeOK, [Next]_vars PROVE AuditTypeOK'
    OBVIOUS
  <2>1. ASSUME NEW tool \in TOOLS, HostChanges(tool) \/ TreeChanges(tool)
        PROVE  AuditTypeOK'
    <3>1. /\ host' \subseteq TOOLS /\ flawed' \subseteq TOOLS
          /\ changes' \in 0 .. MaxChanges
          /\ UNCHANGED <<run, decision, todo, found, attempt, proven>>
      BY <2>1, MaxChangesAssumption
         DEF HostChanges, TreeChanges, AuditTypeOK, program
    <3> QED
      BY <3>1 DEF AuditTypeOK
  <2>2. ASSUME Start PROVE AuditTypeOK'
    <3>1. run' = NewRun /\ todo' = ToolsOf(0) /\ attempt' = NoAttempt
      BY <2>2 DEF Start
    <3>2. /\ found' = NothingFound /\ decision' = "None" /\ proven' = {}
          /\ UNCHANGED <<host, flawed, changes>>
      BY <2>2 DEF Start, world
    <3>3. NewRun \in Runs /\ NewRun # NoRun /\ NewRun.step = 0
      BY SixGatherers DEF NewRun, NoRun, Runs
    <3>4. NothingFound \in [statuses : SUBSET BLOCKING, clean : BOOLEAN]
      BY DEF NothingFound
    <3> QED
      BY <3>1, <3>2, <3>3, <3>4 DEF AuditTypeOK, PHASES
  <2>3. ASSUME NEW phase \in PHASES, GoOn(phase), todo # <<>>
        PROVE  AuditTypeOK'
    BY <2>3 DEF GoOn, AuditTypeOK, world
  <2>4. ASSUME NEW status, Answer(status, FALSE), UNCHANGED proven,
               run # NoRun, todo # <<>>
        PROVE  AuditTypeOK'
    <3>1. proven' \subseteq TOOLS
      BY <2>4 DEF AuditTypeOK
    <3> QED
      BY <2>4, <3>1, AnswerKeepsTypes
  <2>5. ASSUME AskTool PROVE AuditTypeOK'
    BY <2>3, <2>4, <2>5 DEF AskTool, Asking, PHASES
  <2>6. ASSUME NEW target, Resolve(target) PROVE AuditTypeOK'
    BY <2>3, <2>4, <2>6 DEF Resolve, Asking, PHASES
  <2>7. ASSUME NEW readable, Version(readable) PROVE AuditTypeOK'
    BY <2>3, <2>4, <2>7 DEF Version, Asking, PHASES
  <2>8. ASSUME Scan PROVE AuditTypeOK'
    <3>1. PICK x \in Scans : Scanned(Head(todo), ScannerFor(Head(todo)), x)
      BY <2>8 DEF Scan
    <3>2. todo # <<>> /\ run # NoRun
      BY <2>8 DEF Scan, Asking
    <3>3. Head(todo) \in TOOLS
      BY <3>2, TodoFacts
    <3>4. proven' \subseteq TOOLS
      BY <3>1, <3>3 DEF Scanned, AuditTypeOK
    <3> DEFINE c == RanClean(ScannerFor(Head(todo)), x)
                      /\ ScannerFor(Head(todo)) = Head(todo)
    <3>5. c \in BOOLEAN
      BY Zenon
    <3>6. Answer(CheckStatus(RunScanner(ScannerFor(Head(todo)), x)), c)
      BY <3>1 DEF Scanned
    <3> HIDE DEF c
    <3> QED
      BY <3>2, <3>4, <3>5, <3>6, AnswerKeepsTypes
  <2>9. ASSUME Gather PROVE AuditTypeOK'
    <3>1. PICK builtin :
             run' = Further(run, [statuses |-> found.statuses \cup
                                                  (BLOCKING \cap builtin),
                                  clean    |-> found.clean])
      BY <2>9 DEF Gather
    <3>2. /\ run # NoRun /\ run \in Runs \ {NoRun} /\ run.step < 6
          /\ todo = <<>> /\ todo' = ToolsOf(run.step + 1)
          /\ found' = NothingFound
          /\ UNCHANGED <<decision, attempt, host, flawed, changes, proven>>
      BY <2>9, SixGatherers DEF Gather, AuditTypeOK, world
    <3>3. /\ run' \in Runs /\ run' # NoRun /\ run'.step = run.step + 1
      BY <3>1, <3>2, FurtherIsRun
    <3>4. attempt = NoAttempt
      BY <3>2 DEF AuditTypeOK
    <3>5. NothingFound \in [statuses : SUBSET BLOCKING, clean : BOOLEAN]
      BY DEF NothingFound
    <3> QED
      BY <3>2, <3>3, <3>4, <3>5 DEF AuditTypeOK
  <2>10. ASSUME Return PROVE AuditTypeOK'
    <3>1. /\ run' = NoRun /\ run # NoRun /\ run.step = 6
          /\ decision' \in BLOCKING \cup {"PASS"}
          /\ UNCHANGED <<todo, found, attempt, host, flawed, changes, proven>>
      BY <2>10, SixGatherers DEF Return, Valid, world
    <3>2. todo = <<>>
      <4>1. ToolsOf(6) = <<>> /\ Tail(<<>>) = <<>>
        BY ToolsOfFacts
      <4> QED
        BY <3>1, <4>1, TodoFacts
    <3> QED
      BY <3>1, <3>2 DEF AuditTypeOK, Runs
  <2>11. ASSUME Raise PROVE AuditTypeOK'
    BY <2>11 DEF Raise, AuditTypeOK, Runs, NothingFound, PHASES, world
  <2>12. ASSUME UNCHANGED vars PROVE AuditTypeOK'
    BY <2>12 DEF vars, program, world, AuditTypeOK
  <2> QED
    BY <2>1, <2>2, <2>5, <2>6, <2>7, <2>8, <2>9, <2>10, <2>11, <2>12
       DEF Next, GateStep
<1> QED
  BY <1>1, <1>2, PTL DEF Spec
-----------------------------------------------------------------------------
(* The tools of the first gatherers, and those the present gatherer has still
   to ask, and has to ask in all. *)
ToolsUpTo(step) == UNION {ToolsNamed(GATHERERS[i]) : i \in 1 .. step}
Pending == {todo[i] : i \in DOMAIN todo}
Present == IF run.step < 6 THEN ToolsNamed(GATHERERS[run.step + 1]) ELSE {}

(* What makes PassIsTrue inductive: as long as a run has met no obstacle, it
   has a proof for each tool it has asked. *)
ProvenInv ==
    /\ run # NoRun => decision = "None"
    /\ run # NoRun /\ run.statuses = {} /\ found.statuses = {} =>
          ToolsUpTo(run.step) \cup (Present \ Pending) \subseteq proven
    /\ run # NoRun /\ run.step = 6 => found.statuses = {}

(* One answer: an obstacle, or one tool less to ask. *)
LEMMA OneToolLess ==
    ASSUME AuditTypeOK, todo # <<>>
    PROVE  /\ Pending \subseteq {Head(todo)} \cup
                               {Tail(todo)[i] : i \in DOMAIN Tail(todo)}
           /\ Head(todo) \in TOOLS
<1>1. todo \in Seq(TOOLS)
  BY TodoFacts
<1>2. \A i \in DOMAIN todo : i = 1 \/ (i - 1 \in DOMAIN Tail(todo)
                                       /\ Tail(todo)[i - 1] = todo[i])
  BY <1>1
<1>3. Head(todo) = todo[1] /\ Head(todo) \in TOOLS
  BY <1>1
<1> QED
  BY <1>2, <1>3 DEF Pending

LEMMA AnswerKeepsProofs ==
    ASSUME AuditTypeOK, ProvenInv, todo # <<>>, run # NoRun,
           NEW status, NEW clean, Answer(status, clean),
           proven \subseteq proven',
           status \in BLOCKING \/ Head(todo) \in proven'
    PROVE  ProvenInv'
<1>1. /\ found'.statuses = found.statuses \cup (BLOCKING \cap {status})
      /\ todo' = Tail(todo) /\ UNCHANGED <<run, decision>>
  BY DEF Answer
<1>2. Present' = Present
  BY <1>1 DEF Present
<1>3. Pending \subseteq {Head(todo)} \cup Pending'
  BY <1>1, OneToolLess DEF Pending
<1>4. run.step # 6
  <2>1. ToolsOf(6) = <<>> /\ Tail(<<>>) = <<>>
    BY ToolsOfFacts
  <2> QED
    BY <2>1, TodoFacts
<1> QED
  BY <1>1, <1>2, <1>3, <1>4 DEF ProvenInv

(* PassIsTrue: a PASS has met no obstacle (validate), so each answer on its way
   was a pass of an execution (OnlyCleanRunsPass); such an execution ended with
   zero and reported nothing, which is possible only where the binary was there
   and had nothing to find, and the gatherers ask every tool.  For any host
   and tree, changing as often as they like. *)
THEOREM PassIsProven == Spec => []PassIsTrue
<1>1. Init => ProvenInv /\ PassIsTrue
  BY DEF Init, ProvenInv, PassIsTrue
<1>2. AuditTypeOK /\ ProvenInv /\ [Next]_vars => ProvenInv'
  <2> SUFFICES ASSUME AuditTypeOK, ProvenInv, [Next]_vars PROVE ProvenInv'
    OBVIOUS
  <2>1. ASSUME UNCHANGED <<run, decision, todo, found, proven>>
        PROVE  ProvenInv'
    BY <2>1 DEF ProvenInv, Present, Pending
  <2>2. ASSUME run' = NoRun PROVE ProvenInv'
    BY <2>2 DEF ProvenInv
  <2>3. ASSUME Start PROVE ProvenInv'
    <3>1. /\ run' = NewRun /\ todo' = ToolsOf(0) /\ decision' = "None"
          /\ NewRun.step = 0
      BY <2>3 DEF Start, NewRun
    <3>2. ToolsUpTo(0) = {}
      BY DEF ToolsUpTo
    <3>3. ToolsOf(0) = GATHERERS[1].tools
      BY ToolsOfFacts
    <3>4. Present' = Pending'
      BY <3>1, <3>3 DEF Present, Pending, ToolsNamed
    <3> QED
      BY <3>1, <3>2, <3>4 DEF ProvenInv
  <2>4. ASSUME NEW status \in BLOCKING, Answer(status, FALSE),
               UNCHANGED proven, run # NoRun, todo # <<>>
        PROVE  ProvenInv'
    BY <2>4, AnswerKeepsProofs
  <2>5. ASSUME AskTool PROVE ProvenInv'
    BY <2>1, <2>4, <2>5 DEF AskTool, Asking, GoOn, BLOCKING
  <2>6. ASSUME NEW target, Resolve(target) PROVE ProvenInv'
    BY <2>1, <2>4, <2>6 DEF Resolve, Asking, GoOn, BLOCKING
  <2>7. ASSUME NEW readable, Version(readable) PROVE ProvenInv'
    BY <2>1, <2>4, <2>7 DEF Version, Asking, GoOn, BLOCKING
  <2>8. ASSUME Scan PROVE ProvenInv'
    <3> DEFINE scanner == ScannerFor(Head(todo))
    <3>1. PICK x \in Scans : Scanned(Head(todo), scanner, x)
      BY <2>8 DEF Scan
    <3>2. todo # <<>> /\ run # NoRun /\ x \in Executions
      BY <2>8 DEF Scan, Asking, Scans
    <3>3. proven \subseteq proven'
      BY <3>1 DEF Scanned
    <3>4. ASSUME CheckStatus(RunScanner(scanner, x)) \notin BLOCKING
          PROVE  Head(todo) \in proven'
      <4>1. RanClean(scanner, x)
        BY <3>2, <3>4, OnlyCleanRunsPass
      <4>2. scanner \in host \ flawed
        BY <3>1, <4>1 DEF Scanned, Honest, RanClean
      <4> QED
        BY <3>1, <4>2 DEF Scanned
    <3>5. PICK clean : Answer(CheckStatus(RunScanner(scanner, x)), clean)
      BY <3>1, Zenon DEF Scanned
    <3> QED
      BY <3>2, <3>3, <3>4, <3>5, AnswerKeepsProofs
  <2>9. ASSUME Gather PROVE ProvenInv'
    <3>1. PICK builtin :
             run' = Further(run, [statuses |-> found.statuses \cup
                                                  (BLOCKING \cap builtin),
                                  clean    |-> found.clean])
      BY <2>9 DEF Gather
    <3>2. /\ run # NoRun /\ run.step < 6 /\ run.step \in 0 .. 5
          /\ todo = <<>> /\ todo' = ToolsOf(run.step + 1)
          /\ found'.statuses = {} /\ UNCHANGED <<decision, proven>>
      BY <2>9, SixGatherers, TodoFacts DEF Gather, NothingFound
    <3>3. /\ run'.step = run.step + 1
          /\ run'.statuses = {} => run.statuses = {} /\ found.statuses = {}
      <4>1. run # NoRun /\ run.step < 6
        BY <3>2
      <4>2. /\ run'.step = run.step + 1
            /\ run'.statuses = run.statuses \cup found.statuses
                                  \cup (BLOCKING \cap builtin)
        BY <3>1, <4>1, FurtherIsRun
      <4> QED
        BY <4>2
    <3>4. ToolsUpTo(run.step + 1) =
             ToolsUpTo(run.step) \cup ToolsNamed(GATHERERS[run.step + 1])
      BY <3>2 DEF ToolsUpTo
    <3>5. Present = ToolsNamed(GATHERERS[run.step + 1]) /\ Pending = {}
      BY <3>2 DEF Present, Pending
    <3>6. Present' = Pending'
      <4>1. CASE run.step + 1 < 6
        <5>1. ToolsOf(run.step + 1) = GATHERERS[run.step + 1 + 1].tools
          BY <3>2, <4>1, ToolsOfFacts
        <5> QED
          BY <3>2, <3>3, <4>1, <5>1 DEF Present, Pending, ToolsNamed
      <4>2. CASE run.step + 1 = 6
        BY <3>2, <3>3, <4>2, ToolsOfFacts DEF Present, Pending
      <4> QED
        BY <3>2, <4>1, <4>2
    <3> QED
      BY <3>2, <3>3, <3>4, <3>5, <3>6 DEF ProvenInv
  <2> QED
    BY <2>1, <2>2, <2>3, <2>5, <2>6, <2>7, <2>8, <2>9
       DEF Next, GateStep, HostChanges, TreeChanges, Return, Raise, vars,
           program
<1>3. AuditTypeOK /\ ProvenInv /\ PassIsTrue /\ [Next]_vars => PassIsTrue'
  <2> SUFFICES ASSUME AuditTypeOK, ProvenInv, PassIsTrue, [Next]_vars,
                      decision' = "PASS"
               PROVE  proven' = TOOLS
    BY DEF PassIsTrue
  <2>1. CASE Return
    <3>1. /\ run # NoRun /\ run.step = 6 /\ proven' = proven
          /\ run.statuses \cap BLOCKING = {}
      BY <2>1, SixGatherers DEF Return, Valid
    <3>2. run.statuses = {} /\ found.statuses = {}
      BY <3>1, TodoFacts DEF ProvenInv
    <3>3. ToolsUpTo(6) \subseteq proven
      BY <3>1, <3>2 DEF ProvenInv
    <3>4. TOOLS \subseteq ToolsUpTo(6)
      BY GatherersAskTools DEF ToolsUpTo
    <3> QED
      BY <3>1, <3>3, <3>4 DEF AuditTypeOK
  <2>2. CASE ~Return
    <3>1. UNCHANGED decision /\ (run = NoRun => UNCHANGED proven)
      BY <2>2 DEF Next, GateStep, vars, program, HostChanges, TreeChanges,
                  Start, AskTool, Resolve, Version, Scan, Gather, Raise,
                  GoOn, Answer, Scanned, Asking
    <3>2. run = NoRun
      BY <3>1 DEF ProvenInv
    <3> QED
      BY <3>1, <3>2 DEF PassIsTrue
  <2> QED
    BY <2>1, <2>2
<1> QED
  BY <1>1, <1>2, <1>3, AuditTypeCorrect, PTL DEF Spec
-----------------------------------------------------------------------------
(* The tools the present gatherer has had an answer for, and what makes the
   refinement inductive: what it has found is what scans of these tools may
   come to; and an execution under way is of a scanner that is defined. *)
Asked == Present \ Pending

AnswersOf(scans) ==
    /\ \A t \in Asked : scans[t] \in ExternalScan(t)
    /\ found.statuses = BLOCKING \cap {scans[t].status : t \in Asked}
    /\ found.clean <=> \A t \in Asked : scans[t].clean

AskedInv ==
    /\ run # NoRun => \E scans : AnswersOf(scans)
    /\ attempt \in {"version", "scan"} => ScannerFor(Head(todo)) \in Defined

(* One answer more: of a tool that had none. *)
LEMMA OneMoreAsked ==
    ASSUME AuditTypeOK, run # NoRun, todo # <<>>,
           run' = run, todo' = Tail(todo)
    PROVE  /\ Asked' = Asked \cup {Head(todo)}
           /\ Head(todo) \notin Asked
           /\ Head(todo) \in TOOLS
<1>1. /\ run.step \in 0 .. 6
      /\ todo = ToolsOf(run.step) \/ todo = Tail(ToolsOf(run.step))
  BY TodoFacts
<1>2. run.step \in 0 .. 5
  <2>1. ToolsOf(6) = <<>> /\ Tail(<<>>) = <<>>
    BY ToolsOfFacts
  <2>2. run.step # 6
    BY <1>1, <2>1
  <2> QED
    BY <1>1, <2>2
<1> DEFINE list == GATHERERS[run.step + 1].tools
<1>3. /\ ToolsOf(run.step) = list /\ list \in Seq(TOOLS)
      /\ Distinct(list) /\ run.step + 1 \in 1 .. 6
  BY <1>2, ToolsOfFacts, GatherersAskTools
<1>4. Present = {list[i] : i \in DOMAIN list} /\ Present' = Present
  BY <1>2 DEF Present, ToolsNamed
<1> HIDE DEF list
<1>5. todo = list \/ todo = Tail(list)
  BY <1>1, <1>3
<1>6. todo \in Seq(TOOLS)
  BY TodoFacts
<1>7. \E shift \in {0, 1} : \A i \in DOMAIN todo :
         /\ todo[i] = list[i + shift] /\ i \in Nat
         /\ i + shift \in DOMAIN list
  <2>1. CASE todo = list
    <3>1. \A i \in DOMAIN todo : /\ todo[i] = list[i + 0] /\ i \in Nat
                                 /\ i + 0 \in DOMAIN list
      BY <1>3, <2>1
    <3> QED
      BY <3>1
  <2>2. CASE todo = Tail(list)
    <3>1. \A i \in DOMAIN todo : /\ todo[i] = list[i + 1] /\ i \in Nat
                                 /\ i + 1 \in DOMAIN list
      BY <1>3, <2>2
    <3> QED
      BY <3>1
  <2> QED
    BY <1>5, <2>1, <2>2
<1>8. Pending \subseteq Present /\ Distinct(todo)
  <2>1. PICK shift \in {0, 1} : \A i \in DOMAIN todo :
           /\ todo[i] = list[i + shift] /\ i \in Nat
           /\ i + shift \in DOMAIN list
    BY <1>7
  <2>2. Pending \subseteq Present
    BY <1>4, <2>1 DEF Pending
  <2>3. ASSUME NEW i \in DOMAIN todo, NEW j \in DOMAIN todo, todo[i] = todo[j]
        PROVE  i = j
    <3>1. i + shift = j + shift
      BY <1>3, <2>1, <2>3 DEF Distinct
    <3> QED
      BY <2>1, <3>1
  <2> QED
    BY <2>2, <2>3 DEF Distinct
<1>9. /\ Head(todo) = todo[1] /\ Head(todo) \in TOOLS
      /\ 1 \in DOMAIN todo
      /\ \A i \in DOMAIN Tail(todo) : /\ Tail(todo)[i] = todo[i + 1]
                                     /\ i + 1 \in DOMAIN todo /\ i + 1 # 1
  BY <1>6
<1>10. Head(todo) \notin Pending' /\ Head(todo) \in Pending
         /\ Pending' \subseteq Pending
  BY <1>8, <1>9 DEF Pending, Distinct
<1>11. Pending \subseteq {Head(todo)} \cup Pending'
  BY OneToolLess DEF Pending
<1> QED
  BY <1>4, <1>8, <1>9, <1>10, <1>11 DEF Asked

LEMMA AnswerKeepsAsked ==
    ASSUME AuditTypeOK, AskedInv, run # NoRun, todo # <<>>,
           NEW status, NEW clean \in BOOLEAN, Answer(status, clean),
           [status |-> status, clean |-> clean] \in ExternalScan(Head(todo))
    PROVE  AskedInv'
<1> DEFINE scan == [status |-> status, clean |-> clean]
<1>1. PICK scans : AnswersOf(scans)
  BY DEF AskedInv
<1>2. /\ run' = run /\ todo' = Tail(todo) /\ attempt' = NoAttempt
      /\ found'.statuses = found.statuses \cup (BLOCKING \cap {status})
  BY DEF Answer
<1>3. found'.clean <=> found.clean /\ clean
  <2> DEFINE c == found.clean /\ clean
  <2>1. c \in BOOLEAN
    BY Zenon
  <2>2. found' = [statuses |-> found.statuses \cup (BLOCKING \cap {status}),
                  clean    |-> c]
    BY Zenon DEF Answer
  <2>3. c <=> found.clean /\ clean
    OBVIOUS
  <2> HIDE DEF c
  <2> QED
    BY <2>1, <2>2, <2>3
<1>4. Asked' = Asked \cup {Head(todo)} /\ Head(todo) \notin Asked
  BY <1>2, OneMoreAsked
<1> DEFINE more == [t \in Asked' |-> IF t = Head(todo) THEN scan ELSE scans[t]]
<1>5. /\ more[Head(todo)] = scan
      /\ \A t \in Asked : more[t] = scans[t]
  BY <1>4
<1>6. scan.status = status /\ (scan.clean <=> clean)
  OBVIOUS
<1> HIDE DEF more, scan
<1>7. \A t \in Asked' : more[t] \in ExternalScan(t)
  BY <1>1, <1>4, <1>5 DEF AnswersOf, scan
<1>8. {more[t].status : t \in Asked'} =
         {scans[t].status : t \in Asked} \cup {status}
  BY <1>4, <1>5, <1>6
<1>9. found'.statuses = BLOCKING \cap {more[t].status : t \in Asked'}
  BY <1>1, <1>2, <1>8 DEF AnswersOf
<1>10. found'.clean <=> \A t \in Asked' : more[t].clean
  BY <1>1, <1>3, <1>4, <1>5, <1>6 DEF AnswersOf
<1>11. \E s : AnswersOf(s)'
  BY <1>7, <1>9, <1>10 DEF AnswersOf
<1> QED
  BY <1>2, <1>11 DEF AskedInv, NoAttempt

(* A new gatherer has asked nothing yet. *)
LEMMA NothingAsked ==
    ASSUME NEW step \in 0 .. 6, run'.step = step, todo' = ToolsOf(step),
           found' = NothingFound, attempt' = NoAttempt
    PROVE  AskedInv'
<1>1. Asked' = {}
  <2>1. CASE step < 6
    <3>1. ToolsOf(step) = GATHERERS[step + 1].tools
      BY <2>1, ToolsOfFacts
    <3> QED
      BY <2>1, <3>1 DEF Asked, Present, Pending, ToolsNamed
  <2>2. CASE step = 6
    BY <2>2 DEF Asked, Present
  <2> QED
    BY <2>1, <2>2
<1>2. found'.statuses = {} /\ found'.clean
  BY DEF NothingFound
<1>3. \A s : AnswersOf(s)'
  BY <1>1, <1>2 DEF AnswersOf
<1> QED
  BY <1>3 DEF AskedInv, NoAttempt

(* Every answer of the gate's is one that a scan of the tool may have. *)
LEMMA AskedStep ==
    ASSUME AuditTypeOK, AskedInv, [Next]_vars
    PROVE  AskedInv'
<1>1. ASSUME UNCHANGED <<run, todo, found>>, attempt' = NoAttempt \/
                UNCHANGED attempt
      PROVE  AskedInv'
  <2>1. Asked' = Asked
    BY <1>1 DEF Asked, Present, Pending
  <2>2. \A s : AnswersOf(s) <=> AnswersOf(s)'
    BY <1>1, <2>1 DEF AnswersOf
  <2> QED
    BY <1>1, <2>2 DEF AskedInv, NoAttempt
<1>2. ASSUME NEW phase, GoOn(phase), run # NoRun,
             ScannerFor(Head(todo)) \in Defined
      PROVE  AskedInv'
  <2>1. Asked' = Asked /\ UNCHANGED <<run, todo, found>>
    BY <1>2 DEF GoOn, Asked, Present, Pending
  <2>2. \A s : AnswersOf(s) <=> AnswersOf(s)'
    BY <2>1 DEF AnswersOf
  <2> QED
    BY <1>2, <2>1, <2>2 DEF AskedInv
<1>3. ASSUME NEW status \in {"NOT_SCANNED", "ERROR"}, Answer(status, FALSE),
             run # NoRun, todo # <<>>
      PROVE  AskedInv'
  <2>1. Head(todo) \in TOOLS
    BY <1>3, OneToolLess
  <2>2. [status |-> status, clean |-> FALSE] \in ExternalScan(Head(todo))
    BY <1>3, <2>1, ScanOutcomes
  <2> QED
    BY <1>3, <2>2, AnswerKeepsAsked
<1>4. CASE AskTool
  <2>1. ASSUME GoOn("resolve") PROVE AskedInv'
    <3>1. Asked' = Asked /\ UNCHANGED <<run, todo, found>>
      BY <2>1 DEF GoOn, Asked, Present, Pending
    <3>2. \A s : AnswersOf(s) <=> AnswersOf(s)'
      BY <3>1 DEF AnswersOf
    <3> QED
      BY <2>1, <3>1, <3>2 DEF AskedInv, GoOn
  <2> QED
    BY <1>3, <1>4, <2>1 DEF AskTool, Asking
<1>5. ASSUME NEW target, Resolve(target) PROVE AskedInv'
  BY <1>2, <1>3, <1>5 DEF Resolve, Asking
<1>6. ASSUME NEW readable, Version(readable) PROVE AskedInv'
  <2>1. ScannerFor(Head(todo)) \in Defined
    BY <1>6 DEF Version, Asking, AskedInv
  <2> QED
    BY <1>2, <1>3, <1>6, <2>1 DEF Version, Asking
<1>7. CASE Scan
  <2>1. /\ run # NoRun /\ todo # <<>>
        /\ ScannerFor(Head(todo)) \in Defined
    BY <1>7 DEF Scan, Asking, AskedInv
  <2>2. PICK x \in Scans : Scanned(Head(todo), ScannerFor(Head(todo)), x)
    BY <1>7 DEF Scan
  <2> DEFINE c == /\ RanClean(ScannerFor(Head(todo)), x)
                  /\ ScannerFor(Head(todo)) = Head(todo)
             s == CheckStatus(RunScanner(ScannerFor(Head(todo)), x))
  <2>3. c \in BOOLEAN
    BY Zenon
  <2>4. Answer(s, c)
    BY <2>2, Zenon DEF Scanned
  <2>5. Head(todo) \in TOOLS /\ x \in Executions
    BY <2>1, OneToolLess DEF Scans
  <2>6. [status |-> s, clean |-> c] \in ExternalScan(Head(todo))
    BY <2>1, <2>5, ScanOutcomes, Zenon
  <2> HIDE DEF c, s
  <2> QED
    BY <2>1, <2>3, <2>4, <2>6, AnswerKeepsAsked
<1>8. CASE Start
  <2>1. run'.step = 0
    BY <1>8 DEF Start, NewRun
  <2> QED
    BY <1>8, <2>1, NothingAsked DEF Start
<1>9. CASE Gather
  <2>1. PICK builtin :
           run' = Further(run, [statuses |-> found.statuses \cup
                                                (BLOCKING \cap builtin),
                                clean    |-> found.clean])
    BY <1>9 DEF Gather
  <2>2. /\ run # NoRun /\ run.step < 6 /\ run.step + 1 \in 0 .. 6
        /\ todo = <<>> /\ todo' = ToolsOf(run.step + 1)
        /\ found' = NothingFound /\ attempt' = attempt
    BY <1>9, SixGatherers, TodoFacts DEF Gather
  <2>3. run'.step = run.step + 1
    BY <2>1, <2>2, FurtherIsRun
  <2>4. attempt' = NoAttempt
    BY <2>2 DEF AuditTypeOK
  <2> QED
    BY <2>2, <2>3, <2>4, NothingAsked
<1>10. CASE Return \/ Raise
  <2>1. run' = NoRun /\ (attempt' = attempt \/ attempt' = NoAttempt)
           /\ (todo' = todo \/ attempt' = NoAttempt)
    BY <1>10 DEF Return, Raise
  <2> QED
    BY <2>1 DEF AskedInv, NoAttempt
<1>11. CASE UNCHANGED program
  BY <1>1, <1>11 DEF program
<1> QED
  BY <1>4, <1>5, <1>6, <1>7, <1>8, <1>9, <1>10, <1>11
     DEF Next, GateStep, HostChanges, TreeChanges, vars

(* AuditImplements: seen between its gatherers, a run that asks the host one
   question at a time is the pipeline's: with nothing left to ask, what it has
   found and its built-in checks are one of the things the gatherer may add. *)
THEOREM AuditRefines == Spec => AuditImplements
<1>1. Init => AskedInv /\ Abstract!Init
  BY DEF Init, AskedInv, NoAttempt, Abstract!Init, NoRun, Abstract!NoRun
<1>2. AuditTypeOK /\ AskedInv /\ [Next]_vars
         => [Abstract!Next]_<<run, decision>>
  <2> SUFFICES ASSUME AuditTypeOK, AskedInv, [Next]_vars,
                      ~UNCHANGED <<run, decision>>
               PROVE  Abstract!Next
    OBVIOUS
  <2>0. Abstract!NoRun = NoRun /\ Abstract!NewRun = NewRun
    BY DEF Abstract!NoRun, NoRun, Abstract!NewRun, NewRun
  <2>1. Len(GatheredBy) = 6
    BY DEF GatheredBy
  <2>2. CASE Start
    BY <2>0, <2>2 DEF Start, Abstract!Start, Abstract!Next
  <2>3. CASE Return
    <3>1. run # NoRun /\ run.step = 6 /\ run' = NoRun
             /\ decision' = Decide(run.statuses)
      BY <2>3, SixGatherers DEF Return
    <3> QED
      BY <2>0, <2>1, <3>1 DEF Abstract!Return, Abstract!Next
  <2>4. CASE Raise
    BY <2>0, <2>4 DEF Raise, Abstract!Raise, Abstract!Next
  <2>5. CASE Gather
    <3> DEFINE gatherer == GATHERERS[run.step + 1]
    <3>1. PICK builtin \in gatherer.builtin :
             run' = Further(run, [statuses |-> found.statuses \cup
                                                  (BLOCKING \cap builtin),
                                  clean    |-> found.clean])
      BY <2>5 DEF Gather
    <3>2. /\ run # NoRun /\ run.step < 6 /\ run.step + 1 \in 1 .. 6
          /\ todo = <<>> /\ UNCHANGED decision
      BY <2>5, SixGatherers, TodoFacts DEF Gather
    <3>3. PICK scans : AnswersOf(scans)
      BY <3>2 DEF AskedInv
    <3>4. Asked = ToolsNamed(gatherer)
      BY <3>2 DEF Asked, Present, Pending
    <3> DEFINE f == [t \in ToolsNamed(gatherer) |-> scans[t]]
               all == UNION {ExternalScan(t) : t \in TOOLS}
               what == [statuses |-> found.statuses \cup
                                        (BLOCKING \cap builtin),
                        clean    |-> found.clean]
    <3>5. \A t \in ToolsNamed(gatherer) : /\ f[t] = scans[t]
                                         /\ f[t] \in ExternalScan(t)
      BY <3>3, <3>4 DEF AnswersOf
    <3>6. f \in [ToolsNamed(gatherer) -> all]
      <4>1. \A t \in ToolsNamed(gatherer) : scans[t] \in all
        BY <3>2, <3>5, GatherersAskTools
      <4> QED
        BY <4>1
    <3>7. Added(gatherer, builtin, f) \in Gathered(gatherer)
      BY <3>1, <3>5, <3>6, GatheredHas
    <3>8. Added(gatherer, builtin, f) = what
      <4> DEFINE c == \A t \in ToolsNamed(gatherer) : f[t].clean
                 S == builtin \cup {f[t].status : t \in ToolsNamed(gatherer)}
      <4>1. c \in BOOLEAN
        BY Zenon
      <4>2. c = found.clean
        <5>1. c <=> found.clean
          BY <3>3, <3>4, <3>5 DEF AnswersOf
        <5>2. found.clean \in BOOLEAN
          BY DEF AuditTypeOK
        <5> HIDE DEF c
        <5> QED
          BY <4>1, <5>1, <5>2
      <4>3. {f[t].status : t \in ToolsNamed(gatherer)} =
               {scans[t].status : t \in ToolsNamed(gatherer)}
        BY <3>5
      <4>4. BLOCKING \cap S = found.statuses \cup (BLOCKING \cap builtin)
        BY <3>3, <3>4, <4>3 DEF AnswersOf
      <4>5. Added(gatherer, builtin, f) =
               [statuses |-> BLOCKING \cap S, clean |-> c]
        BY Zenon DEF Added
      <4> HIDE DEF c, S
      <4> QED
        BY <4>2, <4>4, <4>5
    <3>9. what \in GatheredBy[run.step + 1]
      BY <3>2, <3>7, <3>8, SixGatherers
    <3> HIDE DEF what
    <3> QED
      BY <2>0, <2>1, <3>1, <3>2, <3>9
         DEF Abstract!Gather, Abstract!Next, what
  <2> QED
    BY <2>2, <2>3, <2>4, <2>5
       DEF Next, GateStep, vars, program, HostChanges, TreeChanges, AskTool,
           Resolve, Version, Scan, Scanned, GoOn, Answer
<1> QED
  BY <1>1, <1>2, AskedStep, AuditTypeCorrect, PTL
     DEF Spec, AuditImplements, Abstract!Spec
-----------------------------------------------------------------------------
(* The phases of a question, counted down. *)
PhasesLeft == [ask |-> 4, resolve |-> 3, version |-> 2, scan |-> 1][attempt]

(* The questions left are a number: those of the gatherers to come, and of the
   present one as many as its tools and the phases of the first of them make. *)
LeftIsCounted ==
    /\ PhasesLeft \in 1 .. 4
    /\ attempt = "ask" => PhasesLeft = 4
    /\ Len(todo) \in 0 .. 2
    /\ todo = <<>> <=> Len(todo) = 0
    /\ run = NoRun => QuestionsLeft = 0
    /\ run # NoRun =>
          /\ run.step \in 0 .. 6
          /\ QuestionsLeft = 1 + 10 * (6 - run.step)
                + (IF todo = <<>> THEN 0
                                  ELSE 4 * (Len(todo) - 1) + PhasesLeft)

LEMMA LeftCounts == AuditTypeOK => LeftIsCounted
<1> SUFFICES ASSUME AuditTypeOK PROVE LeftIsCounted
  OBVIOUS
<1>1. attempt \in {"ask", "resolve", "version", "scan"}
  BY DEF AuditTypeOK, PHASES, NoAttempt
<1>2. PhasesLeft \in 1 .. 4 /\ (attempt = "ask" => PhasesLeft = 4)
  BY <1>1 DEF PhasesLeft
<1>3. todo \in Seq(TOOLS)
  BY TodoFacts
<1>4. Len(todo) \in 0 .. 2
  <2>1. CASE todo = <<>>
    BY <2>1
  <2>2. CASE todo # <<>>
    <3>1. /\ run.step \in 0 .. 6
          /\ todo = ToolsOf(run.step) \/ todo = Tail(ToolsOf(run.step))
      BY <2>2, TodoFacts DEF AuditTypeOK
    <3>2. PICK list \in Seq(TOOLS) : list = ToolsOf(run.step) /\ Len(list) <= 2
      BY <3>1, ToolsOfFacts
    <3>3. Tail(<<>>) = <<>>
      OBVIOUS
    <3>4. list # <<>>
      BY <2>2, <3>1, <3>2, <3>3
    <3>a. Len(list) \in Nat /\ (list = <<>> <=> Len(list) = 0)
      BY <3>2
    <3>5. Len(list) \in 1 .. 2
      <4>1. PICK n \in Nat : n = Len(list)
        BY <3>a
      <4>2. n <= 2 /\ n # 0
        BY <3>2, <3>4, <3>a, <4>1
      <4> QED
        BY <4>1, <4>2
    <3>6. Len(Tail(list)) = Len(list) - 1
      BY <3>2, <3>4
    <3>7. Len(Tail(list)) \in 0 .. 1
      BY <3>5, <3>6
    <3>8. CASE todo = list
      BY <3>5, <3>8
    <3>9. CASE todo = Tail(list)
      BY <3>7, <3>9
    <3> QED
      BY <3>1, <3>2, <3>8, <3>9
  <2> QED
    BY <2>1, <2>2
<1>5. todo = <<>> <=> Len(todo) = 0
  BY <1>3
<1>6. run # NoRun =>
         /\ run.step \in 0 .. 6
         /\ QuestionsLeft = 1 + 10 * (6 - run.step)
               + (IF todo = <<>> THEN 0
                                 ELSE 4 * (Len(todo) - 1) + PhasesLeft)
  BY SixGatherers, TodoFacts DEF QuestionsLeft, PhasesLeft
<1>7. run = NoRun => QuestionsLeft = 0
  BY DEF QuestionsLeft
<1> QED
  BY <1>2, <1>4, <1>5, <1>6, <1>7 DEF LeftIsCounted

(* EveryStepCounts: a run asks at most as many questions as its gatherers have
   tools, four phases each, however host and tree change under it.  With
   RunsGoOn this is what AuditEnds rests on; only that a step which can be made
   is made is left to fairness. *)
THEOREM StepsCount == Spec => EveryStepCounts
<1> DEFINE Counts == Start \/ QuestionsLeft' < QuestionsLeft
                           \/ UNCHANGED program
<1>1. AuditTypeOK /\ LeftIsCounted /\ LeftIsCounted' /\ [Next]_vars
         => [Counts]_vars
  <2> SUFFICES ASSUME AuditTypeOK, LeftIsCounted, LeftIsCounted', Next
               PROVE  Counts
    OBVIOUS
  <2> DEFINE Before == 1 + 10 * (6 - run.step)
             Asks == IF todo = <<>> THEN 0
                                    ELSE 4 * (Len(todo) - 1) + PhasesLeft
             AsksThen == IF todo' = <<>> THEN 0
                            ELSE 4 * (Len(todo') - 1) + PhasesLeft'
  <2>1. ASSUME run # NoRun, UNCHANGED run, AsksThen < Asks PROVE Counts
    <3>1. /\ QuestionsLeft = Before + Asks /\ Before \in Nat
          /\ QuestionsLeft' = Before + AsksThen
          /\ run.step \in 0 .. 6
      BY <2>1 DEF LeftIsCounted
    <3>2. Asks \in Nat /\ AsksThen \in Nat
      BY DEF LeftIsCounted
    <3> HIDE DEF Before, Asks, AsksThen
    <3> QED
      BY <2>1, <3>1, <3>2
  <2>2. ASSUME NEW status, NEW clean, Answer(status, clean),
               run # NoRun, todo # <<>>
        PROVE  Counts
    <3>1. /\ todo \in Seq(TOOLS) /\ todo' = Tail(todo) /\ UNCHANGED run
          /\ attempt' = "ask"
      BY <2>2, TodoFacts DEF Answer, NoAttempt
    <3>2. Len(todo) \in 1 .. 2 /\ Len(todo') = Len(todo) - 1
      BY <2>2, <3>1 DEF LeftIsCounted
    <3>3. /\ PhasesLeft \in 1 .. 4 /\ PhasesLeft' = 4
          /\ todo' = <<>> <=> Len(todo') = 0
      BY <3>1 DEF LeftIsCounted
    <3> QED
      BY <2>1, <2>2, <3>1, <3>2, <3>3
  <2>3. ASSUME NEW phase, GoOn(phase), run # NoRun, todo # <<>>,
               PhasesLeft' < PhasesLeft
        PROVE  Counts
    <3>1. UNCHANGED <<run, todo>> /\ Len(todo) \in 0 .. 2
      BY <2>3 DEF GoOn, LeftIsCounted
    <3>2. PhasesLeft \in Nat /\ PhasesLeft' \in Nat
      BY DEF LeftIsCounted
    <3> HIDE DEF PhasesLeft
    <3> QED
      BY <2>1, <2>3, <3>1, <3>2
  <2>4. CASE AskTool
    <3>1. GoOn("resolve") => PhasesLeft' < PhasesLeft
      BY <2>4 DEF AskTool, Asking, GoOn, PhasesLeft, NoAttempt
    <3> QED
      BY <2>2, <2>3, <2>4, <3>1 DEF AskTool, Asking
  <2>5. ASSUME NEW target, Resolve(target) PROVE Counts
    <3>1. GoOn("version") => PhasesLeft' < PhasesLeft
      BY <2>5 DEF Resolve, Asking, GoOn, PhasesLeft
    <3> QED
      BY <2>2, <2>3, <2>5, <3>1 DEF Resolve, Asking
  <2>6. ASSUME NEW readable, Version(readable) PROVE Counts
    <3>1. GoOn("scan") => PhasesLeft' < PhasesLeft
      BY <2>6 DEF Version, Asking, GoOn, PhasesLeft
    <3> QED
      BY <2>2, <2>3, <2>6, <3>1 DEF Version, Asking
  <2>7. CASE Scan
    <3>1. PICK status, clean : Answer(status, clean)
      BY <2>7, Zenon DEF Scan, Scanned
    <3> QED
      BY <2>2, <2>7, <3>1 DEF Scan, Asking
  <2>8. CASE Gather
    <3>1. PICK builtin :
             run' = Further(run, [statuses |-> found.statuses \cup
                                                  (BLOCKING \cap builtin),
                                  clean    |-> found.clean])
      BY <2>8 DEF Gather
    <3>2. run # NoRun /\ run.step < 6 /\ todo = <<>>
      BY <2>8, SixGatherers DEF Gather
    <3>a. run' # NoRun /\ run'.step = run.step + 1
      BY <3>1, <3>2, FurtherIsRun
    <3>3. run' # NoRun /\ run'.step = run.step + 1 /\ run.step \in 0 .. 5
      BY <3>2, <3>a, TodoFacts
    <3>4. QuestionsLeft = 1 + 10 * (6 - run.step)
      BY <3>2, <3>3 DEF LeftIsCounted
    <3>5. /\ QuestionsLeft' = 1 + 10 * (6 - run'.step) + AsksThen
          /\ Len(todo') \in 0 .. 2 /\ PhasesLeft' \in 1 .. 4
      BY <3>3 DEF LeftIsCounted
    <3>6. AsksThen <= 8 /\ AsksThen \in Nat
      <4>1. todo' # <<>> => Len(todo') \in 1 .. 2
        BY DEF LeftIsCounted
      <4> HIDE DEF PhasesLeft
      <4>2. CASE todo' = <<>>
        BY <4>2
      <4>3. CASE todo' # <<>>
        <5>1. PICK l \in 1 .. 2 : l = Len(todo')
          BY <4>1, <4>3
        <5>2. PICK p \in 1 .. 4 : p = PhasesLeft'
          BY <3>5
        <5>3. AsksThen = 4 * (l - 1) + p
          BY <4>3, <5>1, <5>2
        <5> HIDE DEF AsksThen
        <5> QED
          BY <5>3
      <4> QED
        BY <4>2, <4>3
    <3> HIDE DEF AsksThen
    <3> QED
      BY <3>3, <3>4, <3>5, <3>6
  <2>9. CASE Return \/ Raise
    <3>1. run # NoRun /\ run' = NoRun
      BY <2>9 DEF Return, Raise
    <3>2. QuestionsLeft' = 0 /\ run.step \in 0 .. 6
      BY <3>1 DEF LeftIsCounted
    <3>3. QuestionsLeft # 0 /\ QuestionsLeft \in Nat
      <4>1. /\ QuestionsLeft = Before + Asks
            /\ Len(todo) \in 0 .. 2 /\ (todo = <<>> <=> Len(todo) = 0)
            /\ PhasesLeft \in 1 .. 4
        BY <3>1 DEF LeftIsCounted
      <4>2. Asks \in Nat /\ Before \in Nat \ {0}
        BY <3>2, <4>1
      <4> HIDE DEF Asks, Before
      <4> QED
        BY <4>1, <4>2
    <3> QED
      BY <3>2, <3>3
  <2> QED
    BY <2>4, <2>5, <2>6, <2>7, <2>8, <2>9
       DEF Next, GateStep, HostChanges, TreeChanges
<1> QED
  BY <1>1, LeftCounts, AuditTypeCorrect, PTL DEF Spec, EveryStepCounts

(* RunsGoOn: whatever the host is like, a scan may at least fail to start; each
   gatherer's built-in checks come to something; and _decide makes of any
   obstacles a decision that validate accepts. *)
THEOREM RunsAreNeverStuck == Spec => []RunsGoOn
<1>1. AuditTypeOK => RunsGoOn
  <2> SUFFICES ASSUME AuditTypeOK, run # NoRun PROVE RunsGoOn
    BY DEF RunsGoOn
  <2>1. run.step \in 0 .. 6 /\ run.statuses \in SUBSET BLOCKING
    BY TodoFacts
  <2>2. \A scanner : \E x \in Scans : Honest(scanner, x)
    <3> DEFINE x == [target |-> "inside", installed |-> TRUE,
                     version |-> "readable", ended |-> "not started",
                     report |-> NoReport]
    <3>1. x \in Scans
      BY DEF Scans, Executions, NoReport, Reports, SHAPES
    <3>2. \A scanner : Honest(scanner, x)
      BY DEF Honest
    <3> QED
      BY <3>1, <3>2
  <2>3. \A step \in 0 .. 5 : GATHERERS[step + 1].builtin # {}
    <3>1. \A i \in 1 .. 6 :
             GATHERERS[i] \in {CheckRepository, CheckDependency,
                               CheckApplication, CheckInfrastructure,
                               CheckAiAgent, CheckGovernance}
      BY DEF GATHERERS
    <3>2. "PASS" \in PassOrFail
      BY DEF PassOrFail, Met
    <3>3. /\ CheckRepository.builtin # {}
          /\ CheckDependency.builtin # {}
          /\ CheckApplication.builtin # {}
          /\ CheckInfrastructure.builtin # {}
          /\ CheckAiAgent.builtin # {}
          /\ CheckGovernance.builtin # {}
      <4>1. {"PASS", "PASS", "PASS", "PASS", "PASS"} \in CheckRepository.builtin
        BY <3>2 DEF CheckRepository
      <4>2. {"PASS"} \in CheckDependency.builtin
        BY <3>2 DEF CheckDependency
      <4>3. {"PASS"} \in CheckApplication.builtin
        BY <3>2 DEF CheckApplication
      <4>4. {"PASS", "PASS", "NOT_SCANNED", "PASS"}
               \in CheckInfrastructure.builtin
        BY <3>2 DEF CheckInfrastructure
      <4>5. {"NOT_APPLICABLE"} \cup {"FAIL"} \in CheckAiAgent.builtin
        <5> DEFINE orchestrators ==
                      {{"NOT_APPLICABLE"}} \cup
                         {{actor, approver} : actor, approver \in PassOrFail}
                   registries == {Met(LeastPrivilege(AGENTS)), "FAIL"}
        <5>1. CheckAiAgent.builtin =
                 {orchestrator \cup {registry} :
                     orchestrator \in orchestrators, registry \in registries}
          BY DEF CheckAiAgent
        <5>2. {"NOT_APPLICABLE"} \in orchestrators
          OBVIOUS
        <5>3. "FAIL" \in registries
          OBVIOUS
        <5> HIDE DEF orchestrators, registries
        <5> QED
          BY <5>1, <5>2, <5>3
      <4>6. {Met(DeployIsSafe), Met(NotScannedIsSafe), Met(GatesAreOwned)}
               \in CheckGovernance.builtin
        BY DEF CheckGovernance
      <4> QED
        BY <4>1, <4>2, <4>3, <4>4, <4>5, <4>6
    <3>4. \A step \in 0 .. 5 : step + 1 \in 1 .. 6
      OBVIOUS
    <3> QED
      BY <3>1, <3>3, <3>4
  <2>4. Valid(Decide(run.statuses), run.statuses)
    BY <2>1, DecideFacts
  <2> QED
    <3>1. CASE todo # <<>>
      BY <2>2, <3>1 DEF RunsGoOn
    <3>2. CASE todo = <<>> /\ run.step \in 0 .. 5
      BY <2>3, <3>2, SixGatherers DEF RunsGoOn
    <3>3. CASE run.step = 6
      BY <2>4, <3>3, SixGatherers DEF RunsGoOn
    <3> QED
      BY <2>1, <3>1, <3>2, <3>3
<1> QED
  BY <1>1, AuditTypeCorrect, PTL
=============================================================================

-------------------------- MODULE AuditTrailProofs --------------------------
(***************************************************************************)
(* The audit log against the object it tells of, for logs of any length:   *)
(* the orchestrator with its log is the orchestrator, its log is the walk  *)
(* it made, and the counters are what the log says.                        *)
(***************************************************************************)
EXTENDS AuditTrail, OpenClawProofs, FiniteSetTheorems

(* A verdict has one target in a state: _ROUTING is a dict of dicts. *)
LEMMA RoutingIsFunctional ==
    \A s, v, t, u : <<s, v, t>> \in ROUTING /\ <<s, v, u>> \in ROUTING
                       => t = u
BY DEF ROUTING, REPAIR

(* Adding an index beyond a set of indices adds one to its size. *)
LEMMA CountOneMore ==
    ASSUME NEW n \in Nat, NEW A \in SUBSET (1 .. n), NEW m \in Nat, m > n
    PROVE  /\ IsFiniteSet(A)
           /\ Cardinality(A) \in Nat
           /\ Cardinality(A \cup {m}) = Cardinality(A) + 1
<1>1. IsFiniteSet(A)
  <2>1. IsFiniteSet(1 .. n)
    BY FS_Interval
  <2> QED
    BY <2>1, FS_Subset
<1>2. m \notin A
  OBVIOUS
<1> QED
  BY <1>1, <1>2, FS_AddElement, FS_CardinalityType

(* Forgetting the log, the orchestrator with its log is the orchestrator. *)
LEMMA LoggedStep == LoggedNext => [Next]_vars
<1>1. "REJECTED" \in VERDICTS
  BY DEF VERDICTS
<1>2. ASSUME NEW actor \in Actors, LoggedRejection(actor) PROVE Next
  BY <1>1, <1>2 DEF LoggedRejection, Next
<1>3. ASSUME NEW actor \in Actors, RecordEvidence(actor)
      PROVE  UNCHANGED vars
  BY <1>3 DEF RecordEvidence
<1> QED
  BY <1>2, <1>3
     DEF LoggedNext, Next, LoggedAdvance, LoggedRoute, LoggedRouteAtBound,
         LoggedRouteRefused, LoggedRequestHumanApproval,
         LoggedRecordHumanApproval, LoggedContinueAfterHumanGate,
         LoggedEscalate

THEOREM LoggedImplements == LoggedSpec => Spec
<1>1. LoggedInit => Init
  BY DEF LoggedInit
<1>2. [LoggedNext]_auditVars => [Next]_vars
  BY LoggedStep DEF auditVars, vars
<1> QED
  BY <1>1, <1>2, PTL DEF LoggedSpec, Spec
-----------------------------------------------------------------------------
(* What a step appends: nothing; one entry; or two, an announcement and what
   came of it. *)
Nothing == audit' = audit

One(actor, event, before, after) ==
    audit' = Append(audit, Entry(actor, event, before, after))

Two(first, second) == audit' = audit \o <<first, second>>

RoutedTo(actor, target) == Entry(actor, "ROUTED", state, target)

(* Every step of the orchestrator with its log, sorted by what it does to the
   fields the log accounts for. *)
StepKinds ==
    \/ /\ Nothing
       /\ UNCHANGED <<state, repairs, approvals, pending, requestSeq>>
    \/ \E actor \in Actors, event \in {"TRANSITION", "ESCALATED"} :
          /\ One(actor, event, state, state')
          /\ CanTransition(state, state')
          /\ UNCHANGED <<repairs, approvals, pending, requestSeq>>
    \/ \E actor \in Actors :
          /\ One(actor, "ROUTED", state, state')
          /\ CanTransition(state, state')
          /\ repairs' = IF state' = "IMPLEMENTATION" /\ state # "ROLLED_BACK"
                           THEN repairs + 1 ELSE repairs
          /\ UNCHANGED <<approvals, pending, requestSeq>>
    \/ \E actor \in Actors :
          /\ Two(BoundEntry(actor), RoutedTo(actor, "ESCALATED"))
          /\ state' = "ESCALATED"
          /\ CanTransition(state, state')
          /\ repairs >= MaxRepair
          /\ UNCHANGED <<repairs, approvals, pending, requestSeq>>
    \/ \E actor \in Actors :
          /\ Two(RejectionEntry(actor), RoutedTo(actor, "IMPLEMENTATION"))
          /\ state = "HANDOFF_CHECKPOINT"
          /\ state' = "IMPLEMENTATION"
          /\ repairs' = repairs + 1
          /\ UNCHANGED <<approvals, pending, requestSeq>>
    \/ \E actor \in Actors :
          /\ Two(RejectionEntry(actor), BoundEntry(actor))
          /\ state = "HANDOFF_CHECKPOINT"
          /\ repairs >= MaxRepair
          /\ UNCHANGED <<state, repairs, approvals, pending, requestSeq>>
    \/ \E actor \in Actors :
          /\ One(actor, "EVIDENCE", state, state)
          /\ UNCHANGED <<state, repairs, approvals, pending, requestSeq>>
    \/ \E actor \in Actors :
          /\ One(actor, "ESCALATED", state, "ESCALATED")
          /\ state = "HANDOFF_CHECKPOINT"
          /\ repairs >= MaxRepair
          /\ UNCHANGED <<state, repairs, approvals, pending, requestSeq>>
    \/ \E gate \in HUMAN_GATES :
          /\ One(OPENCLAW_ROLE, "APPROVAL_REQUESTED", state, state)
          /\ requestSeq' = requestSeq + 1
          /\ \A g \in HUMAN_GATES \ {gate} : pending'[g] = pending[g]
          /\ UNCHANGED <<state, repairs>>
    \/ \E gate \in HUMAN_GATES, actor \in Actors :
          /\ One(actor, "APPROVAL_RECORDED", state, state)
          /\ pending[gate] # 0
          /\ pending'[gate] = 0
          /\ \A g \in HUMAN_GATES \ {gate} : pending'[g] = pending[g]
          /\ UNCHANGED <<state, repairs, requestSeq>>

LEMMA StepsAreSorted ==
    ASSUME TypeOK, LoggedNext
    PROVE  StepKinds
<1>1. ASSUME NEW actor \in Actors, NEW target, LoggedAdvance(target, actor)
      PROVE  StepKinds
  BY <1>1 DEF LoggedAdvance, Advance, Transition, Record, One, StepKinds
<1>2. ASSUME NEW actor \in Actors, NEW verdict, LoggedRoute(verdict, actor)
      PROVE  StepKinds
  <2>1. PICK target : /\ <<state, verdict, target>> \in ROUTING
                      /\ CanTransition(state, Resolved(target))
                      /\ state' = Resolved(target)
                      /\ CountRepair(target)
                      /\ UNCHANGED <<approvals, pending, requestSeq>>
    BY <1>2 DEF LoggedRoute, Route, Routable
  <2>2. /\ One(actor, "ROUTED", state, state')
        /\ target = REPAIR => repairs < MaxRepair
    <3>1. One(actor, "ROUTED", state, state') /\ ~AtBound(verdict)
      BY <1>2 DEF LoggedRoute, Record, One
    <3>2. repairs \in Nat /\ MaxRepair \in Nat
      BY MaxRepairAssumption DEF TypeOK
    <3> QED
      BY <2>1, <3>1, <3>2 DEF AtBound
  <2>3. repairs' = IF state' = "IMPLEMENTATION" /\ state # "ROLLED_BACK"
                      THEN repairs + 1 ELSE repairs
    <3>1. CASE target = REPAIR
      BY <3>1, <2>1, <2>2, TablesFit, MaxRepairAssumption
         DEF CountRepair, Resolved, RepairOrEscalate, TypeOK
    <3>2. CASE target # REPAIR
      BY <3>2, <2>1, TablesFit DEF CountRepair, Resolved
    <3> QED
      BY <3>1, <3>2
  <2> QED
    BY <2>1, <2>2, <2>3 DEF StepKinds
<1>3. ASSUME NEW actor \in Actors, NEW verdict,
             LoggedRouteAtBound(verdict, actor)
      PROVE  StepKinds
  <2>1. PICK target : /\ <<state, verdict, target>> \in ROUTING
                      /\ CanTransition(state, Resolved(target))
                      /\ state' = Resolved(target)
                      /\ CountRepair(target)
                      /\ UNCHANGED <<approvals, pending, requestSeq>>
    BY <1>3 DEF LoggedRouteAtBound, Route, Routable
  <2>2. target = REPAIR /\ repairs >= MaxRepair
    BY <1>3, <2>1, RoutingIsFunctional DEF LoggedRouteAtBound, AtBound
  <2>3. state' = "ESCALATED" /\ repairs' = repairs
    BY <2>1, <2>2, MaxRepairAssumption
       DEF Resolved, RepairOrEscalate, CountRepair, TypeOK
  <2>4. Two(BoundEntry(actor), RoutedTo(actor, "ESCALATED"))
    BY <1>3, <2>3 DEF LoggedRouteAtBound, RecordBoth, Two, RoutedTo
  <2> QED
    BY <2>1, <2>2, <2>3, <2>4 DEF StepKinds
<1>4. ASSUME NEW actor \in Actors, NEW verdict,
             LoggedRouteRefused(verdict, actor)
      PROVE  StepKinds
  <2>1. PICK target : /\ <<state, verdict, target>> \in ROUTING
                      /\ \/ RecoveryDenied(actor) /\ UNCHANGED repairs
                         \/ /\ ~CanTransition(state, Resolved(target))
                            /\ CountRepair(target)
                      /\ UNCHANGED <<state, approvals, pending, requestSeq>>
    BY <1>4 DEF LoggedRouteRefused, RouteRefused, Routable
  <2>2. CASE RecoveryDenied(actor) /\ UNCHANGED repairs
    <3>1. ~AtBound(verdict)
      BY <2>2, TablesFit DEF RecoveryDenied, AtBound
    <3> QED
      BY <2>1, <2>2, <3>1, <1>4 DEF LoggedRouteRefused, StepKinds, Nothing
  <2>3. CASE ~CanTransition(state, Resolved(target)) /\ CountRepair(target)
    <3>1. /\ target = REPAIR
          /\ repairs >= MaxRepair
          /\ state = "HANDOFF_CHECKPOINT"
      BY <2>1, <2>3, TablesFit DEF Resolved, RepairOrEscalate
    <3>2. repairs' = repairs
      BY <2>3, <3>1, MaxRepairAssumption DEF CountRepair, TypeOK
    <3>3. One(actor, "ESCALATED", state, "ESCALATED")
      BY <1>4, <2>1, <3>1
         DEF LoggedRouteRefused, AtBound, Record, BoundEntry, One
    <3> QED
      BY <2>1, <3>1, <3>2, <3>3 DEF StepKinds
  <2> QED
    BY <2>1, <2>2, <2>3
<1>5. ASSUME NEW actor \in Actors, LoggedContinueAfterHumanGate(actor)
      PROVE  StepKinds
  BY <1>5 DEF LoggedContinueAfterHumanGate, ContinueAfterHumanGate,
              Transition, Record, One, StepKinds
<1>6. ASSUME NEW actor \in Actors, LoggedEscalate(actor) PROVE StepKinds
  BY <1>6 DEF LoggedEscalate, Escalate, Transition, Record, One, StepKinds
<1>7. ASSUME NEW gate \in HUMAN_GATES, LoggedRequestHumanApproval(gate)
      PROVE  StepKinds
  BY <1>7 DEF LoggedRequestHumanApproval, RequestHumanApproval, Record, One,
              StepKinds, TypeOK
<1>8. ASSUME NEW gate \in HUMAN_GATES, NEW approved \in BOOLEAN,
             NEW actor \in Actors,
             LoggedRecordHumanApproval(gate, approved, actor)
      PROVE  StepKinds
  BY <1>8 DEF LoggedRecordHumanApproval, RecordHumanApproval, Record, One,
              StepKinds, TypeOK
<1>9. ASSUME NEW actor \in Actors, RecordEvidence(actor) PROVE StepKinds
  BY <1>9 DEF RecordEvidence, Record, One, StepKinds, vars
<1>10. ASSUME NEW actor \in Actors, LoggedRejection(actor)
       PROVE  StepKinds
  <2>1. state = "HANDOFF_CHECKPOINT"
    BY <1>10 DEF LoggedRejection
  <2>2. \A t : <<"HANDOFF_CHECKPOINT", "REJECTED", t>> \in ROUTING
                => t = REPAIR
    BY DEF ROUTING, REPAIR
  <2>3. /\ CanTransition("HANDOFF_CHECKPOINT", "IMPLEMENTATION")
        /\ ~CanTransition("HANDOFF_CHECKPOINT", "ESCALATED")
    BY DEF CanTransition, TRANSITIONS
  <2>4. CASE /\ Route("REJECTED", actor)
             /\ RecordBoth(RejectionEntry(actor),
                           Entry(actor, "ROUTED", state, state'))
    <3>1. /\ CanTransition(state, Resolved(REPAIR))
          /\ state' = Resolved(REPAIR)
          /\ CountRepair(REPAIR)
          /\ UNCHANGED <<approvals, pending, requestSeq>>
      BY <2>1, <2>2, <2>4 DEF Route, Routable
    <3>2. repairs < MaxRepair /\ state' = "IMPLEMENTATION"
      BY <2>1, <2>3, <3>1, MaxRepairAssumption
         DEF Resolved, RepairOrEscalate, TypeOK
    <3>3. repairs' = repairs + 1
      BY <3>1, <3>2 DEF CountRepair
    <3>4. Two(RejectionEntry(actor), RoutedTo(actor, "IMPLEMENTATION"))
      BY <2>4, <3>2 DEF RecordBoth, Two, RoutedTo
    <3> QED
      BY <2>1, <3>1, <3>2, <3>3, <3>4 DEF StepKinds
  <2>5. CASE /\ RouteRefused("REJECTED", actor)
             /\ RecordBoth(RejectionEntry(actor), BoundEntry(actor))
    <3>1. /\ ~CanTransition(state, Resolved(REPAIR))
          /\ CountRepair(REPAIR)
          /\ UNCHANGED <<state, approvals, pending, requestSeq>>
      BY <2>1, <2>2, <2>5 DEF RouteRefused, Routable, RecoveryDenied
    <3>2. repairs >= MaxRepair
      BY <2>1, <2>3, <3>1, MaxRepairAssumption
         DEF Resolved, RepairOrEscalate, TypeOK
    <3>3. repairs' = repairs
      BY <3>1, <3>2, MaxRepairAssumption DEF CountRepair, TypeOK
    <3>4. Two(RejectionEntry(actor), BoundEntry(actor))
      BY <2>5 DEF RecordBoth, Two
    <3> QED
      BY <2>1, <3>1, <3>2, <3>3, <3>4 DEF StepKinds
  <2> QED
    BY <1>10, <2>4, <2>5 DEF LoggedRejection
<1> QED
  BY <1>1, <1>2, <1>3, <1>4, <1>5, <1>6, <1>7, <1>8, <1>9, <1>10
     DEF LoggedNext
-----------------------------------------------------------------------------
(* What appending does to the log, entry by entry. *)
LEMMA OneIsLonger ==
    ASSUME audit \in Seq(AuditEntry), NEW actor, NEW event, NEW before,
           NEW after, One(actor, event, before, after)
    PROVE  /\ Len(audit) \in Nat
           /\ Len(audit') = Len(audit) + 1
           /\ \A i \in 1 .. Len(audit) : audit'[i] = audit[i]
           /\ audit'[Len(audit) + 1] = Entry(actor, event, before, after)
BY DEF One, Entry

LEMMA TwoIsLonger ==
    ASSUME audit \in Seq(AuditEntry), NEW first, NEW second,
           Two(first, second)
    PROVE  /\ Len(audit) \in Nat
           /\ Len(audit') = Len(audit) + 2
           /\ \A i \in 1 .. Len(audit) : audit'[i] = audit[i]
           /\ audit'[Len(audit) + 1] = first
           /\ audit'[Len(audit) + 2] = second
BY DEF Two

(* The log holds entries: every step appends records of actors, events and
   states. *)
THEOREM LoggedTypeCorrect == LoggedSpec => []LoggedTypeOK
<1>1. LoggedInit => audit \in Seq(AuditEntry)
  BY DEF LoggedInit
<1>2. TypeOK /\ TypeOK' /\ audit \in Seq(AuditEntry) /\ [LoggedNext]_auditVars
         => (audit \in Seq(AuditEntry))'
  <2> SUFFICES ASSUME TypeOK, TypeOK', audit \in Seq(AuditEntry), LoggedNext
               PROVE  audit' \in Seq(AuditEntry)
    BY DEF auditVars
  <2>1. StepKinds
    BY StepsAreSorted
  <2>2. state \in STATES /\ state' \in STATES /\ "ESCALATED" \in STATES
    BY DEF TypeOK, STATES
  <2>3. ASSUME NEW actor \in Actors \cup {OPENCLAW_ROLE},
               NEW event \in EVENTS, NEW after \in STATES,
               One(actor, event, state, after)
        PROVE  audit' \in Seq(AuditEntry)
    <3>1. Entry(actor, event, state, after) \in AuditEntry
      BY <2>2 DEF Entry, AuditEntry
    <3> QED
      BY <2>3, <3>1 DEF One
  <2>4. ASSUME NEW first \in AuditEntry, NEW second \in AuditEntry,
               Two(first, second)
        PROVE  audit' \in Seq(AuditEntry)
    BY <2>4 DEF Two
  <2>5. ASSUME NEW actor \in Actors
        PROVE  /\ BoundEntry(actor) \in AuditEntry
               /\ RejectionEntry(actor) \in AuditEntry
               /\ RoutedTo(actor, "ESCALATED") \in AuditEntry
               /\ RoutedTo(actor, "IMPLEMENTATION") \in AuditEntry
    <3>1. "IMPLEMENTATION" \in STATES
      BY DEF STATES
    <3> QED
      BY <2>2, <3>1
         DEF BoundEntry, RejectionEntry, RoutedTo, Entry, AuditEntry, EVENTS
  <2> QED
    BY <2>1, <2>2, <2>3, <2>4, <2>5 DEF StepKinds, Nothing, EVENTS
<1>3. LoggedSpec => []TypeOK
  BY LoggedImplements, TypeCorrect, PTL
<1> QED
  BY <1>1, <1>2, <1>3, PTL DEF LoggedSpec, LoggedTypeOK
-----------------------------------------------------------------------------
(* The i-th entry of the log tells the truth: its move is legal and was made,
   or it asked or answered in place, or it announced an escalation that the
   repair bound called for. *)
EntryIsTrue(i) ==
    \/ /\ StateAfter(i) = audit[i].state_after
       /\ \/ CanTransition(audit[i].state_before, audit[i].state_after)
          \/ /\ audit[i].state_before = audit[i].state_after
             /\ audit[i].event \in STANDING_EVENTS
    \/ /\ StateAfter(i) = audit[i].state_before
       /\ OnlyAnnounced(i)

(* A true entry stays true when the log grows behind it by entries that start
   in the state of that moment: the counter it refers to never goes down. *)
LEMMA TruthLasts ==
    ASSUME audit \in Seq(AuditEntry), TypeOK, NEW i \in 1 .. Len(audit),
           EntryIsTrue(i),
           Len(audit') \in Nat, Len(audit') > Len(audit),
           \A j \in 1 .. Len(audit) : audit'[j] = audit[j],
           audit'[Len(audit) + 1].state_before = state,
           repairs' \in Nat, repairs' >= repairs
    PROVE  EntryIsTrue(i)'
<1>1. Len(audit) \in Nat /\ repairs \in Nat /\ MaxRepair \in Nat
  BY MaxRepairAssumption DEF TypeOK
<1>2. StateAfter(i)' = StateAfter(i)
  <2>1. CASE i < Len(audit)
    BY <1>1, <2>1 DEF StateAfter
  <2>2. CASE i = Len(audit)
    BY <1>1, <2>2 DEF StateAfter
  <2> QED
    BY <1>1, <2>1, <2>2
<1>3. OnlyAnnounced(i) => OnlyAnnounced(i)'
  BY <1>1 DEF OnlyAnnounced
<1>4. audit'[i] = audit[i]
  OBVIOUS
<1> QED
  BY <1>2, <1>3, <1>4 DEF EntryIsTrue

(* The log is the walk the workflow made, for any callers and any length of
   history: nothing moves without an entry, no entry tells of a move that is
   not legal, and the only entries that may tell of a move that was not made
   are escalations announced at the repair bound. *)
THEOREM LogTellsTheWalk == LoggedSpec => []LogIsTheWalk
<1>1. LoggedInit => LogIsTheWalk
  <2> SUFFICES ASSUME LoggedInit PROVE LogIsTheWalk
    OBVIOUS
  <2>1. audit = << >> /\ Len(audit) = 0 /\ state \in InitialStates
    BY DEF LoggedInit, Init
  <2>2. \A i \in 1 .. Len(audit) : FALSE
    BY <2>1
  <2> QED
    BY <2>1, <2>2 DEF LogIsTheWalk
<1>2. LoggedTypeOK /\ LoggedTypeOK' /\ LogIsTheWalk /\ [LoggedNext]_auditVars
         => LogIsTheWalk'
  <2> SUFFICES ASSUME LoggedTypeOK, LoggedTypeOK', LogIsTheWalk,
                      [LoggedNext]_auditVars
               PROVE  LogIsTheWalk'
    OBVIOUS
  <2>1. /\ audit \in Seq(AuditEntry)
        /\ TypeOK
        /\ repairs \in Nat /\ repairs' \in Nat
        /\ Len(audit) \in Nat
    BY MaxRepairAssumption DEF LoggedTypeOK, TypeOK
  <2>2. \A i \in 1 .. Len(audit) : EntryIsTrue(i)
    BY DEF LogIsTheWalk, EntryIsTrue
  <2>3. ASSUME audit' = audit, state' = state, repairs' = repairs
        PROVE  LogIsTheWalk'
    BY <2>3 DEF LogIsTheWalk, StateAfter, OnlyAnnounced
  <2>4. ASSUME NEW actor, NEW event, NEW after,
               One(actor, event, state, after), repairs' >= repairs,
               \/ /\ state' = after
                  /\ \/ CanTransition(state, after)
                     \/ /\ after = state
                        /\ event \in STANDING_EVENTS
               \/ /\ state' = state /\ event = "ESCALATED"
                  /\ state = "HANDOFF_CHECKPOINT" /\ repairs' >= MaxRepair
        PROVE  LogIsTheWalk'
    <3>1. PICK n \in Nat : n = Len(audit)
      BY <2>1
    <3>2. /\ Len(audit') = n + 1
          /\ \A i \in 1 .. n : audit'[i] = audit[i]
          /\ audit'[n + 1].event = event
          /\ audit'[n + 1].state_before = state
          /\ audit'[n + 1].state_after = after
      <4>1. /\ Len(audit') = n + 1
            /\ \A i \in 1 .. n : audit'[i] = audit[i]
            /\ audit'[n + 1] = Entry(actor, event, state, after)
        BY <2>1, <2>4, <3>1, OneIsLonger
      <4> QED
        BY <4>1 DEF Entry
    <3>3. \A i \in 1 .. n : EntryIsTrue(i)'
      BY <2>1, <2>2, <2>4, <3>1, <3>2, TruthLasts
    <3>4. StateAfter(n + 1)' = state'
      BY <3>2 DEF StateAfter
    <3>5. event = "ESCALATED" /\ state = "HANDOFF_CHECKPOINT"
            /\ repairs' >= MaxRepair => OnlyAnnounced(n + 1)'
      BY <3>2 DEF OnlyAnnounced
    <3>6. EntryIsTrue(n + 1)'
      BY <2>4, <3>2, <3>4, <3>5 DEF EntryIsTrue
    <3>7. audit'[1].state_before \in InitialStates
      <4>1. CASE n = 0
        BY <2>1, <3>1, <3>2, <4>1 DEF LogIsTheWalk
      <4>2. CASE n > 0
        BY <2>1, <3>1, <3>2, <4>2 DEF LogIsTheWalk
      <4> QED
        BY <4>1, <4>2
    <3>8. \A i \in 1 .. n + 1 : EntryIsTrue(i)'
      BY <3>3, <3>6
    <3> QED
      BY <3>2, <3>7, <3>8 DEF LogIsTheWalk, EntryIsTrue
  <2>5. ASSUME NEW first, NEW second, Two(first, second),
               first.state_before = state, second.state_before = state,
               repairs' >= repairs,
               \/ /\ first.event = "ESCALATED" /\ repairs' >= MaxRepair
                  /\ second.event = "ROUTED"
                  /\ second.state_after = "ESCALATED"
               \/ /\ first.event = "HANDOFF_REJECTED"
                  /\ \/ /\ second.event = "ROUTED"
                        /\ second.state_after = first.state_after
                     \/ second.event = "ESCALATED" /\ repairs' >= MaxRepair,
               \/ /\ state' = second.state_after
                  /\ CanTransition(state, second.state_after)
               \/ /\ state' = state /\ second.event = "ESCALATED"
                  /\ state = "HANDOFF_CHECKPOINT" /\ repairs' >= MaxRepair
        PROVE  LogIsTheWalk'
    <3>1. PICK n \in Nat : n = Len(audit)
      BY <2>1
    <3>2. /\ Len(audit') = n + 2
          /\ \A i \in 1 .. n : audit'[i] = audit[i]
          /\ audit'[n + 1] = first
          /\ audit'[n + 2] = second
      BY <2>1, <2>5, <3>1, TwoIsLonger
    <3>3. \A i \in 1 .. n : EntryIsTrue(i)'
      BY <2>1, <2>2, <2>5, <3>1, <3>2, TruthLasts
    <3>4. EntryIsTrue(n + 1)'
      <4>1. StateAfter(n + 1)' = state
        BY <2>5, <3>2 DEF StateAfter
      <4>2. OnlyAnnounced(n + 1)'
        BY <2>5, <3>2 DEF OnlyAnnounced
      <4> QED
        BY <2>5, <3>2, <4>1, <4>2 DEF EntryIsTrue
    <3>5. EntryIsTrue(n + 2)'
      <4>1. StateAfter(n + 2)' = state'
        BY <3>2 DEF StateAfter
      <4>2. second.event = "ESCALATED" /\ state = "HANDOFF_CHECKPOINT"
              /\ repairs' >= MaxRepair => OnlyAnnounced(n + 2)'
        BY <2>5, <3>2 DEF OnlyAnnounced
      <4> QED
        BY <2>5, <3>2, <4>1, <4>2 DEF EntryIsTrue
    <3>6. audit'[1].state_before \in InitialStates
      <4>1. CASE n = 0
        BY <2>1, <2>5, <3>1, <3>2, <4>1 DEF LogIsTheWalk
      <4>2. CASE n > 0
        BY <2>1, <3>1, <3>2, <4>2 DEF LogIsTheWalk
      <4> QED
        BY <4>1, <4>2
    <3>7. \A i \in 1 .. n + 2 : EntryIsTrue(i)'
      BY <3>3, <3>4, <3>5
    <3> QED
      BY <3>2, <3>6, <3>7 DEF LogIsTheWalk, EntryIsTrue
  <2>6. CASE LoggedNext
    <3>1. StepKinds
      BY <2>1, <2>6, StepsAreSorted
    <3>2. ASSUME NEW actor, Two(BoundEntry(actor), RoutedTo(actor, "ESCALATED")),
                 state' = "ESCALATED", CanTransition(state, state'),
                 repairs >= MaxRepair, repairs' = repairs
          PROVE  LogIsTheWalk'
      <4>1. /\ BoundEntry(actor).state_before = state
            /\ BoundEntry(actor).event = "ESCALATED"
            /\ RoutedTo(actor, "ESCALATED").state_before = state
            /\ RoutedTo(actor, "ESCALATED").event = "ROUTED"
            /\ RoutedTo(actor, "ESCALATED").state_after = "ESCALATED"
        BY DEF BoundEntry, RoutedTo, Entry
      <4>2. repairs' >= repairs /\ repairs' >= MaxRepair
        BY <2>1, <3>2
      <4> QED
        BY <2>5, <3>2, <4>1, <4>2
    <3>3. ASSUME NEW actor,
                 Two(RejectionEntry(actor), RoutedTo(actor, "IMPLEMENTATION")),
                 state = "HANDOFF_CHECKPOINT", state' = "IMPLEMENTATION",
                 repairs' = repairs + 1
          PROVE  LogIsTheWalk'
      <4>1. CanTransition(state, "IMPLEMENTATION") /\ repairs' >= repairs
        BY <2>1, <3>3 DEF CanTransition, TRANSITIONS
      <4>2. /\ RejectionEntry(actor).state_before = state
            /\ RejectionEntry(actor).event = "HANDOFF_REJECTED"
            /\ RejectionEntry(actor).state_after = "IMPLEMENTATION"
            /\ RoutedTo(actor, "IMPLEMENTATION").state_before = state
            /\ RoutedTo(actor, "IMPLEMENTATION").event = "ROUTED"
            /\ RoutedTo(actor, "IMPLEMENTATION").state_after
                  = "IMPLEMENTATION"
        BY DEF RejectionEntry, RoutedTo, Entry
      <4> QED
        BY <2>5, <3>3, <4>1, <4>2
    <3>4. ASSUME NEW actor, Two(RejectionEntry(actor), BoundEntry(actor)),
                 state = "HANDOFF_CHECKPOINT", state' = state,
                 repairs >= MaxRepair, repairs' = repairs
          PROVE  LogIsTheWalk'
      <4>1. /\ RejectionEntry(actor).state_before = state
            /\ RejectionEntry(actor).event = "HANDOFF_REJECTED"
            /\ BoundEntry(actor).state_before = state
            /\ BoundEntry(actor).event = "ESCALATED"
        BY DEF RejectionEntry, BoundEntry, Entry
      <4>2. repairs' >= repairs /\ repairs' >= MaxRepair
        BY <2>1, <3>4
      <4> QED
        BY <2>5, <3>4, <4>1, <4>2
    <3> QED
      BY <2>1, <2>3, <2>4, <3>1, <3>2, <3>3, <3>4
         DEF StepKinds, Nothing, STANDING_EVENTS
  <2> QED
    BY <2>3, <2>6 DEF auditVars
<1> QED
  BY <1>1, <1>2, LoggedTypeCorrect, PTL DEF LoggedSpec
-----------------------------------------------------------------------------
(* How one more entry changes the sets of positions the counters are compared
   with. *)
LEMMA PositionsAfterOne ==
    ASSUME audit \in Seq(AuditEntry), NEW actor, NEW event, NEW after,
           One(actor, event, state, after)
    PROVE  /\ \A e : EntriesOf(e)' = IF e = event
                                      THEN EntriesOf(e) \cup {Len(audit) + 1}
                                      ELSE EntriesOf(e)
           /\ RepairEntries' = IF /\ event = "ROUTED"
                                  /\ after = "IMPLEMENTATION"
                                  /\ state # "ROLLED_BACK"
                                 THEN RepairEntries \cup {Len(audit) + 1}
                                 ELSE RepairEntries
<1>1. PICK n \in Nat : n = Len(audit)
  OBVIOUS
<1>2. /\ Len(audit') = n + 1
      /\ \A i \in 1 .. n : audit'[i] = audit[i]
      /\ audit'[n + 1] = Entry(actor, event, state, after)
  BY <1>1, OneIsLonger
<1>3. /\ audit'[n + 1].event = event
      /\ audit'[n + 1].state_before = state
      /\ audit'[n + 1].state_after = after
  BY <1>2 DEF Entry
<1>4. \A i : i \in 1 .. n + 1 <=> i \in 1 .. n \/ i = n + 1
  OBVIOUS
<1>5. \A e, i : i \in EntriesOf(e)' <=>
         i \in EntriesOf(e) \/ (e = event /\ i = n + 1)
  BY <1>1, <1>2, <1>3, <1>4 DEF EntriesOf
<1>6. \A i : i \in RepairEntries' <=>
         \/ i \in RepairEntries
         \/ /\ event = "ROUTED"
            /\ after = "IMPLEMENTATION"
            /\ state # "ROLLED_BACK"
            /\ i = n + 1
  BY <1>1, <1>2, <1>3, <1>4 DEF RepairEntries
<1>7. ASSUME NEW e
      PROVE  EntriesOf(e)' = IF e = event
                                THEN EntriesOf(e) \cup {Len(audit) + 1}
                                ELSE EntriesOf(e)
  <2>1. CASE e = event
    BY <1>1, <1>5, <2>1
  <2>2. CASE e # event
    <3>1. \A i : i \in EntriesOf(e)' <=> i \in EntriesOf(e)
      BY <1>5, <2>2
    <3>2. EntriesOf(e)' = EntriesOf(e)
      BY <3>1 DEF EntriesOf
    <3> QED
      BY <2>2, <3>2
  <2> QED
    BY <2>1, <2>2
<1>8. CASE /\ event = "ROUTED"
           /\ after = "IMPLEMENTATION"
           /\ state # "ROLLED_BACK"
  <2>1. RepairEntries' = RepairEntries \cup {Len(audit) + 1}
    BY <1>1, <1>6, <1>8
  <2> QED
    BY <1>7, <1>8, <2>1
<1>9. CASE ~ /\ event = "ROUTED"
             /\ after = "IMPLEMENTATION"
             /\ state # "ROLLED_BACK"
  <2>1. RepairEntries' = RepairEntries
    BY <1>6, <1>9
  <2> QED
    BY <1>7, <1>9, <2>1
<1> QED
  BY <1>8, <1>9

(* How two more entries change them, when the first is neither a request, nor
   an answer, nor a move, and the second neither a request nor an answer. *)
LEMMA PositionsAfterTwo ==
    ASSUME audit \in Seq(AuditEntry), NEW first, NEW second,
           Two(first, second),
           first.event \in {"ESCALATED", "HANDOFF_REJECTED"},
           second.event \in {"ESCALATED", "ROUTED"}
    PROVE  /\ \A e \in {"APPROVAL_REQUESTED", "APPROVAL_RECORDED"} :
                 EntriesOf(e)' = EntriesOf(e)
           /\ /\ second.event = "ROUTED"
              /\ second.state_after = "IMPLEMENTATION"
              /\ second.state_before # "ROLLED_BACK"
              => RepairEntries' = RepairEntries \cup {Len(audit) + 2}
           /\ \/ second.event = "ESCALATED"
              \/ second.state_after = "ESCALATED"
              => RepairEntries' = RepairEntries
<1>1. PICK n \in Nat : n = Len(audit)
  OBVIOUS
<1>2. /\ Len(audit') = n + 2
      /\ \A i \in 1 .. n : audit'[i] = audit[i]
      /\ audit'[n + 1] = first
      /\ audit'[n + 2] = second
  BY <1>1, TwoIsLonger
<1>3. \A i : i \in 1 .. n + 2 <=> i \in 1 .. n \/ i = n + 1 \/ i = n + 2
  OBVIOUS
<1>4. \A e \in {"APPROVAL_REQUESTED", "APPROVAL_RECORDED"} : \A i :
         i \in EntriesOf(e)' <=> i \in EntriesOf(e)
  BY <1>1, <1>2, <1>3 DEF EntriesOf
<1>5. \A i : i \in RepairEntries' <=>
         \/ i \in RepairEntries
         \/ /\ second.event = "ROUTED"
            /\ second.state_after = "IMPLEMENTATION"
            /\ second.state_before # "ROLLED_BACK"
            /\ i = n + 2
  BY <1>1, <1>2, <1>3 DEF RepairEntries
<1>6. ASSUME second.event = "ROUTED", second.state_after = "IMPLEMENTATION",
             second.state_before # "ROLLED_BACK"
      PROVE  RepairEntries' = RepairEntries \cup {Len(audit) + 2}
  BY <1>1, <1>5, <1>6
<1>7. ASSUME second.event = "ESCALATED" \/ second.state_after = "ESCALATED"
      PROVE  RepairEntries' = RepairEntries
  BY <1>5, <1>7
<1> QED
  BY <1>4, <1>6, <1>7

(* The sets of positions are finite, and the next position is in none. *)
LEMMA PositionsCount ==
    ASSUME audit \in Seq(AuditEntry)
    PROVE  /\ Cardinality(RepairEntries) \in Nat
           /\ Cardinality(RepairEntries \cup {Len(audit) + 1})
                 = Cardinality(RepairEntries) + 1
           /\ Cardinality(RepairEntries \cup {Len(audit) + 2})
                 = Cardinality(RepairEntries) + 1
           /\ \A e : /\ Cardinality(EntriesOf(e)) \in Nat
                     /\ Cardinality(EntriesOf(e) \cup {Len(audit) + 1})
                           = Cardinality(EntriesOf(e)) + 1
<1>1. Len(audit) \in Nat
  OBVIOUS
<1>2. RepairEntries \in SUBSET (1 .. Len(audit))
  BY DEF RepairEntries
<1>3. \A e : EntriesOf(e) \in SUBSET (1 .. Len(audit))
  BY DEF EntriesOf
<1>4. PICK n \in Nat : n = Len(audit)
  BY <1>1
<1>5. n + 1 \in Nat /\ n + 1 > n /\ n + 2 \in Nat /\ n + 2 > n
  OBVIOUS
<1> QED
  BY <1>2, <1>3, <1>4, <1>5, CountOneMore

(* The repair counter is the number of ROUTED entries that sent a gate's work
   back to IMPLEMENTATION, for every bound and every history. *)
THEOREM RepairCounterIsLogged == LoggedSpec => []RepairsAreLogged
<1>1. LoggedInit => RepairsAreLogged
  <2> SUFFICES ASSUME LoggedInit PROVE RepairsAreLogged
    OBVIOUS
  <2>1. repairs = 0 /\ Len(audit) = 0
    BY DEF LoggedInit, Init
  <2>2. RepairEntries = {}
    BY <2>1 DEF RepairEntries
  <2> QED
    BY <2>1, <2>2, FS_EmptySet DEF RepairsAreLogged
<1>2. LoggedTypeOK /\ RepairsAreLogged /\ [LoggedNext]_auditVars
         => RepairsAreLogged'
  <2> SUFFICES ASSUME LoggedTypeOK, RepairsAreLogged,
                      [LoggedNext]_auditVars
               PROVE  RepairsAreLogged'
    OBVIOUS
  <2>1. audit \in Seq(AuditEntry) /\ TypeOK
    BY DEF LoggedTypeOK
  <2>2. ASSUME audit' = audit, repairs' = repairs PROVE RepairsAreLogged'
    BY <2>2 DEF RepairsAreLogged, RepairEntries
  <2>3. ASSUME NEW actor, NEW event, NEW after,
               One(actor, event, state, after),
               repairs' = IF /\ event = "ROUTED"
                             /\ after = "IMPLEMENTATION"
                             /\ state # "ROLLED_BACK"
                            THEN repairs + 1 ELSE repairs
        PROVE  RepairsAreLogged'
    BY <2>1, <2>3, PositionsAfterOne, PositionsCount DEF RepairsAreLogged
  <2>4. ASSUME NEW actor, repairs' = repairs,
               \/ Two(BoundEntry(actor), RoutedTo(actor, "ESCALATED"))
               \/ Two(RejectionEntry(actor), BoundEntry(actor))
        PROVE  RepairsAreLogged'
    <3>1. CASE Two(BoundEntry(actor), RoutedTo(actor, "ESCALATED"))
      <4>1. RepairEntries' = RepairEntries
        BY <2>1, <3>1, PositionsAfterTwo DEF BoundEntry, RoutedTo, Entry
      <4> QED
        BY <2>4, <4>1 DEF RepairsAreLogged
    <3>2. CASE Two(RejectionEntry(actor), BoundEntry(actor))
      <4>1. RepairEntries' = RepairEntries
        BY <2>1, <3>2, PositionsAfterTwo
           DEF RejectionEntry, BoundEntry, Entry
      <4> QED
        BY <2>4, <4>1 DEF RepairsAreLogged
    <3> QED
      BY <2>4, <3>1, <3>2
  <2>5. ASSUME NEW actor, state = "HANDOFF_CHECKPOINT",
               repairs' = repairs + 1,
               Two(RejectionEntry(actor), RoutedTo(actor, "IMPLEMENTATION"))
        PROVE  RepairsAreLogged'
    <3>1. RepairEntries' = RepairEntries \cup {Len(audit) + 2}
      BY <2>1, <2>5, PositionsAfterTwo DEF RejectionEntry, RoutedTo, Entry
    <3> QED
      BY <2>1, <2>5, <3>1, PositionsCount DEF RepairsAreLogged
  <2>6. CASE LoggedNext
    <3>1. StepKinds
      BY <2>1, <2>6, StepsAreSorted
    <3> QED
      BY <2>2, <2>3, <2>4, <2>5, <3>1 DEF StepKinds, Nothing
  <2> QED
    BY <2>2, <2>6 DEF auditVars
<1> QED
  BY <1>1, <1>2, LoggedTypeCorrect, PTL DEF LoggedSpec
-----------------------------------------------------------------------------
OpenRequests == {g \in HUMAN_GATES : pending[g] # 0}

LEMMA OpenRequestsCount ==
    /\ IsFiniteSet(HUMAN_GATES)
    /\ IsFiniteSet(OpenRequests)
    /\ Cardinality(OpenRequests) \in Nat
<1>1. IsFiniteSet(HUMAN_GATES)
  BY FS_EmptySet, FS_AddElement, HUMAN_GATES =
       ({} \cup {"HUMAN_APPROVAL"}) \cup {"HUMAN_RELEASE_APPROVAL"}
     DEF HUMAN_GATES
<1>2. IsFiniteSet(OpenRequests)
  BY <1>1, FS_Subset DEF OpenRequests
<1> QED
  BY <1>1, <1>2, FS_CardinalityType

(* The log holds one entry for each request that was made, and an answer for
   at most each request that is no longer open, whatever order requests,
   answers and moves come in. *)
THEOREM ApprovalCallsAreLogged == LoggedSpec => []ApprovalsAreLogged
<1>1. LoggedInit => ApprovalsAreLogged
  <2> SUFFICES ASSUME LoggedInit PROVE ApprovalsAreLogged
    OBVIOUS
  <2>1. requestSeq = 0 /\ Len(audit) = 0
    BY DEF LoggedInit, Init
  <2>2. \A e : EntriesOf(e) = {}
    BY <2>1 DEF EntriesOf
  <2>3. OpenRequests = {}
    BY DEF LoggedInit, Init, OpenRequests
  <2>4. /\ Cardinality(EntriesOf("APPROVAL_REQUESTED")) = 0
        /\ Cardinality(EntriesOf("APPROVAL_RECORDED")) = 0
        /\ Cardinality(OpenRequests) = 0
    BY <2>2, <2>3, FS_EmptySet
  <2> QED
    BY <2>1, <2>4 DEF ApprovalsAreLogged, OpenRequests
<1>2. LoggedTypeOK /\ ApprovalsAreLogged /\ [LoggedNext]_auditVars
         => ApprovalsAreLogged'
  <2> SUFFICES ASSUME LoggedTypeOK, ApprovalsAreLogged,
                      [LoggedNext]_auditVars
               PROVE  ApprovalsAreLogged'
    OBVIOUS
  <2>1. audit \in Seq(AuditEntry) /\ TypeOK /\ requestSeq \in Nat
    BY MaxRequestsAssumption DEF LoggedTypeOK, TypeOK
  <2>2. ApprovalsAreLogged <=>
          /\ requestSeq = Cardinality(EntriesOf("APPROVAL_REQUESTED"))
          /\ Cardinality(EntriesOf("APPROVAL_RECORDED"))
               + Cardinality(OpenRequests) <= requestSeq
    BY DEF ApprovalsAreLogged, OpenRequests
  <2>3. ASSUME \A e \in {"APPROVAL_REQUESTED", "APPROVAL_RECORDED"} :
                  EntriesOf(e)' = EntriesOf(e),
               UNCHANGED <<pending, requestSeq>>
        PROVE  ApprovalsAreLogged'
    BY <2>2, <2>3 DEF ApprovalsAreLogged
  <2>4. ASSUME NEW gate \in HUMAN_GATES,
               One(OPENCLAW_ROLE, "APPROVAL_REQUESTED", state, state),
               requestSeq' = requestSeq + 1,
               \A g \in HUMAN_GATES \ {gate} : pending'[g] = pending[g]
        PROVE  ApprovalsAreLogged'
    <3>1. /\ EntriesOf("APPROVAL_REQUESTED")'
               = EntriesOf("APPROVAL_REQUESTED") \cup {Len(audit) + 1}
          /\ EntriesOf("APPROVAL_RECORDED")' = EntriesOf("APPROVAL_RECORDED")
      BY <2>1, <2>4, PositionsAfterOne
    <3>2. /\ Cardinality(OpenRequests)' \in Nat
          /\ Cardinality(OpenRequests)' <= Cardinality(OpenRequests) + 1
      <4>1. OpenRequests' \in SUBSET (OpenRequests \cup {gate})
        BY <2>4 DEF OpenRequests
      <4>2. /\ IsFiniteSet(OpenRequests \cup {gate})
            /\ Cardinality(OpenRequests \cup {gate})
                  <= Cardinality(OpenRequests) + 1
        BY OpenRequestsCount, FS_AddElement
      <4>3. /\ Cardinality(OpenRequests') \in Nat
            /\ Cardinality(OpenRequests')
                  <= Cardinality(OpenRequests \cup {gate})
        BY <4>1, <4>2, FS_Subset, FS_CardinalityType
      <4>4. Cardinality(OpenRequests \cup {gate}) \in Nat
        BY <4>2, FS_CardinalityType
      <4> QED
        BY <4>2, <4>3, <4>4, OpenRequestsCount
    <3>3. /\ Cardinality(EntriesOf("APPROVAL_REQUESTED"))'
               = Cardinality(EntriesOf("APPROVAL_REQUESTED")) + 1
          /\ Cardinality(EntriesOf("APPROVAL_RECORDED"))'
               = Cardinality(EntriesOf("APPROVAL_RECORDED"))
          /\ Cardinality(EntriesOf("APPROVAL_RECORDED")) \in Nat
      BY <2>1, <3>1, PositionsCount
    <3> QED
      BY <2>1, <2>2, <2>4, <3>2, <3>3, OpenRequestsCount
         DEF ApprovalsAreLogged, OpenRequests
  <2>5. ASSUME NEW gate \in HUMAN_GATES, NEW actor,
               One(actor, "APPROVAL_RECORDED", state, state),
               pending[gate] # 0, pending'[gate] = 0,
               \A g \in HUMAN_GATES \ {gate} : pending'[g] = pending[g],
               requestSeq' = requestSeq
        PROVE  ApprovalsAreLogged'
    <3>1. /\ EntriesOf("APPROVAL_RECORDED")'
               = EntriesOf("APPROVAL_RECORDED") \cup {Len(audit) + 1}
          /\ EntriesOf("APPROVAL_REQUESTED")'
               = EntriesOf("APPROVAL_REQUESTED")
      BY <2>1, <2>5, PositionsAfterOne
    <3>2. Cardinality(OpenRequests') = Cardinality(OpenRequests) - 1
      <4>1. OpenRequests' = OpenRequests \ {gate} /\ gate \in OpenRequests
        BY <2>5 DEF OpenRequests
      <4> QED
        BY <4>1, OpenRequestsCount, FS_RemoveElement
    <3>3. /\ Cardinality(EntriesOf("APPROVAL_RECORDED"))'
               = Cardinality(EntriesOf("APPROVAL_RECORDED")) + 1
          /\ Cardinality(EntriesOf("APPROVAL_REQUESTED"))'
               = Cardinality(EntriesOf("APPROVAL_REQUESTED"))
          /\ Cardinality(EntriesOf("APPROVAL_RECORDED")) \in Nat
      BY <2>1, <3>1, PositionsCount
    <3> QED
      BY <2>1, <2>2, <2>5, <3>2, <3>3, OpenRequestsCount
         DEF ApprovalsAreLogged, OpenRequests
  <2>6. CASE LoggedNext
    <3>1. StepKinds
      BY <2>1, <2>6, StepsAreSorted
    <3>2. ASSUME NEW actor, NEW event, NEW after,
                 One(actor, event, state, after),
                 event \notin {"APPROVAL_REQUESTED", "APPROVAL_RECORDED"},
                 UNCHANGED <<pending, requestSeq>>
          PROVE  ApprovalsAreLogged'
      BY <2>1, <2>3, <3>2, PositionsAfterOne
    <3>3. ASSUME NEW first, NEW second, Two(first, second),
                 first.event \in {"ESCALATED", "HANDOFF_REJECTED"},
                 second.event \in {"ESCALATED", "ROUTED"},
                 UNCHANGED <<pending, requestSeq>>
          PROVE  ApprovalsAreLogged'
      BY <2>1, <2>3, <3>3, PositionsAfterTwo
    <3>4. ASSUME Nothing, UNCHANGED <<pending, requestSeq>>
          PROVE  ApprovalsAreLogged'
      BY <2>3, <3>4 DEF Nothing, EntriesOf
    <3>5. ASSUME NEW actor
          PROVE  /\ BoundEntry(actor).event = "ESCALATED"
                 /\ RejectionEntry(actor).event = "HANDOFF_REJECTED"
                 /\ \A t : RoutedTo(actor, t).event = "ROUTED"
      BY DEF BoundEntry, RejectionEntry, RoutedTo, Entry
    <3> QED
      BY <2>4, <2>5, <3>1, <3>2, <3>3, <3>4, <3>5 DEF StepKinds
  <2>7. CASE UNCHANGED auditVars
    BY <2>3, <2>7 DEF auditVars, EntriesOf
  <2> QED
    BY <2>6, <2>7
<1> QED
  BY <1>1, <1>2, LoggedTypeCorrect, PTL DEF LoggedSpec
-----------------------------------------------------------------------------
(* How far along the way a state is: its station, and for ROLLED_BACK that of
   the last state it is entered from. *)
Height(s) == IF s = "ROLLED_BACK" THEN 13 ELSE STATION[s]

(* No transition climbs by more than one station, and only from a station. *)
LEMMA NoTransitionJumps ==
    /\ \A s \in STATES : /\ STATION[s] \in 0 .. 14 /\ Height(s) \in 0 .. 14
                         /\ STATION[s] <= Height(s)
                         /\ STATION[s] # 0 => STATION[s] = Height(s)
    /\ \A s, t : CanTransition(s, t) =>
          /\ s \in STATES /\ t \in STATES
          /\ \/ Height(t) <= Height(s)
             \/ Height(t) = Height(s) + 1 /\ STATION[s] = Height(s)
<1>1. \A s \in STATES : /\ STATION[s] \in 0 .. 14 /\ Height(s) \in 0 .. 14
                        /\ STATION[s] <= Height(s)
                        /\ STATION[s] # 0 => STATION[s] = Height(s)
  BY DEF STATES, STATION, Height
<1>2. \A s, t : CanTransition(s, t) => s \in STATES /\ t \in STATES
  BY DEF CanTransition, TRANSITIONS, STATES
<1>3. \A s, t : CanTransition(s, t) =>
         \/ Height(t) <= Height(s)
         \/ Height(t) = Height(s) + 1 /\ STATION[s] = Height(s)
  BY DEF CanTransition, TRANSITIONS, STATION, Height
<1> QED
  BY <1>1, <1>2, <1>3

(* NoStationIsSkipped of a walk of n steps, in the form that is inductive: what
   ROLLED_BACK was entered from counts as reached. *)
WalkedUp(walk, n) ==
    \A i, j \in 0 .. n :
       i <= j /\ STATION[walk[i]] # 0 =>
          \A b \in STATION[walk[i]] + 1 .. Height(walk[j]) - 1 :
             \E k \in i .. j : STATION[walk[k]] = b

(* One step more, or none. *)
LEMMA OneStepMore ==
    ASSUME NEW n \in Nat, NEW walk, NEW longer, WalkedUp(walk, n),
           \A k \in 0 .. n : walk[k] \in STATES /\ longer[k] = walk[k],
           longer[n + 1] \in STATES,
           longer[n + 1] = walk[n] \/ CanTransition(walk[n], longer[n + 1])
    PROVE  WalkedUp(longer, n + 1)
<1> SUFFICES ASSUME NEW i \in 0 .. n + 1, NEW j \in 0 .. n + 1, i <= j,
                    STATION[longer[i]] # 0,
                    NEW b \in STATION[longer[i]] + 1 .. Height(longer[j]) - 1
             PROVE  \E k \in i .. j : STATION[longer[k]] = b
  BY DEF WalkedUp
<1>1. ASSUME i <= n, NEW l \in 0 .. n, i <= l, l <= j,
             b \in STATION[walk[i]] + 1 .. Height(walk[l]) - 1
      PROVE  \E k \in i .. j : STATION[longer[k]] = b
  <2>1. i \in 0 .. n /\ longer[i] = walk[i]
    BY <1>1
  <2>2. PICK k \in i .. l : STATION[walk[k]] = b
    BY <1>1, <2>1 DEF WalkedUp
  <2>3. k \in i .. j /\ k \in 0 .. n
    BY <1>1
  <2> QED
    BY <2>2, <2>3
<1>2. CASE j <= n
  <2>1. i \in 0 .. n /\ j \in 0 .. n
    BY <1>2
  <2> QED
    BY <1>1, <2>1
<1>3. CASE j = n + 1 /\ i <= n
  <2>1. i \in 0 .. n /\ n \in 0 .. n /\ longer[i] = walk[i]
    BY <1>3
  <2>2. /\ walk[i] \in STATES /\ walk[n] \in STATES /\ longer[j] \in STATES
        /\ longer[j] = walk[n] \/ CanTransition(walk[n], longer[j])
    BY <1>3, <2>1
  <2>3. /\ STATION[walk[i]] \in Nat /\ Height(walk[n]) \in Nat
        /\ Height(longer[j]) \in Nat
        /\ \/ Height(longer[j]) <= Height(walk[n])
           \/ /\ Height(longer[j]) = Height(walk[n]) + 1
              /\ STATION[walk[n]] = Height(walk[n])
    BY <2>2, NoTransitionJumps
  <2>4. CASE b < Height(walk[n])
    <3>1. b \in STATION[walk[i]] + 1 .. Height(walk[n]) - 1
      BY <2>1, <2>3, <2>4
    <3> QED
      BY <1>1, <1>3, <2>1, <3>1
  <2>5. CASE b >= Height(walk[n])
    <3>1. b = STATION[walk[n]]
      BY <2>1, <2>3, <2>5
    <3>2. n \in i .. j /\ longer[n] = walk[n]
      BY <1>3, <2>1
    <3> QED
      BY <3>1, <3>2
  <2> QED
    BY <2>3, <2>4, <2>5
<1>4. CASE i = n + 1
  <2>1. i = j /\ longer[i] \in STATES
    BY <1>4
  <2>2. STATION[longer[i]] = Height(longer[j]) /\ Height(longer[j]) \in Nat
    BY <2>1, NoTransitionJumps
  <2> QED
    BY <2>2
<1> QED
  BY <1>2, <1>3, <1>4

(* The states the workflow was in, as far as the log tells. *)
Visited == [k \in 0 .. Len(audit) |-> StateAfter(k)]

LEMMA VisitedFacts ==
    ASSUME LoggedTypeOK, NEW n \in Nat, n = Len(audit), NEW k \in 0 .. n
    PROVE  Visited[k] = StateAfter(k) /\ Visited[k] \in STATES
<1>1. audit \in Seq(AuditEntry) /\ state \in STATES /\ k \in 0 .. Len(audit)
  BY DEF LoggedTypeOK, TypeOK
<1>2. StateAfter(k) \in STATES
  <2>1. CASE k < Len(audit)
    <3>1. k + 1 \in 1 .. Len(audit)
      BY <1>1, <2>1
    <3>2. audit[k + 1] \in AuditEntry
      BY <1>1, <3>1
    <3> QED
      BY <2>1, <3>2 DEF StateAfter, AuditEntry
  <2>2. CASE ~(k < Len(audit))
    BY <1>1, <2>2 DEF StateAfter
  <2> QED
    BY <2>1, <2>2
<1> QED
  BY <1>1, <1>2 DEF Visited

(* What a step does to them: an entry more, or two, and the last of them is
   where the workflow is. *)
LEMMA WalkGrows ==
    ASSUME LoggedTypeOK, LoggedTypeOK', LoggedNext,
           NEW n \in Nat, n = Len(audit)
    PROVE  /\ \A k \in 0 .. n : /\ Visited[k] \in STATES
                              /\ Visited'[k] = Visited[k]
           /\ Visited[n] = state
           /\ \/ /\ Len(audit') = n
                 /\ UNCHANGED state
              \/ /\ Len(audit') = n + 1 /\ Visited'[n + 1] = state'
                 /\ state' = state \/ CanTransition(state, state')
              \/ /\ Len(audit') = n + 2 /\ Visited'[n + 1] = state
                 /\ Visited'[n + 2] = state'
                 /\ state' = state \/ CanTransition(state, state')
<1>1. /\ audit \in Seq(AuditEntry) /\ TypeOK /\ state \in STATES
      /\ Len(audit) = n
  BY DEF LoggedTypeOK, TypeOK
<1>2. \A k \in 0 .. n : Visited[k] = StateAfter(k) /\ Visited[k] \in STATES
  BY VisitedFacts
<1>3. Visited[n] = state
  BY <1>1, <1>2 DEF StateAfter
<1>4. Visited' = [k \in 0 .. Len(audit') |-> StateAfter(k)']
  BY DEF Visited
<1>5. ASSUME Nothing, UNCHANGED state
      PROVE  Visited' = Visited /\ Len(audit') = n
  BY <1>1, <1>5 DEF Nothing, Visited, StateAfter
<1>6. ASSUME NEW actor, NEW event, NEW after, One(actor, event, state, after)
      PROVE  /\ Len(audit') = n + 1 /\ Visited'[n + 1] = state'
             /\ \A k \in 0 .. n : Visited'[k] = Visited[k]
  <2>1. /\ Len(audit') = n + 1
        /\ \A i \in 1 .. n : audit'[i] = audit[i]
        /\ audit'[n + 1] = Entry(actor, event, state, after)
    BY <1>1, <1>6, OneIsLonger
  <2>a. audit'[n + 1].state_before = state
    BY <2>1 DEF Entry
  <2>2. \A k \in 0 .. n : StateAfter(k)' = StateAfter(k)
    BY <1>1, <2>1, <2>a DEF StateAfter
  <2>3. StateAfter(n + 1)' = state'
    BY <2>1 DEF StateAfter
  <2> QED
    BY <1>2, <1>4, <2>1, <2>2, <2>3
<1>7. ASSUME NEW first, NEW second, Two(first, second),
             first.state_before = state, second.state_before = state
      PROVE  /\ Len(audit') = n + 2 /\ Visited'[n + 1] = state
             /\ Visited'[n + 2] = state'
             /\ \A k \in 0 .. n : Visited'[k] = Visited[k]
  <2>1. /\ Len(audit') = n + 2
        /\ \A i \in 1 .. n : audit'[i] = audit[i]
        /\ audit'[n + 1].state_before = state
        /\ audit'[n + 2].state_before = state
    BY <1>1, <1>7, TwoIsLonger
  <2>2. \A k \in 0 .. n : StateAfter(k)' = StateAfter(k)
    BY <1>1, <2>1 DEF StateAfter
  <2>3. StateAfter(n + 1)' = state /\ StateAfter(n + 2)' = state'
    BY <2>1 DEF StateAfter
  <2> QED
    BY <1>2, <1>4, <2>1, <2>2, <2>3
<1>8. ASSUME NEW actor
      PROVE  /\ BoundEntry(actor).state_before = state
             /\ RejectionEntry(actor).state_before = state
             /\ \A t : RoutedTo(actor, t).state_before = state
  BY DEF BoundEntry, RejectionEntry, RoutedTo, Entry
<1>9. CanTransition("HANDOFF_CHECKPOINT", "IMPLEMENTATION")
  BY DEF CanTransition, TRANSITIONS
<1>10. StepKinds
  BY <1>1, StepsAreSorted
<1> QED
  BY <1>2, <1>3, <1>5, <1>6, <1>7, <1>8, <1>9, <1>10 DEF StepKinds

(* NoStationIsSkipped, for any callers, any calls and any length of history:
   what is deployed has been through every gate, and through each of them
   again since the workflow last stood before it. *)
THEOREM NoStationSkipped == LoggedSpec => []NoStationIsSkipped
<1> DEFINE Walked == WalkedUp(Visited, Len(audit))
<1>1. LoggedInit => Walked
  <2> SUFFICES ASSUME LoggedInit PROVE Walked
    OBVIOUS
  <2>1. Len(audit) = 0 /\ state \in STATES /\ Visited[0] = state
    BY InitialStatesAssumption
       DEF LoggedInit, Init, Visited, StateAfter
  <2>2. STATION[state] # 0 => /\ STATION[state] = Height(state)
                             /\ Height(state) \in Nat
    BY <2>1, NoTransitionJumps
  <2>3. \A i \in 0 .. Len(audit) : i = 0
    BY <2>1
  <2> QED
    BY <2>1, <2>2, <2>3 DEF WalkedUp
<1>2. LoggedTypeOK /\ LoggedTypeOK' /\ Walked /\ [LoggedNext]_auditVars
         => Walked'
  <2> SUFFICES ASSUME LoggedTypeOK, LoggedTypeOK', Walked,
                      [LoggedNext]_auditVars
               PROVE  Walked'
    OBVIOUS
  <2>1. PICK n \in Nat : n = Len(audit)
    BY DEF LoggedTypeOK
  <2>2. CASE UNCHANGED auditVars
    BY <2>2 DEF auditVars, Visited, StateAfter
  <2>3. CASE LoggedNext
    <3>1. /\ \A k \in 0 .. n : /\ Visited[k] \in STATES
                             /\ Visited'[k] = Visited[k]
          /\ Visited[n] = state
          /\ WalkedUp(Visited, n)
          /\ state' \in STATES /\ state \in STATES
      BY <2>1, <2>3, WalkGrows DEF LoggedTypeOK, TypeOK
    <3>2. \/ /\ Len(audit') = n
             /\ UNCHANGED state
          \/ /\ Len(audit') = n + 1 /\ Visited'[n + 1] = state'
             /\ state' = state \/ CanTransition(state, state')
          \/ /\ Len(audit') = n + 2 /\ Visited'[n + 1] = state
             /\ Visited'[n + 2] = state'
             /\ state' = state \/ CanTransition(state, state')
      BY <2>1, <2>3, WalkGrows
    <3>3. CASE Len(audit') = n
      BY <3>1, <3>3 DEF WalkedUp
    <3>4. CASE /\ Len(audit') = n + 1 /\ Visited'[n + 1] = state'
               /\ state' = state \/ CanTransition(state, state')
      <4>1. WalkedUp(Visited', n + 1)
        BY <3>1, <3>4, OneStepMore
      <4> QED
        BY <3>4, <4>1
    <3>5. CASE /\ Len(audit') = n + 2 /\ Visited'[n + 1] = state
               /\ Visited'[n + 2] = state'
               /\ state' = state \/ CanTransition(state, state')
      <4>1. WalkedUp(Visited', n + 1)
        BY <3>1, <3>5, OneStepMore
      <4>2. \A k \in 0 .. n + 1 : k \in 0 .. n \/ k = n + 1
        OBVIOUS
      <4>3. \A k \in 0 .. n + 1 : Visited'[k] \in STATES
        BY <3>1, <3>5, <4>2
      <4>4. /\ n + 1 \in Nat /\ n + 1 + 1 = n + 2
        OBVIOUS
      <4>5. WalkedUp(Visited', n + 2)
        BY <3>1, <3>5, <4>1, <4>3, <4>4, OneStepMore
      <4> QED
        BY <3>5, <4>5
    <3> QED
      BY <3>2, <3>3, <3>4, <3>5
  <2> QED
    BY <2>2, <2>3
<1>3. LoggedTypeOK /\ Walked => NoStationIsSkipped
  <2> SUFFICES ASSUME LoggedTypeOK, Walked,
                      NEW i \in 0 .. Len(audit), NEW j \in 0 .. Len(audit),
                      i < j, STATION[StateAfter(i)] # 0,
                      NEW b \in STATION[StateAfter(i)] + 1 ..
                                   STATION[StateAfter(j)] - 1
               PROVE  \E k \in i .. j : STATION[StateAfter(k)] = b
    BY DEF NoStationIsSkipped
  <2>1. PICK n \in Nat : n = Len(audit)
    BY DEF LoggedTypeOK
  <2>2. \A k \in 0 .. n : Visited[k] = StateAfter(k) /\ Visited[k] \in STATES
    BY <2>1, VisitedFacts
  <2>a. Visited[i] \in STATES /\ Visited[j] \in STATES
    BY <2>1, <2>2
  <2>3. /\ STATION[Visited[i]] \in Nat
        /\ STATION[Visited[j]] \in Nat /\ Height(Visited[j]) \in Nat
        /\ STATION[Visited[j]] <= Height(Visited[j])
    BY <2>a, NoTransitionJumps
  <2>4. b \in STATION[Visited[i]] + 1 .. Height(Visited[j]) - 1
    BY <2>1, <2>2, <2>3
  <2>5. PICK k \in i .. j : STATION[Visited[k]] = b
    BY <2>1, <2>2, <2>4 DEF WalkedUp
  <2>6. k \in 0 .. n
    BY <2>1
  <2> QED
    BY <2>2, <2>5, <2>6
<1> QED
  BY <1>1, <1>2, <1>3, LoggedTypeCorrect, PTL DEF LoggedSpec
=============================================================================

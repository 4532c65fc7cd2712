----------------------------- MODULE AuditTrail -----------------------------
(***************************************************************************)
(* The orchestrator with its audit log: AuditLog of openclaw/events.py,    *)
(* the calls of audit.record in openclaw/orchestrator.py, and those of the *)
(* clients, which write to the same log: rejections of the handoff client, *)
(* evidence of the three gates.  Each action is an action of OpenClaw      *)
(* together with the entries the method appends, in their order.  An       *)
(* entry's sequence number is its position less one; its detail text and   *)
(* its timestamp are left out.                                             *)
(***************************************************************************)
EXTENDS OpenClaw, Sequences

CONSTANT MaxLog      \* bound of the model on the length of the log

ASSUME MaxLogAssumption == MaxLog \in Nat

VARIABLE audit       \* audit._entries

auditVars == <<state, repairs, approvals, pending, requestSeq, lastVerdict,
               audit>>

EVENTS == {"TRANSITION", "ROUTED", "ESCALATED", "APPROVAL_REQUESTED",
           "APPROVAL_RECORDED", "EVIDENCE", "HANDOFF_REJECTED"}

HANDOFF_AGENT_ROLE == "handoff_agent"

(* AuditEntry *)
AuditEntry ==
    [actor : Actors \cup {OPENCLAW_ROLE}, event : EVENTS,
     state_before : STATES, state_after : STATES]

Entry(actor, event, before, after) ==
    [actor |-> actor, event |-> event,
     state_before |-> before, state_after |-> after]

HasRoom == Len(audit) < MaxLog

(* AuditLog.record *)
Record(entry) == audit' = Append(audit, entry)

RecordBoth(first, second) ==
    /\ Len(audit) + 1 < MaxLog
    /\ audit' = audit \o <<first, second>>

(* The repair bound has been reached and the verdict asks for a repair:
   _repair_or_escalate then records an ESCALATED entry of its own, before
   route() knows whether the move is legal. *)
AtBound(verdict) ==
    /\ <<state, verdict, REPAIR>> \in ROUTING
    /\ repairs >= MaxRepair

(* Mutant: the entry is recorded with the target the table gives. *)
BoundEntryUnresolved(actor) == Entry(actor, "ESCALATED", state, REPAIR)

BoundEntry(actor) == Entry(actor, "ESCALATED", state, "ESCALATED")
-----------------------------------------------------------------------------
LoggedInit == Init /\ audit = << >>

LoggedAdvance(target, actor) ==
    /\ HasRoom
    /\ Advance(target, actor)
    /\ Record(Entry(actor, "TRANSITION", state, target))

LoggedRoute(verdict, actor) ==
    /\ HasRoom
    /\ Route(verdict, actor)
    /\ ~AtBound(verdict)
    /\ Record(Entry(actor, "ROUTED", state, state'))

LoggedRouteAtBound(verdict, actor) ==
    /\ HasRoom
    /\ Route(verdict, actor)
    /\ AtBound(verdict)
    /\ RecordBoth(BoundEntry(actor), Entry(actor, "ROUTED", state, state'))

LoggedRouteRefused(verdict, actor) ==
    /\ HasRoom
    /\ RouteRefused(verdict, actor)
    /\ \/ AtBound(verdict) /\ Record(BoundEntry(actor))
       \/ ~AtBound(verdict) /\ UNCHANGED audit

(* HandoffClient.route_checkpoint of an invalid checkpoint: the client's own
   entry, which says IMPLEMENTATION whatever comes of it, and then what
   route("REJECTED") appends. *)
RejectionEntry(actor) ==
    Entry(actor, "HANDOFF_REJECTED", state, "IMPLEMENTATION")

LoggedRejection(actor) ==
    /\ HasRoom
    /\ actor = HANDOFF_AGENT_ROLE
    /\ state = "HANDOFF_CHECKPOINT"
    /\ \/ /\ Route("REJECTED", actor)
          /\ RecordBoth(RejectionEntry(actor),
                        Entry(actor, "ROUTED", state, state'))
       \/ /\ RouteRefused("REJECTED", actor)
          /\ RecordBoth(RejectionEntry(actor), BoundEntry(actor))

(* record_evidence of a gate's client, one item of evidence: in whatever state
   the workflow is by then, which stays as it is. *)
RecordEvidence(actor) ==
    /\ HasRoom
    /\ Record(Entry(actor, "EVIDENCE", state, state))
    /\ UNCHANGED vars

LoggedRequestHumanApproval(gate) ==
    /\ HasRoom
    /\ RequestHumanApproval(gate)
    /\ Record(Entry(OPENCLAW_ROLE, "APPROVAL_REQUESTED", state, state))

LoggedRecordHumanApproval(gate, approved, approver) ==
    /\ HasRoom
    /\ RecordHumanApproval(gate, approved, approver)
    /\ Record(Entry(approver, "APPROVAL_RECORDED", state, state))

(* Mutant: the entry is recorded after the state was assigned. *)
LoggedContinueTooLate(actor) ==
    /\ HasRoom
    /\ ContinueAfterHumanGate(actor)
    /\ Record(Entry(actor, "TRANSITION", state', state'))

LoggedContinueAfterHumanGate(actor) ==
    /\ HasRoom
    /\ ContinueAfterHumanGate(actor)
    /\ Record(Entry(actor, "TRANSITION", state, state'))

LoggedEscalate(actor) ==
    /\ HasRoom
    /\ Escalate(actor)
    /\ Record(Entry(actor, "ESCALATED", state, "ESCALATED"))

LoggedNext ==
    \/ \E actor \in Actors :
          \/ \E target \in STATES : LoggedAdvance(target, actor)
          \/ \E verdict \in VERDICTS :
                \/ LoggedRoute(verdict, actor)
                \/ LoggedRouteAtBound(verdict, actor)
                \/ LoggedRouteRefused(verdict, actor)
          \/ LoggedContinueAfterHumanGate(actor)
          \/ LoggedEscalate(actor)
          \/ LoggedRejection(actor)
          \/ RecordEvidence(actor)
          \/ \E gate \in HUMAN_GATES, approved \in BOOLEAN :
                LoggedRecordHumanApproval(gate, approved, actor)
    \/ \E gate \in HUMAN_GATES : LoggedRequestHumanApproval(gate)

LoggedSpec == LoggedInit /\ [][LoggedNext]_auditVars
-----------------------------------------------------------------------------
(* The types of the fields and of the log's entries. *)
LoggedTypeOK == TypeOK /\ audit \in Seq(AuditEntry)

(* The state the workflow was in after the call of the i-th entry. *)
StateAfter(i) == IF i < Len(audit) THEN audit[i + 1].state_before ELSE state

STANDING_EVENTS == {"APPROVAL_REQUESTED", "APPROVAL_RECORDED", "EVIDENCE"}

(* An entry whose move did not happen (yet): the repair bound was reached and
   the escalation announced, at HANDOFF_CHECKPOINT, from where it is not
   legal, or right before the ROUTED entry that carries it out; or the handoff
   client announced the way back, and route() carries it out in the next
   entry or the bound is reached. *)
OnlyAnnounced(i) ==
    \/ /\ audit[i].event = "ESCALATED"
       /\ repairs >= MaxRepair
       /\ \/ audit[i].state_before = "HANDOFF_CHECKPOINT"
          \/ /\ i < Len(audit)
             /\ audit[i + 1].event = "ROUTED"
             /\ audit[i + 1].state_after = "ESCALATED"
    \/ /\ audit[i].event = "HANDOFF_REJECTED"
       /\ i < Len(audit)
       /\ \/ /\ audit[i + 1].event = "ROUTED"
             /\ audit[i + 1].state_after = audit[i].state_after
          \/ /\ audit[i + 1].event = "ESCALATED"
             /\ repairs >= MaxRepair

(* The log is a connected account of the workflow's walk: it starts in the
   initial state, each entry starts where the previous one ended and the last
   one ends in the current state, and a move it tells of is a legal
   transition; the exceptions are an escalation and a rejection that were only
   announced. *)
LogIsTheWalk ==
    /\ Len(audit) > 0 => audit[1].state_before \in InitialStates
    /\ Len(audit) = 0 => state \in InitialStates
    /\ \A i \in 1 .. Len(audit) :
          \/ /\ StateAfter(i) = audit[i].state_after
             /\ \/ CanTransition(audit[i].state_before, audit[i].state_after)
                \/ /\ audit[i].state_before = audit[i].state_after
                   /\ audit[i].event \in STANDING_EVENTS
          \/ /\ StateAfter(i) = audit[i].state_before
             /\ OnlyAnnounced(i)

(* No station of the way is skipped, whoever calls what: if the workflow was at
   one station once and is at a later one some time afterwards, it was at each
   station between them in between.  So whatever reaches DEPLOY has been through
   every gate, and through every gate again since it last went back. *)
NoStationIsSkipped ==
    \A i, j \in 0 .. Len(audit) :
       LET here == STATION[StateAfter(i)] there == STATION[StateAfter(j)]
       IN  i < j /\ here # 0 =>
              \A b \in here + 1 .. there - 1 :
                 \E k \in i .. j : STATION[StateAfter(k)] = b

RepairEntries ==
    {i \in 1 .. Len(audit) : /\ audit[i].event = "ROUTED"
                             /\ audit[i].state_after = "IMPLEMENTATION"
                             /\ audit[i].state_before # "ROLLED_BACK"}

(* The repair counter is what the log says it is: one for each verdict that
   routed a gate's work back to IMPLEMENTATION, whoever called and whatever
   else was called in between. *)
RepairsAreLogged == repairs = Cardinality(RepairEntries)

EntriesOf(event) == {i \in 1 .. Len(audit) : audit[i].event = event}

(* Every request that was made and every answer that was given is in the log:
   requests are as many as the counter says, and each answer used up a request
   that is no longer open. *)
ApprovalsAreLogged ==
    /\ requestSeq = Cardinality(EntriesOf("APPROVAL_REQUESTED"))
    /\ Cardinality(EntriesOf("APPROVAL_RECORDED"))
         + Cardinality({g \in HUMAN_GATES : pending[g] # 0}) <= requestSeq

(* WORKFLOW.md, retry model: at the bound, "ESCALATE TO HUMAN".  An escalation
   that is the log's last word has happened. *)
EscalationHappens ==
    (Len(audit) > 0 /\ audit[Len(audit)].event = "ESCALATED")
        => state = "ESCALATED"
=============================================================================

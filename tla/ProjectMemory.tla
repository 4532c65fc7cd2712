---------------------------- MODULE ProjectMemory ----------------------------
(***************************************************************************)
(* The records of one project's memory and their versions: class           *)
(* ProjectMemory of openclaw/memory.py, in several processes that share    *)
(* one state file and its backup.  Each mutation is one transaction under  *)
(* the lock (_mutate), which may stop at any of save_locked's system       *)
(* calls, and each start of a program initializes the file; who sees the   *)
(* files between two system calls, and backup, restore and migrate, are    *)
(* module MemoryStorage.  A call that is refused before the lock is taken  *)
(* changes nothing and is a stuttering step.  The text of a record, its    *)
(* key's spelling and its provenance label are left out; a record's id, a  *)
(* hash of its project, category, key, version and creation time, is the   *)
(* pair of the last two, within its key.                                   *)
(***************************************************************************)
EXTENDS Naturals, Sequences, SequencesExt

CONSTANTS
    Processes, \* the processes with a ProjectMemory on the state file
    Actors,    \* who calls: strings, the roles and strangers
    Keys,      \* <<category, name>>, with categories of MEMORY_CATEGORIES
    Evidence,  \* how evidence is passed: "none", "list" or "iterator"
    Classifications, \* those the callers use
    Ticks,     \* how far the clock may move between two readings
    MaxClock,  \* bound of the model on the clock
    MaxFaults  \* bound of the model on saves that fail

MEMORY_CATEGORIES ==
    {"project", "architecture", "decision", "agent", "task", "checkpoint",
     "quality", "security", "deployment", "incident"}

ASSUME KeysAssumption == \A k \in Keys : k[1] \in MEMORY_CATEGORIES
ASSUME EvidenceAssumption == Evidence \subseteq {"none", "list", "iterator"}
ASSUME TicksAssumption == Ticks \subseteq Nat
ASSUME MaxClockAssumption == MaxClock \in Nat /\ MaxFaults \in Nat

VARIABLES
    entries,   \* in the state file: the active record of each key
    history,   \* in the state file: the superseded records, oldest first
    deleted,   \* in the state file: the tombstone of each key
    present,   \* whether there is a state file; without one, no records
    bak,       \* the content of .bak; no records when there is none
    view,      \* [Processes -> the live view: _entries, _history, _deleted]
    clock,     \* what _clock returned last
    faults,    \* saves that failed so far
    ahead      \* (history) processes that may show what the store has not:
               \* their last mutation was not saved, or another process
               \* has started over

disk == <<entries, history, deleted, present, bak>>
vars == <<disk, view, clock, faults, ahead>>

HUMAN_ROLE == "human"

(* _WRITE_AUTHORITY and _HUMAN_ONLY_CATEGORIES *)
WRITE_AUTHORITY ==
    {<<"openclaw", "task">>, <<"openclaw", "checkpoint">>,
     <<"openclaw", "project">>, <<"openclaw", "architecture">>,
     <<"coding_agent", "task">>, <<"coding_agent", "checkpoint">>,
     <<"quality_guardian", "quality">>, <<"security_gate", "security">>,
     <<"deployment_check", "deployment">>, <<"deployment_check", "incident">>,
     <<"handoff_agent", "checkpoint">>, <<"human", "decision">>}

HUMAN_ONLY_CATEGORIES == {"decision"}

VALID_CLASSIFICATIONS ==
    {"VERIFIED", "DERIVED", "PROPOSED", "UNVERIFIED", "HUMAN_APPROVED",
     "HUMAN_REJECTED"}
ASSUME ClassificationsAssumption ==
    Classifications \subseteq VALID_CLASSIFICATIONS

TRUSTED_CLASSIFICATIONS == {"VERIFIED", "HUMAN_APPROVED"}
HUMAN_AUTHORITY_CLASSIFICATIONS == {"HUMAN_APPROVED", "HUMAN_REJECTED"}

(* MemoryEntry; evidenced is whether its evidence list is not empty, and
   supersedes the id of the record before it. *)
Ids == Nat \X Nat
NoId == <<0, 0>>
MemoryEntry ==
    [version : Nat, created : Nat, updated : Nat, recorded_by : Actors,
     classification : VALID_CLASSIFICATIONS, evidenced : BOOLEAN,
     supersedes : Ids]

(* The absent key of the dicts _entries and _deleted. *)
None == [version |-> 0]

(* Mutant: the creation time is left out of the id. *)
VersionOnlyId(record) == <<record.version, 0>>

(* _record_id *)
RecordId(record) == <<record.version, record.created>>
-----------------------------------------------------------------------------
(* The state file's content. *)
Stored == [entries |-> entries, history |-> history, deleted |-> deleted]

(* A store without records. *)
Fresh ==
    [entries |-> [k \in Keys |-> None],
     history |-> [k \in Keys |-> << >>],
     deleted |-> [k \in Keys |-> None]]

(* With or without the file that Initialize makes. *)
Init ==
    /\ entries = Fresh.entries
    /\ history = Fresh.history
    /\ deleted = Fresh.deleted
    /\ present \in BOOLEAN
    /\ bak = Fresh
    /\ view = [p \in Processes |-> Fresh]
    /\ clock = 0
    /\ faults = 0
    /\ ahead = {}

(* _assert_write_authority *)
MayWrite(actor, category) ==
    /\ <<actor, category>> \in WRITE_AUTHORITY
    /\ category \in HUMAN_ONLY_CATEGORIES => actor = HUMAN_ROLE

(* Mutant: trust is not asked for evidence. *)
AcceptableUnbacked(actor, k, classification, evidence) ==
    /\ MayWrite(actor, k[1])
    /\ classification \in HUMAN_AUTHORITY_CLASSIFICATIONS => actor = HUMAN_ROLE

(* The checks of _build_record; trust is given with the classification, since
   each classification goes with one trust value. *)
Acceptable(actor, k, classification, evidence) ==
    /\ MayWrite(actor, k[1])
    /\ classification \in HUMAN_AUTHORITY_CLASSIFICATIONS => actor = HUMAN_ROLE
    /\ classification \in TRUSTED_CLASSIFICATIONS => evidence # "none"

(* What is left of the evidence when it is stored: _build_record has walked
   an iterator once already if the record is to be trusted. *)
StoredEvidence(classification, evidence) ==
    \/ evidence = "list"
    \/ evidence = "iterator" /\ classification \notin TRUSTED_CLASSIFICATIONS

(* A reading of the clock. *)
Now(now) ==
    /\ now \in {clock + tick : tick \in Ticks}
    /\ now <= MaxClock
    /\ clock' = now

(* Mutant: the mutation is applied to the live view as it is. *)
StaleView(p) == view[p]

(* _mutate: the live view is refreshed from the state file under the lock. *)
Refreshed(p) == Stored

(* _dump_state: a key is written when it has an active record or a tombstone,
   with its history. *)
Dumped(s) == {k \in Keys : s.entries[k] # None \/ s.deleted[k] # None}

(* Mutant: only an active record is written with its history. *)
ActiveHistory(s, k) == IF s.entries[k] # None THEN s.history[k] ELSE << >>

DumpedHistory(s, k) == IF k \in Dumped(s) THEN s.history[k] ELSE << >>

(* The state file holds s, as _load_state reads it. *)
FileHolds(s) ==
    /\ entries' = s.entries
    /\ history' = [k \in Keys |-> DumpedHistory(s, k)]
    /\ deleted' = s.deleted

(* There is no state file, though .bak holds records: who writes one now starts
   over. *)
Forgotten == ~present /\ bak # Fresh

(* save_locked has put s into place, after the file that was there, if any,
   was rotated to .bak. *)
Saved(p, s) ==
    /\ FileHolds(s)
    /\ present' = TRUE
    /\ bak' = IF present THEN Stored ELSE bak
    /\ ahead' = IF Forgotten THEN Processes \ {p} ELSE ahead \ {p}

(* save_locked has raised, or its process has died, before that: with nothing
   done, with the old .bak unlinked, or with the state file rotated to .bak and
   no new one written. *)
NotSaved(p) ==
    /\ ahead' = ahead \cup {p}
    /\ \/ UNCHANGED disk
       \/ present /\ bak' = Fresh /\ UNCHANGED <<entries, history, deleted, present>>
       \/ present /\ bak' = Stored /\ present' = FALSE /\ FileHolds(Fresh)

(* The end of _mutate: the view, s by now, is saved.  A save may also fail when
   the state file is in place (writing .meta); the view is not rolled back. *)
Save(p, s) ==
    /\ view' = [view EXCEPT ![p] = s]
    /\ \/ Saved(p, s) /\ UNCHANGED faults
       \/ /\ faults < MaxFaults
          /\ faults' = faults + 1
          /\ Saved(p, s) \/ NotSaved(p)

(* _build_record *)
BuildRecord(actor, previous, classification, evidence, now) ==
    [version |-> previous.version + 1,
     created |-> IF previous = None THEN now ELSE previous.created,
     updated |-> now,
     recorded_by |-> actor,
     classification |-> classification,
     evidenced |-> StoredEvidence(classification, evidence),
     supersedes |-> IF previous = None THEN NoId ELSE RecordId(previous)]

(* What write and update do with the new record: the one before it moves to
   the history.  A tombstone of the key stays where it is. *)
WithRecord(s, k, record) ==
    [entries |-> [s.entries EXCEPT ![k] = record],
     history |-> [s.history EXCEPT ![k] = IF s.entries[k] = None
                                             THEN @
                                             ELSE Append(@, s.entries[k])],
     deleted |-> s.deleted]

Write(p, actor, k, classification, evidence, now) ==
    LET s == Refreshed(p) IN
    /\ Acceptable(actor, k, classification, evidence)
    /\ Now(now)
    /\ Save(p, WithRecord(s, k, BuildRecord(actor, s.entries[k],
                                            classification, evidence, now)))

(* update: of an existing record, with the default classification. *)
Update(p, actor, k, classification, evidence, now) ==
    /\ Refreshed(p).entries[k] # None
    /\ classification \in {"VERIFIED", "UNVERIFIED"}
    /\ Write(p, actor, k, classification, evidence, now)

(* Mutant: the tombstone has a classification of its own. *)
DeletedTombstone(record, now) ==
    [version |-> record.version + 1,
     created |-> record.created,
     updated |-> now,
     recorded_by |-> HUMAN_ROLE,
     classification |-> "DELETED",
     evidenced |-> FALSE,
     supersedes |-> RecordId(record)]

(* Mutant: the tombstone takes over the link of the record it replaces. *)
TombstoneOfPrevious(record, now) ==
    [version |-> record.version + 1,
     created |-> record.created,
     updated |-> now,
     recorded_by |-> HUMAN_ROLE,
     classification |-> "UNVERIFIED",
     evidenced |-> FALSE,
     supersedes |-> record.supersedes]

(* delete *)
Tombstone(record, now) ==
    [version |-> record.version + 1,
     created |-> record.created,
     updated |-> now,
     recorded_by |-> HUMAN_ROLE,
     classification |-> "UNVERIFIED",
     evidenced |-> FALSE,
     supersedes |-> RecordId(record)]

WithoutRecord(s, k, now) ==
    [entries |-> [s.entries EXCEPT ![k] = None],
     history |-> [s.history EXCEPT ![k] = Append(@, s.entries[k])],
     deleted |-> [s.deleted EXCEPT ![k] = Tombstone(s.entries[k], now)]]

Delete(p, actor, k, now) ==
    LET s == Refreshed(p) IN
    /\ actor = HUMAN_ROLE
    /\ s.entries[k] # None
    /\ Now(now)
    /\ Save(p, WithoutRecord(s, k, now))

(* _refresh_from_storage without a mutation: the constructor, after a start,
   and a call whose work() is refused under the lock. *)
Refresh(p) ==
    /\ view' = [view EXCEPT ![p] = Stored]
    /\ ahead' = ahead \ {p}
    /\ UNCHANGED <<disk, clock, faults>>

(* initialize, of a process that starts: an empty state file where there is
   none, whatever .bak holds. *)
Initialize ==
    /\ ~present
    /\ present' = TRUE
    /\ ahead' = IF Forgotten THEN Processes ELSE ahead
    /\ UNCHANGED <<entries, history, deleted, bak, view, clock, faults>>

Next ==
    \/ \E p \in Processes :
          \/ \E actor \in Actors, k \in Keys, now \in 0 .. MaxClock :
                \/ \E classification \in Classifications, e \in Evidence :
                      \/ Write(p, actor, k, classification, e, now)
                      \/ Update(p, actor, k, classification, e, now)
                \/ Delete(p, actor, k, now)
          \/ Refresh(p)
    \/ Initialize

Spec == Init /\ [][Next]_vars
-----------------------------------------------------------------------------
(* Every record the store still holds of a key. *)
Retained(k) ==
    ({entries[k], deleted[k]} \ {None}) \cup ToSet(history[k])

(* history(): the active record, then the superseded ones and the tombstone
   by falling version; sort() keeps the order of equal versions. *)
History(k) ==
    LET older == history[k] \o (IF deleted[k] = None THEN << >>
                                                     ELSE <<deleted[k]>>)
        versions == {older[i].version : i \in 1 .. Len(older)}
        falling == SetToSortSeq(versions, LAMBDA v, w : v > w)
        WithVersion(v) == SelectSeq(older, LAMBDA r : r.version = v)
    IN  (IF entries[k] = None THEN << >> ELSE <<entries[k]>>)
          \o FlattenSeq([i \in 1 .. Len(falling) |-> WithVersion(falling[i])])
-----------------------------------------------------------------------------
(* The types of the dicts, in the file and in the live views. *)
Stores ==
    [entries : [Keys -> MemoryEntry \cup {None}],
     history : [Keys -> Seq(MemoryEntry)],
     deleted : [Keys -> MemoryEntry \cup {None}]]

TypeOK ==
    /\ Stored \in Stores
    /\ present \in BOOLEAN
    /\ bak \in Stores
    /\ view \in [Processes -> Stores]
    /\ clock \in 0 .. MaxClock
    /\ faults \in 0 .. MaxFaults
    /\ ahead \subseteq Processes

(* "Unique per version": no two records a key still holds share an id, over
   updates, deletions and new lives of the key, as long as the clock moves;
   so get_by_id() can find each of them. *)
IdsAreUnique ==
    \A k \in Keys :
       /\ \A r, s \in Retained(k) : RecordId(r) = RecordId(s) => r = s
       /\ IsInjective(history[k])

(* The versions are a chain: a record that supersedes another is the next
   version of it, in the same life of the key, and the other one is still in
   the history.  A deleted key ends in the tombstone of its last record. *)
VersionChain ==
    \A k \in Keys :
       /\ \A r \in Retained(k) : r.version > 1 =>
             \E s \in ToSet(history[k]) :
                /\ r.supersedes = RecordId(s)
                /\ r.version = s.version + 1
                /\ r.created = s.created
                /\ r.updated >= s.updated
       /\ entries[k] = None /\ history[k] # << >> =>
             deleted[k].supersedes = RecordId(history[k][Len(history[k])])

(* Where the store's records are: in the state file or, when a save has stopped
   past the rotation and left none, in its backup. *)
Known == IF present THEN Stored ELSE bak

(* From store s to store t no record is dropped: a history only grows at its
   end, and an active record is active still or the last of its history. *)
Keeps(s, t) ==
    \A k \in Keys :
       /\ IsPrefix(s.history[k], t.history[k])
       /\ \/ s.entries[k] \in {None, t.entries[k]}
          \/ /\ Len(t.history[k]) > 0
             /\ t.history[k][Len(t.history[k])] = s.entries[k]

(* A save, or initialize, takes the missing file for a fresh store and writes
   a new one. *)
StartsOver == Forgotten /\ present'

(* "Old facts are never silently removed": whatever is written, deleted or
   reloaded, and wherever a save stops, the records are kept, in the file or in
   the backup of a file that is gone.  The one step that drops them is the next
   save or initialize after a save that stopped between the rotation and the
   new file: it starts over (see KnownGoodCopy in MemoryStorage).  A restore,
   which goes back to the backup on purpose, is not a step of this module. *)
FactsAreKept == [][Keeps(Known, Known') \/ StartsOver]_vars

(* Several processes, each with a view of its own: what a view shows is a past
   of the store (its histories are prefixes, its active records are active or
   superseded there), so no record is shown that neither the file nor, when it
   is gone, its backup holds.  The exceptions are a process whose own last save
   has failed, and every other process once one has started over, until their
   views are refreshed. *)
ViewsAreOfThePast ==
    \A p \in Processes \ ahead, k \in Keys :
       /\ IsPrefix(view[p].history[k], Known.history[k])
       /\ view[p].entries[k] \in
             {None, Known.entries[k]} \cup ToSet(Known.history[k])

(* trusted_entries, and with it what render_for_prompt shows. *)
TrustedEntries(s) ==
    {k \in Keys : /\ s.entries[k] # None
                  /\ s.entries[k].classification \in TRUSTED_CLASSIFICATIONS}

(* What is shown as trusted still has its evidence and an author with authority
   over the category, and human authority is the human's. *)
Backed(s) ==
    \A k \in TrustedEntries(s) :
       /\ s.entries[k].evidenced
       /\ MayWrite(s.entries[k].recorded_by, k[1])
       /\ s.entries[k].classification = "HUMAN_APPROVED" =>
             s.entries[k].recorded_by = HUMAN_ROLE

(* "Trusted memory requires evidence": so is all that a process may put into a
   prompt, whoever updated the key before and after, and also when its view
   shows a record whose save has failed. *)
PromptIsBacked == \A p \in Processes : Backed(view[p])

(* memory.py, history(): "newest first".  Fails for a key with several lives,
   whose versions start again at 1. *)
HistoryNewestFirst ==
    \A k \in Keys : \A i, j \in 1 .. Len(History(k)) :
       i < j => History(k)[i].updated >= History(k)[j].updated
=============================================================================

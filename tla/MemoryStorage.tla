---------------------------- MODULE MemoryStorage ----------------------------
(***************************************************************************)
(* Durable project memory on disk: class MemoryStorage, make_persistent_   *)
(* memory and migrate_legacy_state of openclaw/persistent_memory.py, and   *)
(* ProjectMemory._mutate of openclaw/memory.py, which drives them.         *)
(*                                                                         *)
(* Several processes share the files of one project.  A step is one system *)
(* call that another process, or the next start of the program, can see:   *)
(* taking the lock, os.replace, unlink.  Reading under the lock is one     *)
(* step with the computation that follows it; the temporary file is        *)
(* private to its writer and shows only in whether writing it succeeded.   *)
(* A process may crash, and a write to disk may fail, at every step.       *)
(*                                                                         *)
(* The lock here is one atomic variable, freed by the kernel when its      *)
(* process dies; that the code's lock may be taken for one is shown by     *)
(* module FileLock, which implements Mutex system call by system call.     *)
(***************************************************************************)
EXTENDS Naturals, FiniteSets

CONSTANTS
    Processes,   \* the processes that use the storage root
    Identities,  \* repository identities (_repo_identity)
    Identity,    \* [Processes -> Identities]
    Keys,        \* names of the records a process may write
    NoOne,       \* not a process: the free lock
    Nobody,      \* not an identity: the owner of legacy and missing files
    Operations,  \* [Processes -> the operations it uses]
    InitialFiles,\* what the state file may be at the start
    FaultKinds,  \* which of "crash", "io" and "damage" may happen
    MaxFaults    \* bound of the model on how often they do

ASSUME IdentityAssumption == Identity \in [Processes -> Identities]
ASSUME SentinelAssumption == NoOne \notin Processes /\ Nobody \notin Identities
ASSUME OperationsAssumption ==
    Operations \in [Processes -> SUBSET {"initialize", "open", "write",
                                         "migrate", "backup", "restore"}]
ASSUME MaxFaultsAssumption == MaxFaults \in Nat

VARIABLES
    state,    \* the state file
    bak,      \* the .bak file
    lock,     \* who holds the flock on the .lock file
    pc,       \* [Processes -> step of the running call]
    op,       \* [Processes -> the running call]
    adds,     \* [Processes -> the record a running write adds, as a set]
    new,      \* [Processes -> the records the running call will write]
    opened,   \* [Processes -> has a ProjectMemory on this storage]
    view,     \* [Processes -> the records of its live view]
    acked,    \* records whose write returned to its caller
    faults,   \* crashes, I/O errors and damage so far
    sound     \* (of the model) FALSE once something happened after which
              \* acknowledged records may be gone: see Unsound

files == <<state, bak>>
locals == <<pc, op, adds, new, opened, view>>
vars == <<files, lock, locals, acked, faults, sound>>

(* The steps of a call; "idle" is outside of any. *)
Steps == {"idle", "waiting", "holding", "rotate", "swap", "commit", "meta",
          "copy", "aside", "bringback", "done", "opening"}

Records == (Identities \cup {Nobody}) \X Keys

(* A file: missing, not parsable, or a state of schema 1 or 2 with the
   identity it was written under and the records it holds. *)
Files == [kind : {"missing", "garbage", "v1", "v2"},
          owner : Identities \cup {Nobody}, records : SUBSET Records]

OwnedBy(records, identity) ==
    \A r \in records : r[1] \in {identity, Nobody}

Missing == [kind |-> "missing", owner |-> Nobody, records |-> {}]
Garbage == [kind |-> "garbage", owner |-> Nobody, records |-> {}]
Legacy(records) == [kind |-> "v1", owner |-> Nobody, records |-> records]
(* Mutant: the schema version is raised, the supported set is not. *)
NextSchema(p, records) ==
    [kind |-> "v3", owner |-> Identity[p], records |-> records]

Current(p, records) ==
    [kind |-> "v2", owner |-> Identity[p], records |-> records]

(* Mutant: the repository identity is not compared. *)
VerifiedVersion(file, p) == file.kind = "v2"

(* load() and _verify_schema of process p accept the file: schema 2 under p's
   own identity, or nothing there at all.  (_verify_schema also passes a file in
   which schema_version, project_id or project_identity is absent.  Nothing in
   the program writes such a file, Legacy has the first two and no migration
   leaves one out, so Files has none.) *)
Verified(file, p) == file.kind = "v2" /\ file.owner = Identity[p]
Loadable(file, p) == file.kind = "missing" \/ Verified(file, p)

ASSUME InitialFilesAssumption ==
    \A file \in InitialFiles :
       /\ file \in Files
       /\ OwnedBy(file.records, file.owner)
       /\ file.kind = "v1" => file.owner = Nobody
       /\ file.kind = "missing" => file = Missing

Init ==
    /\ state \in InitialFiles
    /\ bak = Missing
    /\ lock = NoOne
    /\ pc = [p \in Processes |-> "idle"]
    /\ op = [p \in Processes |-> "none"]
    /\ adds = [p \in Processes |-> {}]
    /\ new = [p \in Processes |-> {}]
    /\ opened = [p \in Processes |-> FALSE]
    /\ view = [p \in Processes |-> {}]
    /\ acked = {}
    /\ faults = 0
    /\ sound = TRUE
-----------------------------------------------------------------------------
Goto(p, step) == pc' = [pc EXCEPT ![p] = step]
At(p, step) == pc[p] = step

(* Mutant: only a call that returns frees the lock. *)
EndKeepingLock(p) ==
    /\ Goto(p, "idle")
    /\ lock' = IF lock = p /\ At(p, "done") THEN NoOne ELSE lock
    /\ op' = [op EXCEPT ![p] = "none"]
    /\ adds' = [adds EXCEPT ![p] = {}]
    /\ new' = [new EXCEPT ![p] = {}]

(* The call of p ends, by return or by exception: __exit__ frees the lock. *)
End(p) ==
    /\ Goto(p, "idle")
    /\ lock' = IF lock = p THEN NoOne ELSE lock
    /\ op' = [op EXCEPT ![p] = "none"]
    /\ adds' = [adds EXCEPT ![p] = {}]
    /\ new' = [new EXCEPT ![p] = {}]

(* A call begins.  "initialize" is make_persistent_memory: it initializes
   under the lock and then opens; "open" is the same without initializing;
   the others are methods, "write" of an opened ProjectMemory. *)
Call(p, operation) ==
    /\ At(p, "idle")
    /\ operation = "write" => opened[p]
    /\ Goto(p, IF operation = "open" THEN "opening" ELSE "waiting")
    /\ op' = [op EXCEPT ![p] = operation]
    /\ UNCHANGED <<files, lock, adds, new, opened, view, acked, faults, sound>>

(* _FileLock.__enter__ *)
Acquire(p) ==
    /\ At(p, "waiting")
    /\ lock = NoOne
    /\ lock' = p
    /\ Goto(p, "holding")
    /\ UNCHANGED <<files, op, adds, new, opened, view, acked, faults, sound>>

(* LockTimeout: the lock was taken by somebody else for 10 seconds. *)
LockTimeout(p) ==
    /\ At(p, "waiting")
    /\ lock # NoOne
    /\ End(p)
    /\ UNCHANGED <<files, opened, view, acked, faults, sound>>

(* The call raises before it has changed a file: the state or the backup is
   not what load(), _verify_schema or migrate_legacy_state accept, or, of a
   write, the mutation itself is refused (authority, secrets). *)
Refuse(p) ==
    /\ At(p, "holding")
    /\ \/ op[p] = "write"
       \/ op[p] = "migrate" /\ state.kind \notin {"v1", "v2"}
       \/ op[p] = "backup" /\ ~Verified(state, p)
       \/ op[p] = "restore" /\ ~Verified(bak, p)
    /\ End(p)
    /\ view' = IF op[p] = "write" /\ Loadable(state, p)
                  THEN [view EXCEPT ![p] = state.records] ELSE view
    /\ UNCHANGED <<files, opened, acked, faults, sound>>

(* There is no state file but there is a backup: what a crash between
   RotateState and Commit leaves behind.  initialize and load() take this for
   fresh storage. *)
StartsOver == state = Missing /\ bak # Missing

(* initialize: write an empty state when there is no state file. *)
InitializeCheck(p) ==
    /\ At(p, "holding")
    /\ op[p] = "initialize"
    /\ Goto(p, IF state = Missing THEN "commit" ELSE "meta")
    /\ sound' = (sound /\ ~StartsOver)
    /\ UNCHANGED <<files, lock, op, adds, new, opened, view, acked, faults>>

(* Mutant: the mutation is applied to the live view as it is. *)
MutateStaleView(p, k) ==
    /\ At(p, "holding")
    /\ op[p] = "write"
    /\ Loadable(state, p)
    /\ adds' = [adds EXCEPT ![p] = {<<Identity[p], k>>}]
    /\ LET records == view[p] \cup {<<Identity[p], k>>} IN
          /\ view' = [view EXCEPT ![p] = records]
          /\ new' = [new EXCEPT ![p] = records]
    /\ Goto(p, "rotate")
    /\ sound' = (sound /\ ~StartsOver)
    /\ UNCHANGED <<files, lock, op, opened, acked, faults>>

(* _mutate: refresh the live view from disk, apply the mutation, dump. *)
Mutate(p, k) ==
    /\ At(p, "holding")
    /\ op[p] = "write"
    /\ Loadable(state, p)
    /\ adds' = [adds EXCEPT ![p] = {<<Identity[p], k>>}]
    /\ LET records == state.records \cup {<<Identity[p], k>>} IN
          /\ view' = [view EXCEPT ![p] = records]
          /\ new' = [new EXCEPT ![p] = records]
    /\ Goto(p, "rotate")
    /\ sound' = (sound /\ ~StartsOver)
    /\ UNCHANGED <<files, lock, op, opened, acked, faults>>

(* migrate_legacy_state: a schema 1 file is rewritten with all its records, a
   current one, whoever it belongs to, is left alone. *)
MigrateLoad(p) ==
    /\ At(p, "holding")
    /\ op[p] = "migrate"
    /\ \/ /\ state.kind = "v1"
          /\ new' = [new EXCEPT ![p] = state.records]
          /\ Goto(p, "rotate")
       \/ /\ state.kind = "v2"
          /\ Goto(p, "done")
          /\ UNCHANGED new
    /\ UNCHANGED <<files, lock, op, adds, opened, view, acked, faults, sound>>

(* save_locked and migrate: drop the old backup, if there is a state file to
   take its place. *)
DropBackup(p) ==
    /\ At(p, "rotate")
    /\ IF state = Missing
          THEN Goto(p, "commit") /\ UNCHANGED bak
          ELSE Goto(p, "swap") /\ bak' = Missing
    /\ UNCHANGED <<state, lock, op, adds, new, opened, view, acked, faults, sound>>

(* Mutant: the old state is unlinked, not moved to .bak. *)
UnlinkState(p) ==
    /\ At(p, "swap")
    /\ state' = Missing
    /\ Goto(p, "commit")
    /\ UNCHANGED <<bak, lock, op, adds, new, opened, view, acked, faults, sound>>

(* os.replace(state_path, backup_path): no state file from here to Commit. *)
RotateState(p) ==
    /\ At(p, "swap")
    /\ bak' = state
    /\ state' = Missing
    /\ Goto(p, "commit")
    /\ UNCHANGED <<lock, op, adds, new, opened, view, acked, faults, sound>>

(* _write_state_atomic_locked: the temporary file is written, then moved into
   place. *)
Commit(p) ==
    /\ At(p, "commit")
    /\ state' = Current(p, new[p])
    /\ Goto(p, "meta")
    /\ UNCHANGED <<bak, lock, op, adds, new, opened, view, acked, faults, sound>>

(* _write_meta_locked, whatever identity the state file has. *)
WriteMeta(p) ==
    /\ At(p, "meta")
    /\ Goto(p, "done")
    /\ UNCHANGED <<files, lock, op, adds, new, opened, view, acked, faults, sound>>

(* backup: verify the state and write a copy of it to .bak. *)
BackupLoad(p) ==
    /\ At(p, "holding")
    /\ op[p] = "backup"
    /\ Verified(state, p)
    /\ new' = [new EXCEPT ![p] = state.records]
    /\ Goto(p, "copy")
    /\ UNCHANGED <<files, lock, op, adds, opened, view, acked, faults, sound>>

BackupCommit(p) ==
    /\ At(p, "copy")
    /\ bak' = Current(p, new[p])
    /\ Goto(p, "done")
    /\ UNCHANGED <<state, lock, op, adds, new, opened, view, acked, faults, sound>>

(* restore_from_backup: verify the backup, move the state file aside (to a
   file nothing reads), move the backup into its place.  The backup is used
   up, and what a state file that was there had beyond it is gone. *)
RestoreLoad(p) ==
    /\ At(p, "holding")
    /\ op[p] = "restore"
    /\ Verified(bak, p)
    /\ Goto(p, "aside")
    /\ UNCHANGED <<files, lock, op, adds, new, opened, view, acked, faults, sound>>

RestoreAside(p) ==
    /\ At(p, "aside")
    /\ state' = Missing
    /\ Goto(p, "bringback")
    /\ sound' = (sound /\ state = Missing)
    /\ UNCHANGED <<bak, lock, op, adds, new, opened, view, acked, faults>>

RestoreBringBack(p) ==
    /\ At(p, "bringback")
    /\ state' = bak
    /\ bak' = Missing
    /\ Goto(p, "meta")
    /\ UNCHANGED <<lock, op, adds, new, opened, view, acked, faults, sound>>

(* The call returns.  A write is now acknowledged; make_persistent_memory
   goes on to open, without the lock. *)
Return(p) ==
    /\ At(p, "done")
    /\ acked' = acked \cup adds[p]
    /\ IF op[p] = "initialize"
          THEN /\ Goto(p, "opening")
               /\ lock' = NoOne
               /\ UNCHANGED <<op, adds, new>>
          ELSE End(p)
    /\ UNCHANGED <<files, opened, view, faults, sound>>

(* ProjectMemory.__init__: load() outside the lock; a state it may not load
   makes the constructor raise. *)
Open(p) ==
    /\ At(p, "opening")
    /\ End(p)
    /\ \/ /\ Loadable(state, p)
          /\ opened' = [opened EXCEPT ![p] = TRUE]
          /\ view' = [view EXCEPT ![p] = state.records]
       \/ /\ ~Loadable(state, p)
          /\ UNCHANGED <<opened, view>>
    /\ UNCHANGED <<files, acked, faults, sound>>
-----------------------------------------------------------------------------
Fault(kind) ==
    /\ kind \in FaultKinds
    /\ faults < MaxFaults
    /\ faults' = faults + 1

(* Writing a temporary file, or a replace, fails (no space, an I/O error):
   the exception releases the lock and leaves the files as they are. *)
WriteFails(p) ==
    /\ Fault("io")
    /\ pc[p] \in {"rotate", "swap", "commit", "meta", "copy",
                  "aside", "bringback"}
    /\ End(p)
    /\ UNCHANGED <<files, opened, view, acked, sound>>

(* The process dies in the middle of a call; the kernel frees its flock. *)
Crash(p) ==
    /\ Fault("crash")
    /\ pc[p] # "idle"
    /\ End(p)
    /\ opened' = [opened EXCEPT ![p] = FALSE]
    /\ view' = [view EXCEPT ![p] = {}]
    /\ UNCHANGED <<files, acked, sound>>

(* The state file is damaged from outside. *)
Damage ==
    /\ Fault("damage")
    /\ state.kind \in {"v1", "v2"}
    /\ state' = Garbage
    /\ sound' = FALSE
    /\ UNCHANGED <<bak, lock, locals, acked>>

Step(p) ==
    \/ Acquire(p) \/ LockTimeout(p) \/ Refuse(p)
    \/ InitializeCheck(p) \/ MigrateLoad(p) \/ (\E k \in Keys : Mutate(p, k))
    \/ DropBackup(p) \/ RotateState(p) \/ Commit(p)
    \/ WriteMeta(p) \/ BackupLoad(p) \/ BackupCommit(p)
    \/ RestoreLoad(p) \/ RestoreAside(p) \/ RestoreBringBack(p)
    \/ Return(p) \/ Open(p)

Next ==
    \/ \E p \in Processes :
          \/ \E operation \in Operations[p] : Call(p, operation)
          \/ Step(p)
          \/ WriteFails(p)
          \/ Crash(p)
    \/ Damage

Spec == Init /\ [][Next]_vars
-----------------------------------------------------------------------------
(* The types of the files and of each process's locals. *)
TypeOK ==
    /\ state \in Files /\ bak \in Files
    /\ lock \in Processes \cup {NoOne}
    /\ pc \in [Processes -> Steps]
    /\ op \in [Processes -> {"none", "initialize", "open", "write", "migrate",
                             "backup", "restore"}]
    /\ adds \in [Processes -> SUBSET Records]
    /\ new \in [Processes -> SUBSET Records]
    /\ opened \in [Processes -> BOOLEAN]
    /\ view \in [Processes -> SUBSET Records]
    /\ acked \in SUBSET Records
    /\ faults \in Nat
    /\ sound \in BOOLEAN

(* Project isolation, although both repositories use one root and one project
   id: a file never mixes records of two repository identities, and a live
   view never shows a record of another one, whatever was initialized,
   migrated, backed up or restored by whom, and whoever died half way. *)
Isolation ==
    /\ OwnedBy(state.records, state.owner)
    /\ OwnedBy(bak.records, bak.owner)
    /\ \A p \in Processes :
          /\ OwnedBy(view[p], Identity[p])
          /\ OwnedBy(new[p], Identity[p])

(* Writers never lose each other's records: what a process is about to put
   into place holds every record of the file it replaces, from the moment it
   read that file to the moment the new one is there. *)
NoLostUpdate ==
    \A p \in Processes :
       /\ pc[p] \in {"rotate", "swap"} => state.records \subseteq new[p]
       /\ pc[p] = "copy" /\ state.kind # "garbage" => new[p] = state.records

(* The records a recovery can still bring back: the state file's or, while
   there is none, the backup's. *)
Best == IF state = Missing THEN bak.records ELSE state.records

(* What the storage promises (module DurableStore): a record whose write
   returned stays stored whatever crashes and I/O errors happen and whatever
   is written, migrated or backed up in between.  The promise ends only with
   damage from outside, a restore over an existing state file, or a call
   that takes the leftover of an interrupted save for fresh storage. *)
Store == INSTANCE DurableStore WITH stored <- Best
Durable == Store!Spec

(* The lock is held from _FileLock.__enter__ to the end of the call and no
   longer: whoever is at work on the files has it, and no exit of any call, by
   return, refusal, I/O error or crash, and not the step from initializing to
   opening, leaves it behind. *)
AtWork(p) == pc[p] \notin {"idle", "waiting", "opening"}

LockInv == \A p \in Processes : lock = p <=> AtWork(p)

(* persistent_memory.py, save_locked: "a known-good copy always exists".
   Fails after a crash inside the save window: the next two saves drop it. *)
KnownGoodCopy == acked \subseteq state.records \cup bak.records

(* persistent_memory.py: "readers always see a complete state".  Fails: a
   constructor that loads inside a save window gets an empty view. *)
ReadersSeeCompleteState ==
    [][\A p \in Processes :
          (pc[p] = "opening" /\ pc'[p] = "idle" /\ opened'[p]) =>
             {r \in acked : r[1] = Identity[p]} \subseteq view'[p]]_vars
=============================================================================

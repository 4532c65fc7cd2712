------------------------------ MODULE FileLock ------------------------------
(***************************************************************************)
(* The lock of the memory storage: class _FileLock of                      *)
(* openclaw/persistent_memory.py, on both kinds of platform.  With fcntl   *)
(* the lock is a flock on a file that is never removed; without it (on     *)
(* Windows) the lock is the file itself, created with O_EXCL, removed at   *)
(* the end, and removed by others when it is older than STALE.             *)
(*                                                                         *)
(* A step is one system call.  Time passes in ticks; a file's age and a    *)
(* caller's waiting time count them as far as the code compares them.  A   *)
(* process may crash anywhere, and the write of the owner line may fail.   *)
(***************************************************************************)
EXTENDS Naturals, FiniteSets

CONSTANTS
    Processes,   \* the processes that use the storage root
    Platforms,   \* "fcntl", "windows": where the program may run
    TIMEOUT,     \* _LOCK_TIMEOUT_SECONDS, in ticks
    STALE,       \* _STALE_LOCK_SECONDS, in ticks
    MaxFaults    \* bound of the model on crashes and failed writes

ASSUME PlatformsAssumption == Platforms \subseteq {"fcntl", "windows"}
ASSUME TimesAssumption == TIMEOUT \in Nat /\ STALE \in Nat
ASSUME MaxFaultsAssumption == MaxFaults \in Nat

VARIABLES
    platform,  \* where this program runs
    slow,      \* may a holder keep the lock for longer than STALE
    present,   \* is there a lock file
    age,       \* its age, up to STALE + 1; with fcntl, since the lock was taken
    open,      \* processes whose descriptor holds the lock: the flock, or the
               \* handle that keeps others from removing the file
    pc,        \* [Processes -> step of the running call]
    waited,    \* [Processes -> ticks since the call began, up to TIMEOUT]
    faults,    \* crashes and failed writes so far
    failed     \* (history) live processes whose owner line was not written

environment == <<platform, slow>>
lockFile == <<present, age, open>>
vars == <<environment, lockFile, pc, waited, faults, failed>>

Steps == {"idle", "trying", "examining", "breaking", "writing", "inside",
          "closed"}

Init ==
    /\ platform \in Platforms
    /\ slow \in BOOLEAN
    /\ present = FALSE
    /\ age = 0
    /\ open = {}
    /\ pc = [p \in Processes |-> "idle"]
    /\ waited = [p \in Processes |-> 0]
    /\ faults = 0
    /\ failed = {}

At(p, step) == pc[p] = step
Goto(p, step) == pc' = [pc EXCEPT ![p] = step]
Timeless == UNCHANGED <<environment, waited, faults, failed>>
-----------------------------------------------------------------------------
(* `with storage.locked():` *)
Call(p) ==
    /\ At(p, "idle")
    /\ Goto(p, "trying")
    /\ waited' = [waited EXCEPT ![p] = 0]
    /\ UNCHANGED <<environment, lockFile, faults, failed>>

(* The lock is p's: it has a descriptor on a file that is new or fresh. *)
Taken(p) ==
    /\ present' = TRUE
    /\ age' = 0
    /\ open' = open \cup {p}
    /\ Goto(p, "writing")
    /\ Timeless

(* Mutant: the file is opened without O_EXCL. *)
CreateShared(p) ==
    /\ platform = "windows"
    /\ At(p, "trying")
    /\ Taken(p)

(* os.open with O_EXCL *)
Create(p) ==
    /\ platform = "windows"
    /\ At(p, "trying")
    /\ ~present
    /\ Taken(p)

(* Mutant: LOCK_SH in place of LOCK_EX. *)
FlockShared(p) ==
    /\ platform = "fcntl"
    /\ At(p, "trying")
    /\ Taken(p)

(* flock with LOCK_NB *)
Flock(p) ==
    /\ platform = "fcntl"
    /\ At(p, "trying")
    /\ open = {}
    /\ Taken(p)

(* LockTimeout, after a try that failed.  The descriptor of a failed flock
   stays open but holds nothing. *)
GiveUp(p) ==
    /\ waited[p] >= TIMEOUT
    /\ Goto(p, "idle")
    /\ UNCHANGED <<environment, lockFile, waited, faults, failed>>

(* EAGAIN: give up or sleep, and try again. *)
FlockTaken(p) ==
    /\ platform = "fcntl"
    /\ At(p, "trying")
    /\ open # {}
    /\ GiveUp(p)

(* FileExistsError *)
FileExists(p) ==
    /\ platform = "windows"
    /\ At(p, "trying")
    /\ present
    /\ Goto(p, "examining")
    /\ UNCHANGED lockFile /\ Timeless

IsStale == present /\ age > STALE

(* Mutant: the deadline is not looked at. *)
ExamineForever(p) ==
    /\ At(p, "examining")
    /\ Goto(p, IF IsStale THEN "breaking" ELSE "trying")
    /\ UNCHANGED lockFile /\ Timeless

(* stat: a file that has vanished meanwhile has age 0. *)
Examine(p) ==
    /\ At(p, "examining")
    /\ \/ IsStale /\ Goto(p, "breaking")
       \/ ~IsStale /\ GiveUp(p)
       \/ ~IsStale /\ waited[p] < TIMEOUT /\ Goto(p, "trying")
    /\ UNCHANGED lockFile /\ Timeless

(* unlink(missing_ok=True) on Windows: a file that somebody has open stays,
   and the caller gets a PermissionError. *)
Unlink == present' = (open # {}) /\ UNCHANGED <<age, open>>

(* Break the lock and try at once, or raise. *)
Break(p) ==
    /\ At(p, "breaking")
    /\ Unlink
    /\ Goto(p, IF present /\ open # {} THEN "idle" ELSE "trying")
    /\ Timeless
-----------------------------------------------------------------------------
(* The owner line is written: __enter__ returns. *)
WriteOwner(p) ==
    /\ At(p, "writing")
    /\ age' = 0
    /\ Goto(p, "inside")
    /\ UNCHANGED <<present, open>> /\ Timeless

(* Mutant: on fcntl platforms the lock is not given back. *)
ExitNothing(p) ==
    /\ At(p, "inside")
    /\ open' = IF platform = "fcntl" THEN open ELSE open \ {p}
    /\ Goto(p, IF platform = "fcntl" THEN "idle" ELSE "closed")
    /\ UNCHANGED <<present, age>> /\ Timeless

(* __exit__, however the body ended: unlock and close. *)
Exit(p) ==
    /\ At(p, "inside")
    /\ open' = open \ {p}
    /\ Goto(p, IF platform = "fcntl" THEN "idle" ELSE "closed")
    /\ UNCHANGED <<present, age>> /\ Timeless

(* __exit__ without fcntl: remove the file at the path, whosever it is by
   now. *)
Remove(p) ==
    /\ At(p, "closed")
    /\ Unlink
    /\ Goto(p, "idle")
    /\ Timeless
-----------------------------------------------------------------------------
Fault == faults < MaxFaults /\ faults' = faults + 1

(* os.write fails (no space): __enter__ raises with the lock taken, and
   __exit__ is not called. *)
WriteOwnerFails(p) ==
    /\ Fault
    /\ At(p, "writing")
    /\ Goto(p, "idle")
    /\ failed' = failed \cup {p}
    /\ UNCHANGED <<environment, lockFile, waited>>

(* The process dies, and what it had open is closed. *)
Crash(p) ==
    /\ Fault
    /\ ~At(p, "idle") \/ p \in open
    /\ open' = open \ {p}
    /\ failed' = failed \ {p}
    /\ Goto(p, "idle")
    /\ UNCHANGED <<environment, present, age, waited>>

Waiting(p) == pc[p] \in {"trying", "examining", "breaking"}
Holding(p) == pc[p] \in {"writing", "inside"}
Later(time, last) == IF time < last THEN time + 1 ELSE time

(* Time passes.  Unless holders may be slow, whoever has taken the lock gives
   it back before it is stale. *)
Tick ==
    /\ \/ slow
       \/ age < STALE
       \/ \A p \in Processes : ~Holding(p) /\ ~At(p, "closed")
    /\ age' = IF present THEN Later(age, STALE + 1) ELSE age
    /\ waited' = [p \in Processes |->
                     IF Waiting(p) THEN Later(waited[p], TIMEOUT) ELSE waited[p]]
    /\ UNCHANGED <<environment, present, open, pc, faults, failed>>

Step(p) ==
    \/ Create(p) \/ Flock(p) \/ FlockTaken(p) \/ FileExists(p)
    \/ Examine(p) \/ Break(p)
    \/ WriteOwner(p) \/ Exit(p) \/ Remove(p)

Next ==
    \/ \E p \in Processes :
          Call(p) \/ Step(p) \/ WriteOwnerFails(p) \/ Crash(p)
    \/ Tick

(* A call goes on, a body ends (its own waits have deadlines), time passes. *)
Fairness == WF_vars(Tick) /\ \A p \in Processes : WF_vars(Step(p))

Spec == Init /\ [][Next]_vars /\ Fairness
-----------------------------------------------------------------------------
TypeOK ==
    /\ platform \in {"fcntl", "windows"}
    /\ slow \in BOOLEAN
    /\ present \in BOOLEAN
    /\ age \in 0 .. STALE + 1
    /\ open \in SUBSET Processes
    /\ pc \in [Processes -> Steps]
    /\ waited \in [Processes -> 0 .. TIMEOUT]
    /\ faults \in 0 .. MaxFaults
    /\ failed \in SUBSET Processes

(* A process that holds the lock, or failed to write its owner line, has the
   one descriptor there is, on a file that is there: who finds the file stale
   cannot remove it, however late he comes. *)
LockInv ==
    /\ TypeOK
    /\ open = {p \in Processes : Holding(p)} \cup failed
    /\ \A p, q \in open : p = q
    /\ open # {} => present
    /\ \A p \in failed : ~Holding(p)

(* "Two writers serialize": never are two processes inside, whoever was slow
   and whoever broke which lock when. *)
Lock == INSTANCE Mutex WITH holders <- {p \in Processes : Holding(p)}
Serializes == Lock!Spec

(* The next caller can have the lock, at once or by breaking it. *)
Obtainable ==
    IF platform = "fcntl" THEN open = {} ELSE ~present \/ (IsStale /\ open = {})

(* The lock does not stay with a call that is over: again and again it can be
   had, unless a live process failed to write its owner line. *)
LockIsReleased == []<>(Obtainable \/ failed # {})

(* A waiting caller is answered, by the lock or by LockTimeout, whoever holds,
   leaked or left the lock; if holders may be slow, breaking without a look at
   the deadline can go on for ever. *)
CallersAreAnswered ==
    \A p \in Processes :
       (At(p, "trying") /\ ~slow) ~> (At(p, "inside") \/ At(p, "idle"))
=============================================================================

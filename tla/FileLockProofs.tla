--------------------------- MODULE FileLockProofs ---------------------------
(***************************************************************************)
(* Theorems about FileLock, for any number of processes, any timeout and   *)
(* stale age, and any number of crashes and failed writes: the lock is a   *)
(* mutex.                                                                  *)
(***************************************************************************)
EXTENDS FileLock, TLAPS

(* Init establishes the invariant. *)
LEMMA LockStarts == Init => LockInv
<1> SUFFICES ASSUME Init PROVE LockInv
  OBVIOUS
<1>1. TypeOK
  <2>1. 0 \in 0 .. STALE + 1 /\ 0 \in 0 .. TIMEOUT /\ 0 \in 0 .. MaxFaults
    BY TimesAssumption, MaxFaultsAssumption
  <2>2. pc \in [Processes -> Steps] /\ waited \in [Processes -> 0 .. TIMEOUT]
    BY <2>1 DEF Init, Steps
  <2>3. platform \in {"fcntl", "windows"}
    BY PlatformsAssumption DEF Init
  <2>4. QED
    BY <2>1, <2>2, <2>3 DEF Init, TypeOK
<1>2. \A p \in Processes : ~Holding(p)
  BY DEF Init, Holding
<1>3. open = {} /\ failed = {}
  BY DEF Init
<1>4. QED
  BY <1>1, <1>2, <1>3 DEF LockInv

(* Timers stay in their ranges. *)
LEMMA LaterInRange ==
  ASSUME NEW last \in Nat, NEW time \in 0 .. last
  PROVE  Later(time, last) \in 0 .. last
  BY DEF Later

(* The lock is taken only while nobody has a descriptor that holds it. *)
LEMMA TakenAlone ==
  ASSUME LockInv, NEW p \in Processes, At(p, "trying"), open = {}, Taken(p)
  PROVE  LockInv'
  BY TimesAssumption
  DEF LockInv, TypeOK, Taken, Timeless, environment, Goto, At, Holding, Steps

(* Every step of a call keeps the invariant. *)
LEMMA StepKeepsLockInv ==
  ASSUME LockInv, NEW p \in Processes, Step(p)
  PROVE  LockInv'
<1> USE DEF LockInv
<1>1. CASE Create(p)
  <2>1. open = {} BY <1>1 DEF Create
  <2>2. QED BY <1>1, <2>1, TakenAlone DEF Create
<1>2. CASE Flock(p)
  BY <1>2, TakenAlone DEF Flock
<1>3. CASE FlockTaken(p)
  BY <1>3 DEF FlockTaken, GiveUp, Goto, At, TypeOK, Steps, Holding, environment,
              lockFile
<1>4. CASE FileExists(p)
  BY <1>4 DEF FileExists, Timeless, Goto, At, TypeOK, Steps, Holding,
              environment, lockFile
<1>5. CASE Examine(p)
  BY <1>5 DEF Examine, GiveUp, Timeless, Goto, At, TypeOK, Steps, Holding,
              environment, lockFile
<1>6. CASE Break(p)
  <2>1. ~Holding(p) BY <1>6 DEF Break, At, Holding
  <2>2. PICK step \in {"idle", "trying"} : Goto(p, step)
    BY <1>6 DEF Break
  <2>3. QED
    BY <1>6, <2>1, <2>2
    DEF Break, Unlink, Timeless, Goto, TypeOK, Steps, Holding, environment
<1>7. CASE WriteOwner(p)
  <2>1. Holding(p) /\ 0 \in 0 .. STALE + 1
    BY <1>7, TimesAssumption DEF WriteOwner, At, Holding
  <2>2. QED
    BY <1>7, <2>1
    DEF WriteOwner, Timeless, Goto, TypeOK, Steps, Holding, environment
<1>8. CASE Exit(p)
  <2>1. Holding(p) /\ p \notin failed
    BY <1>8 DEF Exit, At, Holding
  <2>2. PICK step \in {"idle", "closed"} : Goto(p, step)
    BY <1>8 DEF Exit
  <2>3. open' = {q \in Processes : Holding(q)}' \cup failed'
    BY <1>8, <2>1, <2>2
    DEF Exit, Timeless, Goto, TypeOK, Steps, Holding
  <2>4. QED
    BY <1>8, <2>1, <2>2, <2>3
    DEF Exit, Timeless, Goto, TypeOK, Steps, Holding, environment
<1>9. CASE Remove(p)
  <2>1. ~Holding(p) BY <1>9 DEF Remove, At, Holding
  <2>2. QED
    BY <1>9, <2>1
    DEF Remove, Unlink, Timeless, Goto, TypeOK, Steps, Holding, environment
<1> QED
  BY <1>1, <1>2, <1>3, <1>4, <1>5, <1>6, <1>7, <1>8, <1>9 DEF Step

(* So does everything else that happens. *)
LEMMA LockInvKept == LockInv /\ [Next]_vars => LockInv'
<1> SUFFICES ASSUME LockInv, [Next]_vars PROVE LockInv'
  OBVIOUS
<1> USE DEF LockInv
<1>1. ASSUME NEW p \in Processes, Call(p) PROVE LockInv'
  <2>1. ~Holding(p) /\ 0 \in 0 .. TIMEOUT
    BY <1>1, TimesAssumption DEF Call, At, Holding
  <2>2. QED
    BY <1>1, <2>1
    DEF Call, Goto, TypeOK, Steps, Holding, environment, lockFile
<1>2. ASSUME NEW p \in Processes, Step(p) PROVE LockInv'
  BY <1>2, StepKeepsLockInv
<1>3. ASSUME NEW p \in Processes, WriteOwnerFails(p) PROVE LockInv'
  <2>1. Holding(p) BY <1>3 DEF WriteOwnerFails, At, Holding
  <2>2. faults' \in 0 .. MaxFaults
    BY <1>3, MaxFaultsAssumption DEF WriteOwnerFails, Fault, TypeOK
  <2>3. open' = {q \in Processes : Holding(q)}' \cup failed'
    BY <1>3, <2>1
    DEF WriteOwnerFails, Goto, TypeOK, Steps, Holding, lockFile
  <2>4. QED
    BY <1>3, <2>1, <2>2, <2>3
    DEF WriteOwnerFails, Goto, TypeOK, Steps, Holding, environment, lockFile
<1>4. ASSUME NEW p \in Processes, Crash(p) PROVE LockInv'
  <2>1. faults' \in 0 .. MaxFaults
    BY <1>4, MaxFaultsAssumption DEF Crash, Fault, TypeOK
  <2>2. open' = {q \in Processes : Holding(q)}' \cup failed'
    BY <1>4 DEF Crash, Goto, TypeOK, Steps, Holding
  <2>3. QED
    BY <1>4, <2>1, <2>2
    DEF Crash, Goto, TypeOK, Steps, Holding, environment
<1>5. CASE Tick
  <2>1. age' \in 0 .. STALE + 1
    BY <1>5, LaterInRange, TimesAssumption DEF Tick, TypeOK
  <2>2. waited' \in [Processes -> 0 .. TIMEOUT]
    BY <1>5, LaterInRange, TimesAssumption DEF Tick, TypeOK
  <2>3. QED
    BY <1>5, <2>1, <2>2 DEF Tick, TypeOK, Holding, environment
<1>6. CASE UNCHANGED vars
  BY <1>6 DEF vars, TypeOK, Holding, environment, lockFile
<1> QED
  BY <1>1, <1>2, <1>3, <1>4, <1>5, <1>6 DEF Next

(* The invariant behind the mutex: whoever is between taking the lock and
   giving it back has the only descriptor on a file that nobody can remove,
   however slow it is and however many others wait to break the lock. *)
THEOREM LockHeld == Spec => []LockInv
  BY LockStarts, LockInvKept, PTL DEF Spec

(* The holders of the abstract mutex. *)
LEMMA HoldersMove == LockInv /\ LockInv' /\ [Next]_vars =>
    [Lock!Next]_{p \in Processes : Holding(p)}
<1> DEFINE Holders == {p \in Processes : Holding(p)}
<1> SUFFICES ASSUME LockInv, LockInv', [Next]_vars
             PROVE  (\E p \in Processes : Lock!Enter(p) \/ Lock!Leave(p))
                       \/ Holders' = Holders
  BY DEF Lock!Next
<1>1. ASSUME NEW p \in Processes, Taken(p), open = {}
      PROVE  Lock!Enter(p)
  <2>1. Holders = {} BY <1>1 DEF LockInv
  <2>2. Holders' = {p}
    BY <1>1, <2>1 DEF LockInv, TypeOK, Taken, Goto, Holding
  <2>3. QED BY <2>1, <2>2 DEF Lock!Enter
<1>2. ASSUME NEW p \in Processes, NEW step \in Steps \ {"writing", "inside"},
             Goto(p, step), Holding(p)
      PROVE  Lock!Leave(p)
  <2>1. Holders' = Holders \ {p}
    BY <1>2 DEF LockInv, TypeOK, Goto, Holding
  <2>2. QED BY <1>2, <2>1 DEF Lock!Leave
<1>3. ASSUME NEW p \in Processes, NEW step \in Steps, Goto(p, step),
             Holding(p) <=> step \in {"writing", "inside"}
      PROVE  Holders' = Holders
  BY <1>3 DEF LockInv, TypeOK, Goto, Holding
<1>4. ASSUME NEW p \in Processes, Step(p)
      PROVE  Lock!Enter(p) \/ Lock!Leave(p) \/ Holders' = Holders
  <2>1. CASE Create(p)
    BY <2>1, <1>1 DEF Create, LockInv
  <2>2. CASE Flock(p)
    BY <2>2, <1>1 DEF Flock
  <2>3. CASE FlockTaken(p) \/ FileExists(p) \/ Examine(p) \/ Break(p)
    <3>1. ~Holding(p)
      BY <2>3 DEF FlockTaken, FileExists, Examine, Break, At, Holding
    <3>2. PICK step \in {"idle", "trying", "examining", "breaking"} :
             Goto(p, step)
      BY <2>3 DEF FlockTaken, FileExists, Examine, Break, GiveUp
    <3>3. QED BY <3>1, <3>2, <1>3 DEF Steps
  <2>4. CASE WriteOwner(p)
    BY <2>4, <1>3 DEF WriteOwner, At, Holding, Steps
  <2>5. CASE Exit(p)
    BY <2>5, <1>2 DEF Exit, At, Holding, Steps
  <2>6. CASE Remove(p)
    BY <2>6, <1>3 DEF Remove, At, Holding, Steps
  <2>7. QED BY <1>4, <2>1, <2>2, <2>3, <2>4, <2>5, <2>6 DEF Step
<1>5. ASSUME NEW p \in Processes, Call(p) PROVE Holders' = Holders
  BY <1>5, <1>3 DEF Call, At, Holding, Steps
<1>6. ASSUME NEW p \in Processes, WriteOwnerFails(p) PROVE Lock!Leave(p)
  BY <1>6, <1>2 DEF WriteOwnerFails, At, Holding, Steps
<1>7. ASSUME NEW p \in Processes, Crash(p)
      PROVE  Lock!Leave(p) \/ Holders' = Holders
  <2>1. CASE Holding(p) BY <1>7, <2>1, <1>2 DEF Crash, Steps
  <2>2. CASE ~Holding(p) BY <1>7, <2>2, <1>3 DEF Crash, Steps
  <2>3. QED BY <2>1, <2>2
<1>8. CASE Tick \/ UNCHANGED vars
  BY <1>8 DEF Tick, vars, Holding
<1>9. QED
  BY <1>4, <1>5, <1>6, <1>7, <1>8 DEF Next

(* The lock implements the mutex: "two writers serialize", with flock and
   without, after crashes, failed writes, and locks that others broke. *)
THEOREM LockSerializes == Spec => Serializes
<1>1. Init => {p \in Processes : Holding(p)} = {}
  BY DEF Init, Holding
<1>2. QED
  BY <1>1, LockHeld, HoldersMove, PTL
  DEF Spec, Serializes, Lock!Spec, Lock!Init
=============================================================================

------------------------- MODULE MemoryStorageProofs -------------------------
(***************************************************************************)
(* Theorems about MemoryStorage, for any processes, identities, keys,      *)
(* operations, initial files and number of faults.  The argument: whoever  *)
(* is past "waiting" holds the lock (LockInv); so nobody but the holder    *)
(* changes a file, and what the holder read is still there when it writes  *)
(* (NoLostUpdate, SoundInv); the refinement follows step by step.          *)
(***************************************************************************)
EXTENDS MemoryStorage, TLAPS

USE DEF files, locals, vars, AtWork

LEMMA Constants ==
    /\ Identity \in [Processes -> Identities]
    /\ NoOne \notin Processes
    /\ Nobody \notin Identities
    /\ Missing \in Files /\ Garbage \in Files
    /\ Missing.records = {} /\ Garbage.records = {}
    /\ Missing.kind = "missing" /\ Garbage.kind = "garbage"
    /\ Garbage # Missing
  BY IdentityAssumption, SentinelAssumption DEF Missing, Garbage, Files

LEMMA CurrentFile ==
    ASSUME NEW p \in Processes, NEW r \in SUBSET Records
    PROVE  /\ Current(p, r) \in Files
           /\ Current(p, r).records = r
           /\ Current(p, r).owner = Identity[p]
           /\ Current(p, r).kind = "v2"
           /\ Current(p, r) # Missing
  BY Constants DEF Current, Files, Missing

LEMMA TypeInit == Init => TypeOK
  BY Constants, InitialFilesAssumption DEF Init, TypeOK, Steps

LEMMA TypeNext == TypeOK /\ [Next]_vars => TypeOK'
  <1> SUFFICES ASSUME TypeOK, [Next]_vars PROVE TypeOK'
    OBVIOUS
  <1> USE DEF TypeOK, Steps, Goto, End, Fault
  <1>1. ASSUME NEW p \in Processes, NEW o \in Operations[p], Call(p, o)
        PROVE  TypeOK'
    BY <1>1, OperationsAssumption DEF Call
  <1>2. ASSUME NEW p \in Processes, Acquire(p) PROVE TypeOK'
    BY <1>2 DEF Acquire
  <1>3. ASSUME NEW p \in Processes, LockTimeout(p) PROVE TypeOK'
    BY <1>3 DEF LockTimeout
  <1>4. ASSUME NEW p \in Processes, Refuse(p) PROVE TypeOK'
    BY <1>4 DEF Refuse, Files
  <1>5. ASSUME NEW p \in Processes, InitializeCheck(p) PROVE TypeOK'
    BY <1>5 DEF InitializeCheck
  <1>6. ASSUME NEW p \in Processes, NEW k \in Keys, Mutate(p, k) PROVE TypeOK'
    <2>1. {<<Identity[p], k>>} \in SUBSET Records
      BY Constants DEF Records
    <2>2. state.records \cup {<<Identity[p], k>>} \in SUBSET Records
      BY <2>1 DEF Files
    <2> HIDE DEF Files, Records
    <2> QED
      BY <1>6, <2>1, <2>2 DEF Mutate
  <1>7. ASSUME NEW p \in Processes, MigrateLoad(p) PROVE TypeOK'
    BY <1>7 DEF MigrateLoad, Files
  <1>8. ASSUME NEW p \in Processes, DropBackup(p) PROVE TypeOK'
    BY <1>8, Constants DEF DropBackup
  <1>9. ASSUME NEW p \in Processes, RotateState(p) PROVE TypeOK'
    BY <1>9, Constants DEF RotateState
  <1>10. ASSUME NEW p \in Processes, Commit(p) PROVE TypeOK'
    BY <1>10, CurrentFile DEF Commit
  <1>11. ASSUME NEW p \in Processes, WriteMeta(p) PROVE TypeOK'
    BY <1>11 DEF WriteMeta
  <1>12. ASSUME NEW p \in Processes, BackupLoad(p) PROVE TypeOK'
    BY <1>12 DEF BackupLoad, Files
  <1>13. ASSUME NEW p \in Processes, BackupCommit(p) PROVE TypeOK'
    BY <1>13, CurrentFile DEF BackupCommit
  <1>14. ASSUME NEW p \in Processes, RestoreLoad(p) PROVE TypeOK'
    BY <1>14 DEF RestoreLoad
  <1>15. ASSUME NEW p \in Processes, RestoreAside(p) PROVE TypeOK'
    BY <1>15, Constants DEF RestoreAside
  <1>16. ASSUME NEW p \in Processes, RestoreBringBack(p) PROVE TypeOK'
    BY <1>16, Constants DEF RestoreBringBack
  <1>17. ASSUME NEW p \in Processes, Return(p) PROVE TypeOK'
    BY <1>17 DEF Return
  <1>18. ASSUME NEW p \in Processes, Open(p) PROVE TypeOK'
    BY <1>18 DEF Open, Files
  <1>19. ASSUME NEW p \in Processes, WriteFails(p) PROVE TypeOK'
    BY <1>19, MaxFaultsAssumption DEF WriteFails
  <1>20. ASSUME NEW p \in Processes, Crash(p) PROVE TypeOK'
    BY <1>20, MaxFaultsAssumption DEF Crash
  <1>21. ASSUME Damage PROVE TypeOK'
    <2>1. state' \in Files
      BY <1>21, Constants DEF Damage
    <2>2. sound' \in BOOLEAN
      BY <1>21 DEF Damage
    <2>3. faults' \in Nat
      BY <1>21 DEF Damage
    <2> QED
      BY <1>21, <2>1, <2>2, <2>3 DEF Damage
  <1>22. ASSUME UNCHANGED vars PROVE TypeOK'
    BY <1>22
  <1> QED
    BY <1>1, <1>2, <1>3, <1>4, <1>5, <1>6, <1>7, <1>8, <1>9, <1>10, <1>11,
       <1>12, <1>13, <1>14, <1>15, <1>16, <1>17, <1>18, <1>19, <1>20, <1>21,
       <1>22 DEF Next, Step

(* The files and every process's locals keep their types (MemoryStorage's
   TypeOK), whatever crashes and I/O errors cut a call short. *)
THEOREM StorageTypeCorrect == Spec => []TypeOK
  BY TypeInit, TypeNext, PTL DEF Spec
-----------------------------------------------------------------------------
(* LockInv is inductive with the types. *)
LEMMA LockNext == TypeOK /\ LockInv /\ [Next]_vars => LockInv'
  <1> SUFFICES ASSUME TypeOK /\ LockInv, [Next]_vars PROVE LockInv'
    OBVIOUS
  <1> USE SentinelAssumption DEF TypeOK, LockInv, Steps, At, Goto, End
  <1>1. ASSUME NEW p \in Processes, NEW o \in Operations[p], Call(p, o) PROVE LockInv'
    BY <1>1 DEF Call
  <1>2. ASSUME NEW p \in Processes, Acquire(p) PROVE LockInv'
    BY <1>2, SentinelAssumption DEF Acquire
  <1>3. ASSUME NEW p \in Processes, LockTimeout(p) PROVE LockInv'
    BY <1>3 DEF LockTimeout
  <1>4. ASSUME NEW p \in Processes, Refuse(p) PROVE LockInv'
    BY <1>4 DEF Refuse
  <1>5. ASSUME NEW p \in Processes, InitializeCheck(p) PROVE LockInv'
    BY <1>5 DEF InitializeCheck
  <1>6. ASSUME NEW p \in Processes, NEW k \in Keys, Mutate(p, k) PROVE LockInv'
    BY <1>6 DEF Mutate
  <1>7. ASSUME NEW p \in Processes, MigrateLoad(p) PROVE LockInv'
    BY <1>7 DEF MigrateLoad
  <1>8. ASSUME NEW p \in Processes, DropBackup(p) PROVE LockInv'
    BY <1>8 DEF DropBackup
  <1>9. ASSUME NEW p \in Processes, RotateState(p) PROVE LockInv'
    BY <1>9 DEF RotateState
  <1>10. ASSUME NEW p \in Processes, Commit(p) PROVE LockInv'
    BY <1>10 DEF Commit
  <1>11. ASSUME NEW p \in Processes, WriteMeta(p) PROVE LockInv'
    BY <1>11 DEF WriteMeta
  <1>12. ASSUME NEW p \in Processes, BackupLoad(p) PROVE LockInv'
    BY <1>12 DEF BackupLoad
  <1>13. ASSUME NEW p \in Processes, BackupCommit(p) PROVE LockInv'
    BY <1>13 DEF BackupCommit
  <1>14. ASSUME NEW p \in Processes, RestoreLoad(p) PROVE LockInv'
    BY <1>14 DEF RestoreLoad
  <1>15. ASSUME NEW p \in Processes, RestoreAside(p) PROVE LockInv'
    BY <1>15 DEF RestoreAside
  <1>16. ASSUME NEW p \in Processes, RestoreBringBack(p) PROVE LockInv'
    BY <1>16 DEF RestoreBringBack
  <1>17. ASSUME NEW p \in Processes, Return(p) PROVE LockInv'
    BY <1>17 DEF Return
  <1>18. ASSUME NEW p \in Processes, Open(p) PROVE LockInv'
    BY <1>18 DEF Open
  <1>19. ASSUME NEW p \in Processes, WriteFails(p) PROVE LockInv'
    BY <1>19 DEF WriteFails
  <1>20. ASSUME NEW p \in Processes, Crash(p) PROVE LockInv'
    BY <1>20 DEF Crash
  <1>21. ASSUME Damage PROVE LockInv'
    BY <1>21 DEF Damage
  <1>22. ASSUME UNCHANGED vars PROVE LockInv'
    BY <1>22
  <1> QED
    BY <1>1, <1>2, <1>3, <1>4, <1>5, <1>6, <1>7, <1>8, <1>9, <1>10, <1>11,
       <1>12, <1>13, <1>14, <1>15, <1>16, <1>17, <1>18, <1>19, <1>20, <1>21,
       <1>22 DEF Next, Step

(* What a call carries with it: nothing before it has read a file, and never
   more than one record of its own. *)
CallInv ==
    \A p \in Processes :
       /\ pc[p] \in {"idle", "waiting", "holding", "opening"}
             \/ op[p] = "initialize"
          => adds[p] = {} /\ new[p] = {}
       /\ pc[p] \in {"copy", "aside", "bringback"} => adds[p] = {}
       /\ adds[p] = {} \/ \E r \in Records : adds[p] = {r}

LEMMA CallNext == TypeOK /\ CallInv /\ [Next]_vars => CallInv'
  <1> SUFFICES ASSUME TypeOK /\ CallInv, [Next]_vars PROVE CallInv'
    OBVIOUS
  <1> USE DEF TypeOK, CallInv, Steps, At, Goto, End
  <1>1. ASSUME NEW p \in Processes, NEW o \in Operations[p], Call(p, o) PROVE CallInv'
    BY <1>1 DEF Call
  <1>2. ASSUME NEW p \in Processes, Acquire(p) PROVE CallInv'
    BY <1>2 DEF Acquire
  <1>3. ASSUME NEW p \in Processes, LockTimeout(p) PROVE CallInv'
    BY <1>3 DEF LockTimeout
  <1>4. ASSUME NEW p \in Processes, Refuse(p) PROVE CallInv'
    BY <1>4 DEF Refuse
  <1>5. ASSUME NEW p \in Processes, InitializeCheck(p) PROVE CallInv'
    BY <1>5 DEF InitializeCheck
  <1>6. ASSUME NEW p \in Processes, NEW k \in Keys, Mutate(p, k) PROVE CallInv'
    <2>1. <<Identity[p], k>> \in Records
      BY Constants DEF Records
    <2>2. adds' = [adds EXCEPT ![p] = {<<Identity[p], k>>}]
      BY <1>6 DEF Mutate
    <2>3. pc[p] = "holding" /\ pc'[p] = "rotate" /\ op'[p] = "write"
      BY <1>6 DEF Mutate
    <2>4. \A r \in Processes \ {p} :
             /\ adds'[r] = adds[r] /\ new'[r] = new[r]
             /\ pc'[r] = pc[r] /\ op'[r] = op[r]
      BY <1>6 DEF Mutate
    <2> QED
      BY <2>1, <2>2, <2>3, <2>4
  <1>7. ASSUME NEW p \in Processes, MigrateLoad(p) PROVE CallInv'
    BY <1>7 DEF MigrateLoad
  <1>8. ASSUME NEW p \in Processes, DropBackup(p) PROVE CallInv'
    BY <1>8 DEF DropBackup
  <1>9. ASSUME NEW p \in Processes, RotateState(p) PROVE CallInv'
    BY <1>9 DEF RotateState
  <1>10. ASSUME NEW p \in Processes, Commit(p) PROVE CallInv'
    BY <1>10 DEF Commit
  <1>11. ASSUME NEW p \in Processes, WriteMeta(p) PROVE CallInv'
    BY <1>11 DEF WriteMeta
  <1>12. ASSUME NEW p \in Processes, BackupLoad(p) PROVE CallInv'
    BY <1>12 DEF BackupLoad
  <1>13. ASSUME NEW p \in Processes, BackupCommit(p) PROVE CallInv'
    BY <1>13 DEF BackupCommit
  <1>14. ASSUME NEW p \in Processes, RestoreLoad(p) PROVE CallInv'
    BY <1>14 DEF RestoreLoad
  <1>15. ASSUME NEW p \in Processes, RestoreAside(p) PROVE CallInv'
    BY <1>15 DEF RestoreAside
  <1>16. ASSUME NEW p \in Processes, RestoreBringBack(p) PROVE CallInv'
    BY <1>16 DEF RestoreBringBack
  <1>17. ASSUME NEW p \in Processes, Return(p) PROVE CallInv'
    BY <1>17 DEF Return
  <1>18. ASSUME NEW p \in Processes, Open(p) PROVE CallInv'
    BY <1>18 DEF Open
  <1>19. ASSUME NEW p \in Processes, WriteFails(p) PROVE CallInv'
    BY <1>19 DEF WriteFails
  <1>20. ASSUME NEW p \in Processes, Crash(p) PROVE CallInv'
    BY <1>20 DEF Crash
  <1>21. ASSUME Damage PROVE CallInv'
    BY <1>21 DEF Damage
  <1>22. ASSUME UNCHANGED vars PROVE CallInv'
    BY <1>22
  <1> QED
    BY <1>1, <1>2, <1>3, <1>4, <1>5, <1>6, <1>7, <1>8, <1>9, <1>10, <1>11,
       <1>12, <1>13, <1>14, <1>15, <1>16, <1>17, <1>18, <1>19, <1>20, <1>21,
       <1>22 DEF Next, Step

(* What is known of a file whatever happened to it. *)
FileInv ==
    \A file \in {state, bak} :
       /\ OwnedBy(file.records, file.owner)
       /\ file.kind = "v1" => file.owner = Nobody
       /\ file.kind = "missing" => file = Missing

IsolationInv == FileInv /\ Isolation

LEMMA IsolationNext == TypeOK /\ IsolationInv /\ [Next]_vars => IsolationInv'
  <1> SUFFICES ASSUME TypeOK /\ IsolationInv, [Next]_vars PROVE IsolationInv'
    OBVIOUS
  <1> USE DEF TypeOK, IsolationInv, FileInv, Isolation, OwnedBy, Files, Steps, At,
          Goto, End, Loadable, Verified
  <1>1. ASSUME NEW p \in Processes, NEW o \in Operations[p], Call(p, o) PROVE IsolationInv'
    BY <1>1 DEF Call
  <1>2. ASSUME NEW p \in Processes, Acquire(p) PROVE IsolationInv'
    BY <1>2 DEF Acquire
  <1>3. ASSUME NEW p \in Processes, LockTimeout(p) PROVE IsolationInv'
    BY <1>3 DEF LockTimeout
  <1>4. ASSUME NEW p \in Processes, Refuse(p) PROVE IsolationInv'
    BY <1>4, Constants DEF Refuse
  <1>5. ASSUME NEW p \in Processes, InitializeCheck(p) PROVE IsolationInv'
    BY <1>5 DEF InitializeCheck
  <1>6. ASSUME NEW p \in Processes, NEW k \in Keys, Mutate(p, k) PROVE IsolationInv'
    BY <1>6, Constants DEF Mutate
  <1>7. ASSUME NEW p \in Processes, MigrateLoad(p) PROVE IsolationInv'
    BY <1>7 DEF MigrateLoad
  <1>8. ASSUME NEW p \in Processes, DropBackup(p) PROVE IsolationInv'
    BY <1>8, Constants DEF DropBackup
  <1>9. ASSUME NEW p \in Processes, RotateState(p) PROVE IsolationInv'
    BY <1>9, Constants DEF RotateState
  <1>10. ASSUME NEW p \in Processes, Commit(p) PROVE IsolationInv'
    BY <1>10, CurrentFile DEF Commit
  <1>11. ASSUME NEW p \in Processes, WriteMeta(p) PROVE IsolationInv'
    BY <1>11 DEF WriteMeta
  <1>12. ASSUME NEW p \in Processes, BackupLoad(p) PROVE IsolationInv'
    BY <1>12 DEF BackupLoad
  <1>13. ASSUME NEW p \in Processes, BackupCommit(p) PROVE IsolationInv'
    BY <1>13, CurrentFile DEF BackupCommit
  <1>14. ASSUME NEW p \in Processes, RestoreLoad(p) PROVE IsolationInv'
    BY <1>14 DEF RestoreLoad
  <1>15. ASSUME NEW p \in Processes, RestoreAside(p) PROVE IsolationInv'
    BY <1>15, Constants DEF RestoreAside
  <1>16. ASSUME NEW p \in Processes, RestoreBringBack(p) PROVE IsolationInv'
    BY <1>16, Constants DEF RestoreBringBack
  <1>17. ASSUME NEW p \in Processes, Return(p) PROVE IsolationInv'
    BY <1>17 DEF Return
  <1>18. ASSUME NEW p \in Processes, Open(p) PROVE IsolationInv'
    BY <1>18, Constants DEF Open
  <1>19. ASSUME NEW p \in Processes, WriteFails(p) PROVE IsolationInv'
    BY <1>19 DEF WriteFails
  <1>20. ASSUME NEW p \in Processes, Crash(p) PROVE IsolationInv'
    BY <1>20 DEF Crash
  <1>21. ASSUME Damage PROVE IsolationInv'
    BY <1>21, Constants DEF Damage
  <1>22. ASSUME UNCHANGED vars PROVE IsolationInv'
    BY <1>22
  <1> QED
    BY <1>1, <1>2, <1>3, <1>4, <1>5, <1>6, <1>7, <1>8, <1>9, <1>10, <1>11,
       <1>12, <1>13, <1>14, <1>15, <1>16, <1>17, <1>18, <1>19, <1>20, <1>21,
       <1>22 DEF Next, Step

LEMMA LostUpdateNext == TypeOK /\ LockInv /\ IsolationInv /\ NoLostUpdate /\ [Next]_vars => NoLostUpdate'
  <1> SUFFICES ASSUME TypeOK /\ LockInv /\ IsolationInv /\ NoLostUpdate, [Next]_vars PROVE NoLostUpdate'
    OBVIOUS
  <1> USE DEF TypeOK, LockInv, NoLostUpdate, Steps, At, Goto, End
  <1>1. ASSUME NEW p \in Processes, NEW o \in Operations[p], Call(p, o) PROVE NoLostUpdate'
    BY <1>1 DEF Call
  <1>2. ASSUME NEW p \in Processes, Acquire(p) PROVE NoLostUpdate'
    BY <1>2 DEF Acquire
  <1>3. ASSUME NEW p \in Processes, LockTimeout(p) PROVE NoLostUpdate'
    BY <1>3 DEF LockTimeout
  <1>4. ASSUME NEW p \in Processes, Refuse(p) PROVE NoLostUpdate'
    BY <1>4 DEF Refuse
  <1>5. ASSUME NEW p \in Processes, InitializeCheck(p) PROVE NoLostUpdate'
    BY <1>5 DEF InitializeCheck
  <1>6. ASSUME NEW p \in Processes, NEW k \in Keys, Mutate(p, k) PROVE NoLostUpdate'
    BY <1>6 DEF Mutate
  <1>7. ASSUME NEW p \in Processes, MigrateLoad(p) PROVE NoLostUpdate'
    BY <1>7 DEF MigrateLoad
  <1>8. ASSUME NEW p \in Processes, DropBackup(p) PROVE NoLostUpdate'
    BY <1>8 DEF DropBackup
  <1>9. ASSUME NEW p \in Processes, RotateState(p) PROVE NoLostUpdate'
    BY <1>9 DEF RotateState
  <1>10. ASSUME NEW p \in Processes, Commit(p) PROVE NoLostUpdate'
    BY <1>10 DEF Commit
  <1>11. ASSUME NEW p \in Processes, WriteMeta(p) PROVE NoLostUpdate'
    BY <1>11 DEF WriteMeta
  <1>12. ASSUME NEW p \in Processes, BackupLoad(p) PROVE NoLostUpdate'
    BY <1>12 DEF BackupLoad
  <1>13. ASSUME NEW p \in Processes, BackupCommit(p) PROVE NoLostUpdate'
    BY <1>13 DEF BackupCommit
  <1>14. ASSUME NEW p \in Processes, RestoreLoad(p) PROVE NoLostUpdate'
    BY <1>14 DEF RestoreLoad
  <1>15. ASSUME NEW p \in Processes, RestoreAside(p) PROVE NoLostUpdate'
    BY <1>15 DEF RestoreAside
  <1>16. ASSUME NEW p \in Processes, RestoreBringBack(p) PROVE NoLostUpdate'
    BY <1>16 DEF RestoreBringBack
  <1>17. ASSUME NEW p \in Processes, Return(p) PROVE NoLostUpdate'
    BY <1>17 DEF Return
  <1>18. ASSUME NEW p \in Processes, Open(p) PROVE NoLostUpdate'
    BY <1>18 DEF Open
  <1>19. ASSUME NEW p \in Processes, WriteFails(p) PROVE NoLostUpdate'
    BY <1>19 DEF WriteFails
  <1>20. ASSUME NEW p \in Processes, Crash(p) PROVE NoLostUpdate'
    BY <1>20 DEF Crash
  <1>21. ASSUME Damage PROVE NoLostUpdate'
    BY <1>21, Constants DEF Damage
  <1>22. ASSUME UNCHANGED vars PROVE NoLostUpdate'
    BY <1>22
  <1> QED
    BY <1>1, <1>2, <1>3, <1>4, <1>5, <1>6, <1>7, <1>8, <1>9, <1>10, <1>11,
       <1>12, <1>13, <1>14, <1>15, <1>16, <1>17, <1>18, <1>19, <1>20, <1>21,
       <1>22 DEF Next, Step
-----------------------------------------------------------------------------
(* What the promise of DurableStore rests on while it stands: every
   acknowledged record is in the best copy, and a running call neither drops
   one nor puts down anything but its own. *)
SoundInv ==
    sound =>
       /\ acked \subseteq Best
       /\ \A p \in Processes :
             /\ pc[p] \in {"rotate", "swap", "commit"}
                   => new[p] = Best \cup adds[p]
             /\ pc[p] \in {"swap", "copy"} => state # Missing
             /\ pc[p] = "bringback" => state = Missing
             /\ pc[p] \in {"meta", "done"} => adds[p] \subseteq Best

Inv == TypeOK /\ LockInv /\ CallInv /\ IsolationInv /\ NoLostUpdate /\ SoundInv

LEMMA SoundNext == Inv /\ [Next]_vars => SoundInv'
  <1> SUFFICES ASSUME Inv, [Next]_vars PROVE SoundInv'
    OBVIOUS
  <1> USE DEF Inv, TypeOK, LockInv, CallInv, SoundInv, Best, Steps, At, Goto,
          End
  <1>1. ASSUME NEW p \in Processes, NEW o \in Operations[p], Call(p, o) PROVE SoundInv'
    BY <1>1 DEF Call
  <1>2. ASSUME NEW p \in Processes, Acquire(p) PROVE SoundInv'
    BY <1>2 DEF Acquire
  <1>3. ASSUME NEW p \in Processes, LockTimeout(p) PROVE SoundInv'
    BY <1>3 DEF LockTimeout
  <1>4. ASSUME NEW p \in Processes, Refuse(p) PROVE SoundInv'
    BY <1>4 DEF Refuse
  <1>5. ASSUME NEW p \in Processes, InitializeCheck(p) PROVE SoundInv'
    <2> SUFFICES ASSUME sound' PROVE SoundInv'
      BY DEF SoundInv
    <2>1. sound /\ ~StartsOver
      BY <1>5 DEF InitializeCheck
    <2> QED
      BY <1>5, <2>1, Constants DEF InitializeCheck, StartsOver
  <1>6. ASSUME NEW p \in Processes, NEW k \in Keys, Mutate(p, k) PROVE SoundInv'
    <2> SUFFICES ASSUME sound' PROVE SoundInv'
      BY DEF SoundInv
    <2>1. sound /\ ~StartsOver
      BY <1>6 DEF Mutate
    <2>2. state.records = Best
      BY <1>6, <2>1, Constants
      DEF Mutate, StartsOver, Loadable, Verified, IsolationInv, FileInv
    <2> QED
      BY <1>6, <2>1, <2>2 DEF Mutate
  <1>7. ASSUME NEW p \in Processes, MigrateLoad(p) PROVE SoundInv'
    BY <1>7, Constants DEF MigrateLoad
  <1>8. ASSUME NEW p \in Processes, DropBackup(p) PROVE SoundInv'
    BY <1>8 DEF DropBackup
  <1>9. ASSUME NEW p \in Processes, RotateState(p) PROVE SoundInv'
    BY <1>9 DEF RotateState
  <1>10. ASSUME NEW p \in Processes, Commit(p) PROVE SoundInv'
    BY <1>10, CurrentFile DEF Commit
  <1>11. ASSUME NEW p \in Processes, WriteMeta(p) PROVE SoundInv'
    BY <1>11 DEF WriteMeta
  <1>12. ASSUME NEW p \in Processes, BackupLoad(p) PROVE SoundInv'
    BY <1>12, Constants DEF BackupLoad, Verified
  <1>13. ASSUME NEW p \in Processes, BackupCommit(p) PROVE SoundInv'
    BY <1>13 DEF BackupCommit
  <1>14. ASSUME NEW p \in Processes, RestoreLoad(p) PROVE SoundInv'
    BY <1>14 DEF RestoreLoad
  <1>15. ASSUME NEW p \in Processes, RestoreAside(p) PROVE SoundInv'
    <2> SUFFICES ASSUME sound' PROVE SoundInv'
      BY DEF SoundInv
    <2>1. sound /\ state = Missing
      BY <1>15 DEF RestoreAside
    <2> QED
      BY <1>15, <2>1 DEF RestoreAside
  <1>16. ASSUME NEW p \in Processes, RestoreBringBack(p) PROVE SoundInv'
    BY <1>16 DEF RestoreBringBack
  <1>17. ASSUME NEW p \in Processes, Return(p) PROVE SoundInv'
    BY <1>17 DEF Return
  <1>18. ASSUME NEW p \in Processes, Open(p) PROVE SoundInv'
    BY <1>18 DEF Open
  <1>19. ASSUME NEW p \in Processes, WriteFails(p) PROVE SoundInv'
    BY <1>19 DEF WriteFails
  <1>20. ASSUME NEW p \in Processes, Crash(p) PROVE SoundInv'
    BY <1>20 DEF Crash
  <1>21. ASSUME Damage PROVE SoundInv'
    BY <1>21 DEF Damage
  <1>22. ASSUME UNCHANGED vars PROVE SoundInv'
    BY <1>22
  <1> QED
    BY <1>1, <1>2, <1>3, <1>4, <1>5, <1>6, <1>7, <1>8, <1>9, <1>10, <1>11,
       <1>12, <1>13, <1>14, <1>15, <1>16, <1>17, <1>18, <1>19, <1>20, <1>21,
       <1>22 DEF Next, Step

LEMMA InvInit == Init => Inv
  <1> SUFFICES ASSUME Init PROVE Inv
    OBVIOUS
  <1>1. TypeOK
    BY TypeInit
  <1>2. LockInv /\ CallInv /\ NoLostUpdate
    BY SentinelAssumption DEF Init, LockInv, CallInv, NoLostUpdate
  <1>3. IsolationInv
    BY InitialFilesAssumption, Constants
    DEF Init, IsolationInv, FileInv, Isolation, OwnedBy, Missing
  <1>4. SoundInv
    BY DEF Init, SoundInv
  <1> QED
    BY <1>1, <1>2, <1>3, <1>4 DEF Inv

LEMMA InvNext == Inv /\ [Next]_vars => Inv'
  BY TypeNext, LockNext, CallNext, IsolationNext, LostUpdateNext, SoundNext
  DEF Inv

LEMMA InvAlways == Spec => []Inv
  BY InvInit, InvNext, PTL DEF Spec

(* LockInv: whoever is past waiting holds the lock, and only they do, so no
   exit of any call leaks it. *)
THEOREM LockIsHeldAtWork == Spec => []LockInv
  BY InvAlways, PTL DEF Inv

(* Isolation: no file mixes the records of two repositories and no live view
   shows another repository's, for any number of processes and repositories
   on one storage root. *)
THEOREM ProjectsAreIsolated == Spec => []Isolation
  BY InvAlways, PTL DEF Inv, IsolationInv

(* NoLostUpdate: a writer puts down everything the file it replaces held, for
   any number of concurrent writers, crashes and I/O errors. *)
THEOREM WritersKeepEachOther == Spec => []NoLostUpdate
  BY InvAlways, PTL DEF Inv
-----------------------------------------------------------------------------
(* The ghost never rises again, and nothing is un-acknowledged. *)
SoundFalls == (sound' => sound) /\ acked \subseteq acked'

LEMMA SoundOnlyFalls == TypeOK /\ [Next]_vars => SoundFalls
  <1> SUFFICES ASSUME TypeOK, [Next]_vars PROVE SoundFalls
    OBVIOUS
  <1> USE DEF SoundFalls, TypeOK, End
  <1>1. ASSUME NEW p \in Processes, NEW o \in Operations[p], Call(p, o) PROVE SoundFalls
    BY <1>1 DEF Call
  <1>2. ASSUME NEW p \in Processes, Acquire(p) PROVE SoundFalls
    BY <1>2 DEF Acquire
  <1>3. ASSUME NEW p \in Processes, LockTimeout(p) PROVE SoundFalls
    BY <1>3 DEF LockTimeout
  <1>4. ASSUME NEW p \in Processes, Refuse(p) PROVE SoundFalls
    BY <1>4 DEF Refuse
  <1>5. ASSUME NEW p \in Processes, InitializeCheck(p) PROVE SoundFalls
    BY <1>5 DEF InitializeCheck
  <1>6. ASSUME NEW p \in Processes, NEW k \in Keys, Mutate(p, k) PROVE SoundFalls
    BY <1>6 DEF Mutate
  <1>7. ASSUME NEW p \in Processes, MigrateLoad(p) PROVE SoundFalls
    BY <1>7 DEF MigrateLoad
  <1>8. ASSUME NEW p \in Processes, DropBackup(p) PROVE SoundFalls
    BY <1>8 DEF DropBackup
  <1>9. ASSUME NEW p \in Processes, RotateState(p) PROVE SoundFalls
    BY <1>9 DEF RotateState
  <1>10. ASSUME NEW p \in Processes, Commit(p) PROVE SoundFalls
    BY <1>10 DEF Commit
  <1>11. ASSUME NEW p \in Processes, WriteMeta(p) PROVE SoundFalls
    BY <1>11 DEF WriteMeta
  <1>12. ASSUME NEW p \in Processes, BackupLoad(p) PROVE SoundFalls
    BY <1>12 DEF BackupLoad
  <1>13. ASSUME NEW p \in Processes, BackupCommit(p) PROVE SoundFalls
    BY <1>13 DEF BackupCommit
  <1>14. ASSUME NEW p \in Processes, RestoreLoad(p) PROVE SoundFalls
    BY <1>14 DEF RestoreLoad
  <1>15. ASSUME NEW p \in Processes, RestoreAside(p) PROVE SoundFalls
    BY <1>15 DEF RestoreAside
  <1>16. ASSUME NEW p \in Processes, RestoreBringBack(p) PROVE SoundFalls
    BY <1>16 DEF RestoreBringBack
  <1>17. ASSUME NEW p \in Processes, Return(p) PROVE SoundFalls
    BY <1>17 DEF Return
  <1>18. ASSUME NEW p \in Processes, Open(p) PROVE SoundFalls
    BY <1>18 DEF Open
  <1>19. ASSUME NEW p \in Processes, WriteFails(p) PROVE SoundFalls
    BY <1>19 DEF WriteFails
  <1>20. ASSUME NEW p \in Processes, Crash(p) PROVE SoundFalls
    BY <1>20 DEF Crash
  <1>21. ASSUME Damage PROVE SoundFalls
    BY <1>21 DEF Damage
  <1>22. ASSUME UNCHANGED vars PROVE SoundFalls
    BY <1>22
  <1> QED
    BY <1>1, <1>2, <1>3, <1>4, <1>5, <1>6, <1>7, <1>8, <1>9, <1>10, <1>11,
       <1>12, <1>13, <1>14, <1>15, <1>16, <1>17, <1>18, <1>19, <1>20, <1>21,
       <1>22 DEF Next, Step

(* While the promise stands a step of the files is a step of the store. *)
KeepsPromise ==
    \/ \E r \in Records : Store!Put(r) \/ Store!Acknowledge(r)
    \/ Best' = Best /\ acked' = acked /\ sound' = sound

LEMMA SoundStep == Inv /\ sound' /\ [Next]_vars => KeepsPromise
  <1> SUFFICES ASSUME Inv /\ sound', [Next]_vars PROVE KeepsPromise
    OBVIOUS
  <1>0. sound
    BY SoundOnlyFalls DEF Inv, SoundFalls
  <1> USE <1>0 DEF Inv, TypeOK, LockInv, CallInv, SoundInv, KeepsPromise, Best,
          At, Goto, End
  <1>1. ASSUME NEW p \in Processes, NEW o \in Operations[p], Call(p, o) PROVE KeepsPromise
    BY <1>1 DEF Call
  <1>2. ASSUME NEW p \in Processes, Acquire(p) PROVE KeepsPromise
    BY <1>2 DEF Acquire
  <1>3. ASSUME NEW p \in Processes, LockTimeout(p) PROVE KeepsPromise
    BY <1>3 DEF LockTimeout
  <1>4. ASSUME NEW p \in Processes, Refuse(p) PROVE KeepsPromise
    BY <1>4 DEF Refuse
  <1>5. ASSUME NEW p \in Processes, InitializeCheck(p) PROVE KeepsPromise
    BY <1>5 DEF InitializeCheck
  <1>6. ASSUME NEW p \in Processes, NEW k \in Keys, Mutate(p, k) PROVE KeepsPromise
    BY <1>6 DEF Mutate
  <1>7. ASSUME NEW p \in Processes, MigrateLoad(p) PROVE KeepsPromise
    BY <1>7 DEF MigrateLoad
  <1>8. ASSUME NEW p \in Processes, DropBackup(p) PROVE KeepsPromise
    BY <1>8 DEF DropBackup
  <1>9. ASSUME NEW p \in Processes, RotateState(p) PROVE KeepsPromise
    BY <1>9 DEF RotateState
  <1>10. ASSUME NEW p \in Processes, Commit(p) PROVE KeepsPromise
    <2>1. Best' = Best \cup adds[p] /\ acked' = acked /\ sound' = sound
      BY <1>10, CurrentFile DEF Commit
    <2>2. CASE adds[p] = {}
      BY <2>1, <2>2
    <2>3. CASE \E r \in Records : adds[p] = {r}
      BY <2>1, <2>3 DEF Store!Put
    <2> QED
      BY <2>2, <2>3
  <1>11. ASSUME NEW p \in Processes, WriteMeta(p) PROVE KeepsPromise
    BY <1>11 DEF WriteMeta
  <1>12. ASSUME NEW p \in Processes, BackupLoad(p) PROVE KeepsPromise
    BY <1>12 DEF BackupLoad
  <1>13. ASSUME NEW p \in Processes, BackupCommit(p) PROVE KeepsPromise
    BY <1>13 DEF BackupCommit
  <1>14. ASSUME NEW p \in Processes, RestoreLoad(p) PROVE KeepsPromise
    BY <1>14 DEF RestoreLoad
  <1>15. ASSUME NEW p \in Processes, RestoreAside(p) PROVE KeepsPromise
    BY <1>15 DEF RestoreAside
  <1>16. ASSUME NEW p \in Processes, RestoreBringBack(p) PROVE KeepsPromise
    BY <1>16 DEF RestoreBringBack
  <1>17. ASSUME NEW p \in Processes, Return(p) PROVE KeepsPromise
    <2>1. Best' = Best /\ acked' = acked \cup adds[p] /\ sound' = sound
      BY <1>17 DEF Return
    <2>2. adds[p] \subseteq Best
      BY <1>17 DEF Return
    <2>3. CASE adds[p] = {}
      BY <2>1, <2>3
    <2>4. CASE \E r \in Records : adds[p] = {r}
      BY <2>1, <2>2, <2>4 DEF Store!Acknowledge
    <2> QED
      BY <2>3, <2>4
  <1>18. ASSUME NEW p \in Processes, Open(p) PROVE KeepsPromise
    BY <1>18 DEF Open
  <1>19. ASSUME NEW p \in Processes, WriteFails(p) PROVE KeepsPromise
    BY <1>19 DEF WriteFails
  <1>20. ASSUME NEW p \in Processes, Crash(p) PROVE KeepsPromise
    BY <1>20 DEF Crash
  <1>21. ASSUME Damage PROVE KeepsPromise
    BY <1>21 DEF Damage
  <1>22. ASSUME UNCHANGED vars PROVE KeepsPromise
    BY <1>22
  <1> QED
    BY <1>1, <1>2, <1>3, <1>4, <1>5, <1>6, <1>7, <1>8, <1>9, <1>10, <1>11,
       <1>12, <1>13, <1>14, <1>15, <1>16, <1>17, <1>18, <1>19, <1>20, <1>21,
       <1>22 DEF Next, Step

LEMMA StepImplements == Inv /\ [Next]_vars => [Store!Next]_(Store!storeVars)
  <1> SUFFICES ASSUME Inv, [Next]_vars PROVE [Store!Next]_(Store!storeVars)
    OBVIOUS
  <1>1. CASE sound'
    BY <1>1, SoundStep DEF KeepsPromise, Store!Next, Store!storeVars
  <1>2. CASE ~sound'
    <2>1. TypeOK'
      BY TypeNext DEF Inv
    <2>2. sound' = FALSE
      BY <1>2, <2>1 DEF TypeOK
    <2>3. Best' \in SUBSET Records /\ acked' \in SUBSET Records
      BY <2>1 DEF TypeOK, Files, Best
    <2>4. acked \subseteq acked'
      BY SoundOnlyFalls DEF Inv, SoundFalls
    <2> QED
      BY <2>2, <2>3, <2>4 DEF Store!Next, Store!Void
  <1> QED
    BY <1>1, <1>2

(* The files, the lock and the processes' steps implement DurableStore: a
   record becomes durable at one step (Commit), its writer is told later, and
   nothing but damage, a restore over an existing state file, or starting over
   on the leftover of an interrupted save ends the promise. *)
THEOREM StorageImplements == Spec => Durable
  <1>1. Init => Store!Init
    BY InitialFilesAssumption DEF Init, Store!Init, Best, Files, Missing
  <1> QED
    BY <1>1, StepImplements, InvAlways, PTL DEF Spec, Durable, Store!Spec

(* Kept: while the promise stands, every record whose write has returned is in
   the state file or, when there is none, in its backup. *)
THEOREM AcknowledgedAreKept == Spec => []Store!Kept
  <1>1. Inv => Store!Kept
    BY DEF Inv, SoundInv, Store!Kept
  <1> QED
    BY <1>1, InvAlways, PTL
=============================================================================

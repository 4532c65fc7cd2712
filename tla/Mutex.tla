-------------------------------- MODULE Mutex --------------------------------
(***************************************************************************)
(* What the memory lock is for: "two writers serialize"                    *)
(* (openclaw/persistent_memory.py, Guarantees).  Module FileLock           *)
(* implements it with what the platforms have for locks.                   *)
(***************************************************************************)
CONSTANT Processes

VARIABLE holders   \* the processes between a lock taken and given back

Init == holders = {}

Enter(p) == holders = {} /\ holders' = {p}

(* Given back, or lost with the process that held it. *)
Leave(p) == p \in holders /\ holders' = holders \ {p}

Next == \E p \in Processes : Enter(p) \/ Leave(p)

Spec == Init /\ [][Next]_holders
=============================================================================

---------------------------- MODULE DurableStore ----------------------------
(***************************************************************************)
(* What durable project memory promises its callers, without files, locks  *)
(* or processes: the docstrings of openclaw/persistent_memory.py and of    *)
(* ProjectMemory._mutate.  MemoryStorage implements it.                    *)
(***************************************************************************)
CONSTANT Records

VARIABLES
    stored,   \* the records the store would give back
    acked,    \* the records whose write has returned
    sound     \* nothing has voided the promise yet

storeVars == <<stored, acked, sound>>

Init == stored \in SUBSET Records /\ acked = {} /\ sound = TRUE

(* A record becomes durable, all at once. *)
Put(r) ==
    /\ sound
    /\ stored' = stored \cup {r}
    /\ UNCHANGED <<acked, sound>>

(* Its writer is told. *)
Acknowledge(r) ==
    /\ sound
    /\ r \in stored
    /\ acked' = acked \cup {r}
    /\ UNCHANGED <<stored, sound>>

(* The promise is void from now on, whatever happens to the records. *)
Void ==
    /\ sound' = FALSE
    /\ stored' \in SUBSET Records
    /\ acked' \in SUBSET Records
    /\ acked \subseteq acked'

Next == (\E r \in Records : Put(r) \/ Acknowledge(r)) \/ Void

Spec == Init /\ [][Next]_storeVars

(* An acknowledged record is stored. *)
Kept == sound => acked \subseteq stored
=============================================================================

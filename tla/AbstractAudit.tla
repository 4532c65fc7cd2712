--------------------------- MODULE AbstractAudit ---------------------------
(***************************************************************************)
(* What a run of the security gate promises its caller: the gatherers come *)
(* in their order, each adds what it may add in one step, and the decision *)
(* is made of all of it, or the run raises and leaves nothing; while it    *)
(* runs, its caller is told nothing else.  Module SecurityAudit takes the  *)
(* steps apart and implements this; module Pipeline, in which the caller   *)
(* and the world around it go on, implements it of a caller that also      *)
(* hears from others.  The parameters are the operators of module Gates of *)
(* the same names.                                                         *)
(***************************************************************************)
EXTENDS Naturals, Sequences

CONSTANTS
    GatheredBy,      \* what each gatherer may add, in their order
    Further(_, _),   \* a run with what one more gatherer has added
    Decide(_)        \* the decision over the blocking statuses

VARIABLES
    run,       \* the run in progress, or NoRun
    decision   \* what the caller was told last, or "None"

NoRun == [absent |-> TRUE]
NewRun == [step |-> 0, statuses |-> {}, clean |-> TRUE]

Init == run = NoRun /\ decision = "None"

Start ==
    /\ run = NoRun
    /\ run' = NewRun
    /\ decision' \in {decision, "None"}

Gather ==
    /\ run # NoRun
    /\ run.step < Len(GatheredBy)
    /\ \E found \in GatheredBy[run.step + 1] : run' = Further(run, found)
    /\ UNCHANGED decision

Return ==
    /\ run # NoRun
    /\ run.step = Len(GatheredBy)
    /\ decision' = Decide(run.statuses)
    /\ run' = NoRun

Raise ==
    /\ run # NoRun
    /\ run' = NoRun
    /\ UNCHANGED decision

Next == Start \/ Gather \/ Return \/ Raise

Spec == Init /\ [][Next]_<<run, decision>>

(* Of a caller that hears from others between runs. *)
Elsewhere == run = NoRun /\ UNCHANGED run

SharedSpec == Init /\ [][Next \/ Elsewhere]_<<run, decision>>
=============================================================================

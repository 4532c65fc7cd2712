--------------------------- MODULE MCMemoryStorage ---------------------------
(***************************************************************************)
(* Instances of MemoryStorage for TLC: two processes of one repository and *)
(* one of another that shares the storage root and the project id.         *)
(***************************************************************************)
EXTENDS MemoryStorage, TLC

CONSTANTS p1, p2, q, here, elsewhere, k, l

IdentityOf == (p1 :> here) @@ (p2 :> here) @@ (q :> elsewhere)
IdentityOfTwo == (p1 :> here) @@ (p2 :> here)

Fresh == {Missing}
FreshOrLegacy == {Missing, Legacy({Nobody} \X Keys)}

AllOperations ==
    {"initialize", "open", "write", "migrate", "backup", "restore"}

(* One process starts, writes and maintains the files, another of the same
   repository opens and writes, one of the other repository starts and
   writes. *)
MixedOperations == (p1 :> AllOperations \ {"open"}) @@ (p2 :> {"open", "write"})
                      @@ (q :> {"initialize", "write"})
(* The two keys are interchangeable: no definition and no constant names one
   of them. *)
KeySymmetry == Permutations({k, l})

StartAndWrite == [p \in Processes |-> {"initialize", "write"}]
=============================================================================

----------------------------- MODULE MCFileLock -----------------------------
(***************************************************************************)
(* Instances of FileLock for TLC.  A tick is ten seconds.                  *)
(***************************************************************************)
EXTENDS FileLock

CONSTANTS p1, p2, p3

BothPlatforms == {"fcntl", "windows"}
=============================================================================

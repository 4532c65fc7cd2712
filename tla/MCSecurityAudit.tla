-------------------------- MODULE MCSecurityAudit --------------------------
(***************************************************************************)
(* An instance of SecurityAudit for TLC: no definition of osv-scanner, so  *)
(* that the default scanner answers for it, and one scanner of the         *)
(* project's own.                                                          *)
(***************************************************************************)
EXTENDS SecurityAudit

AllButOne == TOOLS \ {"osv-scanner"}
ProjectsOwn == {"semgrep"}
FullHost == {TOOLS}
AtMostOne == {{}} \cup {{tool} : tool \in TOOLS}
=============================================================================

------------------------------- MODULE Names -------------------------------
(***************************************************************************)
(* What every module speaks about: the fully qualified names of Go types   *)
(* (structer.TypeName) and the paths of packages.                          *)
(***************************************************************************)
CONSTANTS Types, Packages
=============================================================================

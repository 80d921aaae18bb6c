---------------------------- MODULE MCStateFile ----------------------------
(***************************************************************************)
(* An instance of StateFile small enough for TLC: two processes, a service *)
(* and a command in the foreground, two tokens, and a configuration that   *)
(* replaces the one an enrollment starts with.                             *)
(***************************************************************************)
EXTENDS StateFile

CONSTANTS service, foreground, one, other, changed

TwoProcesses == {service, foreground}
TwoTokens == {one, other}
OneConfiguration == {changed}
=============================================================================

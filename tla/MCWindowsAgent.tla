--------------------------- MODULE MCWindowsAgent ---------------------------
(***************************************************************************)
(* An instance of WindowsAgent small enough for TLC.                       *)
(***************************************************************************)
EXTENDS WindowsAgent

CONSTANTS h1, h2
=============================================================================

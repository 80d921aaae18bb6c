--------------------------- MODULE MCInstallation ---------------------------
(***************************************************************************)
(* An instance of Installation small enough for TLC.                       *)
(***************************************************************************)
EXTENDS Installation

CONSTANTS old, new

TwoVersions == {old, new}
=============================================================================

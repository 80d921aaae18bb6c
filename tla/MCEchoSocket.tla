---------------------------- MODULE MCEchoSocket ----------------------------
(***************************************************************************)
(* An instance of EchoSocket small enough for TLC.                         *)
(***************************************************************************)
EXTENDS EchoSocket

CONSTANTS h1, h2

(* Nobody, two hosts, and two targets that share an address. *)
FewLists == {<<>>, <<h1, h2>>, <<h1, h2, h1>>}
=============================================================================

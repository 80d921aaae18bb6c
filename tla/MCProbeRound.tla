---------------------------- MODULE MCProbeRound ----------------------------
(***************************************************************************)
(* Instances of ProbeRound small enough for TLC.                           *)
(***************************************************************************)
EXTENDS ProbeRound, TLC

CONSTANTS t1, t2, d1, d2, a1, a2, a3, lan, other

(* Two addresses on one network, one on another. *)
TwoNetworks == a1 :> lan @@ a2 :> lan @@ a3 :> other

(* One address on each of two networks. *)
OneEach == a1 :> lan @@ a2 :> other

NoForeign == {}

OtherForeign == {other}

(* Two targets, the second expected on the other network. *)
Apart == t1 :> a1 @@ t2 :> a3

(* Two targets, the first two addresses; both are known by a MAC, or one   *)
(* of them.                                                                *)
Together == t1 :> a1 @@ t2 :> a2

OneKnown == t1 :> d1 @@ t2 :> None

BothKnown == t1 :> d1 @@ t2 :> d2
=============================================================================

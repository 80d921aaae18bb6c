------------------------------- MODULE GoTime -------------------------------
(***************************************************************************)
(* Instants and durations of Go's package time, as the agent uses them.    *)
(*                                                                         *)
(* time.Now returns a wall reading together with a monotonic one.  Sub,    *)
(* After and Before compare two monotonic readings when both instants      *)
(* carry one and fall back on the wall readings otherwise; Add keeps the   *)
(* monotonic reading and Truncate strips it.  The fallback is what makes   *)
(* the order of three instants depend on which of them carry a reading:    *)
(* Before is not transitive over a mixture of them.                        *)
(*                                                                         *)
(* A duration is an integer number of ticks.                               *)
(***************************************************************************)
EXTENDS Integers

(* An instant without a monotonic reading has mono = 0 and hasMono FALSE.  *)
Time == [wall : Int, mono : Int, hasMono : BOOLEAN]

(* The zero time.Time. *)
ZeroTime == [wall |-> 0, mono |-> 0, hasMono |-> FALSE]

IsZero(t) == t = ZeroTime

(* The instant both clocks show; a test's injected clock has no second one. *)
Reading(wall, mono, hasMono) ==
  [wall |-> wall, mono |-> IF hasMono THEN mono ELSE 0, hasMono |-> hasMono]

Sub(t, u) ==
  IF t.hasMono /\ u.hasMono THEN t.mono - u.mono ELSE t.wall - u.wall

After(t, u) == Sub(t, u) > 0

Before(t, u) == Sub(t, u) < 0

Add(t, d) ==
  [wall    |-> t.wall + d,
   mono    |-> IF t.hasMono THEN t.mono + d ELSE 0,
   hasMono |-> t.hasMono]

Truncate(t, d) ==
  [wall |-> t.wall - (t.wall % d), mono |-> 0, hasMono |-> FALSE]
=============================================================================

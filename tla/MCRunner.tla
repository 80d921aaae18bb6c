------------------------------ MODULE MCRunner ------------------------------
(***************************************************************************)
(* Instances of Runner small enough for TLC.                               *)
(***************************************************************************)
EXTENDS Runner, TLC

CONSTANTS a, b, addr1, addr2, hw, net

Plain(address, seconds) == [ip |-> address, mac |-> NoMAC, interval |-> seconds]

Known(address, seconds) == [ip |-> address, mac |-> hw, interval |-> seconds]

Config(sweep, floor, checkIn, nets, targets) ==
  [discovery |-> sweep, discoveryMin |-> floor, checkIn |-> checkIn,
   subnets |-> nets, targets |-> targets]

(* Two devices on one interval, and one of them alone, at another address  *)
(* and with a faster check-in.                                             *)
TwoDevices ==
  Config(4, 3, 4, {net}, a :> Plain(addr1, 3) @@ b :> Known(addr2, 3))

OneDevice == Config(3, 3, 2, {}, a :> Plain(addr2, 3))

(* One device checked seldom on a fast check-in, swept seldom. *)
SlowDevice == Config(9, 3, 2, {net}, a :> Known(addr1, 6))

NoSteps == {}

EitherWay == {-4, 4}

(* A second device switched on and off beside the first, swept often. *)
Alone == Config(3, 3, 2, {}, a :> Plain(addr1, 3))

Joined == Config(3, 3, 2, {}, a :> Plain(addr1, 3) @@ b :> Plain(addr2, 3))

JoinConfigs == {Alone, Joined}

TwoConfigs == {TwoDevices, OneDevice}

SlowConfig == {SlowDevice}
=============================================================================

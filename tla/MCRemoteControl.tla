--------------------------- MODULE MCRemoteControl ---------------------------
(***************************************************************************)
(* A small instance of the whole path: an order with a device, without one *)
(* or with an action there is not, clocks up to a whole skew apart, and    *)
(* every command Relay can build.                                          *)
(***************************************************************************)
EXTENDS RemoteControl

CONSTANTS r1, key, here

Good == [deviceId |-> here, action |-> ActionHibernate]
Undirected == [deviceId |-> Absent, action |-> ActionHibernate]
Unknown == [deviceId |-> here, action |-> "sleep"]

OneOrder == {r1}
SomeBodies == {Good, Undirected, Unknown}

Apart == {-2, -1, 1, 2}

\* Every command Relay may build while the clock is in its bound.
BuiltCommands ==
  {Relay!Build(o, Good, t) : o \in Requests, t \in -2..MaxClock + 2}
=============================================================================

----------------------------- MODULE RemoteOrder -----------------------------
(***************************************************************************)
(* What the whole path promises the person who says "hibernate": an order  *)
(* is taken or turned away, never both; it is acknowledged only once       *)
(* taken, and tried at most once, after it was acknowledged; nothing else  *)
(* hibernates the PC; and what Siri is told may be less than what happened *)
(* (502) but never more.                                                   *)
(***************************************************************************)
CONSTANT Orders

VARIABLES
  accepted,  \* the orders Sentinel has taken
  acked,     \* those it has acknowledged
  tried,     \* those for which Windows was asked to hibernate
  told,      \* the status Siri was told, 0 before it is
  power      \* the PC

orderVars == <<accepted, acked, tried, told, power>>

\* The order was turned away before anything was posted.
Refusals == {400, 401, 405, 413, 500}

Init ==
  /\ accepted = {} /\ acked = {} /\ tried = {}
  /\ told = [o \in Orders |-> 0]
  /\ power = "on"

Accept(o) ==
  /\ o \notin accepted /\ told[o] \notin Refusals
  /\ accepted' = accepted \cup {o}
  /\ UNCHANGED <<acked, tried, told, power>>

Acknowledge(o) ==
  /\ o \in accepted \ acked
  /\ acked' = acked \cup {o}
  /\ UNCHANGED <<accepted, tried, told, power>>

Try(o) ==
  /\ power = "on" /\ o \in acked \ tried
  /\ tried' = tried \cup {o}
  /\ power' \in {"on", "hibernated"}
  /\ UNCHANGED <<accepted, acked, told>>

Tell(o, status) ==
  /\ told[o] = 0
  /\ status = 202 => o \in acked
  /\ status \in Refusals => o \notin accepted
  /\ told' = [told EXCEPT ![o] = status]
  /\ UNCHANGED <<accepted, acked, tried, power>>

Wake ==
  /\ power = "hibernated" /\ power' = "on"
  /\ UNCHANGED <<accepted, acked, tried, told>>

Next ==
  \/ \E o \in Orders :
       \/ Accept(o) \/ Acknowledge(o) \/ Try(o)
       \/ \E status \in Refusals \cup {202, 502} : Tell(o, status)
  \/ Wake

Spec == Init /\ [][Next]_orderVars
=============================================================================

------------------------------ MODULE MCDriver ------------------------------
(* Driver, over two connections: a select and two writes that compete for   *)
(* them, with short results ("crowd"), or the select and one write with      *)
(* longer ones ("long"). And Tunnel, which shares no state with it, with two *)
(* clients. A behaviour is one of the part chosen at first.                  *)
EXTENDS Driver

CONSTANTS sel, u1, u2, Clients

VARIABLES part, caller, ready, shutdown, task, opening, forwarded

Ssh == INSTANCE Tunnel

tunnelVars == <<caller, ready, shutdown, task, opening, forwarded>>

KindOf == [q \in Queries |-> IF q = sel THEN "select" ELSE "write"]

Short == \A q \in Queries : rows'[q] <= 2 /\ stmt'[q] <= 1

NetworkInit == part \in {"crowd", "long", "tunnel"} /\ DriverInit /\ Ssh!TunnelInit

NetworkNext ==
  /\ \/ part = "crowd" /\ DriverNext /\ Short /\ UNCHANGED tunnelVars
     \/ part = "long" /\ DriverNext /\ phase'[u1] = "new" /\ UNCHANGED tunnelVars
     \/ part = "tunnel" /\ Ssh!TunnelNext /\ UNCHANGED driverVars
  /\ UNCHANGED part

NetworkFairness == DriverFairness /\ Ssh!TunnelFairness

-----------------------------------------------------------------------------

\* A tunnel that is given up ends, unless the server leaves a channel request
\* unanswered for ever.
DroppedTunnelEnds == Ssh!DroppedTunnelEnds

=============================================================================

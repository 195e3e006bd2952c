----------------------------- MODULE MCConnection ----------------------------
(* The two sides of a connection, which share no state, checked by one run:  *)
(* the driver's queries over its pool and the tunnel under it (MCDriver),    *)
(* and the session that connects and switches (MCSession). A behaviour is of *)
(* the side chosen at first; the other stays in an initial state, where      *)
(* nothing is under way that its fairness could ask a step of.               *)
EXTENDS MCDriver, MCSession

VARIABLE side

ConnectionInit ==
  /\ side \in {"network", "session"}
  /\ NetworkInit /\ Init
  /\ side = "session" => part = "tunnel"

ConnectionNext ==
  /\ \/ side = "network" /\ NetworkNext /\ UNCHANGED vars
     \/ side = "session" /\ ConnectingNext /\ UNCHANGED <<part, driverVars, tunnelVars>>
  /\ UNCHANGED side

ConnectionSpec ==
  /\ ConnectionInit
  /\ [][ConnectionNext]_<<side, part, driverVars, tunnelVars, vars>>
  /\ NetworkFairness /\ Fairness

=============================================================================

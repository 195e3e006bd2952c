----------------------------- MODULE MCSession -----------------------------
(* Session on small instances: the sets are model values given by the        *)
(* configuration files. Two restrictions of it, of what is begun and never   *)
(* of how it ends: connecting to every server and database, without queries, *)
(* and querying over a connection that is replaced once, by one to the same  *)
(* database.                                                                 *)
EXTENDS Session

ConnectingNext == Next /\ query_generation' = 0

Queried == CHOOSE url \in Url : url.server \notin Tunneled

QueryingNext ==
  /\ Next
  /\ \A attempt \in attempts' \ attempts :
       attempt.url = Queried /\ attempt.generation <= 2
  /\ introspected' # introspected => connection' # connection

=============================================================================

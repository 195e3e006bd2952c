------------------------------- MODULE Tunnel -------------------------------
(* zsql-ssh/src/tunnel.rs: one SSH tunnel, from open_tunnel to the end of    *)
(* its task on the crate's own runtime.                                      *)
(*                                                                           *)
(* The caller awaits the ready channel and then holds the tunnel; it may     *)
(* give up at any moment, which drops its ends of the ready and shutdown     *)
(* channels. The task's select! waits for shutdown, a client, a keepalive    *)
(* tick or the end of a forwarded connection, in no order; while a channel   *)
(* is being opened for a client it waits for nothing else.                   *)
(*                                                                           *)
(* Definitions named Mut... are faulty variants of the definition they       *)
(* precede, for checking that the properties can fail.                       *)
CONSTANTS Clients      \* connections of a driver to the local listener

VARIABLES caller,      \* "new", "awaiting", "holding" or "gone"
          ready,       \* the ready channel: "empty", "ok" or "err"
          shutdown,    \* the shutdown channel: "open", "sent" or "dropped"
          task,        \* "new", "connecting", "serving", "opening", "stuck"
                       \* or "over"
          opening,     \* the clients a channel is being opened for
          forwarded    \* the clients whose copy task runs

tunnelVars == <<caller, ready, shutdown, task, opening, forwarded>>

TunnelInit ==
  /\ caller = "new" /\ ready = "empty" /\ shutdown = "open"
  /\ task = "new" /\ opening = {} /\ forwarded = {}

\* open_tunnel, up to its await.
OpenTunnel ==
  /\ caller = "new"
  /\ caller' = "awaiting" /\ task' = "connecting"
  /\ UNCHANGED <<ready, shutdown, opening, forwarded>>

\* The awaiting future is dropped, the SshTunnel is, or the answer is an error.
GiveUp ==
  /\ caller = "awaiting"
  /\ caller' = "gone" /\ shutdown' = "dropped"
  /\ UNCHANGED <<ready, task, opening, forwarded>>

Receive ==
  /\ caller = "awaiting"
  /\ \/ ready = "ok" /\ caller' = "holding" /\ UNCHANGED shutdown
     \/ ready = "err" /\ caller' = "gone" /\ shutdown' = "dropped"
  /\ UNCHANGED <<ready, task, opening, forwarded>>

DropTunnel ==
  /\ caller = "holding"
  /\ caller' = "gone" /\ shutdown' = "sent"
  /\ UNCHANGED <<ready, task, opening, forwarded>>

\* run_tunnel: establish ended within CONNECT_TIMEOUT, or did not. A ready
\* channel nobody listens to ends the task.
Established ==
  /\ task = "connecting"
  /\ \/ ready' = "err" /\ task' = "over"
     \/ caller = "gone" /\ task' = "over" /\ UNCHANGED ready
     \/ caller # "gone" /\ ready' = "ok" /\ task' = "serving"
  /\ UNCHANGED <<caller, shutdown, opening, forwarded>>

\* accept_loop's select!, and the await in forward_connection.
Accept(c) ==
  /\ task = "serving"
  /\ c \notin forwarded
  /\ task' = "opening" /\ opening' = {c}
  /\ UNCHANGED <<caller, ready, shutdown, forwarded>>

ChannelAnswered ==
  /\ task = "opening"
  /\ task' = "serving" /\ opening' = {}
  /\ forwarded' = forwarded \cup opening \/ UNCHANGED forwarded
  /\ UNCHANGED <<caller, ready, shutdown>>

\* The server never answers: neither the call nor the loop has a timeout.
ChannelUnanswered ==
  /\ task = "opening"
  /\ task' = "stuck"
  /\ UNCHANGED <<caller, ready, shutdown, opening, forwarded>>

\* copy_bidirectional ends, and is reaped.
CopyEnds(c) ==
  /\ c \in forwarded
  /\ forwarded' = forwarded \ {c}
  /\ UNCHANGED <<caller, ready, shutdown, task, opening>>

\* Only a message stops the loop, not the end of its sender.
MutStopServing ==
  /\ task = "serving" /\ shutdown = "sent"
  /\ task' = "over" /\ forwarded' = {}
  /\ UNCHANGED <<caller, ready, shutdown, opening>>

\* The listener is dropped, the copy tasks aborted, the session disconnected.
StopServing ==
  /\ task = "serving" /\ shutdown # "open"
  /\ task' = "over" /\ forwarded' = {}
  /\ UNCHANGED <<caller, ready, shutdown, opening>>

TunnelNext ==
  \/ OpenTunnel \/ GiveUp \/ Receive \/ DropTunnel
  \/ Established \/ ChannelAnswered \/ ChannelUnanswered
  \/ StopServing
  \/ \E c \in Clients : Accept(c) \/ CopyEnds(c)

(* establish runs within a timeout; a channel request is answered or it is   *)
(* not; select! picks among what is ready at random, so shutdown is picked   *)
(* sooner or later.                                                          *)
TunnelFairness == /\ WF_tunnelVars(Established)
                  /\ WF_tunnelVars(ChannelAnswered \/ ChannelUnanswered)
                  /\ SF_tunnelVars(StopServing)

TunnelSpec == TunnelInit /\ [][TunnelNext]_tunnelVars /\ TunnelFairness

-----------------------------------------------------------------------------

(* "Dropping the tunnel signals the background runtime to stop accepting new *)
(* connections, close the listener, and disconnect the SSH session"          *)
(* (tunnel.rs:35): a tunnel given up, before or after it was ready, ends     *)
(* with every connection through it, however many clients keep coming;       *)
(* unless the server leaves a channel request unanswered.                    *)
DroppedTunnelEnds ==
  caller = "gone" ~> task = "stuck" \/ (task = "over" /\ forwarded = {})

=============================================================================

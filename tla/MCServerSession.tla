-------------------------- MODULE MCServerSession --------------------------
(* ServerSession on small sets: two ENet connections that share one peer   *)
(* slot, a websocket connection, two seats and two entities.               *)
EXTENDS ServerSession

=============================================================================

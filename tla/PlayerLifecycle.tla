-------------------------- MODULE PlayerLifecycle --------------------------
(***************************************************************************)
(* What the server promises of a connection, whichever threads and queues  *)
(* it is built from: a connection opens once, may take one seat of the     *)
(* world that nobody else holds, and is closed, once and for all, only     *)
(* after the client hung up or when the world shuts down.  Whoever hung up *)
(* is closed eventually.  ServerSession implements this module.            *)
(***************************************************************************)
EXTENDS Naturals

CONSTANTS
    Conns,   \* the connections
    Seats,   \* the seats of the world
    NoSeat   \* the seat of a connection that has none

VARIABLES
    phase,   \* of each connection: "absent", "open", "seated" or "closed"
    seat,    \* of each connection: its seat, while it is seated
    gone,    \* of each connection: the client hung up
    down     \* the world has shut down

vars == <<phase, seat, gone, down>>

Present(p) == phase[p] \in {"open", "seated"}

Init ==
    /\ phase = [p \in Conns |-> "absent"]
    /\ seat = [p \in Conns |-> NoSeat]
    /\ gone = [p \in Conns |-> FALSE]
    /\ down = FALSE

Open(p) ==
    /\ ~down
    /\ phase[p] = "absent"
    /\ phase' = [phase EXCEPT ![p] = "open"]
    /\ UNCHANGED <<seat, gone, down>>

Sit(p, i) ==
    /\ ~down
    /\ phase[p] = "open"
    /\ \A q \in Conns : seat[q] # i
    /\ phase' = [phase EXCEPT ![p] = "seated"]
    /\ seat' = [seat EXCEPT ![p] = i]
    /\ UNCHANGED <<gone, down>>

HangUp(p) ==
    /\ ~down
    /\ Present(p)
    /\ ~gone[p]
    /\ gone' = [gone EXCEPT ![p] = TRUE]
    /\ UNCHANGED <<phase, seat, down>>

Close(p) ==
    /\ Present(p)
    /\ gone[p]
    /\ phase' = [phase EXCEPT ![p] = "closed"]
    /\ seat' = [seat EXCEPT ![p] = NoSeat]
    /\ UNCHANGED <<gone, down>>

ShutDown ==
    /\ ~down
    /\ down' = TRUE
    /\ phase' = [p \in Conns |-> IF phase[p] = "seated" THEN "closed" ELSE phase[p]]
    /\ seat' = [p \in Conns |-> NoSeat]
    /\ UNCHANGED gone

Next ==
    \/ \E p \in Conns : Open(p) \/ HangUp(p) \/ Close(p)
    \/ \E p \in Conns, i \in Seats : Sit(p, i)
    \/ ShutDown

SafeSpec == Init /\ [][Next]_vars

Spec == SafeSpec /\ \A p \in Conns : WF_vars(Close(p))

=============================================================================

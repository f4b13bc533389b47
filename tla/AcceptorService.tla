-------------------------- MODULE AcceptorService --------------------------
(***************************************************************************)
(* What the fizz demonstration server promises the clients that connect to *)
(* it, without handshakes, transports or secrets: connections are queued   *)
(* in arrival order and served one at a time, oldest first; a served       *)
(* connection ends; in loop mode the next one is then served, in           *)
(* single-shot mode the service closes and the connections still queued    *)
(* are dropped.  An accept failure stops a single-shot service.            *)
(* FizzServer implements this specification (FizzServer!Service).          *)
(***************************************************************************)
EXTENDS Naturals, Sequences

CONSTANTS
    Peers,   \* the clients
    NoPeer,  \* no connection is being served
    Loop     \* the service keeps serving after a connection ends

VARIABLES
    alive,   \* the service runs
    open,    \* connections are taken
    queue,   \* connections waiting, oldest first
    current, \* the connection being served, or NoPeer
    status   \* idle, queued, active, closed or dropped, per client

vars == <<alive, open, queue, current, status>>

Waiting == {queue[i] : i \in DOMAIN queue}

Init ==
    /\ alive = TRUE
    /\ open = TRUE
    /\ queue = <<>>
    /\ current = NoPeer
    /\ status = [p \in Peers |-> "idle"]

\* A client connects and waits in line.
Arrive(p) ==
    /\ alive
    /\ open
    /\ status[p] \in {"idle", "closed", "dropped"}
    /\ queue' = Append(queue, p)
    /\ status' = [status EXCEPT ![p] = "queued"]
    /\ UNCHANGED <<alive, open, current>>

\* The oldest waiting connection is served, when none is.
Serve ==
    /\ alive
    /\ open
    /\ current = NoPeer
    /\ queue # <<>>
    /\ current' = Head(queue)
    /\ queue' = Tail(queue)
    /\ status' = [status EXCEPT ![Head(queue)] = "active"]
    /\ UNCHANGED <<alive, open>>

\* The connection being served ends; a single-shot service closes and
\* drops whoever is still waiting.
End ==
    /\ alive
    /\ current # NoPeer
    /\ current' = NoPeer
    /\ IF Loop
         THEN UNCHANGED <<open, queue>>
         ELSE /\ open' = FALSE
              /\ queue' = <<>>
    /\ status' = [q \in Peers |->
                    IF q = current THEN "closed"
                    ELSE IF ~Loop /\ q \in Waiting THEN "dropped"
                    ELSE status[q]]
    /\ UNCHANGED alive

\* Taking a connection fails while none is served: a single-shot service
\* stops, a looping one carries on.
Halt ==
    /\ alive
    /\ open
    /\ current = NoPeer
    /\ alive' = Loop
    /\ UNCHANGED <<open, queue, current, status>>

Next ==
    \/ \E p \in Peers : Arrive(p)
    \/ Serve
    \/ End
    \/ Halt

Spec == Init /\ [][Next]_vars

=============================================================================

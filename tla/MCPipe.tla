------------------------------- MODULE MCPipe -------------------------------
(* A small instance of Pipe for TLC. *)
EXTENDS Pipe

\* End a belongs to a session, which also passes on routing ids; end b to a
\* socket.
SessionAndSocket == [a |-> {"one", "head", "id"}, b |-> {"one", "head"}]

\* The socket's low watermark is 1 and acknowledges every read, the session's
\* is 2 and leaves a read unacknowledged.
SmallHwms == [a |-> 1, b |-> 3]
NoBoost == [e \in Ends |-> << -1, -1 >>]
Smaller == {<< 1, 1 >>}

Bound(a, b, h, s) ==
    [items |-> [e \in Ends |-> IF e = "a" THEN a ELSE b],
     hiccups |-> h, hwmsets |-> s]

\* Traffic both ways, a hiccup, or a change of watermarks.
EachInTurn == {Bound(1, 2, 0, 0), Bound(0, 4, 0, 0), Bound(0, 2, 1, 0),
               Bound(0, 2, 0, 1)}

\* For the liveness properties.
Traffic == {Bound(0, 4, 0, 0)}
=============================================================================

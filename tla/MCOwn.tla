------------------------------- MODULE MCOwn -------------------------------
(* A socket with a bound and a connected endpoint, for TLC. *)
EXTENDS Own

\* A listener with the session of an accepted connection, a session with its
\* connecter; two I/O threads.
Tree == [listener |-> "socket", accepted |-> "listener",
         session |-> "socket", connecter |-> "session"]
Lives == [socket |-> "app", listener |-> "io1", accepted |-> "io2",
          session |-> "io2", connecter |-> "io1"]

\* An accepted connection or a connecter, with the other endpoint beside it.
EachInTurn == {Objects \ {"connecter"}, Objects \ {"accepted"}}
=============================================================================

------------------------------- MODULE MCXpub -------------------------------
(* Instances of Xpub for TLC. *)
EXTENDS Xpub

Scope(opts, ps, ts, n) ==
    [options |-> opts, pipes |-> ps, topics |-> ts, pending |-> n]

\* Three pipes, for the array of dist_t, with one topic; then two topics, for
\* the notifications: a change of one topic while those of the other or of
\* the same one are unread, and a pipe that leaves both at once.
ArrayThenTopics ==
    {Scope(opts, Pipes, {"t"}, 1) : opts \in {{}, {"nodrop", "invert"}}}
      \cup {Scope({}, {"p", "q"}, Topics, 3)}

\* Without loss.
Nodrop == {Scope({"nodrop", "invert"}, Pipes, {"t"}, 1)}
=============================================================================

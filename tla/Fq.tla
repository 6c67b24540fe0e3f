--------------------------------- MODULE Fq ---------------------------------
(***************************************************************************)
(* zmq::fq_t (src/src/fq.cpp): inbound messages are taken from the pipes   *)
(* in turn, all parts of one message from one pipe.  The pipes that may    *)
(* hold a message are the first "active" ones of the array.                *)
(*                                                                         *)
(* A pipe is reduced to what fq_t sees of pipe_t: whether it can be read,  *)
(* the whole messages in it and what is left of the one being read.  Each  *)
(* iteration of a loop is one step; commands of the pipes are processed    *)
(* between calls only.  Credentials are left out (no mechanism of this     *)
(* build sets them).                                                       *)
(***************************************************************************)
EXTENDS Array, FiniteSets

CONSTANTS
    Pipes,
    MaxWhole,    \* messages in a pipe
    MaxParts     \* parts of a message

ASSUME FqAssumption == MaxWhole \in Nat \ {0} /\ MaxParts \in Nat \ {0}

VARIABLES
    pipes, active, current, more,   \* fq_t
    call,       \* idle, recv, poll (has_in), or abort
    link,       \* link[p]: new, on, closing (the delimiter is in it), ending,
                \* gone
    in_active,
    whole,      \* whole[p]: messages in p that have not been started
    rest,       \* rest[p]: parts left of the message being read from p
    from,       \* the pipes that the parts of the user's message came from
    broken      \* what has happened to a message so far: its pipe was moved
                \* in the array, or was disconnected by the user

fq == <<pipes, active, current, more>>
ends == <<link, in_active, whole, rest>>
vars == <<fq, call, ends, from, broken>>

Init ==
    /\ pipes = <<>> /\ active = 0 /\ current = 0 /\ more = FALSE
    /\ call = "idle"
    /\ link = [p \in Pipes |-> "new"]
    /\ in_active = [p \in Pipes |-> TRUE]
    /\ whole = [p \in Pipes |-> 0] /\ rest = [p \in Pipes |-> 0]
    /\ from = {} /\ broken = {}

-----------------------------------------------------------------------------
attach(p) ==
    LET a == Append(pipes, p) IN
    /\ call = "idle" /\ link[p] = "new"
    /\ link' = [link EXCEPT ![p] = "on"]
    /\ pipes' = swap(a, active, Len(a) - 1)
    /\ active' = active + 1
    /\ UNCHANGED <<current, more, call, in_active, whole, rest, from, broken>>

\* Mutant: current is left behind the active pipes.
Wrapped_Not(cur, act) == cur

Wrapped(cur, act) == IF cur = act THEN 0 ELSE cur

\* The swap puts the current pipe, the last active one, at position i.
Moves(i) == more /\ current = active - 1 /\ i \in 1..(current - 1)

\* pipe_terminated, with p's last command.
pipe_terminated(p) ==
    LET i == index(pipes, p)
        last == active - 1
    IN  /\ call = "idle" /\ link[p] = "ending"
        /\ broken' = broken \cup {x \in {"moved"} : Moves(i)}
        /\ link' = [link EXCEPT ![p] = "gone"]
        /\ \/ /\ i < active
              /\ active' = last
              /\ current' = Wrapped(current, last)
              /\ pipes' = erase(swap(pipes, i, last), last)
           \/ /\ i >= active
              /\ pipes' = erase(pipes, i)
              /\ UNCHANGED <<active, current>>
        /\ UNCHANGED <<more, call, in_active, whole, rest, from>>

activated(p) ==
    /\ pipes' = swap(pipes, index(pipes, p), active)
    /\ active' = active + 1

-----------------------------------------------------------------------------
Current == Item(pipes, current)
Readable(p) ==
    in_active[p] /\ link[p] \in {"on", "closing"} /\ whole[p] + rest[p] > 0

\* check_read and read when there is nothing to read: an empty pipe becomes
\* passive, the delimiter ends one that is being closed.
ReadNothing(p) ==
    /\ in_active' = [in_active EXCEPT ![p] = @ /\ link[p] # "on"]
    /\ link' = [link EXCEPT ![p] = IF @ = "closing" THEN "ending" ELSE @]

recv ==
    /\ call = "idle"
    /\ call' = "recv"
    /\ UNCHANGED <<fq, ends, from, broken>>

\* Mutant: the next pipe is taken after each part if it holds a message.
RoundRobin_EachPart(left) ==
    LET next == (current + 1) % active
    IN  IF left = 0 \/ Readable(Item(pipes, next)) THEN next ELSE current

\* Mutant: the same pipe is read as long as it holds messages.
RoundRobin_Stays(left) == current

\* The next pipe is taken after the last part of a message.
RoundRobin(left) == IF left > 0 THEN current ELSE (current + 1) % active

More(left) == left > 0

\* n is the number of parts of the message, when it is started.
recv_fetched(n) ==
    LET p == Current
        left == IF rest[p] > 0 THEN rest[p] - 1 ELSE n - 1
    IN  /\ call = "recv" /\ active > 0 /\ Readable(p)
        /\ rest[p] > 0 => n = 1
        /\ rest' = [rest EXCEPT ![p] = left]
        /\ whole' = [whole EXCEPT ![p] = IF rest[p] > 0 THEN @ ELSE @ - 1]
        /\ from' = IF more THEN from \cup {p} ELSE {p}
        /\ more' = More(left)
        /\ current' = RoundRobin(left)
        /\ call' = "idle"
        /\ UNCHANGED <<pipes, active, link, in_active, broken>>

\* zmq_assert (!more)
recv_assert == IF more THEN "abort" ELSE call

\* Mutant: another pipe is not moved to the place of the passive one.
Deactivate_NoSwap == pipes

\* The current pipe changes places with the last active one.
Deactivate == swap(pipes, current, active - 1)

\* An iteration of recvpipe or has_in that finds nothing.
Skip ==
    /\ call \in {"recv", "poll"} /\ active > 0 /\ ~ Readable(Current)
    /\ call' = recv_assert
    /\ ReadNothing(Current)
    /\ active' = active - 1
    /\ pipes' = Deactivate
    /\ current' = Wrapped(current, active - 1)
    /\ UNCHANGED <<more, whole, rest, from, broken>>

\* EAGAIN
recv_none ==
    /\ call = "recv" /\ active = 0
    /\ call' = "idle"
    /\ UNCHANGED <<fq, ends, from, broken>>

has_in ==
    /\ call = "idle" /\ ~ more
    /\ call' = "poll"
    /\ UNCHANGED <<fq, ends, from, broken>>

has_in_answer ==
    /\ call = "poll"
    /\ active > 0 => Readable(Current)
    /\ call' = "idle"
    /\ UNCHANGED <<fq, ends, from, broken>>

-----------------------------------------------------------------------------
\* The pipes.

\* The peer flushes a message or its delimiter: process_activate_read.
activate_read(p, what) ==
    /\ call = "idle" /\ link[p] = "on"
    /\ \/ /\ what = "message" /\ whole[p] < MaxWhole
          /\ whole' = [whole EXCEPT ![p] = @ + 1]
          /\ UNCHANGED link
       \/ /\ what = "delimiter"
          /\ link' = [link EXCEPT ![p] = "closing"]
          /\ UNCHANGED whole
    /\ in_active' = [in_active EXCEPT ![p] = TRUE]
    /\ \/ in_active[p] /\ UNCHANGED <<pipes, active>>
       \/ ~ in_active[p] /\ activated(p)
    /\ UNCHANGED <<current, more, call, rest, from, broken>>

\* The user disconnects the pipe: it cannot be read any more.
pipe_terminate(p) ==
    /\ call = "idle" /\ link[p] \in {"on", "closing"}
    /\ broken' = broken \cup {x \in {"cut"} : rest[p] > 0}
    /\ link' = [link EXCEPT ![p] = "ending"]
    /\ UNCHANGED <<fq, call, in_active, whole, rest, from>>

Next ==
    \/ \E p \in Pipes :
        \/ attach(p) \/ pipe_terminate(p) \/ pipe_terminated(p)
        \/ \E what \in {"message", "delimiter"} : activate_read(p, what)
    \/ recv \/ \E n \in 1..MaxParts : recv_fetched(n)
    \/ Skip \/ recv_none
    \/ has_in \/ has_in_answer

Spec == Init /\ [][Next]_vars

\* The user goes on receiving: a call is made again and again, and returns.
FairSpec ==
    /\ Spec
    /\ SF_vars(recv)
    /\ WF_vars((\E n \in 1..MaxParts : recv_fetched(n)) \/ Skip \/ recv_none
               \/ has_in_answer)

-----------------------------------------------------------------------------
\* The type invariant: the indices stay within the array.
TypeOK ==
    /\ pipes \in Seq(Pipes)
    /\ active \in 0..Len(pipes)
    /\ current = 0 \/ current \in 0..(active - 1)
    /\ more \in BOOLEAN
    /\ call \in {"idle", "recv", "poll", "abort"}
    /\ link \in [Pipes -> {"new", "on", "closing", "ending", "gone"}]
    /\ in_active \in [Pipes -> BOOLEAN]
    /\ whole \in [Pipes -> 0..MaxWhole] /\ rest \in [Pipes -> 0..MaxParts]
    /\ from \subseteq Pipes /\ broken \subseteq {"moved", "cut"}

\* A pipe announces new messages (process_activate_read) only when it has been
\* found empty before; so fq_t must hold every other one among the active
\* pipes, or its messages are never received.
NotForgotten ==
    \A p \in Pipes : link[p] \in {"on", "closing"} /\ call # "abort" =>
        /\ Has(pipes, p)
        /\ index(pipes, p) < active <=> in_active[p]

\* zmq_assert (!more) in recvpipe: "if we've already received the first part
\* of the message we should get the remaining parts without blocking".
NeverAborts == call # "abort"

\* zmq_recv's atomic delivery: the parts of a message all come from one pipe,
\* and the assertion that they are there holds.  The exceptions are a pipe
\* that is moved, in the middle of its message, to the place of another one
\* that leaves, and one that the user disconnects in the middle of its message.
AtomicDelivery == broken = {} => Cardinality(from) <= 1 /\ NeverAborts

\* Fair queueing: a pipe that holds a message is served, whatever the other
\* pipes receive meanwhile, unless the assertion in recvpipe has failed.
Served ==
    \A p \in Pipes :
        Readable(p) ~> from = {p} \/ ~ Readable(p) \/ ~ NeverAborts
=============================================================================

--------------------------------- MODULE Lb ---------------------------------
(***************************************************************************)
(* zmq::lb_t (src/src/lb.cpp): outbound messages are spread over the pipes *)
(* in turn, all parts of one message over one pipe.  The pipes that can be *)
(* written to are the first "active" ones of the array.                    *)
(*                                                                         *)
(* A pipe is reduced to what lb_t sees of pipe_t: whether it accepts       *)
(* messages, how many more until its high water mark, and the parts        *)
(* written and not yet flushed.  Each iteration of a loop is one step;     *)
(* commands of the pipes are processed between calls only.                 *)
(***************************************************************************)
EXTENDS Array

CONSTANTS
    Pipes,
    MaxRoom,     \* messages a pipe takes until its peer reads
    MaxParts     \* parts of a message

ASSUME LbAssumption == MaxRoom \in Nat \ {0} /\ MaxParts \in Nat \ {0}

VARIABLES
    pipes, active, current, more, dropping,   \* lb_t
    call,       \* idle, poll (has_out), the part sent: more, last; or
                \* undefined, after an access past the end of the array
    part,       \* the number of the part the user sends next
    link,       \* link[p]: new, on, ending, gone
    out_active, room,
    unflushed,  \* unflushed[p]: the parts in p that its peer cannot see
    delivered,  \* the parts of the message flushed last
    broken      \* what has happened to a message so far: its pipe was moved
                \* in the array, or the user sent a part again after EAGAIN

lb == <<pipes, active, current, more, dropping>>
ends == <<link, out_active, room, unflushed>>
vars == <<lb, call, part, ends, delivered, broken>>

Init ==
    /\ pipes = <<>> /\ active = 0 /\ current = 0
    /\ more = FALSE /\ dropping = FALSE
    /\ call = "idle" /\ part = 1
    /\ link = [p \in Pipes |-> "new"]
    /\ out_active = [p \in Pipes |-> TRUE]
    /\ room = [p \in Pipes |-> MaxRoom]
    /\ unflushed = [p \in Pipes |-> <<>>]
    /\ delivered = <<>> /\ broken = {}

-----------------------------------------------------------------------------
\* Mutant: the pipe is appended and not moved next to the active ones.
activated_InPlace(a, p) == pipes' = a /\ active' = active + 1

\* activated: p moves to the end of the active pipes.
activated(a, p) ==
    /\ pipes' = swap(a, index(a, p), active)
    /\ active' = active + 1

attach(p) ==
    /\ call = "idle" /\ link[p] = "new"
    /\ link' = [link EXCEPT ![p] = "on"]
    /\ activated(Append(pipes, p), p)
    /\ UNCHANGED <<current, more, dropping, call, part, out_active, room,
                   unflushed, delivered, broken>>

\* Mutant: current is left behind the active pipes.
Wrapped_Not(cur, act) == cur

\* A position that is no longer one of an active pipe becomes the first.
Wrapped(cur, act) == IF cur = act THEN 0 ELSE cur

\* The swap puts the current pipe, the last active one, at position i.
Moves(i) == more /\ current = active - 1 /\ i \in 1..(current - 1)

\* pipe_terminated, with p's last command.
pipe_terminated(p) ==
    LET i == index(pipes, p)
        last == active - 1
    IN  /\ call = "idle" /\ link[p] = "ending"
        /\ broken' = broken \cup {x \in {"moved"} : Moves(i)}
        /\ link' = [link EXCEPT ![p] = "gone"]
        /\ dropping' = ((i = current /\ more) \/ dropping)
        /\ \/ /\ i < active
              /\ active' = last
              /\ current' = Wrapped(current, last)
              /\ pipes' = erase(swap(pipes, i, last), last)
           \/ /\ i >= active
              /\ pipes' = erase(pipes, i)
              /\ UNCHANGED <<active, current>>
        /\ UNCHANGED <<more, call, part, out_active, room, unflushed,
                       delivered>>

-----------------------------------------------------------------------------
\* check_write and write of the current pipe.
Current == Item(pipes, current)
Writable(p) == out_active[p] /\ link[p] = "on" /\ room[p] > 0
check_write(p) ==
    out_active' =
        [out_active EXCEPT ![p] = @ /\ (link[p] = "on" => room[p] > 0)]

\* The user goes on to the next part, or to the next message.
NextPart == part' = IF call = "more" THEN part + 1 ELSE 1

send(flag) ==
    /\ call = "idle" /\ ~ dropping
    /\ flag = "more" => part < MaxParts
    /\ call' = flag
    /\ UNCHANGED <<lb, part, ends, delivered, broken>>

\* Mutant: dropping ends with the next part.
StillDropping_Once(flag) == FALSE

StillDropping(flag) == flag = "more"

\* The rest of a message whose pipe is gone is dropped.
send_dropping(flag) ==
    /\ call = "idle" /\ dropping
    /\ flag = "more" => part < MaxParts
    /\ more' = (flag = "more")
    /\ dropping' = StillDropping(flag)
    /\ part' = IF flag = "more" THEN part + 1 ELSE 1
    /\ UNCHANGED <<pipes, active, current, call, ends, delivered, broken>>

Sending == call \in {"more", "last"} /\ active > 0

\* The next pipe is taken after the last part of a message.
RoundRobin(flag) ==
    IF flag = "more" THEN current
    ELSE IF current + 1 >= active THEN 0 ELSE current + 1

send_written ==
    LET p == Current IN
    /\ Sending /\ Writable(p)
    /\ call' = "idle" /\ NextPart
    /\ more' = (call = "more")
    /\ current' = RoundRobin(call)
    /\ \/ /\ call = "more"
          /\ unflushed' = [unflushed EXCEPT ![p] = Append(@, part)]
          /\ UNCHANGED <<room, delivered>>
       \/ /\ call = "last"
          /\ delivered' = Append(unflushed[p], part)
          /\ unflushed' = [unflushed EXCEPT ![p] = <<>>]
          /\ room' = [room EXCEPT ![p] = @ - 1]
    /\ UNCHANGED <<pipes, active, dropping, link, out_active, broken>>

\* The write fails in the middle of a message: what was written of it is
\* rolled back and the caller gets EAGAIN; a blocking zmq_send then sends
\* the same part again, other users may start the message again.
send_rollback(again) ==
    LET p == Current IN
    /\ Sending /\ ~ Writable(p) /\ more
    /\ check_write(p)
    /\ unflushed' = [unflushed EXCEPT ![p] = <<>>]
    /\ more' = FALSE /\ call' = "idle"
    /\ part' = IF again THEN part ELSE 1
    /\ broken' = broken \cup {x \in {"resent"} : again}
    /\ UNCHANGED <<pipes, active, current, dropping, link, room, delivered>>

\* The write fails: the pipe becomes passive, the loop tries the next one.
send_deactivate ==
    LET p == Current
        last == active - 1
    IN  /\ Sending /\ ~ Writable(p) /\ ~ more
        /\ check_write(p)
        /\ active' = last
        /\ \/ current < last /\ pipes' = swap(pipes, current, last)
                             /\ UNCHANGED current
           \/ current >= last /\ current' = 0 /\ UNCHANGED pipes
        /\ UNCHANGED <<more, dropping, call, part, link, room, unflushed,
                       delivered, broken>>

\* No active pipe is left: EAGAIN.
send_none ==
    /\ call \in {"more", "last"} /\ active = 0
    /\ call' = "idle"
    /\ UNCHANGED <<lb, part, ends, delivered, broken>>

has_out ==
    /\ call = "idle" /\ ~ more
    /\ call' = "poll"
    /\ UNCHANGED <<lb, part, ends, delivered, broken>>

has_out_answer ==
    /\ call = "poll"
    /\ active > 0 => Writable(Current)
    /\ call' = "idle"
    /\ UNCHANGED <<lb, part, ends, delivered, broken>>

has_out_deactivate ==
    /\ call = "poll" /\ active > 0 /\ ~ Writable(Current)
    /\ check_write(Current)
    /\ active' = active - 1
    /\ pipes' = swap(pipes, current, active - 1)
    /\ current' = Wrapped(current, active - 1)
    /\ UNCHANGED <<more, dropping, call, part, link, room, unflushed,
                   delivered, broken>>

-----------------------------------------------------------------------------
\* The pipes.

\* The peer has read: process_activate_write.  A pipe that is active already
\* when it is activated may make the swap run past the end of the array.
activate_write(p) ==
    /\ call = "idle" /\ link[p] = "on" /\ room[p] < MaxRoom
    /\ room' = [room EXCEPT ![p] = @ + 1]
    /\ out_active' = [out_active EXCEPT ![p] = TRUE]
    /\ \/ out_active[p] /\ UNCHANGED <<pipes, active, call>>
       \/ ~ out_active[p] /\ active < Len(pipes)
          /\ activated(pipes, p) /\ UNCHANGED call
       \/ ~ out_active[p] /\ active = Len(pipes)
          /\ call' = "undefined" /\ UNCHANGED <<pipes, active>>
    /\ UNCHANGED <<current, more, dropping, part, link, unflushed, delivered,
                   broken>>

\* Either side starts to terminate the pipe; it drops its unflushed parts.
pipe_term(p) ==
    /\ call = "idle" /\ link[p] = "on"
    /\ link' = [link EXCEPT ![p] = "ending"]
    /\ unflushed' = [unflushed EXCEPT ![p] = <<>>]
    /\ UNCHANGED <<lb, call, part, out_active, room, delivered, broken>>

Next ==
    \/ \E p \in Pipes : attach(p) \/ activate_write(p) \/ pipe_term(p)
                        \/ pipe_terminated(p)
    \/ \E flag \in {"more", "last"} : send(flag) \/ send_dropping(flag)
    \/ \E again \in BOOLEAN : send_rollback(again)
    \/ send_written \/ send_deactivate \/ send_none
    \/ has_out \/ has_out_answer \/ has_out_deactivate

Spec == Init /\ [][Next]_vars

-----------------------------------------------------------------------------
\* The type invariant: the indices stay within the array.
TypeOK ==
    /\ pipes \in Seq(Pipes)
    /\ active \in 0..Len(pipes)
    /\ current = 0 \/ current \in 0..(active - 1)
    /\ more \in BOOLEAN /\ dropping \in BOOLEAN
    /\ call \in {"idle", "poll", "more", "last", "undefined"}
    /\ part \in 1..MaxParts
    /\ link \in [Pipes -> {"new", "on", "ending", "gone"}]
    /\ out_active \in [Pipes -> BOOLEAN]
    /\ room \in [Pipes -> 0..MaxRoom]
    /\ unflushed \in [Pipes -> Seq(1..MaxParts)]
    /\ delivered \in Seq(1..MaxParts)
    /\ broken \subseteq {"moved", "resent"}

\* A pipe that believes it can be written to will not announce that again
\* (process_activate_write only wakes a passive pipe), so lb_t must hold it
\* among the active ones, or it is never used again.  (A pipe that is full
\* when it gets the rest of another pipe's message is rolled back and stays
\* among the active ones: the exception of WholeMessages.)
NotForgotten ==
    \A p \in Pipes : link[p] = "on" /\ "moved" \notin broken =>
        /\ Has(pipes, p)
        /\ index(pipes, p) < active <=> out_active[p]

\* What a pipe delivers to its peer is one whole message: all its parts, in
\* order, none of another message (zmq_send's atomic delivery).
WholeMessages == \A i \in DOMAIN delivered : delivered[i] = i

\* The same as long as no pipe left in the middle of a message so that the
\* current one took its place, and the user restarts a message after EAGAIN.
AtomicDelivery == broken = {} => WholeMessages
=============================================================================

-------------------------------- MODULE Pipe --------------------------------
(***************************************************************************)
(* A pair of zmq::pipe_t (src/src/pipe.cpp): the two ends of the           *)
(* bidirectional pipe between a socket and a session, or between two       *)
(* sockets joined by the inproc transport.  Each end belongs to one        *)
(* thread.  The ends share two ypipe_t, one per direction, and talk        *)
(* through commands that arrive in the order they were sent.               *)
(*                                                                         *)
(* A ypipe is what module Channel promises: a sequence of items of which   *)
(* a prefix is visible to the reader.  A message is an item "one", or an   *)
(* item "head" (more flag set) followed by an item "tail"; "id" is a       *)
(* routing id, "cred" a credential, "delim" the delimiter.                 *)
(* The owner of an end (the sink) is the environment: it reads, writes,    *)
(* flushes, rolls back, terminates, hiccups and sets watermarks when it    *)
(* likes, within the bounds named below.                                   *)
(***************************************************************************)
EXTENDS Integers, Sequences, SequencesExt, FiniteSets

CONSTANTS
    Kinds,        \* Kinds[e]: kinds of items the owner of e writes
    Hwms,         \* Hwms[e]: initial outbound high watermark of end e
    Boosts,       \* Boosts[e]: the <<inhwmboost, outhwmboost>> of end e
    HwmChoices,   \* the <<sndhwm, rcvhwm>> pairs setsockopt may set
    Delays,       \* the values terminate is called with
    Sockets,      \* the ends owned by a socket, where setsockopt applies
    MaxDelims,    \* bound: delimiters in one ypipe
    MaxCmds,      \* bound: commands in flight beyond which flush is not called
    Bounds        \* bounds: for each one in turn, how many items the owner of
                  \* each end writes, and how many calls there are of hiccup
                  \* and of setsockopt for a watermark

Ends == {"a", "b"}
Peer(e) == IF e = "a" THEN "b" ELSE "a"
Upipes == 1 .. 2 + Max({b.hiccups : b \in Bounds})
NoPipe == 0

ASSUME PipeAssumption ==
    /\ Kinds \in [Ends -> SUBSET {"one", "head", "id", "cred"}]
    /\ Hwms \in [Ends -> Nat]
    /\ Boosts \in [Ends -> Int \X Int]
    /\ HwmChoices \subseteq Int \X Int
    /\ Delays \subseteq BOOLEAN
    /\ Sockets \subseteq Ends
    /\ MaxDelims \in Nat /\ MaxCmds \in Nat
    /\ Bounds # {} /\ IsFiniteSet(Bounds)
    /\ \A b \in Bounds : /\ b.items \in [Ends -> Nat]
                         /\ b.hiccups \in Nat /\ b.hwmsets \in Nat

VARIABLES
    state,            \* pipe_t::state of each end, "gone" once deallocated
    delay,            \* pipe_t::delay
    inpipe, outpipe,  \* the ypipes of each end, NoPipe for NULL
    in_active, out_active,
    hwm, lwm,         \* watermarks
    msgs_read, msgs_written, peers_msgs_read,
    queue,            \* ypipe |-> its items
    visible,          \* ypipe |-> how many of them are flushed
    allocated,        \* the ypipes that exist
    cmds,             \* cmds[e]: commands on their way to end e
    midread,          \* the last item the owner of e read was a "head"
    midwrite,         \* the owner of e has written a "head" and owes a "tail"
    items,            \* items written so far by the owner of e
    hiccups, hwmsets  \* calls so far

flow == <<hwm, lwm, msgs_read, msgs_written, peers_msgs_read>>
data == <<queue, visible, allocated>>
owner == <<midread, midwrite, items, hiccups, hwmsets>>
vars == <<state, delay, inpipe, outpipe, in_active, out_active, flow, data,
          cmds, owner>>

-----------------------------------------------------------------------------
(* Helpers.                                                                *)

\* Mutant: the low watermark exceeds the high one.
compute_lwm_Above(h) == h + 1

\* compute_lwm: half of the high watermark, rounded up.
compute_lwm(h) == (h + 1) \div 2

\* The difference is of type uint64_t, so it is huge when it would be negative.
check_hwm(e) ==
    ~ /\ hwm[e] > 0
      /\ \/ msgs_written[e] - peers_msgs_read[e] >= hwm[e]
         \/ msgs_written[e] < peers_msgs_read[e]

\* Position of the last item that completes a message.
Complete(s) ==
    LET last == {i \in DOMAIN s : s[i] # "head"}
    IN  IF last = {} THEN 0 ELSE CHOOSE i \in last : \A j \in last : j <= i

\* Leading credentials among the visible items of ypipe p.
LeadingCreds(p) ==
    Cardinality({i \in 1 .. visible[p] :
                    \A j \in 1 .. i : queue[p][j] = "cred"})

Drop(s, n) == SubSeq(s, n + 1, Len(s))

\* What unwrite leaves after rollback, and what a delimiter adds.
Rolled(s) == SubSeq(s, 1, Complete(s))

Alive(e) == state[e] # "gone"
Readable(e) == in_active[e] /\ state[e] \in {"active", "waiting_for_delimiter"}

Within(n, h, s) ==
    \E b \in Bounds : /\ \A e \in Ends : n[e] <= b.items[e]
                      /\ h <= b.hiccups /\ s <= b.hwmsets

Cmd(type) == [type |-> type]
SendTo(e, c) == cmds' = [cmds EXCEPT ![e] = Append(@, c)]

-----------------------------------------------------------------------------
(* Actions of the owner of an end.                                         *)

\* pipepair and the constructor.  delay is TRUE unless the owner called
\* set_nodelay when it attached the pipe.
Init ==
    /\ state = [e \in Ends |-> "active"]
    /\ delay \in [Ends -> BOOLEAN]
    /\ inpipe = [e \in Ends |-> IF e = "a" THEN 1 ELSE 2]
    /\ outpipe = [e \in Ends |-> IF e = "a" THEN 2 ELSE 1]
    /\ in_active = [e \in Ends |-> TRUE]
    /\ out_active = [e \in Ends |-> TRUE]
    /\ hwm = Hwms
    /\ lwm = [e \in Ends |-> compute_lwm(Hwms[Peer(e)])]
    /\ msgs_read = [e \in Ends |-> 0]
    /\ msgs_written = [e \in Ends |-> 0]
    /\ peers_msgs_read = [e \in Ends |-> 0]
    /\ queue = [p \in Upipes |-> << >>]
    /\ visible = [p \in Upipes |-> 0]
    /\ allocated = {1, 2}
    /\ cmds = [e \in Ends |-> << >>]
    /\ midread = [e \in Ends |-> FALSE]
    /\ midwrite = [e \in Ends |-> FALSE]
    /\ items = [e \in Ends |-> 0]
    /\ hiccups = 0
    /\ hwmsets = 0

\* Mutant: the delimiter that was waited for is not acknowledged.
process_delimiter_NoAck(e) ==
    /\ state' = [state EXCEPT ![e] =
                    IF @ = "active" THEN "delimiter_received"
                    ELSE "term_ack_sent"]
    /\ UNCHANGED <<outpipe, cmds>>

\* State change of process_delimiter, once the delimiter is consumed.
process_delimiter(e) ==
    \/ /\ state[e] = "active"
       /\ state' = [state EXCEPT ![e] = "delimiter_received"]
       /\ UNCHANGED <<outpipe, cmds>>
    \/ /\ state[e] = "waiting_for_delimiter"
       /\ state' = [state EXCEPT ![e] = "term_ack_sent"]
       /\ outpipe' = [outpipe EXCEPT ![e] = NoPipe]
       /\ SendTo(Peer(e), Cmd("pipe_term_ack"))

\* Mutant: one item too many is taken from the ypipe.
Consume_OneMore(e, n) ==
    /\ queue' = [queue EXCEPT ![inpipe[e]] = Drop(@, n)]
    /\ visible' = [visible EXCEPT ![inpipe[e]] = @ - n - 1]

Consume(e, n) ==
    LET p == inpipe[e] IN
    /\ queue' = [queue EXCEPT ![p] = Drop(@, n)]
    /\ visible' = [visible EXCEPT ![p] = @ - n]

\* check_read: the pipe goes passive when empty; a delimiter is consumed.
CheckRead(e) ==
    LET p == inpipe[e] IN
    /\ Readable(e)
    /\ \/ /\ visible[p] = 0
          /\ in_active' = [in_active EXCEPT ![e] = FALSE]
          /\ UNCHANGED <<state, outpipe, cmds, queue, visible>>
       \/ /\ visible[p] > 0 /\ queue[p][1] = "delim"
          /\ Consume(e, 1)
          /\ process_delimiter(e)
          /\ UNCHANGED in_active
    /\ UNCHANGED <<delay, inpipe, out_active, flow, allocated, owner>>

Counted(item) == item \notin {"head", "id"}

\* read: skips credentials, then returns an item, meets the delimiter, or
\* finds nothing and goes passive.
Read(e) ==
    LET p == inpipe[e]
        n == LeadingCreds(p)
        item == queue[p][n + 1]
        count == IF Counted(item) THEN msgs_read[e] + 1 ELSE msgs_read[e]
    IN
    /\ Readable(e)
    /\ \/ /\ n = visible[p]
          /\ Consume(e, n)
          /\ in_active' = [in_active EXCEPT ![e] = FALSE]
          /\ UNCHANGED <<state, outpipe, cmds, msgs_read, midread>>
       \/ /\ n < visible[p] /\ item = "delim"
          /\ Consume(e, n + 1)
          /\ process_delimiter(e)
          /\ UNCHANGED <<in_active, msgs_read, midread>>
       \/ /\ n < visible[p] /\ item # "delim"
          /\ Consume(e, n + 1)
          /\ msgs_read' = [msgs_read EXCEPT ![e] = count]
          /\ midread' = [midread EXCEPT ![e] = (item = "head")]
          /\ IF lwm[e] > 0 /\ count % lwm[e] = 0
             THEN SendTo(Peer(e), [type |-> "activate_write", msgs |-> count])
             ELSE UNCHANGED cmds
          /\ UNCHANGED <<state, outpipe, in_active>>
    /\ UNCHANGED <<delay, inpipe, out_active, hwm, lwm, msgs_written,
                   peers_msgs_read, allocated, midwrite, items, hiccups,
                   hwmsets>>

\* What an owner writes next: it completes the message it began.
Next_item(e) == IF midwrite[e] THEN {"tail"} ELSE Kinds[e]

\* write (with check_write): refused, and the pipe goes passive, when full.
Write(e, item) ==
    LET p == outpipe[e] IN
    /\ state[e] = "active" /\ out_active[e]
    /\ Within([items EXCEPT ![e] = @ + 1], hiccups, hwmsets)
    /\ \/ /\ ~ check_hwm(e)
          /\ out_active' = [out_active EXCEPT ![e] = FALSE]
          /\ UNCHANGED <<queue, msgs_written, midwrite, items>>
       \/ /\ check_hwm(e)
          /\ queue' = [queue EXCEPT ![p] = Append(@, item)]
          /\ msgs_written' = [msgs_written EXCEPT ![e] =
                                 IF Counted(item) THEN @ + 1 ELSE @]
          /\ midwrite' = [midwrite EXCEPT ![e] = (item = "head")]
          /\ items' = [items EXCEPT ![e] = @ + 1]
          /\ UNCHANGED out_active
    /\ UNCHANGED <<state, delay, inpipe, outpipe, in_active, hwm, lwm,
                   msgs_read, peers_msgs_read, visible, allocated, cmds,
                   midread, hiccups, hwmsets>>

Flushed(p) == visible' = [visible EXCEPT ![p] = Complete(queue[p])]

\* Mutant: the reader is not told of what was flushed.
Notify_Never(e) == UNCHANGED cmds

\* The peer is told even when it is not asleep.
Notify(e) == SendTo(Peer(e), Cmd("activate_read"))

\* flush.
Flush(e) ==
    /\ Alive(e) /\ state[e] # "term_ack_sent" /\ outpipe[e] # NoPipe
    /\ Len(cmds[Peer(e)]) < MaxCmds
    /\ Flushed(outpipe[e])
    /\ Notify(e)
    /\ UNCHANGED <<state, delay, inpipe, outpipe, in_active, out_active, flow,
                   queue, allocated, owner>>

\* rollback: the incomplete message at the back is withdrawn.
Rollback(e) ==
    /\ Alive(e) /\ outpipe[e] # NoPipe
    /\ queue' = [queue EXCEPT ![outpipe[e]] = Rolled(@)]
    /\ midwrite' = [midwrite EXCEPT ![e] = FALSE]
    /\ UNCHANGED <<state, delay, inpipe, outpipe, in_active, out_active, flow,
                   visible, allocated, cmds, midread, items, hiccups, hwmsets>>

\* Mutant: the unfinished message stays before the delimiter.
WriteDelimiter_NoRollback(e, cs) ==
    /\ queue' = [queue EXCEPT ![outpipe[e]] = Append(@, "delim")]
    /\ visible' = [visible EXCEPT ![outpipe[e]] = Len(queue[outpipe[e]]) + 1]
    /\ cmds' = [cmds EXCEPT ![Peer(e)] =
                   @ \o cs \o << Cmd("activate_read") >>]

\* The tail of terminate: the delimiter is written past the watermark and
\* flushed, and the peer gets the commands cs and an activate_read.
WriteDelimiter(e, cs) ==
    LET p == outpipe[e]
        s == Append(Rolled(queue[p]), "delim")
    IN
    /\ queue' = [queue EXCEPT ![p] = s]
    /\ visible' = [visible EXCEPT ![p] = Len(s)]
    /\ cmds' = [cmds EXCEPT ![Peer(e)] =
                   @ \o cs \o << Cmd("activate_read") >>]

\* Every call of terminate while waiting for the delimiter writes another one.
Delimiters(p) == Len(SelectSeq(queue[p], LAMBDA item : item = "delim"))

Terminating(e) ==
    state[e] \in {"term_req_sent1", "term_req_sent2", "term_ack_sent"}

\* terminate(delay).
Terminate(e, d) ==
    /\ Alive(e)
    /\ delay' = [delay EXCEPT ![e] = d]
    /\ \/ /\ Terminating(e)
          /\ UNCHANGED <<state, outpipe, out_active, queue, visible, cmds>>
       \/ /\ ~ Terminating(e) /\ state[e] # "waiting_for_delimiter"
          /\ state' = [state EXCEPT ![e] = "term_req_sent1"]
          /\ out_active' = [out_active EXCEPT ![e] = FALSE]
          /\ WriteDelimiter(e, << Cmd("pipe_term") >>)
          /\ UNCHANGED outpipe
       \/ /\ state[e] = "waiting_for_delimiter" /\ ~ d
          /\ state' = [state EXCEPT ![e] = "term_ack_sent"]
          /\ out_active' = [out_active EXCEPT ![e] = FALSE]
          /\ queue' = [queue EXCEPT ![outpipe[e]] = Rolled(@)]
          /\ outpipe' = [outpipe EXCEPT ![e] = NoPipe]
          /\ SendTo(Peer(e), Cmd("pipe_term_ack"))
          /\ UNCHANGED visible
       \/ /\ state[e] = "waiting_for_delimiter" /\ d
          /\ Delimiters(outpipe[e]) < MaxDelims
          /\ out_active' = [out_active EXCEPT ![e] = FALSE]
          /\ WriteDelimiter(e, << >>)
          /\ UNCHANGED <<state, outpipe>>
    /\ UNCHANGED <<inpipe, in_active, flow, allocated, owner>>

\* hiccup: the session abandons its inpipe to the peer and starts a new one.
\* It is at a message boundary: engine_error ran clean_pipes before.
Hiccup(e) ==
    /\ e = "a" /\ state[e] = "active"
    /\ ~ midread[e] /\ ~ midwrite[e]
    /\ Within(items, hiccups + 1, hwmsets)
    /\ hiccups' = hiccups + 1
    /\ LET p == 3 + hiccups IN
       /\ allocated' = allocated \cup {p}
       /\ inpipe' = [inpipe EXCEPT ![e] = p]
       /\ SendTo(Peer(e), [type |-> "hiccup", pipe |-> p])
    /\ in_active' = [in_active EXCEPT ![e] = TRUE]
    /\ UNCHANGED <<state, delay, outpipe, out_active, flow, queue, visible,
                   midread, midwrite, items, hwmsets>>

\* set_hwms: a watermark or a boost of zero makes the sum infinite.
Boosted(h, boost) ==
    IF h <= 0 \/ boost = 0 THEN 0 ELSE IF boost > 0 THEN h + boost ELSE h

set_hwms(e, in, out) ==
    /\ lwm' = [lwm EXCEPT ![e] = compute_lwm(Boosted(in, Boosts[e][1]))]
    /\ hwm' = [hwm EXCEPT ![e] = Boosted(out, Boosts[e][2])]

\* socket_base_t::update_pipe_options, for one of the socket's pipes, with
\* send_hwms_to_peer.  The socket keeps the pipe until pipe_terminated.
SetHwm(e, snd, rcv) ==
    /\ e \in Sockets /\ Alive(e)
    /\ Within(items, hiccups, hwmsets + 1)
    /\ hwmsets' = hwmsets + 1
    /\ set_hwms(e, rcv, snd)
    /\ SendTo(Peer(e), [type |-> "pipe_hwm", in |-> snd, out |-> rcv])
    /\ UNCHANGED <<state, delay, inpipe, outpipe, in_active, out_active,
                   msgs_read, msgs_written, peers_msgs_read, data, midread,
                   midwrite, items, hiccups>>

-----------------------------------------------------------------------------
(* Commands: one action per process_ method.  Pop removes the command and  *)
(* Reply also sends one back.                                              *)

Arrives(e, type) ==
    /\ Alive(e)
    /\ cmds[e] # << >> /\ Head(cmds[e]).type = type

Pop(e) == cmds' = [cmds EXCEPT ![e] = Tail(@)]

Reply(e, c) ==
    cmds' = [cmds EXCEPT ![e] = Tail(@), ![Peer(e)] = Append(@, c)]

process_activate_read(e) ==
    /\ Arrives(e, "activate_read")
    /\ Pop(e)
    /\ in_active' = [in_active EXCEPT ![e] =
                       @ \/ state[e] \in {"active", "waiting_for_delimiter"}]
    /\ UNCHANGED <<state, delay, inpipe, outpipe, out_active, flow, data, owner>>

Acked(e) == Head(cmds[e]).msgs

process_activate_write(e) ==
    /\ Arrives(e, "activate_write")
    /\ Pop(e)
    /\ peers_msgs_read' = [peers_msgs_read EXCEPT ![e] = Acked(e)]
    /\ out_active' = [out_active EXCEPT ![e] = @ \/ state[e] = "active"]
    /\ UNCHANGED <<state, delay, inpipe, outpipe, in_active, hwm, lwm, msgs_read,
                   msgs_written, data, owner>>

\* Mutant: the old ypipe is not freed.
Free_Leaks(p) ==
    /\ queue' = [queue EXCEPT ![p] = << >>]
    /\ visible' = [visible EXCEPT ![p] = 0]
    /\ UNCHANGED allocated

\* A ypipe is drained and deleted.
Free(p) ==
    /\ queue' = [queue EXCEPT ![p] = << >>]
    /\ visible' = [visible EXCEPT ![p] = 0]
    /\ allocated' = allocated \ {p}

\* Mutant: what the hiccup drops stays counted.
Lost_None(p) == 0

\* Items drained from ypipe p once it is flushed, less those with more set.
Lost(p) ==
    Len(SelectSeq(Rolled(queue[p]), LAMBDA item : item # "head"))

\* The old outpipe is flushed, drained and freed; what it held is lost and
\* taken off msgs_written.
process_hiccup(e) ==
    /\ Arrives(e, "hiccup")
    /\ outpipe[e] # NoPipe
    /\ Pop(e)
    /\ outpipe' = [outpipe EXCEPT ![e] = Head(cmds[e]).pipe]
    /\ out_active' = [out_active EXCEPT ![e] = TRUE]
    /\ msgs_written' = [msgs_written EXCEPT ![e] = @ - Lost(outpipe[e])]
    /\ Free(outpipe[e])
    /\ UNCHANGED <<state, delay, inpipe, in_active, hwm, lwm, msgs_read,
                   peers_msgs_read, owner>>

process_pipe_term(e) ==
    /\ Arrives(e, "pipe_term")
    /\ \/ /\ state[e] = "active" /\ delay[e]
          /\ state' = [state EXCEPT ![e] = "waiting_for_delimiter"]
          /\ Pop(e)
          /\ UNCHANGED outpipe
       \/ /\ \/ state[e] = "active" /\ ~ delay[e]
             \/ state[e] = "delimiter_received"
          /\ state' = [state EXCEPT ![e] = "term_ack_sent"]
          /\ outpipe' = [outpipe EXCEPT ![e] = NoPipe]
          /\ Reply(e, Cmd("pipe_term_ack"))
       \/ /\ state[e] = "term_req_sent1"
          /\ state' = [state EXCEPT ![e] = "term_req_sent2"]
          /\ outpipe' = [outpipe EXCEPT ![e] = NoPipe]
          /\ Reply(e, Cmd("pipe_term_ack"))
    /\ UNCHANGED <<delay, inpipe, in_active, out_active, flow, data, owner>>

\* Mutant: the acknowledgement is always answered.
AckBack_Always(e) == Reply(e, Cmd("pipe_term_ack"))

\* Only an end that has not acked yet acks before it goes.
AckBack(e) ==
    \/ /\ state[e] = "term_req_sent1"
       /\ Reply(e, Cmd("pipe_term_ack"))
    \/ /\ state[e] \in {"term_ack_sent", "term_req_sent2"}
       /\ Pop(e)

\* The inpipe is freed and the end deallocated.
process_pipe_term_ack(e) ==
    /\ Arrives(e, "pipe_term_ack")
    /\ AckBack(e)
    /\ state' = [state EXCEPT ![e] = "gone"]
    /\ outpipe' = [outpipe EXCEPT ![e] = NoPipe]
    /\ inpipe' = [inpipe EXCEPT ![e] = NoPipe]
    /\ Free(inpipe[e])
    /\ UNCHANGED <<delay, in_active, out_active, flow, owner>>

process_pipe_hwm(e) ==
    /\ Arrives(e, "pipe_hwm")
    /\ Pop(e)
    /\ set_hwms(e, Head(cmds[e]).in, Head(cmds[e]).out)
    /\ UNCHANGED <<state, delay, inpipe, outpipe, in_active, out_active,
                   msgs_read, msgs_written, peers_msgs_read, data, owner>>

process_command(e) ==
    \/ process_activate_read(e)
    \/ process_activate_write(e)
    \/ process_hiccup(e)
    \/ process_pipe_term(e)
    \/ process_pipe_term_ack(e)
    \/ process_pipe_hwm(e)

Owner(e) ==
    \/ CheckRead(e)
    \/ Read(e)
    \/ \E item \in Next_item(e) : Write(e, item)
    \/ Flush(e)
    \/ Rollback(e)
    \/ \E d \in Delays : Terminate(e, d)
    \/ Hiccup(e)
    \/ \E h \in HwmChoices : SetHwm(e, h[1], h[2])

Next == \E e \in Ends : Owner(e) \/ process_command(e)

Spec == Init /\ [][Next]_vars

\* The thread of each end processes its commands, and each owner goes on
\* reading what it is told it can read and flushes what it wrote.
Fairness ==
    \A e \in Ends : /\ WF_vars(process_command(e))
                   /\ WF_vars(Read(e))
                   /\ WF_vars(Flush(e))

FairSpec == Spec /\ Fairness

-----------------------------------------------------------------------------
(* Properties.                                                             *)

States == {"active", "delimiter_received", "waiting_for_delimiter",
           "term_ack_sent", "term_req_sent1", "term_req_sent2", "gone"}

Commands ==
    [type : {"activate_read", "pipe_term", "pipe_term_ack"}]
      \cup [type : {"activate_write"}, msgs : Nat]
      \cup [type : {"hiccup"}, pipe : Upipes]
      \cup [type : {"pipe_hwm"}, in : Int, out : Int]

Items == {"one", "head", "tail", "id", "cred", "delim"}

\* The fields of both ends, the ypipes and the commands have their types.
TypeOK ==
    /\ state \in [Ends -> States]
    /\ delay \in [Ends -> BOOLEAN]
    /\ inpipe \in [Ends -> Upipes \cup {NoPipe}]
    /\ outpipe \in [Ends -> Upipes \cup {NoPipe}]
    /\ in_active \in [Ends -> BOOLEAN]
    /\ out_active \in [Ends -> BOOLEAN]
    /\ hwm \in [Ends -> Nat] /\ lwm \in [Ends -> Nat]
    /\ msgs_read \in [Ends -> Nat] /\ msgs_written \in [Ends -> Int]
    /\ peers_msgs_read \in [Ends -> Nat]
    /\ queue \in [Upipes -> Seq(Items)]
    /\ visible \in [Upipes -> Nat]
    /\ allocated \subseteq Upipes
    /\ cmds \in [Ends -> Seq(Commands)]
    /\ midread \in [Ends -> BOOLEAN] /\ midwrite \in [Ends -> BOOLEAN]
    /\ items \in [Ends -> Nat]
    /\ hiccups \in Nat /\ hwmsets \in Nat

\* The zmq_assert of each handler holds whenever its command arrives:
\* pipe_term only finds the three states it accepts, pipe_term_ack only an
\* end that asked for it or answered one, and hiccup an end that still has
\* an outpipe.
AssertsHold ==
    \A e \in Ends : cmds[e] # << >> /\ Alive(e) =>
        LET type == Head(cmds[e]).type IN
        /\ type = "pipe_term" =>
               state[e] \in {"active", "delimiter_received", "term_req_sent1"}
        /\ type = "pipe_term_ack" =>
               state[e] \in {"term_req_sent1", "term_req_sent2",
                             "term_ack_sent"}
        /\ type = "hiccup" => outpipe[e] # NoPipe

\* flush says "The peer does not exist anymore at this point" for an end in
\* term_ack_sent: no command is on its way to an end that was deallocated.
\* The exception is pipe_hwm: update_pipe_options sends it in any state.
NoCommandToGone ==
    \A e \in Ends : ~ Alive(e) =>
        \A i \in DOMAIN cmds[e] : cmds[e][i].type = "pipe_hwm"

\* The termination protocol: each command finds its receiver in a state that
\* expects it, and finds its receiver at all.
Protocol == AssertsHold /\ NoCommandToGone

\* A ypipe is freed once, after its last use: an end that exists has an
\* allocated inpipe, an outpipe that is NULL or allocated and no other than
\* the peer's inpipe once its hiccups arrived; nothing is left when both
\* ends are gone.
HiccupsTo(e) == SelectSeq(cmds[e], LAMBDA c : c.type = "hiccup")

PipesShared ==
    /\ \A e \in Ends : Alive(e) =>
        /\ inpipe[e] \in allocated
        /\ outpipe[e] = NoPipe \/ outpipe[e] \in allocated
        /\ Alive(Peer(e)) /\ outpipe[e] # NoPipe =>
               inpipe[Peer(e)] = IF HiccupsTo(e) = << >> THEN outpipe[e]
                                 ELSE Last(HiccupsTo(e)).pipe
    /\ (\A e \in Ends : ~ Alive(e)) => allocated = {}

\* A reader that went passive is not forgotten: when messages are visible to
\* it, an activate_read is on its way.
NoLostActivation ==
    \A e \in Ends :
        /\ state[e] \in {"active", "waiting_for_delimiter"}
        /\ ~ in_active[e]
        /\ visible[inpipe[e]] > 0
        => \E i \in DOMAIN cmds[e] : cmds[e][i].type = "activate_read"

CountedIn(s) == Len(SelectSeq(s, Counted))

\* What the writer counted is what the reader counted and what is queued,
\* across hiccups too, so the unsigned difference in check_hwm never wraps.
Accounting ==
    \A e \in Ends : state[e] = "active" =>
        /\ Alive(Peer(e)) =>
              msgs_written[e] = msgs_read[Peer(e)] + CountedIn(queue[outpipe[e]])
        /\ peers_msgs_read[e] <= msgs_written[e]

\* The high watermark is a hard limit on the messages queued for the peer, as
\* long as it is not lowered below what is queued already.
HwmRespected ==
    \A e \in Ends : state[e] = "active" /\ hwm[e] > 0 /\ hwmsets = 0 =>
        CountedIn(queue[outpipe[e]]) <= hwm[e]

\* What the writer at end e knows of the reader once its commands have arrived.
LastAck(e) ==
    LET acks == SelectSeq(cmds[e], LAMBDA m : m.type = "activate_write")
    IN  IF acks = << >> THEN peers_msgs_read[e] ELSE Last(acks).msgs

\* The reader acknowledges every lwm messages: what it has read and the writer
\* will not learn from the commands on their way is less than that, and the
\* writer never learns of more than was read.  A new mark takes effect only
\* with the next multiple, so it is excepted.
ReadsReported ==
    \A e \in Ends :
        state[e] = "active" /\ Alive(Peer(e)) /\ hwmsets = 0
        => LET unreported == msgs_read[Peer(e)] - LastAck(e)
           IN  unreported >= 0 /\ (hwm[e] > 0 => unreported < lwm[Peer(e)])

\* "LWM has to be less than HWM" (compute_lwm): once a change of watermarks
\* has reached both ends, the reader acknowledges before the writer is full.
\* Of a high watermark of 1 compute_lwm makes a low one of 1, against its own
\* comment: the one mark where the two meet.
LwmBelowHwm ==
    \A e \in Ends :
        /\ state[e] = "active" /\ state[Peer(e)] = "active" /\ hwm[e] > 0
        /\ \A i \in DOMAIN cmds[Peer(e)] : cmds[Peer(e)][i].type # "pipe_hwm"
        => IF hwm[e] = 1 THEN lwm[Peer(e)] = 1 ELSE lwm[Peer(e)] < hwm[e]

\* Flow control: the counters of both ends agree with the messages in the
\* pipe, which the high watermark bounds and the low watermark reports.
FlowControl == Accounting /\ HwmRespected /\ ReadsReported /\ LwmBelowHwm

\* A reader gets every part of a message or none: a tail follows the head it
\* belongs to and nothing else follows a head, the delimiter included.  The
\* exception is a hiccup, which drops the unflushed head of a message.
AtomicDelivery ==
    \A e \in Ends :
        hiccups = 0 /\ state[e] \in {"active", "waiting_for_delimiter"}
          /\ visible[inpipe[e]] > 0
        => (queue[inpipe[e]][1] = "tail" <=> midread[e])

\* A termination begun by either end completes: both ends are deallocated.
\* The exception is a hiccup: process_hiccup may drop the delimiter that the
\* peer waits for.
TerminationCompletes ==
    (\E e \in Ends : state[e] # "active")
        ~> (\A e \in Ends : ~ Alive(e)) \/ hiccups > 0

\* A writer stopped by the high watermark is resumed, if its pipe stays.  The
\* exception is a watermark lowered after the reader's last acknowledgement.
WriterResumes ==
    \A e \in Ends :
        (state[e] = "active" /\ ~ out_active[e])
            ~> (state[e] # "active" \/ out_active[e] \/ hwmsets > 0)
=============================================================================

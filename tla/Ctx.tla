-------------------------------- MODULE Ctx --------------------------------
(***************************************************************************)
(* zmq::ctx_t, the reaper thread and the inproc endpoints                  *)
(* (src/src/ctx.cpp, reaper.cpp, and the parts of socket_base.cpp that     *)
(* create, connect, bind, close and deallocate a socket).                  *)
(*                                                                         *)
(* Each application socket is used by a thread of its own; the reaper owns *)
(* the closed sockets; one thread calls shutdown and terminate.  Whatever  *)
(* the code does under slot_sync, endpoints_sync or                        *)
(* pending_connections_sync is one step; terminate, which holds slot_sync  *)
(* while it takes the other two in turn, is a sequence of them.            *)
(* Address s is the one that Connecters' member s connects to.             *)
(***************************************************************************)
EXTENDS Integers, Sequences, SequencesExt, FiniteSets

CONSTANTS
    App,            \* sockets created by the application
    Connecters,     \* those that connect to an inproc address
    Binders,        \* those that bind inproc addresses
    Helper,         \* Helper[s]: the PAIR socket terminate makes for address s
                    \* (bound: once)
    None,
    MaxSockets,     \* ZMQ_MAX_SOCKETS
    MaxInterrupts   \* how often a signal interrupts terminate

Helpers == {Helper[s] : s \in Connecters}
Socks == App \cup Helpers
Tids == 1..MaxSockets

ASSUME CtxAssumption ==
    /\ Connecters \subseteq App /\ Binders \subseteq App \ Connecters
    /\ IsFiniteSet(App)
    /\ Helpers \cap App = {} /\ None \notin Socks
    /\ Cardinality(Helpers) = Cardinality(Connecters)
    /\ MaxSockets \in Nat \ {0} /\ MaxInterrupts \in Nat

VARIABLES
    starting, terminating,   \* ctx_t
    sockets, slots, empty_slots,
    tid,             \* tid[s]: the slot of s, 0 before it is created
    status,          \* none, open, connecting, binding, closed, reaping, gone
    stop,            \* stop[s]: no, sent, or seen (ctx_terminated)
    seqnum,          \* seqnum[s]: commands announced to s and not processed
    cmds,            \* cmds[s]: bind and inproc_connected commands for s
    target,          \* target[s]: the peer or the address s is working on
    endpoints, pending_connections,
    reaper,          \* its mailbox, counter, flag, and whether it is done
    term,            \* the thread in terminate: out, locked (it holds
                     \* slot_sync), wait, freed, abort
    copy,            \* the pending connections terminate has yet to connect
    interrupts

ctx == <<starting, terminating, sockets, slots, empty_slots, tid>>
inproc == <<seqnum, cmds, target, endpoints, pending_connections>>
termVars == <<term, copy, interrupts>>
vars == <<ctx, status, stop, inproc, reaper, termVars>>

-----------------------------------------------------------------------------
ReaperGets(r, ms) == [r EXCEPT !.mailbox = @ \o ms]
StopSent(ss) == [s \in Socks |-> IF s \in ss THEN "sent" ELSE stop[s]]

Init ==
    /\ starting = TRUE /\ terminating = FALSE
    /\ sockets = {}
    /\ slots = [i \in Tids |-> None]
    /\ empty_slots = [i \in Tids |-> MaxSockets + 1 - i]
    /\ tid = [s \in Socks |-> 0]
    /\ status = [s \in Socks |-> "none"]
    /\ stop = [s \in Socks |-> "no"]
    /\ seqnum = [s \in Socks |-> 0] /\ cmds = [s \in Socks |-> 0]
    /\ target = [s \in Socks |-> None]
    /\ endpoints = [s \in Connecters |-> None]
    /\ pending_connections = {}
    /\ reaper = [mailbox |-> <<>>, sockets |-> 0,
                 terminating |-> FALSE, done |-> FALSE]
    /\ term = "out" /\ copy = {} /\ interrupts = 0

\* The context is in use: neither deallocated nor aborted.
Usable == term \notin {"freed", "abort"}

\* slot_sync can be taken.
Unlocked == term # "locked"

\* Socket s takes the topmost empty slot.
Take(s) ==
    /\ sockets' = sockets \cup {s}
    /\ tid' = [tid EXCEPT ![s] = Last(empty_slots)]
    /\ slots' = [slots EXCEPT ![Last(empty_slots)] = s]
    /\ empty_slots' = Front(empty_slots)

\* create_socket; it fails without effect once the context is terminating
\* or when there is no empty slot.
create_socket(s) ==
    /\ Usable /\ Unlocked /\ status[s] = "none"
    /\ ~ terminating /\ empty_slots # <<>>
    /\ starting' = FALSE
    /\ Take(s)
    /\ status' = [status EXCEPT ![s] = "open"]
    /\ UNCHANGED <<terminating, stop, inproc, reaper, termVars>>

\* The API call of an open socket starts with process_commands.
CanCall(s) == status[s] = "open" /\ stop[s] = "no"

\* process_commands: the stop command is remembered in ctx_terminated.
process_stop(s) ==
    /\ status[s] = "open" /\ stop[s] = "sent"
    /\ stop' = [stop EXCEPT ![s] = "seen"]
    /\ UNCHANGED <<ctx, status, inproc, reaper, termVars>>

\* process_bind and inproc_connected: the announced command has arrived.
process_seqnum(s) ==
    /\ status[s] \in {"open", "reaping"} /\ cmds[s] > 0
    /\ cmds' = [cmds EXCEPT ![s] = @ - 1]
    /\ seqnum' = [seqnum EXCEPT ![s] = @ - 1]
    /\ UNCHANGED <<ctx, status, stop, target, endpoints, pending_connections,
                   reaper, termVars>>

\* Mutant: find_endpoint does not announce the bind command.
find_endpoint_Unannounced(t) == seqnum

\* find_endpoint: the peer will not be deallocated before it has the command.
find_endpoint(t) == IF t = None THEN seqnum ELSE [seqnum EXCEPT ![t] = @ + 1]

connect(s) ==
    /\ s \in Connecters /\ CanCall(s) /\ target[s] = None
    /\ s \notin pending_connections
    /\ status' = [status EXCEPT ![s] = "connecting"]
    /\ target' = [target EXCEPT ![s] = endpoints[s]]
    /\ seqnum' = find_endpoint(endpoints[s])
    /\ UNCHANGED <<ctx, stop, cmds, endpoints, pending_connections, reaper,
                   termVars>>

\* send_bind to the peer that was found.
send_bind(s) ==
    /\ status[s] = "connecting" /\ target[s] # None
    /\ status' = [status EXCEPT ![s] = "open"]
    /\ cmds' = [cmds EXCEPT ![target[s]] = @ + 1]
    /\ UNCHANGED <<ctx, stop, seqnum, target, endpoints, pending_connections,
                   reaper, termVars>>

\* Mutant: the endpoints are not looked up again.
BoundMeanwhile_No(s) == FALSE

\* The second look at the endpoints, now under the lock of the pending ones.
BoundMeanwhile(s) == endpoints[s] # None

\* pend_connection: no peer was found; look again, then wait for a bind.
\* target[s] is s from here on: s connects once, which bounds the model.
pend_connection(s) ==
    /\ status[s] = "connecting" /\ target[s] = None
    /\ status' = [status EXCEPT ![s] = "open"]
    /\ target' = [target EXCEPT ![s] = s]
    /\ \/ /\ ~ BoundMeanwhile(s)
          /\ pending_connections' = pending_connections \cup {s}
          /\ seqnum' = [seqnum EXCEPT ![s] = @ + 1]
          /\ UNCHANGED cmds
       \/ /\ BoundMeanwhile(s)
          /\ seqnum' = [seqnum EXCEPT ![endpoints[s]] = @ + 1]
          /\ cmds' = [cmds EXCEPT ![endpoints[s]] = @ + 1]
          /\ UNCHANGED pending_connections
    /\ UNCHANGED <<ctx, stop, endpoints, reaper, termVars>>

\* bind, first half: register_endpoint.
register_endpoint(t, s) ==
    /\ t \in Binders /\ CanCall(t) /\ t # s
    /\ endpoints[s] = None
    /\ endpoints' = [endpoints EXCEPT ![s] = t]
    /\ status' = [status EXCEPT ![t] = "binding"]
    /\ target' = [target EXCEPT ![t] = s]
    /\ UNCHANGED <<ctx, stop, seqnum, cmds, pending_connections, reaper,
                   termVars>>

\* What was pending on address s is connected: the bind command is processed
\* on the spot, the connecter is told by inproc_connected.
Connected(s) ==
    /\ pending_connections' = pending_connections \ {s}
    /\ cmds' = [cmds EXCEPT ![s] =
                   IF s \in pending_connections THEN @ + 1 ELSE @]

\* bind, second half: connect_pending.
connect_pending(t) ==
    /\ status[t] = "binding"
    /\ Connected(target[t])
    /\ status' = [status EXCEPT ![t] = "open"]
    /\ target' = [target EXCEPT ![t] = None]
    /\ UNCHANGED <<ctx, stop, seqnum, endpoints, reaper, termVars>>

\* zmq_close: the socket goes to the reaper.
close(s) ==
    /\ status[s] = "open"
    /\ status' = [status EXCEPT ![s] = "closed"]
    /\ reaper' = ReaperGets(reaper, <<<<"reap", s>>>>)
    /\ UNCHANGED <<ctx, stop, inproc, termVars>>

-----------------------------------------------------------------------------
\* The reaper.

LastOne(s) == terminating /\ sockets = {s}

\* Mutant: the slot is not given back to its list but its mailbox is kept.
slots_Kept(s) == slots

slots_Freed(s) == [slots EXCEPT ![tid[s]] = None]

\* check_destroy: destroy_socket frees the slot and perhaps stops the reaper,
\* then the reaper is told; r is the reaper before that.
check_destroy(s, r) ==
    /\ Unlocked
    /\ empty_slots' = Append(empty_slots, tid[s])
    /\ slots' = slots_Freed(s)
    /\ sockets' = sockets \ {s}
    /\ status' = [status EXCEPT ![s] = "gone"]
    /\ reaper' = ReaperGets(r,
           (IF LastOne(s) THEN <<<<"stop", None>>>> ELSE <<>>)
           \o <<<<"reaped", s>>>>)

Received(kind) ==
    /\ reaper.mailbox # <<>> /\ ~ reaper.done /\ Usable
    /\ Head(reaper.mailbox)[1] = kind
Popped == [reaper EXCEPT !.mailbox = Tail(@)]

unregister_endpoints(s) ==
    [a \in Connecters |-> IF endpoints[a] = s THEN None ELSE endpoints[a]]

\* process_reap: start_reaping terminates the socket, which unregisters its
\* endpoints, and deallocates it at once if nothing is left to wait for.
process_reap ==
    LET s == Head(reaper.mailbox)[2]
        counted == [Popped EXCEPT !.sockets = @ + 1]
    IN  /\ Received("reap")
        /\ endpoints' = unregister_endpoints(s)
        /\ \/ /\ seqnum[s] = 0
              /\ check_destroy(s, counted)
           \/ /\ status' = [status EXCEPT ![s] = "reaping"]
              /\ reaper' = counted
              /\ UNCHANGED <<sockets, slots, empty_slots>>
        /\ UNCHANGED <<starting, terminating, tid, stop, seqnum, cmds, target,
                       pending_connections, termVars>>

\* in_event of a socket being reaped: it is deallocated once all announced
\* commands have been processed (and its pipes are gone).
in_event(s) ==
    /\ status[s] = "reaping" /\ seqnum[s] = 0 /\ Usable /\ ~ reaper.done
    /\ check_destroy(s, reaper)
    /\ UNCHANGED <<starting, terminating, tid, stop, inproc, termVars>>

Idle(n) == n = 0

reaper_process_stop ==
    /\ Received("stop")
    /\ reaper' = [Popped EXCEPT !.terminating = TRUE,
                                !.done = Idle(reaper.sockets)]
    /\ UNCHANGED <<ctx, status, stop, inproc, termVars>>

\* Mutant: the reaper has been told to stop and forgets it.
process_reaped_Forgets(r) == [r EXCEPT !.sockets = @ - 1]

process_reaped(r) ==
    [r EXCEPT !.sockets = @ - 1,
              !.done = r.terminating /\ Idle(r.sockets - 1)]

reaper_process_reaped ==
    /\ Received("reaped")
    /\ reaper' = process_reaped(Popped)
    /\ UNCHANGED <<ctx, status, stop, inproc, termVars>>

-----------------------------------------------------------------------------
\* shutdown and terminate.

\* The sockets ss are told to stop; without any, the reaper is.
StopAll(ss, r) ==
    /\ stop' = StopSent(ss)
    /\ reaper' = IF ss = {} THEN ReaperGets(r, <<<<"stop", None>>>>) ELSE r

shutdown ==
    /\ term = "out" /\ ~ starting /\ ~ terminating
    /\ terminating' = TRUE
    /\ StopAll(sockets, reaper)
    /\ UNCHANGED <<starting, sockets, slots, empty_slots, tid, status, inproc,
                   termVars>>

\* terminate takes slot_sync and copies the pending connections.
terminate ==
    /\ term = "out" /\ ~ starting
    /\ \A s \in pending_connections : status[Helper[s]] = "none"
    /\ term' = "locked"
    /\ copy' = pending_connections
    /\ UNCHANGED <<ctx, status, stop, inproc, reaper, interrupts>>

Binding == \E h \in Helpers : status[h] = "binding"

\* For each one a PAIR socket is created and bound to its address, which fails
\* when that is registered by now; then it is closed.
TerminateCreates(s) ==
    LET h == Helper[s] IN
    /\ term = "locked" /\ s \in copy /\ ~ Binding
    /\ empty_slots # <<>>
    /\ copy' = copy \ {s}
    /\ Take(h)
    /\ \/ /\ endpoints[s] = None
          /\ endpoints' = [endpoints EXCEPT ![s] = h]
          /\ status' = [status EXCEPT ![h] = "binding"]
          /\ target' = [target EXCEPT ![h] = s]
          /\ UNCHANGED reaper
       \/ /\ endpoints[s] # None
          /\ status' = [status EXCEPT ![h] = "closed"]
          /\ reaper' = ReaperGets(reaper, <<<<"reap", h>>>>)
          /\ UNCHANGED <<endpoints, target>>
    /\ UNCHANGED <<starting, terminating, stop, seqnum, cmds,
                   pending_connections, term, interrupts>>

\* The second half of that bind, and the close.
TerminateConnects(h) ==
    /\ status[h] = "binding"
    /\ Connected(target[h])
    /\ status' = [status EXCEPT ![h] = "closed"]
    /\ target' = [target EXCEPT ![h] = None]
    /\ reaper' = ReaperGets(reaper, <<<<"reap", h>>>>)
    /\ UNCHANGED <<ctx, stop, seqnum, endpoints, termVars>>

\* zmq_assert (s): a PAIR socket could not be created.
TerminateAborts ==
    /\ term = "locked" /\ copy # {} /\ ~ Binding
    /\ empty_slots = <<>>
    /\ term' = "abort"
    /\ UNCHANGED <<ctx, status, stop, inproc, reaper, copy, interrupts>>

\* Mutant: a restarted terminate begins from scratch.
Restarted_No == FALSE

\* Termination is already under way.
Restarted == terminating

\* The sockets are stopped and slot_sync is released.
TerminateStops ==
    /\ term = "locked" /\ copy = {} /\ ~ Binding
    /\ terminating' = TRUE
    /\ term' = "wait"
    /\ \/ ~ Restarted /\ StopAll(sockets, reaper)
       \/ Restarted /\ UNCHANGED <<stop, reaper>>
    /\ UNCHANGED <<starting, sockets, slots, empty_slots, tid, status, inproc,
                   copy, interrupts>>

\* A context without sockets yet has no threads to wait for.
TerminateStarting ==
    /\ term = "out" /\ starting
    /\ term' = "freed"
    /\ UNCHANGED <<ctx, status, stop, inproc, reaper, copy, interrupts>>

TerminateInterrupted ==
    /\ term = "wait" /\ ~ reaper.done /\ interrupts < MaxInterrupts
    /\ term' = "out"
    /\ interrupts' = interrupts + 1
    /\ UNCHANGED <<ctx, status, stop, inproc, reaper, copy>>

\* The done command has come: the context is deallocated.
TerminateDone ==
    /\ term = "wait" /\ reaper.done
    /\ term' = "freed"
    /\ UNCHANGED <<ctx, status, stop, inproc, reaper, copy, interrupts>>

Reaper == process_reap \/ reaper_process_stop \/ reaper_process_reaped

Next ==
    \/ \E s \in App : create_socket(s) \/ close(s)
    \/ \E s \in Socks : process_stop(s) \/ process_seqnum(s) \/ in_event(s)
    \/ \E s \in Connecters : connect(s) \/ send_bind(s) \/ pend_connection(s)
    \/ \E t \in Binders : connect_pending(t)
                          \/ \E s \in Connecters : register_endpoint(t, s)
    \/ Reaper
    \/ shutdown \/ terminate \/ TerminateAborts \/ TerminateStops
    \/ \E s \in Connecters : TerminateCreates(s)
    \/ \E h \in Helpers : TerminateConnects(h)
    \/ TerminateStarting \/ TerminateInterrupted \/ TerminateDone

Spec == Init /\ [][Next]_vars

\* Every thread that can go on does; the user closes a socket whose calls
\* return ETERM, and calls terminate again when a signal interrupts it.
FairSpec ==
    /\ Spec
    /\ \A s \in Socks :
        /\ WF_vars(process_stop(s)) /\ WF_vars(process_seqnum(s))
        /\ WF_vars(in_event(s))
        /\ WF_vars(stop[s] = "seen" /\ close(s))
    /\ \A s \in Connecters : WF_vars(send_bind(s) \/ pend_connection(s))
    /\ \A t \in Binders : WF_vars(connect_pending(t))
    /\ WF_vars(Reaper)
    /\ \A s \in Connecters : WF_vars(TerminateCreates(s))
    /\ \A h \in Helpers : WF_vars(TerminateConnects(h))
    /\ WF_vars(terminating /\ terminate) /\ WF_vars(TerminateStops)
    /\ WF_vars(TerminateDone)

-----------------------------------------------------------------------------
\* The type invariant of the context, the reaper and the endpoints.
TypeOK ==
    /\ starting \in BOOLEAN /\ terminating \in BOOLEAN
    /\ sockets \subseteq Socks
    /\ slots \in [Tids -> Socks \cup {None}]
    /\ empty_slots \in Seq(Tids)
    /\ tid \in [Socks -> 0..MaxSockets]
    /\ status \in [Socks -> {"none", "open", "connecting", "binding",
                             "closed", "reaping", "gone"}]
    /\ stop \in [Socks -> {"no", "sent", "seen"}]
    /\ seqnum \in [Socks -> Nat] /\ cmds \in [Socks -> Nat]
    /\ target \in [Socks -> Socks \cup {None}]
    /\ endpoints \in [Connecters -> Socks \cup {None}]
    /\ pending_connections \subseteq Connecters
    /\ reaper \in [mailbox : Seq({"reap", "reaped", "stop"}
                                 \X (Socks \cup {None})),
                   sockets : Nat, terminating : BOOLEAN, done : BOOLEAN]
    /\ term \in {"out", "locked", "wait", "freed", "abort"}
    /\ copy \subseteq Connecters
    /\ interrupts \in 0..MaxInterrupts

\* The reaper thread ends last: once it has said done (and left its loop)
\* nothing waits in its mailbox, it counts no socket, and none is registered:
\* zmq_assert (sockets.empty ()) in terminate and in the destructor of ctx_t.
ReaperEndsLast ==
    reaper.done =>
        reaper.mailbox = <<>> /\ reaper.sockets = 0 /\ sockets = {}

\* A command sent through slots[tid] reaches the socket it is meant for: each
\* registered socket has a slot of its own, and every other slot is empty and
\* on the list of empty slots exactly once.
SlotsOwned ==
    starting \/
    /\ \A s \in sockets : slots[tid[s]] = s
    /\ \A i \in Tids : slots[i] = None \/ slots[i] \in sockets
    /\ {empty_slots[j] : j \in DOMAIN empty_slots}
           = {i \in Tids : slots[i] = None}
    /\ Len(empty_slots) + Cardinality(sockets) = MaxSockets

\* connect reads the endpoint, lets go of endpoints_sync and sends the bind
\* command later: the socket found is still there to receive it, and so are
\* those that commands have been sent to.
PeerAlive ==
    /\ \A s \in Connecters :
          status[s] = "connecting" /\ target[s] # None
          => status[target[s]] # "gone"
    /\ \A s \in Socks : cmds[s] > 0 => status[s] # "gone"

\* bind registers its endpoint and connects the pending connections in two
\* separate critical sections, connect looks up and pends in two: still no
\* connection is left pending behind an endpoint that is registered.
NotForgotten ==
    \A s \in pending_connections :
        endpoints[s] # None => status[endpoints[s]] = "binding"
                               /\ target[endpoints[s]] = s

\* Inproc connections: both sides of an address meet, and neither is used
\* after it is gone.
InprocSafe == PeerAlive /\ NotForgotten

\* zmq_ctx_term returns once the user has closed the sockets, unless an inproc
\* connection is left pending: one that was made to wait after terminate had
\* connected the pending ones, or that no socket could be created for.
TermReturnsUnlessPending ==
    term = "wait" ~> term \in {"freed", "out"} \/ pending_connections # {}
=============================================================================

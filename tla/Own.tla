-------------------------------- MODULE Own --------------------------------
(***************************************************************************)
(* zmq::own_t (src/src/own.cpp): the tree of objects that own each other   *)
(* and its shutdown across threads.  The root is a socket; listeners,      *)
(* sessions and connecters hang below it and live in I/O threads.  An      *)
(* object is deallocated once it is terminating, every object it asked to  *)
(* terminate has acknowledged, and it has processed as many counted        *)
(* commands (plug, own, attach, bind) as were announced to it by           *)
(* inc_seqnum.                                                             *)
(*                                                                         *)
(* Commands travel through one mailbox per thread, first in first out.     *)
(* The socket also waits for its ends of the pipes before it is            *)
(* deallocated; that delays it further and is left out (see Pipe).         *)
(***************************************************************************)
EXTENDS Integers, Sequences, SequencesExt, FiniteSets

CONSTANTS
    Objects,     \* every object of the tree
    Root,        \* the socket
    Threads,
    Owner,       \* Owner[o]: who launches o, for o other than the root
    Thread,      \* Thread[o]: where o lives
    Sessions,    \* those that may have a pipe to the socket
    Attached,    \* the sessions of accepted connections
    Connecters,  \* those that attach an engine to the session they belong to
    Trees        \* bound: for each one in turn, the objects that are launched

ASSUME OwnAssumption ==
    /\ Root \in Objects
    /\ Owner \in [Objects \ {Root} -> Objects]
    /\ Thread \in [Objects -> Threads]
    /\ Sessions \subseteq Objects \ {Root} /\ Attached \subseteq Sessions
    /\ Connecters \subseteq Objects \ ({Root} \cup Sessions)
    /\ \A o \in Connecters : Owner[o] \in Sessions
    /\ Trees \subseteq SUBSET Objects

VARIABLES
    status,       \* "none", "alive" or "gone"
    terminating, owned, term_acks,
    sent_seqnum, processed_seqnum,
    pipe,         \* pipe[o]: session o has a pipe, or one that is terminating
    pending,      \* session_base_t::pending: waiting for its pipe
    connected,    \* the connecters that have made their connection
    mailbox       \* mailbox[t]: commands sent to the objects of thread t

seqnums == <<sent_seqnum, processed_seqnum>>
session == <<pipe, pending, connected>>
vars == <<status, terminating, owned, term_acks, seqnums, session, mailbox>>

-----------------------------------------------------------------------------
Cmd(type, dest, obj) == [type |-> type, dest |-> dest, obj |-> obj]

\* The mailboxes once the commands ms are sent; own thread's head consumed
\* when the sender is processing it.
Sent(boxes, ms) ==
    [t \in Threads |-> boxes[t] \o SelectSeq(ms, LAMBDA m : Thread[m.dest] = t)]

Consumed(o) == [mailbox EXCEPT ![Thread[o]] = Tail(@)]

Alive(o) == status[o] = "alive"

\* send_plug, send_own, send_attach and send_bind announce their command.
Announced(ms) ==
    [o \in Objects |-> sent_seqnum[o]
        + Len(SelectSeq(ms, LAMBDA m : m.dest = o
                              /\ m.type \in {"plug", "own", "attach", "bind"}))]

\* Mutant: check_term_acks ignores the count of announced commands.
Done_NoSeqnum(term, acks, processed, sent) == term /\ acks = 0

Done(term, acks, processed, sent) == term /\ acks = 0 /\ processed = sent

\* check_term_acks: with its new fields, object o stays or is deallocated
\* after it has told its owner.  boxes and ms are the mailboxes and the
\* commands sent before the check.
check_term_acks(o, term, acks, processed, boxes, ms) ==
    /\ terminating' = [terminating EXCEPT ![o] = term]
    /\ term_acks' = [term_acks EXCEPT ![o] = acks]
    /\ processed_seqnum' = [processed_seqnum EXCEPT ![o] = processed]
    /\ \/ /\ ~ Done(term, acks, processed, sent_seqnum[o])
          /\ mailbox' = Sent(boxes, ms)
          /\ UNCHANGED status
       \/ /\ Done(term, acks, processed, sent_seqnum[o])
          /\ status' = [status EXCEPT ![o] = "gone"]
          /\ mailbox' = Sent(boxes, IF o = Root THEN ms ELSE
                                    Append(ms, Cmd("term_ack", Owner[o], o)))

Terms(os) == SetToSeq({Cmd("term", o, o) : o \in os})

\* own_t::process_term.
own_process_term(o, boxes) ==
    /\ owned' = [owned EXCEPT ![o] = {}]
    /\ check_term_acks(o, TRUE, term_acks[o] + Cardinality(owned[o]),
                       processed_seqnum[o], boxes, Terms(owned[o]))
    /\ UNCHANGED sent_seqnum

Init ==
    /\ status = [o \in Objects |-> IF o = Root THEN "alive" ELSE "none"]
    /\ terminating = [o \in Objects |-> FALSE]
    /\ owned = [o \in Objects |-> {}]
    /\ term_acks = [o \in Objects |-> 0]
    /\ sent_seqnum = [o \in Objects |-> 0]
    /\ processed_seqnum = [o \in Objects |-> 0]
    /\ pipe = [o \in Objects |-> FALSE] /\ pending = [o \in Objects |-> FALSE]
    /\ connected = {}
    /\ mailbox = [t \in Threads |-> << >>]

-----------------------------------------------------------------------------
(* What objects do on their own.                                           *)

\* Who still launches: a session reconnects as long as it is there, a socket
\* being shut down is called no more, and a terminating listener has closed
\* its descriptor.
Launches(p) ==
    /\ Alive(p) /\ (terminating[p] => p \in Sessions)
    /\ p = Root \/ processed_seqnum[p] > 0

\* launch_child, and for an accepted connection the attach that follows.  The
\* session of zmq_connect gets its pipe now, or with its engine
\* (ZMQ_IMMEDIATE).
launch_child(p, o) ==
    LET ms == << Cmd("plug", o, o), Cmd("own", p, o) >>
                \o IF o \in Attached THEN << Cmd("attach", o, o) >> ELSE << >>
    IN
    /\ o # Root /\ Owner[o] = p
    /\ Launches(p) /\ status[o] = "none"
    /\ \E tree \in Trees : {o} \cup {x \in Objects : status[x] # "none"} \subseteq tree
    /\ status' = [status EXCEPT ![o] = "alive"]
    /\ \E has \in BOOLEAN :
          /\ has => o \in Sessions \ Attached
          /\ pipe' = [pipe EXCEPT ![o] = has]
    /\ sent_seqnum' = Announced(ms)
    /\ mailbox' = Sent(mailbox, ms)
    /\ UNCHANGED <<terminating, owned, term_acks, processed_seqnum, pending,
                   connected>>

\* out_event of a connecter: the engine goes to its session, and it asks to be
\* terminated.
out_event(o) ==
    LET ms == << Cmd("attach", Owner[o], o), Cmd("term_req", Owner[o], o) >> IN
    /\ o \in Connecters \ connected
    /\ Alive(o) /\ ~ terminating[o] /\ processed_seqnum[o] > 0
    /\ connected' = connected \cup {o}
    /\ sent_seqnum' = Announced(ms)
    /\ mailbox' = Sent(mailbox, ms)
    /\ UNCHANGED <<status, terminating, owned, term_acks, processed_seqnum,
                   pipe, pending>>

\* terminate: the root starts, any other object asks its owner.
terminate(o) ==
    /\ Alive(o) /\ ~ terminating[o]
    /\ \/ /\ o = Root
          /\ own_process_term(o, mailbox)
       \/ /\ o # Root /\ processed_seqnum[o] > 0
          /\ ~ \E t \in Threads : \E i \in DOMAIN mailbox[t] :
                  mailbox[t][i] = Cmd("term_req", Owner[o], o)
          /\ mailbox' = Sent(mailbox, << Cmd("term_req", Owner[o], o) >>)
          /\ UNCHANGED <<status, terminating, owned, term_acks, seqnums>>
    /\ UNCHANGED session

\* The child is forgotten and asked to terminate, once.
term_req(p, o, boxes) ==
    \/ /\ ~ terminating[p] /\ o \in owned[p]
       /\ owned' = [owned EXCEPT ![p] = @ \ {o}]
       /\ term_acks' = [term_acks EXCEPT ![p] = @ + 1]
       /\ mailbox' = Sent(boxes, << Cmd("term", o, o) >>)
    \/ /\ terminating[p] \/ o \notin owned[p]
       /\ mailbox' = boxes
       /\ UNCHANGED <<owned, term_acks>>

\* term_child, called by the socket for zmq_unbind and zmq_disconnect.
term_child(o) ==
    /\ Alive(Root) /\ o \in owned[Root]
    /\ term_req(Root, o, mailbox)
    /\ UNCHANGED <<status, terminating, seqnums, session>>

-----------------------------------------------------------------------------
(* Commands.                                                               *)

Arrives(o, type) ==
    /\ mailbox[Thread[o]] # << >>
    /\ LET m == Head(mailbox[Thread[o]]) IN m.dest = o /\ m.type = type
    /\ Alive(o)

Arg(o) == Head(mailbox[Thread[o]]).obj

\* process_plug, or process_bind of the socket, and process_seqnum.
process_plug(o) ==
    /\ Arrives(o, "plug") \/ Arrives(o, "bind")
    /\ check_term_acks(o, terminating[o], term_acks[o],
                       processed_seqnum[o] + 1, Consumed(o), << >>)
    /\ UNCHANGED <<owned, sent_seqnum, session>>

\* process_attach and process_seqnum: unless the session has a pipe (that is
\* not terminating) or is terminating itself, it makes one and sends the other
\* end to the socket.
process_attach(o) ==
    LET bind == << Cmd("bind", Root, o) >> IN
    /\ Arrives(o, "attach")
    /\ \/ /\ ~ terminating[o]
          /\ pipe' = [pipe EXCEPT ![o] = TRUE]
          /\ sent_seqnum' = Announced(bind)
          /\ check_term_acks(o, FALSE, term_acks[o], processed_seqnum[o] + 1,
                             Consumed(o), bind)
       \/ /\ terminating[o] \/ pipe[o]
          /\ check_term_acks(o, terminating[o], term_acks[o],
                             processed_seqnum[o] + 1, Consumed(o), << >>)
          /\ UNCHANGED <<pipe, sent_seqnum>>
    /\ UNCHANGED <<owned, pending, connected>>

\* Mutant: a child that arrives during the shutdown is kept.
process_own_Kept(o) ==
    /\ Arrives(o, "own")
    /\ owned' = [owned EXCEPT ![o] = @ \cup {Arg(o)}]
    /\ check_term_acks(o, terminating[o], term_acks[o],
                       processed_seqnum[o] + 1, Consumed(o), << >>)
    /\ UNCHANGED <<sent_seqnum, session>>

\* process_own and process_seqnum.
process_own(o) ==
    /\ Arrives(o, "own")
    /\ \/ /\ terminating[o]
          /\ check_term_acks(o, TRUE, term_acks[o] + 1, processed_seqnum[o] + 1,
                             Consumed(o), Terms({Arg(o)}))
          /\ UNCHANGED owned
       \/ /\ ~ terminating[o]
          /\ owned' = [owned EXCEPT ![o] = @ \cup {Arg(o)}]
          /\ check_term_acks(o, FALSE, term_acks[o], processed_seqnum[o] + 1,
                             Consumed(o), << >>)
    /\ UNCHANGED <<sent_seqnum, session>>

\* process_term_req.
process_term_req(o) ==
    /\ Arrives(o, "term_req")
    /\ term_req(o, Arg(o), Consumed(o))
    /\ UNCHANGED <<status, terminating, seqnums, session>>

\* process_term; a session that has a pipe waits until it is gone.
process_term(o) ==
    /\ Arrives(o, "term")
    /\ \/ /\ ~ pipe[o]
          /\ own_process_term(o, Consumed(o))
          /\ UNCHANGED pending
       \/ /\ pipe[o]
          /\ pending' = [pending EXCEPT ![o] = TRUE]
          /\ mailbox' = Consumed(o)
          /\ UNCHANGED <<status, terminating, owned, term_acks, seqnums>>
    /\ UNCHANGED <<pipe, connected>>

\* Mutant: the session does not resume its termination.
pipe_terminated_Forgets(o) ==
    /\ Alive(o) /\ pipe[o]
    /\ pipe' = [pipe EXCEPT ![o] = FALSE]
    /\ pending' = [pending EXCEPT ![o] = FALSE]
    /\ UNCHANGED <<status, terminating, owned, term_acks, seqnums, connected,
                   mailbox>>

\* session_base_t::pipe_terminated, of the last pipe: a pending termination
\* goes on.
pipe_terminated(o) ==
    /\ Alive(o) /\ pipe[o]
    /\ pipe' = [pipe EXCEPT ![o] = FALSE]
    /\ pending' = [pending EXCEPT ![o] = FALSE]
    /\ \/ pending[o] /\ own_process_term(o, mailbox)
       \/ ~ pending[o]
          /\ UNCHANGED <<status, terminating, owned, term_acks, seqnums, mailbox>>
    /\ UNCHANGED connected

\* Mutant: one acknowledgement counts twice.
process_term_ack_Twice(o) ==
    /\ Arrives(o, "term_ack")
    /\ check_term_acks(o, terminating[o], term_acks[o] - 2,
                       processed_seqnum[o], Consumed(o), << >>)
    /\ UNCHANGED <<owned, sent_seqnum, session>>

\* process_term_ack, unregister_term_ack.
process_term_ack(o) ==
    /\ Arrives(o, "term_ack")
    /\ check_term_acks(o, terminating[o], term_acks[o] - 1,
                       processed_seqnum[o], Consumed(o), << >>)
    /\ UNCHANGED <<owned, sent_seqnum, session>>

process_command(o) ==
    \/ process_plug(o)
    \/ process_attach(o)
    \/ process_own(o)
    \/ process_term_req(o)
    \/ process_term(o)
    \/ process_term_ack(o)

Next ==
    \E o \in Objects :
        \/ process_command(o)
        \/ \E p \in Objects : launch_child(p, o)
        \/ out_event(o)
        \/ terminate(o)
        \/ term_child(o)
        \/ pipe_terminated(o)

Spec == Init /\ [][Next]_vars

\* Threads process their commands, the pipes of a session go away.
Fairness ==
    \A o \in Objects : WF_vars(process_command(o))
                       /\ WF_vars(pending[o] /\ pipe_terminated(o))

FairSpec == Spec /\ Fairness

-----------------------------------------------------------------------------
(* Properties.                                                             *)

\* The fields of the objects and the commands have their types; in particular
\* no object counts more acknowledgements than it asked for (own.cpp).
TypeOK ==
    /\ status \in [Objects -> {"none", "alive", "gone"}]
    /\ terminating \in [Objects -> BOOLEAN]
    /\ owned \in [Objects -> SUBSET Objects]
    /\ term_acks \in [Objects -> Nat]
    /\ sent_seqnum \in [Objects -> Nat]
    /\ processed_seqnum \in [Objects -> Nat]
    /\ pipe \in [Objects -> BOOLEAN] /\ pending \in [Objects -> BOOLEAN]
    /\ connected \subseteq Connecters
    /\ mailbox \in [Threads ->
          Seq([type : {"plug", "own", "attach", "bind", "term_req", "term",
                       "term_ack"},
               dest : Objects, obj : Objects])]

\* The assertions of own_t and session_base_t hold when a command arrives:
\* "Double termination should never happen", an ack was asked for, and
\* "There should be no active children" when an object is deallocated.
AssertsHold ==
    /\ \A o \in Objects :
          /\ Arrives(o, "term") => ~ terminating[o] /\ ~ pending[o]
          /\ Arrives(o, "term_ack") => term_acks[o] > 0
    /\ \A o \in Objects : status[o] = "gone" => owned[o] = {}

\* No command is on its way to a deallocated object: what inc_seqnum is for.
NoCommandToGone ==
    \A t \in Threads : \A i \in DOMAIN mailbox[t] :
        status[mailbox[t][i].dest] # "gone"

\* An object outlives the objects it launched, so that a child may use its
\* owner (a session its socket) without asking whether it still exists.
ChildrenFirst ==
    \A o \in Objects \ {Root} : Alive(o) => status[Owner[o]] # "gone"

\* Nobody uses an object after it was deallocated: no command does, and no
\* child.
NoDangling == NoCommandToGone /\ ChildrenFirst

\* Once the socket terminates, the whole tree is deallocated.
ShutdownCompletes ==
    terminating[Root] ~> \A o \in Objects : status[o] # "alive"
=============================================================================

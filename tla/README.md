# Verification of libuzmq

libuzmq is a fork of libzmq 4.2 that runs its TCP transport over a user-level
lwIP stack. This directory holds TLA+ models of the parts of it that decide
whether messages and commands arrive, the TLC configurations that check them on
small instances, and TLAPS proofs of what holds for every size. All paths below
are relative to the repository, which the modules cite as `src/`; the
implementation is in `src/src/`.

## 1. The system

An application opens *sockets* in a *context*. A socket is used by one thread at
a time. Connections are served by *I/O threads*; closed sockets are finished by
the *reaper* thread. Threads share no data structures but these:

* every thread has a **mailbox** of commands, a ypipe with any number of senders
  behind a mutex, plus a **signaler** that wakes the owner;
* a socket and a session (or two inproc sockets) are joined by a **pipe pair**,
  two `pipe_t` over two lock-free **ypipes**, one per direction;
* the **context** holds the table of mailboxes, the inproc endpoints and the
  connections that wait for one, each under its mutex.

| Part | State | Operations that change it | Who calls | What is hard |
|---|---|---|---|---|
| `yqueue_t` | chunks, begin/back/end, spare chunk | push, unpush, pop, destructor | one writer, one reader | the spare chunk changes hands; addresses come back |
| `ypipe_t` | `w r f` and the atomic `c` | write, unwrite, flush, check_read, read | one writer, one reader | two cas and a plain store race |
| `mailbox_t`, `signaler_t` | ypipe, mutex, active flag, signal | send, recv, destructor | any thread / owner | the signal follows the unlock |
| `pipe_t` | state, water marks, counters, two ypipes | read, write, flush, rollback, terminate, hiccup, set_hwms, seven commands | socket thread / I/O thread | both ends terminate, hiccup or change marks at once |
| `own_t` | children, acks owed, sequence numbers | launch, term, term_req, term_ack, own, plug | all threads | commands in flight to an object that ends |
| `ctx_t`, `reaper_t`, inproc | slots, sockets, endpoints, pending | create, close, bind, connect, shutdown, terminate, reap, stop | all threads | terminate against everything else |
| `lb_t`, `fq_t` | array of pipes, active, current, more | attach, terminated, activated, send/recv, has_out/has_in | socket thread | pipes move in the array within a message |
| `dist_t`, `xpub_t` | array with three regions, subscriptions | the same, match, send, (un)subscribe | socket thread | the same, and subscriptions change within a message |
| `xsub_t`, tries | subscriptions, filter state | send, recv | socket thread | partial messages and filters |
| `req_t rep_t router_t dealer_t pair_t` | request state, routing table | xsend, xrecv, pipe events | socket thread | pipe events between the parts of a request |
| `session_base_t`, connecter, listener | pipe, engine, pending, timers | attach, reconnect, engine errors, term | I/O thread | engine errors during termination |
| `stream_engine_t`, codecs, tcp | buffers, output/input stopped | in/out events, restart | I/O thread | partial writes, back pressure |
| poller, timers | handles, retired list, timers | loop, add/rm, timers | I/O thread | handles retired in callbacks; timers never run |
| `mailbox_safe_t`, `dbuffer_t`, `msg_t`, `timers_t`, proxy | | | | planned, section 3 |

`PROJECT.json` lists every part with its status, and under "hazards" each place
where the code is hard to test, with the properties that watch it.

## 2. Modules

| Module | Models | Size of the instance checked |
|---|---|---|
| `Channel` | what a ypipe promises: a FIFO channel with incomplete, complete and visible items | - |
| `YPipe` | `ypipe.hpp`; refines `Channel` | 2 items, 5 positions |
| `YQueue`, `MCYQueue` | `yqueue.hpp` | 5 chunks of 2 cells, 5 live cells |
| `Mailbox` | `mailbox.cpp`, `signaler.cpp` on top of `YPipe` (it extends it) | 3 senders, 6 positions |
| `Pipe`, `MCPipe` | `pipe.cpp`, with the calls of sockets and sessions as environment | see 4.4 |
| `Own`, `MCOwn` | `own.cpp`, attach and shutdown of `session_base.cpp`, the end of a connecter | 5 objects, 4 at a time, 3 threads |
| `Ctx`, `MCCtx` | `ctx.cpp`, `reaper.cpp`, parts of `socket_base.cpp` | 3 sockets, 1 helper, 2 slots |
| `Array` | `array.hpp` | - |
| `Lb`, `Fq` | `lb.cpp`, `fq.cpp` | 3 pipes |
| `Xpub`, `MCXpub` | `xpub.cpp`, `dist.cpp` | 3 pipes and 1 topic; 2 pipes, 2 topics and 3 notifications |
| `YPipeProofs`, `MailboxProofs` | theorems | every size |

The modules are stacked the way the code is: `YPipe` is proved to implement
`Channel`; `Mailbox` contains a `YPipe`; `Pipe` uses two channels (a sequence and
how much of it is visible) in place of ypipes and first-in first-out command
queues in place of mailboxes; `Lb`, `Fq` and `Xpub` use of a pipe what `Pipe`
shows of it.

Definitions keep the names of the source. A definition whose name has a suffix
with a capital letter (`Flush_ComparesF`) and a comment "Mutant" is a wrong version of
the definition after it; nothing uses it but `PROJECT.json`, which names for each
property a mutant that the property must reject.

### YPipe and Channel

Positions of the queue are numbers; the pointers `w`, `f`, `r`, `c` are positions
or Null. An operation that touches `c` is split at the atomic: `Flush` is the cas,
`FlushSet` the plain store after a cas that failed. `Woken` and `Poll` are the two
occasions on which a reader calls `check_read`: after it was told to, or by
itself. `asleep` says that its last `check_read` failed, `wake` that a flush since
then returned false.

### YQueue

Chunks are addresses, freed and allocated again in any order. `live` is a ghost:
the cells pushed and not popped, in order. The writer and the reader touch
disjoint fields but for the spare chunk, whose exchange is atomic; each operation
is one step.

### Mailbox

`send` is split at lock, write and flush (cas, store), unlock, signal, because the
signal is sent after the unlock; `recv` at the read, the wait, the signal and the
second read. The destructor locks and unlocks the mutex. eventfd and socketpair
are a counter.

When an owner destroys its mailbox is decided by the code above it, and the module
takes it from there as `LastUse`. I/O threads, the reaper and `terminate` destroy
theirs after the last command there will be (stop, reaped, done). A socket is deleted
when every command announced by `inc_seqnum` was processed; the one command to it that
is not announced is the context's stop, which it may leave unread. That one is sent
under `slot_sync`, which `destroy_socket` takes before the socket is deleted, so its
sender has left `send`.

### Pipe

Both ends with all their fields, the ypipes by number so that freeing and
replacing one by a hiccup is visible, and a queue of commands to each end. Each
call of an owner (read, write, flush, rollback, terminate, hiccup, setsockopt) and
each command handler is one action; a handler includes its calls of the sink that
change the pipe. Items are `one`, `head`/`tail` (a message of two parts), `id`,
`cred` and the delimiter, which is all that the counters distinguish. Credentials
are in the model but no mechanism of this build creates them.

### Own

A tree of objects over one FIFO mailbox per thread. `launch_child`, `term_child`
and `terminate` are calls of the owner, `out_event` is a connecter that has its
connection (it sends the engine to its session and asks to be terminated), the rest
is `process_command`. A session made by `zmq_connect` has its pipe from the start or,
with `ZMQ_IMMEDIATE`, gets it in `process_attach`, as one of a listener always does;
`process_attach` then announces a bind to the socket. A terminating session that has
a pipe waits for it (`pending`, `pipe_terminated`). `Launches` says who may still
launch: a session that is terminating may, as it reconnects; a terminating listener
or socket does not. The socket's own wait for its ends of the pipes is left out.

### Ctx

What the code does in one critical section is one step; connect and bind have two
and are two steps. A socket is a status (open, connecting, binding, closed, reaping,
gone), its slot, whether stop was sent or seen, and its announced and waiting
commands. `terminate` holds `slot_sync` over several steps, in which connects, binds
and the reaper go on and only `create_socket` and `destroy_socket` wait: it copies the
pending connections (`terminate`; a read without `endpoints_sync`, modelled as one
step), then creates and binds a helper socket for each (`TerminateCreates`,
`TerminateConnects`) or fails `zmq_assert (s)` (`TerminateAborts`), then stops the
sockets and unlocks (`TerminateStops`). After that it waits, is interrupted by a
signal (`TerminateInterrupted`) or finishes (`TerminateDone`).

### Lb, Fq, Xpub

The array of pipes with its regions is modelled index by index. Each iteration of
a loop is one step, though nothing else runs in between: commands of pipes are
processed between API calls only. Of a pipe the models keep whether it can be
written or read, how many messages it takes, and the parts not yet flushed.
`broken` (Lb, Fq) and `attempt` (Xpub) are ghosts that record that one of the
known disagreements of section 6 has happened, so that the properties can name
their exceptions and every other behaviour is still checked.

## 3. Plan

Done: the queues, the mailbox, the pipe, the ownership tree, the context, the
distribution of messages over pipes, and the proofs for the queues and the mailbox.

Next, in this order:

1. *Engine*: `data_out_event`, `ctl_out_event`, `in_event` with partial writes,
   encoder batches, `input_stopped`/`restart_input`; that the bytes on the wire are
   those of the messages, in order, and that a stopped side is restarted.
2. *Session and connecter*: attach, engine_error, reconnect, `clean_pipes`, linger,
   composed with the ends of `Pipe`; that no call reaches a pipe or engine that is
   gone.
3. *Poller*: the two select loops, retired handles, and the timers; `epoll.cpp:410`
   has `execute_timers` commented out, so nothing that waits for a timer is to be
   assumed by the models above it.
4. *Request and reply*: `req_t`, `rep_t`, `router_t`, `dealer_t`, `pair_t` on top of
   `Lb` and `Fq`, against an abstract lock-step specification.
5. *xsub, tries, mailbox_safe, dbuffer, message reference counts, timers, proxy*.
6. *Proofs*: `Own` (NoDangling, from an invariant relating announced commands to
   mailboxes), `Lb` and `Fq` (TypeOK and NotForgotten, for every number of pipes),
   `Ctx` (SlotsOwned), then `Pipe` (Protocol: an invariant over the two states and
   the commands between them).

Modules to be proved about use no RECURSIVE operator, name their assumptions on
constants, and state invariants as conjunctions of named parts.

## 4. What the runs check

Run `tlc -config X.cfg M` in this directory. Deadlock is checked where the system
cannot stop; the configurations that say `CHECK_DEADLOCK FALSE` are of systems
that may: a queue destroyed, a pipe or tree deallocated, a context freed, a bound on
positions used up, an assertion that ended the process.

### 4.1 `ypipe`
* `Disjoint`: writer and reader never touch the same cell, and the plain store of
  `c` cannot overwrite a pointer the reader uses.
* `NoLostWakeup`: a reader whose `check_read` failed is owed a wake-up as soon as
  there is something to read.
* `ImplementsChannel`: every behaviour is one of `Channel`, so items come out once,
  in order, and never before they were completed and flushed.

Five positions are enough for a message of several parts to be written, rolled
back, flushed, and for the reader to fall asleep in between, twice.

### 4.2 `yqueue`
* `OneQueue`: the cells found over `prev` and `next` are those that were pushed, and
  no two positions share an address. This is what lets `YPipe` use positions.
* `MemorySafe`: no cell in use is in a freed or spare chunk; each chunk is freed
  exactly once.

Chunks of two cells put every push, unpush and pop at or next to a boundary; five
addresses let one be freed and used again while others are live. Addresses are
symmetric.

### 4.3 `mailbox`
* `SignalMeansCommand`: `zmq_assert (ok)` in `recv` holds.
* `SignalledOnce`: a sleeping owner with commands has exactly one signal, or one
  sender about to send it.
* `NobodyInSend`: the destructor's lock and unlock is enough although the signal is
  sent outside the lock, given `LastUse`.
* `Delivered`: every command sent is received, but for the unread last one of `LastUse`.

### 4.4 `pipe` and `pipe_live`
* `Protocol`: the assertions of the handlers hold and no command is sent to an end
  that was deallocated (except `pipe_hwm`, section 6).
* `PipesShared`: the ends agree on the ypipes; each is freed once and none is left.
* `NoLostActivation`: a passive reader with visible messages has an `activate_read`
  on its way.
* `FlowControl`: both ends' counters agree with what is queued, so the unsigned
  difference in `check_hwm` does not wrap; the high water mark bounds the queue; what
  was read and not yet reported to the writer is less than the low water mark, and that
  is less than the high one, but for a high mark of 1 (section 6).
* `AtomicDelivery`: a reader never sees a part of a message without the rest.
* `TerminationCompletes`, `WriterResumes`: liveness.

End `a` is a session's, end `b` a socket's. `Bounds` is a set of budgets, one of
which a behaviour must stay within: one item one way and two the other; four items one
way; two items and a hiccup; two items and a change of the water marks. The
interesting cases need one event of each kind against termination from both sides
with and without delay, which each budget has. The high marks are 1 and 3: the low
mark that belongs to 1 reports every read, the one that belongs to 3 is 2 and leaves a
read unreported, so that a writer may be full while the queue is not. Four items fill
the larger queue and go on. The liveness run uses the same marks and four items.
`MaxCmds` keeps a writer from flushing once that many commands are on their way to its
peer, two in the first run and one in the second; other commands are not limited.

Exceptions, all from section 6: `AtomicDelivery` and `TerminationCompletes` say nothing
of a pipe after a hiccup; `WriterResumes`, the bound of the high mark and the unreported
reads nothing of one whose marks were changed. `Protocol`, `PipesShared`,
`NoLostActivation`, the counters and the relation of the two marks cover both.

### 4.5 `own`
* `AssertsHold`: no double termination, no unexpected acknowledgement, no children
  left.
* `NoDangling`: no command is on its way to a deallocated object, and an object
  outlives its children.
* `ShutdownCompletes`.

Counted commands are plug, own, attach and bind. The tree has two levels below the
socket on both sides and a session attached by a listener in another thread, the case
the sequence numbers exist for. `Trees` bounds the objects launched in a behaviour:
all but the connecter, or all but the accepted session, so that both kinds of session
occur with the other branch beside them.

### 4.6 `ctx`
* `ReaperEndsLast`: when the reaper is done nothing waits for it and no socket is
  registered, also when `zmq_ctx_term` was interrupted and called again.
* `SlotsOwned`: slots and the list of empty slots agree with the sockets.
* `InprocSafe`: a peer found by `connect` still exists when the bind command is
  sent; no connection is left pending behind a registered endpoint.
* `TermReturnsUnlessPending`: `zmq_ctx_term` returns (exception in section 6).

Two slots for three sockets make them change hands; one interruption is enough for
terminate to run twice.

### 4.7 `lb`, `fq`, `xpub`
* `TypeOK`: the indices stay in the array and in order (not only a matter of type).
* `NotForgotten`: a pipe is among the active (eligible) ones exactly if it believes
  it can be used; otherwise nothing would ever bring it back, or it would be brought
  back twice.
* `AtomicDelivery`, `Delivery`: all parts of a message go to, or come from, the
  pipes of its first part; with `xpub` these are exactly the pipes that match.
* `Served` (fq): a pipe with a message is served whatever the others receive.
* `UserView` (xpub): what the user is told of subscriptions is what holds.

Three pipes are the smallest number where a pipe that is neither the current one
nor the one that leaves is moved. `Scopes` of `xpub` are checked one after the other:
three pipes and one topic, with default options and with `ZMQ_XPUB_NODROP` and
`ZMQ_INVERT_MATCHING`; then two pipes and two topics with up to three unread
notifications, so that subscriptions of one topic are taken back and made again while
those of the other are unread, and a pipe takes both with it.

### 4.8 `lb_ends`, `xpub_nodrop`
These two show a disagreement between documentation and code (section 6).

## 5. Fairness

* Mailbox: a sender inside `send` and a reader inside `recv` go on (weak); a reader
  that waits for a signal infinitely often takes it (strong), because the application
  or the poller calls `recv` again.
* Pipe: commands are processed, the reader reads what is there and the writer flushes
  what it has written (weak). I/O threads do this by their loops; of an application
  it is an assumption: `WriterResumes` says nothing of a peer that stops reading.
* Own: threads process their mailboxes; the pipe of a session that waits for it ends.
* Ctx: the reaper and `terminate` go on; a socket that has seen stop is closed and an
  interrupted `zmq_ctx_term` is called again, as its documentation asks.
* Fq: the user calls `recv` again and again (strong: polls may come in between), and
  calls return.

No fairness is assumed for writing, connecting, signals or any choice of the
environment.

## 6. Where code and documentation disagree

Checked by a run:

* **lb_ends.** `zmq_send.txt:39-41` promises all parts of a message or none. When the
  pipe of a message ends between two parts, `sendpipe` rolls back and returns EAGAIN
  with `more` reset (`lb.cpp:114`). A blocking `zmq_send` retries the *same part*
  (`socket_base.cpp:1171-1191`), which is delivered as a message.
* **xpub_nodrop.** When `check_hwm` refuses a message, the pipes it matched stay
  matching (`xpub.cpp:248`). The next message is matched on top of them; with inverted
  matching those that should have it are turned into those that should not. In the
  shortest behaviour it goes to none of its recipients, and xsend reports success.

Met while modelling, present in the models, and named as exceptions in the properties:

* **Lb, Fq, a moved pipe** (`broken` has `moved`). `pipe_terminated` swaps the last
  active pipe into the place of the one that leaves. If the last one is the current
  one, `current` becomes 0 and does not follow it (`lb.cpp:67-70`, `fq.cpp:64`): the
  rest of the message goes to, or comes from, another peer. In `Lb` that other pipe
  may be full; then it is rolled back and stays among the active ones, and its next
  activation swaps past the end of the array.
* **Fq, a disconnected pipe** (`cut`). A pipe that the user disconnects within its
  message cannot be read: `zmq_assert (!more)` at `fq.cpp:118` fails, or, once the
  pipe is gone, the next part comes from another one.
* **Pipe, hiccup.** `process_hiccup` drains the old ypipe (`pipe.cpp:287`), with the
  delimiter when it arrives after `terminate`: the peer waits in
  `waiting_for_delimiter` forever. It also drops the unflushed head of a message, whose
  tail is then delivered alone. A hiccup comes from a reconnect. In addition
  `pipe.cpp:290` subtracts routing ids that `write` never counted; here only sockets
  receive hiccups, and they do not write routing ids to sessions.
* **Pipe, water marks.** `update_pipe_options` (`socket_base.cpp:1458`) sends
  `pipe_hwm` without a look at the state, possibly to an end that is gone. A mark
  lowered below what was read since the last acknowledgement leaves the writer full
  with nothing queued (`pipe.cpp:533`). With inproc boosts (`Boosts`), `set_hwms` can
  leave the low mark above the high one (`pipe.cpp:521` against the comment at 466);
  the run has no boosts. Without boosts `compute_lwm (1)` is 1 (`pipe.cpp:479`), which
  the same comment, "LWM has to be less than HWM", rules out; `LwmBelowHwm` excepts a
  high mark of 1. It is harmless: every read is reported.
* **Ctx.** A connect that looks up its endpoint before `terminate` binds its helpers
  and pends after the copy was made is left pending, and `zmq_ctx_term` waits forever
  (`ctx.cpp:137-138`). If no slot is free for the helper socket, `zmq_assert (s)`
  (`ctx.cpp:142`) ends the process.

## 7. Proofs

`tlapm YPipeProofs.tla` and `tlapm MailboxProofs.tla` check them. Assumptions are
those of the modules: `YPipeAssumption` (the number of positions is a natural number
and no item is the empty one) and `MailboxAssumption`.

**YPipe.** `TypeOK`, `Disjoint` and `NoLostWakeup` are not inductive: nothing in them
ties `c` to the writer's `w`. `Inv` adds `Shared`: `c` is Null or exactly `w`; it is
Null only when the reader has read everything flushed and sleeps; a sleeping reader
with `c` not Null is owed a wake-up; the prefetched part lies between `front` and `w`.
`InvStep` shows that each action keeps `Inv`; `Invariance` follows, from it
`TypeCorrect`, `NoSharedCell`, `WakeupKept`, and with `Refinement`, step by step, that
`YPipe` implements `Channel` under the mapping in `YPipe.tla`.

**Mailbox.** For any set of senders. `MailboxInv` adds to `Inv` of the ypipe: `Locked`
(who holds the mutex is between lock and unlock, and only the holder is between cas and
store), `OwnerState` (an owner that is not active sleeps; an active one is woken or has
something to get) and `Token` (a pending signal, a sender about to signal and the
ypipe's `wake` are the same fact, seen at different places). `PipeStep` shows that the
mailbox's steps keep the ypipe's invariant; `MailboxStep` has one case per action. The
theorems `MailboxTypeCorrect`, `AssertHolds`, `SignalKept` and `DestructorSafe` follow.
`DestructorSafe` rests on `LastUse` (section 2) as part of the specification.

Only model-checked: all liveness (TLAPS does not do fairness), and the modules
`YQueue`, `Pipe`, `Own`, `Ctx`, `Lb`, `Fq`, `Xpub`, whose proofs are planned.

## 8. Not modelled

The parts in section 3 until they are done. Further: security mechanisms and ZAP (the
handshake that would create a mechanism is compiled out of `stream_engine_t`),
transports other than TCP and inproc, pollers other than epoll, the vendored lwIP
stack, option parsing and formatting. Of modelled parts: credentials in `fq_t`, manual
and verbose modes and the welcome message of `xpub_t`, the nodes of `mtrie_t` (a
subscription is a topic), context options and the choice of an I/O thread.
Threads interleave at atomic operations; the weaker memory orders that
`atomic_ptr.hpp` allows are not modelled. Allocation does not fail.

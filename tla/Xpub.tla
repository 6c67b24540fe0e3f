-------------------------------- MODULE Xpub --------------------------------
(***************************************************************************)
(* zmq::xpub_t with its distributor zmq::dist_t (src/src/xpub.cpp,         *)
(* dist.cpp).  A message goes to every pipe whose subscriptions match its  *)
(* first part.  The array of pipes is cut by three positions:              *)
(* matching <= active <= eligible; a pipe that comes in the middle of a    *)
(* message is eligible and becomes active with the next one.               *)
(*                                                                         *)
(* A subscription is a topic and matches the messages of that topic        *)
(* (mtrie_t, prefixes included, is abstracted to that).  Manual and        *)
(* verbose modes and the welcome message are left out.                     *)
(***************************************************************************)
EXTENDS Array, FiniteSets, SequencesExt

CONSTANTS
    Pipes, Topics,
    Scopes,      \* for each one in turn: the options that are set, of "nodrop"
                 \* and "invert" (ZMQ_XPUB_NODROP, ZMQ_INVERT_MATCHING), the
                 \* pipes that come, the topics that are used, and a bound on
                 \* the notifications the user has not received
    MaxRoom,     \* messages a pipe takes until its peer reads
    MaxParts     \* parts of a message

ASSUME XpubAssumption ==
    /\ Scopes \subseteq [options : SUBSET {"nodrop", "invert"},
                         pipes : SUBSET Pipes, topics : SUBSET Topics,
                         pending : Nat]
    /\ MaxRoom \in Nat \ {0} /\ MaxParts \in Nat \ {0}

VARIABLES
    pipes, matching, active, eligible,   \* dist_t
    more,           \* a message is being sent: xpub_t's and dist_t's flag
    subscriptions,  \* subscriptions[t]: the pipes subscribed to t
    scope,          \* the member of Scopes considered
    pending,        \* (un)subscriptions the user has not received
    view,           \* the topics with a subscriber as the user knows them
    call,           \* idle, or the part being distributed: more, last
    i,              \* distribute's loop
    part,           \* the number of the part the user sends next
    link,           \* link[p]: new, on, ending, gone
    out_active, room,
    unflushed,      \* unflushed[p]: the parts in p that its peer cannot see
    delivered,      \* the parts flushed last by this call
    attempt,        \* the last xsend of a first part: ok, refused (EAGAIN), or
                    \* after one that was refused
    chosen,         \* the pipes that the message is for and that took it
    sent_to         \* the pipes that its last part was written to

dist == <<pipes, matching, active, eligible>>
topics == <<subscriptions, pending, view>>
ends == <<link, out_active, room, unflushed>>
message == <<part, delivered, chosen, sent_to, attempt>>
vars == <<dist, more, scope, topics, call, i, ends, message>>

Init ==
    /\ pipes = <<>> /\ matching = 0 /\ active = 0 /\ eligible = 0
    /\ more = FALSE /\ scope \in Scopes
    /\ subscriptions = [t \in Topics |-> {}] /\ pending = <<>> /\ view = {}
    /\ call = "idle" /\ i = 0 /\ part = 1
    /\ link = [p \in Pipes |-> "new"]
    /\ out_active = [p \in Pipes |-> TRUE]
    /\ room = [p \in Pipes |-> MaxRoom]
    /\ unflushed = [p \in Pipes |-> <<>>]
    /\ delivered = <<>> /\ chosen = {} /\ sent_to = {}
    /\ attempt = "ok"

lossy == "nodrop" \notin scope.options
invert == "invert" \in scope.options

-----------------------------------------------------------------------------
\* dist_t::attach
attach(p) ==
    LET a == Append(pipes, p) IN
    /\ eligible' = eligible + 1
    /\ \/ /\ more
          /\ pipes' = swap(a, eligible, Len(a) - 1)
          /\ UNCHANGED active
       \/ /\ ~ more
          /\ pipes' = swap(a, active, Len(a) - 1)
          /\ active' = active + 1

xattach_pipe(p) ==
    /\ call = "idle" /\ link[p] = "new" /\ p \in scope.pipes
    /\ link' = [link EXCEPT ![p] = "on"]
    /\ attach(p)
    /\ UNCHANGED <<scope, matching, more, topics, call, i, out_active, room,
                   unflushed, message>>

\* match: the array and the number of matching pipes once p is one of them.
match(d, p) ==
    LET k == index(d[1], p) IN
    IF k < d[2] \/ k >= eligible THEN d ELSE <<swap(d[1], k, d[2]), d[2] + 1>>

\* reverse_match: those that are eligible and do not match become matching.
reverse_match(d) ==
    FoldLeft(LAMBDA e, k : <<swap(e[1], k, e[2]), e[2] + 1>>, <<d[1], 0>>,
             [k \in 1..(eligible - d[2]) |-> d[2] + k - 1])

\* subscriptions.match, then reverse_match if matching is inverted.
Matched(t) ==
    LET d == FoldLeft(match, <<pipes, matching>>, SetToSeq(subscriptions[t]))
    IN  IF invert THEN reverse_match(d) ELSE d

\* The pipes that a message of topic t is meant for.
MeantFor(t) == {p \in Pipes : /\ Has(pipes, p) /\ index(pipes, p) < eligible
                              /\ (p \in subscriptions[t]) # invert}

check_hwm(d) == \A k \in 1..d[2] : room[d[1][k]] > 0

\* xsend of a first part of topic t.
xsend_first(flag, t) ==
    LET d == Matched(t) IN
    /\ call = "idle" /\ ~ more
    /\ flag = "more" => MaxParts > 1
    /\ pipes' = d[1] /\ matching' = d[2]
    /\ i' = 0 /\ sent_to' = {}
    /\ \/ /\ lossy \/ check_hwm(d)
          /\ call' = flag /\ chosen' = MeantFor(t)
          /\ attempt' = IF attempt = "refused" THEN "after" ELSE "ok"
       \/ /\ ~ lossy /\ ~ check_hwm(d)   \* EAGAIN
          /\ chosen' = {} /\ attempt' = "refused" /\ UNCHANGED call
    /\ UNCHANGED <<scope, active, eligible, more, topics, ends, part,
                   delivered>>

\* Further parts go to the pipes that matched the first one.
Rest == matching

\* xsend of a further part.  The hwm is checked again; a pipe takes all parts
\* of a message it took the first part of, so that this check succeeds.
xsend_next(flag) ==
    /\ call = "idle" /\ more
    /\ flag = "more" => part < MaxParts
    /\ lossy \/ check_hwm(<<pipes, matching>>)
    /\ matching' = Rest
    /\ call' = flag /\ i' = 0 /\ sent_to' = {}
    /\ UNCHANGED <<scope, pipes, active, eligible, more, topics, ends, part,
                   delivered, chosen, attempt>>

\* dist_t::write, one iteration of distribute's loop.
Target == Item(pipes, i)
Writable(p) == out_active[p] /\ link[p] = "on" /\ room[p] > 0

write ==
    LET p == Target IN
    /\ call # "idle" /\ i < matching /\ Writable(p)
    /\ i' = i + 1
    /\ sent_to' = sent_to \cup {p}
    /\ \/ /\ call = "more"
          /\ unflushed' = [unflushed EXCEPT ![p] = Append(@, part)]
          /\ UNCHANGED <<room, delivered>>
       \/ /\ call = "last"
          /\ delivered' = Append(unflushed[p], part)
          /\ unflushed' = [unflushed EXCEPT ![p] = <<>>]
          /\ room' = [room EXCEPT ![p] = @ - 1]
    /\ UNCHANGED <<scope, dist, more, topics, call, link, out_active, part,
                   chosen, attempt>>

\* Mutant: the failed pipe leaves the matching pipes only.
Failed_Matching(p) ==
    /\ pipes' = swap(pipes, i, matching - 1)
    /\ matching' = matching - 1
    /\ UNCHANGED <<active, eligible>>

\* Mutant: the loop goes on behind the pipe that was swapped in.
Retried_Skips(k) == k + 1

\* The next pipe to write to stands where the failed one was.
Retried(k) == k

\* A failed pipe leaves the matching, the active and the eligible ones.
Failed(p) ==
    LET a == swap(pipes, i, matching - 1)
        b == swap(a, matching - 1, active - 1)
    IN  /\ pipes' = swap(b, active - 1, eligible - 1)
        /\ matching' = matching - 1
        /\ active' = active - 1
        /\ eligible' = eligible - 1

write_fails ==
    LET p == Target IN
    /\ call # "idle" /\ i < matching /\ ~ Writable(p)
    /\ out_active' = [out_active EXCEPT ![p] = @ /\ link[p] # "on"]
    /\ chosen' = chosen \ {p}
    /\ Failed(p)
    /\ i' = Retried(i)
    /\ UNCHANGED <<scope, more, topics, call, link, room, unflushed, part,
                   delivered, sent_to, attempt>>

unmatch == 0

\* The end of send_to_matching and of xsend.
sent ==
    /\ call # "idle" /\ i >= matching
    /\ more' = (call = "more")
    /\ part' = IF call = "more" THEN part + 1 ELSE 1
    /\ \/ call = "more" /\ UNCHANGED <<matching, active>>
       \/ call = "last" /\ active' = eligible /\ matching' = unmatch
    /\ call' = "idle" /\ i' = 0 /\ delivered' = <<>>
    /\ UNCHANGED <<scope, pipes, eligible, topics, ends, chosen, sent_to,
                   attempt>>

-----------------------------------------------------------------------------
\* dist_t::activated, with p's activate_write command.
activated(p) ==
    LET a == swap(pipes, index(pipes, p), eligible) IN
    /\ eligible' = eligible + 1
    /\ \/ more /\ pipes' = a /\ UNCHANGED active
       \/ ~ more /\ pipes' = swap(a, eligible, active) /\ active' = active + 1

xwrite_activated(p) ==
    /\ call = "idle" /\ link[p] = "on" /\ room[p] < MaxRoom
    /\ room' = [room EXCEPT ![p] = @ + 1]
    /\ out_active' = [out_active EXCEPT ![p] = TRUE]
    /\ \/ out_active[p] /\ UNCHANGED dist
       \/ ~ out_active[p] /\ activated(p) /\ UNCHANGED matching
    /\ UNCHANGED <<scope, more, topics, call, i, link, unflushed, message>>

\* The pipe starts to terminate; it drops its unflushed parts.
pipe_term(p) ==
    /\ call = "idle" /\ link[p] = "on"
    /\ link' = [link EXCEPT ![p] = "ending"]
    /\ unflushed' = [unflushed EXCEPT ![p] = <<>>]
    /\ UNCHANGED <<scope, dist, more, topics, call, i, out_active, room,
                   message>>

\* dist_t::pipe_terminated: p sinks through the three regions.
Sink(d, bound) ==
    IF index(d[1], d[2]) < bound
    THEN <<swap(d[1], index(d[1], d[2]), bound - 1), d[2]>> ELSE d

\* Mutant: the boundaries stay where they are.
Below_Stays(p, bound, a) == bound

Below(p, bound, a) == IF index(a, p) < bound THEN bound - 1 ELSE bound

\* Mutant: the user is told whenever a pipe is gone.
Unique_Always(ps) == TRUE

\* Nobody is subscribed any more (or yet).
Unique(ps) == ps = {}

\* xpipe_terminated: the user is told of the topics nobody wants any more.  The
\* fields of the deallocated pipe no longer matter.
xpipe_terminated(p) ==
    LET a1 == Sink(<<pipes, p>>, matching)[1]
        a2 == Sink(<<a1, p>>, active)[1]
        a3 == Sink(<<a2, p>>, eligible)[1]
        lost == {t \in Topics : p \in subscriptions[t]
                                /\ Unique(subscriptions[t] \ {p})}
    IN  /\ call = "idle" /\ link[p] = "ending"
        /\ Len(pending) + Cardinality(lost) <= scope.pending
        /\ link' = [link EXCEPT ![p] = "gone"]
        /\ room' = [room EXCEPT ![p] = MaxRoom]
        /\ out_active' = [out_active EXCEPT ![p] = TRUE]
        /\ matching' = Below(p, matching, pipes)
        /\ active' = Below(p, active, a1)
        /\ eligible' = Below(p, eligible, a2)
        /\ pipes' = erase(a3, index(a3, p))
        /\ subscriptions' = [t \in Topics |-> subscriptions[t] \ {p}]
        /\ pending' = pending \o SetToSeq({<<"unsubscribe", t>> : t \in lost})
        /\ UNCHANGED <<scope, more, view, call, i, unflushed, message>>

\* xread_activated: p (un)subscribes; the user hears of the first and of the
\* last subscription to a topic.
xread_activated(p, what, t) ==
    LET others == subscriptions[t] \ {p}
        unique == Unique(IF what = "subscribe" THEN subscriptions[t] ELSE others)
    IN  /\ call = "idle" /\ link[p] = "on" /\ Len(pending) < scope.pending
        /\ what = "unsubscribe" => p \in subscriptions[t]
        /\ subscriptions' = [subscriptions EXCEPT ![t] =
               IF what = "subscribe" THEN others \cup {p} ELSE others]
        /\ pending' = IF unique THEN Append(pending, <<what, t>>) ELSE pending
        /\ UNCHANGED <<scope, dist, more, view, call, i, ends, message>>

xrecv ==
    /\ call = "idle" /\ pending # <<>>
    /\ LET n == Head(pending) IN
       view' = IF n[1] = "subscribe" THEN view \cup {n[2]} ELSE view \ {n[2]}
    /\ pending' = Tail(pending)
    /\ UNCHANGED <<scope, dist, more, subscriptions, call, i, ends, message>>

Next ==
    \/ \E p \in Pipes :
        \/ xattach_pipe(p) \/ xwrite_activated(p) \/ pipe_term(p)
        \/ xpipe_terminated(p)
        \/ \E t \in scope.topics, what \in {"subscribe", "unsubscribe"} :
              xread_activated(p, what, t)
    \/ \E flag \in {"more", "last"} :
        xsend_next(flag) \/ \E t \in scope.topics : xsend_first(flag, t)
    \/ write \/ write_fails \/ sent \/ xrecv

Spec == Init /\ [][Next]_vars

-----------------------------------------------------------------------------
\* The type invariant: the three positions cut the array in their order.
TypeOK ==
    /\ pipes \in Seq(Pipes)
    /\ matching \in 0..active /\ active \in 0..eligible
    /\ eligible \in 0..Len(pipes)
    /\ more \in BOOLEAN /\ scope \in Scopes
    /\ subscriptions \in [Topics -> SUBSET Pipes]
    /\ pending \in Seq({"subscribe", "unsubscribe"} \X Topics)
    /\ view \subseteq Topics
    /\ call \in {"idle", "more", "last"} /\ part \in 1..MaxParts
    /\ link \in [Pipes -> {"new", "on", "ending", "gone"}]
    /\ out_active \in [Pipes -> BOOLEAN] /\ room \in [Pipes -> 0..MaxRoom]
    /\ unflushed \in [Pipes -> Seq(1..MaxParts)]

\* A pipe that believes it can be written to will not announce that again, so
\* dist_t must hold it among the eligible ones.
NotForgotten ==
    \A p \in Pipes : link[p] = "on" =>
        /\ Has(pipes, p)
        /\ index(pipes, p) < eligible <=> out_active[p]

\* A subscriber gets all parts of a message or none, also one that comes, is
\* unblocked or goes in the middle of it.
AtomicDelivery == \A k \in DOMAIN delivered : delivered[k] = k

\* A message goes to the pipes that match its first part, to all of them that
\* take it and to no other, whatever happens to subscriptions and pipes
\* between its parts.
AllRecipients ==
    /\ sent_to \subseteq chosen
    /\ call = "idle" => {p \in chosen : link[p] = "on"} \subseteq sent_to

\* The same, except for the message that follows one refused with EAGAIN: the
\* pipes that the refused one matched are still among the matching ones.
Recipients == attempt = "after" \/ AllRecipients

\* Every recipient gets the whole message, and nobody else does.
Delivery == AtomicDelivery /\ Recipients

\* What the user knows once all pending notifications are received is which
\* topics have a subscriber.
UserView ==
    \A t \in Topics :
        LET about == SelectSeq(pending, LAMBDA n : n[2] = t)
            known == IF about = <<>> THEN t \in view
                     ELSE about[Len(about)][1] = "subscribe"
        IN  known <=> subscriptions[t] # {}
=============================================================================

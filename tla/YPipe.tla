------------------------------- MODULE YPipe -------------------------------
(***************************************************************************)
(* zmq::ypipe_t (src/src/ypipe.hpp), the lock-free queue that carries the  *)
(* messages of a pipe and the commands of a mailbox: one writer thread,    *)
(* one reader thread, a single shared pointer c moved by compare-and-swap. *)
(*                                                                         *)
(* A pointer into the queue is modelled by the position of the cell it     *)
(* points to, counted from the first cell ever pushed; the terminator is   *)
(* the cell at position back.  YQueue shows that the addresses yqueue_t    *)
(* gives to these positions tell apart what the positions tell apart.      *)
(* A step is what one thread does between two accesses to c, the only      *)
(* variable both threads touch.                                            *)
(***************************************************************************)
EXTENDS Integers

CONSTANTS
    Items,     \* the values written to the pipe
    NoItem,    \* content of a cell that was never written
    MaxPos     \* bound: positions of the queue that are ever used

ASSUME YPipeAssumption ==
    /\ NoItem \notin Items
    /\ MaxPos \in Nat

VARIABLES
    cells,     \* what each position of the queue holds
    back,      \* writer: position of the terminator, &queue.back ()
    f,         \* writer: first item to be flushed in the future
    w,         \* writer: first un-flushed item
    wpc,       \* writer: "set" between the failed cas of flush and c.set
    front,     \* reader: &queue.front ()
    r,         \* reader: first un-prefetched item
    c,         \* shared: past the last flushed item, Null: reader asleep
    asleep,    \* reader: its last check_read returned false
    wake       \* a flush returned false, the reader is not woken up yet

vars == <<cells, back, f, w, wpc, front, r, c, asleep, wake>>

Null == -1
Pos == 0 .. MaxPos

Init ==
    /\ cells = [p \in Pos |-> NoItem]
    /\ back = 0 /\ f = 0 /\ w = 0 /\ wpc = "idle"
    /\ front = 0 /\ r = 0 /\ c = 0
    /\ asleep = FALSE /\ wake = FALSE

-----------------------------------------------------------------------------
(* The writer thread.                                                      *)

Write(value, incomplete) ==
    /\ wpc = "idle"
    /\ back < MaxPos
    /\ cells' = [cells EXCEPT ![back] = value]
    /\ back' = back + 1
    /\ f' = IF incomplete THEN f ELSE back + 1
    /\ UNCHANGED <<w, wpc, front, r, c, asleep, wake>>

\* Mutant: unwrite without its test for a complete last item.
Unwrite_Unchecked ==
    /\ wpc = "idle"
    /\ back' = back - 1
    /\ UNCHANGED <<cells, f, w, wpc, front, r, c, asleep, wake>>

Unwrite ==
    /\ wpc = "idle"
    /\ f # back
    /\ back' = back - 1
    /\ UNCHANGED <<cells, f, w, wpc, front, r, c, asleep, wake>>

\* Mutant: the cas of flush compares c with f.
Flush_ComparesF ==
    /\ wpc = "idle"
    /\ w # f
    /\ \/ c = f /\ w' = f /\ UNCHANGED <<c, wpc>>
       \/ c # f /\ wpc' = "set" /\ UNCHANGED <<c, w>>
    /\ UNCHANGED <<cells, back, f, front, r, asleep, wake>>

\* The cas of flush; nothing happens when there is nothing to flush.
Flush ==
    /\ wpc = "idle"
    /\ w # f
    /\ \/ /\ c = w
          /\ c' = f
          /\ w' = f
          /\ UNCHANGED wpc
       \/ /\ c # w
          /\ wpc' = "set"
          /\ UNCHANGED <<c, w>>
    /\ UNCHANGED <<cells, back, f, front, r, asleep, wake>>

\* Mutant: flush returns true although its cas failed.
FlushSet_Silent ==
    /\ wpc = "set"
    /\ c' = f
    /\ w' = f
    /\ wpc' = "idle"
    /\ UNCHANGED <<cells, back, f, front, r, asleep, wake>>

\* The rest of flush when the cas failed: it returns false, which obliges
\* the caller to wake the reader up.
FlushSet ==
    /\ wpc = "set"
    /\ c' = f
    /\ w' = f
    /\ wpc' = "idle"
    /\ wake' = TRUE
    /\ UNCHANGED <<cells, back, f, front, r, asleep>>

-----------------------------------------------------------------------------
(* The reader thread.                                                      *)

\* Mutant: check_read forgets that r may be NULL.
Prefetched_NullIgnored == front # r

Prefetched == front # r /\ r # Null

\* check_read without a prefetched item: r = c.cas (front, NULL).
Prefetch ==
    /\ ~Prefetched
    /\ r' = c
    /\ \/ c \in {front, Null} /\ c' = Null /\ asleep' = TRUE
       \/ c \notin {front, Null} /\ c' = c /\ asleep' = FALSE
    /\ UNCHANGED <<cells, back, f, w, wpc, front>>

\* read once check_read has returned true.
Read ==
    /\ Prefetched
    /\ front' = front + 1
    /\ UNCHANGED <<cells, back, f, w, wpc, r, c, asleep, wake>>

\* A sleeping reader is woken up and looks again ...
Woken ==
    /\ asleep /\ wake
    /\ Prefetch
    /\ wake' = FALSE

\* ... or it looks again without having been told to: pipe_t::flush sends
\* activate_read whatever ypipe_t::flush returned, so a stale one may arrive.
Poll ==
    /\ Prefetch
    /\ UNCHANGED wake

Next ==
    \/ \E value \in Items, incomplete \in BOOLEAN : Write(value, incomplete)
    \/ Unwrite
    \/ Flush
    \/ FlushSet
    \/ Read
    \/ Woken
    \/ Poll

Spec == Init /\ [][Next]_vars

-----------------------------------------------------------------------------
(* Properties.                                                             *)

\* The variables hold values of their kind (ypipe.hpp, lines 192-209).
TypeOK ==
    /\ cells \in [Pos -> Items \cup {NoItem}]
    /\ back \in Pos /\ f \in Pos /\ w \in Pos
    /\ wpc \in {"idle", "set"}
    /\ front \in Pos
    /\ r \in Pos \cup {Null}
    /\ c \in Pos \cup {Null}
    /\ asleep \in BOOLEAN /\ wake \in BOOLEAN

\* The threads never touch the same cell: what the reader may read without
\* looking at c lies below the first un-flushed item, what the writer may
\* still change or withdraw lies at or above it.  And the plain store of c in
\* flush happens only "because 'c' is NULL": the writer never overwrites a
\* pointer the reader could be using.
Disjoint ==
    /\ Prefetched => front < r /\ r <= w
    /\ w <= f /\ f <= back
    /\ wpc = "set" => c = Null

\* flush returns true only if the reader will find the items by itself: a
\* reader whose last check_read failed is owed a wake-up as soon as items
\* it has not read are flushed.
NoLostWakeup ==
    asleep /\ front < w => wake

\* What holds in every state and makes the properties above inductive: c is
\* Null or exactly the writer's w, and it is Null only while the reader has
\* read everything flushed and knows it.
Shared ==
    /\ c # Null => c = w
    /\ c = Null => front = w /\ asleep
    /\ asleep /\ c # Null => wake
    /\ front <= w
    /\ r # Null => front <= r /\ r <= w

Inv ==
    /\ TypeOK
    /\ Shared
    /\ w <= f /\ f <= back
    /\ wpc = "set" => c = Null

Abstract == INSTANCE Channel WITH
    log <- cells, written <- back, complete <- f, visible <- w, read <- front

\* The pipe implements the FIFO channel.
ImplementsChannel == Abstract!ChannelSpec
=============================================================================

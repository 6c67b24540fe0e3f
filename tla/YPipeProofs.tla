---------------------------- MODULE YPipeProofs ----------------------------
(* Proofs about the lock-free pipe, for any set of items and any length.   *)
EXTENDS YPipe, TLAPS

\* Every access of flush and check_read to c keeps c equal to w or to NULL
\* (ypipe.hpp, lines 111-158).
LEMMA InvStep == Inv /\ [Next]_vars => Inv'
<1> SUFFICES ASSUME Inv, [Next]_vars
             PROVE  Inv'
  OBVIOUS
<1> USE YPipeAssumption DEF Inv, TypeOK, Shared, Pos, Null
<1>1. ASSUME NEW value \in Items, NEW incomplete \in BOOLEAN,
             Write(value, incomplete)
      PROVE  Inv'
  BY <1>1 DEF Write
<1>2. CASE Unwrite
  BY <1>2 DEF Unwrite
<1>3. CASE Flush
  BY <1>3 DEF Flush
<1>4. CASE FlushSet
  BY <1>4 DEF FlushSet
<1>5. CASE Read
  BY <1>5 DEF Read, Prefetched
<1>6. CASE Woken
  <2>1. wake' \in BOOLEAN /\ asleep' \in BOOLEAN
    BY <1>6, Zenon DEF Woken, Prefetch
  <2>2. asleep' <=> c \in {front, Null}
    BY <1>6, Zenon DEF Woken, Prefetch
  <2> QED
    BY <1>6, <2>1, <2>2 DEF Woken, Prefetch, Prefetched
<1>7. CASE Poll
  <2>1. asleep' \in BOOLEAN
    BY <1>7, Zenon DEF Poll, Prefetch
  <2>2. asleep' <=> c \in {front, Null}
    BY <1>7, Zenon DEF Poll, Prefetch
  <2> QED
    BY <1>7, <2>1, <2>2 DEF Poll, Prefetch, Prefetched
<1>8. CASE UNCHANGED vars
  BY <1>8 DEF vars
<1> QED
  BY <1>1, <1>2, <1>3, <1>4, <1>5, <1>6, <1>7, <1>8 DEF Next

\* The inductive invariant of ypipe_t: it holds from the constructor on.
THEOREM Invariance == Spec => []Inv
<1>1. Init => Inv
  <2> SUFFICES ASSUME Init
               PROVE  Inv
    OBVIOUS
  <2>1. asleep \in BOOLEAN /\ wake \in BOOLEAN /\ ~asleep
    BY Zenon DEF Init
  <2> QED
    BY <2>1, YPipeAssumption DEF Init, Inv, TypeOK, Shared, Pos, Null
<1> QED
  BY <1>1, InvStep, PTL DEF Spec

\* Type correctness of the pointers of ypipe_t.
THEOREM TypeCorrect == Spec => []TypeOK
<1>1. Inv => TypeOK
  BY DEF Inv
<1> QED
  BY <1>1, Invariance, PTL

\* The reader and the writer of ypipe_t never touch the same cell, and the
\* plain store to c in flush never races with a prefetch that succeeds.
THEOREM NoSharedCell == Spec => []Disjoint
<1>1. Inv => Disjoint
  BY DEF Inv, Shared, Disjoint, Prefetched, TypeOK, Pos, Null
<1> QED
  BY <1>1, Invariance, PTL

\* A sleeping reader is owed a wake-up whenever flushed items are unread, so
\* a flush that returns true never strands an item.
THEOREM WakeupKept == Spec => []NoLostWakeup
<1>1. Inv => NoLostWakeup
  BY DEF Inv, Shared, NoLostWakeup, TypeOK, Pos, Null
<1> QED
  BY <1>1, Invariance, PTL

\* ypipe_t implements the FIFO channel: whatever the interleaving, items come
\* out once, in order, and only after they were completed and flushed.
THEOREM Refinement == Spec => ImplementsChannel
<1>1. Init => Abstract!ChannelInit
  BY DEF Init, Abstract!ChannelInit, Pos
<1>2. Inv /\ [Next]_vars => [Abstract!ChannelNext]_Abstract!channelVars
  <2> SUFFICES ASSUME Inv, [Next]_vars
               PROVE  [Abstract!ChannelNext]_Abstract!channelVars
    OBVIOUS
  <2> USE DEF Inv, TypeOK, Shared, Pos, Null, Abstract!ChannelNext,
              Abstract!channelVars
  <2>1. ASSUME NEW value \in Items, NEW incomplete \in BOOLEAN,
               Write(value, incomplete)
        PROVE  Abstract!ChannelNext
    <3>1. Abstract!Put(value, incomplete)
      BY <2>1 DEF Write, Abstract!Put
    <3> QED
      BY <3>1
  <2>2. CASE Unwrite
    BY <2>2 DEF Unwrite, Abstract!Withdraw
  <2>3. CASE Flush
    BY <2>3 DEF Flush, Abstract!Publish
  <2>4. CASE FlushSet
    BY <2>4 DEF FlushSet, Abstract!Publish
  <2>5. CASE Read
    BY <2>5 DEF Read, Prefetched, Abstract!Take
  <2>6. CASE Woken
    BY <2>6 DEF Woken, Prefetch
  <2>7. CASE Poll
    BY <2>7 DEF Poll, Prefetch
  <2>8. CASE UNCHANGED vars
    BY <2>8 DEF vars
  <2> QED
    BY <2>1, <2>2, <2>3, <2>4, <2>5, <2>6, <2>7, <2>8 DEF Next
<1> QED
  BY <1>1, <1>2, Invariance, PTL DEF Spec, ImplementsChannel, Abstract!ChannelSpec
=============================================================================

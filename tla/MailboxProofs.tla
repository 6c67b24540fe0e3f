--------------------------- MODULE MailboxProofs ---------------------------
(* Proofs about the mailbox, for any number of senders and commands.       *)
EXTENDS Mailbox, YPipeProofs

\* The mailbox uses its cpipe as YPipe allows: one writer at a time, thanks
\* to the mutex, and one reader.
LEMMA PipeStep ==
    MailboxInv /\ [MailboxNext]_mailboxVars => [Next]_vars
<1> SUFFICES ASSUME MailboxInv, [MailboxNext]_mailboxVars
             PROVE  [Next]_vars
  OBVIOUS
<1> USE DEF vars, pipeVars
<1>1. ASSUME NEW s \in Senders, send(s)
      PROVE  [Next]_vars
  <2>1. CASE SendLock(s)
    <3>1. PICK cmd \in Items : Write(cmd, FALSE)
      BY <2>1 DEF SendLock
    <3> QED
      BY <3>1, Zenon DEF Next
  <2>2. CASE SendFlush(s)
    BY <2>2, Zenon DEF SendFlush, Next
  <2>3. CASE SendSet(s)
    BY <2>3, Zenon DEF SendSet, Next
  <2>4. CASE SendUnlock(s)
    BY <2>4, Zenon DEF SendUnlock
  <2>5. CASE SendSignal(s)
    BY <2>5, Zenon DEF SendSignal
  <2> QED
    BY <1>1, <2>1, <2>2, <2>3, <2>4, <2>5 DEF send
<1>2. CASE Recv
  BY <1>2, Zenon DEF Recv
<1>3. CASE RecvTry
  BY <1>3, Zenon DEF RecvTry, Next
<1>4. CASE RecvRead
  BY <1>4, Zenon DEF RecvRead, Next
<1>5. CASE RecvFails
  BY <1>5, Zenon DEF RecvFails
<1>6. CASE RecvSignal
  BY <1>6, Zenon DEF RecvSignal
<1>7. CASE RecvGet
  <2>1. wake \in BOOLEAN /\ (wake => asleep)
    BY DEF MailboxInv, Token, Inv, TypeOK
  <2>2. CASE wake
    BY <1>7, <2>1, <2>2, Zenon DEF RecvGet, Woken, Next
  <2>3. CASE ~ wake
    <3>1. wake' = wake
      BY <1>7, <2>1, <2>3, Zenon DEF RecvGet
    <3> QED
      BY <1>7, <3>1, Zenon DEF RecvGet, Poll, Next
  <2> QED
    BY <2>2, <2>3
<1>8. CASE Destroy
  BY <1>8, Zenon DEF Destroy
<1>9. CASE UNCHANGED mailboxVars
  BY <1>9, Zenon DEF mailboxVars
<1> QED
  BY <1>1, <1>2, <1>3, <1>4, <1>5, <1>6, <1>7, <1>8, <1>9
  DEF MailboxNext, recv

\* One step of any thread keeps the mutex, the state of the owner and the
\* one signal consistent (mailbox.cpp, lines 59-101).
LEMMA MailboxStep ==
    MailboxInv /\ [MailboxNext]_mailboxVars => MailboxInv'
<1> SUFFICES ASSUME MailboxInv, [MailboxNext]_mailboxVars
             PROVE  MailboxInv'
  OBVIOUS
<1>a. Inv'
  BY PipeStep, InvStep DEF MailboxInv
<1> USE YPipeAssumption, MailboxAssumption
    DEF MailboxInv, Inv, TypeOK, Shared, Pos, Null, MailboxTypeOK, Locked,
        OwnerState, Token, SignalMeansCommand, OneSignal, NoLostSignal,
        NobodyInSend, Pending, Prefetched
<1>1. ASSUME NEW s \in Senders, send(s)
      PROVE  MailboxInv'
  <2>1. CASE SendLock(s)
    BY <1>a, <2>1 DEF SendLock, Write
  <2>2. CASE SendFlush(s)
    BY <1>a, <2>2 DEF SendFlush, Flush
  <2>3. CASE SendSet(s)
    BY <1>a, <2>3 DEF SendSet, FlushSet
  <2>4. CASE SendUnlock(s)
    BY <1>a, <2>4 DEF SendUnlock, pipeVars
  <2>5. CASE SendSignal(s)
    BY <1>a, <2>5 DEF SendSignal, pipeVars
  <2> QED
    BY <1>1, <2>1, <2>2, <2>3, <2>4, <2>5 DEF send
<1>2. CASE Recv
  BY <1>a, <1>2 DEF Recv, pipeVars
<1>3. CASE RecvTry
  <2>1. /\ asleep' \in BOOLEAN /\ active' \in BOOLEAN
        /\ active /\ ~ wake
    BY <1>3, Zenon DEF RecvTry, Poll, Prefetch
  <2>2. asleep' <=> c \in {front, Null}
    BY <1>3, Zenon DEF RecvTry, Poll, Prefetch
  <2>3. active' <=> ~ asleep'
    BY <1>3, <2>1, Zenon DEF RecvTry, Poll, Prefetch
  <2>4. UNCHANGED <<cells, back, f, w, wpc, front, wake, sync, spc, signals>>
    BY <1>3 DEF RecvTry, Poll, Prefetch
  <2>5. CASE asleep'
    <3>1. rpc' = "wait" /\ r' = c /\ c' = Null /\ front = w
      BY <1>3, <2>2, <2>5 DEF RecvTry, Poll, Prefetch
    <3> QED
      BY <1>a, <2>1, <2>3, <2>4, <2>5, <3>1
  <2>6. CASE ~ asleep'
    <3>1. rpc' = "read" /\ r' = c /\ c' = c
      BY <1>3, <2>6, Zenon DEF RecvTry, Poll, Prefetch
    <3> QED
      BY <1>a, <2>1, <2>3, <2>4, <2>6, <3>1
  <2> QED
    BY <2>5, <2>6
<1>4. CASE RecvRead
  BY <1>a, <1>4 DEF RecvRead, Read
<1>5. CASE RecvFails
  BY <1>a, <1>5 DEF RecvFails, pipeVars
<1>6. CASE RecvSignal
  BY <1>a, <1>6 DEF RecvSignal, pipeVars
<1>7. CASE RecvGet
  BY <1>a, <1>7 DEF RecvGet, Prefetch
<1>8. CASE Destroy
  BY <1>a, <1>8 DEF Destroy, LastUse, pipeVars
<1>9. CASE UNCHANGED mailboxVars
  BY <1>a, <1>9 DEF mailboxVars, pipeVars
<1> QED
  BY <1>1, <1>2, <1>3, <1>4, <1>5, <1>6, <1>7, <1>8, <1>9
  DEF MailboxNext, recv

\* The inductive invariant of mailbox_t: it holds from the constructor on.
THEOREM MailboxInvariance == MailboxSpec => []MailboxInv
<1>1. MailboxInit => MailboxInv
  <2> SUFFICES ASSUME MailboxInit
               PROVE  MailboxInv
    OBVIOUS
  <2>1. /\ asleep \in BOOLEAN /\ wake \in BOOLEAN /\ active \in BOOLEAN
        /\ asleep /\ ~ wake /\ ~ active
    BY Zenon DEF MailboxInit
  <2> QED
    BY <2>1, YPipeAssumption, MailboxAssumption
    DEF MailboxInit, MailboxInv, Inv, TypeOK, Shared, Pos, Null,
        MailboxTypeOK, Locked, OwnerState, Token, SignalMeansCommand,
        OneSignal, NoLostSignal, NobodyInSend, Pending, Prefetched
<1> QED
  BY <1>1, MailboxStep, PTL DEF MailboxSpec

\* Type correctness of the mailbox.
THEOREM MailboxTypeCorrect == MailboxSpec => []MailboxTypeOK
<1>1. MailboxInv => MailboxTypeOK
  BY DEF MailboxInv
<1> QED
  BY <1>1, MailboxInvariance, PTL

\* zmq_assert (ok) of recv never fails, for any number of senders.
THEOREM AssertHolds == MailboxSpec => []SignalMeansCommand
<1>1. MailboxInv => SignalMeansCommand
  BY DEF MailboxInv
<1> QED
  BY <1>1, MailboxInvariance, PTL

\* The eventfd counter never exceeds one, a sender signals only an empty
\* eventfd, and the owner of the mailbox never sleeps on unread commands
\* without a signal.
THEOREM SignalKept == MailboxSpec => []SignalledOnce
<1>1. MailboxInv => SignalledOnce
  BY DEF MailboxInv, SignalledOnce
<1> QED
  BY <1>1, MailboxInvariance, PTL

\* The work around in the destructor is sound: nobody is left in send.
THEOREM DestructorSafe == MailboxSpec => []NobodyInSend
<1>1. MailboxInv => NobodyInSend
  BY DEF MailboxInv
<1> QED
  BY <1>1, MailboxInvariance, PTL
=============================================================================

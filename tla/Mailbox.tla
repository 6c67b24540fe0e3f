------------------------------ MODULE Mailbox ------------------------------
(***************************************************************************)
(* zmq::mailbox_t (src/src/mailbox.cpp): any number of threads send        *)
(* commands to the one thread that owns the mailbox.  The commands travel  *)
(* through a ypipe (module YPipe, whose actions are the steps taken here)  *)
(* and a signaler, an eventfd, wakes the owner.  Senders write under the   *)
(* mutex sync, but signal after they have released it.                     *)
(*                                                                         *)
(* MaxPos is the number of commands sent in the life of the mailbox.  The  *)
(* destructor does not look for commands; that it runs after the last one  *)
(* is up to the owners of the mailboxes, and is assumed here (LastUse).    *)
(***************************************************************************)
EXTENDS YPipe

CONSTANTS
    Senders,   \* threads that call send
    Nobody     \* sync is free

ASSUME MailboxAssumption == Nobody \notin Senders

VARIABLES
    sync,      \* the thread that holds the mutex
    spc,       \* what each sender does next
    rpc,       \* what the owner does next
    active,    \* mailbox_t::active
    signals    \* the counter of the eventfd

pipeVars == <<cells, back, f, w, wpc, front, r, c, asleep, wake>>
mailboxVars == <<pipeVars, sync, spc, rpc, active, signals>>

\* The constructor: its read finds nothing and leaves the pipe passive.
MailboxInit ==
    /\ cells = [p \in Pos |-> NoItem]
    /\ back = 0 /\ f = 0 /\ w = 0 /\ wpc = "idle"
    /\ front = 0 /\ r = 0 /\ c = Null
    /\ asleep = TRUE /\ wake = FALSE
    /\ sync = Nobody
    /\ spc = [s \in Senders |-> "out"]
    /\ rpc = "idle"
    /\ active = FALSE
    /\ signals = 0

-----------------------------------------------------------------------------
(* send.                                                                   *)

\* sync.lock () and cpipe.write (cmd_, false).
SendLock(s) ==
    /\ spc[s] = "out" /\ rpc # "destroyed"
    /\ sync = Nobody
    /\ sync' = s
    /\ spc' = [spc EXCEPT ![s] = "flush"]
    /\ \E cmd \in Items : Write(cmd, FALSE)
    /\ UNCHANGED <<rpc, active, signals>>

\* cpipe.flush (), up to its cas; it returns true if the cas succeeded.
SendFlush(s) ==
    /\ spc[s] = "flush"
    /\ Flush
    /\ spc' = [spc EXCEPT ![s] = IF c = w THEN "unlock" ELSE "set"]
    /\ UNCHANGED <<sync, rpc, active, signals>>

\* The rest of a flush that returns false.
SendSet(s) ==
    /\ spc[s] = "set"
    /\ FlushSet
    /\ spc' = [spc EXCEPT ![s] = "unlock_signal"]
    /\ UNCHANGED <<sync, rpc, active, signals>>

\* Mutant: the owner is signalled whatever flush returned.
SendUnlock_Always(s) ==
    /\ spc[s] \in {"unlock", "unlock_signal"}
    /\ sync' = Nobody
    /\ spc' = [spc EXCEPT ![s] = "signal"]
    /\ UNCHANGED <<pipeVars, rpc, active, signals>>

\* sync.unlock ().
SendUnlock(s) ==
    /\ sync' = Nobody
    /\ \/ /\ spc[s] = "unlock"
          /\ spc' = [spc EXCEPT ![s] = "out"]
       \/ /\ spc[s] = "unlock_signal"
          /\ spc' = [spc EXCEPT ![s] = "signal"]
    /\ UNCHANGED <<pipeVars, rpc, active, signals>>

\* signaler.send ().
SendSignal(s) ==
    /\ spc[s] = "signal"
    /\ signals' = signals + 1
    /\ spc' = [spc EXCEPT ![s] = "out"]
    /\ UNCHANGED <<pipeVars, sync, rpc, active>>

-----------------------------------------------------------------------------
(* recv, called by the owner of the mailbox.                               *)

Recv ==
    /\ rpc = "idle"
    /\ rpc' = IF active THEN "read" ELSE "wait"
    /\ UNCHANGED <<pipeVars, sync, spc, active, signals>>

\* cpipe.read (cmd_) in the active state, up to its cas.
RecvTry ==
    /\ rpc = "read"
    /\ Poll
    /\ \/ /\ asleep' = TRUE
          /\ active' = FALSE
          /\ rpc' = "wait"
       \/ /\ asleep' = FALSE
          /\ UNCHANGED <<active, rpc>>
    /\ UNCHANGED <<sync, spc, signals>>

\* cpipe.read (cmd_) succeeds and recv returns.
RecvRead ==
    /\ rpc \in {"read", "get"}
    /\ Read
    /\ rpc' = "idle"
    /\ UNCHANGED <<sync, spc, active, signals>>

\* signaler.wait (timeout_) fails: a timeout when there is no signal, or an
\* interrupted system call.
RecvFails ==
    /\ rpc = "wait"
    /\ rpc' = "idle"
    /\ UNCHANGED <<pipeVars, sync, spc, active, signals>>

\* Mutant: a timeout is taken for a signal.
RecvSignal_NotAwaited ==
    /\ rpc = "wait"
    /\ signals' = 0
    /\ active' = TRUE
    /\ rpc' = "get"
    /\ UNCHANGED <<pipeVars, sync, spc>>

\* Mutant: the counter is decremented without waiting for it.
RecvSignal_Unchecked ==
    /\ rpc = "wait"
    /\ signals' = signals - 1
    /\ active' = TRUE
    /\ rpc' = "get"
    /\ UNCHANGED <<pipeVars, sync, spc>>

\* Mutant: the counter is compared with the one signal that is given back.
RecvSignal_OffByOne ==
    /\ rpc = "wait"
    /\ signals > 1
    /\ signals' = signals - 1
    /\ active' = TRUE
    /\ rpc' = "get"
    /\ UNCHANGED <<pipeVars, sync, spc>>

\* signaler.wait and recv_failable, which reads the counter and gives back
\* all but one.
RecvSignal ==
    /\ rpc = "wait"
    /\ signals > 0
    /\ signals' = signals - 1
    /\ active' = TRUE
    /\ rpc' = "get"
    /\ UNCHANGED <<pipeVars, sync, spc>>

\* The cas of the read that follows a signal; zmq_assert (ok).
RecvGet ==
    /\ rpc = "get"
    /\ Prefetch /\ wake' = FALSE
    /\ rpc' = IF c \in {front, Null} THEN "assert" ELSE "get"
    /\ UNCHANGED <<sync, spc, active, signals>>

\* When an owner destroys its mailbox.  An I/O thread has received its stop,
\* the reaper the last reaped, terminate its done, a socket every command
\* announced to it.  A closed socket may leave the stop of its context unread:
\* that is sent under slot_sync, which destroy_socket takes before the socket
\* is deleted, so its sender has returned.
LastUse ==
    \/ front = MaxPos
    \/ /\ front = MaxPos - 1 /\ back = MaxPos
       /\ \A s \in Senders : spc[s] = "out"

\* Mutant: the destructor does not wait for the mutex.
Destroy_AtOnce ==
    /\ rpc = "idle" /\ LastUse
    /\ rpc' = "destroyed"
    /\ UNCHANGED <<pipeVars, sync, spc, active, signals>>

\* The destructor waits for the mutex; then the mailbox is gone.
Destroy ==
    /\ rpc = "idle" /\ LastUse
    /\ sync = Nobody
    /\ rpc' = "destroyed"
    /\ UNCHANGED <<pipeVars, sync, spc, active, signals>>

send(s) ==
    \/ SendLock(s)
    \/ SendFlush(s)
    \/ SendSet(s)
    \/ SendUnlock(s)
    \/ SendSignal(s)

recv ==
    \/ Recv
    \/ RecvTry
    \/ RecvRead
    \/ RecvFails
    \/ RecvSignal
    \/ RecvGet

MailboxNext == (\E s \in Senders : send(s)) \/ recv \/ Destroy

MailboxSpec == MailboxInit /\ [][MailboxNext]_mailboxVars

\* Every thread runs; the owner keeps calling recv, and its wait for a signal
\* that is there is not interrupted for ever.
MailboxFairness ==
    /\ \A s \in Senders : WF_mailboxVars(send(s))
    /\ WF_mailboxVars(recv)
    /\ SF_mailboxVars(RecvSignal)

MailboxFairSpec == MailboxSpec /\ MailboxFairness

-----------------------------------------------------------------------------
(* Properties.                                                             *)

\* The mutex, the program counters, the owner's flag and the counter of the
\* eventfd have their types; the counter is never read empty (mailbox.cpp).
MailboxTypeOK ==
    /\ TypeOK
    /\ sync \in Senders \cup {Nobody}
    /\ spc \in [Senders -> {"out", "flush", "set", "unlock", "unlock_signal",
                           "signal"}]
    /\ rpc \in {"idle", "read", "wait", "get", "assert", "destroyed"}
    /\ active \in BOOLEAN
    /\ signals \in Nat

\* Senders that found the owner asleep and have not signalled yet.
Pending(s) == spc[s] \in {"unlock_signal", "signal"}

\* zmq_assert (ok) in recv: a command is there whenever a signal was, so no
\* signal is left over from a command that was read without it.
SignalMeansCommand == rpc # "assert"

\* At most one signal is on its way or in the eventfd, whatever the number
\* of senders that race for it.
OneSignal ==
    /\ signals <= 1
    /\ \A s \in Senders : Pending(s) => signals = 0
    /\ \A s, t \in Senders : Pending(s) /\ Pending(t) => s = t

\* A passive owner that has unread commands has a signal, or will have.
NoLostSignal ==
    ~ active /\ front < w => signals > 0 \/ \E s \in Senders : Pending(s)

\* A passive owner that has unread commands is signalled exactly once.
SignalledOnce == OneSignal /\ NoLostSignal

\* "other threads might still be in our send() method" when the mailbox is
\* destroyed: waiting for the mutex is enough once every command was received,
\* although the signaler is used after the mutex is released.
NobodyInSend == rpc = "destroyed" => \A s \in Senders : spc[s] = "out"

\* Every command that was sent is received, but for a last one that the owner
\* does not wait for.
Delivered ==
    \A n \in Pos :
        (back > n) ~> (front > n \/ (n = MaxPos - 1 /\ rpc = "destroyed"))

-----------------------------------------------------------------------------
(* The inductive invariant.                                                *)

\* The mutex: one sender at a time between write and unlock.
Locked ==
    /\ \A s \in Senders :
          sync = s <=> spc[s] \in {"flush", "set", "unlock", "unlock_signal"}
    /\ \A s \in Senders : spc[s] = "set" => wpc = "set"
    /\ wpc = "set" => w < f

\* The owner is active, or its last read failed and it waits for a signal.
OwnerState ==
    /\ ~ active => asleep
    /\ active => rpc \in {"idle", "read", "get", "destroyed"}
    /\ rpc \in {"read", "get"} => active
    /\ active /\ asleep => wake
    /\ active /\ wake => rpc = "get"
    /\ rpc = "get" => wake \/ Prefetched
    /\ asleep => ~ Prefetched

\* The signal owed to a sleeping owner is in one place.
Token ==
    /\ wake => asleep /\ c # Null /\ front < w
    /\ \A s \in Senders : Pending(s) => wake /\ ~ active
    /\ signals > 0 => wake /\ ~ active

MailboxInv ==
    /\ Inv
    /\ MailboxTypeOK
    /\ Locked
    /\ OwnerState
    /\ Token
    /\ SignalMeansCommand
    /\ OneSignal
    /\ NoLostSignal
    /\ NobodyInSend
=============================================================================

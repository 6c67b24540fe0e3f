------------------------------ MODULE Channel ------------------------------
(***************************************************************************)
(* What a one-way pipe promises to its two users: items come out in the    *)
(* order they were written, none twice, none lost, and an item written as  *)
(* incomplete stays invisible (and can still be withdrawn) until the item  *)
(* that completes it has been flushed.                                     *)
(***************************************************************************)
EXTENDS Integers

CONSTANTS
    Items,     \* the values carried
    NoItem,    \* what a slot holds before its first use
    MaxPos     \* number of slots

VARIABLES
    log,       \* slot |-> the value put there last
    written,   \* slots filled by the writer
    complete,  \* slots that belong to complete messages
    visible,   \* slots published to the reader
    read       \* slots the reader has taken

channelVars == <<log, written, complete, visible, read>>

ChannelInit ==
    /\ log = [p \in 0 .. MaxPos |-> NoItem]
    /\ written = 0 /\ complete = 0 /\ visible = 0 /\ read = 0

Put(v, incomplete) ==
    /\ written < MaxPos
    /\ log' = [log EXCEPT ![written] = v]
    /\ written' = written + 1
    /\ complete' = IF incomplete THEN complete ELSE written + 1
    /\ UNCHANGED <<visible, read>>

Withdraw ==
    /\ written > complete
    /\ written' = written - 1
    /\ UNCHANGED <<log, complete, visible, read>>

Publish ==
    /\ visible' = complete
    /\ UNCHANGED <<log, written, complete, read>>

Take ==
    /\ read < visible
    /\ read' = read + 1
    /\ UNCHANGED <<log, written, complete, visible>>

ChannelNext ==
    \/ \E v \in Items, incomplete \in BOOLEAN : Put(v, incomplete)
    \/ Withdraw
    \/ Publish
    \/ Take

ChannelSpec == ChannelInit /\ [][ChannelNext]_channelVars
=============================================================================

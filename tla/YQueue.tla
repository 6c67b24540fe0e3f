------------------------------- MODULE YQueue -------------------------------
(***************************************************************************)
(* zmq::yqueue_t (src/src/yqueue.hpp): the memory under a ypipe.  Items    *)
(* live in chunks of N cells linked in both directions; the writer owns    *)
(* the back and the end, the reader owns the beginning, and the chunk the  *)
(* reader emptied last is kept as a spare for the writer, exchanged        *)
(* atomically.  free may give an address to a later malloc.                *)
(*                                                                         *)
(* The ypipe that uses the queue is the environment: it pushes, unpushes   *)
(* items it has not completed and pops items it has (module YPipe).  The   *)
(* history variable live holds the address of every cell from the front    *)
(* to the terminator, in the order they were pushed.                       *)
(***************************************************************************)
EXTENDS Integers, Sequences, SequencesExt, FiniteSets

CONSTANTS
    Chunks,    \* addresses malloc can return
    NULL,
    N,         \* cells in a chunk
    MaxLive    \* bound: cells in use

ASSUME YQueueAssumption ==
    /\ IsFiniteSet(Chunks) /\ NULL \notin Chunks
    /\ N \in Nat /\ N > 1
    /\ MaxLive \in Nat

VARIABLES
    begin_chunk, begin_pos,
    back_chunk, back_pos,
    end_chunk, end_pos,
    spare_chunk,
    prev, next,       \* the links of each chunk
    allocated,        \* the chunks malloc returned and free did not take back
    live,             \* addresses of the cells from front to back
    completed         \* how many of them hold an item the reader may get

links == <<prev, next>>
vars == <<begin_chunk, begin_pos, back_chunk, back_pos, end_chunk, end_pos,
          spare_chunk, prev, next, allocated, live, completed>>

\* The constructor, and the push of the terminator by the constructor of
\* ypipe_t.
Init ==
    /\ begin_chunk \in Chunks /\ begin_pos = 0
    /\ back_chunk = begin_chunk /\ back_pos = 0
    /\ end_chunk = begin_chunk /\ end_pos = 1
    /\ spare_chunk = NULL
    /\ prev = [ch \in Chunks |-> NULL] /\ next = [ch \in Chunks |-> NULL]
    /\ allocated = {begin_chunk}
    /\ live = << <<begin_chunk, 0>> >>
    /\ completed = 0

-----------------------------------------------------------------------------
(* The writer.                                                             *)

Complete ==
    /\ begin_chunk # NULL
    /\ completed' = Len(live) - 1
    /\ UNCHANGED <<begin_chunk, begin_pos, back_chunk, back_pos, end_chunk,
                   end_pos, spare_chunk, links, allocated, live>>

\* Mutant: the spare chunk is read and not exchanged.
NewChunk_KeepsSpare(ch) ==
    /\ \/ ch = spare_chunk /\ UNCHANGED allocated
       \/ /\ spare_chunk = NULL
          /\ ch \in Chunks \ allocated
          /\ allocated' = allocated \cup {ch}
    /\ UNCHANGED spare_chunk

\* The spare chunk if there is one, or allocate_chunk.
NewChunk(ch) ==
    /\ \/ ch = spare_chunk /\ UNCHANGED allocated
       \/ /\ spare_chunk = NULL
          /\ ch \in Chunks \ allocated
          /\ allocated' = allocated \cup {ch}
    /\ spare_chunk' = NULL

\* Mutant: a chunk is left one cell too late.
ChunkDone_Late(pos) == pos = N

ChunkDone(pos) == pos + 1 = N

push ==
    /\ begin_chunk # NULL /\ Len(live) < MaxLive
    /\ back_chunk' = end_chunk
    /\ back_pos' = end_pos
    /\ live' = Append(live, <<end_chunk, end_pos>>)
    /\ \/ /\ ~ ChunkDone(end_pos)
          /\ end_pos' = end_pos + 1
          /\ UNCHANGED <<end_chunk, spare_chunk, links, allocated>>
       \/ /\ ChunkDone(end_pos)
          /\ end_pos' = 0
          /\ \E ch \in Chunks :
                /\ NewChunk(ch)
                /\ next' = [next EXCEPT ![end_chunk] = ch]
                /\ prev' = [prev EXCEPT ![ch] = end_chunk]
                /\ end_chunk' = ch
    /\ UNCHANGED <<begin_chunk, begin_pos, completed>>

\* Mutant: the end moves back and the back does not change chunk.
BackBefore_SameChunk == <<back_chunk, (back_pos + N - 1) % N>>

BackBefore ==
    IF back_pos > 0 THEN <<back_chunk, back_pos - 1>>
    ELSE <<prev[back_chunk], N - 1>>

\* unpush: called by unwrite while the last item is incomplete.
unpush ==
    /\ begin_chunk # NULL /\ completed < Len(live) - 1
    /\ back_chunk' = BackBefore[1]
    /\ back_pos' = BackBefore[2]
    /\ live' = Front(live)
    /\ \/ /\ end_pos > 0
          /\ end_pos' = end_pos - 1
          /\ UNCHANGED <<end_chunk, links, allocated>>
       \/ /\ end_pos = 0
          /\ end_pos' = N - 1
          /\ end_chunk' = prev[end_chunk]
          /\ allocated' = allocated \ {end_chunk}
          /\ next' = [next EXCEPT ![prev[end_chunk]] = NULL]
          /\ UNCHANGED prev
    /\ UNCHANGED <<begin_chunk, begin_pos, spare_chunk, completed>>

-----------------------------------------------------------------------------
(* The reader.                                                             *)

\* xchg and xfree of the spare chunk that was there.
Recycle(ch) ==
    /\ spare_chunk' = ch
    /\ allocated' = allocated \ {spare_chunk}

\* pop: called by read for an item that is complete.
pop ==
    /\ begin_chunk # NULL /\ completed > 0
    /\ live' = Tail(live)
    /\ completed' = completed - 1
    /\ \/ /\ ~ ChunkDone(begin_pos)
          /\ begin_pos' = begin_pos + 1
          /\ UNCHANGED <<begin_chunk, spare_chunk, links, allocated>>
       \/ /\ ChunkDone(begin_pos)
          /\ begin_pos' = 0
          /\ begin_chunk' = next[begin_chunk]
          /\ prev' = [prev EXCEPT ![next[begin_chunk]] = NULL]
          /\ Recycle(begin_chunk)
          /\ UNCHANGED next
    /\ UNCHANGED <<back_chunk, back_pos, end_chunk, end_pos>>

-----------------------------------------------------------------------------
(* The destructor: frees the chunks from the beginning to the end, and the *)
(* spare one.                                                              *)

Chain ==
    LET step[n \in 0 .. Cardinality(Chunks)] ==
            IF n = 0 THEN begin_chunk
            ELSE IF step[n - 1] \in {end_chunk, NULL} THEN step[n - 1]
            ELSE next[step[n - 1]]
    IN  {step[n] : n \in 0 .. Cardinality(Chunks)}

Destroy ==
    /\ begin_chunk # NULL
    /\ begin_chunk' = NULL
    /\ allocated' = (allocated \ Chain) \ {spare_chunk}
    /\ spare_chunk' = NULL
    /\ UNCHANGED <<begin_pos, back_chunk, back_pos, end_chunk, end_pos, links,
                   live, completed>>

Next ==
    \/ Complete
    \/ push
    \/ unpush
    \/ pop
    \/ Destroy

Spec == Init /\ [][Next]_vars

-----------------------------------------------------------------------------
(* Properties.                                                             *)

Cells == Chunks \X (0 .. N - 1)

\* The positions stay inside a chunk and the links lead to chunks.
TypeOK ==
    /\ begin_chunk \in Chunks \cup {NULL} /\ begin_pos \in 0 .. N - 1
    /\ back_chunk \in Chunks /\ back_pos \in 0 .. N - 1
    /\ end_chunk \in Chunks /\ end_pos \in 0 .. N - 1
    /\ spare_chunk \in Chunks \cup {NULL}
    /\ prev \in [Chunks -> Chunks \cup {NULL}]
    /\ next \in [Chunks -> Chunks \cup {NULL}]
    /\ allocated \subseteq Chunks
    /\ live \in Seq(Cells)
    /\ completed \in 0 .. Len(live)

Alive == begin_chunk # NULL

\* front () and back () are the cells that were pushed: the writer's way
\* back over the prev links and the reader's way forward over the next links
\* lead to the same cells.
EndsMeet ==
    Alive => /\ live[1] = <<begin_chunk, begin_pos>>
             /\ Last(live) = <<back_chunk, back_pos>>

\* Two positions of the queue never share an address, so the pointers that
\* ypipe_t compares are equal only for equal positions.
DistinctCells == Alive => IsInjective(live)

\* Reader and writer see one and the same queue of distinct cells.
OneQueue == EndsMeet /\ DistinctCells

\* No cell in use lies in a chunk that was freed or that is the spare one;
\* "begin & end positions are always valid".
NoUseAfterFree ==
    Alive => /\ \A i \in DOMAIN live :
                   live[i][1] \in allocated \ {spare_chunk}
             /\ end_chunk \in allocated \ {spare_chunk}

\* Every chunk is freed exactly once: the destructor finds all of them.
NoLeak ==
    /\ Alive => Chain \subseteq allocated \ {spare_chunk}
    /\ ~ Alive => allocated = {}

\* Chunks are used while they are allocated, and freed exactly once.
MemorySafe == NoUseAfterFree /\ NoLeak
=============================================================================

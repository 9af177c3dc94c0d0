-------------------------------- MODULE Queue --------------------------------
(***************************************************************************)
(* The ring buffer of the user library (src/qreslib/queue.h): a queue in   *)
(* an array, written at ins_pos and read at del_pos, and an iterator that  *)
(* walks over it without removing anything.  The two indices are equal     *)
(* both when the queue is empty and when it is full; the number of         *)
(* elements tells the two apart, but the iterator does not look at it.     *)
(*                                                                         *)
(* The header forbids an insertion into a full queue and an extraction     *)
(* from an empty one; its callers ask first.  A walk goes on while         *)
(* elements are inserted, and ends when one is extracted.                  *)
(***************************************************************************)
EXTENDS Integers, Sequences

CONSTANTS Elements, Max, None

ASSUME QueueAssumption == Max \in Nat \ {0} /\ None \notin Elements

VARIABLES
    data,           \* the array, None where nothing was ever written
    num_elements,   \* how many elements are waiting
    ins_pos,        \* where the next element goes
    del_pos,        \* where the oldest element is
    live,           \* between queue_init and queue_cleanup
    returned,       \* what the last operation returned
    walk            \* the iterator and what it has returned, or None

ring == <<data, num_elements, ins_pos, del_pos>>
vars == <<ring, live, returned, walk>>

Positions == 0 .. Max - 1

\* Variant: the position after the last is not the first.
Following_Stuck(pos) == IF pos + 1 < Max THEN pos + 1 ELSE pos

\* The position after this one.
Following(pos) == (pos + 1) % Max

queue_is_empty == num_elements = 0
queue_is_full == num_elements = Max

Unwritten == [p \in Positions |-> None]

Init ==
    /\ data = Unwritten
    /\ num_elements = 0
    /\ ins_pos = 0
    /\ del_pos = 0
    /\ live = FALSE
    /\ returned = None
    /\ walk = None

\* Memory for the array may be lacking: then there is no queue.
queue_init ==
    /\ ~live
    /\ \/ /\ live' = TRUE
          /\ data' = Unwritten
          /\ num_elements' = 0
          /\ ins_pos' = 0
          /\ del_pos' = 0
       \/ UNCHANGED <<ring, live>>
    /\ returned' = None
    /\ UNCHANGED walk

\* The fields keep what they hold; no iterator outlives the array.
queue_cleanup ==
    /\ live
    /\ live' = FALSE
    /\ walk' = None
    /\ returned' = None
    /\ UNCHANGED ring

queue_insert(e) ==
    /\ live
    /\ ~queue_is_full
    /\ data' = [data EXCEPT ![ins_pos] = e]
    /\ ins_pos' = Following(ins_pos)
    /\ num_elements' = num_elements + 1
    /\ returned' = None
    /\ UNCHANGED <<del_pos, live, walk>>

queue_extract ==
    /\ live
    /\ ~queue_is_empty
    /\ returned' = data[del_pos]
    /\ del_pos' = Following(del_pos)
    /\ num_elements' = num_elements - 1
    /\ walk' = None
    /\ UNCHANGED <<data, ins_pos, live>>

-----------------------------------------------------------------------------
(* The iterator. *)

queue_begin ==
    /\ live
    /\ walk' = [pos |-> del_pos, seen |-> <<>>]
    /\ UNCHANGED <<ring, live, returned>>

\* Variant: the iterator stops one position early.
queue_it_has_next_Early(pos) == Following(pos) # ins_pos

queue_it_has_next(pos) == pos # ins_pos

queue_it_next ==
    /\ walk # None
    /\ queue_it_has_next(walk.pos)
    /\ walk' = [pos |-> Following(walk.pos), seen |-> Append(walk.seen, data[walk.pos])]
    /\ UNCHANGED <<ring, live, returned>>

Next ==
    \/ queue_init
    \/ queue_cleanup
    \/ \E e \in Elements : queue_insert(e)
    \/ queue_extract
    \/ queue_begin
    \/ queue_it_next

Spec == Init /\ [][Next]_vars

-----------------------------------------------------------------------------
(* Properties. *)

\* The position of the waiting element number i, the oldest being number 0.
Place(i) == IF del_pos + i < Max THEN del_pos + i ELSE del_pos + i - Max

\* The waiting elements, oldest first.
Waiting == IF live THEN num_elements ELSE 0
contents == [i \in 1 .. Waiting |-> data[Place(i - 1)]]

\* The indices stay within the array and the distance between them is the
\* number of elements; every waiting element was inserted (queue.h:66-85).
IndicesAgree ==
    /\ data \in [Positions -> Elements \cup {None}]
    /\ live \in BOOLEAN
    /\ returned \in Elements \cup {None}
    /\ num_elements \in 0 .. Max
    /\ ins_pos \in Positions
    /\ del_pos \in Positions
    /\ ins_pos = (IF num_elements = Max THEN del_pos ELSE Place(num_elements))
    /\ \A i \in 0 .. num_elements - 1 : data[Place(i)] \in Elements

\* An iterator returns the waiting elements from the oldest on, and says that
\* there is no next one only when it has returned them all - except on a queue
\* that was full when the walk began, or became full before its first step: it
\* then sees no element at all (queue.h:144-146).
WalkComplete ==
    walk # None =>
        /\ walk.seen = SubSeq(contents, 1, Len(walk.seen))
        /\ ~queue_it_has_next(walk.pos) =>
               \/ walk.seen = contents
               \/ queue_is_full /\ walk.seen = <<>>

\* The ring buffer is a bounded first-in first-out queue (queue.h:6).
Abstract == INSTANCE Fifo
ImplementsFifo == Abstract!Spec
=============================================================================

-------------------------------- MODULE Fifo --------------------------------
(***************************************************************************)
(* What the queue of the library (src/qreslib/queue.h) promises: elements  *)
(* leave in the order in which they came, at most Max are waiting, and     *)
(* none is lost or made up.                                                *)
(***************************************************************************)
EXTENDS Naturals, Sequences

CONSTANTS
    Elements,   \* what may be queued
    Max,        \* how many elements may wait
    None        \* no element

VARIABLES
    live,       \* whether the queue exists
    contents,   \* the waiting elements, oldest first
    returned    \* what the last operation returned

vars == <<live, contents, returned>>

Init == ~live /\ contents = <<>> /\ returned = None

Create ==
    /\ ~live
    /\ live' \in BOOLEAN
    /\ contents' = <<>>
    /\ returned' = None

Destroy == live /\ live' = FALSE /\ contents' = <<>> /\ returned' = None

Insert(e) ==
    /\ live
    /\ Len(contents) < Max
    /\ contents' = Append(contents, e)
    /\ returned' = None
    /\ UNCHANGED live

Extract ==
    /\ live
    /\ contents # <<>>
    /\ returned' = Head(contents)
    /\ contents' = Tail(contents)
    /\ UNCHANGED live

Next == Create \/ Destroy \/ (\E e \in Elements : Insert(e)) \/ Extract

Spec == Init /\ [][Next]_vars
=============================================================================

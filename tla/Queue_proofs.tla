---------------------------- MODULE Queue_proofs ----------------------------
(***************************************************************************)
(* The ring buffer of module Queue is a bounded first-in first-out queue,  *)
(* for every size and every set of elements.                               *)
(***************************************************************************)
EXTENDS Queue, SequenceTheorems, TLAPS

\* The remainder of the code's increment is a wrap at the end of the array.
LEMMA FollowingWraps ==
    ASSUME NEW pos \in Positions
    PROVE  /\ Following(pos) = IF pos + 1 = Max THEN 0 ELSE pos + 1
           /\ Following(pos) \in Positions
<1>. Max \in Nat \ {0} BY QueueAssumption
<1>. pos \in Nat /\ pos + 1 <= Max BY DEF Positions
<1>1. CASE pos + 1 = Max
  <2>1. Max % Max = 0 OBVIOUS
  <2>. QED BY <1>1, <2>1 DEF Following, Positions
<1>2. CASE pos + 1 < Max
  <2>1. (pos + 1) % Max = pos + 1 BY <1>2
  <2>. QED BY <1>2, <2>1 DEF Following, Positions
<1>. QED BY <1>1, <1>2

\* The waiting elements are at distinct positions, none of them ins_pos unless
\* the queue is full.
LEMMA PlacesDistinct ==
    ASSUME del_pos \in Positions, NEW i \in 0 .. Max - 1, NEW j \in 0 .. Max - 1
    PROVE  /\ Place(i) \in Positions
           /\ Place(i) = Place(j) => i = j
<1>. Max \in Nat \ {0} BY QueueAssumption
<1>. QED BY DEF Place, Positions

\* The invariant holds initially.
LEMMA IndicesInit == Init => IndicesAgree
<1>. SUFFICES ASSUME Init PROVE IndicesAgree OBVIOUS
<1>. Max \in Nat \ {0} BY QueueAssumption
<1>1. 0 \in Positions /\ 0 # Max BY DEF Positions
<1>2. data \in [Positions -> Elements \cup {None}] BY DEF Init, Unwritten
<1>3. ins_pos = (IF num_elements = Max THEN del_pos ELSE Place(num_elements))
  BY <1>1 DEF Init, Place
<1>4. num_elements \in 0 .. Max /\ \A i \in 0 .. num_elements - 1 : FALSE
  BY DEF Init
<1>5. live \in BOOLEAN /\ returned \in Elements \cup {None} /\ ins_pos = 0 /\ del_pos = 0
  BY DEF Init
<1>. QED BY <1>1, <1>2, <1>3, <1>4, <1>5 DEF IndicesAgree

\* What an insertion does to the invariant and to the waiting elements.
LEMMA InsertStep ==
    ASSUME IndicesAgree, NEW e \in Elements, queue_insert(e)
    PROVE  /\ IndicesAgree'
           /\ num_elements < Max
           /\ ins_pos = Place(num_elements)
           /\ num_elements' = num_elements + 1
           /\ \A i \in 0 .. num_elements - 1 : data'[Place(i)] = data[Place(i)]
           /\ data'[Place(num_elements)] = e
           /\ del_pos' = del_pos
<1>. Max \in Nat \ {0} BY QueueAssumption
<1>1. /\ num_elements \in 0 .. Max /\ num_elements # Max
      /\ ins_pos \in Positions /\ del_pos \in Positions
      /\ data \in [Positions -> Elements \cup {None}]
      /\ ins_pos = Place(num_elements)
  BY DEF IndicesAgree, queue_insert, queue_is_full
<1>2. /\ data' = [data EXCEPT ![ins_pos] = e]
      /\ ins_pos' = Following(ins_pos)
      /\ num_elements' = num_elements + 1
      /\ del_pos' = del_pos /\ live' = live /\ returned' = None
  BY DEF queue_insert
<1>3. \A i \in 0 .. num_elements - 1 : Place(i) \in Positions /\ Place(i) # ins_pos
  BY <1>1, PlacesDistinct
<1>4. \A i \in 0 .. num_elements - 1 : data'[Place(i)] = data[Place(i)]
  BY <1>1, <1>2, <1>3
<1>5. data'[Place(num_elements)] = e
  BY <1>1, <1>2
<1>6. data' \in [Positions -> Elements \cup {None}]
  BY <1>1, <1>2
<1>7. ins_pos' = (IF num_elements + 1 = Max THEN del_pos ELSE Place(num_elements + 1))
      /\ ins_pos' \in Positions
  <2>1. ins_pos' = (IF ins_pos + 1 = Max THEN 0 ELSE ins_pos + 1) /\ ins_pos' \in Positions
    BY <1>1, <1>2, FollowingWraps
  <2>. QED BY <1>1, <2>1 DEF Place, Positions
<1>8. \A i \in 0 .. num_elements : data'[Place(i)] \in Elements
  BY <1>1, <1>4, <1>5 DEF IndicesAgree
<1>9. \A i : Place(i)' = Place(i)
  BY <1>2 DEF Place
<1>10. IndicesAgree'
  BY <1>1, <1>2, <1>6, <1>7, <1>8, <1>9 DEF IndicesAgree
<1>. QED BY <1>1, <1>2, <1>4, <1>5, <1>10

\* What an extraction does to the invariant and to the waiting elements.
LEMMA ExtractStep ==
    ASSUME IndicesAgree, queue_extract
    PROVE  /\ IndicesAgree'
           /\ num_elements \in 1 .. Max
           /\ num_elements' = num_elements - 1
           /\ returned' = data[Place(0)]
           /\ \A i \in 0 .. num_elements - 2 : data'[Place(i)'] = data[Place(i + 1)]
<1>. Max \in Nat \ {0} BY QueueAssumption
<1>1. /\ num_elements \in 1 .. Max
      /\ ins_pos \in Positions /\ del_pos \in Positions
      /\ data \in [Positions -> Elements \cup {None}]
      /\ ins_pos = (IF num_elements = Max THEN del_pos ELSE Place(num_elements))
  BY DEF IndicesAgree, queue_extract, queue_is_empty
<1>2. /\ data' = data /\ ins_pos' = ins_pos /\ live' = live
      /\ returned' = data[del_pos]
      /\ num_elements' = num_elements - 1
      /\ del_pos' = Following(del_pos)
  BY DEF queue_extract
<1>3. del_pos' = (IF del_pos + 1 = Max THEN 0 ELSE del_pos + 1) /\ del_pos' \in Positions
  BY <1>1, <1>2, FollowingWraps
<1>4. Place(0) = del_pos
  BY <1>1 DEF Place, Positions
<1>5. \A i \in 0 .. num_elements - 2 : Place(i)' = Place(i + 1)
  BY <1>1, <1>3 DEF Place, Positions
<1>6. ins_pos = Place(num_elements)' /\ num_elements' # Max
  BY <1>1, <1>2, <1>3 DEF Place, Positions
<1>7. \A i \in 0 .. num_elements - 1 : data[Place(i)] \in Elements
  BY DEF IndicesAgree
<1>8. \A i \in 0 .. num_elements - 2 : data'[Place(i)'] = data[Place(i + 1)]
  BY <1>2, <1>5
<1>9. \A i \in 0 .. num_elements - 2 : data'[Place(i)'] \in Elements
  BY <1>1, <1>7, <1>8
<1>10. returned' \in Elements
  BY <1>1, <1>2, <1>4, <1>7
<1>11. IndicesAgree'
  <2>1. \A i \in 0 .. num_elements' - 1 : data'[Place(i)'] \in Elements
    BY <1>1, <1>2, <1>9
  <2>2. num_elements' \in 0 .. Max
    BY <1>1, <1>2
  <2>3. live' \in BOOLEAN
    BY <1>2 DEF IndicesAgree
  <2>. QED BY <1>1, <1>2, <1>3, <1>6, <1>10, <2>1, <2>2, <2>3 DEF IndicesAgree
<1>. QED BY <1>1, <1>2, <1>4, <1>8, <1>11

\* Every operation keeps the invariant.
LEMMA IndicesStep == IndicesAgree /\ [Next]_vars => IndicesAgree'
<1>. SUFFICES ASSUME IndicesAgree, [Next]_vars PROVE IndicesAgree' OBVIOUS
<1>1. CASE queue_init
  <2>1. CASE live' = TRUE /\ data' = Unwritten /\ num_elements' = 0
             /\ ins_pos' = 0 /\ del_pos' = 0
    <3>. Max \in Nat \ {0} BY QueueAssumption
    <3>1. 0 \in Positions /\ 0 # Max BY DEF Positions
    <3>2. data' \in [Positions -> Elements \cup {None}] BY <2>1 DEF Unwritten
    <3>3. ins_pos' = (IF num_elements' = Max THEN del_pos' ELSE Place(num_elements)')
      BY <2>1, <3>1 DEF Place
    <3>4. \A i \in 0 .. num_elements' - 1 : data'[Place(i)'] \in Elements
      BY <2>1
    <3>5. returned' = None BY <1>1 DEF queue_init
    <3>. QED BY <2>1, <3>1, <3>2, <3>3, <3>4, <3>5 DEF IndicesAgree
  <2>2. CASE UNCHANGED <<ring, live>>
    BY <1>1, <2>2 DEF queue_init, ring, IndicesAgree, Place
  <2>. QED BY <1>1, <2>1, <2>2 DEF queue_init
<1>2. CASE queue_cleanup
  BY <1>2 DEF queue_cleanup, ring, IndicesAgree, Place
<1>3. ASSUME NEW e \in Elements, queue_insert(e) PROVE IndicesAgree'
  BY <1>3, InsertStep
<1>4. CASE queue_extract
  BY <1>4, ExtractStep
<1>5. CASE queue_begin
  BY <1>5 DEF queue_begin, ring, IndicesAgree, Place
<1>6. CASE queue_it_next
  BY <1>6 DEF queue_it_next, ring, IndicesAgree, Place
<1>7. CASE UNCHANGED vars
  BY <1>7 DEF vars, ring, IndicesAgree, Place
<1>. QED BY <1>1, <1>2, <1>3, <1>4, <1>5, <1>6, <1>7 DEF Next

\* The indices of the array and the number of elements always agree, and every
\* waiting element was inserted (queue.h:66-85).
THEOREM IndicesAlwaysAgree == Spec => []IndicesAgree
<1>. QED BY IndicesInit, IndicesStep, PTL DEF Spec

-----------------------------------------------------------------------------
(* The refinement. *)

\* The waiting elements form a sequence.
LEMMA ContentsProperties ==
    IndicesAgree =>
        /\ contents \in Seq(Elements)
        /\ Len(contents) = Waiting
        /\ Waiting \in 0 .. Max
        /\ \A i \in 1 .. Waiting : contents[i] = data[Place(i - 1)]
<1>. SUFFICES ASSUME IndicesAgree
              PROVE  /\ contents \in Seq(Elements)
                     /\ Len(contents) = Waiting
                     /\ Waiting \in 0 .. Max
                     /\ \A i \in 1 .. Waiting : contents[i] = data[Place(i - 1)]
  OBVIOUS
<1>. Max \in Nat \ {0} BY QueueAssumption
<1>1. Waiting \in 0 .. Max /\ Waiting <= num_elements /\ num_elements \in Nat
  BY DEF Waiting, IndicesAgree
<1>2. \A i \in 1 .. Waiting : data[Place(i - 1)] \in Elements
  BY <1>1 DEF IndicesAgree
<1>3. contents \in [1 .. Waiting -> Elements]
  BY <1>2 DEF contents
<1>4. contents \in Seq(Elements)
  BY <1>1, <1>3, SeqDef
<1>5. Len(contents) = Waiting
  <2>1. DOMAIN contents = 1 .. Len(contents) /\ Len(contents) \in Nat
    BY <1>4, LenProperties
  <2>2. DOMAIN contents = 1 .. Waiting
    BY DEF contents
  <2>3. 1 .. Len(contents) = 1 .. Waiting
    BY <2>1, <2>2
  <2>5. Waiting \in Nat
    BY <1>1
  <2>4. \A m, n \in Nat : 1 .. m = 1 .. n => m = n
    <3>. SUFFICES ASSUME NEW m \in Nat, NEW n \in Nat, 1 .. m = 1 .. n
                  PROVE  m = n
      OBVIOUS
    <3>1. m # 0 => m \in 1 .. n BY m # 0 => m \in 1 .. m
    <3>2. n # 0 => n \in 1 .. m BY n # 0 => n \in 1 .. n
    <3>. QED BY <3>1, <3>2
  <2>. QED BY <2>1, <2>3, <2>4, <2>5
<1>. QED BY <1>1, <1>4, <1>5 DEF contents

\* An insertion appends to the waiting elements.
LEMMA InsertAppends ==
    ASSUME IndicesAgree, NEW e \in Elements, queue_insert(e)
    PROVE  Abstract!Insert(e)
<1>. Max \in Nat \ {0} BY QueueAssumption
<1>1. live /\ live' /\ Waiting = num_elements /\ Waiting' = num_elements + 1
      /\ num_elements \in 0 .. Max /\ num_elements < Max
  BY InsertStep DEF queue_insert, IndicesAgree, Waiting
<1>2. /\ contents \in Seq(Elements) /\ Len(contents) = num_elements
      /\ \A i \in 1 .. num_elements : contents[i] = data[Place(i - 1)]
  BY <1>1, ContentsProperties
<1>3. IndicesAgree' /\ del_pos' = del_pos
      /\ data'[Place(num_elements)] = e
      /\ \A i \in 0 .. num_elements - 1 : data'[Place(i)] = data[Place(i)]
  BY InsertStep
<1>4. /\ contents' \in Seq(Elements) /\ Len(contents') = num_elements + 1
      /\ \A i \in 1 .. num_elements + 1 : contents'[i] = data'[Place(i - 1)']
  <2>1. (contents \in Seq(Elements) /\ Len(contents) = Waiting /\ Waiting \in 0 .. Max
         /\ \A i \in 1 .. Waiting : contents[i] = data[Place(i - 1)])'
    BY <1>3, ContentsProperties, PTL
  <2>. QED BY <1>1, <2>1
<1>5. \A i : Place(i)' = Place(i)
  BY <1>3 DEF Place
<1>6. \A i \in 1 .. num_elements : contents'[i] = contents[i]
  <2>. TAKE i \in 1 .. num_elements
  <2>1. i - 1 \in 0 .. num_elements - 1 /\ i \in 1 .. num_elements + 1
    BY <1>1
  <2>. QED BY <1>2, <1>3, <1>4, <1>5, <2>1
<1>7. contents'[num_elements + 1] = e
  <2>1. (num_elements + 1) - 1 = num_elements /\ num_elements + 1 \in 1 .. num_elements + 1
    BY <1>1
  <2>. QED BY <1>3, <1>4, <1>5, <2>1
<1>8. contents' = Append(contents, e)
  <2>1. /\ Append(contents, e) \in Seq(Elements)
        /\ Len(Append(contents, e)) = num_elements + 1
        /\ \A i \in 1 .. num_elements : Append(contents, e)[i] = contents[i]
        /\ Append(contents, e)[num_elements + 1] = e
    BY <1>1, <1>2, AppendProperties
  <2>2. \A i \in 1 .. num_elements + 1 : contents'[i] = Append(contents, e)[i]
    BY <1>1, <1>6, <1>7, <2>1
  <2>. QED BY <1>4, <2>1, <2>2, SeqEqual
<1>9. returned' = None /\ live' = live
  BY DEF queue_insert
<1>. QED BY <1>1, <1>2, <1>8, <1>9 DEF Abstract!Insert

\* An extraction takes the first of the waiting elements and returns it.
LEMMA ExtractTakesHead ==
    ASSUME IndicesAgree, queue_extract
    PROVE  Abstract!Extract
<1>. Max \in Nat \ {0} BY QueueAssumption
<1>1. live /\ live' /\ Waiting = num_elements /\ Waiting' = num_elements - 1
      /\ num_elements \in 1 .. Max
  BY ExtractStep DEF queue_extract, IndicesAgree, Waiting
<1>2. /\ contents \in Seq(Elements) /\ Len(contents) = num_elements
      /\ \A i \in 1 .. num_elements : contents[i] = data[Place(i - 1)]
  BY <1>1, ContentsProperties
<1>3. IndicesAgree' /\ returned' = data[Place(0)]
      /\ \A i \in 0 .. num_elements - 2 : data'[Place(i)'] = data[Place(i + 1)]
  BY ExtractStep
<1>4. /\ contents' \in Seq(Elements) /\ Len(contents') = num_elements - 1
      /\ \A i \in 1 .. num_elements - 1 : contents'[i] = data'[Place(i - 1)']
  <2>1. (contents \in Seq(Elements) /\ Len(contents) = Waiting /\ Waiting \in 0 .. Max
         /\ \A i \in 1 .. Waiting : contents[i] = data[Place(i - 1)])'
    BY <1>3, ContentsProperties, PTL
  <2>. QED BY <1>1, <2>1
<1>5. contents # <<>>
  BY <1>1, <1>2, EmptySeq
<1>6. /\ Tail(contents) \in Seq(Elements) /\ Len(Tail(contents)) = num_elements - 1
      /\ \A i \in 1 .. num_elements - 1 : Tail(contents)[i] = contents[i + 1]
  BY <1>2, <1>5, HeadTailProperties
<1>7. \A i \in 1 .. num_elements - 1 : contents'[i] = Tail(contents)[i]
  <2>. TAKE i \in 1 .. num_elements - 1
  <2>1. i - 1 \in 0 .. num_elements - 2 /\ i + 1 \in 1 .. num_elements
        /\ (i - 1) + 1 = i /\ (i + 1) - 1 = i
    BY <1>1
  <2>2. contents'[i] = data[Place(i)]
    BY <1>3, <1>4, <2>1
  <2>3. contents[i + 1] = data[Place(i)]
    BY <1>2, <2>1
  <2>. QED BY <1>6, <2>2, <2>3
<1>8. contents' = Tail(contents)
  BY <1>4, <1>6, <1>7, SeqEqual
<1>9. returned' = Head(contents)
  <2>1. 1 \in 1 .. num_elements /\ 1 - 1 = 0 BY <1>1
  <2>2. contents[1] = data[Place(0)] BY <1>2, <2>1
  <2>. QED BY <1>2, <1>3, <1>5, <2>2
<1>10. live' = live
  BY DEF queue_extract
<1>. QED BY <1>1, <1>5, <1>8, <1>9, <1>10 DEF Abstract!Extract

\* A queue that does not exist has no waiting elements.
LEMMA NothingWaits ==
    ASSUME Waiting = 0
    PROVE  contents = <<>>
BY DEF contents

\* Every step of the ring buffer is a step of the abstract queue, or none.
LEMMA RefinementStep ==
    IndicesAgree /\ [Next]_vars => [Abstract!Next]_(Abstract!vars)
<1>. SUFFICES ASSUME IndicesAgree, [Next]_vars
              PROVE  Abstract!Next \/ UNCHANGED Abstract!vars
  BY DEF Abstract!vars
<1>1. CASE queue_init
  <2>1. ~live /\ returned' = None /\ live' \in BOOLEAN
    BY <1>1 DEF queue_init, ring, IndicesAgree
  <2>2. Waiting' = 0
    BY <1>1, <2>1 DEF queue_init, ring, Waiting
  <2>3. contents' = <<>>
    BY <2>2 DEF contents
  <2>. QED BY <2>1, <2>3 DEF Abstract!Next, Abstract!Create
<1>2. CASE queue_cleanup
  <2>1. live /\ live' = FALSE /\ returned' = None
    BY <1>2 DEF queue_cleanup
  <2>2. contents' = <<>>
    BY <2>1 DEF contents, Waiting
  <2>. QED BY <2>1, <2>2 DEF Abstract!Next, Abstract!Destroy
<1>3. ASSUME NEW e \in Elements, queue_insert(e) PROVE Abstract!Next
  BY <1>3, InsertAppends DEF Abstract!Next
<1>4. CASE queue_extract
  BY <1>4, ExtractTakesHead DEF Abstract!Next
<1>5. CASE UNCHANGED <<ring, live, returned>>
  BY <1>5 DEF Abstract!vars, ring, contents, Waiting, Place
<1>. QED BY <1>1, <1>2, <1>3, <1>4, <1>5
         DEF Next, vars, queue_begin, queue_it_next

\* The ring buffer implements the bounded first-in first-out queue (queue.h:6).
THEOREM RingIsFifo == Spec => ImplementsFifo
<1>1. Init => Abstract!Init
  BY DEF Init, Abstract!Init, contents, Waiting
<1>. QED BY <1>1, RefinementStep, IndicesAlwaysAgree, PTL
         DEF Spec, ImplementsFifo, Abstract!Spec

-----------------------------------------------------------------------------
(* The iterator. *)

\* How far a walk has come.
Walked(w) ==
    /\ w = [pos |-> w.pos, seen |-> w.seen]
    /\ w.seen \in Seq(Elements)
    /\ Len(w.seen) <= num_elements
    /\ w.pos = IF Len(w.seen) = Max THEN del_pos ELSE Place(Len(w.seen))
    /\ \A i \in 1 .. Len(w.seen) : w.seen[i] = data[Place(i - 1)]

\* The inductive form of WalkComplete: the iterator stands where the next
\* element it has not returned is.
WalkInv == walk # None => live /\ Walked(walk)

\* A walk that begins has returned nothing.
LEMMA WalkBegins ==
    ASSUME IndicesAgree, NEW w, w = [pos |-> del_pos, seen |-> <<>>]
    PROVE  Walked(w)
<1>. Max \in Nat \ {0} BY QueueAssumption
<1>1. num_elements \in Nat /\ del_pos \in Positions BY DEF IndicesAgree
<1>2. Place(0) = del_pos BY <1>1 DEF Place, Positions
<1>3. w.pos = del_pos /\ w.seen = <<>> OBVIOUS
<1>4. Len(w.seen) = 0 /\ w.seen \in Seq(Elements) BY <1>3, EmptySeq
<1>5. \A i \in 1 .. Len(w.seen) : FALSE BY <1>4
<1>. QED BY <1>1, <1>2, <1>3, <1>4, <1>5 DEF Walked

\* An iterator that has a next element has not returned all of them.
LEMMA WalkNotOver ==
    ASSUME IndicesAgree, NEW w, Walked(w), queue_it_has_next(w.pos)
    PROVE  Len(w.seen) \in 0 .. num_elements - 1 /\ w.pos = Place(Len(w.seen))
<1>. Max \in Nat \ {0} BY QueueAssumption
<1>1. Len(w.seen) \in Nat BY LenProperties DEF Walked
<1>2. num_elements \in 0 .. Max
      /\ ins_pos = (IF num_elements = Max THEN del_pos ELSE Place(num_elements))
      /\ Len(w.seen) <= num_elements
      /\ w.pos = (IF Len(w.seen) = Max THEN del_pos ELSE Place(Len(w.seen)))
      /\ w.pos # ins_pos
  BY DEF IndicesAgree, Walked, queue_it_has_next
<1>3. Len(w.seen) # num_elements BY <1>2
<1>. QED BY <1>1, <1>2, <1>3

\* A step of the iterator.
LEMMA WalkSteps ==
    ASSUME IndicesAgree, NEW w, Walked(w), queue_it_has_next(w.pos), NEW v,
           v = [pos |-> Following(w.pos), seen |-> Append(w.seen, data[w.pos])]
    PROVE  Walked(v)
<1>. Max \in Nat \ {0} BY QueueAssumption
<1>. DEFINE k == Len(w.seen)
<1>1. k \in 0 .. num_elements - 1 /\ w.pos = Place(k) BY WalkNotOver
<1>2. num_elements \in 0 .. Max /\ del_pos \in Positions
      /\ data[Place(k)] \in Elements
  BY <1>1 DEF IndicesAgree
<1>3. w.seen \in Seq(Elements)
      /\ \A i \in 1 .. k : w.seen[i] = data[Place(i - 1)]
  BY DEF Walked
<1>4. /\ Append(w.seen, data[w.pos]) \in Seq(Elements)
      /\ Len(Append(w.seen, data[w.pos])) = k + 1
      /\ \A i \in 1 .. k : Append(w.seen, data[w.pos])[i] = w.seen[i]
      /\ Append(w.seen, data[w.pos])[k + 1] = data[w.pos]
  BY <1>1, <1>2, <1>3, AppendProperties
<1>5. v.pos = Following(w.pos) /\ v.seen = Append(w.seen, data[w.pos])
      /\ v = [pos |-> v.pos, seen |-> v.seen]
  OBVIOUS
<1>. HIDE DEF k
<1>6. v.pos = IF k + 1 = Max THEN del_pos ELSE Place(k + 1)
  <2>1. Place(k) \in Positions BY <1>1, <1>2 DEF Place, Positions
  <2>2. v.pos = IF Place(k) + 1 = Max THEN 0 ELSE Place(k) + 1
    BY <1>1, <1>5, <2>1, FollowingWraps
  <2>. QED BY <1>1, <1>2, <2>1, <2>2 DEF Place, Positions
<1>7. \A i \in 1 .. k + 1 : v.seen[i] = data[Place(i - 1)]
  <2>. TAKE i \in 1 .. k + 1
  <2>1. CASE i \in 1 .. k BY <1>3, <1>4, <1>5, <2>1
  <2>2. CASE i = k + 1
    <3>1. i - 1 = k BY <1>1, <2>2
    <3>. QED BY <1>1, <1>4, <1>5, <2>2, <3>1
  <2>3. k \in Nat BY <1>1, <1>2
  <2>4. i \in 1 .. k \/ i = k + 1 BY <2>3
  <2>. QED BY <2>1, <2>2, <2>4
<1>8. k + 1 <= num_elements BY <1>1, <1>2
<1>. QED BY <1>4, <1>5, <1>6, <1>7, <1>8 DEF Walked

\* An insertion does not disturb a walk.
LEMMA WalkSurvivesInsert ==
    ASSUME IndicesAgree, NEW w, Walked(w), NEW e \in Elements, queue_insert(e)
    PROVE  /\ w = [pos |-> w.pos, seen |-> w.seen]
           /\ w.seen \in Seq(Elements)
           /\ Len(w.seen) <= num_elements'
           /\ w.pos = IF Len(w.seen) = Max THEN del_pos' ELSE Place(Len(w.seen))'
           /\ \A i \in 1 .. Len(w.seen) : w.seen[i] = data'[Place(i - 1)']
<1>1. num_elements' = num_elements + 1 /\ del_pos' = del_pos /\ num_elements \in Nat
      /\ \A i \in 0 .. num_elements - 1 : data'[Place(i)] = data[Place(i)]
  BY InsertStep DEF IndicesAgree
<1>2. \A i : Place(i)' = Place(i) BY <1>1 DEF Place
<1>3. Len(w.seen) \in Nat /\ Len(w.seen) <= num_elements
      /\ \A i \in 1 .. Len(w.seen) : w.seen[i] = data[Place(i - 1)]
  BY LenProperties DEF Walked
<1>4. \A i \in 1 .. Len(w.seen) : w.seen[i] = data'[Place(i - 1)']
  <2>. TAKE i \in 1 .. Len(w.seen)
  <2>1. i - 1 \in 0 .. num_elements - 1 BY <1>1, <1>3
  <2>. QED BY <1>1, <1>2, <1>3, <2>1
<1>5. Len(w.seen) <= num_elements' BY <1>1, <1>3
<1>. QED BY <1>1, <1>2, <1>4, <1>5 DEF Walked

\* Every operation keeps the inductive form.
LEMMA WalkStep == IndicesAgree /\ WalkInv /\ [Next]_vars => WalkInv'
<1>. SUFFICES ASSUME IndicesAgree, WalkInv, [Next]_vars, walk' # None
              PROVE  live' /\ Walked(walk)'
  BY DEF WalkInv
<1>1. CASE queue_init
  BY <1>1 DEF queue_init, WalkInv
<1>2. CASE queue_cleanup
  BY <1>2 DEF queue_cleanup
<1>3. ASSUME NEW e \in Elements, queue_insert(e) PROVE live' /\ Walked(walk)'
  <2>1. walk' = walk /\ live' = live /\ walk # None BY <1>3 DEF queue_insert
  <2>2. live /\ Walked(walk) BY <2>1 DEF WalkInv
  <2>. QED BY <1>3, <2>1, <2>2, WalkSurvivesInsert DEF Walked
<1>4. CASE queue_extract
  BY <1>4 DEF queue_extract
<1>5. CASE queue_begin
  <2>1. live' /\ walk' = [pos |-> del_pos, seen |-> <<>>] BY <1>5 DEF queue_begin
  <2>2. Walked(walk') BY <2>1, WalkBegins
  <2>. QED BY <1>5, <2>1, <2>2 DEF queue_begin, ring, Walked, Place
<1>6. CASE queue_it_next
  <2>1. live /\ Walked(walk) BY <1>6 DEF queue_it_next, WalkInv
  <2>2. Walked(walk') BY <1>6, <2>1, WalkSteps DEF queue_it_next
  <2>. QED BY <1>6, <2>1, <2>2 DEF queue_it_next, ring, Walked, Place
<1>7. CASE UNCHANGED vars
  BY <1>7 DEF vars, ring, WalkInv, Walked, Place
<1>. QED BY <1>1, <1>2, <1>3, <1>4, <1>5, <1>6, <1>7 DEF Next

\* The inductive form says what the iterator has returned when it stops.
LEMMA WalkInvSuffices == IndicesAgree /\ WalkInv => WalkComplete
<1>. SUFFICES ASSUME IndicesAgree, WalkInv, walk # None
              PROVE  /\ walk.seen = SubSeq(contents, 1, Len(walk.seen))
                     /\ ~queue_it_has_next(walk.pos) =>
                            \/ walk.seen = contents
                            \/ queue_is_full /\ walk.seen = <<>>
  BY DEF WalkComplete
<1>. Max \in Nat \ {0} BY QueueAssumption
<1>. DEFINE k == Len(walk.seen)
<1>1. live /\ Walked(walk) BY DEF WalkInv
<1>2. Waiting = num_elements /\ num_elements \in 0 .. Max /\ del_pos \in Positions
  BY <1>1 DEF Waiting, IndicesAgree
<1>3. k \in Nat /\ k <= num_elements /\ walk.seen \in Seq(Elements)
      /\ \A i \in 1 .. k : walk.seen[i] = data[Place(i - 1)]
  BY <1>1, LenProperties DEF Walked
<1>4. contents \in Seq(Elements) /\ Len(contents) = num_elements
      /\ \A i \in 1 .. num_elements : contents[i] = data[Place(i - 1)]
  BY <1>2, ContentsProperties
<1>. HIDE DEF k
<1>5. \A i \in 1 .. k : walk.seen[i] = contents[i] BY <1>2, <1>3, <1>4
<1>6. walk.seen = SubSeq(contents, 1, k)
  <2>1. \A i \in 1 .. k : contents[i] \in Elements
    BY <1>2, <1>3, <1>4, ElementOfSeq
  <2>2. /\ SubSeq(contents, 1, k) \in Seq(Elements)
        /\ Len(SubSeq(contents, 1, k)) = IF 1 <= k THEN k - 1 + 1 ELSE 0
        /\ \A i \in 1 .. k - 1 + 1 : SubSeq(contents, 1, k)[i] = contents[1 + i - 1]
    BY <1>3, <2>1, SubSeqProperties
  <2>3. Len(SubSeq(contents, 1, k)) = k BY <1>3, <2>2
  <2>4. \A i \in 1 .. k : SubSeq(contents, 1, k)[i] = contents[i]
    <3>. TAKE i \in 1 .. k
    <3>1. i \in 1 .. k - 1 + 1 /\ 1 + i - 1 = i BY <1>3
    <3>. QED BY <2>2, <3>1
  <2>. QED BY <1>3, <1>5, <2>2, <2>3, <2>4, SeqEqual DEF k
<1>7. ASSUME ~queue_it_has_next(walk.pos)
      PROVE  walk.seen = contents \/ (queue_is_full /\ walk.seen = <<>>)
  <2>1. walk.pos = ins_pos /\ walk.pos = (IF k = Max THEN del_pos ELSE Place(k))
        /\ ins_pos = (IF num_elements = Max THEN del_pos ELSE Place(num_elements))
    BY <1>1, <1>7 DEF queue_it_has_next, Walked, IndicesAgree, k
  <2>2. k = num_elements \/ (num_elements = Max /\ k = 0)
    <3>1. CASE k = Max BY <1>2, <1>3, <3>1
    <3>2. CASE k < Max /\ num_elements = Max
      <4>1. k # Max /\ num_elements = Max BY <1>3, <3>2
      <4>2. Place(k) = del_pos BY <2>1, <4>1, Zenon
      <4>. QED BY <1>2, <1>3, <3>2, <4>2 DEF Place, Positions
    <3>3. CASE k < Max /\ num_elements < Max
      <4>1. k # Max /\ num_elements # Max BY <1>2, <1>3, <3>3
      <4>2. Place(k) = Place(num_elements) BY <2>1, <4>1, Zenon
      <4>3. k \in 0 .. Max - 1 /\ num_elements \in 0 .. Max - 1 BY <1>2, <1>3, <3>3
      <4>. QED BY <1>2, <4>2, <4>3, PlacesDistinct
    <3>. QED BY <1>2, <1>3, <3>1, <3>2, <3>3
  <2>3. CASE k = num_elements
    <3>1. Len(walk.seen) = k BY DEF k
    <3>2. contents \in Seq(Elements) /\ Len(contents) = num_elements
      BY <1>4
    <3>4. Len(walk.seen) = Len(contents)
      BY <2>3, <3>1, <3>2
    <3>3. \A i \in 1 .. Len(walk.seen) : walk.seen[i] = contents[i]
      BY <1>5, <3>1
    <3>. QED BY <1>3, <3>2, <3>3, <3>4, SeqEqual
  <2>4. CASE num_elements = Max /\ k = 0
    BY <1>3, <2>4, EmptySeq DEF k, queue_is_full
  <2>. QED BY <2>2, <2>3, <2>4
<1>. QED BY <1>6, <1>7 DEF k

\* An iterator returns the waiting elements in order and stops when it has
\* returned all of them, unless it was used on a full queue (queue.h:144-153).
THEOREM WalksAreComplete == Spec => []WalkComplete
<1>1. Init => WalkInv BY DEF Init, WalkInv
<1>. QED BY <1>1, WalkStep, WalkInvSuffices, IndicesAlwaysAgree, PTL DEF Spec
=============================================================================

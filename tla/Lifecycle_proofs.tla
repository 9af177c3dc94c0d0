-------------------------- MODULE Lifecycle_proofs --------------------------
(***************************************************************************)
(* Theorems about the life of the module and its memory, for every number  *)
(* of files and blocks, every size of the table and of the message.        *)
(***************************************************************************)
EXTENDS Lifecycle, FiniteSetTheorems, WellFoundedInduction, TLAPS

-----------------------------------------------------------------------------
(* The inductive invariant. *)

\* The memory and its table.
MemInv ==
    /\ checked \in BOOLEAN /\ corrupted \in BOOLEAN
    /\ heap = [a \in DOMAIN heap |-> heap[a]]
    /\ DOMAIN heap \subseteq Addresses
    /\ \A a \in DOMAIN heap : heap[a] \in 1 .. BlockSize
    /\ chunks \in [Entries -> [ptr : Addresses \cup {NULL}, size : 0 .. BlockSize]]
    /\ num_chunks \in Int
    /\ TableAgrees
    /\ CheckProtects

Serving == {"register qsup", "register proc", "in"}
Freeing == {"destroy servers", "free servers", "free users", "free rules"}
Phases == Serving \cup Freeing \cup
              {"out", "register qres", "unregister qres", "unregister qsup"}

OpenFiles == {f \in Files : file[f] # None}
OpenOn(d) == {f \in Files : file[f] = d}

\* Files are open only where the module serves them, and a call is made through
\* one of them.
FileInv ==
    /\ phase \in Phases
    /\ file \in [Files -> Devices \cup {None}]
    /\ refs = 2 * Cardinality(OpenFiles)
    /\ Device_Open \in [Devices -> Int]
    /\ \A d \in Devices : Device_Open[d] = Cardinality(OpenOn(d))
    /\ OpenFiles # {} => phase \in Serving
    /\ phase # "out" => inited
    /\ call # NoCall => OpenFiles # {}

\* What removal unregisters stays unregistered.
RegInv ==
    /\ DOMAIN dev = Devices /\ dev = [d \in DOMAIN dev |-> dev[d]]
    /\ phase # "in" => ~proc_entry
    /\ phase \in Freeing \cup {"out", "unregister qsup"} => dev["qres"] = NoDevice
    /\ phase \in Freeing \cup {"out"} => dev["qsup"] = NoDevice

\* The block of the server that a call creates is allocated, and no record.
CallInv ==
    /\ call \in [pc : {"idle", "user", "admit", "group", "free"},
                 ptr : Addresses \cup {NULL}]
    /\ call.pc = "idle" => call = NoCall
    /\ call # NoCall =>
          /\ call.ptr \in DOMAIN heap /\ heap[call.ptr] = Server
          /\ checked => call.ptr \in Tracked

Records == ToSet(qsup_users) \cup ToSet(rules)

\* The records that are allocated are those in the lists, and the table has them.
RecordsInv ==
    /\ \A a \in DOMAIN heap : heap[a] \in {Server, Record}
    /\ {a \in DOMAIN heap : heap[a] = Record} = Records
    /\ checked => Records \subseteq Tracked

Distinct(s) == \A i, j \in 1 .. Len(s) : s[i] = s[j] => i = j

\* Each is in one list, once, and removal empties the lists in turn.
ListInv ==
    /\ qsup_users = <<>> \/ \E a \in Addresses : qsup_users = <<a>>
    /\ rules \in Seq(Addresses)
    /\ Distinct(rules)
    /\ ToSet(qsup_users) \cap ToSet(rules) = {}
    /\ qsup_servers \in Seq({qsup(a) : a \in Addresses})
    /\ phase \in {"free rules", "out"} => qsup_users = <<>>
    /\ phase = "out" => rules = <<>>

\* Until a server is accepted, what is allocated is known and only what was
\* allocated is freed.
AcceptInv ==
    /\ call.pc = "group" => accepted /\ qsup_servers # <<>>
    /\ ~accepted => ~corrupted /\ qsup_servers = <<>>
    /\ NothingLost

MessageType == [text : [0 .. BUF_LEN - 1 -> {0, 1}], ptr : Nat,
                readers : SUBSET Files, full : BOOLEAN, overlap : BOOLEAN]

\* Without a full write the message ends in a zero, and a reader that passed the
\* test stands before it.
MessageInv ==
    /\ Message \in MessageType
    /\ ~Message.full /\ ~Message.overlap =>
          /\ Message.text[BUF_LEN - 1] = 0
          /\ Message.ptr <= BUF_LEN - 1
          /\ Message.readers # {} => Message.ptr < BUF_LEN - 1
          /\ \A f, g \in Message.readers : f = g

LifecycleInv ==
    /\ MemInv /\ FileInv /\ RegInv
    /\ CallInv /\ RecordsInv /\ ListInv /\ AcceptInv
    /\ MessageInv

-----------------------------------------------------------------------------
(* The memory. *)

\* Every nonempty set of naturals has a least element.
LEMMA LeastNat ==
    ASSUME NEW T, T \subseteq Nat, T # {}
    PROVE  \E x \in T : \A y \in T : x <= y
<1> DEFINE R == {ss \in Nat \X Nat : ss[1] < ss[2]}
<1>1. IsWellFoundedOn(R, Nat)
  BY NatLessThanWellFounded DEF OpToRel
<1> HIDE DEF R
<1>2. PICK x \in T : \A y \in T : ~ (<<y, x>> \in R)
  BY <1>1, WFMin
<1>3. \A y \in T : x <= y
  <2> TAKE y \in T
  <2>1. x \in Nat /\ y \in Nat /\ <<y, x>> \in Nat \X Nat
    OBVIOUS
  <2>2. ~ (<<y, x>>[1] < <<y, x>>[2])
    BY <1>2, <2>1 DEF R
  <2> QED
    BY <2>1, <2>2
<1> QED
  BY <1>3

\* An address is a positive number, and what follows it is no address.
LEMMA AddressApart ==
    ASSUME NEW p \in Addresses
    PROVE  /\ p \in Nat /\ p >= BlockSize /\ p # NULL
           /\ p <= NumBlocks * BlockSize
           /\ qsup(p) \in Nat \ (Addresses \cup {NULL})
<1> USE MemoryAssumption, LifecycleAssumption
<1>1. PICK b \in 1 .. NumBlocks : p = b * BlockSize
  BY DEF Addresses
<1>2. \A c \in Nat, d \in Nat : c <= d => c * BlockSize <= d * BlockSize
  OBVIOUS
<1>3. b \in Nat /\ NumBlocks \in Nat /\ 1 \in Nat /\ 1 <= b /\ b <= NumBlocks
  OBVIOUS
<1>4. 1 * BlockSize <= b * BlockSize /\ b * BlockSize <= NumBlocks * BlockSize
  BY <1>2, <1>3
<1>5. p \in Nat /\ BlockSize <= p /\ p <= NumBlocks * BlockSize
  BY <1>1, <1>4
<1>6. ASSUME p + 1 \in Addresses
      PROVE  FALSE
  <2>1. PICK c \in 1 .. NumBlocks : p + 1 = c * BlockSize
    BY <1>6 DEF Addresses
  <2>2. CASE c <= b
    <3>1. c * BlockSize <= b * BlockSize
      BY <1>2, <2>2
    <3> QED
      BY <1>1, <1>5, <2>1, <3>1
  <2>3. CASE b + 1 <= c
    <3>1. (b + 1) * BlockSize <= c * BlockSize
      BY <1>2, <2>3
    <3>2. (b + 1) * BlockSize = b * BlockSize + BlockSize
      OBVIOUS
    <3> QED
      BY <1>1, <1>5, <2>1, <3>1, <3>2
  <2> QED
    BY <2>2, <2>3
<1> QED
  BY <1>5, <1>6 DEF qsup, NULL

\* The search finds an entry with the pointer exactly when there is one.
LEMMA FindChunk ==
    ASSUME NEW p
    PROVE  /\ (\E i \in Entries : chunks[i].ptr = p) =>
                 /\ find_chunk(p) \in Entries
                 /\ chunks[find_chunk(p)].ptr = p
                 /\ find_chunk(p) # MAX_CHUNK_NUMBER
           /\ ~ (\E i \in Entries : chunks[i].ptr = p) =>
                 find_chunk(p) = MAX_CHUNK_NUMBER
<1>1. ASSUME \E i \in Entries : chunks[i].ptr = p
      PROVE  /\ find_chunk(p) \in Entries
             /\ chunks[find_chunk(p)].ptr = p
             /\ find_chunk(p) # MAX_CHUNK_NUMBER
  <2> DEFINE T == {i \in Entries : chunks[i].ptr = p}
  <2>1. T \subseteq Nat /\ T # {}
    BY <1>1, MemoryAssumption DEF Entries
  <2> HIDE DEF T
  <2>2. PICK x \in T : \A y \in T : x <= y
    BY <2>1, LeastNat
  <2>3. x \in Entries /\ chunks[x].ptr = p
    BY DEF T
  <2>4. \A j \in 0 .. x - 1 : chunks[j].ptr # p
    <3> SUFFICES ASSUME NEW j \in 0 .. x - 1, chunks[j].ptr = p
                 PROVE  FALSE
      OBVIOUS
    <3>1. x \in Nat /\ j \in Entries /\ j < x /\ j \in Nat
      BY <2>3, MemoryAssumption DEF Entries
    <3>2. j \in T
      BY <3>1 DEF T
    <3> QED
      BY <2>2, <3>1, <3>2
  <2> DEFINE Q(i) == chunks[i].ptr = p /\ \A j \in 0 .. i - 1 : chunks[j].ptr # p
  <2>5. \E i \in Entries : Q(i)
    BY <2>3, <2>4
  <2>6. find_chunk(p) = CHOOSE i \in Entries : Q(i)
    BY <1>1 DEF find_chunk
  <2>7. find_chunk(p) \in Entries /\ Q(find_chunk(p))
    BY <2>5, <2>6
  <2> QED
    BY <2>7, MemoryAssumption DEF Entries
<1>2. ASSUME ~ (\E i \in Entries : chunks[i].ptr = p)
      PROVE  find_chunk(p) = MAX_CHUNK_NUMBER
  BY <1>2 DEF find_chunk
<1> QED
  BY <1>1, <1>2

\* While the count is below the size of the table, an entry is free.
LEMMA FreeEntryFound ==
    ASSUME TableAgrees, checked, num_chunks < MAX_CHUNK_NUMBER
    PROVE  /\ find_chunk(NULL) \in Entries
           /\ chunks[find_chunk(NULL)].ptr = NULL
<1>1. Cardinality(Entries) = MAX_CHUNK_NUMBER
  BY FS_Interval, MemoryAssumption DEF Entries
<1>2. Used # Entries
  BY <1>1, MemoryAssumption DEF TableAgrees
<1>3. \E i \in Entries : chunks[i].ptr = NULL
  BY <1>2 DEF Used
<1> QED
  BY <1>3, FindChunk

LEMMA UsedFinite ==
    /\ IsFiniteSet(Used) /\ Used \subseteq Entries
    /\ Cardinality(Used) \in Nat
<1>1. IsFiniteSet(Entries)
  BY FS_Interval, MemoryAssumption DEF Entries
<1>2. Used \subseteq Entries
  BY DEF Used
<1> QED
  BY <1>1, <1>2, FS_Subset, FS_CardinalityType

\* What an allocation does: nothing but note that the table is full, or a block
\* more, which the table knows.
LEMMA MallocEffect ==
    ASSUME MemInv, NEW size \in 1 .. BlockSize, NEW p, qos_malloc(size, p)
    PROVE  /\ MemInv'
           /\ UNCHANGED <<checked, corrupted>>
           /\ \/ p = NULL /\ UNCHANGED <<heap, Tracked>>
              \/ /\ p \in Addresses \ DOMAIN heap
                 /\ heap' = [a \in DOMAIN heap \cup {p} |-> IF a = p THEN size ELSE heap[a]]
                 /\ checked => Tracked' = Tracked \cup {p}
<1> USE MemoryAssumption, LifecycleAssumption
<1>1. CASE p = NULL /\ UNCHANGED <<checked, corrupted, heap, chunks, num_chunks>>
  <2>1. Used' = Used /\ Tracked' = Tracked
    BY <1>1 DEF Used, Tracked
  <2>2. TableAgrees' /\ CheckProtects'
    BY <1>1, <2>1 DEF MemInv, TableAgrees, CheckProtects
  <2> QED
    BY <1>1, <2>1, <2>2 DEF MemInv
<1>2. CASE /\ p \in Addresses \ DOMAIN heap
           /\ checked => num_chunks < MAX_CHUNK_NUMBER
           /\ heap' = [a \in DOMAIN heap \cup {p} |-> IF a = p THEN size ELSE heap[a]]
           /\ IF checked THEN add_chunk(p, size) ELSE UNCHANGED <<chunks, num_chunks>>
           /\ UNCHANGED <<checked, mem_failure, corrupted>>
  <2>1. /\ heap' = [a \in DOMAIN heap' |-> heap'[a]]
        /\ DOMAIN heap' = DOMAIN heap \cup {p}
        /\ DOMAIN heap' \subseteq Addresses
        /\ \A a \in DOMAIN heap' : heap'[a] \in 1 .. BlockSize
        /\ \A a \in DOMAIN heap : heap'[a] = heap[a]
        /\ heap'[p] = size
    BY <1>2 DEF MemInv
  <2>2. CASE ~checked
    <3>1. UNCHANGED <<chunks, num_chunks>> /\ ~checked'
      BY <1>2, <2>2
    <3>2. TableAgrees' /\ CheckProtects'
      BY <3>1 DEF TableAgrees, CheckProtects
    <3> QED
      BY <1>2, <2>1, <2>2, <3>1, <3>2 DEF MemInv
  <2>3. CASE checked
    <3> DEFINE e == find_chunk(NULL)
    <3>1. e \in Entries /\ chunks[e].ptr = NULL
      BY <1>2, <2>3, FreeEntryFound DEF MemInv
    <3>2. p # NULL
      BY <1>2, AddressApart
    <3>3. /\ chunks' = [chunks EXCEPT ![e] = [ptr |-> p, size |-> size]]
          /\ num_chunks' = num_chunks + 1
      BY <1>2, <2>3 DEF add_chunk
    <3> HIDE DEF e
    <3>4. /\ chunks' \in [Entries -> [ptr : Addresses \cup {NULL}, size : 0 .. BlockSize]]
          /\ chunks'[e] = [ptr |-> p, size |-> size]
          /\ \A i \in Entries : i # e => chunks'[i] = chunks[i]
      BY <1>2, <3>1, <3>3 DEF MemInv
    <3>5. Used' = Used \cup {e} /\ e \notin Used
      <4>1. \A i \in Entries : i \in Used' <=> chunks'[i].ptr # NULL
        BY DEF Used, Entries, NULL
      <4>2. chunks'[e].ptr = p
        BY <3>4
      <4> QED
        BY <3>1, <3>2, <3>4, <4>1, <4>2 DEF Used, Entries
    <3>6. Tracked' = Tracked \cup {p}
      <4>1. Tracked' = {chunks'[i].ptr : i \in Used'}
        BY DEF Tracked
      <4>2. chunks'[e].ptr = p /\ \A i \in Used : chunks'[i].ptr = chunks[i].ptr
        BY <3>4, <3>5, UsedFinite
      <4> QED
        BY <3>5, <4>1, <4>2 DEF Tracked
    <3>7. num_chunks' = Cardinality(Used')
      <4>1. Cardinality(Used \cup {e}) = Cardinality(Used) + 1
        BY <3>5, UsedFinite, FS_AddElement
      <4> QED
        BY <2>3, <3>3, <3>5, <4>1 DEF MemInv, TableAgrees
    <3>8. \A i \in Used : /\ chunks'[i] = chunks[i] /\ chunks[i].ptr # p
                          /\ chunks[i].ptr \in DOMAIN heap
                          /\ chunks[i].size = heap[chunks[i].ptr]
      BY <1>2, <2>3, <3>4, <3>5, UsedFinite DEF MemInv, TableAgrees
    <3>9. \A i, j \in Used' : chunks'[i].ptr = chunks'[j].ptr => i = j
      BY <2>3, <3>4, <3>5, <3>8 DEF MemInv, TableAgrees
    <3>10. \A i \in Used' : /\ chunks'[i].ptr \in DOMAIN heap'
                            /\ chunks'[i].size = heap'[chunks'[i].ptr]
      BY <2>1, <3>4, <3>5, <3>8
    <3>11. TableAgrees' /\ CheckProtects'
      BY <1>2, <2>3, <3>7, <3>9, <3>10 DEF MemInv, TableAgrees, CheckProtects
    <3>12. num_chunks' \in Int
      BY <3>3 DEF MemInv
    <3> QED
      BY <1>2, <2>1, <3>4, <3>6, <3>11, <3>12 DEF MemInv
  <2> QED
    BY <2>2, <2>3 DEF MemInv
<1> QED
  BY <1>1, <1>2 DEF qos_malloc, memory, table

\* A block that is allocated, and known to the table when there is one, is given
\* back; what is no block changes nothing but that it may do damage.
LEMMA FreeEffect ==
    ASSUME MemInv, NEW ptr, qos_free(ptr)
    PROVE  /\ MemInv'
           /\ UNCHANGED checked
           /\ ptr \in DOMAIN heap /\ (checked => ptr \in Tracked) =>
                 /\ heap' = [a \in DOMAIN heap \ {ptr} |-> heap[a]]
                 /\ checked => Tracked' = Tracked \ {ptr}
                 /\ UNCHANGED corrupted
           /\ ptr \notin DOMAIN heap =>
                 /\ UNCHANGED heap
                 /\ checked => UNCHANGED Tracked
<1> USE MemoryAssumption, LifecycleAssumption
<1>1. DOMAIN heap \subseteq Addresses /\ NULL \notin DOMAIN heap
  BY AddressApart DEF MemInv
<1>2. checked => Tracked \subseteq DOMAIN heap
  BY DEF Tracked, MemInv, TableAgrees
<1>3. CASE /\ ptr = NULL \/ (checked /\ find_chunk(ptr) = MAX_CHUNK_NUMBER)
           /\ UNCHANGED memory
  <2>1. UNCHANGED <<checked, corrupted, heap, chunks, num_chunks>>
    BY <1>3 DEF memory, table
  <2>2. Used' = Used /\ Tracked' = Tracked
    BY <2>1 DEF Used, Tracked
  <2>3. TableAgrees' /\ CheckProtects'
    BY <2>1, <2>2 DEF MemInv, TableAgrees, CheckProtects
  <2>4. ~ (ptr \in DOMAIN heap /\ (checked => ptr \in Tracked))
    <3> SUFFICES ASSUME ptr \in DOMAIN heap, checked => ptr \in Tracked
                 PROVE  FALSE
      OBVIOUS
    <3>1. checked /\ find_chunk(ptr) = MAX_CHUNK_NUMBER
      BY <1>1, <1>3
    <3>2. \E i \in Entries : chunks[i].ptr = ptr
      BY <3>1 DEF Tracked, Used
    <3> QED
      BY <3>1, <3>2, FindChunk
  <2> QED
    BY <2>1, <2>2, <2>3, <2>4 DEF MemInv
<1>4. CASE /\ ptr # NULL
           /\ checked => find_chunk(ptr) # MAX_CHUNK_NUMBER
           /\ qos_ll_free(ptr)
           /\ IF checked THEN rem_chunk(ptr) ELSE UNCHANGED <<chunks, num_chunks>>
           /\ UNCHANGED <<checked, mem_failure>>
  <2>1. /\ heap' = [a \in DOMAIN heap \ {ptr} |-> heap[a]]
        /\ corrupted' = (corrupted \/ ptr \notin DOMAIN heap)
    BY <1>4 DEF qos_ll_free
  <2>2. /\ heap' = [a \in DOMAIN heap' |-> heap'[a]]
        /\ DOMAIN heap' = DOMAIN heap \ {ptr}
        /\ DOMAIN heap' \subseteq Addresses
        /\ \A a \in DOMAIN heap' : heap'[a] \in 1 .. BlockSize /\ heap'[a] = heap[a]
    BY <2>1 DEF MemInv
  <2>3. ptr \notin DOMAIN heap => UNCHANGED heap
    <3> SUFFICES ASSUME ptr \notin DOMAIN heap
                 PROVE  UNCHANGED heap
      OBVIOUS
    <3>1. DOMAIN heap \ {ptr} = DOMAIN heap
      OBVIOUS
    <3>2. heap' = [a \in DOMAIN heap |-> heap[a]]
      BY <2>1, <3>1
    <3> QED
      BY <3>2 DEF MemInv
  <2>4. corrupted' \in BOOLEAN /\ (ptr \in DOMAIN heap => corrupted' = corrupted)
    BY <2>1 DEF MemInv
  <2>5. CASE ~checked
    <3>1. UNCHANGED <<chunks, num_chunks>> /\ ~checked'
      BY <1>4, <2>5
    <3>2. TableAgrees' /\ CheckProtects'
      BY <3>1 DEF TableAgrees, CheckProtects
    <3> QED
      BY <1>4, <2>1, <2>2, <2>3, <2>4, <2>5, <3>1, <3>2 DEF MemInv
  <2>6. CASE checked
    <3> DEFINE e == find_chunk(ptr)
    <3>1. \E i \in Entries : chunks[i].ptr = ptr
      BY <1>4, <2>6, FindChunk
    <3>2. e \in Entries /\ chunks[e].ptr = ptr
      BY <3>1, FindChunk
    <3>3. /\ chunks' = [chunks EXCEPT ![e].ptr = NULL]
          /\ num_chunks' = num_chunks - 1
      BY <1>4, <2>6 DEF rem_chunk
    <3> HIDE DEF e
    <3>4. /\ chunks' \in [Entries -> [ptr : Addresses \cup {NULL}, size : 0 .. BlockSize]]
          /\ chunks'[e].ptr = NULL
          /\ \A i \in Entries : i # e => chunks'[i] = chunks[i]
      BY <3>2, <3>3 DEF MemInv
    <3>5. Used' = Used \ {e} /\ e \in Used
      <4>1. \A i \in Entries : i \in Used' <=> chunks'[i].ptr # NULL
        BY DEF Used, Entries, NULL
      <4>2. e \in Used
        BY <1>4, <3>2 DEF Used
      <4> QED
        BY <3>2, <3>4, <4>1, <4>2 DEF Used, Entries
    <3>6. \A i \in Used : /\ i \in Entries
                          /\ chunks[i].ptr \in DOMAIN heap
                          /\ chunks[i].size = heap[chunks[i].ptr]
                          /\ chunks[i].ptr = ptr => i = e
      BY <2>6, <3>2, <3>5, UsedFinite DEF MemInv, TableAgrees
    <3>7. \A i \in Used' : /\ i \in Used /\ i # e
                           /\ chunks'[i] = chunks[i] /\ chunks[i].ptr # ptr
      BY <3>4, <3>5, <3>6
    <3>8. Tracked' = Tracked \ {ptr}
      <4>1. Tracked' = {chunks'[i].ptr : i \in Used'}
        BY DEF Tracked
      <4>2. \A i \in Used : i \in Used' \/ chunks[i].ptr = ptr
        BY <3>2, <3>5
      <4> QED
        BY <3>7, <4>1, <4>2 DEF Tracked
    <3>9. num_chunks' = Cardinality(Used') /\ num_chunks' \in Int
      <4>1. Cardinality(Used \ {e}) = Cardinality(Used) - 1
        BY <3>5, UsedFinite, FS_RemoveElement
      <4> QED
        BY <2>6, <3>3, <3>5, <4>1 DEF MemInv, TableAgrees
    <3>10. \A i, j \in Used' : chunks'[i].ptr = chunks'[j].ptr => i = j
      BY <2>6, <3>7 DEF MemInv, TableAgrees
    <3>11. \A i \in Used' : /\ chunks'[i].ptr \in DOMAIN heap'
                            /\ chunks'[i].size = heap'[chunks'[i].ptr]
      BY <2>2, <3>6, <3>7
    <3>12. ptr \in DOMAIN heap /\ ptr \in Tracked
      BY <3>2, <3>5, <3>6 DEF Tracked
    <3>13. TableAgrees' /\ CheckProtects'
      BY <1>4, <2>4, <2>6, <3>9, <3>10, <3>11, <3>12 DEF MemInv, TableAgrees, CheckProtects
    <3> QED
      BY <1>4, <2>1, <2>2, <2>4, <3>4, <3>8, <3>9, <3>12, <3>13 DEF MemInv
  <2> QED
    BY <2>5, <2>6 DEF MemInv
<1> QED
  BY <1>3, <1>4 DEF qos_free

\* What is found valid beyond the first page is inside an entry in use.
LEMMA ValidWithin ==
    ASSUME MemInv
    PROVE  MemorySound
<1> USE MemoryAssumption, LifecycleAssumption
<1>1. ValidIsAllocated
  <2> SUFFICES ASSUME checked,
                      NEW p \in BlockSize .. (NumBlocks + 1) * BlockSize,
                      qos_mem_valid(p)
               PROVE  \E a \in DOMAIN heap : p \in a .. a + heap[a] - 1
    BY DEF ValidIsAllocated
  <2>1. PICK i \in Entries : p >= chunks[i].ptr /\ p < chunks[i].ptr + chunks[i].size
    BY DEF qos_mem_valid
  <2>2. chunks[i].ptr \in Addresses \cup {NULL} /\ chunks[i].size \in 0 .. BlockSize
    BY DEF MemInv
  <2>3. p \in Int /\ p >= BlockSize
    OBVIOUS
  <2>4. chunks[i].ptr # NULL
    BY <2>1, <2>2, <2>3 DEF NULL
  <2>5. i \in Used /\ chunks[i].ptr \in Nat
    BY <2>2, <2>4, AddressApart DEF Used
  <2>6. chunks[i].ptr \in DOMAIN heap /\ chunks[i].size = heap[chunks[i].ptr]
    BY <2>5 DEF MemInv, TableAgrees
  <2> DEFINE a == chunks[i].ptr
  <2>7. p \in a .. a + heap[a] - 1
    <3> HIDE DEF a
    <3>1. a \in Nat /\ heap[a] \in 0 .. BlockSize /\ p >= a /\ p < a + heap[a]
      BY <2>1, <2>2, <2>5, <2>6 DEF a
    <3> QED
      BY <2>3, <3>1
  <2> QED
    BY <2>6, <2>7
<1> QED
  BY <1>1 DEF MemInv, MemorySound

-----------------------------------------------------------------------------
(* The files. *)

\* Whatever leaves the files alone keeps their invariant if it leaves a phase
\* that serves only when none is open.
LEMMA FilesKept ==
    ASSUME FileInv, UNCHANGED opened, phase' \in Phases,
           OpenFiles # {} => phase' \in Serving,
           phase' # "out" => inited',
           call' # NoCall => OpenFiles # {}
    PROVE  FileInv'
<1>1. UNCHANGED <<file, refs, Device_Open>>
  BY DEF opened
<1>2. OpenFiles' = OpenFiles /\ \A d \in Devices : OpenOn(d)' = OpenOn(d)
  BY <1>1 DEF OpenFiles, OpenOn
<1> QED
  BY <1>1, <1>2 DEF FileInv

LEMMA OpenFinite ==
    /\ IsFiniteSet(OpenFiles) /\ Cardinality(OpenFiles) \in Nat
    /\ \A d : IsFiniteSet(OpenOn(d)) /\ Cardinality(OpenOn(d)) \in Nat
<1>1. \A S : S \subseteq Files => IsFiniteSet(S) /\ Cardinality(S) \in Nat
  BY LifecycleAssumption, FS_Subset, FS_CardinalityType
<1> QED
  BY <1>1 DEF OpenFiles, OpenOn

\* A file more.
LEMMA OpenKeeps ==
    ASSUME FileInv, NEW f \in Files, NEW d \in Devices, Open(f, d)
    PROVE  FileInv'
<1> USE LifecycleAssumption
<1>1. /\ phase \in Serving /\ file[f] = None
      /\ file' = [file EXCEPT ![f] = d]
      /\ Device_Open' = [Device_Open EXCEPT ![d] = @ + 1]
      /\ refs' = refs + 2
      /\ UNCHANGED <<phase, inited, call>>
  BY DEF Open, Serving
<1>2. /\ file' \in [Files -> Devices \cup {None}]
      /\ file'[f] = d /\ \A g \in Files : g # f => file'[g] = file[g]
  BY <1>1 DEF FileInv
<1>3. f \notin OpenFiles /\ OpenFiles' = OpenFiles \cup {f}
  BY <1>1, <1>2 DEF OpenFiles
<1>4. f \notin OpenOn(d) /\ OpenOn(d)' = OpenOn(d) \cup {f}
  BY <1>1, <1>2 DEF OpenOn
<1>5. \A c \in Devices : c # d => OpenOn(c)' = OpenOn(c)
  BY <1>1, <1>2 DEF OpenOn
<1>6. refs' = 2 * Cardinality(OpenFiles')
  <2>1. Cardinality(OpenFiles \cup {f}) = Cardinality(OpenFiles) + 1
    BY <1>3, OpenFinite, FS_AddElement
  <2>2. refs = 2 * Cardinality(OpenFiles) /\ Cardinality(OpenFiles) \in Nat
    BY OpenFinite DEF FileInv
  <2> QED
    BY <1>1, <1>3, <2>1, <2>2
<1>7. /\ Device_Open' \in [Devices -> Int]
      /\ \A c \in Devices : Device_Open'[c] = Cardinality(OpenOn(c)')
  <2>1. Cardinality(OpenOn(d) \cup {f}) = Cardinality(OpenOn(d)) + 1
    BY <1>4, OpenFinite, FS_AddElement
  <2>2. /\ Device_Open' \in [Devices -> Int]
        /\ Device_Open'[d] = Device_Open[d] + 1
        /\ \A c \in Devices : c # d => Device_Open'[c] = Device_Open[c]
    BY <1>1 DEF FileInv
  <2>3. Device_Open'[d] = Cardinality(OpenOn(d)')
    BY <1>4, <2>1, <2>2 DEF FileInv
  <2>4. \A c \in Devices : c # d => Device_Open'[c] = Cardinality(OpenOn(c)')
    BY <1>5, <2>2 DEF FileInv
  <2> QED
    BY <2>2, <2>3, <2>4
<1> QED
  BY <1>1, <1>2, <1>3, <1>6, <1>7 DEF FileInv, OpenOn

\* A file less.
LEMMA ReleaseKeeps ==
    ASSUME FileInv, NEW f \in Files, NEW d \in Devices, Release(f, d, 2)
    PROVE  FileInv'
<1> USE LifecycleAssumption
<1>1. /\ file[f] = d /\ call = NoCall
      /\ file' = [file EXCEPT ![f] = None]
      /\ Device_Open' = [Device_Open EXCEPT ![d] = @ - 1]
      /\ refs' = refs - 2
      /\ UNCHANGED <<phase, inited, call>>
  BY DEF Release
<1>2. /\ file' \in [Files -> Devices \cup {None}]
      /\ file'[f] = None /\ \A g \in Files : g # f => file'[g] = file[g]
  BY <1>1 DEF FileInv
<1>3. f \in OpenFiles /\ OpenFiles' = OpenFiles \ {f}
  BY <1>1, <1>2 DEF OpenFiles
<1>4. f \in OpenOn(d) /\ OpenOn(d)' = OpenOn(d) \ {f}
  BY <1>1, <1>2 DEF OpenOn
<1>5. \A c \in Devices : c # d => OpenOn(c)' = OpenOn(c)
  BY <1>1, <1>2 DEF OpenOn
<1>6. refs' = 2 * Cardinality(OpenFiles')
  <2>1. Cardinality(OpenFiles \ {f}) = Cardinality(OpenFiles) - 1
    BY <1>3, OpenFinite, FS_RemoveElement
  <2>2. refs = 2 * Cardinality(OpenFiles) /\ Cardinality(OpenFiles) \in Nat
    BY OpenFinite DEF FileInv
  <2> QED
    BY <1>1, <1>3, <2>1, <2>2
<1>7. /\ Device_Open' \in [Devices -> Int]
      /\ \A c \in Devices : Device_Open'[c] = Cardinality(OpenOn(c)')
  <2>1. Cardinality(OpenOn(d) \ {f}) = Cardinality(OpenOn(d)) - 1
    BY <1>4, OpenFinite, FS_RemoveElement
  <2>2. /\ Device_Open' \in [Devices -> Int]
        /\ Device_Open'[d] = Device_Open[d] - 1
        /\ \A c \in Devices : c # d => Device_Open'[c] = Device_Open[c]
    BY <1>1 DEF FileInv
  <2>3. Device_Open'[d] = Cardinality(OpenOn(d)')
    BY <1>4, <2>1, <2>2 DEF FileInv
  <2>4. \A c \in Devices : c # d => Device_Open'[c] = Cardinality(OpenOn(c)')
    BY <1>5, <2>2 DEF FileInv
  <2> QED
    BY <2>2, <2>3, <2>4
<1> QED
  BY <1>1, <1>2, <1>3, <1>6, <1>7 DEF FileInv, OpenOn

\* The module is held as long as a file is open.
LEMMA NoneOpen ==
    ASSUME FileInv, refs = 0
    PROVE  OpenFiles = {}
<1>1. Cardinality(OpenFiles) = 0
  BY OpenFinite DEF FileInv
<1> QED
  BY <1>1, OpenFinite, FS_EmptySet

\* Outside a call, and inside one, a file is open where the code needs it to be.
LEMMA CallHasFile ==
    ASSUME FileInv
    PROVE  /\ call.pc # "idle" => OpenFiles # {}
           /\ \A f \in Files : file[f] \in Devices => OpenFiles # {}
           /\ OpenFiles # {} => phase \in Serving
<1>1. call.pc # "idle" => call # NoCall
  BY DEF NoCall
<1> QED
  BY <1>1, LifecycleAssumption DEF FileInv, OpenFiles

LEMMA FileNext ==
    ASSUME FileInv, Next
    PROVE  FileInv'
<1> USE DEF Phases, Serving, Freeing
<1>1. CASE Insertion
  <2>1. CASE InitParts
    BY <2>1, FilesKept, CallHasFile DEF InitParts, Insert, FileInv
  <2>2. CASE qres_dev_register
    BY <2>2, FilesKept DEF qres_dev_register, Register, FileInv
  <2>3. CASE qsup_dev_register
    BY <2>3, FilesKept DEF qsup_dev_register, Register, FileInv
  <2>4. CASE qres_proc_register
    BY <2>4, FilesKept DEF qres_proc_register, FileInv
  <2> QED
    BY <1>1, <2>1, <2>2, <2>3, <2>4 DEF Insertion
<1>2. CASE qres_proc_unregister
  BY <1>2, NoneOpen, FilesKept DEF qres_proc_unregister, FileInv
<1>3. CASE Removal
  <2>1. CASE qres_dev_unregister
    BY <1>3, <2>1, FilesKept DEF qres_dev_unregister, Unregister, FileInv
  <2>2. CASE qsup_dev_unregister
    BY <1>3, <2>2, FilesKept DEF qsup_dev_unregister, Unregister, FileInv
  <2>3. CASE qres_cleanup
    BY <1>3, <2>3, FilesKept DEF qres_cleanup, FileInv
  <2>4. CASE cleanup_servers
    BY <1>3, <2>4, FilesKept DEF cleanup_servers, FreeAll, FileInv
  <2>5. CASE cleanup_users
    BY <1>3, <2>5, FilesKept DEF cleanup_users, FreeAll, FileInv
  <2>6. CASE cleanup_rules
    BY <1>3, <2>6, FilesKept DEF cleanup_rules, FreeAll, FileInv
  <2> QED
    BY <1>3, <2>1, <2>2, <2>3, <2>4, <2>5, <2>6 DEF Removal
<1>4. CASE Call
  <2>1. call.pc # "idle" /\ UNCHANGED <<opened, phase, inited>>
    BY <1>4 DEF Call, Calling, get_user_info, qsup_init_server, create_group, free_refused
  <2> QED
    BY <2>1, FilesKept, CallHasFile DEF FileInv
<1>5. CASE \E f \in Files : Process(f)
  <2>1. PICK f \in Files : Process(f)
    BY <1>5
  <2>2. CASE device_open(f)
    BY <2>2, OpenKeeps DEF device_open, Devices
  <2>3. CASE qsup_device_open(f)
    BY <2>3, OpenKeeps DEF qsup_device_open, Devices
  <2>4. CASE device_release(f)
    BY <2>4, ReleaseKeeps DEF device_release, Devices
  <2>5. CASE qsup_device_release(f)
    BY <2>5, ReleaseKeeps DEF qsup_device_release, Devices
  <2>6. CASE \/ \E text \in Texts : device_write(f, text)
             \/ read_test(f) \/ read_take(f)
    BY <2>6, FilesKept DEF device_write, read_test, read_take, UseMessage, FileInv
  <2>7. CASE create_server(f) \/ ioctl_destroy_server(f) \/ add_rule(f) \/ get_avail_gua_bw(f)
    <3>1. file[f] \in Devices /\ UNCHANGED <<opened, phase, inited>>
      BY <2>7 DEF create_server, ioctl_destroy_server, add_rule, get_avail_gua_bw, Calling,
                  Devices
    <3> QED
      BY <3>1, FilesKept, CallHasFile DEF FileInv
  <2> QED
    BY <2>1, <2>2, <2>3, <2>4, <2>5, <2>6, <2>7 DEF Process
<1> QED
  BY <1>1, <1>2, <1>3, <1>4, <1>5 DEF Next

-----------------------------------------------------------------------------
(* The registrations. *)

LEMMA RegNext ==
    ASSUME FileInv, RegInv, Next
    PROVE  RegInv'
<1> USE DEF Phases, Serving, Freeing
<1>1. CASE Insertion
  <2>1. CASE InitParts
    BY <2>1 DEF InitParts, Insert, RegInv, registered
  <2>2. ASSUME NEW d \in Devices, NEW next, Register(d, next),
               next \in {"register qsup", "register proc"}, phase # "in"
        PROVE  RegInv'
    BY <2>2 DEF Register, Registered, RegInv
  <2>3. CASE qres_proc_register
    BY <2>3 DEF qres_proc_register, RegInv
  <2> QED
    BY <1>1, <2>1, <2>2, <2>3
       DEF Insertion, qres_dev_register, qsup_dev_register, Devices
<1>2. CASE qres_proc_unregister
  BY <1>2 DEF qres_proc_unregister, RegInv
<1>3. CASE Removal
  <2>1. CASE qres_dev_unregister
    BY <2>1 DEF qres_dev_unregister, Unregister, RegInv, Devices, NoDevice
  <2>2. CASE qsup_dev_unregister
    BY <2>2 DEF qsup_dev_unregister, Unregister, RegInv, Devices, NoDevice
  <2>3. CASE qres_cleanup
    BY <2>3 DEF qres_cleanup, RegInv, registered
  <2>4. CASE cleanup_servers
    BY <2>4 DEF cleanup_servers, FreeAll, RegInv, registered
  <2>5. CASE cleanup_users
    BY <2>5 DEF cleanup_users, FreeAll, RegInv, registered
  <2>6. CASE cleanup_rules
    BY <2>6 DEF cleanup_rules, FreeAll, RegInv, registered
  <2> QED
    BY <1>3, <2>1, <2>2, <2>3, <2>4, <2>5, <2>6 DEF Removal
<1>4. CASE Call
  <2>1. UNCHANGED <<registered, phase>>
    BY <1>4 DEF Call, Calling, get_user_info, qsup_init_server, create_group, free_refused
  <2> QED
    BY <2>1 DEF registered, RegInv
<1>5. ASSUME NEW f \in Files, Process(f)
      PROVE  RegInv'
  <2>1. UNCHANGED <<registered, phase>>
    BY <1>5 DEF Process, device_open, qsup_device_open, Open, device_release,
                qsup_device_release, Release, device_write, read_test, read_take, UseMessage,
                create_server, ioctl_destroy_server, add_rule, get_avail_gua_bw, Calling
  <2> QED
    BY <2>1 DEF registered, RegInv
<1> QED
  BY <1>1, <1>2, <1>3, <1>4, <1>5 DEF Next

-----------------------------------------------------------------------------
(* Steps and the memory. *)

\* A fresh table knows no block.
LEMMA FreshMemory ==
    ASSUME MemInv, FreshTable_next, UNCHANGED <<checked, heap, corrupted>>
    PROVE  MemInv'
<1>1. /\ chunks' = [i \in Entries |-> FreeEntry] /\ num_chunks' = 0
      /\ UNCHANGED <<checked, heap, corrupted>>
  BY DEF FreshTable_next
<1>2. Used' = {}
  BY <1>1 DEF Used, FreeEntry
<1>3. TableAgrees' /\ CheckProtects'
  BY <1>1, <1>2, FS_EmptySet DEF TableAgrees, CheckProtects, MemInv
<1>4. FreeEntry \in [ptr : Addresses \cup {NULL}, size : 0 .. BlockSize]
  BY MemoryAssumption DEF FreeEntry
<1> QED
  BY <1>1, <1>3, <1>4 DEF MemInv

LEMMA MemoryKept ==
    ASSUME UNCHANGED memory
    PROVE  /\ UNCHANGED <<checked, heap, chunks, num_chunks, corrupted, Tracked>>
           /\ MemInv => MemInv'
<1>1. UNCHANGED <<checked, heap, chunks, num_chunks, corrupted>>
  BY DEF memory, table
<1>2. Used' = Used /\ Tracked' = Tracked
  BY <1>1 DEF Used, Tracked
<1>3. TableAgrees' = TableAgrees /\ CheckProtects' = CheckProtects
  BY <1>1, <1>2 DEF TableAgrees, CheckProtects
<1> QED
  BY <1>1, <1>2, <1>3 DEF MemInv

LEMMA MemNext ==
    ASSUME MemInv, Next
    PROVE  MemInv'
<1> USE SizesFit
<1>1. CASE Insertion
  <2>1. CASE InitParts
    BY <2>1, FreshMemory DEF InitParts, Insert
  <2>2. CASE UNCHANGED memory
    BY <2>2, MemoryKept
  <2> QED
    BY <1>1, <2>1, <2>2
       DEF Insertion, qres_dev_register, qsup_dev_register, Register, qres_proc_register
<1>2. CASE qres_proc_unregister
  BY <1>2, MemoryKept DEF qres_proc_unregister
<1>3. CASE Removal
  <2>1. CASE UNCHANGED memory
    BY <2>1, MemoryKept
  <2>2. CASE \E p : qos_free(p)
    BY <2>2, FreeEffect
  <2> QED
    BY <1>3, <2>1, <2>2
       DEF Removal, qres_dev_unregister, qsup_dev_unregister, Unregister, qres_cleanup,
           cleanup_servers, cleanup_users, cleanup_rules, FreeAll
<1>4. CASE Call
  <2>1. CASE UNCHANGED memory
    BY <2>1, MemoryKept
  <2>2. CASE \E p : qos_malloc(Record, p)
    BY <2>2, MallocEffect DEF Record
  <2>3. CASE qos_free(call.ptr)
    BY <2>3, FreeEffect
  <2> QED
    BY <1>4, <2>1, <2>2, <2>3
       DEF Call, get_user_info, qsup_init_server, create_group, free_refused
<1>5. ASSUME NEW f \in Files, Process(f)
      PROVE  MemInv'
  <2>1. CASE UNCHANGED memory
    BY <2>1, MemoryKept
  <2>2. CASE \E p, size : size \in {Server, Record} /\ qos_malloc(size, p)
    BY <2>2, MallocEffect
  <2>3. UNCHANGED memory \/ \E p, size : size \in {Server, Record} /\ qos_malloc(size, p)
    <3>1. CASE create_server(f)
      BY <3>1 DEF create_server
    <3>2. CASE add_rule(f) \/ get_avail_gua_bw(f)
      BY <3>2 DEF add_rule, get_avail_gua_bw
    <3> QED
      BY <1>5, <3>1, <3>2
         DEF Process, device_open, qsup_device_open, Open, device_release,
             qsup_device_release, Release, device_write, read_test, read_take, UseMessage,
             ioctl_destroy_server
  <2> QED
    BY <2>1, <2>2, <2>3
<1> QED
  BY <1>1, <1>2, <1>3, <1>4, <1>5 DEF Next

-----------------------------------------------------------------------------
(* The lists. *)

LEMMA OneMore ==
    ASSUME NEW S, NEW s \in Seq(S), NEW a \in S
    PROVE  /\ <<a>> \o s \in Seq(S)
           /\ ToSet(<<a>> \o s) = {a} \cup ToSet(s)
           /\ a \notin ToSet(s) /\ Distinct(s) => Distinct(<<a>> \o s)
<1> DEFINE t == <<a>> \o s
<1>1. /\ t \in Seq(S) /\ Len(t) = Len(s) + 1 /\ Len(s) \in Nat
      /\ t[1] = a /\ \A i \in 1 .. Len(s) : t[i + 1] = s[i]
  OBVIOUS
<1> HIDE DEF t
<1>2. ToSet(t) = {t[i] : i \in 1 .. Len(t)} /\ ToSet(s) = {s[i] : i \in 1 .. Len(s)}
  BY <1>1 DEF ToSet
<1>3. \A i \in 1 .. Len(t) : i = 1 \/ (i - 1 \in 1 .. Len(s) /\ t[i] = s[i - 1])
  <2> TAKE i \in 1 .. Len(t)
  <2>1. i # 1 => i - 1 \in 1 .. Len(s) /\ (i - 1) + 1 = i
    BY <1>1
  <2> QED
    BY <1>1, <2>1
<1>4. ToSet(t) = {a} \cup ToSet(s)
  <2>1. ToSet(t) \subseteq {a} \cup ToSet(s)
    <3>1. \A i \in 1 .. Len(t) : t[i] = a \/ t[i] \in ToSet(s)
      <4> TAKE i \in 1 .. Len(t)
      <4>1. CASE i = 1
        BY <1>1, <4>1
      <4>2. CASE i - 1 \in 1 .. Len(s) /\ t[i] = s[i - 1]
        BY <1>2, <4>2
      <4> QED
        BY <1>3, <4>1, <4>2
    <3> QED
      BY <1>2, <3>1
  <2>2. \A i \in 1 .. Len(s) : i + 1 \in 1 .. Len(t)
    BY <1>1
  <2>3. 1 \in 1 .. Len(t)
    BY <1>1
  <2> QED
    BY <1>1, <1>2, <2>1, <2>2, <2>3
<1>5. ASSUME a \notin ToSet(s), Distinct(s),
             NEW i \in 1 .. Len(t), NEW j \in 1 .. Len(t), t[i] = t[j]
      PROVE  i = j
  <2>1. CASE i = 1 \/ j = 1
    <3>1. \A k \in 1 .. Len(t) : t[k] = a => k = 1
      <4> SUFFICES ASSUME NEW k \in 1 .. Len(t), t[k] = a, k # 1
                   PROVE  FALSE
        OBVIOUS
      <4>1. k - 1 \in 1 .. Len(s) /\ s[k - 1] = a
        BY <1>3
      <4> QED
        BY <1>2, <1>5, <4>1
    <3> QED
      BY <1>1, <1>5, <2>1, <3>1
  <2>2. CASE i # 1 /\ j # 1
    <3>1. i - 1 = j - 1
      BY <1>3, <1>5, <2>2 DEF Distinct
    <3> QED
      BY <3>1
  <2> QED
    BY <2>1, <2>2
<1>6. a \notin ToSet(s) /\ Distinct(s) => Distinct(t)
  BY <1>5 DEF Distinct
<1> QED
  BY <1>1, <1>4, <1>6 DEF t

LEMMA OneLess ==
    ASSUME NEW S, NEW s \in Seq(S), s # <<>>
    PROVE  /\ Tail(s) \in Seq(S) /\ Head(s) \in S /\ Head(s) \in ToSet(s)
           /\ Distinct(s) => ToSet(Tail(s)) = ToSet(s) \ {Head(s)} /\ Distinct(Tail(s))
<1> DEFINE t == Tail(s)
<1>1. /\ t \in Seq(S) /\ Len(s) \in Nat \ {0} /\ Len(t) = Len(s) - 1
      /\ Head(s) = s[1] /\ s[1] \in S
      /\ \A i \in 1 .. Len(t) : t[i] = s[i + 1]
  OBVIOUS
<1> HIDE DEF t
<1>2. ToSet(t) = {t[i] : i \in 1 .. Len(t)} /\ ToSet(s) = {s[i] : i \in 1 .. Len(s)}
  BY <1>1 DEF ToSet
<1>3. 1 \in 1 .. Len(s) /\ \A i \in 1 .. Len(t) : i + 1 \in 1 .. Len(s) /\ i + 1 # 1
  BY <1>1
<1>4. \A i \in 1 .. Len(s) : i = 1 \/ (i - 1 \in 1 .. Len(t) /\ t[i - 1] = s[i])
  <2> TAKE i \in 1 .. Len(s)
  <2>1. i # 1 => i - 1 \in 1 .. Len(t) /\ (i - 1) + 1 = i
    BY <1>1
  <2> QED
    BY <1>1, <2>1
<1>5. ASSUME Distinct(s)
      PROVE  ToSet(t) = ToSet(s) \ {s[1]} /\ Distinct(t)
  <2>1. ToSet(t) \subseteq ToSet(s) \ {s[1]}
    BY <1>1, <1>2, <1>3, <1>5 DEF Distinct
  <2>2. ToSet(s) \ {s[1]} \subseteq ToSet(t)
    BY <1>2, <1>4
  <2>3. ASSUME NEW i \in 1 .. Len(t), NEW j \in 1 .. Len(t), t[i] = t[j]
        PROVE  i = j
    <3>1. i + 1 = j + 1
      BY <1>1, <1>3, <1>5, <2>3 DEF Distinct
    <3> QED
      BY <3>1
  <2> QED
    BY <2>1, <2>2, <2>3 DEF Distinct
<1> QED
  BY <1>1, <1>3, <1>2, <1>5 DEF t

\* What is left of a sequence was in it.
LEMMA TailWithin ==
    ASSUME NEW S, NEW s \in Seq(S), s # <<>>
    PROVE  Tail(s) \in Seq(S) /\ ToSet(Tail(s)) \subseteq ToSet(s)
<1> DEFINE t == Tail(s)
<1>1. /\ t \in Seq(S) /\ Len(s) \in Nat \ {0} /\ Len(t) = Len(s) - 1
      /\ \A i \in 1 .. Len(t) : t[i] = s[i + 1]
  OBVIOUS
<1> HIDE DEF t
<1>2. ToSet(t) = {t[i] : i \in 1 .. Len(t)} /\ ToSet(s) = {s[i] : i \in 1 .. Len(s)}
  BY <1>1 DEF ToSet
<1>3. \A i \in 1 .. Len(t) : i + 1 \in 1 .. Len(s)
  BY <1>1
<1>4. ToSet(t) \subseteq ToSet(s)
  BY <1>1, <1>2, <1>3
<1> QED
  BY <1>1, <1>4 DEF t

\* The list of users holds one record or none.
LEMMA UserLists ==
    /\ ToSet(<<>>) = {}
    /\ \A a : /\ ToSet(<<a>>) = {a} /\ <<a>> # <<>>
              /\ Head(<<a>>) = a /\ Tail(<<a>>) = <<>>
  BY DEF ToSet

-----------------------------------------------------------------------------
(* What is allocated, and for what. *)

LEMMA Sizes ==
    /\ Server # Record
    /\ Server \in 1 .. BlockSize /\ Record \in 1 .. BlockSize
  BY SizesFit DEF Server, Record

\* A block that was allocated is a server, or a record that its list gets.
LEMMA Allocated ==
    ASSUME MemInv, RecordsInv, NEW size \in {Server, Record}, NEW p,
           qos_malloc(size, p), p # NULL,
           Records' = IF size = Record THEN Records \cup {p} ELSE Records
    PROVE  /\ RecordsInv'
           /\ p \in Addresses /\ p \notin Records /\ p \notin DOMAIN heap
           /\ DOMAIN heap' = DOMAIN heap \cup {p} /\ heap'[p] = size
           /\ \A a \in DOMAIN heap : heap'[a] = heap[a]
           /\ checked' = checked /\ corrupted' = corrupted
           /\ checked => Tracked' = Tracked \cup {p}
<1>1. size \in 1 .. BlockSize
  BY Sizes
<1>2. /\ p \in Addresses \ DOMAIN heap
      /\ heap' = [a \in DOMAIN heap \cup {p} |-> IF a = p THEN size ELSE heap[a]]
      /\ checked => Tracked' = Tracked \cup {p}
      /\ checked' = checked /\ corrupted' = corrupted
  BY <1>1, MallocEffect
<1>3. /\ DOMAIN heap' = DOMAIN heap \cup {p} /\ heap'[p] = size
      /\ \A a \in DOMAIN heap : heap'[a] = heap[a]
  BY <1>2
<1>4. p \notin Records
  BY <1>2 DEF RecordsInv
<1>5. {a \in DOMAIN heap' : heap'[a] = Record} = Records'
  BY <1>2, <1>3, Sizes DEF RecordsInv
<1>6. RecordsInv'
  BY <1>2, <1>3, <1>5 DEF RecordsInv
<1> QED
  BY <1>2, <1>3, <1>4, <1>6

\* An allocation that failed.
LEMMA NotAllocated ==
    ASSUME MemInv, NEW size \in {Server, Record}, qos_malloc(size, NULL)
    PROVE  UNCHANGED <<checked, corrupted, heap, Tracked>>
<1>1. size \in 1 .. BlockSize /\ NULL \notin Addresses
  BY Sizes, AddressApart
<1> QED
  BY <1>1, MallocEffect

\* A block that is freed is a server, or a record that leaves its list.
LEMMA Freed ==
    ASSUME MemInv, RecordsInv, NEW p, qos_free(p),
           p \in DOMAIN heap, checked => p \in Tracked,
           Records' = Records \ {p}
    PROVE  /\ RecordsInv'
           /\ DOMAIN heap' = DOMAIN heap \ {p}
           /\ checked' = checked /\ corrupted' = corrupted
<1>1. /\ heap' = [a \in DOMAIN heap \ {p} |-> heap[a]]
      /\ checked => Tracked' = Tracked \ {p}
      /\ checked' = checked /\ corrupted' = corrupted
  BY FreeEffect
<1>2. DOMAIN heap' = DOMAIN heap \ {p} /\ \A a \in DOMAIN heap' : heap'[a] = heap[a]
  BY <1>1
<1>3. {a \in DOMAIN heap' : heap'[a] = Record} = Records'
  BY <1>2 DEF RecordsInv
<1>4. RecordsInv'
  BY <1>1, <1>2, <1>3 DEF RecordsInv
<1> QED
  BY <1>1, <1>2, <1>4

LEMMA RecordsKept ==
    ASSUME RecordsInv, UNCHANGED <<heap, checked, Tracked, qsup_users, rules>>
    PROVE  RecordsInv'
  BY DEF RecordsInv, Records

LEMMA ListsKept ==
    ASSUME ListInv, UNCHANGED <<qsup_users, rules>>,
           qsup_servers' \in Seq({qsup(a) : a \in Addresses}),
           phase' \in {"free rules", "out"} => qsup_users = <<>>,
           phase' = "out" => rules = <<>>
    PROVE  ListInv'
<1> DEFINE fields == {qsup(a) : a \in Addresses}
<1> HIDE DEF fields
<1>1. qsup_servers' \in Seq(fields)
  BY DEF fields
<1> QED
  BY <1>1 DEF ListInv, fields

AllocInv == CallInv /\ RecordsInv /\ ListInv /\ AcceptInv

\* Steps that neither allocate nor free, nor touch a list or the call.
LEMMA AllocKept ==
    ASSUME AllocInv, UNCHANGED <<heap, checked, corrupted, Tracked>>,
           UNCHANGED <<qsup_users, rules, qsup_servers, call, accepted>>,
           phase' \in {"free rules", "out"} => qsup_users = <<>>,
           phase' = "out" => rules = <<>>
    PROVE  AllocInv'
<1>1. CallInv' /\ AcceptInv'
  BY DEF AllocInv, CallInv, AcceptInv, NothingLost
<1>2. qsup_servers' \in Seq({qsup(a) : a \in Addresses})
  BY DEF AllocInv, ListInv
<1>3. RecordsInv' /\ ListInv'
  BY <1>2, RecordsKept, ListsKept DEF AllocInv
<1> QED
  BY <1>1, <1>3 DEF AllocInv

\* A call that goes on without allocating, freeing or touching a list.
LEMMA CallGoesOn ==
    ASSUME AllocInv, UNCHANGED <<heap, checked, corrupted, Tracked>>,
           UNCHANGED <<qsup_users, rules, phase>>,
           NEW pc \in {"user", "admit", "group", "free"}, Step(pc, call.ptr),
           call.pc # "idle",
           pc = "group" => accepted' /\ qsup_servers' # <<>>, accepted => accepted',
           ~accepted' => qsup_servers' = <<>>,
           qsup_servers' \in Seq({qsup(a) : a \in Addresses})
    PROVE  AllocInv'
<1>1. call # NoCall /\ call.ptr \in DOMAIN heap /\ heap[call.ptr] = Server
  BY DEF NoCall, AllocInv, CallInv
<1>2. call'.pc = pc /\ call'.ptr = call.ptr /\ call' = [pc |-> pc, ptr |-> call.ptr]
  BY DEF Step
<1>3. CallInv'
  BY <1>1, <1>2 DEF AllocInv, CallInv
<1>4. phase' \in {"free rules", "out"} => qsup_users = <<>>
  BY DEF AllocInv, ListInv
<1>5. phase' = "out" => rules = <<>>
  BY DEF AllocInv, ListInv
<1>6. RecordsInv' /\ ListInv'
  BY <1>4, <1>5, RecordsKept, ListsKept DEF AllocInv
<1>7. AcceptInv'
  BY <1>2 DEF AllocInv, AcceptInv, NothingLost
<1> QED
  BY <1>3, <1>6, <1>7 DEF AllocInv

\* A call that ends by leaving its server allocated; the supervisor had accepted it.
LEMMA CallEnds ==
    ASSUME AllocInv, UNCHANGED <<heap, checked, corrupted, Tracked>>,
           UNCHANGED <<qsup_users, rules, phase, accepted>>,
           call' = NoCall, accepted,
           qsup_servers' \in Seq({qsup(a) : a \in Addresses})
    PROVE  AllocInv'
<1>1. CallInv'
  BY DEF NoCall, CallInv
<1>2. phase' \in {"free rules", "out"} => qsup_users = <<>>
  BY DEF AllocInv, ListInv
<1>3. phase' = "out" => rules = <<>>
  BY DEF AllocInv, ListInv
<1>4. RecordsInv' /\ ListInv'
  BY <1>2, <1>3, RecordsKept, ListsKept DEF AllocInv
<1>5. AcceptInv'
  BY DEF AcceptInv, NothingLost, NoCall
<1> QED
  BY <1>1, <1>4, <1>5 DEF AllocInv

\* A server is allocated: its block is the call's.
LEMMA CreateServerAlloc ==
    ASSUME MemInv, AllocInv, NEW f \in Files, create_server(f)
    PROVE  AllocInv'
<1>1. PICK p : /\ qos_malloc(Server, p)
               /\ IF p = NULL THEN call' = NoCall ELSE Step("user", p)
  BY DEF create_server
<1>2. /\ call.pc = "idle" /\ call = NoCall
      /\ UNCHANGED <<phase, qsup_users, rules, qsup_servers, accepted>>
  BY DEF create_server, Calling, lists, AllocInv, CallInv
<1>3. CASE p = NULL
  <2>1. UNCHANGED <<heap, checked, corrupted, Tracked, call>>
    BY <1>1, <1>2, <1>3, NotAllocated
  <2> QED
    BY <1>2, <2>1, AllocKept DEF AllocInv, ListInv
<1>4. CASE p # NULL
  <2>1. Records' = Records
    BY <1>2 DEF Records
  <2>2. /\ RecordsInv' /\ p \in Addresses
        /\ DOMAIN heap' = DOMAIN heap \cup {p} /\ heap'[p] = Server
        /\ checked' = checked /\ corrupted' = corrupted
        /\ checked => Tracked' = Tracked \cup {p}
    BY <1>1, <1>4, <2>1, Allocated, Sizes DEF AllocInv
  <2>3. call'.pc = "user" /\ call'.ptr = p /\ call' = [pc |-> "user", ptr |-> p]
    BY <1>1, <1>4 DEF Step
  <2>4. CallInv'
    BY <2>2, <2>3 DEF CallInv, NoCall
  <2>5. ListInv'
    BY <1>2 DEF AllocInv, ListInv
  <2>6. AcceptInv'
    <3>1. call.ptr = NULL
      BY <1>2 DEF NoCall
    <3> QED
      BY <1>2, <1>4, <2>2, <2>3, <3>1 DEF AllocInv, AcceptInv, NothingLost
  <2> QED
    BY <2>2, <2>4, <2>5, <2>6 DEF AllocInv
<1> QED
  BY <1>3, <1>4

\* A record is allocated and put in its list.
LEMMA RecordAlloc ==
    ASSUME MemInv, AllocInv, NEW p, qos_malloc(Record, p), p # NULL,
           Records' = Records \cup {p},
           UNCHANGED <<phase, qsup_servers, accepted>>,
           p \in Addresses /\ p \notin Records => ListInv',
           call'.ptr = call.ptr, call'.pc # "group",
           call' \in [pc : {"idle", "user", "admit", "group", "free"},
                      ptr : Addresses \cup {NULL}],
           call.pc = "idle" => call' = call,
           call.pc # "idle" => call'.pc # "idle"
    PROVE  AllocInv'
<1>1. /\ RecordsInv' /\ p \in Addresses /\ p \notin Records
      /\ DOMAIN heap' = DOMAIN heap \cup {p}
      /\ \A a \in DOMAIN heap : heap'[a] = heap[a]
      /\ checked' = checked /\ corrupted' = corrupted
      /\ checked => Tracked' = Tracked \cup {p}
  BY Allocated, Sizes DEF AllocInv
<1>2. call.pc # "idle" => call # NoCall
  BY DEF NoCall
<1>3. call.pc = "idle" => call = NoCall /\ call' = NoCall
  BY DEF AllocInv, CallInv
<1>4. CallInv'
  <2>1. CASE call.pc = "idle"
    BY <1>3, <2>1 DEF CallInv
  <2>2. CASE call.pc # "idle"
    BY <1>1, <1>2, <2>2 DEF AllocInv, CallInv
  <2> QED
    BY <2>1, <2>2
<1>5. AcceptInv'
  <2>1. NothingLost'
    BY <1>1 DEF AllocInv, AcceptInv, NothingLost, Records
  <2> QED
    BY <1>1, <2>1 DEF AllocInv, AcceptInv
<1> QED
  BY <1>1, <1>4, <1>5 DEF AllocInv

\* The record of a user, where there was none.
LEMMA UserAlloc ==
    ASSUME AllocInv, NEW p, qsup_users = <<>>, qsup_users' = <<p>>,
           UNCHANGED <<phase, qsup_servers, rules>>,
           phase \notin {"free rules", "out"}
    PROVE  /\ Records' = Records \cup {p}
           /\ p \in Addresses /\ p \notin Records => ListInv'
<1>1. ToSet(qsup_users) = {} /\ ToSet(qsup_users') = {p}
  BY UserLists
<1>2. Records' = Records \cup {p}
  BY <1>1 DEF Records
<1>3. ASSUME p \in Addresses, p \notin Records
      PROVE  ListInv'
  BY <1>1, <1>3 DEF AllocInv, ListInv, Records
<1> QED
  BY <1>2, <1>3

LEMMA GetUserInfoAlloc ==
    ASSUME MemInv, FileInv, AllocInv, get_user_info
    PROVE  AllocInv'
<1>1. /\ call.pc = "user" /\ phase \in Serving
      /\ UNCHANGED <<phase, server_list, group, qsup_servers, rules, accepted>>
  BY CallHasFile DEF get_user_info, Calling
<1>2. qsup_servers \in Seq({qsup(a) : a \in Addresses}) /\ (~accepted => qsup_servers = <<>>)
  BY DEF AllocInv, ListInv, AcceptInv
<1>3. ASSUME UNCHANGED <<heap, checked, corrupted, Tracked, qsup_users>>,
             NEW pc \in {"free", "admit"}, Step(pc, call.ptr)
      PROVE  AllocInv'
  BY <1>1, <1>2, <1>3, CallGoesOn
<1>4. CASE UNCHANGED <<memory, qsup_users>> /\ Step("free", call.ptr)
  BY <1>3, <1>4, MemoryKept
<1>5. CASE UNCHANGED <<memory, qsup_users>> /\ Step("admit", call.ptr)
  BY <1>3, <1>5, MemoryKept
<1>6. CASE /\ qsup_users = <<>>
           /\ \E p \in Addresses \cup {NULL} :
                 /\ qos_malloc(Record, p)
                 /\ qsup_users' = IF p = NULL THEN <<>> ELSE <<p>>
                 /\ Step(IF p = NULL THEN "free" ELSE "admit", call.ptr)
  <2>1. PICK p \in Addresses \cup {NULL} :
                 /\ qos_malloc(Record, p)
                 /\ qsup_users' = IF p = NULL THEN <<>> ELSE <<p>>
                 /\ Step(IF p = NULL THEN "free" ELSE "admit", call.ptr)
    BY <1>6
  <2>2. CASE p = NULL
    BY <1>3, <1>6, <2>1, <2>2, NotAllocated, Sizes
  <2>3. CASE p # NULL
    <3>1. qsup_users' = <<p>> /\ call' = [pc |-> "admit", ptr |-> call.ptr]
      BY <2>1, <2>3 DEF Step
    <3>2. Records' = Records \cup {p} /\ (p \in Addresses /\ p \notin Records => ListInv')
      BY <1>1, <1>6, <3>1, UserAlloc DEF Serving
    <3>3. /\ call'.ptr = call.ptr /\ call'.pc = "admit"
          /\ call' \in [pc : {"idle", "user", "admit", "group", "free"},
                        ptr : Addresses \cup {NULL}]
      BY <3>1 DEF AllocInv, CallInv
    <3> QED
      BY <1>1, <2>1, <2>3, <3>2, <3>3, RecordAlloc
  <2> QED
    BY <2>2, <2>3
<1> QED
  BY <1>4, <1>5, <1>6 DEF get_user_info

LEMMA AvailAlloc ==
    ASSUME MemInv, FileInv, AllocInv, NEW f \in Files, get_avail_gua_bw(f)
    PROVE  AllocInv'
<1>1. /\ file[f] = "qsup" /\ phase \in Serving /\ qsup_users = <<>>
      /\ call.pc = "idle" /\ call = NoCall
      /\ UNCHANGED <<phase, qsup_servers, rules, call, accepted>>
  BY CallHasFile DEF get_avail_gua_bw, Calling, AllocInv, CallInv, Devices
<1>2. PICK p \in Addresses \cup {NULL} :
               /\ qos_malloc(Record, p)
               /\ qsup_users' = IF p = NULL THEN <<>> ELSE <<p>>
  BY DEF get_avail_gua_bw
<1>3. CASE p = NULL
  <2>1. UNCHANGED <<heap, checked, corrupted, Tracked, qsup_users>>
    BY <1>1, <1>2, <1>3, NotAllocated, Sizes
  <2> QED
    BY <1>1, <2>1, AllocKept DEF AllocInv, ListInv
<1>4. CASE p # NULL
  <2>1. Records' = Records \cup {p} /\ (p \in Addresses /\ p \notin Records => ListInv')
    BY <1>1, <1>2, <1>4, UserAlloc DEF Serving
  <2>2. call' = call /\ call \in [pc : {"idle", "user", "admit", "group", "free"},
                                  ptr : Addresses \cup {NULL}]
    BY <1>1 DEF AllocInv, CallInv
  <2> QED
    BY <1>1, <1>2, <1>4, <2>1, <2>2, RecordAlloc
<1> QED
  BY <1>3, <1>4

LEMMA AddRuleAlloc ==
    ASSUME MemInv, FileInv, AllocInv, NEW f \in Files, add_rule(f)
    PROVE  AllocInv'
<1>1. /\ file[f] = "qsup" /\ phase \in Serving
      /\ call.pc = "idle" /\ call = NoCall
      /\ UNCHANGED <<phase, qsup_servers, qsup_users, call, accepted>>
  BY CallHasFile DEF add_rule, Calling, AllocInv, CallInv, Devices
<1>2. PICK p \in Addresses \cup {NULL} :
               /\ qos_malloc(Record, p)
               /\ rules' = IF p = NULL THEN rules ELSE <<p>> \o rules
  BY DEF add_rule
<1>3. CASE p = NULL
  <2>1. UNCHANGED <<heap, checked, corrupted, Tracked, rules>>
    BY <1>1, <1>2, <1>3, NotAllocated, Sizes
  <2> QED
    BY <1>1, <2>1, AllocKept DEF AllocInv, ListInv
<1>4. CASE p # NULL
  <2>1. /\ p \in Addresses /\ rules' = <<p>> \o rules
        /\ rules \in Seq(Addresses) /\ Distinct(rules)
    BY <1>2, <1>4 DEF AllocInv, ListInv
  <2>2. /\ rules' \in Seq(Addresses) /\ ToSet(rules') = {p} \cup ToSet(rules)
        /\ p \notin ToSet(rules) => Distinct(rules')
    BY <2>1, OneMore
  <2>3. Records' = Records \cup {p}
    BY <1>1, <2>2 DEF Records
  <2>4. p \notin Records => ListInv'
    BY <1>1, <2>2 DEF AllocInv, ListInv, Records, Serving
  <2>5. call' = call /\ call \in [pc : {"idle", "user", "admit", "group", "free"},
                                  ptr : Addresses \cup {NULL}]
    BY <1>1 DEF AllocInv, CallInv
  <2> QED
    BY <1>1, <1>2, <1>4, <2>3, <2>4, <2>5, RecordAlloc
<1> QED
  BY <1>3, <1>4

\* A refused server's block is freed.
LEMMA FreeRefusedAlloc ==
    ASSUME MemInv, AllocInv, free_refused
    PROVE  AllocInv'
<1>1. /\ call.pc = "free" /\ qos_free(call.ptr) /\ call' = NoCall
      /\ UNCHANGED <<phase, qsup_users, rules, qsup_servers, accepted>>
  BY DEF free_refused, Calling, lists
<1>2. /\ call.ptr \in DOMAIN heap /\ heap[call.ptr] = Server
      /\ checked => call.ptr \in Tracked
  BY <1>1 DEF AllocInv, CallInv, NoCall
<1>3. call.ptr \notin Records /\ Records' = Records
  BY <1>1, <1>2, Sizes DEF AllocInv, RecordsInv, Records
<1>4. RecordsInv' /\ DOMAIN heap' = DOMAIN heap \ {call.ptr} /\ corrupted' = corrupted
  <2>1. Records' = Records \ {call.ptr}
    BY <1>3
  <2> QED
    BY <1>1, <1>2, <2>1, Freed DEF AllocInv
<1>5. CallInv'
  BY <1>1 DEF CallInv, NoCall
<1>6. ListInv'
  BY <1>1 DEF AllocInv, ListInv
<1>7. AcceptInv'
  <2>1. call'.ptr = NULL /\ call'.pc = "idle"
    BY <1>1 DEF NoCall
  <2>2. ~accepted => DOMAIN heap = Records \cup ({call.ptr} \ {NULL})
    BY DEF AllocInv, AcceptInv, NothingLost, Records
  <2>3. ~accepted => DOMAIN heap' = Records'
    BY <1>2, <1>3, <1>4, <2>2
  <2> QED
    BY <1>1, <1>4, <2>1, <2>3 DEF AllocInv, AcceptInv, NothingLost, Records
<1> QED
  BY <1>4, <1>5, <1>6, <1>7 DEF AllocInv

\* Removal frees a record of a list.
LEMMA RecordFreed ==
    ASSUME MemInv, AllocInv, NEW p, qos_free(p), p \in Records,
           call = NoCall, UNCHANGED <<call, qsup_servers, accepted>>,
           Records' = Records \ {p}, ListInv'
    PROVE  AllocInv'
<1>1. p \in DOMAIN heap /\ (checked => p \in Tracked)
  BY DEF AllocInv, RecordsInv
<1>2. RecordsInv' /\ DOMAIN heap' = DOMAIN heap \ {p} /\ corrupted' = corrupted
  BY <1>1, Freed DEF AllocInv
<1>3. CallInv'
  BY DEF CallInv, NoCall
<1>4. AcceptInv'
  <2>1. call.ptr = NULL /\ call'.ptr = NULL
    BY DEF NoCall
  <2> QED
    BY <1>2, <2>1 DEF AllocInv, AcceptInv, NothingLost, Records
<1> QED
  BY <1>2, <1>3, <1>4 DEF AllocInv

\* No call is in progress during a removal.
LEMMA RemovalIdle ==
    ASSUME FileInv, phase \notin Serving
    PROVE  call = NoCall
  BY DEF FileInv

LEMMA CleanupServersAlloc ==
    ASSUME MemInv, FileInv, AllocInv, cleanup_servers
    PROVE  AllocInv'
<1>1. phase = "free servers" /\ UNCHANGED <<qsup_users, rules, call, accepted>>
  BY DEF cleanup_servers, FreeAll
<1>2. CASE qsup_servers = <<>>
  <2>1. phase' = "free users" /\ UNCHANGED <<memory, qsup_servers>>
    BY <1>2 DEF cleanup_servers, FreeAll
  <2>2. UNCHANGED <<heap, checked, corrupted, Tracked>>
    BY <2>1, MemoryKept
  <2> QED
    BY <1>1, <2>1, <2>2, AllocKept
<1>3. CASE qsup_servers # <<>>
  <2> DEFINE fields == {qsup(a) : a \in Addresses}
  <2>1. /\ qos_free(Head(qsup_servers)) /\ qsup_servers' = Tail(qsup_servers)
        /\ phase' = phase
    BY <1>3 DEF cleanup_servers, FreeAll
  <2>2. qsup_servers \in Seq(fields)
    BY DEF AllocInv, ListInv
  <2>3. Head(qsup_servers) \in fields /\ qsup_servers' \in Seq(fields)
    BY <1>3, <2>1, <2>2, OneLess
  <2>4. Head(qsup_servers) \notin DOMAIN heap
    <3>1. PICK a \in Addresses : Head(qsup_servers) = qsup(a)
      BY <2>3
    <3> QED
      BY <3>1, AddressApart DEF MemInv
  <2>5. UNCHANGED <<heap, checked>> /\ (checked => UNCHANGED Tracked)
    BY <2>1, <2>4, FreeEffect
  <2>6. accepted
    BY <1>3 DEF AllocInv, AcceptInv
  <2>7. call = NoCall
    BY <1>1, RemovalIdle DEF Serving
  <2>8. CallInv'
    BY <1>1, <2>7 DEF CallInv, NoCall
  <2>9. RecordsInv' /\ ListInv'
    BY <1>1, <2>1, <2>3, <2>5 DEF AllocInv, RecordsInv, ListInv, Records
  <2>10. AcceptInv'
    BY <1>1, <2>6, <2>7 DEF AcceptInv, NothingLost, NoCall
  <2> QED
    BY <2>8, <2>9, <2>10 DEF AllocInv
<1> QED
  BY <1>2, <1>3

LEMMA CleanupUsersAlloc ==
    ASSUME MemInv, FileInv, AllocInv, cleanup_users
    PROVE  AllocInv'
<1>1. phase = "free users" /\ UNCHANGED <<qsup_servers, rules, call, accepted>>
  BY DEF cleanup_users, FreeAll
<1>2. CASE qsup_users = <<>>
  <2>1. phase' = "free rules" /\ UNCHANGED <<memory, qsup_users>>
    BY <1>2 DEF cleanup_users, FreeAll
  <2>2. UNCHANGED <<heap, checked, corrupted, Tracked>>
    BY <2>1, MemoryKept
  <2> QED
    BY <1>1, <1>2, <2>1, <2>2, AllocKept
<1>3. CASE qsup_users # <<>>
  <2>1. PICK a \in Addresses : qsup_users = <<a>>
    BY <1>3 DEF AllocInv, ListInv
  <2>2. qos_free(a) /\ qsup_users' = <<>> /\ phase' = phase
    BY <1>3, <2>1, UserLists DEF cleanup_users, FreeAll
  <2>3. ToSet(qsup_users) = {a} /\ ToSet(qsup_users') = {}
    BY <2>1, <2>2, UserLists
  <2>4. a \in Records /\ Records' = Records \ {a}
    BY <1>1, <2>3 DEF Records, AllocInv, ListInv
  <2>5. ListInv'
    BY <1>1, <2>2, <2>3 DEF AllocInv, ListInv
  <2>6. call = NoCall
    BY <1>1, RemovalIdle DEF Serving
  <2> QED
    BY <1>1, <2>2, <2>4, <2>5, <2>6, RecordFreed
<1> QED
  BY <1>2, <1>3

LEMMA CleanupRulesAlloc ==
    ASSUME MemInv, FileInv, AllocInv, cleanup_rules
    PROVE  AllocInv'
<1>1. phase = "free rules" /\ UNCHANGED <<qsup_servers, qsup_users, call, accepted>>
  BY DEF cleanup_rules, FreeAll
<1>2. qsup_users = <<>>
  BY <1>1 DEF AllocInv, ListInv
<1>3. CASE rules = <<>>
  <2>1. phase' = "out" /\ UNCHANGED <<memory, rules>>
    BY <1>3 DEF cleanup_rules, FreeAll
  <2>2. UNCHANGED <<heap, checked, corrupted, Tracked>>
    BY <2>1, MemoryKept
  <2> QED
    BY <1>1, <1>2, <1>3, <2>1, <2>2, AllocKept
<1>4. CASE rules # <<>>
  <2>1. qos_free(Head(rules)) /\ rules' = Tail(rules) /\ phase' = phase
    BY <1>4 DEF cleanup_rules, FreeAll
  <2>2. rules \in Seq(Addresses) /\ Distinct(rules)
    BY DEF AllocInv, ListInv
  <2> DEFINE t == Tail(rules)
  <2>3. /\ t \in Seq(Addresses) /\ Head(rules) \in ToSet(rules)
        /\ ToSet(t) = ToSet(rules) \ {Head(rules)}
        /\ Distinct(t)
    BY <1>4, <2>2, OneLess
  <2>4. rules' = t
    BY <2>1
  <2> HIDE DEF t
  <2>5. Head(rules) \in Records /\ Records' = Records \ {Head(rules)}
    BY <1>1, <1>2, <2>3, <2>4, UserLists DEF Records
  <2>6. ListInv'
    BY <1>1, <1>2, <2>1, <2>3, <2>4, UserLists DEF AllocInv, ListInv
  <2>7. call = NoCall
    BY <1>1, RemovalIdle DEF Serving
  <2> QED
    BY <1>1, <2>1, <2>5, <2>6, <2>7, RecordFreed
<1> QED
  BY <1>3, <1>4

\* Insertion finds no record allocated and begins with empty lists.
LEMMA InitPartsAlloc ==
    ASSUME MemInv, FileInv, AllocInv, InitParts
    PROVE  AllocInv'
<1>1. /\ phase = "out" /\ phase' = "register qres"
      /\ UNCHANGED <<checked, heap, corrupted, call, accepted>>
      /\ qsup_servers' = <<>> /\ qsup_users' = <<>> /\ rules' = <<>>
  BY DEF InitParts, Insert
<1>2. call = NoCall
  BY <1>1, RemovalIdle DEF Serving
<1>3. qsup_users = <<>> /\ rules = <<>>
  BY <1>1 DEF AllocInv, ListInv
<1>4. Records = {} /\ Records' = {} /\ ToSet(<<>>) = {}
  BY <1>1, <1>3, UserLists DEF Records
<1>5. CallInv'
  BY <1>1, <1>2 DEF CallInv, NoCall
<1>6. RecordsInv'
  BY <1>1, <1>4 DEF AllocInv, RecordsInv
<1>7. ListInv'
  <2>1. /\ <<>> \in Seq(Addresses) /\ <<>> \in Seq({qsup(a) : a \in Addresses})
        /\ Distinct(<<>>)
    BY DEF Distinct
  <2>2. /\ rules' \in Seq(Addresses) /\ qsup_servers' \in Seq({qsup(a) : a \in Addresses})
        /\ Distinct(rules')
    BY <1>1, <2>1
  <2>3. ToSet(qsup_users') = {}
    BY <1>1, <1>4
  <2> QED
    BY <1>1, <2>2, <2>3 DEF ListInv
<1>8. AcceptInv'
  BY <1>1, <1>2, <1>3 DEF AllocInv, AcceptInv, NothingLost, NoCall
<1> QED
  BY <1>5, <1>6, <1>7, <1>8 DEF AllocInv

LEMMA AllocNext ==
    ASSUME MemInv, FileInv, AllocInv, Next
    PROVE  AllocInv'
<1>1. ASSUME UNCHANGED memory, UNCHANGED <<qsup_users, rules, qsup_servers, call, accepted>>,
             phase' = phase \/ phase' \notin {"free rules", "out"}
      PROVE  AllocInv'
  BY <1>1, MemoryKept, AllocKept DEF AllocInv, ListInv
<1>2. CASE Insertion
  <2>1. CASE InitParts
    BY <2>1, InitPartsAlloc
  <2>2. CASE qres_dev_register \/ qsup_dev_register \/ qres_proc_register
    BY <1>1, <2>2
       DEF qres_dev_register, qsup_dev_register, Register, qres_proc_register, lists
  <2> QED
    BY <1>2, <2>1, <2>2 DEF Insertion
<1>3. CASE qres_proc_unregister
  BY <1>1, <1>3 DEF qres_proc_unregister, lists
<1>4. CASE Removal
  <2>1. CASE qres_dev_unregister \/ qsup_dev_unregister
    BY <1>1, <2>1 DEF qres_dev_unregister, qsup_dev_unregister, Unregister, lists
  <2>2. CASE qres_cleanup
    <3>1. /\ UNCHANGED memory /\ UNCHANGED <<qsup_users, rules, qsup_servers, call, accepted>>
          /\ phase' = phase \/ phase' = "free servers"
      BY <2>2 DEF qres_cleanup
    <3> QED
      BY <1>1, <3>1
  <2> QED
    BY <1>4, <2>1, <2>2, CleanupServersAlloc, CleanupUsersAlloc, CleanupRulesAlloc
       DEF Removal
<1>5. CASE Call
  <2>1. CASE qsup_init_server
    <3>1. /\ call.pc = "admit" /\ UNCHANGED memory /\ UNCHANGED <<qsup_users, rules, phase>>
      BY <2>1 DEF qsup_init_server, Calling
    <3>2. UNCHANGED <<heap, checked, corrupted, Tracked>>
      BY <3>1, MemoryKept
    <3>3. CASE Step("free", call.ptr) /\ UNCHANGED <<qsup_servers, accepted>>
      <4>1. qsup_servers \in Seq({qsup(a) : a \in Addresses})
            /\ (~accepted => qsup_servers = <<>>)
        BY DEF AllocInv, ListInv, AcceptInv
      <4> QED
        BY <3>1, <3>2, <3>3, <4>1, CallGoesOn
    <3>4. CASE /\ Step("group", call.ptr)
               /\ qsup_servers' = <<qsup(call.ptr)>> \o qsup_servers
               /\ accepted' = TRUE
      <4>1. qsup(call.ptr) \in {qsup(a) : a \in Addresses}
        BY <3>1, AddressApart DEF AllocInv, CallInv, NoCall, MemInv
      <4>2. qsup_servers \in Seq({qsup(a) : a \in Addresses})
        BY DEF AllocInv, ListInv
      <4>3. qsup_servers' \in Seq({qsup(a) : a \in Addresses})
        BY <3>4, <4>1, <4>2, OneMore
      <4> QED
        BY <3>1, <3>2, <3>4, <4>2, <4>3, CallGoesOn
    <3> QED
      BY <2>1, <3>3, <3>4 DEF qsup_init_server
  <2>2. CASE create_group
    <3>1. /\ call.pc = "group" /\ call' = NoCall /\ UNCHANGED memory
          /\ UNCHANGED <<qsup_users, rules, phase, accepted>>
      BY <2>2 DEF create_group, Calling
    <3>2. UNCHANGED <<heap, checked, corrupted, Tracked>>
      BY <3>1, MemoryKept
    <3>3. accepted /\ qsup_servers # <<>>
      BY <3>1 DEF AllocInv, AcceptInv
    <3>4. qsup_servers \in Seq({qsup(a) : a \in Addresses})
      BY DEF AllocInv, ListInv
    <3>5. qsup_servers' \in Seq({qsup(a) : a \in Addresses})
      <4>1. CASE UNCHANGED qsup_servers
        BY <3>4, <4>1
      <4>2. CASE qsup_servers' = Tail(qsup_servers)
        BY <3>3, <3>4, <4>2, OneLess
      <4> QED
        BY <2>2, <4>1, <4>2 DEF create_group
    <3> QED
      BY <3>1, <3>2, <3>3, <3>5, CallEnds
  <2> QED
    BY <1>5, <2>1, <2>2, GetUserInfoAlloc, FreeRefusedAlloc DEF Call
<1>6. ASSUME NEW f \in Files, Process(f)
      PROVE  AllocInv'
  <2>1. CASE create_server(f) \/ add_rule(f) \/ get_avail_gua_bw(f)
    BY <2>1, CreateServerAlloc, AddRuleAlloc, AvailAlloc
  <2>2. CASE ioctl_destroy_server(f)
    BY <1>1, <2>2 DEF ioctl_destroy_server, Calling
  <2>3. CASE device_open(f) \/ qsup_device_open(f) \/ device_release(f) \/ qsup_device_release(f)
    BY <1>1, <2>3 DEF device_open, qsup_device_open, Open, device_release,
                      qsup_device_release, Release, lists
  <2>4. CASE (\E text \in Texts : device_write(f, text)) \/ read_test(f) \/ read_take(f)
    BY <1>1, <2>4 DEF device_write, read_test, read_take, UseMessage, lists
  <2> QED
    BY <1>6, <2>1, <2>2, <2>3, <2>4 DEF Process
<1> QED
  BY <1>2, <1>3, <1>4, <1>5, <1>6 DEF Next

-----------------------------------------------------------------------------
(* The message. *)

LEMMA WriteKeeps ==
    ASSUME MessageInv, NEW f \in Files, NEW text \in Texts, device_write(f, text)
    PROVE  MessageInv'
<1> USE LifecycleAssumption
<1> DEFINE n == IF Len(text) < BUF_LEN THEN Len(text) ELSE BUF_LEN
           new == [i \in 0 .. BUF_LEN - 1 |-> IF i < n THEN text[i + 1] ELSE Message.text[i]]
<1>1. PICK k \in 1 .. BUF_LEN + 1 : text \in [1 .. k -> {0, 1}]
  BY DEF Texts
<1>2. Len(text) = k /\ \A i \in 1 .. k : text[i] \in {0, 1}
  BY <1>1
<1>3. n \in 0 .. BUF_LEN /\ n <= k
  BY <1>2
<1>4. Message' = [Message EXCEPT !.text = new, !.ptr = 0, !.full = @ \/ n = BUF_LEN]
  BY DEF device_write, UseMessage
<1>5. Message \in MessageType
  BY DEF MessageInv, MessageType
<1>6. new \in [0 .. BUF_LEN - 1 -> {0, 1}]
  <2> SUFFICES ASSUME NEW i \in 0 .. BUF_LEN - 1
               PROVE  (IF i < n THEN text[i + 1] ELSE Message.text[i]) \in {0, 1}
    OBVIOUS
  <2>1. CASE i < n
    <3>1. i + 1 \in 1 .. k
      BY <1>3, <2>1
    <3> QED
      BY <1>2, <2>1, <3>1
  <2>2. CASE ~ (i < n)
    <3>1. Message.text[i] \in {0, 1}
      BY <1>5 DEF MessageType
    <3> QED
      BY <2>2, <3>1
  <2> QED
    BY <2>1, <2>2
<1>7. n < BUF_LEN => new[BUF_LEN - 1] = Message.text[BUF_LEN - 1]
  <2>1. BUF_LEN - 1 \in 0 .. BUF_LEN - 1
    OBVIOUS
  <2>2. n < BUF_LEN => ~ (BUF_LEN - 1 < n)
    BY <1>3
  <2> QED
    BY <2>1, <2>2
<1> HIDE DEF n, new
<1>8. /\ Message'.text = new /\ Message'.ptr = 0
      /\ Message'.readers = Message.readers /\ Message'.overlap = Message.overlap
      /\ Message'.full = (Message.full \/ n = BUF_LEN)
      /\ Message' \in MessageType
  BY <1>4, <1>5, <1>6 DEF MessageType
<1>9. ASSUME ~Message'.full, ~Message'.overlap
      PROVE  /\ Message'.text[BUF_LEN - 1] = 0
             /\ Message'.ptr <= BUF_LEN - 1
             /\ Message'.readers # {} => Message'.ptr < BUF_LEN - 1
             /\ \A g, h \in Message'.readers : g = h
  <2>1. ~Message.full /\ ~Message.overlap /\ n < BUF_LEN
    <3>1. ~Message.full /\ ~Message.overlap /\ n # BUF_LEN
      BY <1>8, <1>9
    <3> QED
      BY <1>3, <3>1
  <2>2. /\ Message.text[BUF_LEN - 1] = 0
        /\ Message.readers # {} => Message.ptr < BUF_LEN - 1
        /\ \A g, h \in Message.readers : g = h
        /\ Message.ptr \in Nat
    BY <1>5, <2>1 DEF MessageInv, MessageType
  <2> QED
    BY <1>7, <1>8, <2>1, <2>2
<1> QED
  BY <1>8, <1>9 DEF MessageInv, MessageType

LEMMA TestKeeps ==
    ASSUME MessageInv, NEW f \in Files, read_test(f)
    PROVE  MessageInv'
<1> USE LifecycleAssumption
<1>1. /\ f \notin Message.readers /\ Character(Message.ptr) # 0
      /\ Message' = [Message EXCEPT !.readers = @ \cup {f},
                                    !.overlap = @ \/ Message.readers # {}]
  BY DEF read_test, UseMessage
<1>2. Message \in MessageType
  BY DEF MessageInv, MessageType
<1>3. /\ Message'.text = Message.text /\ Message'.ptr = Message.ptr
      /\ Message'.readers = Message.readers \cup {f} /\ Message'.full = Message.full
      /\ Message'.overlap = (Message.overlap \/ Message.readers # {})
      /\ Message' \in MessageType
  BY <1>1, <1>2 DEF MessageType
<1>4. ASSUME ~Message'.full, ~Message'.overlap
      PROVE  /\ Message'.text[BUF_LEN - 1] = 0
             /\ Message'.ptr <= BUF_LEN - 1
             /\ Message'.readers # {} => Message'.ptr < BUF_LEN - 1
             /\ \A g, h \in Message'.readers : g = h
  <2>1. ~Message.full /\ ~Message.overlap /\ Message.readers = {}
    BY <1>3, <1>4
  <2>2. /\ Message.text[BUF_LEN - 1] = 0 /\ Message.ptr <= BUF_LEN - 1
        /\ Message.ptr \in Nat
    BY <1>2, <2>1 DEF MessageInv, MessageType
  <2>3. Message.ptr # BUF_LEN - 1
    <3> SUFFICES ASSUME Message.ptr = BUF_LEN - 1
                 PROVE  FALSE
      OBVIOUS
    <3>1. Character(Message.ptr) = Message.text[BUF_LEN - 1]
      BY DEF Character
    <3> QED
      BY <1>1, <2>2, <3>1
  <2>4. Message'.readers = {f} /\ Message.ptr < BUF_LEN - 1
    BY <1>3, <2>1, <2>2, <2>3
  <2> QED
    BY <1>3, <2>2, <2>4
<1> QED
  BY <1>3, <1>4 DEF MessageInv, MessageType

LEMMA TakeKeeps ==
    ASSUME MessageInv, NEW f \in Files, read_take(f)
    PROVE  MessageInv'
<1> USE LifecycleAssumption
<1>1. /\ f \in Message.readers
      /\ Message' = [Message EXCEPT !.ptr = @ + 1, !.readers = @ \ {f}]
  BY DEF read_take, UseMessage
<1>2. Message \in MessageType
  BY DEF MessageInv, MessageType
<1>3. /\ Message'.text = Message.text /\ Message'.ptr = Message.ptr + 1
      /\ Message'.readers = Message.readers \ {f} /\ Message'.full = Message.full
      /\ Message'.overlap = Message.overlap
      /\ Message' \in MessageType
  <2>1. Message.ptr + 1 \in Nat /\ Message.readers \ {f} \in SUBSET Files
    BY <1>2 DEF MessageType
  <2>2. /\ Message'.text = Message.text /\ Message'.ptr = Message.ptr + 1
        /\ Message'.readers = Message.readers \ {f} /\ Message'.full = Message.full
        /\ Message'.overlap = Message.overlap
    BY <1>1, <1>2 DEF MessageType
  <2>3. Message' \in MessageType
    BY <1>1, <1>2, <2>1 DEF MessageType
  <2> QED
    BY <2>2, <2>3
<1>4. ASSUME ~Message'.full, ~Message'.overlap
      PROVE  /\ Message'.text[BUF_LEN - 1] = 0
             /\ Message'.ptr <= BUF_LEN - 1
             /\ Message'.readers = {}
  <2>1. ~Message.full /\ ~Message.overlap
    BY <1>3, <1>4
  <2>2. /\ Message.text[BUF_LEN - 1] = 0 /\ Message.ptr < BUF_LEN - 1
        /\ Message.ptr \in Nat /\ \A g, h \in Message.readers : g = h
    BY <1>1, <1>2, <2>1 DEF MessageInv, MessageType
  <2>3. Message'.readers = {}
    BY <1>1, <1>3, <2>2
  <2> QED
    BY <1>3, <2>2, <2>3
<1> QED
  BY <1>3, <1>4 DEF MessageInv, MessageType

LEMMA NoMessageFits ==
    /\ NoMessage \in MessageType
    /\ NoMessage.text[BUF_LEN - 1] = 0 /\ NoMessage.ptr <= BUF_LEN - 1
    /\ NoMessage.readers = {}
<1> USE LifecycleAssumption
<1>1. BUF_LEN - 1 \in 0 .. BUF_LEN - 1
  OBVIOUS
<1> QED
  BY <1>1 DEF NoMessage, MessageType

LEMMA MessageNext ==
    ASSUME MessageInv, Next
    PROVE  MessageInv'
<1> USE LifecycleAssumption
<1>1. CASE UNCHANGED Message
  BY <1>1 DEF MessageInv
<1>2. CASE Message' = NoMessage
  BY <1>2, NoMessageFits DEF MessageInv, MessageType
<1>3. CASE Message' = [Message EXCEPT !.ptr = 0]
  <2>1. Message \in MessageType
    BY DEF MessageInv, MessageType
  <2>2. /\ Message'.text = Message.text /\ Message'.ptr = 0
        /\ Message'.readers = Message.readers /\ Message'.full = Message.full
        /\ Message'.overlap = Message.overlap /\ Message' \in MessageType
    BY <1>3, <2>1 DEF MessageType
  <2>3. Message.ptr \in Nat
    BY <2>1 DEF MessageType
  <2> QED
    BY <2>2, <2>3 DEF MessageInv, MessageType
<1>4. CASE Insertion
  BY <1>1, <1>2, <1>4
     DEF Insertion, InitParts, Insert, qres_dev_register, qsup_dev_register, Register,
         qres_proc_register
<1>5. CASE qres_proc_unregister
  BY <1>1, <1>5 DEF qres_proc_unregister
<1>6. CASE Removal
  BY <1>1, <1>6
     DEF Removal, qres_dev_unregister, qsup_dev_unregister, Unregister, qres_cleanup,
         cleanup_servers, cleanup_users, cleanup_rules, FreeAll
<1>7. CASE Call
  BY <1>1, <1>7
     DEF Call, Calling, get_user_info, qsup_init_server, create_group, free_refused
<1>8. ASSUME NEW f \in Files, Process(f)
      PROVE  MessageInv'
  <2>1. CASE device_open(f)
    BY <1>3, <2>1 DEF device_open
  <2>2. CASE qsup_device_open(f) \/ device_release(f) \/ qsup_device_release(f)
    BY <1>1, <2>2 DEF qsup_device_open, device_release, qsup_device_release, Release
  <2>3. CASE create_server(f) \/ ioctl_destroy_server(f) \/ add_rule(f) \/ get_avail_gua_bw(f)
    BY <1>1, <2>3
       DEF create_server, ioctl_destroy_server, add_rule, get_avail_gua_bw, Calling
  <2> QED
    BY <1>8, <2>1, <2>2, <2>3, WriteKeeps, TestKeeps, TakeKeeps DEF Process
<1> QED
  BY <1>4, <1>5, <1>6, <1>7, <1>8 DEF Next

-----------------------------------------------------------------------------
(* The invariant holds. *)

LEMMA LifecycleInit ==
    ASSUME Init
    PROVE  LifecycleInv
<1> USE MemoryAssumption, LifecycleAssumption
<1>1. MemInv
  <2>1. /\ checked \in BOOLEAN /\ corrupted = FALSE
        /\ heap = [a \in {} |-> 0] /\ num_chunks = 0
        /\ chunks = [i \in Entries |-> FreeEntry]
    BY DEF Init, MemoryInit, FreshTable
  <2>2. DOMAIN heap = {} /\ heap = [a \in DOMAIN heap |-> heap[a]]
    BY <2>1
  <2>3. Used = {}
    BY <2>1 DEF Used, FreeEntry
  <2>4. TableAgrees /\ CheckProtects
    BY <2>1, <2>3, FS_EmptySet DEF TableAgrees, CheckProtects
  <2>5. FreeEntry \in [ptr : Addresses \cup {NULL}, size : 0 .. BlockSize]
    BY DEF FreeEntry
  <2>6. chunks \in [Entries -> [ptr : Addresses \cup {NULL}, size : 0 .. BlockSize]]
    BY <2>1, <2>5
  <2>7. DOMAIN heap \subseteq Addresses /\ \A a \in DOMAIN heap : heap[a] \in 1 .. BlockSize
    BY <2>2
  <2>8. checked \in BOOLEAN /\ corrupted \in BOOLEAN
    BY <2>1
  <2>9. num_chunks \in Int
    BY <2>1
  <2> QED
    BY <2>2, <2>4, <2>6, <2>7, <2>8, <2>9 DEF MemInv
<1>2. FileInv
  <2>1. /\ phase = "out" /\ file = [f \in Files |-> None] /\ refs = 0
        /\ Device_Open = [d \in Devices |-> 0] /\ call = NoCall
    BY DEF Init
  <2>2. OpenFiles = {} /\ \A d \in Devices : OpenOn(d) = {}
    BY <2>1 DEF OpenFiles, OpenOn
  <2>3. Cardinality(OpenFiles) = 0 /\ \A d \in Devices : Cardinality(OpenOn(d)) = 0
    BY <2>2, FS_EmptySet
  <2> QED
    BY <2>1, <2>2, <2>3 DEF FileInv, Phases
<1>3. RegInv
  BY DEF Init, RegInv, Devices, NoDevice
<1>4. /\ qsup_servers = <<>> /\ qsup_users = <<>> /\ rules = <<>>
      /\ call = NoCall /\ heap = [a \in {} |-> 0] /\ corrupted = FALSE /\ phase = "out"
  BY DEF Init, MemoryInit
<1>5. Records = {} /\ DOMAIN heap = {} /\ ToSet(<<>>) = {}
  BY <1>4, UserLists DEF Records
<1>6. CallInv
  BY <1>4 DEF CallInv, NoCall
<1>7. RecordsInv
  BY <1>5 DEF RecordsInv
<1>8. ListInv
  <2>1. /\ rules \in Seq(Addresses) /\ qsup_servers \in Seq({qsup(a) : a \in Addresses})
        /\ Distinct(rules)
    BY <1>4 DEF Distinct
  <2> QED
    BY <1>4, <1>5, <2>1 DEF ListInv
<1>9. AcceptInv
  BY <1>4, <1>5 DEF AcceptInv, NothingLost, NoCall
<1>10. MessageInv
  BY NoMessageFits DEF Init, MessageInv
<1> QED
  BY <1>1, <1>2, <1>3, <1>6, <1>7, <1>8, <1>9, <1>10 DEF LifecycleInv

LEMMA LifecycleStep ==
    ASSUME LifecycleInv, [Next]_vars
    PROVE  LifecycleInv'
<1>1. /\ MemInv /\ FileInv /\ RegInv /\ AllocInv /\ MessageInv
  BY DEF LifecycleInv, AllocInv
<1>2. CASE Next
  <2>1. MemInv' /\ FileInv' /\ RegInv' /\ AllocInv' /\ MessageInv'
    BY <1>1, <1>2, MemNext, FileNext, RegNext, AllocNext, MessageNext
  <2> QED
    BY <2>1 DEF LifecycleInv, AllocInv
<1>3. CASE UNCHANGED vars
  <2>1. /\ UNCHANGED memory /\ UNCHANGED opened
        /\ UNCHANGED <<phase, dev, proc_entry, inited, call, Message, accepted,
                       qsup_servers, qsup_users, rules>>
    BY <1>3 DEF vars, registered, lists
  <2>2. MemInv' /\ UNCHANGED <<heap, checked, corrupted, Tracked>>
    BY <1>1, <2>1, MemoryKept
  <2>3. FileInv'
    BY <1>1, <2>1, FilesKept DEF FileInv
  <2>4. RegInv' /\ MessageInv'
    BY <1>1, <2>1 DEF RegInv, MessageInv
  <2>5. AllocInv'
    BY <1>1, <2>1, <2>2, AllocKept DEF AllocInv, ListInv
  <2> QED
    BY <2>2, <2>3, <2>4, <2>5 DEF LifecycleInv, AllocInv
<1> QED
  BY <1>2, <1>3

LEMMA LifecycleInvariant ==
    Spec => []LifecycleInv
<1>1. Init => LifecycleInv
  BY LifecycleInit
<1>2. LifecycleInv /\ [Next]_vars => LifecycleInv'
  BY LifecycleStep
<1> QED
  BY <1>1, <1>2, PTL DEF Spec

-----------------------------------------------------------------------------
(* The servers in the list stay allocated. *)

ServersInv ==
    /\ server_list \in Seq(Addresses)
    /\ \A a \in ToSet(server_list) : a \in DOMAIN heap /\ heap[a] = Server
    /\ call # NoCall => call.ptr \notin ToSet(server_list)

\* The block of a server is freed only where the server is refused.
LEMMA ServerRemains ==
    ASSUME LifecycleInv, [Next]_vars, NEW a \in DOMAIN heap, heap[a] = Server,
           ~(free_refused /\ a = call.ptr)
    PROVE  a \in DOMAIN heap' /\ heap'[a] = Server
<1>1. MemInv /\ RecordsInv /\ ListInv /\ CallInv
  BY DEF LifecycleInv
<1>2. CASE heap' = heap
  BY <1>2
<1>3. ASSUME NEW size \in {Server, Record}, NEW p, qos_malloc(size, p)
      PROVE  a \in DOMAIN heap' /\ heap'[a] = Server
  <2>1. size \in 1 .. BlockSize
    BY Sizes
  <2>2. \/ UNCHANGED heap
        \/ /\ p \in Addresses \ DOMAIN heap
           /\ heap' = [b \in DOMAIN heap \cup {p} |-> IF b = p THEN size ELSE heap[b]]
    BY <1>1, <1>3, <2>1, MallocEffect
  <2> QED
    BY <2>2
<1>4. ASSUME NEW p, qos_free(p), p # a, p \in DOMAIN heap => (checked => p \in Tracked)
      PROVE  a \in DOMAIN heap' /\ heap'[a] = Server
  <2>1. heap' = heap \/ heap' = [b \in DOMAIN heap \ {p} |-> heap[b]]
    BY <1>1, <1>4, FreeEffect
  <2> QED
    BY <1>4, <2>1
<1>5. ASSUME NEW p \in Records, qos_free(p)
      PROVE  a \in DOMAIN heap' /\ heap'[a] = Server
  <2>1. p \in DOMAIN heap /\ heap[p] = Record /\ (checked => p \in Tracked)
    BY <1>1 DEF RecordsInv
  <2>2. p # a
    BY <2>1, Sizes
  <2> QED
    BY <1>4, <1>5, <2>1, <2>2
<1>6. CASE UNCHANGED vars
  BY <1>2, <1>6 DEF vars, memory
<1>7. CASE Insertion \/ qres_proc_unregister
  BY <1>2, <1>7 DEF Insertion, InitParts, Insert, qres_dev_register, qsup_dev_register,
     Register, qres_proc_register, qres_proc_unregister, memory
<1>8. CASE Removal
  <2>1. CASE qres_dev_unregister \/ qsup_dev_unregister \/ qres_cleanup
    BY <1>2, <2>1 DEF qres_dev_unregister, qsup_dev_unregister, Unregister, qres_cleanup, memory
  <2>2. CASE cleanup_servers
    <3>1. CASE qsup_servers = <<>>
      BY <1>2, <2>2, <3>1 DEF cleanup_servers, FreeAll, memory
    <3>2. CASE qsup_servers # <<>>
      <4> DEFINE fields == {qsup(b) : b \in Addresses}
      <4>1. Head(qsup_servers) \in fields
        BY <1>1, <3>2, OneLess DEF ListInv
      <4>2. PICK b \in Addresses : Head(qsup_servers) = qsup(b)
        BY <4>1
      <4>3. Head(qsup_servers) \notin DOMAIN heap
        BY <1>1, <4>2, AddressApart DEF MemInv
      <4>4. qos_free(Head(qsup_servers))
        BY <2>2, <3>2 DEF cleanup_servers, FreeAll
      <4> QED
        BY <1>4, <4>3, <4>4
    <3> QED
      BY <3>1, <3>2
  <2>3. CASE cleanup_users
    <3>1. CASE qsup_users = <<>>
      BY <1>2, <2>3, <3>1 DEF cleanup_users, FreeAll, memory
    <3>2. CASE qsup_users # <<>>
      <4>1. PICK b \in Addresses : qsup_users = <<b>>
        BY <1>1, <3>2 DEF ListInv
      <4>2. qos_free(b) /\ b \in Records
        BY <2>3, <3>2, <4>1, UserLists DEF cleanup_users, FreeAll, Records
      <4> QED
        BY <1>5, <4>2
    <3> QED
      BY <3>1, <3>2
  <2>4. CASE cleanup_rules
    <3>1. CASE rules = <<>>
      BY <1>2, <2>4, <3>1 DEF cleanup_rules, FreeAll, memory
    <3>2. CASE rules # <<>>
      <4>1. Head(rules) \in Records /\ qos_free(Head(rules))
        BY <1>1, <2>4, <3>2, OneLess DEF ListInv, cleanup_rules, FreeAll, Records
      <4> QED
        BY <1>5, <4>1
    <3> QED
      BY <3>1, <3>2
  <2> QED
    BY <1>8, <2>1, <2>2, <2>3, <2>4 DEF Removal
<1>9. CASE Call
  <2>1. CASE get_user_info
    BY <1>2, <1>3, <2>1 DEF get_user_info, memory
  <2>2. CASE qsup_init_server \/ create_group
    BY <1>2, <2>2 DEF qsup_init_server, create_group, memory
  <2>3. CASE free_refused
    <3>1. call # NoCall /\ qos_free(call.ptr)
      BY <2>3 DEF free_refused, Calling, NoCall
    <3>2. checked => call.ptr \in Tracked
      BY <1>1, <3>1 DEF CallInv
    <3> QED
      BY <1>4, <2>3, <3>1, <3>2
  <2> QED
    BY <1>9, <2>1, <2>2, <2>3 DEF Call
<1>10. ASSUME NEW f \in Files, Process(f)
       PROVE  a \in DOMAIN heap' /\ heap'[a] = Server
  <2>1. CASE create_server(f)
    BY <1>3, <2>1 DEF create_server
  <2>2. CASE add_rule(f)
    BY <1>3, <2>2 DEF add_rule
  <2>3. CASE get_avail_gua_bw(f)
    BY <1>3, <2>3 DEF get_avail_gua_bw
  <2>4. CASE ~create_server(f) /\ ~add_rule(f) /\ ~get_avail_gua_bw(f)
    BY <1>2, <1>10, <2>4 DEF Process, device_open, qsup_device_open, Open, device_release,
       qsup_device_release, Release, device_write, read_test, read_take, UseMessage,
       ioctl_destroy_server, memory
  <2> QED
    BY <2>1, <2>2, <2>3, <2>4
<1> QED
  BY <1>6, <1>7, <1>8, <1>9, <1>10 DEF Next

\* The list of servers grows by the one just created, and shrinks in a removal.
LEMMA ServerListSteps ==
    ASSUME LifecycleInv, ServersInv, [Next]_vars
    PROVE  /\ server_list' \in Seq(Addresses)
           /\ \A a \in ToSet(server_list') :
                 \/ a \in ToSet(server_list)
                 \/ create_group /\ a = call.ptr /\ call # NoCall
<1>1. server_list \in Seq(Addresses)
  BY DEF ServersInv
<1>2. CASE server_list' = server_list
  BY <1>1, <1>2
<1>3. CASE server_list' = <<>>
  BY <1>3, UserLists
<1>4. CASE create_group
  <2>1. call # NoCall /\ call.ptr \in Addresses
    BY <1>4 DEF create_group, Calling, NoCall, LifecycleInv, CallInv, MemInv
  <2>2. server_list' = <<call.ptr>> \o server_list \/ server_list' = server_list
    BY <1>4 DEF create_group
  <2> DEFINE p == call.ptr
  <2>3. p \in Addresses
    BY <2>1
  <2> HIDE DEF p
  <2>4. <<p>> \o server_list \in Seq(Addresses)
        /\ ToSet(<<p>> \o server_list) = {p} \cup ToSet(server_list)
    BY <1>1, <2>3, OneMore
  <2>5. CASE server_list' = <<p>> \o server_list
    BY <1>4, <2>1, <2>4, <2>5 DEF p
  <2> QED
    BY <1>2, <2>2, <2>5 DEF p
<1>5. CASE qres_cleanup /\ server_list # <<>>
  <2>1. server_list' = Tail(server_list)
    BY <1>5 DEF qres_cleanup
  <2>2. Tail(server_list) \in Seq(Addresses) /\ ToSet(Tail(server_list)) \subseteq ToSet(server_list)
    BY <1>1, <1>5, TailWithin
  <2> QED
    BY <2>1, <2>2
<1>6. CASE ~create_group /\ ~(qres_cleanup /\ server_list # <<>>)
  <2>1. server_list' = server_list \/ server_list' = <<>>
    <3>1. CASE UNCHANGED vars
      BY <3>1 DEF vars, lists
    <3>2. CASE Insertion \/ qres_proc_unregister
      BY <3>2 DEF Insertion, InitParts, Insert, qres_dev_register, qsup_dev_register,
         Register, qres_proc_register, qres_proc_unregister, lists
    <3>3. CASE Removal
      BY <1>6, <3>3 DEF Removal, qres_dev_unregister, qsup_dev_unregister, Unregister,
         qres_cleanup, cleanup_servers, cleanup_users, cleanup_rules, FreeAll, lists
    <3>4. CASE Call
      BY <1>6, <3>4 DEF Call, get_user_info, qsup_init_server, free_refused, lists
    <3>5. ASSUME NEW f \in Files, Process(f)
          PROVE  server_list' = server_list
      BY <3>5 DEF Process, device_open, qsup_device_open, Open, device_release,
         qsup_device_release, Release, device_write, read_test, read_take, UseMessage,
         create_server, ioctl_destroy_server, add_rule, get_avail_gua_bw, lists
    <3> QED
      BY <3>1, <3>2, <3>3, <3>4, <3>5 DEF Next
  <2> QED
    BY <1>2, <1>3, <2>1
<1> QED
  BY <1>4, <1>5, <1>6

\* The call goes on with its block, ends, or is new with a block that was free.
LEMMA CallSteps ==
    ASSUME LifecycleInv, [Next]_vars, call' # NoCall
    PROVE  \/ call # NoCall /\ call'.ptr = call.ptr /\ ~create_group
           \/ call'.ptr \notin DOMAIN heap /\ ~create_group
<1>1. ~create_group
  BY DEF create_group
<1>2. CASE call' = call
  BY <1>1, <1>2
<1>3. CASE Call
  <2>1. call # NoCall
    BY <1>3 DEF Call, get_user_info, qsup_init_server, create_group, free_refused, Calling,
       NoCall
  <2>2. call'.ptr = call.ptr
    BY <1>1, <1>3 DEF Call, get_user_info, qsup_init_server, free_refused, Step
  <2> QED
    BY <1>1, <2>1, <2>2
<1>4. ASSUME NEW f \in Files, create_server(f)
      PROVE  call'.ptr \notin DOMAIN heap
  <2>1. PICK p : qos_malloc(Server, p) /\ IF p = NULL THEN call' = NoCall ELSE Step("user", p)
    BY <1>4 DEF create_server
  <2>2. p # NULL /\ call'.ptr = p
    BY <2>1 DEF Step
  <2>3. Server \in 1 .. BlockSize /\ MemInv
    BY Sizes DEF LifecycleInv
  <2> QED
    BY <2>1, <2>2, <2>3, MallocEffect
<1>5. CASE ~Call /\ ~\E f \in Files : create_server(f)
  <2>1. CASE UNCHANGED vars
    BY <1>2, <2>1 DEF vars
  <2>2. CASE Insertion \/ qres_proc_unregister
    BY <1>2, <2>2 DEF Insertion, InitParts, Insert, qres_dev_register, qsup_dev_register,
       Register, qres_proc_register, qres_proc_unregister
  <2>3. CASE Removal
    BY <1>2, <2>3 DEF Removal, qres_dev_unregister, qsup_dev_unregister, Unregister,
       qres_cleanup, cleanup_servers, cleanup_users, cleanup_rules, FreeAll
  <2>4. ASSUME NEW f \in Files, Process(f)
        PROVE  call' = call
    BY <1>5, <2>4 DEF Process, device_open, qsup_device_open, Open, device_release,
       qsup_device_release, Release, device_write, read_test, read_take, UseMessage,
       ioctl_destroy_server, add_rule, get_avail_gua_bw
  <2> QED
    BY <1>2, <1>5, <2>1, <2>2, <2>3, <2>4 DEF Next
<1> QED
  BY <1>1, <1>3, <1>4, <1>5

LEMMA ServersStep ==
    ASSUME LifecycleInv, ServersInv, [Next]_vars
    PROVE  ServersInv'
<1>1. \A a \in ToSet(server_list) : a \in DOMAIN heap /\ heap[a] = Server
  BY DEF ServersInv
<1>2. call # NoCall => call.ptr \in DOMAIN heap /\ heap[call.ptr] = Server
  BY DEF LifecycleInv, CallInv
<1>3. ASSUME NEW a \in ToSet(server_list')
      PROVE  a \in DOMAIN heap' /\ heap'[a] = Server
  <2>1. a \in DOMAIN heap /\ heap[a] = Server
    BY <1>1, <1>2, <1>3, ServerListSteps
  <2>2. ~(free_refused /\ a = call.ptr)
    <3> SUFFICES ASSUME free_refused, a = call.ptr PROVE FALSE
      OBVIOUS
    <3>1. call.pc = "free"
      BY DEF free_refused, Calling
    <3>2. call # NoCall /\ ~create_group
      BY <3>1 DEF create_group, Calling, NoCall
    <3> QED
      BY <1>3, <3>2, ServerListSteps DEF ServersInv
  <2> QED
    BY <2>1, <2>2, ServerRemains
<1>4. call' # NoCall => call'.ptr \notin ToSet(server_list')
  BY <1>1, CallSteps, ServerListSteps DEF ServersInv
<1>5. server_list' \in Seq(Addresses)
  BY ServerListSteps
<1> QED
  BY <1>3, <1>4, <1>5 DEF ServersInv

LEMMA ServersInvariant == Spec => []ServersInv
<1>1. Init => ServersInv
  BY UserLists DEF Init, ServersInv
<1> QED
  BY <1>1, LifecycleInvariant, ServersStep, PTL DEF Spec

-----------------------------------------------------------------------------
(* Theorems. *)

\* The table of the tracker, whatever its size, agrees with what is allocated:
\* it lets nothing but blocks through to the kernel, and finds no pointer valid
\* that is not inside one.
THEOREM MemoryAlwaysSound == Spec => []MemorySound
<1>1. LifecycleInv => MemorySound
  BY ValidWithin DEF LifecycleInv
<1> QED
  BY <1>1, LifecycleInvariant, PTL

\* However many files are open, each is served and keeps the module where it is.
THEOREM FilesAlwaysServed == Spec => []FilesServed
<1>1. LifecycleInv => FilesServed
  <2> SUFFICES ASSUME LifecycleInv
               PROVE  FilesServed
    OBVIOUS
  <2>1. FileInv
    BY DEF LifecycleInv
  <2>2. OpenIsServed
    <3> SUFFICES ASSUME NEW f \in Files, file[f] # None
                 PROVE  inited
      BY DEF OpenIsServed
    <3>1. f \in OpenFiles
      BY DEF OpenFiles
    <3> QED
      BY <2>1, <3>1 DEF FileInv, Serving
  <2>3. RefsAreFiles
    <3>1. ASSUME phase \notin Serving
          PROVE  refs = 0
      <4>1. OpenFiles = {}
        BY <2>1, <3>1 DEF FileInv
      <4>2. Cardinality(OpenFiles) = 0
        BY <4>1, FS_EmptySet
      <4> QED
        BY <2>1, <4>2 DEF FileInv
    <3> QED
      BY <2>1, <3>1 DEF FileInv, RefsAreFiles, OpenFiles, OpenOn, Serving
  <2> QED
    BY <2>2, <2>3 DEF FilesServed
<1> QED
  BY <1>1, LifecycleInvariant, PTL

\* A removal leaves blocks of servers at most, and nothing of a module whose
\* supervisor never accepted a server; until then no call loses memory, and none
\* ever loses a record or frees a server that is in the list.
THEOREM RemovalLeavesNothing == Spec => []NothingLeft
<1>1. LifecycleInv /\ ServersInv => NothingLeft
  <2> SUFFICES ASSUME LifecycleInv, ServersInv
               PROVE  NothingLeft
    OBVIOUS
  <2>1. /\ FileInv /\ RegInv /\ CallInv /\ RecordsInv /\ ListInv /\ AcceptInv
        /\ heap = [a \in DOMAIN heap |-> heap[a]]
    BY DEF LifecycleInv, MemInv
  <2>2. ASSUME phase = "out"
        PROVE  /\ ~proc_entry
               /\ \A d \in Devices : dev[d] = NoDevice
               /\ \A a \in DOMAIN heap : heap[a] = Server
               /\ ~accepted => heap = [a \in {} |-> 0] /\ ~corrupted
    <3>1. ~proc_entry /\ \A d \in Devices : dev[d] = NoDevice
      BY <2>1, <2>2 DEF RegInv, Devices
    <3>2. qsup_users = <<>> /\ rules = <<>> /\ call = NoCall
      BY <2>1, <2>2, RemovalIdle DEF ListInv, Serving
    <3>3. Records = {}
      BY <3>2, UserLists DEF Records
    <3>4. \A a \in DOMAIN heap : heap[a] = Server
      BY <2>1, <3>3 DEF RecordsInv
    <3>5. ASSUME ~accepted
          PROVE  heap = [a \in {} |-> 0] /\ ~corrupted
      <4>1. DOMAIN heap = {}
        BY <2>1, <3>2, <3>3, <3>5 DEF AcceptInv, NothingLost, NoCall, Records
      <4>2. heap = [a \in {} |-> heap[a]]
        BY <2>1, <4>1
      <4>3. [a \in {} |-> heap[a]] = [a \in {} |-> 0]
        OBVIOUS
      <4> QED
        BY <2>1, <3>5, <4>2, <4>3 DEF AcceptInv
    <3> QED
      BY <3>1, <3>4, <3>5
  <2>3. RemovedIsGone
    BY <2>2 DEF RemovedIsGone
  <2>4. KnownIsAllocated
    <3>1. ASSUME NEW a \in {call.ptr} \ {NULL}
          PROVE  a \in DOMAIN heap /\ heap[a] = Server
      BY <2>1, <3>1 DEF CallInv, NoCall
    <3> QED
      BY <2>1, <3>1 DEF KnownIsAllocated, RecordsInv, Records, ServersInv
  <2> QED
    BY <2>1, <2>3, <2>4 DEF AcceptInv, NothingLeft
<1> QED
  BY <1>1, LifecycleInvariant, ServersInvariant, PTL

\* A message of any size is read within its buffer until a write fills it or two
\* reads overlap.
THEOREM PointerStaysInside == Spec => []PointerInside
<1>1. LifecycleInv => PointerInside
  <2> SUFFICES ASSUME LifecycleInv, ~Message.full, ~Message.overlap
               PROVE  Message.ptr \in 0 .. BUF_LEN - 1
    BY DEF PointerInside
  <2>1. Message.ptr <= BUF_LEN - 1
    BY DEF LifecycleInv, MessageInv
  <2>2. Message.ptr \in Nat
    BY DEF LifecycleInv, MessageInv, MessageType
  <2> QED
    BY <2>1, <2>2, LifecycleAssumption
<1> QED
  BY <1>1, LifecycleInvariant, PTL
=============================================================================

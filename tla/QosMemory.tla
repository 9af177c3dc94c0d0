------------------------------ MODULE QosMemory ------------------------------
(***************************************************************************)
(* The allocator of the modules (src/src/qos_memory.c).  Built with        *)
(* QOS_MEMORY_CHECK it keeps a table of the blocks it handed out, refuses  *)
(* to free anything else and can tell whether a pointer is inside a block; *)
(* built without it is the kernel's allocator, and frees what it is given. *)
(*                                                                         *)
(* A block starts at a multiple of BlockSize and has 1 .. BlockSize cells; *)
(* address zero is NULL.  Every operation is called with the spin lock of  *)
(* the table, so each is one step.                                         *)
(***************************************************************************)
EXTENDS Integers, FiniteSets

CONSTANTS
    MAX_CHUNK_NUMBER,   \* entries of the table
    NumBlocks,          \* blocks the kernel has
    BlockSize           \* cells of the largest block

ASSUME MemoryAssumption ==
    /\ MAX_CHUNK_NUMBER \in Nat \ {0}
    /\ NumBlocks \in Nat
    /\ BlockSize \in Nat \ {0}

VARIABLES
    checked,        \* whether the build has QOS_MEMORY_CHECK
    heap,           \* the size of each block the kernel has handed out
    chunks,         \* the table
    num_chunks,     \* entries in use
    mem_failure,    \* whether an allocation failed because the table was full
    corrupted       \* something that is not a block was given to the kernel

table == <<chunks, num_chunks, mem_failure>>
memory == <<checked, heap, table, corrupted>>

NULL == 0
Addresses == {b * BlockSize : b \in 1 .. NumBlocks}
Entries == 0 .. MAX_CHUNK_NUMBER - 1
FreeEntry == [ptr |-> NULL, size |-> 0]

Used == {i \in Entries : chunks[i].ptr # NULL}
Tracked == {chunks[i].ptr : i \in Used}

FreshTable ==
    /\ chunks = [i \in Entries |-> FreeEntry]
    /\ num_chunks = 0
    /\ mem_failure = FALSE

MemoryInit ==
    /\ checked \in BOOLEAN
    /\ heap = [a \in {} |-> 0]
    /\ FreshTable
    /\ corrupted = FALSE

\* The table of a module that was inserted again.
FreshTable_next ==
    /\ chunks' = [i \in Entries |-> FreeEntry]
    /\ num_chunks' = 0
    /\ mem_failure' = FALSE

\* The first entry with this pointer, MAX_CHUNK_NUMBER when there is none.
find_chunk(ptr) ==
    IF \E i \in Entries : chunks[i].ptr = ptr
    THEN CHOOSE i \in Entries : /\ chunks[i].ptr = ptr
                                /\ \A j \in 0 .. i - 1 : chunks[j].ptr # ptr
    ELSE MAX_CHUNK_NUMBER

add_chunk(ptr, size) ==
    /\ chunks' = [chunks EXCEPT ![find_chunk(NULL)] = [ptr |-> ptr, size |-> size]]
    /\ num_chunks' = num_chunks + 1

\* Variants: the entry is not cleared; the count is not corrected.
rem_chunk_Stale(ptr) == num_chunks' = num_chunks - 1 /\ UNCHANGED chunks
rem_chunk_Count(ptr) ==
    /\ chunks' = [chunks EXCEPT ![find_chunk(ptr)].ptr = NULL]
    /\ UNCHANGED num_chunks

\* An entry is free when its pointer is NULL; it keeps its size.
rem_chunk(ptr) ==
    /\ chunks' = [chunks EXCEPT ![find_chunk(ptr)].ptr = NULL]
    /\ num_chunks' = num_chunks - 1

\* Whether the pointer is inside a block of the table.
qos_mem_valid(ptr) ==
    checked => \E i \in Entries : /\ ptr >= chunks[i].ptr
                                  /\ ptr < chunks[i].ptr + chunks[i].size

\* The outcomes of an allocation: what the caller gets is p.
qos_malloc(size, p) ==
    \/ /\ p = NULL   \* the kernel has no memory
       /\ UNCHANGED memory
    \/ /\ p = NULL
       /\ checked /\ num_chunks = MAX_CHUNK_NUMBER
       /\ mem_failure' = TRUE
       /\ UNCHANGED <<checked, heap, chunks, num_chunks, corrupted>>
    \/ /\ p \in Addresses \ DOMAIN heap
       /\ checked => num_chunks < MAX_CHUNK_NUMBER
       /\ heap' = [a \in DOMAIN heap \cup {p} |-> IF a = p THEN size ELSE heap[a]]
       /\ IF checked THEN add_chunk(p, size) ELSE UNCHANGED <<chunks, num_chunks>>
       /\ UNCHANGED <<checked, mem_failure, corrupted>>

\* kfree: only the start of a block that was handed out can be given back.
qos_ll_free(ptr) ==
    /\ heap' = [a \in DOMAIN heap \ {ptr} |-> heap[a]]
    /\ corrupted' = (corrupted \/ ptr \notin DOMAIN heap)

\* Variant: what is not in the table is given to the kernel all the same.
qos_free_Any(ptr) ==
    /\ qos_ll_free(ptr)
    /\ IF ptr \in Tracked THEN rem_chunk(ptr) ELSE UNCHANGED <<chunks, num_chunks>>
    /\ UNCHANGED <<checked, mem_failure>>

qos_free(ptr) ==
    \/ /\ ptr = NULL \/ (checked /\ find_chunk(ptr) = MAX_CHUNK_NUMBER)
       /\ UNCHANGED memory
    \/ /\ ptr # NULL
       /\ checked => find_chunk(ptr) # MAX_CHUNK_NUMBER
       /\ qos_ll_free(ptr)
       /\ IF checked THEN rem_chunk(ptr) ELSE UNCHANGED <<chunks, num_chunks>>
       /\ UNCHANGED <<checked, mem_failure>>

qos_mem_clean == checked => num_chunks = 0 /\ ~mem_failure

-----------------------------------------------------------------------------
(* Properties. *)

\* The table counts its entries, names no block twice and names only blocks
\* that are allocated with the size they have (qos_memory.c:66-88).
TableAgrees ==
    checked => /\ num_chunks = Cardinality(Used)
               /\ \A i, j \in Used : chunks[i].ptr = chunks[j].ptr => i = j
               /\ \A i \in Used : /\ chunks[i].ptr \in DOMAIN heap
                                  /\ chunks[i].size = heap[chunks[i].ptr]

\* With the check no pointer that is not the start of a block ever reaches the
\* kernel (qos_memory.c:186-190).
CheckProtects == checked => ~corrupted

\* A pointer beyond the first page that is found valid is inside a block that
\* is allocated.  Below, pointers are found valid once an entry was freed: it
\* keeps its size and counts as a block at NULL (qos_memory.c:111).
ValidIsAllocated ==
    checked => \A p \in BlockSize .. (NumBlocks + 1) * BlockSize :
                   qos_mem_valid(p) =>
                       \E a \in DOMAIN heap : p \in a .. a + heap[a] - 1

\* The table, what it lets through to the kernel and what it calls valid all
\* agree with the memory that is allocated.
MemorySound == TableAgrees /\ CheckProtects /\ ValidIsAllocated
=============================================================================

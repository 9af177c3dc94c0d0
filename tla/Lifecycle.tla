------------------------------ MODULE Lifecycle ------------------------------
(***************************************************************************)
(* Insertion and removal of the kernel module (src/src/qres_mod.c,         *)
(* src/src/qsup_mod.c), its two character devices, and the memory that the *)
(* calls made through them take and the removal gives back.                *)
(*                                                                         *)
(* A registration that fails is only logged, so every later step runs      *)
(* whatever failed before.  The kernel takes a reference on the module for *)
(* each open file, the module one more; it is removed only without any.    *)
(* The two files that the processes open serve for both devices.  One call *)
(* is in progress at a time: that calls interleave is module Qres's part.  *)
(* `work` is what the processes of a behaviour use the devices for.        *)
(***************************************************************************)
EXTENDS QosMemory, Sequences, SequencesExt

CONSTANTS
    Files,          \* files the processes have for the devices
    BUF_LEN,        \* size of the message a device keeps
    None            \* no file, no device

Devices == {"qres", "qsup"}

ASSUME LifecycleAssumption ==
    /\ IsFiniteSet(Files) /\ None \notin Devices
    /\ BUF_LEN \in Nat \ {0}
    /\ BlockSize > 1

VARIABLES
    phase,          \* where insertion or removal stands
    dev,            \* the devices
    proc_entry,     \* whether the entry in /proc exists
    file,           \* the device each file is open on, or None
    refs,           \* references to the module
    Device_Open,    \* the counters of open files
    inited,         \* whether both parts, qres and qsup, were initialised
    server_list,    \* the servers, by the address of their block
    group,          \* the scheduler group of each: "live", "freed" or used "again"
    qsup_servers,   \* the descriptors in the supervisor's list
    qsup_users,     \* the users' records
    rules,          \* the rules
    call,           \* the call in progress
    Message,        \* the message of the device, and how it is used
    work,           \* "memory" or "message"
    accepted        \* whether the supervisor has ever accepted a server

lists == <<server_list, group, qsup_servers, qsup_users, rules>>
registered == <<dev, proc_entry>>
opened == <<file, refs, Device_Open>>
vars == <<memory, phase, registered, opened, inited, lists, call, Message, work, accepted>>

NoDevice == [region |-> FALSE, cdev |-> "zero"]
NoCall == [pc |-> "idle", ptr |-> NULL]
\* A message of zeros; readers are between the test and the use of the pointer.
NoMessage == [text |-> [i \in 0 .. BUF_LEN - 1 |-> 0], ptr |-> 0, readers |-> {},
              full |-> FALSE, overlap |-> FALSE]

Server == 2     \* the size of a qres_server_t, and of the other records
Record == 1
ASSUME SizesFit == {Server, Record} \subseteq 1 .. BlockSize

\* The supervisor's descriptor is a field inside the block of the server.
qsup(ptr) == ptr + 1

Init ==
    /\ MemoryInit
    /\ phase = "out"
    /\ dev = [d \in Devices |-> NoDevice]
    /\ proc_entry = FALSE
    /\ file = [f \in Files |-> None]
    /\ refs = 0
    /\ Device_Open = [d \in Devices |-> 0]
    /\ inited = FALSE
    /\ server_list = <<>>
    /\ group = [a \in {} |-> "live"]
    /\ qsup_servers = <<>>
    /\ qsup_users = <<>>
    /\ rules = <<>>
    /\ call = NoCall
    /\ Message = NoMessage
    /\ work \in {"memory", "message"}
    /\ accepted = FALSE

-----------------------------------------------------------------------------
(* Insertion. *)

\* The module's data is fresh; then the parts are initialised.
Insert(done) ==
    /\ phase = "out"
    /\ phase' = "register qres"
    /\ inited' = done
    /\ FreshTable_next
    /\ server_list' = <<>> /\ group' = [a \in {} |-> "live"]
    /\ qsup_servers' = <<>> /\ qsup_users' = <<>> /\ rules' = <<>>
    /\ dev' = [d \in Devices |-> NoDevice]
    /\ Message' = NoMessage
    /\ UNCHANGED <<checked, heap, corrupted, proc_entry, opened, call, work, accepted>>

\* Variant: the devices are registered before the parts are initialised.
InitParts_Late == Insert(FALSE)

\* qres_init and qsup_init_ks cannot fail.
InitParts == Insert(TRUE)

\* The number of the device may be refused, or its cdev.
Registered(d) ==
    \/ UNCHANGED dev
    \/ dev' = [dev EXCEPT ![d] = [region |-> TRUE, cdev |-> "inited"]]
    \/ dev' = [dev EXCEPT ![d] = [region |-> TRUE, cdev |-> "added"]]

Register(d, next) ==
    /\ Registered(d)
    /\ phase' = next
    /\ UNCHANGED <<memory, proc_entry, opened, inited, lists, call, Message, work, accepted>>

qres_dev_register == phase = "register qres" /\ Register("qres", "register qsup")
qsup_dev_register == phase = "register qsup" /\ Register("qsup", "register proc")

qres_proc_register ==
    /\ phase = "register proc"
    /\ proc_entry' \in BOOLEAN
    /\ phase' = "in"
    /\ UNCHANGED <<memory, dev, opened, inited, lists, call, Message, work, accepted>>

-----------------------------------------------------------------------------
(* Files.  A file can be opened as soon as its device is registered.       *)

Open(f, d) ==
    /\ phase \in {"register qsup", "register proc", "in"}
    /\ file[f] = None
    /\ dev[d].cdev = "added"
    /\ file' = [file EXCEPT ![f] = d]
    /\ Device_Open' = [Device_Open EXCEPT ![d] = @ + 1]
    /\ refs' = refs + 2
    /\ UNCHANGED <<memory, phase, registered, inited, lists, call, work, accepted>>

device_open(f) == Open(f, "qres") /\ Message' = [Message EXCEPT !.ptr = 0]

qsup_device_open(f) == Open(f, "qsup") /\ UNCHANGED Message

\* A file is closed when no call on it is in progress.
Release(f, d, count) ==
    /\ file[f] = d
    /\ call = NoCall
    /\ f \notin Message.readers
    /\ file' = [file EXCEPT ![f] = None]
    /\ Device_Open' = [Device_Open EXCEPT ![d] = @ - 1]
    /\ refs' = refs - count
    /\ UNCHANGED <<memory, phase, registered, inited, lists, call, Message, work, accepted>>

\* Variant: the reference the module took is not given back.
device_release_Leak(f) == Release(f, "qres", 1)

device_release(f) == Release(f, "qres", 2)

qsup_device_release(f) == Release(f, "qsup", 2)

-----------------------------------------------------------------------------
(* Reading and writing the message.  Nothing keeps two readers apart.      *)

UseMessage(f, m) ==
    /\ work = "message"
    /\ file[f] = "qres"
    /\ Message' = m
    /\ UNCHANGED <<memory, phase, registered, opened, inited, lists, call, work, accepted>>

\* What is behind the buffer is not known; it is taken to be text.
Character(i) == IF i < BUF_LEN THEN Message.text[i] ELSE 1

\* Variant: the buffer is not cut at its size.
device_write_Long(f, text) ==
    UseMessage(f, [Message EXCEPT
        !.text = [i \in 0 .. BUF_LEN - 1 |-> IF i < Len(text) THEN text[i + 1] ELSE 1],
        !.ptr = 0])

\* What was written replaces the start of the message; the rest stays.
device_write(f, text) ==
    LET n == IF Len(text) < BUF_LEN THEN Len(text) ELSE BUF_LEN
    IN  UseMessage(f, [Message EXCEPT
            !.text = [i \in 0 .. BUF_LEN - 1 |-> IF i < n THEN text[i + 1] ELSE @[i]],
            !.ptr = 0,
            !.full = @ \/ n = BUF_LEN])

\* device_read tests the character at the pointer, then takes it and moves on.
read_test(f) ==
    /\ f \notin Message.readers
    /\ Character(Message.ptr) # 0
    /\ Message.ptr <= BUF_LEN
    /\ UseMessage(f, [Message EXCEPT
           !.readers = @ \cup {f},
           !.overlap = @ \/ Message.readers # {}])

read_take(f) ==
    /\ f \in Message.readers
    /\ UseMessage(f, [Message EXCEPT !.ptr = @ + 1, !.readers = @ \ {f}])

-----------------------------------------------------------------------------
(* Calls that take memory.                                                 *)

Calling(pc) ==
    /\ work = "memory"
    /\ call.pc = pc
    /\ UNCHANGED <<phase, registered, opened, inited, Message, work>>

Step(pc, ptr) == call' = [pc |-> pc, ptr |-> ptr]

\* qres_create_server: a block for the server, ...
create_server(f) ==
    /\ Calling("idle")
    /\ file[f] = "qres"
    /\ \E p \in Addresses \cup {NULL} :
          /\ qos_malloc(Server, p)
          /\ IF p = NULL THEN call' = NoCall ELSE Step("user", p)
    /\ UNCHANGED <<lists, accepted>>

\* ... the record of its user when the supervisor has none, unless the server is
\* refused before, ...
get_user_info ==
    /\ Calling("user")
    /\ \/ UNCHANGED <<memory, qsup_users>> /\ Step("free", call.ptr)
       \/ qsup_users # <<>> /\ UNCHANGED <<memory, qsup_users>> /\ Step("admit", call.ptr)
       \/ /\ qsup_users = <<>>
          /\ \E p \in Addresses \cup {NULL} :
                /\ qos_malloc(Record, p)
                /\ qsup_users' = IF p = NULL THEN <<>> ELSE <<p>>
                /\ Step(IF p = NULL THEN "free" ELSE "admit", call.ptr)
    /\ UNCHANGED <<server_list, group, qsup_servers, rules, accepted>>

\* ... the admission, ...
qsup_init_server ==
    /\ Calling("admit")
    /\ \/ Step("free", call.ptr) /\ UNCHANGED <<qsup_servers, accepted>>
       \/ /\ Step("group", call.ptr)
          /\ qsup_servers' = <<qsup(call.ptr)>> \o qsup_servers
          /\ accepted' = TRUE
    /\ UNCHANGED <<memory, server_list, group, qsup_users, rules>>

\* ... and the group.  Without one the server leaves the supervisor's list, and
\* since qres_init_server returns what the supervisor last returned, which was
\* no error, its block is not freed.
create_group ==
    /\ Calling("group")
    /\ call' = NoCall
    /\ \/ /\ server_list' = <<call.ptr>> \o server_list
          /\ group' = [a \in DOMAIN group \cup {call.ptr} |->
                         IF a = call.ptr THEN "live" ELSE group[a]]
          /\ UNCHANGED qsup_servers
       \/ qsup_servers' = Tail(qsup_servers) /\ UNCHANGED <<server_list, group>>
    /\ UNCHANGED <<memory, qsup_users, rules, accepted>>

\* Variant: the block of a server that is refused is not freed.
free_refused_Not ==
    /\ Calling("free")
    /\ call' = NoCall
    /\ UNCHANGED <<memory, lists, accepted>>

free_refused ==
    /\ Calling("free")
    /\ qos_free(call.ptr)
    /\ call' = NoCall
    /\ UNCHANGED <<lists, accepted>>

\* qres_destroy_server destroys the group and leaves the server in its lists; a
\* group destroyed a second time is used after it was freed.
destroy_server(p) == group' = [group EXCEPT ![p] = IF @ = "live" THEN "freed" ELSE "again"]

ioctl_destroy_server(f) ==
    /\ Calling("idle")
    /\ file[f] = "qres"
    /\ \E p \in ToSet(server_list) : destroy_server(p)
    /\ UNCHANGED <<memory, server_list, qsup_servers, qsup_users, rules, call, accepted>>

\* qsup_add_group_rule, and a user rule alike: a record for the rule.
add_rule(f) ==
    /\ Calling("idle")
    /\ file[f] = "qsup"
    /\ \E p \in Addresses \cup {NULL} :
          /\ qos_malloc(Record, p)
          /\ rules' = IF p = NULL THEN rules ELSE <<p>> \o rules
    /\ UNCHANGED <<server_list, group, qsup_servers, qsup_users, call, accepted>>

\* The query for the available bandwidth creates the record of the user.
get_avail_gua_bw(f) ==
    /\ Calling("idle")
    /\ file[f] = "qsup"
    /\ qsup_users = <<>>
    /\ \E p \in Addresses \cup {NULL} :
          /\ qos_malloc(Record, p)
          /\ qsup_users' = IF p = NULL THEN <<>> ELSE <<p>>
    /\ UNCHANGED <<server_list, group, qsup_servers, rules, call, accepted>>

-----------------------------------------------------------------------------
(* Removal.                                                                *)

\* The kernel removes a module that nobody holds a reference on.
qres_proc_unregister ==
    /\ phase = "in"
    /\ refs = 0
    /\ phase' = "unregister qres"
    /\ proc_entry' = FALSE
    /\ UNCHANGED <<memory, dev, opened, inited, lists, call, Message, work, accepted>>

\* Both are unregistered, whether they were registered or not.
Unregister(d, next) ==
    /\ dev' = [dev EXCEPT ![d] = [region |-> FALSE, cdev |-> "zero"]]
    /\ phase' = next
    /\ UNCHANGED <<memory, proc_entry, opened, inited, lists, call, Message, work, accepted>>

qres_dev_unregister == phase = "unregister qres" /\ Unregister("qres", "unregister qsup")
qsup_dev_unregister == phase = "unregister qsup" /\ Unregister("qsup", "destroy servers")

\* qres_cleanup destroys the servers in the list, one after the other, those
\* that were destroyed before as well.
qres_cleanup ==
    /\ phase = "destroy servers"
    /\ IF server_list = <<>>
       THEN phase' = "free servers" /\ UNCHANGED <<server_list, group>>
       ELSE /\ destroy_server(Head(server_list))
            /\ server_list' = Tail(server_list)
            /\ UNCHANGED phase
    /\ UNCHANGED <<memory, registered, opened, inited, qsup_servers, qsup_users, rules,
                   call, Message, work, accepted>>

\* The loops of qsup_cleanup: the first of the list leaves it and is freed.
FreeAll(here, list, next) ==
    /\ phase = here
    /\ IF list = <<>>
       THEN phase' = next /\ UNCHANGED <<memory, list>>
       ELSE qos_free(Head(list)) /\ list' = Tail(list) /\ UNCHANGED phase
    /\ UNCHANGED <<registered, opened, inited, server_list, group, call, Message, work,
                   accepted>>

\* What is freed here is not a block but a field inside the block of a server.
cleanup_servers ==
    FreeAll("free servers", qsup_servers, "free users") /\ UNCHANGED <<qsup_users, rules>>

\* Variant: the records of the users are left.
cleanup_users_Not ==
    /\ phase = "free users"
    /\ phase' = "free rules"
    /\ UNCHANGED <<memory, registered, opened, inited, lists, call, Message, work, accepted>>

cleanup_users ==
    FreeAll("free users", qsup_users, "free rules") /\ UNCHANGED <<qsup_servers, rules>>

\* Variant: the loop does not move on.
cleanup_rules_Stuck ==
    /\ phase = "free rules"
    /\ IF rules = <<>> THEN phase' = "out" /\ UNCHANGED memory
       ELSE qos_free(Head(rules)) /\ UNCHANGED phase
    /\ UNCHANGED <<registered, opened, inited, lists, call, Message, work, accepted>>

cleanup_rules ==
    FreeAll("free rules", rules, "out") /\ UNCHANGED <<qsup_servers, qsup_users>>

-----------------------------------------------------------------------------

Texts == UNION {[1 .. n -> {0, 1}] : n \in 1 .. BUF_LEN + 1}

Insertion ==
    \/ InitParts \/ qres_dev_register \/ qsup_dev_register \/ qres_proc_register

Removal ==
    \/ qres_dev_unregister \/ qsup_dev_unregister \/ qres_cleanup
    \/ cleanup_servers \/ cleanup_users \/ cleanup_rules

Call == get_user_info \/ qsup_init_server \/ create_group \/ free_refused

Process(f) ==
    \/ device_open(f) \/ qsup_device_open(f)
    \/ device_release(f) \/ qsup_device_release(f)
    \/ \E text \in Texts : device_write(f, text)
    \/ read_test(f) \/ read_take(f)
    \/ create_server(f) \/ ioctl_destroy_server(f)
    \/ add_rule(f) \/ get_avail_gua_bw(f)

Next ==
    \/ Insertion \/ qres_proc_unregister \/ Removal \/ Call
    \/ \E f \in Files : Process(f)

\* A removal that has begun is carried through by one process of the kernel.
Spec == Init /\ [][Next]_vars /\ WF_vars(Removal)

-----------------------------------------------------------------------------
(* Properties. *)

\* An ioctl is served only when both parts are initialised: the device that
\* takes it is registered after them (qres_mod.c:304-308).
OpenIsServed == \A f \in Files : file[f] # None => inited

\* The module keeps two references for each open file, its own and the kernel's,
\* so that none is open once the removal begins, and the module can be removed
\* once all are closed (qres_mod.c:65, 83).
RefsAreFiles ==
    /\ refs = 2 * Cardinality({f \in Files : file[f] # None})
    /\ \A d \in Devices : Device_Open[d] = Cardinality({f \in Files : file[f] = d})
    /\ phase \notin {"register qsup", "register proc", "in"} => refs = 0

\* An open file is served, and keeps the module where it is.
FilesServed == OpenIsServed /\ RefsAreFiles

\* Nothing of a removed module is registered, whichever registrations failed.
\* What is not given back are blocks of servers, and nothing but a server that
\* was once accepted can make the module free or use what is not its own
\* (qres_mod.c:333-362, qsup.c:186-215).
RemovedIsGone ==
    phase = "out" =>
        /\ ~proc_entry
        /\ \A d \in Devices : dev[d] = NoDevice
        /\ \A a \in DOMAIN heap : heap[a] = Server
        /\ ~accepted => heap = [a \in {} |-> 0] /\ ~corrupted

\* Before the first server is accepted no call leaves memory behind: what is
\* allocated is in a list or in the call in progress (qres.c:118-124).
NothingLost ==
    ~accepted => DOMAIN heap = ToSet(qsup_users) \cup ToSet(rules) \cup
                                  ({call.ptr} \ {NULL})

\* Nor does a later one lose a record, or free what a list still names: the
\* records that are allocated are those of the lists, and the servers in the list,
\* and the one being created, stay allocated (qres.c:118-146, qsup.c:186-215).
KnownIsAllocated ==
    /\ {a \in DOMAIN heap : heap[a] = Record} = ToSet(qsup_users) \cup ToSet(rules)
    /\ \A a \in ToSet(server_list) \cup ({call.ptr} \ {NULL}) :
          a \in DOMAIN heap /\ heap[a] = Server

\* A removal gives back what was taken, and until then all of it is known, but
\* the blocks of servers that the supervisor once accepted.
NothingLeft == RemovedIsGone /\ NothingLost /\ KnownIsAllocated

\* The message is read within its buffer as long as no write filled it, which
\* leaves no end mark, and no two reads overlapped (qres_mod.c:109-127, 149).
PointerInside ==
    Message.full \/ Message.overlap \/ Message.ptr \in 0 .. BUF_LEN - 1

\* A removal that has begun comes to its end.
RemovalCompletes == (phase = "unregister qres") ~> (phase = "out")
=============================================================================

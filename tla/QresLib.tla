------------------------------- MODULE QresLib -------------------------------
(***************************************************************************)
(* The library of the reservation layer (src/qreslib/qres_lib.c) and the   *)
(* programs that use it, over the device of module QresGw.  A process has  *)
(* one descriptor of the device and one copy of the last parameters it set *)
(* for any server; its threads share both without a lock.  A call is three *)
(* steps (the device is opened if it is not, the ioctl, the return) and    *)
(* threads interleave between them.                                        *)
(***************************************************************************)
EXTENDS LibUse

CONSTANTS
    Jobs        \* what may run: a program, whose threads have a user id each

ASSUME JobsAssumption == \A j \in Jobs : JobFits(j)

VARIABLES
    job,        \* what runs: chosen at first
    servers,    \* the servers created, which nothing deletes
    lib,        \* of each process: qres_fd, the files open, server_params
    params,     \* the structures of parameters of the program
    th,         \* the threads
    elapsed,    \* whether the time a thread waits for is over
    happened,   \* the faults there were
    oops        \* a group was used that is gone or does not know its thread

vars == <<job, servers, lib, params, th, elapsed, happened, oops>>

Threads == {1, 2}

Closed == [fd |-> FALSE, open |-> 0, server_params |-> NoParams]

\* A thread: its process, where it is in the call at pos, the server it created,
\* the request and the answer, whether it saw that it is late, and its group.
Thread(pc, proc) ==
    [pc |-> pc, proc |-> proc, pos |-> 1, sid |-> QRES_SID_NULL, msg |-> QRES_SID_NULL,
     rv |-> "OK", val |-> 0, late |-> FALSE, group |-> 0]

Init ==
    /\ job \in Jobs
    /\ servers = <<>>
    /\ lib = [p \in Threads |-> Closed]
    /\ params = job.program.structs
    /\ th = [t \in Threads |-> IF t = 1 THEN Thread("prog", 1) ELSE Thread("none", 2)]
    /\ elapsed = [t \in Threads |-> TRUE]
    /\ happened = {}
    /\ oops = FALSE

-----------------------------------------------------------------------------
Prog(t) == job.program.progs[t]
Call(t) == Prog(t)[th[t].pos]
StructOf(t) == IF job.program.shared THEN 1 ELSE t
Param(t) == params[StructOf(t)]
Lib(t) == lib[th[t].proc]

Running(t) == ~oops /\ th[t].pc = "prog" /\ th[t].pos <= Len(Prog(t))
Calls(t, op) == Running(t) /\ Call(t).op = op

\* The thread goes on with the next call.
Forward(t, th1) == [th1 EXCEPT ![t].pc = "prog", ![t].pos = @ + 1]

\* A process ends, with a result: its files are closed, its threads are gone.
\* Its servers stay.
Exit(p, rv, th1) ==
    /\ th' = [u \in Threads |->
                IF th1[u].proc = p /\ th1[u].pc \notin {"none", "done"}
                THEN [th1[u] EXCEPT !.pc = "done", !.rv = rv, !.group = 0] ELSE th1[u]]
    /\ lib' = [lib EXCEPT ![p].fd = FALSE, ![p].open = 0]

\* A call fails: qos_chk_ok_exit ends the process.
Failed(t, rv) ==
    IF Call(t).checked THEN Exit(th[t].proc, rv, th)
    ELSE th' = Forward(t, th) /\ lib' = lib

-----------------------------------------------------------------------------
(* A call of the library. *)

sid(t) ==
    CASE Call(t).sid = "null"  -> QRES_SID_NULL
      [] OTHER                 -> th[t].sid

\* Variant: the budget becomes the guarantee.
qres_set_bandwidth_Min(t) ==
    LET last == Lib(t).server_params IN [last EXCEPT !.Q_min = bw2Q(Call(t).arg, last.P)]

\* The last parameters set for any server, with another budget.
qres_set_bandwidth(t) ==
    LET last == Lib(t).server_params IN [last EXCEPT !.Q = bw2Q(Call(t).arg, last.P)]

\* The structure the ioctl hands over.
iparams(t) ==
    [op |-> Call(t).op, sid |-> sid(t), weight |-> Call(t).arg,
     params |-> IF Call(t).op = "set_bandwidth" THEN qres_set_bandwidth(t) ELSE Param(t),
     task |-> IF Call(t).sid = "other" THEN "other" ELSE "self",
     uid |-> job.uids[t], by |-> th[t].proc, late |-> FALSE]

ToIoctl(t, th1) == [th1 EXCEPT ![t].pc = "ioctl", ![t].msg = iparams(t)]

\* Variant: the device is opened whether it is or not.
check_open_Always(t) == FALSE
check_open(t) == Lib(t).fd

Begin(t) ==
    /\ Running(t)
    /\ Call(t).op \notin Local
    /\ th' = IF check_open(t) THEN ToIoctl(t, th) ELSE [th EXCEPT ![t].pc = "open"]
    /\ UNCHANGED <<job, servers, lib, params, elapsed, happened, oops>>

BeginInit(t) ==
    /\ Calls(t, "init")
    /\ th' = [th EXCEPT ![t].pc = "open"]
    /\ UNCHANGED <<job, servers, lib, params, elapsed, happened, oops>>

\* qres_init: the descriptor is written over, whatever it was.
Open(t) ==
    LET p == th[t].proc
    IN  /\ ~oops /\ th[t].pc = "open"
        /\ lib' = [lib EXCEPT ![p].fd = TRUE, ![p].open = @ + 1]
        /\ th' = IF Call(t).op = "init" THEN Forward(t, th) ELSE ToIoctl(t, th)
        /\ UNCHANGED <<job, servers, params, elapsed, happened, oops>>

OpenFails(t) ==
    /\ ~oops /\ th[t].pc = "open"
    /\ "device" \in Faults
    /\ IF Call(t).checked THEN Exit(th[t].proc, "MISSING_COMPONENT", th)
       ELSE /\ th' = Forward(t, th)
            /\ lib' = [lib EXCEPT ![th[t].proc].fd = FALSE]
    /\ happened' = happened \cup {"device"}
    /\ UNCHANGED <<job, servers, params, elapsed, oops>>

\* The server a task is in, when the request of t succeeds.  A destruction moves
\* out the threads in the list of the group, which are all that are in the group,
\* because here each attached itself: see Start.
GroupAfter(t, u) ==
    LET m == th[t].msg
    IN  CASE m.op = "attach" /\ u = t -> m.sid
          [] m.op = "detach" /\ u = t -> 0
          [] m.op = "destroy" /\ th[u].group = m.sid /\ servers[m.sid].tg = "live" -> 0
          [] OTHER -> th[u].group

Ioctl(t) ==
    /\ ~oops /\ th[t].pc = "ioctl"
    /\ Lib(t).fd
    /\ \E o \in qres_gw_ks([th[t].msg EXCEPT !.late = elapsed[t]], servers) :
          /\ servers' = o.servers
          /\ oops' = o.oops
          /\ happened' = happened \cup ({o.fault} \ {"none"})
          /\ th' = [u \in Threads |->
                      LET g == IF o.rv = "OK" /\ ~o.oops THEN GroupAfter(t, u) ELSE th[u].group
                      IN  IF u # t THEN [th[u] EXCEPT !.group = g]
                          ELSE [th[u] EXCEPT !.group = g, !.pc = "ret", !.rv = o.rv,
                                             !.val = o.val]]
    /\ UNCHANGED <<job, lib, params, elapsed>>

\* The descriptor is -1 again.
IoctlUnopened(t) ==
    /\ ~oops /\ th[t].pc = "ioctl"
    /\ ~Lib(t).fd
    /\ th' = [th EXCEPT ![t].pc = "ret", ![t].rv = "GENERIC"]
    /\ UNCHANGED <<job, servers, lib, params, elapsed, happened, oops>>

\* Variant: the parameters are kept whatever the answer.
Remembered_Always(t) == th[t].msg.op \in {"create", "set_params"}

\* The parameters the structure now has are kept for qres_set_bandwidth.
Remembered(t) == th[t].msg.op \in {"create", "set_params"} /\ th[t].rv = "OK"

Return(t) ==
    LET me == th[t]
        answered == [th EXCEPT ![t].sid = IF me.msg.op = "create" THEN me.val ELSE @,
                               ![t].late = IF me.msg.op = "get_exec_time" THEN me.val = 1 ELSE @]
        remembered == [lib EXCEPT ![me.proc].server_params = IF Remembered(t) THEN Param(t) ELSE @]
    IN  /\ ~oops /\ me.pc = "ret"
        /\ IF me.rv = "OK" THEN th' = Forward(t, answered) /\ lib' = remembered
           ELSE IF Call(t).checked THEN Exit(me.proc, me.rv, th)
           ELSE th' = Forward(t, th) /\ lib' = remembered
        /\ UNCHANGED <<job, servers, params, elapsed, happened, oops>>

Cleanup(t) ==
    /\ Calls(t, "cleanup")
    /\ IF Lib(t).fd
       THEN /\ lib' = [lib EXCEPT ![th[t].proc].fd = FALSE, ![th[t].proc].open = @ - 1]
            /\ th' = Forward(t, th)
       ELSE Failed(t, "INCONSISTENT_STATE")
    /\ UNCHANGED <<job, servers, params, elapsed, happened, oops>>

-----------------------------------------------------------------------------
(* What the programs do besides. *)

\* A structure of parameters is changed.
Assign(t) ==
    /\ \/ Calls(t, "let") /\ params' = [params EXCEPT ![StructOf(t)].Q = Call(t).arg]
       \/ Calls(t, "period") /\ params' = [params EXCEPT ![StructOf(t)].P = Call(t).arg]
    /\ th' = Forward(t, th)
    /\ UNCHANGED <<job, servers, lib, elapsed, happened, oops>>

\* The time to wait for starts; it is over; it was waited for; it is looked at.
Clock(t) ==
    /\ Calls(t, "clock")
    /\ elapsed' = [elapsed EXCEPT ![t] = FALSE]
    /\ th' = [Forward(t, th) EXCEPT ![t].late = FALSE]
    /\ UNCHANGED <<job, servers, lib, params, happened, oops>>

Tick(t) ==
    /\ ~oops /\ th[t].pc # "done" /\ ~elapsed[t]
    /\ elapsed' = [elapsed EXCEPT ![t] = TRUE]
    /\ UNCHANGED <<job, servers, lib, params, th, happened, oops>>

Count(t) ==
    /\ Calls(t, "count")
    /\ elapsed[t]
    /\ th' = Forward(t, th)
    /\ UNCHANGED <<job, servers, lib, params, elapsed, happened, oops>>

Gettimeofday(t) ==
    /\ Calls(t, "gettimeofday")
    /\ th' = [Forward(t, th) EXCEPT ![t].late = elapsed[t]]
    /\ UNCHANGED <<job, servers, lib, params, elapsed, happened, oops>>

Repeat(t) ==
    /\ Calls(t, "repeat")
    /\ th' = IF th[t].late THEN Forward(t, th) ELSE [th EXCEPT ![t].pos = Call(t).arg]
    /\ UNCHANGED <<job, servers, lib, params, elapsed, happened, oops>>

\* A second thread, a copy of the process (with the library as it is), or another
\* process.  Each has the group of the thread that starts it, but is not in the
\* list of the group; what comes of that is module SchedGroup's, and a program
\* that does it goes no further here.
Start(t) ==
    LET as(proc, l) ==
            /\ th' = Forward(t, [th EXCEPT ![2] = [Thread("prog", proc) EXCEPT
                                                     !.group = th[t].group]])
            /\ lib' = [lib EXCEPT ![proc] = l]
    IN  /\ \/ Calls(t, "spawn") /\ as(th[t].proc, Lib(t))
           \/ Calls(t, "fork")  /\ as(2, Lib(t))
           \/ Calls(t, "exec")  /\ as(2, Closed)
        /\ oops' = (th[t].group # 0)
        /\ UNCHANGED <<job, servers, params, elapsed, happened>>

\* The other is waited for; when it was a process, it must not have failed.
Join(t) ==
    /\ Calls(t, "join")
    /\ th[2].pc = "done"
    /\ IF th[2].rv = "OK" THEN th' = Forward(t, th) /\ lib' = lib ELSE Failed(t, "GENERIC")
    /\ UNCHANGED <<job, servers, params, elapsed, happened, oops>>

\* A thread ends; the process ends with its first.
End(t) ==
    /\ ~oops /\ th[t].pc = "prog" /\ th[t].pos > Len(Prog(t))
    /\ IF t = 1 \/ th[t].proc = 2 THEN Exit(th[t].proc, "OK", th)
       ELSE th' = [th EXCEPT ![t].pc = "done", ![t].rv = "OK", ![t].group = 0] /\ lib' = lib
    /\ UNCHANGED <<job, servers, params, elapsed, happened, oops>>

Step(t) ==
    \/ Begin(t) \/ BeginInit(t) \/ Open(t) \/ OpenFails(t) \/ Ioctl(t) \/ IoctlUnopened(t)
    \/ Return(t) \/ Cleanup(t) \/ Assign(t) \/ Clock(t) \/ Count(t) \/ Gettimeofday(t)
    \/ Repeat(t) \/ Start(t) \/ Join(t) \/ End(t)

Next == \E t \in Threads : Step(t) \/ Tick(t)

\* Every thread is scheduled, and time passes.
Spec == Init /\ [][Next]_vars /\ \A t \in Threads : WF_vars(Step(t)) /\ WF_vars(Tick(t))

-----------------------------------------------------------------------------
(* Properties. *)

\* The types of the state (part of FailuresExplained).
TypeOK ==
    /\ \A i \in DOMAIN servers :
          servers[i].weight \in Weights /\ servers[i].tg \in {"live", "freed", "lost"}
    /\ \A p \in Threads : lib[p].fd \in BOOLEAN /\ lib[p].open \in Nat
    /\ \A t \in Threads :
          /\ th[t].pc \in {"none", "prog", "open", "ioctl", "ret", "done"}
          /\ th[t].proc \in Threads
          /\ th[t].pos \in 1 .. Len(Prog(t)) + 1
          /\ th[t].group \in 0 .. Len(servers)
    /\ elapsed \in [Threads -> BOOLEAN]
    /\ happened \subseteq Faults
    /\ oops \in BOOLEAN

\* In a program whose servers have one period and guarantee, however their
\* budgets and bandwidths are set, and whatever call fails, no server gets
\* another period or guarantee, nor loses its group: what qres_set_bandwidth
\* remembers is what was last accepted.  (With servers of two periods it is not.)
PeriodKept ==
    \A i \in DOMAIN servers :
        /\ servers[i].tg # "lost"
        /\ \E k \in Threads :
              LET given == job.program.structs[k]
              IN  /\ servers[i].params.P = given.P
                  /\ servers[i].params.Q_min = RoundBudget(given.Q_min, given.P)

\* A thread is in no group but that of a server its own process created and did
\* not destroy: the identifiers that are handed around fit, across a fork, and
\* between threads that create servers at once, unless a group was refused.
InOwnServer ==
    "group" \notin happened =>
        \A t \in Threads : th[t].group # 0 =>
            servers[th[t].group].by = th[t].proc /\ servers[th[t].group].tg = "live"

\* No program uses the group of a server that is destroyed, or whose pointer is
\* lost, or starts a thread or process inside of a group, unless a group was
\* refused and an identifier is what memory held.
GroupsKnown == "group" \notin happened => ~oops

\* The groups that programs use are those of servers of their own.
GroupsOwned == InOwnServer /\ GroupsKnown

\* A program fails only because the device, the supervisor or the scheduler
\* refuses something; test-qres-base fails without, where it detaches from the
\* server with no identifier (test-qres-base.c:71), which is never found.
FailuresExplained ==
    /\ TypeOK
    /\ happened = {} =>
         \A t \in Threads : th[t].pc = "done" /\ th[t].rv # "OK" =>
             Call(t).op = "detach" /\ sid(t) = QRES_SID_NULL
    /\ "group" \notin happened =>
         \A t \in Threads : th[t].pc = "done" /\ th[t].rv = "NOT_FOUND" =>
             Call(t).op = "detach" /\ sid(t) = QRES_SID_NULL

\* A process has one file open while it has a descriptor and none when it has
\* not: calls that open the device themselves, qres_init and qres_cleanup leave
\* none behind.  Threads that race to open the library may both open the device,
\* and so leave one file that no descriptor is kept for, but never two as long as
\* the device can be opened (qres_lib.c:48-53, 140-160).
OneDescriptor ==
    \A p \in Threads :
        LET kept == IF lib[p].fd THEN 1 ELSE 0
        IN  \/ lib[p].open = kept
            \/ /\ th[1].proc = th[2].proc
               /\ \A i \in DOMAIN Prog(1) : Prog(1)[i].op # "init"
               /\ "device" \in happened \/ lib[p].open = kept + 1

\* Every program ends, whatever fails, but the one that never does: a loop over
\* the time or the budgets sees the time pass, and no thread waits for ever.
ProgramsEnd ==
    <>(oops \/ \A t \in Threads :
        \/ th[t].pc \in {"none", "done"}
        \/ th[t].pos <= Len(Prog(t)) /\ Call(t).op = "forever")
=============================================================================

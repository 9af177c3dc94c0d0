--------------------------- MODULE QresLib_proofs ---------------------------
(***************************************************************************)
(* Theorems about the library of the reservation layer and the programs    *)
(* that use it as module LibUse says: whose groups they use, which period  *)
(* and guarantee their servers keep, how often the device is open, and why *)
(* they fail.                                                              *)
(***************************************************************************)
EXTENDS QresLib, TLAPS

-----------------------------------------------------------------------------
(* What is so at the place after a call. *)

LEMMA OpenStep ==
    ASSUME NEW prog \in Seq(CallRecord), NEW n \in 1 .. Len(prog)
    PROVE  OpenAt(prog, n + 1) <=>
              \/ Opens(prog[n])
              \/ OpenAt(prog, n) /\ prog[n].op # "cleanup"
<1>1. Opens(prog[n]) => OpenAt(prog, n + 1)
  BY DEF OpenAt
<1>2. ASSUME OpenAt(prog, n), prog[n].op # "cleanup" PROVE OpenAt(prog, n + 1)
  BY <1>2 DEF OpenAt
<1>3. ASSUME OpenAt(prog, n + 1), ~Opens(prog[n])
      PROVE  OpenAt(prog, n) /\ prog[n].op # "cleanup"
  BY <1>3 DEF OpenAt
<1> QED
  BY <1>1, <1>2, <1>3

LEMMA SureStep ==
    ASSUME NEW prog \in Seq(CallRecord), NEW n \in 1 .. Len(prog)
    PROVE  SurelyOpenAt(prog, n + 1) <=>
              \/ Opens(prog[n]) /\ prog[n].checked
              \/ SurelyOpenAt(prog, n) /\ prog[n].op # "cleanup"
<1>1. Opens(prog[n]) /\ prog[n].checked => SurelyOpenAt(prog, n + 1)
  BY DEF SurelyOpenAt
<1>2. ASSUME SurelyOpenAt(prog, n), prog[n].op # "cleanup" PROVE SurelyOpenAt(prog, n + 1)
  BY <1>2 DEF SurelyOpenAt
<1>3. ASSUME SurelyOpenAt(prog, n + 1), ~(Opens(prog[n]) /\ prog[n].checked)
      PROVE  SurelyOpenAt(prog, n) /\ prog[n].op # "cleanup"
  BY <1>3 DEF SurelyOpenAt
<1> QED
  BY <1>1, <1>2, <1>3

LEMMA CreatedStep ==
    ASSUME NEW prog \in Seq(CallRecord), NEW n \in 1 .. Len(prog)
    PROVE  CreatedAt(prog, n + 1) <=> CreatedAt(prog, n) \/ Creates(prog[n])
  BY DEF CreatedAt

LEMMA DestroyedStep ==
    ASSUME NEW prog \in Seq(CallRecord), NEW n \in 1 .. Len(prog)
    PROVE  DestroyedAt(prog, n + 1) <=>
              \/ prog[n].op = "destroy"
              \/ DestroyedAt(prog, n) /\ ~Creates(prog[n])
<1>1. prog[n].op = "destroy" => DestroyedAt(prog, n + 1)
  BY DEF DestroyedAt
<1>2. ASSUME DestroyedAt(prog, n), ~Creates(prog[n]) PROVE DestroyedAt(prog, n + 1)
  <2>1. PICK i \in 1 .. n - 1 :
           prog[i].op = "destroy" /\ \A k \in i + 1 .. n - 1 : ~Creates(prog[k])
    BY <1>2 DEF DestroyedAt
  <2>2. \A k \in i + 1 .. n : ~Creates(prog[k])
    BY <1>2, <2>1
  <2> QED
    BY <2>1, <2>2 DEF DestroyedAt
<1>3. ASSUME DestroyedAt(prog, n + 1), prog[n].op # "destroy"
      PROVE  DestroyedAt(prog, n) /\ ~Creates(prog[n])
  BY <1>3 DEF DestroyedAt
<1> QED
  BY <1>1, <1>2, <1>3

LEMMA PassedStep ==
    ASSUME NEW prog \in Seq(CallRecord), NEW n \in 1 .. Len(prog), NEW ops
    PROVE  PassedAt(prog, n + 1, ops) <=> PassedAt(prog, n, ops) \/ prog[n].op \in ops
  BY DEF PassedAt

LEMMA JoinedStep ==
    ASSUME NEW prog \in Seq(CallRecord), NEW n \in 1 .. Len(prog)
    PROVE  JoinedAt(prog, n + 1) <=>
              JoinedAt(prog, n) \/ (prog[n].op = "join" /\ PassedAt(prog, n, {"spawn"}))
<1>1. JoinedAt(prog, n) => JoinedAt(prog, n + 1)
  BY DEF JoinedAt
<1>2. ASSUME prog[n].op = "join", PassedAt(prog, n, {"spawn"}) PROVE JoinedAt(prog, n + 1)
  BY <1>2 DEF JoinedAt, PassedAt
<1>3. ASSUME JoinedAt(prog, n + 1), ~JoinedAt(prog, n)
      PROVE  prog[n].op = "join" /\ PassedAt(prog, n, {"spawn"})
  BY <1>3 DEF JoinedAt, PassedAt
<1> QED
  BY <1>1, <1>2, <1>3

\* Nothing is so at first.
LEMMA AtFirst ==
    ASSUME NEW prog
    PROVE  /\ ~OpenAt(prog, 1) /\ ~SurelyOpenAt(prog, 1) /\ ~CreatedAt(prog, 1)
           /\ ~DestroyedAt(prog, 1) /\ ~JoinedAt(prog, 1)
           /\ \A ops : ~PassedAt(prog, 1, ops)
  BY DEF OpenAt, SurelyOpenAt, CreatedAt, DestroyedAt, JoinedAt, PassedAt

\* What is sure is so, and a thread that was waited for was started.
LEMMA SureOpen ==
    ASSUME NEW prog, NEW n, SurelyOpenAt(prog, n) PROVE OpenAt(prog, n)
  BY DEF SurelyOpenAt, OpenAt

\* A loop goes back to a place where the same is so.
LEMMA LoopPlace ==
    ASSUME NEW prog \in Seq(CallRecord), NEW n \in 1 .. Len(prog),
           LoopsOnlyUse(prog), prog[n].op = "repeat"
    PROVE  LET a == prog[n].arg
           IN  /\ a \in 1 .. n
               /\ OpenAt(prog, a) /\ OpenAt(prog, n)
               /\ SurelyOpenAt(prog, a) => SurelyOpenAt(prog, n)
               /\ CreatedAt(prog, a) => CreatedAt(prog, n)
               /\ DestroyedAt(prog, n) => DestroyedAt(prog, a)
               /\ PassedAt(prog, n, {"period"}) => PassedAt(prog, a, {"period"})
               /\ PassedAt(prog, n, {"attach"}) => PassedAt(prog, a, {"attach"})
               /\ \A i \in 1 .. n - 1 : prog[i].op \in Starts => i \in 1 .. a - 1
               /\ JoinedAt(prog, a) => JoinedAt(prog, n)
<1> DEFINE a == prog[n].arg
<1>1. /\ a \in 1 .. n /\ OpenAt(prog, a)
      /\ \A k \in a .. n : prog[k].op \notin Starts \cup {"cleanup", "destroy", "attach", "period"}
  BY DEF LoopsOnlyUse
<1> HIDE DEF a
<1>2. OpenAt(prog, n)
  <2>1. PICK i \in 1 .. a - 1 : Opens(prog[i]) /\ \A k \in i + 1 .. a - 1 : prog[k].op # "cleanup"
    BY <1>1 DEF OpenAt
  <2>2. \A k \in i + 1 .. n - 1 : prog[k].op # "cleanup"
    BY <1>1, <2>1
  <2> QED
    BY <1>1, <2>1, <2>2 DEF OpenAt
<1>3. ASSUME SurelyOpenAt(prog, a) PROVE SurelyOpenAt(prog, n)
  <2>1. PICK i \in 1 .. a - 1 :
           /\ Opens(prog[i]) /\ prog[i].checked
           /\ \A k \in i + 1 .. a - 1 : prog[k].op # "cleanup"
    BY <1>3 DEF SurelyOpenAt
  <2>2. \A k \in i + 1 .. n - 1 : prog[k].op # "cleanup"
    BY <1>1, <2>1
  <2> QED
    BY <1>1, <2>1, <2>2 DEF SurelyOpenAt
<1>4. CreatedAt(prog, a) => CreatedAt(prog, n)
  BY <1>1 DEF CreatedAt
<1>5. ASSUME DestroyedAt(prog, n) PROVE DestroyedAt(prog, a)
  <2>1. PICK i \in 1 .. n - 1 :
           prog[i].op = "destroy" /\ \A k \in i + 1 .. n - 1 : ~Creates(prog[k])
    BY <1>5 DEF DestroyedAt
  <2>2. i \in 1 .. a - 1
    BY <1>1, <2>1
  <2> QED
    BY <1>1, <2>1, <2>2 DEF DestroyedAt
<1>6. /\ PassedAt(prog, n, {"period"}) => PassedAt(prog, a, {"period"})
      /\ PassedAt(prog, n, {"attach"}) => PassedAt(prog, a, {"attach"})
  BY <1>1 DEF PassedAt
<1>7. \A i \in 1 .. n - 1 : prog[i].op \in Starts => i \in 1 .. a - 1
  BY <1>1
<1>8. JoinedAt(prog, a) => JoinedAt(prog, n)
  BY <1>1 DEF JoinedAt
<1> QED
  BY <1>1, <1>2, <1>3, <1>4, <1>5, <1>6, <1>7, <1>8 DEF a

-----------------------------------------------------------------------------
(* The invariant, in parts. *)

Active(t) == th[t].pc \in {"prog", "open", "ioctl", "ret"}
InCall(t) == th[t].pc \in {"ioctl", "ret"}
Creating(t) == th[t].pc = "ret" /\ th[t].msg.op = "create" /\ th[t].rv = "OK"

Users == {job.uids[t] : t \in Threads}
Values == Nat \cup Weights
Results == {"OK", "GENERIC", "MISSING_COMPONENT", "INCONSISTENT_STATE", "INVALID_PARAM",
            "NOT_FOUND", "UNAUTHORIZED", "UNIMPLEMENTED"}

Server ==
    [uid : Users, by : Threads, params : Structure, weight : Weights,
     tg : {"live", "freed", "lost"}]
Message ==
    [op : STRING, sid : Nat, weight : Nat, params : Structure, task : {"self", "other"},
     uid : Users, by : Threads, late : BOOLEAN]
ThreadRecord ==
    [pc : {"none", "prog", "open", "ioctl", "ret", "done"}, proc : Threads, pos : Nat,
     sid : Nat, msg : {QRES_SID_NULL} \cup Message, rv : Results, val : Values,
     late : BOOLEAN, group : Nat]
LibRecord == [fd : BOOLEAN, open : Nat, server_params : Structure]

\* The types of the whole state.
StateTypes ==
    /\ job \in Jobs
    /\ servers \in Seq(Server)
    /\ lib \in [Threads -> LibRecord]
    /\ params \in [Threads -> Structure]
    /\ th \in [Threads -> ThreadRecord]
    /\ elapsed \in [Threads -> BOOLEAN]
    /\ happened \subseteq Faults
    /\ oops \in BOOLEAN

\* A thread is at a place of its program; in a call, the request is that of the
\* call.
InPlace(t) ==
    /\ th[t].pos \in 1 .. Len(Prog(t)) + 1
    /\ th[t].pc \in {"open", "ioctl", "ret"} => th[t].pos <= Len(Prog(t)) /\ Opens(Call(t))
    /\ InCall(t) =>
          /\ Call(t).op \notin Local
          /\ th[t].msg \in Message
          /\ th[t].msg.op = Call(t).op /\ th[t].msg.sid = sid(t)
          /\ th[t].msg.weight = Call(t).arg
          /\ th[t].msg.task = (IF Call(t).sid = "other" THEN "other" ELSE "self")
          /\ th[t].msg.uid = job.uids[t] /\ th[t].msg.by = th[t].proc
    /\ Creating(t) => th[t].val \in Nat

\* The second thread is there when a call of the first started it, in the process
\* that call says, and is over when it was waited for.
SecondInv ==
    /\ th[1].proc = 1 /\ th[1].pc # "none"
    /\ th[2].pc = "none" => th[2] = Thread("none", 2) /\ lib[2] = Closed
    /\ th[2].pc # "none" =>
          \E n \in 1 .. th[1].pos - 1 :
              /\ Prog(1)[n].op \in Starts
              /\ th[2].proc = (IF Prog(1)[n].op = "spawn" THEN 1 ELSE 2)
    /\ JoinedAt(Prog(1), th[1].pos) => th[2].pc = "done"

PlaceInv == SecondInv /\ \A t \in Threads : InPlace(t)

\* The threads may open the device at once.
Racing == th[1].proc = th[2].proc /\ ~Uses(Prog(1), "init")

\* A process has one file open or none, the threads of one do not open it at
\* once, and qres_init is called with none.
OneFile ==
    ~Racing =>
        /\ \A p \in Threads : lib[p].open = (IF lib[p].fd THEN 1 ELSE 0)
        /\ \A t \in Threads :
              /\ th[t].pc = "open" => ~Lib(t).fd
              /\ InCall(t) => Lib(t).fd
              /\ th[t].pc = "prog" /\ Lib(t).fd /\ Uses(Prog(t), "init") =>
                    OpenAt(Prog(t), th[t].pos)
        /\ Active(1) /\ SurelyOpenAt(Prog(1), th[1].pos) => lib[1].fd
        /\ Active(2) /\ th[2].proc = 1 =>
              lib[1].fd /\ \A t \in Threads : th[t].pc # "open"

FileInv == OneFile /\ \A p \in Threads : lib[p].fd => lib[p].open # 0

\* While the device is there, it is open where the program says so.
DeviceInv ==
    "device" \notin happened =>
        \A t \in Threads :
            /\ InCall(t) => Lib(t).fd
            /\ Active(t) /\ OpenAt(Prog(t), th[t].pos) => Lib(t).fd

\* The structures, what the library keeps, what is asked for and what the
\* servers have: one period, guarantee and flags.
Given == job.program.structs[1]
AsGiven(p) == p.P = Given.P /\ p.Q_min = Given.Q_min /\ p.flags = Given.flags
Fits(p) == AsGiven(p) /\ p.Q <= Given.P

ParamsInv ==
    /\ \A t \in Threads :
          /\ params[t].Q_min = Given.Q_min /\ params[t].flags = Given.flags
          /\ params[t].Q <= Given.P
          /\ ~PassedAt(Prog(t), th[t].pos, {"period"}) => Param(t).P = Given.P
          /\ lib[t].server_params = NoParams \/ Fits(lib[t].server_params)
          /\ Active(t) /\ CreatedAt(Prog(t), th[t].pos) => Fits(Lib(t).server_params)
    /\ \A i \in DOMAIN servers :
          /\ servers[i].tg # "lost"
          /\ servers[i].params.P = Given.P
          /\ servers[i].params.Q_min = RoundBudget(Given.Q_min, Given.P)
          /\ servers[i].params.flags = Given.flags

RequestInv ==
    \A t \in Threads :
        /\ th[t].pc = "ioctl" /\ (th[t].msg.op = "create"
                                  \/ (th[t].msg.op = "set_params" /\ th[t].msg.sid # 0)) =>
              Fits(th[t].msg.params)
        /\ th[t].pc = "ioctl" /\ th[t].msg.op = "set_bandwidth" =>
              /\ th[t].msg.params.P = 0 \/ AsGiven(th[t].msg.params)
              /\ CreatedAt(Prog(t), th[t].pos) => AsGiven(th[t].msg.params)
              /\ CreatedAt(Prog(t), th[t].pos) /\ Call(t).arg <= MAX_BW =>
                    Fits(th[t].msg.params)
        /\ th[t].pc = "ret" /\ th[t].msg.op = "set_params" /\ th[t].rv = "OK" =>
              th[t].msg.sid # 0

\* The servers a thread knows of: the last it created, and one being created.
Holds(t) == ({th[t].sid} \cup (IF Creating(t) THEN {th[t].val} ELSE {})) \ {0}

\* They are its own, no other thread's, and live until it destroys them.
OwnInv ==
    "group" \notin happened =>
        /\ ~oops
        /\ \A t \in Threads :
              /\ \A s \in Holds(t) :
                    /\ s \in DOMAIN servers
                    /\ servers[s].by = th[t].proc /\ servers[s].uid = job.uids[t]
              /\ Creating(t) => th[t].val # 0 /\ servers[th[t].val].tg = "live"
              /\ Active(t) /\ th[t].sid # 0 /\ ~DestroyedAt(Prog(t), th[t].pos)
                 /\ ~(th[t].pc = "ret" /\ th[t].msg.op = "destroy") =>
                    servers[th[t].sid].tg = "live"
              /\ Active(t) /\ CreatedAt(Prog(t), th[t].pos) => th[t].sid # 0
        /\ Holds(1) \cap Holds(2) = {}

\* The groups threads are in; the first is in none before it attached.
GroupInv ==
    /\ \A t \in Threads : th[t].group \in 0 .. Len(servers)
    /\ th[2].pc = "none" /\ th[1].group # 0 =>
          PassedAt(Prog(1), th[1].pos + 1, {"attach"})
    /\ InOwnServer

\* A call whose result is checked fails because something was refused, or it
\* leaves no server.
Explained(t) ==
    \/ th[t].rv = "OK"
    \/ /\ th[t].pos <= Len(Prog(t)) /\ LeavesNone(Call(t)) /\ Call(t).checked
    \/ happened # {} /\ (th[t].rv # "NOT_FOUND" \/ "group" \in happened)

FailInv ==
    \A t \in Threads :
        th[t].pc = "done" \/ (th[t].pc = "ret" /\ Call(t).checked) => Explained(t)

LibInv ==
    /\ StateTypes /\ PlaceInv /\ FileInv /\ DeviceInv
    /\ ParamsInv /\ RequestInv /\ OwnInv /\ GroupInv /\ FailInv

-----------------------------------------------------------------------------
(* What a step does to the threads and the library: every action is one of *)
(* these, with a thread t.                                                 *)

Others(t) == \A u \in Threads \ {t} : th'[u] = th[u]

\* What the thread is, the server it created and its group stay.
Itself(t) ==
    th'[t].proc = th[t].proc /\ th'[t].sid = th[t].sid /\ th'[t].group = th[t].group

GoesOn(t) ==
    /\ Itself(t) /\ Others(t)
    /\ th'[t].pc = "prog" /\ th'[t].pos = th[t].pos + 1

AtCall(t, op) == th[t].pc = "prog" /\ th[t].pos <= Len(Prog(t)) /\ Call(t).op = op

\* Another call that is local to the process.
Aside(t) ==
    /\ th[t].pc = "prog" /\ th[t].pos <= Len(Prog(t))
    /\ \/ Call(t).op \in Local \ ({"init", "cleanup", "repeat"} \cup Starts)
       \/ Call(t).op = "cleanup" /\ ~Lib(t).fd
    /\ Call(t).op = "join" => th[2].pc = "done"
    /\ GoesOn(t)
    /\ \/ params' = params /\ Call(t).op # "period"
       \/ Call(t).op = "let" /\ params' = [params EXCEPT ![StructOf(t)].Q = Call(t).arg]
       \/ Call(t).op = "period" /\ params' = [params EXCEPT ![StructOf(t)].P = Call(t).arg]
    /\ UNCHANGED <<job, servers, lib, happened, oops>>

Jumps(t) ==
    /\ AtCall(t, "repeat")
    /\ Itself(t) /\ Others(t)
    /\ th'[t].pc = "prog" /\ th'[t].pos \in {th[t].pos + 1, Call(t).arg}
    /\ UNCHANGED <<job, servers, lib, params, happened, oops>>

\* The call goes to the device, which is open.
Asks(t) == th'[t].pc = "ioctl" /\ th'[t].msg = iparams(t) /\ th'[t].pos = th[t].pos

Begins(t) ==
    /\ th[t].pc = "prog" /\ th[t].pos <= Len(Prog(t)) /\ Opens(Call(t))
    /\ Itself(t) /\ Others(t)
    /\ \/ Call(t).op # "init" /\ Lib(t).fd /\ Asks(t)
       \/ /\ Call(t).op = "init" \/ ~Lib(t).fd
          /\ th'[t].pc = "open" /\ th'[t].pos = th[t].pos
    /\ UNCHANGED <<job, servers, lib, params, happened, oops>>

OneOpen(p, fd, open) ==
    /\ lib'[p].fd = fd /\ lib'[p].open = open
    /\ lib'[p].server_params = lib[p].server_params
    /\ \A q \in Threads \ {p} : lib'[q] = lib[q]

Opened(t) ==
    /\ th[t].pc = "open"
    /\ \/ Call(t).op = "init" /\ GoesOn(t)
       \/ Call(t).op # "init" /\ Itself(t) /\ Others(t) /\ Asks(t)
    /\ OneOpen(th[t].proc, TRUE, Lib(t).open + 1)
    /\ UNCHANGED <<job, servers, params, happened, oops>>

NotOpened(t) ==
    /\ th[t].pc = "open" /\ ~Call(t).checked
    /\ GoesOn(t)
    /\ OneOpen(th[t].proc, FALSE, Lib(t).open)
    /\ happened' = happened \cup {"device"}
    /\ UNCHANGED <<job, servers, params, oops>>

Unasked(t) ==
    /\ th[t].pc = "ioctl" /\ ~Lib(t).fd
    /\ Itself(t) /\ Others(t)
    /\ th'[t].pc = "ret" /\ th'[t].rv = "GENERIC"
    /\ th'[t].pos = th[t].pos /\ th'[t].msg = th[t].msg
    /\ UNCHANGED <<job, servers, lib, params, happened, oops>>

Returns(t) ==
    /\ th[t].pc = "ret"
    /\ th[t].rv = "OK" \/ ~Call(t).checked
    /\ Others(t)
    /\ th'[t].pc = "prog" /\ th'[t].pos = th[t].pos + 1
    /\ th'[t].proc = th[t].proc /\ th'[t].group = th[t].group
    /\ th'[t].sid = IF Creating(t) THEN th[t].val ELSE th[t].sid
    /\ lib' = [lib EXCEPT ![th[t].proc].server_params = IF Remembered(t) THEN Param(t) ELSE @]
    /\ UNCHANGED <<job, servers, params, happened, oops>>

Closes(t) ==
    /\ AtCall(t, "cleanup") /\ Lib(t).fd
    /\ GoesOn(t)
    /\ OneOpen(th[t].proc, FALSE, Lib(t).open - 1)
    /\ UNCHANGED <<job, servers, params, happened, oops>>

StartsOther(t) ==
    LET proc == IF Call(t).op = "spawn" THEN th[t].proc ELSE 2
    IN  /\ th[t].pc = "prog" /\ th[t].pos <= Len(Prog(t)) /\ Call(t).op \in Starts
        /\ t = 1 /\ th[2].pc = "none"
        /\ Itself(t) /\ th'[t].pc = "prog" /\ th'[t].pos = th[t].pos + 1
        /\ th'[2] = [Thread("prog", proc) EXCEPT !.group = th[t].group]
        /\ lib' = [lib EXCEPT ![proc] = IF Call(t).op = "exec" THEN Closed ELSE Lib(t)]
        /\ oops' = (th[t].group # 0)
        /\ UNCHANGED <<job, servers, params, happened>>

\* The process of t ends, because a result is checked or because it is at its
\* end.
EndsWith(t, rv) ==
    \/ /\ th[t].pc = "open" /\ Call(t).checked
       /\ rv = "MISSING_COMPONENT" /\ happened' = happened \cup {"device"}
    \/ /\ th[t].pc = "ret" /\ Call(t).checked
       /\ rv = th[t].rv /\ rv # "OK" /\ happened' = happened
    \/ /\ AtCall(t, "cleanup") /\ ~Lib(t).fd /\ Call(t).checked
       /\ rv = "INCONSISTENT_STATE" /\ happened' = happened
    \/ /\ AtCall(t, "join") /\ Call(t).checked /\ th[2].pc = "done" /\ th[2].rv # "OK"
       /\ rv = "GENERIC" /\ happened' = happened
    \/ /\ th[t].pc = "prog" /\ rv = "OK" /\ happened' = happened

IsOver(u, rv) ==
    /\ th'[u].pc = "done" /\ th'[u].rv = rv /\ th'[u].group = 0
    /\ th'[u].proc = th[u].proc /\ th'[u].sid = th[u].sid /\ th'[u].pos = th[u].pos

Exits(t) ==
    /\ Active(t)
    /\ \E rv \in Results :
          /\ EndsWith(t, rv)
          /\ \A u \in Threads :
                IF th[u].proc = th[t].proc /\ Active(u) THEN IsOver(u, rv)
                ELSE th'[u] = th[u]
    /\ OneOpen(th[t].proc, FALSE, 0)
    /\ UNCHANGED <<job, servers, params, oops>>

\* A thread that the first started ends alone.
Ends(t) ==
    /\ t = 2 /\ th[t].pc = "prog"
    /\ IsOver(t, "OK") /\ Others(t)
    /\ UNCHANGED <<job, servers, lib, params, happened, oops>>

Waits == UNCHANGED <<job, servers, lib, params, th, happened, oops>>

Kinds(t) ==
    \/ Aside(t) \/ Jumps(t) \/ Begins(t) \/ Opened(t) \/ NotOpened(t) \/ Unasked(t)
    \/ Returns(t) \/ Closes(t) \/ StartsOther(t) \/ Exits(t) \/ Ends(t)

-----------------------------------------------------------------------------
(* Facts about a state. *)

LEMMA JobFacts ==
    ASSUME StateTypes
    PROVE  /\ JobFits(job)
           /\ \A t \in Threads : Prog(t) \in Seq(CallRecord) /\ ProgramFits(Prog(t))
           /\ \A t \in Threads : StructOf(t) \in Threads
           /\ job.program.structs \in [Threads -> Structure]
<1>1. JobFits(job)
  BY JobsAssumption DEF StateTypes
<1> QED
  BY <1>1 DEF JobFits, Prog, StructOf, Threads

LEMMA CallFacts ==
    ASSUME StateTypes, NEW t \in Threads, InPlace(t), th[t].pos <= Len(Prog(t))
    PROVE  /\ th[t].pos \in 1 .. Len(Prog(t))
           /\ Call(t) = Prog(t)[th[t].pos]
           /\ Call(t) \in CallRecord
<1>1. Prog(t) \in Seq(CallRecord) /\ th[t].pos \in 1 .. Len(Prog(t))
  BY JobFacts DEF InPlace
<1> QED
  BY <1>1 DEF Call

-----------------------------------------------------------------------------
(* Budgets and bandwidths. *)

LEMMA DivisionType ==
    ASSUME NEW a \in Nat, NEW b \in Nat \ {0}
    PROVE  a \div b \in Nat /\ a % b \in 0 .. b - 1
<1>1. a \div b \in Nat
  OBVIOUS
<1>2. a % b \in 0 .. b - 1
  OBVIOUS
<1> QED
  BY <1>1, <1>2

LEMMA ProductType == ASSUME NEW a \in Nat, NEW b \in Nat PROVE a * b \in Nat
  OBVIOUS

\* A budget is a number, and not above the period when the bandwidth is not above
\* that of the processor.
LEMMA BandwidthType ==
    ASSUME NEW bw \in Nat, NEW P \in Nat
    PROVE  /\ bw2Q(bw, P) \in Nat
           /\ bw <= MAX_BW => bw2Q(bw, P) <= P
<1> DEFINE a == bw * P
           q == a \div MAX_BW
<1>1. MAX_BW \in Nat \ {0} /\ WORD \in Nat \ {0}
  BY BandwidthAssumption
<1>2. a \in Nat
  BY ProductType
<1>3. q \in Nat /\ q * MAX_BW <= a
  <2>1. a \div MAX_BW \in Nat /\ a % MAX_BW \in 0 .. MAX_BW - 1
    BY <1>1, <1>2, DivisionType
  <2> HIDE DEF a
  <2>2. a % MAX_BW = a - MAX_BW * (a \div MAX_BW)
    BY <1>1, <1>2
  <2>3. MAX_BW * (a \div MAX_BW) = (a \div MAX_BW) * MAX_BW
    BY <1>1, <2>1
  <2>4. (a \div MAX_BW) * MAX_BW \in Nat
    BY <1>1, <2>1
  <2> HIDE DEF q
  <2> QED
    BY <1>1, <1>2, <2>1, <2>2, <2>3, <2>4 DEF q
<1> HIDE DEF q
<1>4. q % WORD \in Nat /\ q % WORD <= q
  BY <1>1, <1>3
<1>5. bw2Q(bw, P) = q % WORD
  BY DEF bw2Q, ul_mul_shr, Wrap, q
<1>6. ASSUME bw <= MAX_BW PROVE q <= P
  <2>1. a <= MAX_BW * P
    BY <1>1, <1>6
  <2>2. SUFFICES ASSUME P + 1 <= q PROVE FALSE
    BY <1>3
  <2>3. (P + 1) * MAX_BW <= q * MAX_BW
    BY <1>1, <1>3, <2>2
  <2>4. (P + 1) * MAX_BW = MAX_BW * P + MAX_BW
    BY <1>1
  <2>5. MAX_BW * P \in Nat /\ q * MAX_BW \in Nat
    BY <1>1, <1>3
  <2> HIDE DEF a
  <2> QED
    BY <1>1, <1>2, <1>3, <2>1, <2>3, <2>4, <2>5
<1> QED
  BY <1>3, <1>4, <1>5, <1>6

\* A rounded budget is a number.
LEMMA RoundedType ==
    ASSUME NEW param \in Structure, Accepted(param)
    PROVE  /\ Rounded(param) \in Structure
           /\ Rounded(param).P = param.P /\ Rounded(param).flags = param.flags
           /\ Rounded(param).Q_min = RoundBudget(param.Q_min, param.P)
<1>1. param.P \in Nat \ {0} /\ param.Q \in Nat /\ param.Q_min \in Nat
  BY QresGwAssumption DEF Accepted, Structure
<1>2. ASSUME NEW Q \in Nat PROVE RoundBudget(Q, param.P) \in Nat
  <2>1. MAX_BW \in Nat /\ WORD \in Nat \ {0}
    BY BandwidthAssumption
  <2>2. Q * MAX_BW \in Nat
    BY <2>1, ProductType
  <2>3. (Q * MAX_BW) \div param.P \in Nat
    BY <1>1, <2>2, DivisionType
  <2>4. Wrap((Q * MAX_BW) \div param.P + 1) \in Nat
    BY <2>1, <2>3 DEF Wrap
  <2>5. r2bw_ceil(Q, param.P) \in Nat
    BY <2>3, <2>4 DEF r2bw_ceil, ul_shl_ceil, ul_shl_div
  <2> QED
    BY <1>1, <2>5, BandwidthType DEF RoundBudget
<1> QED
  BY <1>1, <1>2 DEF Rounded, Structure

\* The next call of a thread.
LEMMA ForwardFacts ==
    ASSUME NEW t \in Threads, NEW th1 \in [Threads -> ThreadRecord]
    PROVE  /\ Forward(t, th1) \in [Threads -> ThreadRecord]
           /\ \A u \in Threads \ {t} : Forward(t, th1)[u] = th1[u]
           /\ Forward(t, th1)[t].pc = "prog" /\ Forward(t, th1)[t].pos = th1[t].pos + 1
           /\ Forward(t, th1)[t].proc = th1[t].proc /\ Forward(t, th1)[t].sid = th1[t].sid
           /\ Forward(t, th1)[t].group = th1[t].group /\ Forward(t, th1)[t].rv = th1[t].rv
           /\ Forward(t, th1)[t].msg = th1[t].msg
<1> DEFINE s == [th1[t] EXCEPT !.pc = "prog"]
           r == [s EXCEPT !.pos = @ + 1]
<1>1. th1[t] \in ThreadRecord
  OBVIOUS
<1>2. /\ s \in ThreadRecord
      /\ s.pc = "prog" /\ s.pos = th1[t].pos
      /\ s.proc = th1[t].proc /\ s.sid = th1[t].sid
      /\ s.group = th1[t].group /\ s.rv = th1[t].rv /\ s.msg = th1[t].msg
  BY <1>1 DEF ThreadRecord
<1> HIDE DEF s
<1>3. /\ r \in ThreadRecord
      /\ r.pc = s.pc /\ r.pos = s.pos + 1
      /\ r.proc = s.proc /\ r.sid = s.sid
      /\ r.group = s.group /\ r.rv = s.rv /\ r.msg = s.msg
  BY <1>2 DEF ThreadRecord
<1>4. Forward(t, th1) = [th1 EXCEPT ![t] = r]
  BY <1>1 DEF Forward, ThreadRecord, s
<1> HIDE DEF r
<1> QED
  BY <1>2, <1>3, <1>4

\* The request of a call.
LEMMA RequestFacts ==
    ASSUME StateTypes, NEW t \in Threads, InPlace(t), th[t].pos <= Len(Prog(t))
    PROVE  /\ iparams(t) \in Message
           /\ iparams(t).op = Call(t).op /\ iparams(t).sid = sid(t)
           /\ iparams(t).weight = Call(t).arg
           /\ iparams(t).task = (IF Call(t).sid = "other" THEN "other" ELSE "self")
           /\ iparams(t).uid = job.uids[t] /\ iparams(t).by = th[t].proc
           /\ iparams(t).params = IF Call(t).op = "set_bandwidth" THEN qres_set_bandwidth(t)
                                  ELSE Param(t)
<1>1. Call(t) \in CallRecord
  BY CallFacts
<1>2. th[t].proc \in Threads /\ th[t].sid \in Nat
  BY DEF StateTypes, ThreadRecord
<1>3. Param(t) \in Structure
  BY JobFacts DEF Param, StateTypes
<1>4. qres_set_bandwidth(t) \in Structure
  <2>1. Lib(t).server_params \in Structure
    BY <1>2 DEF Lib, StateTypes, LibRecord
  <2>2. bw2Q(Call(t).arg, Lib(t).server_params.P) \in Nat
    <3>1. Call(t).arg \in Nat /\ Lib(t).server_params.P \in Nat
      BY <1>1, <2>1 DEF CallRecord, Structure
    <3> QED
      BY <3>1, BandwidthType
  <2> QED
    BY <2>1, <2>2 DEF qres_set_bandwidth, Structure
<1>5. sid(t) \in Nat
  BY <1>2 DEF sid, QRES_SID_NULL
<1>6. job.uids[t] \in Users
  BY DEF Users
<1> QED
  BY <1>1, <1>2, <1>3, <1>4, <1>5, <1>6 DEF iparams, Message, CallRecord

\* Types that mention the job are those of the next state.
LEMMA TypesNext ==
    ASSUME StateTypes, job' = job, servers' \in Seq(Server),
           lib' \in [Threads -> LibRecord], params' \in [Threads -> Structure],
           th' \in [Threads -> ThreadRecord], elapsed' \in [Threads -> BOOLEAN],
           happened' \subseteq Faults, oops' \in BOOLEAN
    PROVE  StateTypes'
<1>1. Users' = Users
  BY DEF Users
<1>2. Server' = Server /\ Message' = Message
  BY <1>1 DEF Server, Message
<1>3. ThreadRecord' = ThreadRecord
  BY <1>2 DEF ThreadRecord
<1> QED
  BY <1>2, <1>3 DEF StateTypes

\* A request is sent.
LEMMA ToIoctlFacts ==
    ASSUME StateTypes, NEW t \in Threads, InPlace(t), th[t].pos <= Len(Prog(t)),
           th' = ToIoctl(t, th)
    PROVE  th' \in [Threads -> ThreadRecord] /\ Itself(t) /\ Others(t) /\ Asks(t)
<1> DEFINE s == [th[t] EXCEPT !.pc = "ioctl"]
           r == [s EXCEPT !.msg = iparams(t)]
<1>1. th \in [Threads -> ThreadRecord] /\ th[t] \in ThreadRecord
  BY DEF StateTypes
<1>2. /\ s \in ThreadRecord
      /\ s.pc = "ioctl" /\ s.pos = th[t].pos
      /\ s.proc = th[t].proc /\ s.sid = th[t].sid /\ s.group = th[t].group
  BY <1>1 DEF ThreadRecord
<1> HIDE DEF s
<1>3. iparams(t) \in Message
  BY RequestFacts
<1>4. /\ r \in ThreadRecord
      /\ r.pc = s.pc /\ r.pos = s.pos /\ r.msg = iparams(t)
      /\ r.proc = s.proc /\ r.sid = s.sid /\ r.group = s.group
  BY <1>2, <1>3 DEF ThreadRecord
<1>5. th' = [th EXCEPT ![t] = r]
  BY <1>1 DEF ToIoctl, ThreadRecord, s
<1> HIDE DEF r
<1> QED
  BY <1>1, <1>2, <1>4, <1>5 DEF Itself, Others, Asks

\* A thread changes where it is in the call.
LEMMA PcFacts ==
    ASSUME StateTypes, NEW t \in Threads,
           NEW pc \in {"none", "prog", "open", "ioctl", "ret", "done"},
           th' = [th EXCEPT ![t].pc = pc]
    PROVE  /\ th' \in [Threads -> ThreadRecord] /\ Itself(t) /\ Others(t)
           /\ th'[t].pc = pc /\ th'[t].pos = th[t].pos
<1>1. th \in [Threads -> ThreadRecord] /\ th[t] \in ThreadRecord
  BY DEF StateTypes
<1> DEFINE r == [th[t] EXCEPT !.pc = pc]
<1>2. /\ r \in ThreadRecord
      /\ r.pc = pc /\ r.pos = th[t].pos
      /\ r.proc = th[t].proc /\ r.sid = th[t].sid /\ r.group = th[t].group
  BY <1>1 DEF ThreadRecord
<1>3. th' = [th EXCEPT ![t] = r]
  BY <1>1
<1> HIDE DEF r
<1> QED
  BY <1>1, <1>2, <1>3 DEF Itself, Others

LEMMA ForwardGoesOn ==
    ASSUME StateTypes, NEW t \in Threads, th' = Forward(t, th)
    PROVE  th' \in [Threads -> ThreadRecord] /\ GoesOn(t)
<1>1. th \in [Threads -> ThreadRecord]
  BY DEF StateTypes
<1> QED
  BY <1>1, ForwardFacts DEF GoesOn, Itself, Others

\* The descriptor of a process changes.
LEMMA OpenFacts ==
    ASSUME StateTypes, NEW p \in Threads, NEW fd \in BOOLEAN, NEW open \in Nat,
           lib' = [lib EXCEPT ![p].fd = fd, ![p].open = open]
    PROVE  lib' \in [Threads -> LibRecord] /\ OneOpen(p, fd, open)
<1> DEFINE s == [lib[p] EXCEPT !.fd = fd]
           r == [s EXCEPT !.open = open]
<1>1. lib \in [Threads -> LibRecord] /\ lib[p] \in LibRecord
  BY DEF StateTypes
<1>2. s \in LibRecord /\ s.fd = fd /\ s.server_params = lib[p].server_params
  BY <1>1 DEF LibRecord
<1> HIDE DEF s
<1>3. /\ r \in LibRecord
      /\ r.fd = fd /\ r.open = open /\ r.server_params = lib[p].server_params
  BY <1>2 DEF LibRecord
<1>4. lib' = [lib EXCEPT ![p] = r]
  BY <1>1 DEF LibRecord, s
<1> HIDE DEF r
<1> QED
  BY <1>1, <1>3, <1>4 DEF OneOpen

LEMMA LibFacts ==
    ASSUME StateTypes, NEW t \in Threads
    PROVE  /\ th[t].proc \in Threads /\ Lib(t) = lib[th[t].proc] /\ Lib(t) \in LibRecord
           /\ Lib(t).open \in Nat /\ Lib(t).fd \in BOOLEAN
           /\ th[t].pos \in Nat /\ th[t].sid \in Nat /\ th[t].group \in Nat
  BY DEF StateTypes, ThreadRecord, Lib, LibRecord

\* A process ends.
Exited(p, rv) ==
    /\ th' \in [Threads -> ThreadRecord] /\ lib' \in [Threads -> LibRecord]
    /\ \A u \in Threads :
          IF th[u].proc = p /\ Active(u) THEN IsOver(u, rv) ELSE th'[u] = th[u]
    /\ OneOpen(p, FALSE, 0)

LEMMA ExitFacts ==
    ASSUME StateTypes, NEW p \in Threads, NEW rv \in Results, Exit(p, rv, th)
    PROVE  Exited(p, rv)
<1>1. th \in [Threads -> ThreadRecord]
  BY DEF StateTypes
<1>2. ASSUME NEW u \in Threads
      PROVE  LET r == IF th[u].proc = p /\ th[u].pc \notin {"none", "done"}
                      THEN [th[u] EXCEPT !.pc = "done", !.rv = rv, !.group = 0] ELSE th[u]
             IN  /\ r \in ThreadRecord
                 /\ IF th[u].proc = p /\ Active(u)
                    THEN /\ r.pc = "done" /\ r.rv = rv /\ r.group = 0
                         /\ r.proc = th[u].proc /\ r.sid = th[u].sid /\ r.pos = th[u].pos
                    ELSE r = th[u]
  <2> DEFINE x == [th[u] EXCEPT !.pc = "done"]
             y == [x EXCEPT !.rv = rv]
             z == [y EXCEPT !.group = 0]
  <2>1. th[u] \in ThreadRecord
    BY <1>1
  <2>2. /\ x \in ThreadRecord /\ x.pc = "done"
        /\ x.proc = th[u].proc /\ x.sid = th[u].sid /\ x.pos = th[u].pos
    BY <2>1 DEF ThreadRecord
  <2> HIDE DEF x
  <2>3. /\ y \in ThreadRecord /\ y.pc = "done" /\ y.rv = rv
        /\ y.proc = th[u].proc /\ y.sid = th[u].sid /\ y.pos = th[u].pos
    BY <2>2 DEF ThreadRecord
  <2> HIDE DEF y
  <2>4. /\ z \in ThreadRecord /\ z.pc = "done" /\ z.rv = rv /\ z.group = 0
        /\ z.proc = th[u].proc /\ z.sid = th[u].sid /\ z.pos = th[u].pos
    BY <2>3 DEF ThreadRecord
  <2>5. [th[u] EXCEPT !.pc = "done", !.rv = rv, !.group = 0] = z
    BY DEF x, y
  <2>6. th[u].pc \notin {"none", "done"} <=> Active(u)
    BY <2>1 DEF ThreadRecord, Active
  <2> HIDE DEF z
  <2> QED
    BY <2>1, <2>4, <2>5, <2>6
<1>3. th' \in [Threads -> ThreadRecord]
  BY <1>2 DEF Exit
<1>4. ASSUME NEW u \in Threads
      PROVE  IF th[u].proc = p /\ Active(u) THEN IsOver(u, rv) ELSE th'[u] = th[u]
  BY <1>2 DEF Exit, IsOver
<1>5. lib' \in [Threads -> LibRecord] /\ OneOpen(p, FALSE, 0)
  BY OpenFacts DEF Exit
<1> QED
  BY <1>3, <1>4, <1>5 DEF Exited

\* The process of t ends with a result.
LEMMA ExitKind ==
    ASSUME StateTypes, NEW t \in Threads, NEW rv \in Results, Active(t),
           Exit(th[t].proc, rv, th), EndsWith(t, rv),
           UNCHANGED <<job, servers, params, elapsed, oops>>, happened' \subseteq Faults
    PROVE  StateTypes' /\ Exits(t)
<1>1. th[t].proc \in Threads
  BY LibFacts
<1>2. Exited(th[t].proc, rv)
  BY <1>1, ExitFacts, Zenon
<1>3. StateTypes'
  BY <1>2, TypesNext DEF StateTypes, Exited
<1> QED
  BY <1>2, <1>3 DEF Exits, Exited

-----------------------------------------------------------------------------
(* Every action is of its kind. *)

LEMMA BeginKind ==
    ASSUME StateTypes, PlaceInv, NEW t \in Threads, Begin(t)
    PROVE  StateTypes' /\ Begins(t)
<1>1. /\ th[t].pc = "prog" /\ th[t].pos <= Len(Prog(t)) /\ Call(t).op \notin Local
      /\ UNCHANGED <<job, servers, lib, params, elapsed, happened, oops>>
  BY DEF Begin, Running
<1>2. Opens(Call(t)) /\ Call(t).op # "init" /\ InPlace(t)
  BY <1>1 DEF Opens, Local, PlaceInv
<1>3. CASE Lib(t).fd
  <2>1. th' = ToIoctl(t, th)
    BY <1>3 DEF Begin, check_open
  <2>2. th' \in [Threads -> ThreadRecord] /\ Itself(t) /\ Others(t) /\ Asks(t)
    BY <1>1, <1>2, <2>1, ToIoctlFacts
  <2> QED
    BY <1>1, <1>2, <1>3, <2>2, TypesNext DEF Begins, StateTypes
<1>4. CASE ~Lib(t).fd
  <2>1. th' = [th EXCEPT ![t].pc = "open"]
    BY <1>4 DEF Begin, check_open
  <2>2. /\ th' \in [Threads -> ThreadRecord] /\ Itself(t) /\ Others(t)
        /\ th'[t].pc = "open" /\ th'[t].pos = th[t].pos
    BY <2>1, PcFacts
  <2> QED
    BY <1>1, <1>2, <1>4, <2>2, TypesNext DEF Begins, StateTypes
<1> QED
  BY <1>3, <1>4

LEMMA BeginInitKind ==
    ASSUME StateTypes, PlaceInv, NEW t \in Threads, BeginInit(t)
    PROVE  StateTypes' /\ Begins(t)
<1>1. /\ th[t].pc = "prog" /\ th[t].pos <= Len(Prog(t)) /\ Call(t).op = "init"
      /\ th' = [th EXCEPT ![t].pc = "open"]
      /\ UNCHANGED <<job, servers, lib, params, elapsed, happened, oops>>
  BY DEF BeginInit, Calls, Running
<1>2. /\ th' \in [Threads -> ThreadRecord] /\ Itself(t) /\ Others(t)
      /\ th'[t].pc = "open" /\ th'[t].pos = th[t].pos
  BY <1>1, PcFacts
<1> QED
  BY <1>1, <1>2, TypesNext DEF Begins, Opens, StateTypes

LEMMA OpenKind ==
    ASSUME StateTypes, PlaceInv, NEW t \in Threads, Open(t)
    PROVE  StateTypes' /\ Opened(t)
<1>1. /\ th[t].pc = "open"
      /\ lib' = [lib EXCEPT ![th[t].proc].fd = TRUE, ![th[t].proc].open = @ + 1]
      /\ th' = IF Call(t).op = "init" THEN Forward(t, th) ELSE ToIoctl(t, th)
      /\ UNCHANGED <<job, servers, params, elapsed, happened, oops>>
  BY DEF Open
<1>2. th[t].pos <= Len(Prog(t)) /\ InPlace(t)
  BY <1>1 DEF PlaceInv, InPlace
<1>3. lib' \in [Threads -> LibRecord] /\ OneOpen(th[t].proc, TRUE, Lib(t).open + 1)
  <2>0. th[t].proc \in Threads /\ Lib(t).open + 1 \in Nat /\ TRUE \in BOOLEAN
    BY LibFacts
  <2>1. lib' = [lib EXCEPT ![th[t].proc].fd = TRUE, ![th[t].proc].open = Lib(t).open + 1]
    BY <1>1, LibFacts DEF StateTypes, LibRecord
  <2> QED
    BY <2>0, <2>1, OpenFacts, Zenon
<1>4. CASE Call(t).op = "init"
  BY <1>1, <1>3, <1>4, ForwardGoesOn, TypesNext DEF Opened, StateTypes
<1>5. CASE Call(t).op # "init"
  BY <1>1, <1>2, <1>3, <1>5, ToIoctlFacts, TypesNext DEF Opened, StateTypes
<1> QED
  BY <1>4, <1>5

LEMMA OpenFailsKind ==
    ASSUME StateTypes, PlaceInv, NEW t \in Threads, OpenFails(t)
    PROVE  StateTypes' /\ (NotOpened(t) \/ Exits(t))
<1>1. /\ th[t].pc = "open" /\ "device" \in Faults
      /\ happened' = happened \cup {"device"}
      /\ UNCHANGED <<job, servers, params, elapsed, oops>>
  BY DEF OpenFails
<1>2. happened' \subseteq Faults
  BY <1>1 DEF StateTypes
<1>3. CASE Call(t).checked
  <2>1. Exit(th[t].proc, "MISSING_COMPONENT", th)
    BY <1>3 DEF OpenFails
  <2>2. "MISSING_COMPONENT" \in Results /\ Active(t)
    BY <1>1 DEF Active, AtCall, Results
  <2>3. happened' \subseteq Faults
    BY <1>1, <1>2 DEF StateTypes
  <2>4. EndsWith(t, "MISSING_COMPONENT")
    BY <1>1, <1>3 DEF EndsWith
  <2> QED
    BY <1>1, <2>1, <2>2, <2>3, <2>4, ExitKind
<1>4. CASE ~Call(t).checked
  <2>1. th' = Forward(t, th) /\ lib' = [lib EXCEPT ![th[t].proc].fd = FALSE]
    BY <1>4 DEF OpenFails
  <2>2. lib' = [lib EXCEPT ![th[t].proc].fd = FALSE, ![th[t].proc].open = Lib(t).open]
    BY <2>1, LibFacts DEF StateTypes, LibRecord
  <2>3. lib' \in [Threads -> LibRecord] /\ OneOpen(th[t].proc, FALSE, Lib(t).open)
    <3>1. th[t].proc \in Threads /\ Lib(t).open \in Nat /\ FALSE \in BOOLEAN
      BY LibFacts
    <3> QED
      BY <2>2, <3>1, OpenFacts, Zenon
  <2> QED
    BY <1>1, <1>2, <1>4, <2>1, <2>3, ForwardGoesOn, TypesNext DEF NotOpened, StateTypes
<1> QED
  BY <1>3, <1>4

LEMMA IoctlUnopenedKind ==
    ASSUME StateTypes, PlaceInv, NEW t \in Threads, IoctlUnopened(t)
    PROVE  StateTypes' /\ Unasked(t)
<1>1. /\ th[t].pc = "ioctl" /\ ~Lib(t).fd
      /\ th' = [th EXCEPT ![t].pc = "ret", ![t].rv = "GENERIC"]
      /\ UNCHANGED <<job, servers, lib, params, elapsed, happened, oops>>
  BY DEF IoctlUnopened
<1> DEFINE s == [th[t] EXCEPT !.pc = "ret"]
           r == [s EXCEPT !.rv = "GENERIC"]
<1>2. th \in [Threads -> ThreadRecord] /\ th[t] \in ThreadRecord
  BY DEF StateTypes
<1>3. /\ s \in ThreadRecord
      /\ s.pc = "ret" /\ s.pos = th[t].pos /\ s.msg = th[t].msg
      /\ s.proc = th[t].proc /\ s.sid = th[t].sid /\ s.group = th[t].group
  BY <1>2 DEF ThreadRecord
<1> HIDE DEF s
<1>4. /\ r \in ThreadRecord
      /\ r.pc = "ret" /\ r.rv = "GENERIC" /\ r.pos = th[t].pos /\ r.msg = th[t].msg
      /\ r.proc = th[t].proc /\ r.sid = th[t].sid /\ r.group = th[t].group
  BY <1>3 DEF ThreadRecord, Results
<1>5. th' = [th EXCEPT ![t] = r]
  BY <1>1, <1>2 DEF ThreadRecord, s
<1> HIDE DEF r
<1>6. /\ th' \in [Threads -> ThreadRecord] /\ Itself(t) /\ Others(t)
      /\ th'[t].pc = "ret" /\ th'[t].rv = "GENERIC"
      /\ th'[t].pos = th[t].pos /\ th'[t].msg = th[t].msg
  BY <1>2, <1>4, <1>5 DEF Itself, Others
<1> QED
  BY <1>1, <1>6, TypesNext DEF Unasked, StateTypes

LEMMA CleanupKind ==
    ASSUME StateTypes, PlaceInv, FileInv, NEW t \in Threads, Cleanup(t)
    PROVE  StateTypes' /\ (Closes(t) \/ Aside(t) \/ Exits(t))
<1>1. /\ AtCall(t, "cleanup")
      /\ UNCHANGED <<job, servers, params, elapsed, happened, oops>>
  BY DEF Cleanup, Calls, Running, AtCall
<1>2. CASE Lib(t).fd
  <2>1. Lib(t).open - 1 \in Nat
    BY <1>2, LibFacts DEF FileInv
  <2>2. /\ lib' = [lib EXCEPT ![th[t].proc].fd = FALSE, ![th[t].proc].open = Lib(t).open - 1]
        /\ th' = Forward(t, th)
    BY <1>2, LibFacts DEF Cleanup, StateTypes, LibRecord
  <2>3. lib' \in [Threads -> LibRecord] /\ OneOpen(th[t].proc, FALSE, Lib(t).open - 1)
    <3>1. th[t].proc \in Threads /\ FALSE \in BOOLEAN
      BY LibFacts
    <3> QED
      BY <2>1, <2>2, <3>1, OpenFacts, Zenon
  <2> QED
    BY <1>1, <1>2, <2>2, <2>3, ForwardGoesOn, TypesNext DEF Closes, StateTypes
<1>3. CASE ~Lib(t).fd /\ Call(t).checked
  <2>1. Exit(th[t].proc, "INCONSISTENT_STATE", th)
    BY <1>3 DEF Cleanup, Failed
  <2>2. "INCONSISTENT_STATE" \in Results /\ Active(t)
    BY <1>1 DEF Active, AtCall, Results
  <2>3. happened' \subseteq Faults
    BY <1>1 DEF StateTypes
  <2>4. EndsWith(t, "INCONSISTENT_STATE")
    BY <1>1, <1>3 DEF EndsWith
  <2> QED
    BY <1>1, <2>1, <2>2, <2>3, <2>4, ExitKind
<1>4. CASE ~Lib(t).fd /\ ~Call(t).checked
  <2>1. th' = Forward(t, th) /\ lib' = lib
    BY <1>4 DEF Cleanup, Failed
  <2> QED
    BY <1>1, <1>4, <2>1, ForwardGoesOn, TypesNext DEF Aside, AtCall, StateTypes
<1> QED
  BY <1>2, <1>3, <1>4

LEMMA AssignKind ==
    ASSUME StateTypes, PlaceInv, NEW t \in Threads, Assign(t)
    PROVE  StateTypes' /\ Aside(t)
<1>1. /\ th[t].pc = "prog" /\ th[t].pos <= Len(Prog(t))
      /\ Call(t).op \in {"let", "period"}
      /\ th' = Forward(t, th)
      /\ UNCHANGED <<job, servers, lib, elapsed, happened, oops>>
  BY DEF Assign, Calls, Running
<1>2. StructOf(t) \in Threads /\ Call(t).arg \in Nat
  BY <1>1, JobFacts, CallFacts DEF PlaceInv, CallRecord
<1>3. \/ Call(t).op = "let" /\ params' = [params EXCEPT ![StructOf(t)].Q = Call(t).arg]
      \/ Call(t).op = "period" /\ params' = [params EXCEPT ![StructOf(t)].P = Call(t).arg]
  BY DEF Assign, Calls
<1>4. params' \in [Threads -> Structure]
  <2> DEFINE k == StructOf(t)
  <2>1. params \in [Threads -> Structure] /\ params[k] \in Structure
    BY <1>2 DEF StateTypes
  <2>2. /\ [params[k] EXCEPT !.Q = Call(t).arg] \in Structure
        /\ [params[k] EXCEPT !.P = Call(t).arg] \in Structure
    BY <1>2, <2>1 DEF Structure
  <2>3. \/ params' = [params EXCEPT ![k] = [params[k] EXCEPT !.Q = Call(t).arg]]
        \/ params' = [params EXCEPT ![k] = [params[k] EXCEPT !.P = Call(t).arg]]
    BY <1>3, <2>1
  <2> QED
    BY <2>1, <2>2, <2>3
<1>5. Call(t).op \in Local \ ({"init", "cleanup", "repeat"} \cup Starts) /\ Call(t).op # "join"
  BY <1>1 DEF Local, Starts
<1> QED
  BY <1>1, <1>3, <1>4, <1>5, ForwardGoesOn, TypesNext DEF Aside, StateTypes

\* The calls about the time.
LEMMA LateFacts ==
    ASSUME StateTypes, NEW t \in Threads, NEW late \in BOOLEAN,
           th' = [Forward(t, th) EXCEPT ![t].late = late]
    PROVE  th' \in [Threads -> ThreadRecord] /\ GoesOn(t)
<1> DEFINE f == Forward(t, th)
           r == [f[t] EXCEPT !.late = late]
<1>1. /\ f \in [Threads -> ThreadRecord]
      /\ \A u \in Threads \ {t} : f[u] = th[u]
      /\ f[t].pc = "prog" /\ f[t].pos = th[t].pos + 1
      /\ f[t].proc = th[t].proc /\ f[t].sid = th[t].sid /\ f[t].group = th[t].group
  BY ForwardFacts DEF StateTypes
<1> HIDE DEF f
<1>2. /\ r \in ThreadRecord
      /\ r.pc = f[t].pc /\ r.pos = f[t].pos
      /\ r.proc = f[t].proc /\ r.sid = f[t].sid /\ r.group = f[t].group
  BY <1>1 DEF ThreadRecord
<1>3. th' = [f EXCEPT ![t] = r]
  BY <1>1 DEF f
<1> HIDE DEF r
<1> QED
  BY <1>1, <1>2, <1>3 DEF GoesOn, Itself, Others

LEMMA ClockKind ==
    ASSUME StateTypes, PlaceInv, NEW t \in Threads, Clock(t) \/ Gettimeofday(t) \/ Count(t)
    PROVE  StateTypes' /\ Aside(t)
<1>1. /\ th[t].pc = "prog" /\ th[t].pos <= Len(Prog(t))
      /\ Call(t).op \in {"clock", "gettimeofday", "count"}
      /\ UNCHANGED <<job, servers, lib, params, happened, oops>>
  BY DEF Clock, Gettimeofday, Count, Calls, Running
<1>2. elapsed' \in [Threads -> BOOLEAN]
  BY DEF Clock, Gettimeofday, Count, StateTypes
<1>3. th' \in [Threads -> ThreadRecord] /\ GoesOn(t)
  <2>1. CASE Clock(t)
    BY <2>1, LateFacts DEF Clock
  <2>2. CASE Gettimeofday(t)
    <3>1. elapsed[t] \in BOOLEAN
      BY DEF StateTypes
    <3> QED
      BY <2>2, <3>1, LateFacts DEF Gettimeofday
  <2>3. CASE Count(t)
    BY <2>3, ForwardGoesOn DEF Count
  <2> QED
    BY <2>1, <2>2, <2>3
<1>4. /\ Call(t).op \in Local \ ({"init", "cleanup", "repeat"} \cup Starts)
      /\ Call(t).op \notin {"join", "period"}
  BY <1>1 DEF Local, Starts
<1> QED
  BY <1>1, <1>2, <1>3, <1>4, TypesNext DEF Aside, StateTypes

LEMMA RepeatKind ==
    ASSUME StateTypes, PlaceInv, NEW t \in Threads, Repeat(t)
    PROVE  StateTypes' /\ Jumps(t)
<1>1. /\ AtCall(t, "repeat") /\ th[t].pos <= Len(Prog(t))
      /\ UNCHANGED <<job, servers, lib, params, elapsed, happened, oops>>
  BY DEF Repeat, Calls, Running, AtCall
<1>2. CASE th[t].late
  <2>1. th' = Forward(t, th)
    BY <1>2 DEF Repeat
  <2> QED
    BY <1>1, <2>1, ForwardGoesOn, TypesNext DEF Jumps, GoesOn, StateTypes
<1>3. CASE ~th[t].late
  <2> DEFINE r == [th[t] EXCEPT !.pos = Call(t).arg]
  <2>1. Call(t).arg \in Nat
    BY <1>1, CallFacts DEF PlaceInv, CallRecord
  <2>2. th \in [Threads -> ThreadRecord] /\ th[t] \in ThreadRecord
    BY DEF StateTypes
  <2>3. /\ r \in ThreadRecord
        /\ r.pc = th[t].pc /\ r.pos = Call(t).arg
        /\ r.proc = th[t].proc /\ r.sid = th[t].sid /\ r.group = th[t].group
    BY <2>1, <2>2 DEF ThreadRecord
  <2>4. th' = [th EXCEPT ![t] = r]
    BY <1>3, <2>2 DEF Repeat
  <2> HIDE DEF r
  <2>5. /\ th' \in [Threads -> ThreadRecord] /\ Itself(t) /\ Others(t)
        /\ th'[t].pc = "prog" /\ th'[t].pos = Call(t).arg
    BY <1>1, <2>2, <2>3, <2>4 DEF Itself, Others, AtCall
  <2> QED
    BY <1>1, <2>5, TypesNext DEF Jumps, StateTypes
<1> QED
  BY <1>2, <1>3

LEMMA JoinKind ==
    ASSUME StateTypes, PlaceInv, NEW t \in Threads, Join(t)
    PROVE  StateTypes' /\ (Aside(t) \/ Exits(t))
<1>1. /\ AtCall(t, "join") /\ th[2].pc = "done"
      /\ UNCHANGED <<job, servers, params, elapsed, happened, oops>>
  BY DEF Join, Calls, Running, AtCall
<1>2. CASE th[2].rv = "OK" \/ ~Call(t).checked
  <2>1. th' = Forward(t, th) /\ lib' = lib
    BY <1>2 DEF Join, Failed
  <2>2. Call(t).op \in Local \ ({"init", "cleanup", "repeat"} \cup Starts)
    BY <1>1 DEF AtCall, Local, Starts
  <2> QED
    BY <1>1, <2>1, <2>2, ForwardGoesOn, TypesNext DEF Aside, AtCall, StateTypes
<1>3. CASE th[2].rv # "OK" /\ Call(t).checked
  <2>1. Exit(th[t].proc, "GENERIC", th)
    BY <1>3 DEF Join, Failed
  <2>2. "GENERIC" \in Results /\ Active(t)
    BY <1>1 DEF Active, AtCall, Results
  <2>3. happened' \subseteq Faults
    BY <1>1 DEF StateTypes
  <2>4. EndsWith(t, "GENERIC")
    BY <1>1, <1>3 DEF EndsWith
  <2> QED
    BY <1>1, <2>1, <2>2, <2>3, <2>4, ExitKind
<1> QED
  BY <1>2, <1>3

LEMMA ReturnKind ==
    ASSUME StateTypes, PlaceInv, NEW t \in Threads, Return(t)
    PROVE  StateTypes' /\ (Returns(t) \/ Exits(t))
<1> DEFINE answered == [th EXCEPT ![t].sid = IF th[t].msg.op = "create" THEN th[t].val ELSE @,
                                  ![t].late = IF th[t].msg.op = "get_exec_time"
                                              THEN th[t].val = 1 ELSE @]
           remembered == [lib EXCEPT ![th[t].proc].server_params =
                                         IF Remembered(t) THEN Param(t) ELSE @]
<1>1. /\ th[t].pc = "ret" /\ th[t].msg \in Message
      /\ UNCHANGED <<job, servers, params, elapsed, happened, oops>>
      /\ IF th[t].rv = "OK" THEN th' = Forward(t, answered) /\ lib' = remembered
         ELSE IF Call(t).checked THEN Exit(th[t].proc, th[t].rv, th)
         ELSE th' = Forward(t, th) /\ lib' = remembered
  BY DEF Return, PlaceInv, InPlace, InCall
<1>2. th \in [Threads -> ThreadRecord] /\ th[t] \in ThreadRecord /\ lib \in [Threads -> LibRecord]
  BY DEF StateTypes
<1>3. remembered \in [Threads -> LibRecord]
  <2> DEFINE l == lib[th[t].proc]
             sp == IF Remembered(t) THEN Param(t) ELSE l.server_params
  <2>1. th[t].proc \in Threads /\ l \in LibRecord
    BY LibFacts
  <2>2. sp \in Structure
    BY <2>1, JobFacts DEF Param, StateTypes, LibRecord
  <2> HIDE DEF sp
  <2>3. [l EXCEPT !.server_params = sp] \in LibRecord
    BY <2>1, <2>2 DEF LibRecord
  <2>4. remembered = [lib EXCEPT ![th[t].proc] = [l EXCEPT !.server_params = sp]]
    BY <1>2, <2>1 DEF LibRecord, sp
  <2> HIDE DEF remembered
  <2> QED
    BY <1>2, <2>1, <2>3, <2>4
<1> HIDE DEF answered, remembered
<1>4. CASE th[t].rv = "OK"
  <2> DEFINE sid1 == IF Creating(t) THEN th[t].val ELSE th[t].sid
             late1 == IF th[t].msg.op = "get_exec_time" THEN th[t].val = 1 ELSE th[t].late
             r == [th[t] EXCEPT !.sid = sid1]
             s == [r EXCEPT !.late = late1]
  <2>1. th[t].msg.op = "create" <=> Creating(t)
    BY <1>1, <1>4 DEF Creating
  <2>2. sid1 \in Nat
    BY <1>2, <1>4, <2>1 DEF PlaceInv, InPlace, ThreadRecord
  <2>3. late1 \in BOOLEAN
    BY <1>2 DEF ThreadRecord
  <2> HIDE DEF sid1, late1
  <2>4. /\ r \in ThreadRecord /\ r.sid = sid1 /\ r.pc = th[t].pc /\ r.pos = th[t].pos
        /\ r.proc = th[t].proc /\ r.group = th[t].group
    BY <1>2, <2>2 DEF ThreadRecord
  <2>5. /\ s \in ThreadRecord /\ s.sid = sid1 /\ s.pc = th[t].pc /\ s.pos = th[t].pos
        /\ s.proc = th[t].proc /\ s.group = th[t].group
    <3> HIDE DEF r
    <3> QED
      BY <2>3, <2>4 DEF ThreadRecord
  <2>6. answered = [th EXCEPT ![t] = s]
    BY <1>2, <2>1 DEF answered, ThreadRecord, sid1, late1
  <2> HIDE DEF s
  <2>7. answered \in [Threads -> ThreadRecord]
    BY <1>2, <2>5, <2>6
  <2>8. /\ answered[t].sid = sid1 /\ answered[t].pos = th[t].pos
        /\ answered[t].proc = th[t].proc /\ answered[t].group = th[t].group
        /\ \A u \in Threads \ {t} : answered[u] = th[u]
    BY <1>2, <2>5, <2>6
  <2>9. th' = Forward(t, answered) /\ lib' = remembered
    BY <1>1, <1>4
  <2>10. /\ th' \in [Threads -> ThreadRecord] /\ Others(t)
         /\ th'[t].pc = "prog" /\ th'[t].pos = th[t].pos + 1
         /\ th'[t].proc = th[t].proc /\ th'[t].group = th[t].group /\ th'[t].sid = sid1
    BY <2>7, <2>8, <2>9, ForwardFacts DEF Others
  <2>11. StateTypes'
    BY <1>1, <1>3, <2>9, <2>10, TypesNext DEF StateTypes
  <2> QED
    BY <1>1, <1>4, <2>9, <2>10, <2>11 DEF Returns, sid1, remembered
<1>5. CASE th[t].rv # "OK" /\ ~Call(t).checked
  <2>1. th' = Forward(t, th) /\ lib' = remembered /\ ~Creating(t)
    BY <1>1, <1>5 DEF Creating
  <2>2. th' \in [Threads -> ThreadRecord] /\ GoesOn(t)
    BY <2>1, ForwardGoesOn
  <2>3. StateTypes'
    BY <1>1, <1>3, <2>1, <2>2, TypesNext DEF StateTypes
  <2> QED
    BY <1>1, <1>5, <2>1, <2>2, <2>3 DEF Returns, remembered, GoesOn, Itself
<1>6. CASE th[t].rv # "OK" /\ Call(t).checked
  <2>1. Exit(th[t].proc, th[t].rv, th)
    BY <1>1, <1>6
  <2>2. th[t].rv \in Results /\ Active(t)
    BY <1>1, <1>2 DEF Active, ThreadRecord
  <2>3. happened' \subseteq Faults
    BY <1>1 DEF StateTypes
  <2>4. EndsWith(t, th[t].rv)
    BY <1>1, <1>6 DEF EndsWith
  <2> QED
    BY <1>1, <2>1, <2>2, <2>3, <2>4, ExitKind
<1> QED
  BY <1>4, <1>5, <1>6

LEMMA EndKind ==
    ASSUME StateTypes, PlaceInv, NEW t \in Threads, End(t)
    PROVE  StateTypes' /\ (Exits(t) \/ Ends(t))
<1>1. /\ th[t].pc = "prog"
      /\ UNCHANGED <<job, servers, params, elapsed, happened, oops>>
      /\ IF t = 1 \/ th[t].proc = 2 THEN Exit(th[t].proc, "OK", th)
         ELSE /\ th' = [th EXCEPT ![t].pc = "done", ![t].rv = "OK", ![t].group = 0]
              /\ lib' = lib
  BY DEF End
<1>2. CASE t = 1 \/ th[t].proc = 2
  <2>1. Exit(th[t].proc, "OK", th)
    BY <1>1, <1>2
  <2>2. "OK" \in Results /\ Active(t)
    BY <1>1 DEF Active, Results
  <2>3. happened' \subseteq Faults
    BY <1>1 DEF StateTypes
  <2>4. EndsWith(t, "OK")
    BY <1>1 DEF EndsWith
  <2> QED
    BY <1>1, <2>1, <2>2, <2>3, <2>4, ExitKind
<1>3. CASE ~(t = 1 \/ th[t].proc = 2)
  <2> DEFINE x == [th[t] EXCEPT !.pc = "done"]
             y == [x EXCEPT !.rv = "OK"]
             z == [y EXCEPT !.group = 0]
  <2>1. th \in [Threads -> ThreadRecord] /\ th[t] \in ThreadRecord
    BY DEF StateTypes
  <2>2. /\ x \in ThreadRecord /\ x.pc = "done"
        /\ x.proc = th[t].proc /\ x.sid = th[t].sid /\ x.pos = th[t].pos
    BY <2>1 DEF ThreadRecord
  <2> HIDE DEF x
  <2>3. /\ y \in ThreadRecord /\ y.pc = "done" /\ y.rv = "OK"
        /\ y.proc = th[t].proc /\ y.sid = th[t].sid /\ y.pos = th[t].pos
    BY <2>2 DEF ThreadRecord, Results
  <2> HIDE DEF y
  <2>4. /\ z \in ThreadRecord /\ z.pc = "done" /\ z.rv = "OK" /\ z.group = 0
        /\ z.proc = th[t].proc /\ z.sid = th[t].sid /\ z.pos = th[t].pos
    BY <2>3 DEF ThreadRecord
  <2>5. th' = [th EXCEPT ![t] = z] /\ lib' = lib
    BY <1>1, <1>3, <2>1 DEF x, y, ThreadRecord
  <2> HIDE DEF z
  <2>6. th' \in [Threads -> ThreadRecord] /\ IsOver(t, "OK") /\ Others(t)
    BY <2>1, <2>4, <2>5 DEF IsOver, Others
  <2>7. StateTypes'
    BY <1>1, <2>5, <2>6, TypesNext DEF StateTypes
  <2> QED
    BY <1>1, <1>3, <2>5, <2>6, <2>7 DEF Ends, Threads
<1> QED
  BY <1>2, <1>3

LEMMA TickKind ==
    ASSUME StateTypes, NEW t \in Threads, Tick(t)
    PROVE  StateTypes' /\ Waits
<1>1. elapsed' \in [Threads -> BOOLEAN]
  BY DEF Tick, StateTypes
<1> QED
  BY <1>1, TypesNext DEF Tick, StateTypes, Waits

LEMMA StartKind ==
    ASSUME StateTypes, PlaceInv, NEW t \in Threads, Start(t)
    PROVE  StateTypes' /\ StartsOther(t)
<1> DEFINE proc == IF Call(t).op = "spawn" THEN th[t].proc ELSE 2
           l == IF Call(t).op = "exec" THEN Closed ELSE Lib(t)
           x == Thread("prog", proc)
           y == [x EXCEPT !.group = th[t].group]
           th1 == [th EXCEPT ![2] = y]
<1>1. /\ th[t].pc = "prog" /\ th[t].pos <= Len(Prog(t)) /\ Call(t).op \in Starts
      /\ th' = Forward(t, th1) /\ lib' = [lib EXCEPT ![proc] = l]
      /\ oops' = (th[t].group # 0)
      /\ UNCHANGED <<job, servers, params, elapsed, happened>>
  BY DEF Start, Calls, Running, Starts
<1>2. Prog(t) \in Seq(CallRecord) /\ th[t].pos \in 1 .. Len(Prog(t))
  BY <1>1, JobFacts, CallFacts DEF PlaceInv
<1>3. StartsOne(Prog(1), Prog(2))
  BY JobFacts DEF JobFits, Prog
<1>4. t = 1
  BY <1>1, <1>2, <1>3 DEF StartsOne, Call, Threads
<1>5. th[2].pc = "none"
  <2> SUFFICES ASSUME th[2].pc # "none" PROVE FALSE
    OBVIOUS
  <2>1. PICK n \in 1 .. th[1].pos - 1 : Prog(1)[n].op \in Starts
    BY DEF PlaceInv, SecondInv
  <2>2. n \in DOMAIN Prog(1) /\ th[1].pos \in DOMAIN Prog(1) /\ n # th[1].pos
    BY <1>2, <1>4, <2>1
  <2> QED
    BY <1>1, <1>3, <1>4, <2>1, <2>2 DEF StartsOne, Call
<1>6. th \in [Threads -> ThreadRecord] /\ lib \in [Threads -> LibRecord]
  BY DEF StateTypes
<1>7. proc \in Threads /\ l \in LibRecord /\ th[t].group \in Nat /\ 2 \in Threads
  BY LibFacts DEF Closed, LibRecord, Structure, NoParams, Threads
<1> HIDE DEF proc, l
<1>8. x \in ThreadRecord
  BY <1>7 DEF Thread, ThreadRecord, Results, Values, QRES_SID_NULL
<1>9. y \in ThreadRecord
  BY <1>7, <1>8 DEF ThreadRecord
<1> HIDE DEF y
<1>10. /\ th1 \in [Threads -> ThreadRecord]
       /\ th1[2] = y /\ th1[1] = th[1]
  BY <1>6, <1>7, <1>9 DEF Threads
<1> HIDE DEF th1
<1>11. /\ th' \in [Threads -> ThreadRecord] /\ th'[2] = y
       /\ Itself(t) /\ th'[t].pc = "prog" /\ th'[t].pos = th[t].pos + 1
  <2>1. 1 \in Threads /\ 2 \in Threads \ {1}
    BY DEF Threads
  <2>2. /\ Forward(1, th1) \in [Threads -> ThreadRecord]
        /\ Forward(1, th1)[2] = th1[2]
        /\ Forward(1, th1)[1].pc = "prog" /\ Forward(1, th1)[1].pos = th1[1].pos + 1
        /\ Forward(1, th1)[1].proc = th1[1].proc /\ Forward(1, th1)[1].sid = th1[1].sid
        /\ Forward(1, th1)[1].group = th1[1].group
    BY <1>10, <2>1, ForwardFacts, Zenon
  <2> HIDE DEF x
  <2> QED
    BY <1>1, <1>4, <1>10, <2>2 DEF Itself
<1>12. StateTypes'
  <2>1. oops' \in BOOLEAN
    BY <1>1
  <2> QED
    BY <1>1, <1>6, <1>7, <1>11, <2>1, TypesNext DEF StateTypes
<1> QED
  BY <1>1, <1>4, <1>5, <1>11, <1>12 DEF StartsOther, proc, l, y

-----------------------------------------------------------------------------
(* What the device makes of a request. *)

\* The servers are what they were, or one is new, freed, or has other parameters
\* or another weight.
New(m, o) ==
    /\ m.op = "create" /\ Accepted(m.params)
    /\ o.rv = "OK" /\ o.oops = FALSE /\ o.fault = "none" /\ o.val = Len(servers) + 1
    /\ \E w \in Weights : o.servers = Append(servers, NewServer(m, w))

Freed(m, o) ==
    /\ m.op = "destroy" /\ o.rv = "OK" /\ o.oops = FALSE /\ o.fault = "none"
    /\ m.sid \in DOMAIN servers /\ servers[m.sid].tg = "live"
    /\ o.servers = [servers EXCEPT ![m.sid].tg = "freed"]

Reset(m, o) ==
    LET set == [servers EXCEPT ![m.sid].params = Rounded(m.params)]
    IN  /\ m.op \in {"set_params", "set_bandwidth"} /\ o.rv = "OK" /\ o.oops = FALSE /\ o.fault = "none"
        /\ m.sid \in DOMAIN servers /\ Accepted(m.params)
        /\ m.params.flags = servers[m.sid].params.flags
        /\ o.servers = IF Readmitted(servers[m.sid].params, Rounded(m.params))
                       THEN [set EXCEPT ![m.sid].tg = "lost"] ELSE set

Weighted(m, o) ==
    /\ m.op \in {"set_weight", "get_weight"} /\ o.rv = "OK" /\ o.oops = FALSE /\ o.fault = "none"
    /\ m.sid \in DOMAIN servers
    /\ \E w \in Weights : o.servers = [servers EXCEPT ![m.sid].weight = w]

\* When they are, it is because of what was refused, or asked for.
MayFail(m) ==
    \/ m.op \in {"get_sid", "get_weight"} \/ (m.op # "create" /\ m.task # "self")
    \/ m.op = "create" /\ ~Accepted(m.params)
    \/ m.op # "create" /\ m.sid \notin DOMAIN servers
    \/ m.op # "create" /\ m.sid \in DOMAIN servers /\ ~Authorized(m, servers)
    \/ /\ m.op \in {"set_params", "set_bandwidth"} /\ m.sid \in DOMAIN servers
       /\ ~Accepted(m.params) \/ m.params.flags # servers[m.sid].params.flags
    \/ m.op = "set_weight" /\ m.weight = 0

Same(m, o) ==
    /\ o.servers = servers
    /\ m.op = "create" => o.rv # "OK" \/ o.fault = "group"
    /\ o.oops = TRUE =>
          /\ m.op \in {"attach", "destroy"}
          /\ m.sid \in DOMAIN servers /\ servers[m.sid].tg # "live"
    /\ m.op = "attach" /\ o.rv = "OK" /\ o.oops = FALSE => servers[m.sid].tg = "live"
    /\ m.op = "destroy" /\ o.rv = "OK" /\ o.oops = FALSE => servers[m.sid].tg = "lost"
    /\ m.op # "create" /\ o.rv = "OK" => m.sid \in DOMAIN servers
    /\ o.rv # "OK" => o.fault # "none" \/ MayFail(m)
    /\ o.rv = "NOT_FOUND" => m.op = "get_sid" \/ (m.op # "create" /\ m.sid \notin DOMAIN servers)

Came(m, o) ==
    /\ o.rv \in Results /\ o.oops \in BOOLEAN /\ o.val \in Values
    /\ m.op = "create" => o.val \in Nat
    /\ o.fault = "none" \/ o.fault \in Faults
    /\ New(m, o) \/ Freed(m, o) \/ Reset(m, o) \/ Weighted(m, o) \/ Same(m, o)

LEMMA ResultNames ==
    /\ "OK" \in Results /\ "NOT_FOUND" \in Results /\ "INVALID_PARAM" \in Results
    /\ "UNAUTHORIZED" \in Results /\ "UNIMPLEMENTED" \in Results
  BY DEF Results

LEMMA CameBy ==
    ASSUME NEW m, NEW o, o.rv \in Results, o.oops = FALSE \/ o.oops = TRUE,
           o.val \in Nat \/ (o.val \in Weights /\ m.op # "create"),
           o.fault = "none" \/ o.fault \in Faults,
           New(m, o) \/ Freed(m, o) \/ Reset(m, o) \/ Weighted(m, o) \/ Same(m, o)
    PROVE  Came(m, o)
<1>1. o.val \in Values /\ (m.op = "create" => o.val \in Nat)
  BY DEF Values
<1>2. o.oops \in BOOLEAN
  OBVIOUS
<1> QED
  BY <1>1, <1>2, Zenon DEF Came

LEMMA CreateCame ==
    ASSUME StateTypes, NEW m \in Message, m.op = "create",
           NEW o \in qres_create_server(m, servers)
    PROVE  Came(m, o)
<1>1. CASE ~Accepted(m.params)
  <2>1. o = Outcome("INVALID_PARAM", 0, servers)
    BY <1>1 DEF qres_create_server, Fails, QRES_SID_NULL
  <2>2. /\ o.rv = "INVALID_PARAM" /\ o.oops = FALSE /\ o.val = 0 /\ o.fault = "none"
        /\ o.servers = servers
    BY <2>1 DEF Outcome
  <2> QED
    <3>1. Same(m, o)
      BY <1>1, <2>2 DEF Same, MayFail
    <3>8. o.rv \in Results
      BY <2>2, <3>1 DEF Results
    <3>9. o.val \in Nat \/ (o.val \in Weights /\ m.op # "create")
      BY <2>2, <3>1
    <3> QED
      BY <2>2, <3>1, <3>8, <3>9, CameBy, Zenon
<1>2. CASE Accepted(m.params)
  <2>1. \/ \E w \in Weights : o = Outcome("OK", Len(servers) + 1, Append(servers, NewServer(m, w)))
        \/ /\ "refused" \in Faults
           /\ o = [Outcome("UNAUTHORIZED", 0, servers) EXCEPT !.fault = "refused"]
        \/ /\ "group" \in Faults
           /\ \E i \in 0 .. Len(servers) + 1 :
                 o = [Outcome("OK", i, servers) EXCEPT !.fault = "group"]
    BY <1>2 DEF qres_create_server, Fails, When, QRES_SID_NULL
  <2>0. Len(servers) \in Nat
    BY DEF StateTypes
  <2>2. CASE \E w \in Weights : o = Outcome("OK", Len(servers) + 1, Append(servers, NewServer(m, w)))
    <3>1. /\ o.rv = "OK" /\ o.oops = FALSE /\ o.val = Len(servers) + 1 /\ o.fault = "none"
          /\ \E w \in Weights : o.servers = Append(servers, NewServer(m, w))
      BY <2>2 DEF Outcome
    <3> QED
      <4>1. New(m, o) /\ o.val \in Nat
        BY <1>2, <2>0, <3>1 DEF New
      <4>8. o.rv \in Results
        BY <3>1, <4>1 DEF Results
      <4>9. o.val \in Nat \/ (o.val \in Weights /\ m.op # "create")
        BY <3>1, <4>1
      <4> QED
        BY <3>1, <4>1, <4>8, <4>9, CameBy, Zenon
  <2>3. CASE /\ "refused" \in Faults
             /\ o = [Outcome("UNAUTHORIZED", 0, servers) EXCEPT !.fault = "refused"]
    <3>1. /\ o.rv = "UNAUTHORIZED" /\ o.oops = FALSE /\ o.val = 0 /\ o.fault = "refused"
          /\ o.servers = servers
      BY <2>3 DEF Outcome
    <3> QED
      <4>1. Same(m, o)
        BY <3>1 DEF Same
      <4>8. o.rv \in Results
        BY <2>3, <3>1, <4>1 DEF Results
      <4>9. o.val \in Nat \/ (o.val \in Weights /\ m.op # "create")
        BY <2>3, <3>1, <4>1
      <4> QED
        BY <2>3, <3>1, <4>1, <4>8, <4>9, CameBy, Zenon
  <2>4. CASE /\ "group" \in Faults
             /\ \E i \in 0 .. Len(servers) + 1 :
                   o = [Outcome("OK", i, servers) EXCEPT !.fault = "group"]
    <3>1. /\ o.rv = "OK" /\ o.oops = FALSE /\ o.val \in Nat /\ o.fault = "group"
          /\ o.servers = servers
      BY <2>0, <2>4 DEF Outcome
    <3> QED
      <4>1. Same(m, o)
        BY <3>1 DEF Same
      <4>8. o.rv \in Results
        BY <2>4, <3>1, <4>1 DEF Results
      <4>9. o.val \in Nat \/ (o.val \in Weights /\ m.op # "create")
        BY <2>4, <3>1, <4>1
      <4> QED
        BY <2>4, <3>1, <4>1, <4>8, <4>9, CameBy, Zenon
  <2> QED
    BY <2>1, <2>2, <2>3, <2>4
<1> QED
  BY <1>1, <1>2

\* Of a server that is not there, nothing is done; a group that is gone is used.
LEMMA FailsCame ==
    ASSUME NEW m \in Message, NEW rv \in Results, m.op # "create",
           NEW o \in Fails(rv, servers),
           rv # "OK" => MayFail(m), rv = "OK" => m.sid \in DOMAIN servers,
           m.op = "attach" /\ rv = "OK" => servers[m.sid].tg = "live",
           m.op = "destroy" /\ rv = "OK" => servers[m.sid].tg = "lost",
           rv = "NOT_FOUND" => m.op = "get_sid" \/ m.sid \notin DOMAIN servers
    PROVE  Came(m, o)
<1>1. /\ o.rv = rv /\ o.oops = FALSE /\ o.val = 0 /\ o.fault = "none" /\ o.servers = servers
  BY DEF Fails, Outcome, QRES_SID_NULL
<1>2. Same(m, o)
  BY <1>1 DEF Same
<1>8. o.rv \in Results
  BY <1>1, <1>2 DEF Results
<1>9. o.val \in Nat \/ (o.val \in Weights /\ m.op # "create")
  BY <1>1, <1>2
<1> QED
  BY <1>1, <1>2, <1>8, <1>9, CameBy, Zenon

LEMMA OopsesCame ==
    ASSUME NEW m \in Message, NEW o \in Oopses(servers),
           m.op \in {"attach", "destroy"}, m.sid \in DOMAIN servers, servers[m.sid].tg # "live"
    PROVE  Came(m, o)
<1>1. /\ o.rv = "OK" /\ o.oops = TRUE /\ o.val = 0 /\ o.fault = "none" /\ o.servers = servers
  BY DEF Oopses, Outcome, QRES_SID_NULL
<1>2. Same(m, o)
  BY <1>1 DEF Same
<1>8. o.rv \in Results
  BY <1>1, <1>2 DEF Results
<1>9. o.val \in Nat \/ (o.val \in Weights /\ m.op # "create")
  BY <1>1, <1>2
<1> QED
  BY <1>1, <1>2, <1>8, <1>9, CameBy, Zenon

LEMMA DestroyCame ==
    ASSUME StateTypes, NEW m \in Message, m.op = "destroy",
           NEW o \in qres_gw_destroy_server(m, servers)
    PROVE  Came(m, o)
<1>1. CASE ~Found(m.sid, servers)
  <2>1. o \in Fails("NOT_FOUND", servers) /\ m.sid \notin DOMAIN servers
    BY <1>1 DEF qres_gw_destroy_server, Found
  <2> QED
    BY <2>1, ResultNames, FailsCame DEF MayFail
<1>2. CASE Found(m.sid, servers) /\ servers[m.sid].tg = "freed"
  <2>1. o \in Oopses(servers) /\ m.sid \in DOMAIN servers
    BY <1>2 DEF qres_gw_destroy_server, Found
  <2> QED
    BY <1>2, <2>1, OopsesCame
<1>3. CASE Found(m.sid, servers) /\ servers[m.sid].tg = "lost"
  <2>1. o \in Fails("OK", servers) /\ m.sid \in DOMAIN servers
    BY <1>3 DEF qres_gw_destroy_server, Found
  <2> QED
    BY <1>3, <2>1, ResultNames, FailsCame
<1>4. CASE Found(m.sid, servers) /\ servers[m.sid].tg = "live"
  <2>1. m.sid \in DOMAIN servers
    BY <1>4 DEF Found
  <2>2. o = Outcome("OK", 0, [servers EXCEPT ![m.sid].tg = "freed"])
    BY <1>4 DEF qres_gw_destroy_server, Fails, QRES_SID_NULL
  <2>3. /\ o.rv = "OK" /\ o.oops = FALSE /\ o.val = 0 /\ o.fault = "none"
        /\ o.servers = [servers EXCEPT ![m.sid].tg = "freed"]
    BY <2>2 DEF Outcome
  <2> QED
    <3>1. Freed(m, o)
      BY <1>4, <2>1, <2>3 DEF Freed
    <3>8. o.rv \in Results
      BY <2>3, <3>1 DEF Results
    <3>9. o.val \in Nat \/ (o.val \in Weights /\ m.op # "create")
      BY <2>3, <3>1
    <3> QED
      BY <2>3, <3>1, <3>8, <3>9, CameBy, Zenon
<1>5. ASSUME Found(m.sid, servers) PROVE servers[m.sid].tg \in {"live", "freed", "lost"}
  <2>1. servers[m.sid] \in Server
    BY <1>5 DEF Found, StateTypes
  <2> QED
    BY <2>1 DEF Server
<1> QED
  BY <1>1, <1>2, <1>3, <1>4, <1>5

LEMMA AttachCame ==
    ASSUME StateTypes, NEW m \in Message, m.op = "attach",
           NEW o \in qres_gw_attach_task(m, servers)
    PROVE  Came(m, o)
<1>1. CASE ~find_task(m)
  <2>1. o \in Fails("INVALID_PARAM", servers) /\ m.task # "self"
    BY <1>1 DEF qres_gw_attach_task, find_task
  <2> QED
    BY <2>1, ResultNames, FailsCame DEF MayFail
<1>2. CASE find_task(m) /\ ~Found(m.sid, servers)
  <2>1. o \in Fails("NOT_FOUND", servers) /\ m.sid \notin DOMAIN servers
    BY <1>2 DEF qres_gw_attach_task, Found
  <2> QED
    BY <2>1, ResultNames, FailsCame DEF MayFail
<1>3. CASE find_task(m) /\ Found(m.sid, servers)
  <2>1. /\ m.sid \in DOMAIN servers
        /\ o \in IF ~Authorized(m, servers) THEN Fails("UNAUTHORIZED", servers)
                 ELSE IF servers[m.sid].tg = "live" THEN Fails("OK", servers)
                 ELSE Oopses(servers)
    BY <1>3 DEF qres_gw_attach_task, Found
  <2>2. CASE ~Authorized(m, servers)
    BY <2>1, <2>2, ResultNames, FailsCame DEF MayFail
  <2>3. CASE Authorized(m, servers) /\ servers[m.sid].tg = "live"
    BY <2>1, <2>3, ResultNames, FailsCame
  <2>4. CASE Authorized(m, servers) /\ servers[m.sid].tg # "live"
    BY <2>1, <2>4, OopsesCame
  <2> QED
    BY <2>2, <2>3, <2>4
<1> QED
  BY <1>1, <1>2, <1>3

LEMMA DetachCame ==
    ASSUME StateTypes, NEW m \in Message, m.op = "detach",
           NEW o \in qres_gw_detach_task(m, servers)
    PROVE  Came(m, o)
<1>1. CASE ~find_task(m)
  <2>1. o \in Fails("INVALID_PARAM", servers) /\ m.task # "self"
    BY <1>1 DEF qres_gw_detach_task, find_task
  <2> QED
    BY <2>1, ResultNames, FailsCame DEF MayFail
<1>2. CASE find_task(m) /\ ~Found(m.sid, servers)
  <2>1. o \in Fails("NOT_FOUND", servers) /\ m.sid \notin DOMAIN servers
    BY <1>2 DEF qres_gw_detach_task, Found
  <2> QED
    BY <2>1, ResultNames, FailsCame DEF MayFail
<1>3. CASE find_task(m) /\ Found(m.sid, servers)
  <2>1. /\ m.sid \in DOMAIN servers
        /\ o \in IF Authorized(m, servers) THEN Fails("OK", servers)
                 ELSE Fails("UNAUTHORIZED", servers)
    BY <1>3 DEF qres_gw_detach_task, Found
  <2>2. CASE ~Authorized(m, servers)
    BY <2>1, <2>2, ResultNames, FailsCame DEF MayFail
  <2>3. CASE Authorized(m, servers)
    BY <2>1, <2>3, ResultNames, FailsCame
  <2> QED
    BY <2>2, <2>3
<1> QED
  BY <1>1, <1>2, <1>3

LEMMA SetCame ==
    ASSUME StateTypes, NEW m \in Message, m.op \in {"set_params", "set_bandwidth"},
           NEW o \in qres_gw_set_params(m, servers)
    PROVE  Came(m, o)
<1>0. m.op # "create" /\ m.op # "attach" /\ m.op # "destroy"
  OBVIOUS
<1>1. CASE ~Found(m.sid, servers)
  <2>1. o \in Fails("NOT_FOUND", servers) /\ m.sid \notin DOMAIN servers
    BY <1>1 DEF qres_gw_set_params, Found
  <2> QED
    BY <1>0, <2>1, ResultNames, FailsCame DEF MayFail
<1>2. CASE Found(m.sid, servers)
  <2>1. m.sid \in DOMAIN servers
    BY <1>2 DEF Found
  <2>2. CASE ~Authorized(m, servers)
    <3>1. o \in Fails("UNAUTHORIZED", servers)
      BY <1>2, <2>2 DEF qres_gw_set_params
    <3> QED
      BY <1>0, <2>1, <2>2, <3>1, ResultNames, FailsCame DEF MayFail
  <2>3. CASE Authorized(m, servers) /\ ~Accepted(m.params)
    <3>1. o \in Fails("INVALID_PARAM", servers)
      BY <1>2, <2>3 DEF qres_gw_set_params
    <3> QED
      BY <1>0, <2>1, <2>3, <3>1, ResultNames, FailsCame DEF MayFail
  <2>4. CASE Authorized(m, servers) /\ Accepted(m.params)
    <3>1. o \in IF m.params.flags # servers[m.sid].params.flags
                THEN Fails("UNIMPLEMENTED", servers) ELSE SetParams(m, servers)
      BY <1>2, <2>4 DEF qres_gw_set_params
    <3>2. CASE m.params.flags # servers[m.sid].params.flags
      BY <1>0, <2>1, <3>1, <3>2, ResultNames, FailsCame DEF MayFail
    <3>3. CASE m.params.flags = servers[m.sid].params.flags
      <4> DEFINE new == Rounded(m.params)
                 set == [servers EXCEPT ![m.sid].params = new]
                 again == Readmitted(servers[m.sid].params, new)
      <4>1. \/ o = Outcome("OK", 0, IF again THEN [set EXCEPT ![m.sid].tg = "lost"] ELSE set)
            \/ /\ "refused" \in Faults
               /\ o = [Outcome("UNAUTHORIZED", 0, servers) EXCEPT !.fault = "refused"]
        <5> HIDE DEF again
        <5>1. o \in IF again
                    THEN Fails("OK", [set EXCEPT ![m.sid].tg = "lost"])
                         \cup When("refused", Fails("UNAUTHORIZED", servers))
                    ELSE Fails("OK", set)
          BY <3>1, <3>3 DEF SetParams, again
        <5> HIDE DEF set
        <5> QED
          BY <5>1 DEF Fails, When, QRES_SID_NULL
      <4> HIDE DEF again, set
      <4>2. CASE o = Outcome("OK", 0, IF again THEN [set EXCEPT ![m.sid].tg = "lost"] ELSE set)
        <5>1. /\ o.rv = "OK" /\ o.oops = FALSE /\ o.val = 0 /\ o.fault = "none"
              /\ o.servers = IF again THEN [set EXCEPT ![m.sid].tg = "lost"] ELSE set
          BY <4>2 DEF Outcome
        <5>2. Reset(m, o)
          BY <2>1, <2>4, <3>3, <5>1 DEF Reset, again, set
        <5>8. o.rv \in Results
          BY <5>1, <5>2 DEF Results
        <5>9. o.val \in Nat \/ (o.val \in Weights /\ m.op # "create")
          BY <5>1, <5>2
        <5> QED
          BY <5>1, <5>2, <5>8, <5>9, CameBy, Zenon
      <4>3. CASE /\ "refused" \in Faults
                 /\ o = [Outcome("UNAUTHORIZED", 0, servers) EXCEPT !.fault = "refused"]
        <5>1. /\ o.rv = "UNAUTHORIZED" /\ o.oops = FALSE /\ o.val = 0 /\ o.fault = "refused"
              /\ o.servers = servers
          BY <4>3 DEF Outcome
        <5> QED
          <6>1. Same(m, o)
            BY <1>0, <5>1 DEF Same
          <6>8. o.rv \in Results
            BY <4>3, <5>1, <6>1 DEF Results
          <6>9. o.val \in Nat \/ (o.val \in Weights /\ m.op # "create")
            BY <4>3, <5>1, <6>1
          <6> QED
            BY <4>3, <5>1, <6>1, <6>8, <6>9, CameBy, Zenon
      <4> QED
        BY <4>1, <4>2, <4>3
    <3> QED
      BY <3>2, <3>3
  <2> QED
    BY <2>2, <2>3, <2>4
<1> QED
  BY <1>1, <1>2

LEMMA WeightCame ==
    ASSUME StateTypes, NEW m \in Message, m.op \in {"set_weight", "get_weight"},
           NEW w \in Weights, m.op = "set_weight" => w = m.weight,
           NEW o \in qres_gw_set_weight([m EXCEPT !.weight = w], servers)
    PROVE  Came(m, o)
<1>0. m.op # "create" /\ m.op # "attach" /\ m.op # "destroy"
  OBVIOUS
<1> DEFINE n == [m EXCEPT !.weight = w]
<1>1. n.sid = m.sid /\ n.weight = w
  BY DEF Message
<1> HIDE DEF n
<1>2. o \in qres_gw_set_weight(n, servers)
  BY DEF n
<1>3. CASE ~Found(n.sid, servers)
  <2>1. o \in Fails("NOT_FOUND", servers) /\ m.sid \notin DOMAIN servers
    BY <1>1, <1>2, <1>3 DEF qres_gw_set_weight, Found
  <2> QED
    BY <1>0, <2>1, ResultNames, FailsCame DEF MayFail
<1>4. CASE Found(n.sid, servers) /\ w = 0
  <2>1. o \in Fails("INVALID_PARAM", servers) /\ m.sid \in DOMAIN servers
    BY <1>1, <1>2, <1>4 DEF qres_gw_set_weight, Found
  <2> QED
    BY <1>0, <1>4, <2>1, ResultNames, FailsCame DEF MayFail
<1>5. CASE Found(n.sid, servers) /\ w # 0
  <2>1. m.sid \in DOMAIN servers
    BY <1>1, <1>5 DEF Found
  <2>2. o = Outcome("OK", w, [servers EXCEPT ![m.sid].weight = w])
    BY <1>1, <1>2, <1>5 DEF qres_gw_set_weight
  <2>3. /\ o.rv = "OK" /\ o.oops = FALSE /\ o.val = w /\ o.fault = "none"
        /\ o.servers = [servers EXCEPT ![m.sid].weight = w]
    BY <2>2 DEF Outcome
  <2> QED
    <3>1. Weighted(m, o)
      BY <2>1, <2>3 DEF Weighted
    <3>8. o.rv \in Results
      BY <1>0, <2>3, <3>1 DEF Results
    <3>9. o.val \in Nat \/ (o.val \in Weights /\ m.op # "create")
      BY <1>0, <2>3, <3>1
    <3> QED
      BY <1>0, <2>3, <3>1, <3>8, <3>9, CameBy, Zenon
<1> QED
  BY <1>3, <1>4, <1>5

LEMMA GetCame ==
    ASSUME StateTypes, NEW m \in Message,
           m.op \notin {"create", "destroy", "attach"},
           NEW o \in qres_gw_get(m, servers)
    PROVE  Came(m, o)
<1>1. CASE Found(m.sid, servers)
  <2>1. o \in Fails("OK", servers) /\ m.sid \in DOMAIN servers
    BY <1>1 DEF qres_gw_get, Found
  <2> QED
    BY <2>1, ResultNames, FailsCame
<1>2. CASE ~Found(m.sid, servers)
  <2>1. o \in Fails("NOT_FOUND", servers) /\ m.sid \notin DOMAIN servers
    BY <1>2 DEF qres_gw_get, Found
  <2> QED
    BY <2>1, ResultNames, FailsCame DEF MayFail
<1> QED
  BY <1>1, <1>2

LEMMA ExecTimeCame ==
    ASSUME StateTypes, NEW m \in Message, m.op = "get_exec_time",
           NEW o \in qres_gw_get_exec_time(m, servers)
    PROVE  Came(m, o)
<1>1. PICK g \in qres_gw_get(m, servers) :
         o = [g EXCEPT !.val = IF m.late /\ g.rv = "OK" THEN 1 ELSE 0]
  BY DEF qres_gw_get_exec_time
<1>2. PICK rv \in {"OK", "NOT_FOUND"} :
         g = Outcome(rv, 0, servers) /\ (rv = "NOT_FOUND" <=> m.sid \notin DOMAIN servers)
  BY <1>1 DEF qres_gw_get, Fails, Found, QRES_SID_NULL
<1>3. /\ o.rv = rv /\ o.oops = FALSE /\ o.val \in {0, 1} /\ o.fault = "none"
      /\ o.servers = servers
  <2> DEFINE v == IF m.late /\ g.rv = "OK" THEN 1 ELSE 0
  <2>1. v \in {0, 1}
    OBVIOUS
  <2> HIDE DEF v
  <2>2. o = [g EXCEPT !.val = v]
    BY <1>1 DEF v
  <2> QED
    BY <1>2, <2>1, <2>2 DEF Outcome
<1>4. Same(m, o)
  BY <1>2, <1>3 DEF Same, MayFail
<1>8. o.rv \in Results
  BY <1>2, <1>3, <1>4 DEF Results
<1>9. o.val \in Nat \/ (o.val \in Weights /\ m.op # "create")
  BY <1>2, <1>3, <1>4
<1> QED
  BY <1>2, <1>3, <1>4, <1>8, <1>9, CameBy, Zenon

LEMMA IdCame ==
    ASSUME StateTypes, NEW m \in Message, m.op = "get_sid",
           NEW o \in qres_gw_get_server_id(m, servers)
    PROVE  Came(m, o)
<1>1. \/ o \in Fails("NOT_FOUND", servers)
      \/ o \in Fails("INVALID_PARAM", servers)
  BY DEF qres_gw_get_server_id
<1> QED
  BY <1>1, ResultNames, FailsCame DEF MayFail

LEMMA OutcomeFacts ==
    ASSUME StateTypes, NEW m \in Message, m.op = "set_weight" => m.weight \in Weights,
           NEW o \in qres_gw_ks(m, servers)
    PROVE  Came(m, o)
<1>1. CASE m.op = "create"
  BY <1>1, CreateCame DEF qres_gw_ks
<1>2. CASE m.op = "destroy"
  BY <1>2, DestroyCame DEF qres_gw_ks
<1>3. CASE m.op = "attach"
  BY <1>3, AttachCame DEF qres_gw_ks
<1>4. CASE m.op = "detach"
  BY <1>4, DetachCame DEF qres_gw_ks
<1>5. CASE m.op \in {"set_params", "set_bandwidth"}
  BY <1>5, SetCame DEF qres_gw_ks
<1>6. CASE m.op = "get_sid"
  BY <1>6, IdCame DEF qres_gw_ks
<1>7. CASE m.op = "get_exec_time"
  BY <1>7, ExecTimeCame DEF qres_gw_ks
<1>8. CASE m.op = "set_weight"
  <2>1. o \in qres_gw_set_weight(m, servers) /\ m.weight \in Weights
    BY <1>8 DEF qres_gw_ks
  <2>2. m = [m EXCEPT !.weight = m.weight]
    BY DEF Message
  <2> QED
    BY <1>8, <2>1, <2>2, WeightCame
<1>9. CASE m.op = "get_weight"
  <2>1. PICK w \in Weights : o \in qres_gw_set_weight([m EXCEPT !.weight = w], servers)
    BY <1>9 DEF qres_gw_ks
  <2> QED
    BY <1>9, <2>1, WeightCame
<1>10. CASE m.op \notin {"create", "destroy", "attach", "detach", "set_params", "set_bandwidth",
                         "get_sid", "get_exec_time", "set_weight", "get_weight"}
  <2>1. o \in qres_gw_get(m, servers)
    BY <1>10 DEF qres_gw_ks
  <2> QED
    BY <1>10, <2>1, GetCame
<1> QED
  BY <1>1, <1>2, <1>3, <1>4, <1>5, <1>6, <1>7, <1>8, <1>9, <1>10

\* The request as the device gets it.
Request(t) == [th[t].msg EXCEPT !.late = elapsed[t]]

LEMMA RequestIs ==
    ASSUME StateTypes, PlaceInv, NEW t \in Threads, th[t].pc = "ioctl"
    PROVE  /\ Call(t) \in CallRecord /\ Opens(Call(t)) /\ Call(t).op \notin Local
           /\ Call(t) = Prog(t)[th[t].pos] /\ th[t].pos \in DOMAIN Prog(t)
           /\ th[t].msg \in Message /\ Request(t) \in Message
           /\ Request(t).op = Call(t).op /\ Request(t).sid = sid(t)
           /\ Request(t).weight = Call(t).arg /\ Request(t).params = th[t].msg.params
           /\ Request(t).task = (IF Call(t).sid = "other" THEN "other" ELSE "self")
           /\ Request(t).uid = job.uids[t] /\ Request(t).by = th[t].proc
           /\ Request(t).op = "set_weight" => Request(t).weight \in Weights
<1>1. /\ InPlace(t) /\ th[t].pos <= Len(Prog(t)) /\ Opens(Call(t)) /\ Call(t).op \notin Local
      /\ th[t].msg \in Message
      /\ th[t].msg.op = Call(t).op /\ th[t].msg.sid = sid(t)
      /\ th[t].msg.weight = Call(t).arg
      /\ th[t].msg.task = (IF Call(t).sid = "other" THEN "other" ELSE "self")
      /\ th[t].msg.uid = job.uids[t] /\ th[t].msg.by = th[t].proc
  BY DEF PlaceInv, InPlace, InCall
<1>2. Call(t) \in CallRecord /\ Call(t) = Prog(t)[th[t].pos] /\ th[t].pos \in 1 .. Len(Prog(t))
  BY <1>1, CallFacts
<1>3. elapsed[t] \in BOOLEAN
  BY DEF StateTypes
<1>4. /\ Request(t) \in Message
      /\ Request(t).op = th[t].msg.op /\ Request(t).sid = th[t].msg.sid
      /\ Request(t).weight = th[t].msg.weight /\ Request(t).params = th[t].msg.params
      /\ Request(t).task = th[t].msg.task
      /\ Request(t).uid = th[t].msg.uid /\ Request(t).by = th[t].msg.by
  BY <1>1, <1>3 DEF Request, Message
<1>5. th[t].pos \in DOMAIN Prog(t)
  BY <1>2, JobFacts
<1>6. Call(t).op = "set_weight" => Call(t).arg \in Weights
  BY <1>2, <1>5, JobFacts DEF ProgramFits
<1> QED
  BY <1>1, <1>2, <1>4, <1>5, <1>6

\* The device answered, and what it did to the groups of the threads.
Asked(t) ==
    /\ th[t].pc = "ioctl" /\ Lib(t).fd
    /\ \E o \in qres_gw_ks(Request(t), servers) :
          /\ Came(Request(t), o)
          /\ servers' = o.servers /\ oops' = o.oops
          /\ happened' = happened \cup ({o.fault} \ {"none"})
          /\ th'[t].pc = "ret" /\ th'[t].rv = o.rv /\ th'[t].val = o.val
          /\ \A u \in Threads :
                th'[u].group = IF o.rv = "OK" /\ o.oops = FALSE THEN GroupAfter(t, u)
                               ELSE th[u].group
    /\ th'[t].proc = th[t].proc /\ th'[t].sid = th[t].sid
    /\ th'[t].pos = th[t].pos /\ th'[t].msg = th[t].msg
    /\ \A u \in Threads \ {t} :
          /\ th'[u].pc = th[u].pc /\ th'[u].proc = th[u].proc /\ th'[u].pos = th[u].pos
          /\ th'[u].sid = th[u].sid /\ th'[u].msg = th[u].msg
          /\ th'[u].rv = th[u].rv /\ th'[u].val = th[u].val
          /\ th'[u].group = th[u].group => th'[u] = th[u]
    /\ UNCHANGED <<job, lib, params>>

\* The servers there are afterwards.
LEMMA CameServers ==
    ASSUME StateTypes, NEW m \in Message, NEW o, Came(m, o)
    PROVE  o.servers \in Seq(Server)
<1>0. servers \in Seq(Server)
  BY DEF StateTypes
<1>1. CASE New(m, o)
  <2>1. PICK w \in Weights : o.servers = Append(servers, NewServer(m, w))
    BY <1>1 DEF New
  <2>2. m.params \in Structure /\ Accepted(m.params) /\ m.uid \in Users /\ m.by \in Threads
    BY <1>1 DEF New, Message
  <2>3. Rounded(m.params) \in Structure
    BY <2>2, RoundedType
  <2>4. NewServer(m, w) \in Server
    BY <2>2, <2>3 DEF NewServer, Server
  <2> QED
    BY <1>0, <2>1, <2>4
<1>2. CASE Freed(m, o)
  <2>1. servers[m.sid] \in Server /\ m.sid \in DOMAIN servers
    BY <1>0, <1>2 DEF Freed
  <2>2. [servers[m.sid] EXCEPT !.tg = "freed"] \in Server
    BY <2>1 DEF Server
  <2>3. o.servers = [servers EXCEPT ![m.sid] = [servers[m.sid] EXCEPT !.tg = "freed"]]
    BY <1>2 DEF Freed
  <2> QED
    BY <1>0, <2>1, <2>2, <2>3
<1>3. CASE Reset(m, o)
  <2> DEFINE new == Rounded(m.params)
             s == [servers[m.sid] EXCEPT !.params = new]
             r == [s EXCEPT !.tg = "lost"]
             set == [servers EXCEPT ![m.sid].params = new]
  <2>1. servers[m.sid] \in Server /\ m.sid \in DOMAIN servers
    BY <1>0, <1>3 DEF Reset
  <2>2. m.params \in Structure /\ Accepted(m.params)
    BY <1>3 DEF Reset, Message
  <2>3. new \in Structure
    BY <2>2, RoundedType
  <2> HIDE DEF new
  <2>4. s \in Server
    BY <2>1, <2>3 DEF Server
  <2>5. set = [servers EXCEPT ![m.sid] = s]
    OBVIOUS
  <2> HIDE DEF s
  <2>6. r \in Server
    BY <2>4 DEF Server
  <2> HIDE DEF set
  <2>7. set \in Seq(Server) /\ m.sid \in DOMAIN set /\ set[m.sid] = s
    BY <1>0, <2>1, <2>4, <2>5
  <2>8. [set EXCEPT ![m.sid].tg = "lost"] = [set EXCEPT ![m.sid] = r]
    BY <2>7
  <2> HIDE DEF r
  <2>9. [set EXCEPT ![m.sid] = r] \in Seq(Server)
    BY <2>6, <2>7
  <2>10. o.servers = set \/ o.servers = [set EXCEPT ![m.sid].tg = "lost"]
    BY <1>3 DEF Reset, set, new
  <2> QED
    BY <2>7, <2>8, <2>9, <2>10
<1>4. CASE Weighted(m, o)
  <2>1. servers[m.sid] \in Server /\ m.sid \in DOMAIN servers
    BY <1>0, <1>4 DEF Weighted
  <2>2. PICK w \in Weights : o.servers = [servers EXCEPT ![m.sid].weight = w]
    BY <1>4 DEF Weighted
  <2>3. [servers[m.sid] EXCEPT !.weight = w] \in Server
    BY <2>1 DEF Server
  <2>4. o.servers = [servers EXCEPT ![m.sid] = [servers[m.sid] EXCEPT !.weight = w]]
    BY <2>2
  <2> QED
    BY <1>0, <2>1, <2>3, <2>4
<1>5. CASE Same(m, o)
  BY <1>0, <1>5 DEF Same
<1> QED
  BY <1>1, <1>2, <1>3, <1>4, <1>5 DEF Came

LEMMA IoctlKind ==
    ASSUME StateTypes, PlaceInv, NEW t \in Threads, Ioctl(t)
    PROVE  StateTypes' /\ Asked(t)
<1>1. th[t].pc = "ioctl" /\ Lib(t).fd /\ UNCHANGED <<job, lib, params, elapsed>>
  BY DEF Ioctl
<1> DEFINE group(o, u) == IF o.rv = "OK" /\ ~o.oops THEN GroupAfter(t, u) ELSE th[u].group
<1>2. PICK o \in qres_gw_ks(Request(t), servers) :
         /\ servers' = o.servers
         /\ oops' = o.oops
         /\ happened' = happened \cup ({o.fault} \ {"none"})
         /\ th' = [u \in Threads |->
                     IF u # t THEN [th[u] EXCEPT !.group = group(o, u)]
                     ELSE [th[u] EXCEPT !.group = group(o, u), !.pc = "ret", !.rv = o.rv,
                                        !.val = o.val]]
  BY DEF Ioctl, Request
<1>3. Request(t) \in Message /\ (Request(t).op = "set_weight" => Request(t).weight \in Weights)
      /\ th[t].msg \in Message
  BY <1>1, RequestIs
<1>4. Came(Request(t), o)
  BY <1>3, OutcomeFacts
<1>5. /\ o.rv \in Results /\ o.oops \in BOOLEAN /\ o.val \in Values
      /\ o.fault = "none" \/ o.fault \in Faults
  BY <1>4 DEF Came
<1>6. servers' \in Seq(Server)
  BY <1>2, <1>3, <1>4, CameServers
<1>7. th \in [Threads -> ThreadRecord]
  BY DEF StateTypes
<1>8. ASSUME NEW u \in Threads PROVE group(o, u) \in Nat
  <2>1. th[u].group \in Nat /\ th[t].msg.sid \in Nat
    BY <1>3, LibFacts DEF Message
  <2> QED
    BY <2>1 DEF GroupAfter
<1>9. ASSUME NEW u \in Threads
      PROVE  LET s == [th[u] EXCEPT !.group = group(o, u)]
             IN  /\ s \in ThreadRecord
                 /\ s.group = group(o, u)
                 /\ s.pc = th[u].pc /\ s.proc = th[u].proc /\ s.pos = th[u].pos
                 /\ s.sid = th[u].sid /\ s.msg = th[u].msg
                 /\ s.rv = th[u].rv /\ s.val = th[u].val
                 /\ s.group = th[u].group => s = th[u]
  <2>1. group(o, u) \in Nat /\ th[u] \in ThreadRecord
    BY <1>7, <1>8
  <2> HIDE DEF group
  <2> QED
    BY <2>1 DEF ThreadRecord
<1>10. LET r == [th[t] EXCEPT !.group = group(o, t), !.pc = "ret", !.rv = o.rv, !.val = o.val]
       IN  /\ r \in ThreadRecord
           /\ r.group = group(o, t) /\ r.pc = "ret" /\ r.rv = o.rv /\ r.val = o.val
           /\ r.proc = th[t].proc /\ r.pos = th[t].pos /\ r.sid = th[t].sid
           /\ r.msg = th[t].msg
  <2> DEFINE g == group(o, t)
             w == [th[t] EXCEPT !.group = g]
             x == [w EXCEPT !.pc = "ret"]
             y == [x EXCEPT !.rv = o.rv]
             z == [y EXCEPT !.val = o.val]
  <2>1. g \in Nat /\ th[t] \in ThreadRecord
    BY <1>7, <1>8
  <2> HIDE DEF g
  <2>2. /\ w \in ThreadRecord /\ w.group = g
        /\ w.proc = th[t].proc /\ w.pos = th[t].pos /\ w.sid = th[t].sid /\ w.msg = th[t].msg
    BY <2>1 DEF ThreadRecord
  <2> HIDE DEF w
  <2>3. /\ x \in ThreadRecord /\ x.group = g /\ x.pc = "ret"
        /\ x.proc = th[t].proc /\ x.pos = th[t].pos /\ x.sid = th[t].sid /\ x.msg = th[t].msg
    BY <2>2 DEF ThreadRecord
  <2> HIDE DEF x
  <2>4. /\ y \in ThreadRecord /\ y.group = g /\ y.pc = "ret" /\ y.rv = o.rv
        /\ y.proc = th[t].proc /\ y.pos = th[t].pos /\ y.sid = th[t].sid /\ y.msg = th[t].msg
    BY <1>5, <2>3 DEF ThreadRecord
  <2> HIDE DEF y
  <2>5. /\ z \in ThreadRecord /\ z.group = g /\ z.pc = "ret" /\ z.rv = o.rv /\ z.val = o.val
        /\ z.proc = th[t].proc /\ z.pos = th[t].pos /\ z.sid = th[t].sid /\ z.msg = th[t].msg
    BY <1>5, <2>4 DEF ThreadRecord
  <2>6. z = [th[t] EXCEPT !.group = g, !.pc = "ret", !.rv = o.rv, !.val = o.val]
    BY DEF w, x, y
  <2> HIDE DEF z
  <2> QED
    BY <2>5, <2>6 DEF g
<1> HIDE DEF group
<1>11. /\ th' \in [Threads -> ThreadRecord]
       /\ th'[t].group = group(o, t) /\ th'[t].pc = "ret" /\ th'[t].rv = o.rv
       /\ th'[t].val = o.val
       /\ th'[t].proc = th[t].proc /\ th'[t].pos = th[t].pos /\ th'[t].sid = th[t].sid
       /\ th'[t].msg = th[t].msg
  BY <1>2, <1>9, <1>10
<1>12. ASSUME NEW u \in Threads \ {t}
       PROVE  /\ th'[u].pc = th[u].pc /\ th'[u].proc = th[u].proc /\ th'[u].pos = th[u].pos
              /\ th'[u].sid = th[u].sid /\ th'[u].msg = th[u].msg
              /\ th'[u].rv = th[u].rv /\ th'[u].val = th[u].val
              /\ th'[u].group = th[u].group => th'[u] = th[u]
              /\ th'[u].group = group(o, u)
  BY <1>2, <1>9
<1>13. happened' \subseteq Faults /\ oops' \in BOOLEAN
  BY <1>2, <1>5 DEF StateTypes
<1>14. ~o.oops <=> o.oops = FALSE
  BY <1>5
<1>15. \A u \in Threads :
          th'[u].group = IF o.rv = "OK" /\ o.oops = FALSE THEN GroupAfter(t, u) ELSE th[u].group
  BY <1>11, <1>12, <1>14 DEF group
<1>16. Asked(t)
  BY <1>1, <1>2, <1>4, <1>11, <1>12, <1>15 DEF Asked
<1> QED
  BY <1>1, <1>6, <1>11, <1>13, <1>16, TypesNext DEF StateTypes

\* Every step of the system is one of these.
LEMMA StepKinds ==
    ASSUME StateTypes, PlaceInv, FileInv, Next
    PROVE  StateTypes' /\ (Waits \/ \E t \in Threads : Kinds(t) \/ Asked(t))
<1>1. PICK t \in Threads : Step(t) \/ Tick(t)
  BY DEF Next
<1>2. CASE Tick(t)
  BY <1>2, TickKind
<1>3. CASE Step(t)
  <2>1. CASE Begin(t) \/ BeginInit(t)
    BY <2>1, BeginKind, BeginInitKind DEF Kinds
  <2>2. CASE Open(t) \/ OpenFails(t)
    BY <2>2, OpenKind, OpenFailsKind DEF Kinds
  <2>3. CASE Ioctl(t) \/ IoctlUnopened(t)
    BY <2>3, IoctlKind, IoctlUnopenedKind DEF Kinds
  <2>4. CASE Return(t) \/ Cleanup(t)
    BY <2>4, ReturnKind, CleanupKind DEF Kinds
  <2>5. CASE Assign(t) \/ Clock(t) \/ Gettimeofday(t) \/ Count(t) \/ Repeat(t)
    BY <2>5, AssignKind, ClockKind, RepeatKind DEF Kinds
  <2>6. CASE Start(t) \/ Join(t) \/ End(t)
    BY <2>6, StartKind, JoinKind, EndKind DEF Kinds
  <2> QED
    BY <1>3, <2>1, <2>2, <2>3, <2>4, <2>5, <2>6 DEF Step
<1> QED
  BY <1>1, <1>2, <1>3

-----------------------------------------------------------------------------
(* What a step leaves alone, and where it goes. *)

Stays(u) ==
    /\ th'[u].pc = th[u].pc /\ th'[u].pos = th[u].pos /\ th'[u].proc = th[u].proc
    /\ th'[u].sid = th[u].sid /\ th'[u].msg = th[u].msg
    /\ th'[u].rv = th[u].rv /\ th'[u].val = th[u].val

\* A thread ends with the process of another.
Ended(t, u) ==
    /\ Exits(t) /\ Active(u) /\ th[u].proc = th[t].proc
    /\ th'[u].pc = "done" /\ th'[u].pos = th[u].pos /\ th'[u].proc = th[u].proc
    /\ th'[u].sid = th[u].sid /\ th'[u].group = 0

Advances(t) == th'[t].pc = "prog" /\ th'[t].pos = th[t].pos + 1
Goes(t) ==
    \/ th'[t].pc \in {"open", "ioctl", "ret", "done"} /\ th'[t].pos = th[t].pos
    \/ th[t].pos \in 1 .. Len(Prog(t)) /\ Advances(t)
    \/ /\ AtCall(t, "repeat") /\ th'[t].pc = "prog"
       /\ th'[t].pos = Call(t).arg /\ th'[t].pos \in 1 .. th[t].pos

LEMMA ActiveFacts ==
    ASSUME StateTypes, NEW t \in Threads, Kinds(t) \/ Asked(t)
    PROVE  Active(t) /\ job' = job
  BY DEF Kinds, Asked, Aside, Jumps, AtCall, Begins, Opened, NotOpened, Unasked, Returns,
         Closes, StartsOther, Exits, Ends, Active

LEMMA OtherFacts ==
    ASSUME StateTypes, NEW t \in Threads, Kinds(t) \/ Asked(t), NEW u \in Threads \ {t}
    PROVE  \/ Stays(u) /\ (th'[u].group = th[u].group => th'[u] = th[u])
           \/ Ended(t, u)
           \/ u = 2 /\ StartsOther(t)
<1>1. CASE th'[u] = th[u]
  BY <1>1 DEF Stays
<1>2. CASE Asked(t)
  BY <1>2 DEF Asked, Stays
<1>3. CASE Exits(t) /\ th'[u] # th[u]
  BY <1>3 DEF Exits, IsOver, Ended
<1>4. CASE StartsOther(t)
  BY <1>4 DEF StartsOther, Threads
<1>5. CASE Aside(t) \/ Jumps(t) \/ Begins(t) \/ Opened(t) \/ NotOpened(t) \/ Unasked(t)
  <2>1. Others(t)
    BY <1>5 DEF Aside, Jumps, Begins, Opened, NotOpened, Unasked, GoesOn
  <2> QED
    BY <1>1, <2>1 DEF Others
<1>6. CASE Returns(t) \/ Closes(t) \/ Ends(t)
  <2>1. Others(t)
    BY <1>6 DEF Returns, Closes, Ends, GoesOn
  <2> QED
    BY <1>1, <2>1 DEF Others
<1> QED
  BY <1>1, <1>2, <1>3, <1>4, <1>5, <1>6 DEF Kinds

LEMMA PlaceFacts ==
    ASSUME StateTypes, PlaceInv, NEW t \in Threads, Kinds(t) \/ Asked(t)
    PROVE  Goes(t) /\ th'[t].proc = th[t].proc
<1>1. InPlace(t)
  BY DEF PlaceInv
<1>2. Active(t) /\ th[t].pos \in 1 .. Len(Prog(t)) + 1
  BY <1>1, ActiveFacts DEF InPlace
<1>3. Len(Prog(t)) \in Nat
  BY JobFacts
<1>4. CASE Aside(t) \/ Closes(t) \/ StartsOther(t)
  <2>1. th[t].pos <= Len(Prog(t))
    BY <1>4 DEF Aside, Closes, StartsOther, AtCall
  <2>2. Advances(t) /\ th'[t].proc = th[t].proc
    BY <1>4 DEF Aside, Closes, StartsOther, GoesOn, Itself, Advances
  <2>3. th[t].pos \in 1 .. Len(Prog(t))
    BY <1>2, <1>3, <2>1
  <2> QED
    BY <2>2, <2>3 DEF Goes
<1>5. CASE NotOpened(t) \/ Opened(t) \/ Returns(t)
  <2>1. th[t].pc \in {"open", "ret"}
    BY <1>5 DEF NotOpened, Opened, Returns
  <2>2. th[t].pos \in 1 .. Len(Prog(t))
    BY <1>1, <1>2, <1>3, <2>1 DEF InPlace
  <2>3. th'[t].proc = th[t].proc
    BY <1>5 DEF NotOpened, Opened, Returns, GoesOn, Itself
  <2>4. Advances(t) \/ Asks(t)
    BY <1>5 DEF NotOpened, Opened, Returns, GoesOn, Advances
  <2>5. Asks(t) => th'[t].pc \in {"open", "ioctl", "ret", "done"} /\ th'[t].pos = th[t].pos
    BY DEF Asks
  <2> QED
    BY <2>2, <2>3, <2>4, <2>5 DEF Goes
<1>6. CASE Jumps(t)
  <2>1. th[t].pos \in 1 .. Len(Prog(t)) /\ Call(t) = Prog(t)[th[t].pos] /\ Call(t).op = "repeat"
    BY <1>1, <1>6, CallFacts DEF Jumps, AtCall
  <2>2. Call(t).arg \in 1 .. th[t].pos
    BY <2>1, JobFacts DEF ProgramFits, LoopsOnlyUse
  <2> QED
    BY <1>6, <2>1, <2>2 DEF Jumps, Itself, Goes, Advances
<1>7. CASE Begins(t) \/ Unasked(t) \/ Asked(t)
  BY <1>7 DEF Begins, Unasked, Asked, Itself, Asks, Goes
<1>8. CASE Exits(t) \/ Ends(t)
  BY <1>2, <1>8 DEF Exits, Ends, IsOver, Goes
<1> QED
  BY <1>4, <1>5, <1>6, <1>7, <1>8 DEF Kinds

-----------------------------------------------------------------------------
(* The places of the threads. *)

LEMMA InPlaceSame ==
    ASSUME job' = job, NEW u \in Threads, InPlace(u), Stays(u)
    PROVE  InPlace(u)'
<1>1. Prog(u)' = Prog(u) /\ Call(u)' = Call(u)
  BY DEF Prog, Call, Stays
<1>2. sid(u)' = sid(u)
  BY <1>1 DEF sid, Stays
<1>3. InCall(u)' = InCall(u) /\ Creating(u)' = Creating(u)
  BY DEF InCall, Creating, Stays
<1>4. Message' = Message
  BY DEF Message, Users
<1> QED
  BY <1>1, <1>2, <1>3, <1>4 DEF InPlace, Stays

LEMMA InPlaceAt ==
    ASSUME job' = job, NEW u \in Threads,
           th'[u].pc \in {"prog", "done"}, th'[u].pos \in 1 .. Len(Prog(u)) + 1
    PROVE  InPlace(u)'
<1>1. Prog(u)' = Prog(u)
  BY DEF Prog
<1> QED
  BY <1>1 DEF InPlace, InCall, Creating

LEMMA InPlaceOther ==
    ASSUME StateTypes, PlaceInv, NEW t \in Threads, Kinds(t) \/ Asked(t),
           NEW u \in Threads \ {t}
    PROVE  InPlace(u)'
<1>1. InPlace(u) /\ job' = job
  BY ActiveFacts DEF PlaceInv
<1>2. CASE Stays(u)
  BY <1>1, <1>2, InPlaceSame
<1>3. CASE Ended(t, u)
  BY <1>1, <1>3, InPlaceAt DEF Ended, InPlace
<1>4. CASE u = 2 /\ StartsOther(t)
  <2>1. th'[u].pc = "prog" /\ th'[u].pos = 1
    BY <1>4 DEF StartsOther, Thread
  <2>2. Len(Prog(u)) \in Nat
    BY JobFacts
  <2> QED
    BY <1>1, <2>1, <2>2, InPlaceAt
<1> QED
  BY <1>2, <1>3, <1>4, OtherFacts

\* A request was made; an answer came.
LEMMA InPlaceAsking ==
    ASSUME StateTypes, PlaceInv, NEW t \in Threads, job' = job, Itself(t), Asks(t),
           th[t].pos <= Len(Prog(t)), Opens(Call(t)), Call(t).op # "init"
    PROVE  InPlace(t)'
<1>1. InPlace(t)
  BY DEF PlaceInv
<1>2. /\ iparams(t) \in Message
      /\ iparams(t).op = Call(t).op /\ iparams(t).sid = sid(t)
      /\ iparams(t).weight = Call(t).arg
      /\ iparams(t).task = (IF Call(t).sid = "other" THEN "other" ELSE "self")
      /\ iparams(t).uid = job.uids[t] /\ iparams(t).by = th[t].proc
  BY <1>1, RequestFacts
<1>3. Prog(t)' = Prog(t) /\ Call(t)' = Call(t)
  BY DEF Prog, Call, Asks
<1>4. sid(t)' = sid(t)
  BY <1>3 DEF sid, Itself
<1>5. Message' = Message
  BY DEF Message, Users
<1>6. Call(t).op \notin Local
  BY DEF Opens
<1>7. th[t].pos \in 1 .. Len(Prog(t)) + 1
  BY <1>1 DEF InPlace
<1> QED
  BY <1>2, <1>3, <1>4, <1>5, <1>6, <1>7 DEF InPlace, InCall, Creating, Asks, Itself

LEMMA InPlaceAnswered ==
    ASSUME StateTypes, PlaceInv, NEW t \in Threads, job' = job, th[t].pc = "ioctl",
           th'[t].pc = "ret", th'[t].proc = th[t].proc, th'[t].sid = th[t].sid,
           th'[t].pos = th[t].pos, th'[t].msg = th[t].msg,
           Creating(t)' => th'[t].val \in Nat
    PROVE  InPlace(t)'
<1>1. InPlace(t) /\ InCall(t) /\ InCall(t)'
  BY DEF PlaceInv, InCall
<1>2. Prog(t)' = Prog(t) /\ Call(t)' = Call(t)
  BY DEF Prog, Call
<1>3. sid(t)' = sid(t)
  BY <1>2 DEF sid
<1>4. Message' = Message
  BY DEF Message, Users
<1> QED
  BY <1>1, <1>2, <1>3, <1>4 DEF InPlace

LEMMA InPlaceSelf ==
    ASSUME StateTypes, PlaceInv, NEW t \in Threads, Kinds(t) \/ Asked(t)
    PROVE  InPlace(t)'
<1>1. InPlace(t) /\ job' = job
  BY ActiveFacts DEF PlaceInv
<1>2. Goes(t) /\ Len(Prog(t)) \in Nat
  BY PlaceFacts, JobFacts
<1>3. CASE th'[t].pc \in {"prog", "done"}
  <2>1. th'[t].pos \in 1 .. Len(Prog(t)) + 1
    BY <1>1, <1>2, <1>3 DEF Goes, InPlace, Advances
  <2> QED
    BY <1>1, <1>3, <2>1, InPlaceAt
<1>4. CASE Begins(t) /\ th'[t].pc = "open"
  <2>1. Prog(t)' = Prog(t) /\ Call(t)' = Call(t)
    BY <1>1, <1>4 DEF Prog, Call, Begins, Asks
  <2> QED
    BY <1>1, <1>4, <2>1 DEF InPlace, InCall, Creating, Begins, Asks
<1>5. CASE Begins(t) /\ th'[t].pc # "open"
  BY <1>1, <1>5, InPlaceAsking DEF Begins
<1>6. CASE Opened(t) /\ th'[t].pc # "prog"
  <2>1. th[t].pos <= Len(Prog(t)) /\ Opens(Call(t))
    BY <1>1, <1>6 DEF Opened, InPlace
  <2> QED
    BY <1>1, <1>6, <2>1, InPlaceAsking DEF Opened, GoesOn
<1>7. CASE Unasked(t)
  <2>1. ~Creating(t)'
    BY <1>7 DEF Unasked, Creating
  <2> QED
    BY <1>1, <1>7, <2>1, InPlaceAnswered DEF Unasked, Itself
<1>8. CASE Asked(t)
  <2>1. PICK o : Came(Request(t), o) /\ th'[t].val = o.val /\ th'[t].msg = th[t].msg
    BY <1>8 DEF Asked
  <2>2. Request(t).op = th[t].msg.op
    <3>1. th[t].msg \in Message
      BY <1>8, RequestIs DEF Asked
    <3> QED
      BY <3>1 DEF Request, Message
  <2>3. Creating(t)' => th'[t].val \in Nat
    BY <2>1, <2>2 DEF Came, Creating
  <2> QED
    BY <1>1, <1>8, <2>3, InPlaceAnswered DEF Asked
<1>9. th'[t].pc \in {"prog", "done"} \/ Begins(t) \/ Opened(t) \/ Unasked(t) \/ Asked(t)
  BY DEF Kinds, Aside, Jumps, NotOpened, Returns, Closes, StartsOther, Exits, Ends, GoesOn, IsOver
<1> QED
  BY <1>3, <1>4, <1>5, <1>6, <1>7, <1>8, <1>9

\* A thread goes on after a wait when the other is over.
LEMMA JoinFacts ==
    ASSUME StateTypes, PlaceInv, NEW t \in Threads, Kinds(t) \/ Asked(t),
           th'[t].pc = "prog", Call(t).op = "join"
    PROVE  th[2].pc = "done"
<1>1. CASE Aside(t)
  BY <1>1 DEF Aside
<1>2. Call(t).op \in Local /\ Call(t).op \notin Starts /\ ~Opens(Call(t))
  BY DEF Local, Starts, Opens
<1>3. ~Jumps(t) /\ ~Closes(t) /\ ~StartsOther(t)
  BY <1>2 DEF Jumps, Closes, StartsOther, AtCall
<1>4. ~Opened(t) /\ ~NotOpened(t) /\ ~Returns(t)
  BY <1>2 DEF Opened, NotOpened, Returns, PlaceInv, InPlace
<1>5. ~Begins(t) /\ ~Unasked(t) /\ ~Asked(t) /\ ~Ends(t)
  BY DEF Begins, Unasked, Asked, Ends, Asks, IsOver
<1>6. ~Exits(t)
  BY ActiveFacts DEF Exits, IsOver
<1> QED
  BY <1>1, <1>3, <1>4, <1>5, <1>6 DEF Kinds

\* The first thread does not go back before the start of the second.
LEMMA FirstFacts ==
    ASSUME StateTypes, PlaceInv, NEW t \in Threads, Kinds(t) \/ Asked(t)
    PROVE  /\ th'[1].proc = 1 /\ th'[1].pc # "none"
           /\ \A n \in 1 .. th[1].pos - 1 : Prog(1)[n].op \in Starts => n \in 1 .. th'[1].pos - 1
           /\ JoinedAt(Prog(1), th'[1].pos) => JoinedAt(Prog(1), th[1].pos) \/ th[2].pc = "done"
<1>1. SecondInv /\ 1 \in Threads
  BY DEF PlaceInv, Threads
<1>2. CASE t # 1
  <2>1. ~StartsOther(t)
    BY <1>2 DEF StartsOther
  <2>2. Stays(1) \/ Ended(t, 1)
    BY <1>1, <1>2, <2>1, OtherFacts, Zenon
  <2>3. th'[1].pos = th[1].pos /\ th'[1].proc = th[1].proc
    BY <2>2 DEF Stays, Ended
  <2>4. th'[1].pc # "none"
    BY <1>1, <2>2 DEF Stays, Ended, SecondInv
  <2> QED
    BY <1>1, <2>3, <2>4 DEF SecondInv
<1>3. CASE t = 1
  <2>1. Goes(1) /\ th'[1].proc = 1
    BY <1>1, <1>3, PlaceFacts DEF SecondInv
  <2>2. Prog(1) \in Seq(CallRecord) /\ LoopsOnlyUse(Prog(1))
    BY <1>1, JobFacts DEF ProgramFits
  <2>3. CASE th'[1].pc \in {"open", "ioctl", "ret", "done"} /\ th'[1].pos = th[1].pos
    BY <2>1, <2>3
  <2>4. CASE th[1].pos \in 1 .. Len(Prog(1)) /\ Advances(1)
    <3>1. th'[1].pos = th[1].pos + 1 /\ th'[1].pc = "prog" /\ th[1].pos \in Nat
      BY <2>4 DEF Advances
    <3>2. JoinedAt(Prog(1), th[1].pos + 1) <=>
             \/ JoinedAt(Prog(1), th[1].pos)
             \/ Prog(1)[th[1].pos].op = "join" /\ PassedAt(Prog(1), th[1].pos, {"spawn"})
      BY <2>2, <2>4, JoinedStep
    <3>3. Prog(1)[th[1].pos].op = "join" => th[2].pc = "done"
      BY <1>3, <3>1, JoinFacts DEF Call
    <3> QED
      BY <2>1, <3>1, <3>2, <3>3
  <2>5. CASE AtCall(1, "repeat") /\ th'[1].pc = "prog" /\ th'[1].pos = Call(1).arg
    <3>1. th[1].pos \in 1 .. Len(Prog(1)) /\ Call(1) = Prog(1)[th[1].pos]
      BY <1>1, <2>5, CallFacts DEF AtCall, PlaceInv
    <3>2. Prog(1)[th[1].pos].op = "repeat" /\ th'[1].pos = Prog(1)[th[1].pos].arg
      BY <2>5, <3>1 DEF AtCall
    <3>3. /\ \A i \in 1 .. th[1].pos - 1 :
                Prog(1)[i].op \in Starts => i \in 1 .. Prog(1)[th[1].pos].arg - 1
          /\ JoinedAt(Prog(1), Prog(1)[th[1].pos].arg) => JoinedAt(Prog(1), th[1].pos)
      BY <2>2, <3>1, <3>2, LoopPlace
    <3> QED
      BY <2>1, <2>5, <3>2, <3>3
  <2> QED
    BY <2>1, <2>3, <2>4, <2>5 DEF Goes
<1> QED
  BY <1>2, <1>3

\* While there is no second thread, nothing happens to what it will be.
LEMMA NoneFacts ==
    ASSUME StateTypes, PlaceInv, NEW t \in Threads, Kinds(t) \/ Asked(t),
           th[2].pc = "none"
    PROVE  /\ t = 1 /\ th[1].proc = 1 /\ th[2] = Thread("none", 2) /\ lib[2] = Closed
           /\ ~StartsOther(t) => th'[2] = th[2] /\ lib'[2] = lib[2]
<1>1. t = 1
  BY ActiveFacts DEF Active, Threads
<1>2. th[1].proc = 1 /\ th[2] = Thread("none", 2) /\ lib[2] = Closed
  BY DEF PlaceInv, SecondInv
<1>3. 2 \in Threads \ {1} /\ 1 \in Threads
  BY DEF Threads
<1>4. ASSUME ~StartsOther(t) PROVE th'[2] = th[2]
  <2>1. \/ Stays(2) /\ (th'[2].group = th[2].group => th'[2] = th[2])
        \/ Ended(t, 2)
    BY <1>1, <1>3, <1>4, OtherFacts, Zenon
  <2>2. ~Ended(t, 2)
    BY DEF Ended, Active
  <2>3. ~Asked(t) => th'[2] = th[2]
    BY <1>1, <1>3, <1>4 DEF Kinds, Aside, Jumps, Begins, Opened, NotOpened, Unasked, Returns,
       Closes, Exits, Ends, Others, GoesOn, Active
  <2>4. Asked(t) => th'[2].group = th[2].group
    <3>1. th[2].group = 0
      BY <1>2 DEF Thread
    <3>2. 2 # t
      BY <1>1
    <3> QED
      BY <1>3, <3>1, <3>2 DEF Asked, GroupAfter
  <2> QED
    BY <2>1, <2>2, <2>3, <2>4
<1>5. ASSUME ~StartsOther(t) PROVE lib'[2] = lib[2]
  <2>1. lib' = lib \/ Returns(t) \/ \E fd, open : OneOpen(th[t].proc, fd, open)
    BY <1>5 DEF Kinds, Asked, Aside, Jumps, Begins, Opened, NotOpened, Unasked, Closes, Exits, Ends
  <2>2. Returns(t) => lib'[2] = lib[2]
    BY <1>1, <1>2, <1>3 DEF Returns, StateTypes
  <2>3. (\E fd, open : OneOpen(th[t].proc, fd, open)) => lib'[2] = lib[2]
    BY <1>1, <1>2, <1>3 DEF OneOpen
  <2> QED
    BY <2>1, <2>2, <2>3
<1> QED
  BY <1>1, <1>2, <1>4, <1>5

\* The second thread, once it is there.
LEMMA SecondFacts ==
    ASSUME StateTypes, PlaceInv, NEW t \in Threads, Kinds(t) \/ Asked(t),
           th[2].pc # "none"
    PROVE  /\ th'[2].pc # "none" /\ th'[2].proc = th[2].proc
           /\ th[2].pc = "done" => th'[2].pc = "done" /\ th'[2].rv = th[2].rv
           /\ ~StartsOther(t)
<1>1. ~StartsOther(t)
  BY DEF StartsOther
<1>2. CASE t = 2
  <2>1. Goes(2) /\ th'[2].proc = th[2].proc
    BY <1>2, PlaceFacts
  <2>2. th[2].pc # "done"
    BY <1>2, ActiveFacts DEF Active
  <2> QED
    BY <1>1, <2>1, <2>2 DEF Goes, Advances
<1>3. CASE t # 2
  <2>1. 2 \in Threads \ {t}
    BY <1>3 DEF Threads
  <2>2. Stays(2) \/ Ended(t, 2)
    BY <1>1, <2>1, OtherFacts, Zenon
  <2> QED
    BY <1>1, <2>2 DEF Stays, Ended, Active
<1> QED
  BY <1>2, <1>3

LEMMA SecondKeeps ==
    ASSUME StateTypes, PlaceInv, NEW t \in Threads, Kinds(t) \/ Asked(t)
    PROVE  SecondInv'
<1>1. SecondInv /\ job' = job
  BY ActiveFacts DEF PlaceInv
<1>2. Prog(1)' = Prog(1)
  BY <1>1 DEF Prog
<1>3. /\ th'[1].proc = 1 /\ th'[1].pc # "none"
      /\ \A n \in 1 .. th[1].pos - 1 : Prog(1)[n].op \in Starts => n \in 1 .. th'[1].pos - 1
      /\ JoinedAt(Prog(1), th'[1].pos) => JoinedAt(Prog(1), th[1].pos) \/ th[2].pc = "done"
  BY FirstFacts
<1>4. CASE th[2].pc = "none" /\ ~StartsOther(t)
  <2>1. th'[2] = th[2] /\ lib'[2] = lib[2]
    BY <1>4, NoneFacts
  <2> QED
    BY <1>1, <1>2, <1>3, <1>4, <2>1 DEF SecondInv
<1>5. CASE th[2].pc = "none" /\ StartsOther(t)
  <2>1. t = 1 /\ th[1].proc = 1
    BY <1>5, NoneFacts
  <2>2. /\ th'[2].pc = "prog" /\ Call(1).op \in Starts
        /\ th'[2].proc = (IF Call(1).op = "spawn" THEN 1 ELSE 2)
        /\ th'[1].pos = th[1].pos + 1
    BY <1>5, <2>1 DEF StartsOther, Thread
  <2>3. th[1].pos \in 1 .. Len(Prog(1)) /\ Call(1) = Prog(1)[th[1].pos]
    BY <1>5, <2>1, CallFacts DEF StartsOther, PlaceInv
  <2>4. th[1].pos \in 1 .. th'[1].pos - 1
    BY <2>2, <2>3
  <2>5. ~JoinedAt(Prog(1), th'[1].pos)
    BY <1>1, <1>3, <1>5 DEF SecondInv
  <2> QED
    BY <1>2, <1>3, <2>2, <2>3, <2>4, <2>5 DEF SecondInv
<1>6. CASE th[2].pc # "none"
  <2>1. /\ th'[2].pc # "none" /\ th'[2].proc = th[2].proc
        /\ th[2].pc = "done" => th'[2].pc = "done"
    BY <1>6, SecondFacts
  <2>2. PICK n \in 1 .. th[1].pos - 1 :
           /\ Prog(1)[n].op \in Starts
           /\ th[2].proc = (IF Prog(1)[n].op = "spawn" THEN 1 ELSE 2)
    BY <1>1, <1>6 DEF SecondInv
  <2>3. n \in 1 .. th'[1].pos - 1
    BY <1>3, <2>2
  <2>4. JoinedAt(Prog(1), th'[1].pos) => th'[2].pc = "done"
    BY <1>1, <1>3, <2>1 DEF SecondInv
  <2> QED
    BY <1>2, <1>3, <2>1, <2>2, <2>3, <2>4 DEF SecondInv
<1> QED
  BY <1>4, <1>5, <1>6

LEMMA PlaceKeeps ==
    ASSUME StateTypes, PlaceInv, NEW t \in Threads, Kinds(t) \/ Asked(t)
    PROVE  PlaceInv'
<1>1. ASSUME NEW u \in Threads PROVE InPlace(u)'
  <2>1. CASE u = t
    BY <2>1, InPlaceSelf
  <2>2. CASE u # t
    BY <2>2, InPlaceOther
  <2> QED
    BY <2>1, <2>2
<1> QED
  BY <1>1, SecondKeeps DEF PlaceInv, Threads

-----------------------------------------------------------------------------
(* The descriptors. *)

\* A thread of the first's process was spawned, and leaves the device alone.
LEMMA SpawnedFacts ==
    ASSUME StateTypes, PlaceInv, th[2].pc # "none", th[2].proc = 1
    PROVE  /\ ~Uses(Prog(2), "init") /\ ~Uses(Prog(2), "cleanup")
           /\ PassedAt(Prog(1), th[1].pos, {"spawn"})
<1>1. PICK n \in 1 .. th[1].pos - 1 :
         /\ Prog(1)[n].op \in Starts
         /\ th[2].proc = (IF Prog(1)[n].op = "spawn" THEN 1 ELSE 2)
  BY DEF PlaceInv, SecondInv
<1>2. Prog(1)[n].op = "spawn"
  BY <1>1
<1>3. Prog(1) \in Seq(CallRecord) /\ th[1].pos \in 1 .. Len(Prog(1)) + 1
  BY JobFacts DEF PlaceInv, InPlace, Threads
<1>4. n \in DOMAIN Prog(1)
  BY <1>1, <1>3
<1>5. StartsOne(Prog(1), Prog(2))
  BY JobFacts DEF JobFits, Prog
<1> QED
  BY <1>1, <1>2, <1>4, <1>5 DEF StartsOne, PassedAt

LEMMA RacingFacts ==
    ASSUME StateTypes, PlaceInv, NEW t \in Threads, Kinds(t) \/ Asked(t), ~Racing'
    PROVE  ~Racing
<1> SUFFICES ASSUME Racing PROVE FALSE
  OBVIOUS
<1>1. th[1].proc = 1 /\ th'[1].proc = 1
  BY FirstFacts DEF PlaceInv, SecondInv
<1>2. th[2].pc # "none"
  <2>1. Thread("none", 2).proc = 2
    BY DEF Thread
  <2> QED
    BY <1>1, <2>1 DEF Racing, PlaceInv, SecondInv
<1>3. th'[2].proc = th[2].proc
  BY <1>2, SecondFacts
<1>4. Prog(1)' = Prog(1)
  BY ActiveFacts DEF Prog
<1> QED
  BY <1>1, <1>3, <1>4 DEF Racing

\* While a second thread shares the descriptor, no one opens or closes it.
LEMMA SharedFacts ==
    ASSUME StateTypes, PlaceInv, OneFile, ~Racing, NEW t \in Threads,
           Active(2), th[2].proc = 1
    PROVE  ~Opened(t) /\ ~NotOpened(t) /\ ~Closes(t)
<1>1. lib[1].fd /\ th[t].pc # "open"
  BY DEF OneFile
<1>2. th[2].pc # "none" /\ th[2].pc # "done"
  BY DEF Active
<1>3. ~Uses(Prog(2), "cleanup") /\ PassedAt(Prog(1), th[1].pos, {"spawn"})
  BY <1>2, SpawnedFacts
<1>4. ASSUME Closes(t) PROVE FALSE
  <2>1. /\ InPlace(t) /\ th[t].pos \in 1 .. Len(Prog(t)) /\ Call(t) = Prog(t)[th[t].pos]
        /\ Call(t).op = "cleanup"
    BY <1>4, CallFacts DEF Closes, AtCall, PlaceInv
  <2>2. th[t].pos \in DOMAIN Prog(t)
    BY <2>1, JobFacts
  <2>3. CASE t = 1
    <3>1. StartsOne(Prog(1), Prog(2))
      BY JobFacts DEF JobFits, Prog
    <3>2. JoinedAt(Prog(1), th[1].pos)
      BY <1>3, <2>1, <2>2, <2>3, <3>1 DEF StartsOne
    <3> QED
      BY <1>2, <3>2 DEF PlaceInv, SecondInv
  <2>4. CASE t = 2
    BY <1>3, <2>1, <2>2, <2>4 DEF Uses
  <2> QED
    BY <2>3, <2>4 DEF Threads
<1> QED
  BY <1>1, <1>4 DEF Opened, NotOpened

\* So that another thread that is active does not see it change.
LEMMA AloneFacts ==
    ASSUME StateTypes, PlaceInv, OneFile, ~Racing, NEW t \in Threads,
           NEW u \in Threads \ {t}, Active(u), Opened(t) \/ NotOpened(t) \/ Closes(t)
    PROVE  th[u].proc # th[t].proc
<1> SUFFICES ASSUME th[u].proc = th[t].proc PROVE FALSE
  OBVIOUS
<1>1. Active(t)
  BY DEF Opened, NotOpened, Closes, AtCall, Active
<1>2. Active(2) /\ th[2].proc = 1
  BY <1>1 DEF Threads, PlaceInv, SecondInv
<1> QED
  BY <1>2, SharedFacts

LibStays == \A p \in Threads : lib'[p].fd = lib[p].fd /\ lib'[p].open = lib[p].open

LEMMA LibStaysFacts ==
    ASSUME StateTypes, NEW t \in Threads, Kinds(t) \/ Asked(t),
           ~Opened(t), ~NotOpened(t), ~Closes(t), ~Exits(t), ~StartsOther(t)
    PROVE  LibStays
<1>1. CASE Returns(t)
  <2> DEFINE sp == IF Remembered(t) THEN Param(t) ELSE lib[th[t].proc].server_params
             l == [lib[th[t].proc] EXCEPT !.server_params = sp]
  <2>1. lib \in [Threads -> LibRecord] /\ th[t].proc \in Threads
    BY LibFacts DEF StateTypes
  <2>2. l.fd = lib[th[t].proc].fd /\ l.open = lib[th[t].proc].open
    BY <2>1 DEF LibRecord
  <2>3. lib' = [lib EXCEPT ![th[t].proc] = l]
    BY <1>1, <2>1 DEF Returns
  <2> HIDE DEF l
  <2> QED
    BY <2>1, <2>2, <2>3 DEF LibStays
<1>2. CASE ~Returns(t)
  <2>1. lib' = lib
    BY <1>2 DEF Kinds, Asked, Aside, Jumps, Begins, Unasked, Ends
  <2> QED
    BY <2>1 DEF LibStays
<1> QED
  BY <1>1, <1>2

\* The library of a started process, or of the process of a started thread.
LEMMA StartedLib ==
    ASSUME StateTypes, PlaceInv, StartsOther(1)
    PROVE  /\ lib'[1] = lib[1] /\ Lib(1) = lib[1] /\ th[1].proc = 1
           /\ Call(1).op = "exec" => lib'[2] = Closed
           /\ Call(1).op = "fork" => lib'[2] = lib[1]
           /\ Call(1).op = "spawn" => lib'[2] = lib[2]
           /\ Call(1).op \in {"spawn", "fork", "exec"}
<1>1. th[1].proc = 1 /\ Lib(1) = lib[1]
  BY DEF PlaceInv, SecondInv, Lib
<1>2. lib \in [{1, 2} -> LibRecord]
  BY DEF StateTypes, Threads
<1>3. /\ Call(1).op \in {"spawn", "fork", "exec"}
      /\ lib' = [lib EXCEPT ![IF Call(1).op = "spawn" THEN 1 ELSE 2] =
                    IF Call(1).op = "exec" THEN Closed ELSE lib[1]]
  BY <1>1 DEF StartsOther, Starts
<1> QED
  BY <1>1, <1>2, <1>3

\* The other program, where it was started.
LEMMA StartedCall ==
    ASSUME StateTypes, PlaceInv, StartsOther(1)
    PROVE  /\ th[1].pos \in DOMAIN Prog(1) /\ Call(1) = Prog(1)[th[1].pos]
           /\ StartsOne(Prog(1), Prog(2))
           /\ Call(1).op \in {"spawn", "fork"} => ~Uses(Prog(2), "init")
           /\ Call(1).op = "spawn" /\ Uses(Prog(1), "init") => SurelyOpenAt(Prog(1), th[1].pos)
           /\ ~PassedAt(Prog(1), th[1].pos, {"attach"})
           /\ Call(1) \in CallRecord
<1>1. 1 \in Threads /\ InPlace(1) /\ th[1].pos <= Len(Prog(1))
  BY DEF Threads, PlaceInv, StartsOther
<1>2. th[1].pos \in 1 .. Len(Prog(1)) /\ Call(1) = Prog(1)[th[1].pos] /\ Call(1) \in CallRecord
  BY <1>1, CallFacts
<1>3. th[1].pos \in DOMAIN Prog(1)
  BY <1>1, <1>2, JobFacts
<1>4. StartsOne(Prog(1), Prog(2))
  BY JobFacts DEF JobFits, Prog
<1>5. Call(1).op \in Starts
  BY DEF StartsOther
<1> QED
  BY <1>2, <1>3, <1>4, <1>5 DEF StartsOne

\* As many files are open as the descriptors say.
LEMMA CountKeeps ==
    ASSUME StateTypes, PlaceInv, OneFile, ~Racing, NEW t \in Threads, Kinds(t) \/ Asked(t),
           NEW p \in Threads
    PROVE  lib'[p].open = IF lib'[p].fd THEN 1 ELSE 0
<1>1. /\ \A q \in Threads : lib[q].open = (IF lib[q].fd THEN 1 ELSE 0)
      /\ th[t].pc = "open" => ~Lib(t).fd
  BY DEF OneFile
<1>2. th[t].proc \in Threads /\ Lib(t) = lib[th[t].proc]
  BY LibFacts
<1>3. CASE LibStays
  BY <1>1, <1>3 DEF LibStays
<1>4. CASE Opened(t) \/ NotOpened(t)
  <2>1. ~Lib(t).fd /\ Lib(t).open = 0
    BY <1>1, <1>2, <1>4 DEF Opened, NotOpened
  <2>2. OneOpen(th[t].proc, TRUE, 1) \/ OneOpen(th[t].proc, FALSE, 0)
    BY <1>4, <2>1 DEF Opened, NotOpened, OneOpen
  <2> QED
    BY <1>1, <1>2, <2>2 DEF OneOpen
<1>5. CASE Closes(t)
  <2>1. Lib(t).open = 1
    BY <1>1, <1>2, <1>5 DEF Closes
  <2>2. OneOpen(th[t].proc, FALSE, 0)
    BY <1>5, <2>1 DEF Closes, OneOpen
  <2> QED
    BY <1>1, <1>2, <2>2 DEF OneOpen
<1>6. CASE Exits(t)
  <2>1. OneOpen(th[t].proc, FALSE, 0)
    BY <1>6 DEF Exits
  <2> QED
    BY <1>1, <1>2, <2>1 DEF OneOpen
<1>7. CASE StartsOther(t)
  <2>1. t = 1
    BY <1>7 DEF StartsOther
  <2>2. lib'[p] \in {lib[1], lib[2], Closed}
    BY <1>7, <2>1, StartedLib DEF Threads
  <2>3. Closed.open = 0 /\ Closed.fd = FALSE
    BY DEF Closed
  <2> QED
    BY <1>1, <2>2, <2>3 DEF Threads
<1> QED
  BY <1>3, <1>4, <1>5, <1>6, <1>7, LibStaysFacts

\* What the descriptor is for a thread.
FileOf(u) ==
    /\ th[u].pc = "open" => ~Lib(u).fd
    /\ InCall(u) => Lib(u).fd
    /\ th[u].pc = "prog" /\ Lib(u).fd /\ Uses(Prog(u), "init") => OpenAt(Prog(u), th[u].pos)

LEMMA FileOther ==
    ASSUME StateTypes, PlaceInv, OneFile, ~Racing, NEW t \in Threads, Kinds(t) \/ Asked(t),
           NEW u \in Threads \ {t}
    PROVE  FileOf(u)'
<1>1. FileOf(u) /\ job' = job
  BY ActiveFacts DEF OneFile, FileOf
<1>2. CASE Stays(u) /\ Active(u)
  <2>1. th[u].proc \in Threads /\ th[t].proc \in Threads
    BY LibFacts
  <2>2. lib'[th[u].proc].fd = lib[th[u].proc].fd
    <3>1. CASE Opened(t) \/ NotOpened(t) \/ Closes(t)
      <4>1. th[u].proc # th[t].proc
        BY <1>2, <3>1, AloneFacts
      <4> QED
        BY <2>1, <3>1, <4>1 DEF Opened, NotOpened, Closes, OneOpen
    <3>2. CASE Exits(t)
      <4>1. th[u].proc # th[t].proc
        BY <1>2, <3>2 DEF Exits, IsOver, Stays, Active
      <4> QED
        BY <2>1, <3>2, <4>1 DEF Exits, OneOpen
    <3>3. CASE StartsOther(t)
      BY <1>2, <3>3 DEF StartsOther, Active, Threads
    <3>4. CASE LibStays
      BY <2>1, <3>4 DEF LibStays
    <3> QED
      BY <3>1, <3>2, <3>3, <3>4, LibStaysFacts
  <2>3. Lib(u)'.fd = Lib(u).fd
    BY <1>2, <2>2 DEF Lib, Stays
  <2>4. Prog(u)' = Prog(u) /\ InCall(u)' = InCall(u)
    BY <1>1, <1>2 DEF Prog, InCall, Stays
  <2> QED
    BY <1>1, <1>2, <2>3, <2>4 DEF FileOf, Stays
<1>3. CASE Stays(u) /\ ~Active(u)
  BY <1>3 DEF FileOf, InCall, Active, Stays
<1>4. CASE Ended(t, u)
  BY <1>4 DEF Ended, FileOf, InCall
<1>5. CASE u = 2 /\ StartsOther(t)
  <2>1. t = 1
    BY <1>5 DEF StartsOther
  <2>2. /\ th'[2].pc = "prog" /\ Prog(2)' = Prog(2)
        /\ th'[2].proc = IF Call(1).op = "spawn" THEN 1 ELSE 2
    BY <1>1, <1>5, <2>1, StartedLib DEF StartsOther, Thread, Prog
  <2>3. Call(1).op \in {"spawn", "fork"} => ~Uses(Prog(2), "init")
    BY <1>5, <2>1, StartedCall
  <2>4. Call(1).op = "exec" => lib'[2] = Closed
    BY <1>5, <2>1, StartedLib
  <2>5. Call(1).op \in {"spawn", "fork", "exec"}
    BY <1>5, <2>1, StartedLib
  <2>6. Closed.fd = FALSE
    BY DEF Closed
  <2>7. Call(1).op = "exec" => ~Lib(2)'.fd
    BY <2>2, <2>4, <2>6 DEF Lib
  <2> QED
    BY <1>5, <2>2, <2>3, <2>5, <2>7 DEF FileOf, InCall
<1> QED
  BY <1>2, <1>3, <1>4, <1>5, OtherFacts

LEMMA FileSelf ==
    ASSUME StateTypes, PlaceInv, OneFile, ~Racing, NEW t \in Threads, Kinds(t) \/ Asked(t)
    PROVE  FileOf(t)'
<1>1. FileOf(t) /\ InPlace(t) /\ job' = job /\ Active(t)
  BY ActiveFacts DEF OneFile, FileOf, PlaceInv
<1>2. Goes(t) /\ th'[t].proc = th[t].proc /\ th[t].proc \in Threads
  BY PlaceFacts, LibFacts
<1>3. Prog(t)' = Prog(t) /\ Lib(t) = lib[th[t].proc] /\ Lib(t)' = lib'[th[t].proc]
  BY <1>1, <1>2 DEF Prog, Lib
<1>4. Prog(t) \in Seq(CallRecord) /\ ProgramFits(Prog(t))
  BY JobFacts
<1>5. CASE Exits(t) \/ Ends(t)
  <2>1. th'[t].pc = "done"
    BY <1>1, <1>5 DEF Exits, Ends, IsOver
  <2> QED
    BY <2>1 DEF FileOf, InCall
<1>6. CASE NotOpened(t) \/ Closes(t)
  <2>1. th'[t].pc = "prog" /\ Lib(t)'.fd = FALSE
    BY <1>3, <1>6 DEF NotOpened, Closes, GoesOn, OneOpen
  <2> QED
    BY <2>1 DEF FileOf, InCall
<1>7. CASE Begins(t)
  <2>1. lib' = lib /\ Lib(t)' = Lib(t)
    BY <1>3, <1>7 DEF Begins
  <2>2. CASE Call(t).op # "init" /\ Lib(t).fd /\ Asks(t)
    BY <2>1, <2>2 DEF FileOf, InCall, Asks
  <2>3. CASE Call(t).op = "init" /\ th'[t].pc = "open"
    <3>1. th[t].pc = "prog" /\ th[t].pos \in 1 .. Len(Prog(t)) /\ Call(t) = Prog(t)[th[t].pos]
      BY <1>1, <1>7, CallFacts DEF Begins
    <3>2. th[t].pos \in DOMAIN Prog(t)
      BY <1>4, <3>1
    <3>3. Uses(Prog(t), "init") /\ ~OpenAt(Prog(t), th[t].pos)
      BY <1>4, <2>3, <3>1, <3>2 DEF Uses, ProgramFits, OpensInTurn
    <3>4. ~Lib(t).fd
      BY <1>1, <3>1, <3>3 DEF FileOf
    <3> QED
      BY <2>1, <2>3, <3>4 DEF FileOf, InCall
  <2>4. CASE ~Lib(t).fd /\ th'[t].pc = "open"
    BY <2>1, <2>4 DEF FileOf, InCall
  <2> QED
    BY <1>7, <2>2, <2>3, <2>4 DEF Begins
<1>8. CASE Unasked(t)
  BY <1>1, <1>8 DEF Unasked, FileOf, InCall
<1>9. CASE Asked(t)
  <2>1. Lib(t)' = Lib(t) /\ th'[t].pc = "ret" /\ Lib(t).fd
    BY <1>3, <1>9 DEF Asked
  <2> QED
    BY <2>1 DEF FileOf, InCall
<1>10. CASE Opened(t) /\ th'[t].pc # "prog"
  <2>1. Lib(t)'.fd = TRUE /\ th'[t].pc = "ioctl"
    BY <1>3, <1>10 DEF Opened, OneOpen, GoesOn, Asks
  <2> QED
    BY <2>1 DEF FileOf, InCall
<1>11. CASE Jumps(t)
  <2>1. /\ th[t].pos \in 1 .. Len(Prog(t)) /\ Call(t) = Prog(t)[th[t].pos]
        /\ Call(t).op = "repeat"
    BY <1>1, <1>11, CallFacts DEF Jumps, AtCall
  <2>2. OpenAt(Prog(t), Call(t).arg) /\ OpenAt(Prog(t), th[t].pos)
    BY <1>4, <2>1, LoopPlace DEF ProgramFits
  <2>3. OpenAt(Prog(t), th[t].pos + 1)
    BY <1>4, <2>1, <2>2, OpenStep
  <2>4. th'[t].pc = "prog" /\ th'[t].pos \in {th[t].pos + 1, Call(t).arg}
    BY <1>11 DEF Jumps
  <2> QED
    BY <1>3, <2>2, <2>3, <2>4 DEF FileOf, InCall
<1>12. CASE Returns(t) \/ (Opened(t) /\ th'[t].pc = "prog")
  <2>1. th[t].pos <= Len(Prog(t)) /\ Opens(Call(t)) /\ Advances(t)
    BY <1>1, <1>12 DEF Returns, Opened, InPlace, Advances, GoesOn, Asks
  <2>2. th[t].pos \in 1 .. Len(Prog(t)) /\ Call(t) = Prog(t)[th[t].pos]
    BY <1>1, <2>1, CallFacts
  <2>3. OpenAt(Prog(t), th[t].pos + 1)
    BY <1>4, <2>1, <2>2, OpenStep
  <2> QED
    BY <1>3, <2>1, <2>3 DEF FileOf, InCall, Advances
<1>13. CASE Aside(t) \/ StartsOther(t)
  <2>1. th[t].pc = "prog" /\ th[t].pos <= Len(Prog(t)) /\ Advances(t)
    BY <1>13 DEF Aside, StartsOther, GoesOn, Advances
  <2>2. th[t].pos \in 1 .. Len(Prog(t)) /\ Call(t) = Prog(t)[th[t].pos]
    BY <1>1, <2>1, CallFacts
  <2>3. Lib(t)'.fd = Lib(t).fd
    <3>1. CASE Aside(t)
      BY <1>3, <3>1 DEF Aside
    <3>2. CASE StartsOther(t)
      <4>1. t = 1
        BY <3>2 DEF StartsOther
      <4> QED
        BY <1>3, <3>2, <4>1, StartedLib
    <3> QED
      BY <1>13, <3>1, <3>2
  <2>4. Lib(t).fd => Call(t).op # "cleanup"
    BY <1>13 DEF Aside, StartsOther, Starts
  <2>5. Lib(t).fd /\ OpenAt(Prog(t), th[t].pos) => OpenAt(Prog(t), th[t].pos + 1)
    BY <1>4, <2>2, <2>4, OpenStep
  <2> QED
    BY <1>1, <1>3, <2>1, <2>3, <2>5 DEF FileOf, InCall, Advances
<1> QED
  BY <1>5, <1>6, <1>7, <1>8, <1>9, <1>10, <1>11, <1>12, <1>13 DEF Kinds

\* Where the first program surely has the device open, it has.
LEMMA SureKeeps ==
    ASSUME StateTypes, PlaceInv, OneFile, ~Racing, NEW t \in Threads, Kinds(t) \/ Asked(t),
           Active(1)', SurelyOpenAt(Prog(1), th'[1].pos)
    PROVE  lib'[1].fd
<1>1. /\ \A u \in Threads : FileOf(u)
      /\ Active(1) /\ SurelyOpenAt(Prog(1), th[1].pos) => lib[1].fd
  BY DEF OneFile, FileOf
<1>2. th[1].proc = 1 /\ Lib(1) = lib[1] /\ 1 \in Threads
  BY DEF PlaceInv, SecondInv, Lib, Threads
<1>3. CASE t = 2
  <2>1. Stays(1)
    <3>1. ~StartsOther(t)
      BY <1>3 DEF StartsOther
    <3>2. ~Ended(t, 1)
      BY DEF Ended, Active
    <3>3. 1 \in Threads \ {t}
      BY <1>2, <1>3
    <3> QED
      BY <3>1, <3>2, <3>3, OtherFacts, Zenon
  <2>2. Active(1) /\ th'[1].pos = th[1].pos
    BY <2>1 DEF Stays, Active
  <2>3. lib[1].fd
    BY <1>1, <2>2
  <2>4. th[2].proc = 2 \/ (~Opened(t) /\ ~NotOpened(t) /\ ~Closes(t))
    <3>1. Active(2)
      BY <1>3, ActiveFacts
    <3>2. th[2].proc \in Threads
      BY <1>3, LibFacts
    <3> QED
      BY <3>1, <3>2, SharedFacts DEF Threads
  <2>5. ~StartsOther(t)
    BY <1>3 DEF StartsOther
  <2>6. CASE Exits(t)
    <3>1. th[2].proc # 1
      BY <1>2, <1>3, <2>1, <2>2, <2>6 DEF Exits, IsOver, Active, Stays
    <3> QED
      BY <1>2, <1>3, <2>3, <2>6, <3>1 DEF Exits, OneOpen
  <2>7. CASE th[2].proc = 2 /\ (Opened(t) \/ NotOpened(t) \/ Closes(t))
    BY <1>2, <1>3, <2>3, <2>7 DEF Opened, NotOpened, Closes, OneOpen
  <2>8. CASE LibStays
    BY <1>2, <2>3, <2>8 DEF LibStays
  <2> QED
    BY <2>4, <2>5, <2>6, <2>7, <2>8, LibStaysFacts
<1>4. CASE t = 1
  <2>1. Active(1) /\ Goes(1) /\ InPlace(1)
    BY <1>4, ActiveFacts, PlaceFacts DEF PlaceInv
  <2>2. Prog(1) \in Seq(CallRecord) /\ ProgramFits(Prog(1))
    BY <1>2, JobFacts
  <2>3. ~Exits(t)
    BY <1>4 DEF Exits, IsOver, Active
  <2>4. CASE th'[1].pos = th[1].pos
    <3>1. lib[1].fd
      BY <1>1, <2>1, <2>4
    <3>2. LibStays \/ Opened(t)
      <4>1. ~NotOpened(t) /\ ~Closes(t) /\ ~StartsOther(t)
        <5>1. ~Advances(1)
          BY <2>1, <2>4 DEF InPlace, Advances
        <5> QED
          BY <1>4, <5>1 DEF NotOpened, Closes, StartsOther, GoesOn, Advances
      <4> QED
        BY <2>3, <4>1, LibStaysFacts
    <3>3. Opened(t) => lib'[1].fd
      BY <1>2, <1>4 DEF Opened, OneOpen
    <3> QED
      BY <1>2, <3>1, <3>2, <3>3 DEF LibStays
  <2>5. CASE th[1].pos \in 1 .. Len(Prog(1)) /\ Advances(1)
    <3>1. Call(1) = Prog(1)[th[1].pos] /\ th'[1].pos = th[1].pos + 1
      BY <2>5 DEF Call, Advances
    <3>2. \/ Opens(Call(1)) /\ Call(1).checked
          \/ SurelyOpenAt(Prog(1), th[1].pos) /\ Call(1).op # "cleanup"
      BY <2>2, <2>5, <3>1, SureStep
    <3>3. Call(1).op # "cleanup"
      BY <3>2 DEF Opens, Local
    <3>4. CASE Opened(t)
      BY <1>2, <1>4, <3>4 DEF Opened, OneOpen
    <3>5. ~NotOpened(t)
      BY <1>1, <1>2, <1>4, <2>1, <3>2 DEF NotOpened, FileOf
    <3>6. ~Closes(t)
      BY <1>4, <3>3 DEF Closes, AtCall
    <3>7. lib[1].fd \/ Opened(t)
      <4>1. CASE SurelyOpenAt(Prog(1), th[1].pos)
        BY <1>1, <2>1, <4>1
      <4>2. CASE Opens(Call(1))
        <5>1. Returns(t) \/ Opened(t) \/ NotOpened(t) \/ Jumps(t)
              \/ Aside(t) \/ Closes(t) \/ StartsOther(t)
          BY <1>4, <2>3, <2>5
          DEF Kinds, Begins, Unasked, Asked, Ends, IsOver, Asks, Advances
        <5>2. ~Aside(t) /\ ~Closes(t) /\ ~StartsOther(t) /\ ~Jumps(t)
          BY <1>4, <4>2 DEF Aside, Closes, StartsOther, Jumps, AtCall, Opens, Local, Starts
        <5>3. Returns(t) => lib[1].fd
          BY <1>1, <1>2, <1>4 DEF Returns, FileOf, InCall
        <5> QED
          BY <3>5, <5>1, <5>2, <5>3
      <4> QED
        BY <3>2, <4>1, <4>2
    <3>8. CASE StartsOther(t) /\ ~Opened(t)
      <4>1. lib'[1] = lib[1]
        BY <1>4, <3>8, StartedLib
      <4> QED
        BY <3>7, <3>8, <4>1
    <3>9. CASE LibStays /\ ~Opened(t)
      BY <1>2, <3>7, <3>9 DEF LibStays
    <3> QED
      BY <2>3, <3>4, <3>5, <3>6, <3>8, <3>9, LibStaysFacts
  <2>6. CASE /\ AtCall(1, "repeat") /\ th'[1].pos = Call(1).arg /\ th'[1].pc = "prog"
             /\ th'[1].pos \in 1 .. th[1].pos
    <3>1. th[1].pos \in 1 .. Len(Prog(1)) /\ Call(1) = Prog(1)[th[1].pos] /\ Call(1).op = "repeat"
      BY <2>1, <2>6, <1>2, CallFacts DEF AtCall
    <3>2. SurelyOpenAt(Prog(1), th[1].pos)
      BY <2>2, <2>6, <3>1, LoopPlace DEF ProgramFits
    <3>3. lib[1].fd
      BY <1>1, <2>1, <3>2
    <3>4. ~NotOpened(t) /\ ~Opened(t) /\ ~Closes(t) /\ ~StartsOther(t)
      BY <1>4, <3>1, <2>6 DEF NotOpened, Opened, Closes, StartsOther, AtCall, Starts
    <3> QED
      BY <1>2, <2>3, <3>3, <3>4, LibStaysFacts DEF LibStays
  <2> QED
    BY <2>1, <2>4, <2>5, <2>6 DEF Goes
<1> QED
  BY <1>3, <1>4 DEF Threads

\* While the second shares the descriptor, the device is open.
LEMMA SharedKeeps ==
    ASSUME StateTypes, PlaceInv, OneFile, ~Racing, ~Racing', NEW t \in Threads,
           Kinds(t) \/ Asked(t), Active(2)', th'[2].proc = 1
    PROVE  lib'[1].fd /\ \A u \in Threads : th'[u].pc # "open"
<1>1. job' = job /\ th'[1].proc = 1 /\ 1 \in Threads /\ 2 \in Threads
  BY ActiveFacts, FirstFacts DEF Threads
<1>2. lib'[1].fd
  <2>1. CASE StartsOther(t)
    <3>1. t = 1 /\ th[1].pc = "prog"
      BY <2>1 DEF StartsOther
    <3>2. Call(1).op = "spawn"
      BY <2>1, <3>1, StartedLib DEF StartsOther, Thread
    <3>3. Uses(Prog(1), "init")
      BY <1>1 DEF Racing, Prog
    <3>4. SurelyOpenAt(Prog(1), th[1].pos)
      BY <2>1, <3>1, <3>2, <3>3, StartedCall
    <3>5. lib[1].fd
      BY <3>1, <3>4 DEF OneFile, Active
    <3> QED
      BY <2>1, <3>1, <3>5, StartedLib
  <2>2. CASE ~StartsOther(t)
    <3>1. th[2].pc # "none"
      BY <2>2, NoneFacts DEF Active, Thread
    <3>2. th[2].proc = 1 /\ th[2].pc # "done"
      BY <3>1, SecondFacts DEF Active
    <3>3. Active(2)
      BY <1>1, <3>1, <3>2 DEF Active, StateTypes, ThreadRecord
    <3>4. lib[1].fd
      BY <3>2, <3>3 DEF OneFile
    <3>5. ~Opened(t) /\ ~NotOpened(t) /\ ~Closes(t)
      BY <3>2, <3>3, SharedFacts
    <3>6. CASE Exits(t)
      <4>1. th[t].proc # 1
        BY <1>1, <3>2, <3>3, <3>6 DEF Exits, IsOver, Active
      <4> QED
        BY <1>1, <3>4, <3>6, <4>1 DEF Exits, OneOpen
    <3>7. CASE LibStays
      BY <1>1, <3>4, <3>7 DEF LibStays
    <3> QED
      BY <2>2, <3>5, <3>6, <3>7, LibStaysFacts
  <2> QED
    BY <2>1, <2>2
<1>3. ASSUME NEW u \in Threads PROVE th'[u].pc # "open"
  <2>1. FileOf(u)'
    BY FileSelf, FileOther
  <2>2. th'[u].proc = 1
    BY <1>1 DEF Threads
  <2> QED
    BY <1>2, <2>1, <2>2 DEF FileOf, Lib
<1> QED
  BY <1>2, <1>3

LEMMA FileKeeps ==
    ASSUME StateTypes, PlaceInv, FileInv, NEW t \in Threads, Kinds(t) \/ Asked(t)
    PROVE  FileInv'
<1>1. ASSUME ~Racing'
      PROVE  /\ \A p \in Threads : lib'[p].open = (IF lib'[p].fd THEN 1 ELSE 0)
             /\ \A u \in Threads : FileOf(u)'
             /\ Active(1)' /\ SurelyOpenAt(Prog(1), th'[1].pos) => lib'[1].fd
             /\ Active(2)' /\ th'[2].proc = 1 =>
                   lib'[1].fd /\ \A u \in Threads : th'[u].pc # "open"
  <2>1. OneFile /\ ~Racing
    BY <1>1, RacingFacts DEF FileInv
  <2>2. ASSUME NEW u \in Threads PROVE FileOf(u)'
    BY <2>1, FileSelf, FileOther
  <2> QED
    BY <1>1, <2>1, <2>2, CountKeeps, SureKeeps, SharedKeeps
<1>2. Prog(1)' = Prog(1)
  BY ActiveFacts DEF Prog
<1>3. OneFile'
  BY <1>1, <1>2 DEF OneFile, FileOf
<1>4. ASSUME NEW p \in Threads, lib'[p].fd PROVE lib'[p].open # 0
  <2>1. \A q \in Threads : lib[q].fd => lib[q].open # 0
    BY DEF FileInv
  <2>2. th[t].proc \in Threads /\ Lib(t).open \in Nat
    BY LibFacts
  <2>3. CASE LibStays
    BY <1>4, <2>1, <2>3 DEF LibStays
  <2>4. CASE Opened(t) \/ NotOpened(t) \/ Closes(t) \/ Exits(t)
    BY <1>4, <2>1, <2>2, <2>4 DEF Opened, NotOpened, Closes, Exits, OneOpen
  <2>5. CASE StartsOther(t)
    <3>1. t = 1
      BY <2>5 DEF StartsOther
    <3>2. lib'[p] \in {lib[1], lib[2], Closed}
      BY <2>5, <3>1, StartedLib DEF Threads
    <3>3. Closed.fd = FALSE
      BY DEF Closed
    <3> QED
      BY <1>4, <2>1, <3>2, <3>3 DEF Threads
  <2> QED
    BY <2>3, <2>4, <2>5, LibStaysFacts
<1> QED
  BY <1>3, <1>4 DEF FileInv

\* A thread closes the device when no other that is active shares the descriptor.
LEMMA CloseAlone ==
    ASSUME StateTypes, PlaceInv, NEW t \in Threads, NEW u \in Threads \ {t}, Active(u), Closes(t)
    PROVE  th[u].proc # th[t].proc
<1> SUFFICES ASSUME th[u].proc = th[t].proc PROVE FALSE
  OBVIOUS
<1>1. Active(t)
  BY DEF Closes, AtCall, Active
<1>2. Active(2) /\ th[2].proc = 1 /\ th[2].pc # "none" /\ th[2].pc # "done"
  BY <1>1 DEF Threads, PlaceInv, SecondInv, Active
<1>3. ~Uses(Prog(2), "cleanup") /\ PassedAt(Prog(1), th[1].pos, {"spawn"})
  BY <1>2, SpawnedFacts
<1>4. /\ InPlace(t) /\ th[t].pos \in 1 .. Len(Prog(t)) /\ Call(t) = Prog(t)[th[t].pos]
      /\ Call(t).op = "cleanup"
  BY CallFacts DEF Closes, AtCall, PlaceInv
<1>5. th[t].pos \in DOMAIN Prog(t)
  BY <1>4, JobFacts
<1>6. CASE t = 1
  <2>1. StartsOne(Prog(1), Prog(2))
    BY JobFacts DEF JobFits, Prog
  <2>2. JoinedAt(Prog(1), th[1].pos)
    BY <1>3, <1>4, <1>5, <1>6, <2>1 DEF StartsOne
  <2> QED
    BY <1>2, <2>2 DEF PlaceInv, SecondInv
<1>7. CASE t = 2
  BY <1>3, <1>4, <1>5, <1>7 DEF Uses
<1> QED
  BY <1>6, <1>7 DEF Threads

LEMMA HappenedFacts ==
    ASSUME NEW t \in Threads, Kinds(t) \/ Asked(t)
    PROVE  happened \subseteq happened' /\ ("device" \notin happened' => ~NotOpened(t))
  BY DEF Kinds, Asked, Aside, Jumps, Begins, Opened, NotOpened, Unasked, Returns, Closes,
     StartsOther, Exits, EndsWith, Ends

\* What the device is for a thread while it is there.
DeviceOf(u) ==
    /\ InCall(u) => Lib(u).fd
    /\ Active(u) /\ OpenAt(Prog(u), th[u].pos) => Lib(u).fd

LEMMA DeviceOther ==
    ASSUME StateTypes, PlaceInv, NEW t \in Threads, Kinds(t) \/ Asked(t), ~NotOpened(t),
           NEW u \in Threads \ {t}, DeviceOf(u)
    PROVE  DeviceOf(u)'
<1>1. job' = job
  BY ActiveFacts
<1>2. CASE Stays(u) /\ Active(u)
  <2>1. th[u].proc \in Threads /\ th[t].proc \in Threads
    BY LibFacts
  <2>2. lib[th[u].proc].fd => lib'[th[u].proc].fd
    <3>1. CASE Opened(t)
      BY <2>1, <3>1 DEF Opened, OneOpen
    <3>2. CASE Closes(t)
      <4>1. th[u].proc # th[t].proc
        BY <1>2, <3>2, CloseAlone
      <4> QED
        BY <2>1, <3>2, <4>1 DEF Closes, OneOpen
    <3>3. CASE Exits(t)
      <4>1. th[u].proc # th[t].proc
        BY <1>2, <3>3 DEF Exits, IsOver, Stays, Active
      <4> QED
        BY <2>1, <3>3, <4>1 DEF Exits, OneOpen
    <3>4. CASE StartsOther(t)
      BY <1>2, <3>4 DEF StartsOther, Active, Threads
    <3>5. CASE LibStays
      BY <2>1, <3>5 DEF LibStays
    <3> QED
      BY <3>1, <3>2, <3>3, <3>4, <3>5, LibStaysFacts
  <2>3. Lib(u).fd => Lib(u)'.fd
    BY <1>2, <2>2 DEF Lib, Stays
  <2>4. Prog(u)' = Prog(u) /\ InCall(u)' = InCall(u) /\ Active(u)' = Active(u)
    BY <1>1, <1>2 DEF Prog, InCall, Active, Stays
  <2> QED
    BY <1>1, <1>2, <2>3, <2>4 DEF DeviceOf, Stays
<1>3. CASE (Stays(u) /\ ~Active(u)) \/ Ended(t, u)
  BY <1>3 DEF DeviceOf, InCall, Active, Stays, Ended
<1>4. CASE u = 2 /\ StartsOther(t)
  <2>1. th'[2].pc = "prog" /\ th'[2].pos = 1
    BY <1>4 DEF StartsOther, Thread
  <2>2. ~OpenAt(Prog(2)', 1)
    BY AtFirst
  <2> QED
    BY <1>4, <2>1, <2>2 DEF DeviceOf, InCall
<1> QED
  BY <1>2, <1>3, <1>4, OtherFacts

LEMMA DeviceSelf ==
    ASSUME StateTypes, PlaceInv, NEW t \in Threads, Kinds(t) \/ Asked(t), ~NotOpened(t),
           DeviceOf(t)
    PROVE  DeviceOf(t)'
<1>1. InPlace(t) /\ job' = job /\ Active(t)
  BY ActiveFacts DEF PlaceInv
<1>2. Goes(t) /\ th'[t].proc = th[t].proc /\ th[t].proc \in Threads
  BY PlaceFacts, LibFacts
<1>3. Prog(t)' = Prog(t) /\ Lib(t) = lib[th[t].proc] /\ Lib(t)' = lib'[th[t].proc]
  BY <1>1, <1>2 DEF Prog, Lib
<1>4. Prog(t) \in Seq(CallRecord) /\ ProgramFits(Prog(t))
  BY JobFacts
<1>5. CASE Exits(t) \/ Ends(t)
  <2>1. th'[t].pc = "done"
    BY <1>1, <1>5 DEF Exits, Ends, IsOver
  <2> QED
    BY <2>1 DEF DeviceOf, InCall, Active
<1>6. CASE Opened(t)
  <2>1. Lib(t)'.fd = TRUE
    BY <1>3, <1>6 DEF Opened, OneOpen
  <2> QED
    BY <2>1 DEF DeviceOf
<1>7. CASE Closes(t)
  <2>1. /\ th[t].pos \in 1 .. Len(Prog(t)) /\ Call(t) = Prog(t)[th[t].pos]
        /\ Call(t).op = "cleanup"
    BY <1>1, <1>7, CallFacts DEF Closes, AtCall
  <2>2. th'[t].pc = "prog" /\ th'[t].pos = th[t].pos + 1
    BY <1>7 DEF Closes, GoesOn
  <2>3. ~OpenAt(Prog(t), th[t].pos + 1)
    <3>1. ~Opens(Call(t))
      BY <2>1 DEF Opens, Local
    <3> QED
      BY <1>4, <2>1, <3>1, OpenStep
  <2> QED
    BY <1>3, <2>2, <2>3 DEF DeviceOf, InCall
<1>8. CASE Begins(t) \/ Unasked(t) \/ Asked(t)
  <2>1. lib' = lib /\ th'[t].pos = th[t].pos
    BY <1>8 DEF Begins, Asks, Unasked, Asked
  <2>2. Lib(t)' = Lib(t)
    BY <1>3, <2>1
  <2>3. InCall(t)' => Lib(t).fd
    BY <1>1, <1>8 DEF Begins, Asks, Unasked, Asked, DeviceOf, InCall
  <2> QED
    BY <1>1, <1>3, <2>1, <2>2, <2>3 DEF DeviceOf
<1>9. CASE Jumps(t)
  <2>1. /\ th[t].pos \in 1 .. Len(Prog(t)) /\ Call(t) = Prog(t)[th[t].pos]
        /\ Call(t).op = "repeat"
    BY <1>1, <1>9, CallFacts DEF Jumps, AtCall
  <2>2. OpenAt(Prog(t), th[t].pos)
    BY <1>4, <2>1, LoopPlace DEF ProgramFits
  <2>3. Lib(t).fd /\ lib' = lib
    BY <1>1, <1>9, <2>2 DEF DeviceOf, Jumps
  <2> QED
    BY <1>3, <2>3 DEF DeviceOf
<1>10. CASE Returns(t)
  <2>1. Lib(t).fd
    BY <1>10 DEF Returns, DeviceOf, InCall
  <2>2. LibStays
    <3>1. ~Opened(t) /\ ~NotOpened(t) /\ ~Closes(t) /\ ~Exits(t) /\ ~StartsOther(t)
      BY <1>10 DEF Returns, Opened, NotOpened, Closes, AtCall, StartsOther, Exits, IsOver, Active
    <3> QED
      BY <3>1, LibStaysFacts
  <2> QED
    BY <1>2, <1>3, <2>1, <2>2 DEF DeviceOf, LibStays
<1>11. CASE Aside(t) \/ StartsOther(t)
  <2>1. th[t].pc = "prog" /\ th[t].pos <= Len(Prog(t)) /\ Advances(t)
    BY <1>11 DEF Aside, StartsOther, GoesOn, Advances
  <2>2. th[t].pos \in 1 .. Len(Prog(t)) /\ Call(t) = Prog(t)[th[t].pos]
    BY <1>1, <2>1, CallFacts
  <2>3. Lib(t)'.fd = Lib(t).fd
    <3>1. CASE Aside(t)
      BY <1>3, <3>1 DEF Aside
    <3>2. CASE StartsOther(t)
      <4>1. t = 1
        BY <3>2 DEF StartsOther
      <4> QED
        BY <1>3, <3>2, <4>1, StartedLib
    <3> QED
      BY <1>11, <3>1, <3>2
  <2>4. ~Opens(Call(t))
    BY <1>11 DEF Aside, StartsOther, Starts, Opens, Local
  <2>5. OpenAt(Prog(t), th[t].pos + 1) => OpenAt(Prog(t), th[t].pos)
    BY <1>4, <2>2, <2>4, OpenStep
  <2> QED
    BY <1>1, <1>3, <2>1, <2>3, <2>5 DEF DeviceOf, InCall, Advances
<1> QED
  BY <1>5, <1>6, <1>7, <1>8, <1>9, <1>10, <1>11 DEF Kinds

LEMMA DeviceKeeps ==
    ASSUME StateTypes, PlaceInv, DeviceInv, NEW t \in Threads, Kinds(t) \/ Asked(t)
    PROVE  DeviceInv'
<1> SUFFICES ASSUME "device" \notin happened', NEW u \in Threads
             PROVE  DeviceOf(u)'
  BY DEF DeviceInv, DeviceOf
<1>1. ~NotOpened(t) /\ "device" \notin happened
  BY HappenedFacts
<1>2. DeviceOf(u)
  BY <1>1 DEF DeviceInv, DeviceOf
<1>3. CASE u = t
  BY <1>1, <1>2, <1>3, DeviceSelf
<1>4. CASE u # t
  BY <1>1, <1>2, <1>4, DeviceOther
<1> QED
  BY <1>3, <1>4

-----------------------------------------------------------------------------
(* One period, guarantee and flags. *)

LEMMA GivenFacts ==
    ASSUME StateTypes
    PROVE  /\ OnePeriod(job.program) /\ Given \in Structure
           /\ Given.P \in Nat /\ Given.P # 0 /\ Given.Q_min \in Nat
           /\ Given.P >= MIN_SRV_PERIOD
           /\ job.program.shared \in BOOLEAN
<1>1. /\ OnePeriod(job.program) /\ job.program.shared \in BOOLEAN
      /\ job.program.structs \in [{1, 2} -> Structure]
  BY JobFacts DEF JobFits
<1>2. Given \in Structure
  BY <1>1 DEF Given
<1>3. Given.P >= MIN_SRV_PERIOD
  BY <1>1 DEF OnePeriod, Given
<1> QED
  BY <1>1, <1>2, <1>3, QresGwAssumption DEF Structure

\* What a structure gets is within the period.
LEMMA LetFacts ==
    ASSUME StateTypes, PlaceInv, NEW t \in Threads, th[t].pos <= Len(Prog(t))
    PROVE  /\ Call(t).op = "let" => Call(t).arg \in Nat /\ Call(t).arg <= Given.P
           /\ Call(t).op = "period" => ~job.program.shared
<1>1. Call(t) \in CallRecord /\ Call(t) = Prog(t)[th[t].pos] /\ th[t].pos \in DOMAIN Prog(t)
  BY CallFacts, JobFacts DEF PlaceInv
<1>2. OnePeriod(job.program)
  BY GivenFacts
<1> QED
  BY <1>1, <1>2 DEF OnePeriod, Given, Prog, Threads, CallRecord

\* A server is asked for with the parameters given.
LEMMA CallParam ==
    ASSUME StateTypes, PlaceInv, ParamsInv, NEW t \in Threads, th[t].pos <= Len(Prog(t)),
           Call(t).op = "create" \/ (Call(t).op = "set_params" /\ Call(t).sid # "null")
    PROVE  Fits(Param(t))
<1>1. Call(t) = Prog(t)[th[t].pos] /\ th[t].pos \in DOMAIN Prog(t)
  BY CallFacts, JobFacts DEF PlaceInv
<1>2. UsesLiveServers(Prog(t))
  BY JobFacts DEF ProgramFits
<1>3. ~PassedAt(Prog(t), th[t].pos, {"period"})
  BY <1>1, <1>2 DEF UsesLiveServers
<1>4. StructOf(t) \in Threads
  BY JobFacts
<1> QED
  BY <1>3, <1>4 DEF ParamsInv, Fits, AsGiven, Param

\* The call whose result is kept is one of those.
LEMMA RememberedFits ==
    ASSUME StateTypes, PlaceInv, ParamsInv, RequestInv, NEW t \in Threads, th[t].pc = "ret",
           Remembered(t)
    PROVE  Fits(Param(t))
<1>1. /\ th[t].pos <= Len(Prog(t)) /\ th[t].msg.op = Call(t).op /\ th[t].msg.sid = sid(t)
  BY DEF PlaceInv, InPlace, InCall
<1>2. th[t].msg.op = "set_params" => th[t].msg.sid # 0
  BY DEF RequestInv, Remembered
<1>3. Call(t).op = "set_params" => Call(t).sid # "null"
  BY <1>1, <1>2 DEF sid, QRES_SID_NULL
<1> QED
  BY <1>1, <1>3, CallParam DEF Remembered

\* What the structures of parameters hold.
LEMMA StructsKeep ==
    ASSUME StateTypes, PlaceInv, ParamsInv, NEW t \in Threads, Kinds(t) \/ Asked(t),
           NEW u \in Threads
    PROVE  /\ params'[u].Q_min = Given.Q_min /\ params'[u].flags = Given.flags
           /\ params'[u].Q <= Given.P
           /\ params'[u].P = params[u].P \/ (Call(t).op = "period" /\ Aside(t) /\ u = t)
<1>1. /\ params[u].Q_min = Given.Q_min /\ params[u].flags = Given.flags
      /\ params[u].Q <= Given.P
  BY DEF ParamsInv
<1>2. params' = params \/ Aside(t)
  BY DEF Kinds, Asked, Jumps, Begins, Opened, NotOpened, Unasked, Returns, Closes,
     StartsOther, Exits, Ends
<1>3. CASE Aside(t) /\ params' # params
  <2> DEFINE k == StructOf(t)
             x == [params[k] EXCEPT !.Q = Call(t).arg]
             y == [params[k] EXCEPT !.P = Call(t).arg]
  <2>1. k \in Threads /\ params \in [Threads -> Structure] /\ params[k] \in Structure
    BY JobFacts DEF StateTypes
  <2>2. th[t].pos <= Len(Prog(t))
    BY <1>3 DEF Aside
  <2>3. /\ x.Q_min = params[k].Q_min /\ x.flags = params[k].flags /\ x.Q = Call(t).arg
        /\ x.P = params[k].P
        /\ y.Q_min = params[k].Q_min /\ y.flags = params[k].flags /\ y.Q = params[k].Q
    BY <2>1 DEF Structure
  <2>4. \/ Call(t).op = "let" /\ params' = [params EXCEPT ![k] = x]
        \/ Call(t).op = "period" /\ params' = [params EXCEPT ![k] = y]
    BY <1>3 DEF Aside
  <2>5. Call(t).op = "period" => k = t
    BY <2>2, LetFacts DEF StructOf
  <2> HIDE DEF x, y, k
  <2> QED
    BY <1>1, <1>3, <2>1, <2>2, <2>3, <2>4, <2>5, LetFacts
<1> QED
  BY <1>1, <1>2, <1>3

\* The period in the structure of a thread.
LEMMA PeriodsKeep ==
    ASSUME StateTypes, PlaceInv, ParamsInv, NEW t \in Threads, Kinds(t) \/ Asked(t),
           NEW u \in Threads, ~PassedAt(Prog(u), th'[u].pos, {"period"})
    PROVE  Param(u)'.P = Given.P
<1>0. job' = job /\ StructOf(u) \in Threads
  BY ActiveFacts, JobFacts
<1>1. Param(u)' = params'[StructOf(u)]
  BY <1>0 DEF Param, StructOf
<1>2. CASE ~PassedAt(Prog(u), th[u].pos, {"period"})
  <2>1. Param(u).P = Given.P
    BY <1>2 DEF ParamsInv
  <2>2. ASSUME Call(t).op = "period", Aside(t), StructOf(u) = t PROVE FALSE
    <3>1. th[t].pos <= Len(Prog(t)) /\ Advances(t)
      BY <2>2 DEF Aside, GoesOn, Advances
    <3>2. ~job.program.shared
      BY <2>2, <3>1, LetFacts
    <3>3. u = t
      BY <2>2, <3>2 DEF StructOf
    <3>4. th[t].pos \in 1 .. Len(Prog(t)) /\ Call(t) = Prog(t)[th[t].pos]
      BY <3>1, CallFacts DEF PlaceInv
    <3>5. Prog(t) \in Seq(CallRecord)
      BY JobFacts
    <3>6. PassedAt(Prog(t), th[t].pos + 1, {"period"})
      BY <2>2, <3>4, <3>5, PassedStep
    <3> QED
      BY <3>1, <3>3, <3>6 DEF Advances
  <2> QED
    BY <1>0, <1>1, <2>1, <2>2, StructsKeep DEF Param
<1>3. CASE PassedAt(Prog(u), th[u].pos, {"period"}) /\ u = t
  <2>1. Goes(t) /\ Prog(t) \in Seq(CallRecord) /\ LoopsOnlyUse(Prog(t))
    BY PlaceFacts, JobFacts DEF ProgramFits
  <2>2. CASE th'[t].pos = th[t].pos
    BY <1>3, <2>2
  <2>3. CASE th[t].pos \in 1 .. Len(Prog(t)) /\ Advances(t)
    BY <1>3, <2>1, <2>3, PassedStep DEF Advances
  <2>4. CASE AtCall(t, "repeat") /\ th'[t].pos = Call(t).arg
    <3>1. th[t].pos \in 1 .. Len(Prog(t)) /\ Call(t) = Prog(t)[th[t].pos] /\ Call(t).op = "repeat"
      BY <2>4, CallFacts DEF AtCall, PlaceInv
    <3> QED
      BY <1>3, <2>1, <2>4, <3>1, LoopPlace
  <2> QED
    BY <2>1, <2>2, <2>3, <2>4 DEF Goes
<1>4. CASE PassedAt(Prog(u), th[u].pos, {"period"}) /\ u # t
  <2>1. CASE th'[u].pos = th[u].pos
    BY <1>4, <2>1
  <2>2. CASE u = 2 /\ StartsOther(t)
    <3>1. th[2] = Thread("none", 2)
      BY <2>2, NoneFacts DEF StartsOther
    <3>2. th[2].pos = 1
      BY <3>1 DEF Thread
    <3> QED
      BY <1>4, <2>2, <3>2, AtFirst
  <2> QED
    BY <1>4, <2>1, <2>2, OtherFacts DEF Stays, Ended
<1> QED
  BY <1>2, <1>3, <1>4

\* What the library keeps.
LEMMA KeptKeeps ==
    ASSUME StateTypes, PlaceInv, ParamsInv, RequestInv, NEW t \in Threads, Kinds(t) \/ Asked(t),
           NEW p \in Threads
    PROVE  \/ lib'[p].server_params = lib[p].server_params
           \/ Fits(lib'[p].server_params)
           \/ /\ StartsOther(t) /\ p = 2
              /\ lib'[p].server_params \in {NoParams, lib[1].server_params}
<1>0. lib \in [Threads -> LibRecord] /\ th[t].proc \in Threads
  BY LibFacts DEF StateTypes
<1>1. CASE Opened(t) \/ NotOpened(t) \/ Closes(t) \/ Exits(t)
  BY <1>0, <1>1 DEF Opened, NotOpened, Closes, Exits, OneOpen
<1>2. CASE StartsOther(t)
  <2>1. t = 1
    BY <1>2 DEF StartsOther
  <2>2. Closed.server_params = NoParams
    BY DEF Closed
  <2> QED
    BY <1>2, <2>1, <2>2, StartedLib DEF Threads
<1>3. CASE Returns(t)
  <2> DEFINE sp == IF Remembered(t) THEN Param(t) ELSE lib[th[t].proc].server_params
             l == [lib[th[t].proc] EXCEPT !.server_params = sp]
  <2>1. lib' = [lib EXCEPT ![th[t].proc] = l]
    BY <1>0, <1>3 DEF Returns
  <2>2. l.server_params = sp
    BY <1>0 DEF LibRecord
  <2>3. sp = lib[th[t].proc].server_params \/ Fits(sp)
    BY <1>3, RememberedFits DEF Returns
  <2> HIDE DEF l, sp
  <2> QED
    BY <1>0, <2>1, <2>2, <2>3
<1>4. CASE lib' = lib
  BY <1>4
<1> QED
  BY <1>1, <1>2, <1>3, <1>4 DEF Kinds, Asked, Aside, Jumps, Begins, Unasked, Ends

LEMMA KeptFits ==
    ASSUME StateTypes, PlaceInv, ParamsInv, RequestInv, NEW t \in Threads, Kinds(t) \/ Asked(t),
           NEW u \in Threads
    PROVE  /\ lib'[u].server_params = NoParams \/ Fits(lib'[u].server_params)
           /\ Active(u)' /\ CreatedAt(Prog(u), th'[u].pos) => Fits(Lib(u)'.server_params)
<1>1. \A p \in Threads : lib[p].server_params = NoParams \/ Fits(lib[p].server_params)
  BY DEF ParamsInv
<1>2. lib'[u].server_params = NoParams \/ Fits(lib'[u].server_params)
  BY <1>1, KeptKeeps DEF Threads
<1>3. ASSUME Active(u)', CreatedAt(Prog(u), th'[u].pos) PROVE Fits(Lib(u)'.server_params)
  <2>1. CASE u = 2 /\ StartsOther(t)
    <3>1. th'[2].pos = 1
      BY <2>1 DEF StartsOther, Thread
    <3> QED
      BY <1>3, <2>1, <3>1, AtFirst
  <2>2. CASE ~(u = 2 /\ StartsOther(t))
    <3>1. th'[u].proc = th[u].proc /\ th[u].proc \in Threads /\ Active(u)
      <4>1. CASE u = t
        BY <4>1, PlaceFacts, ActiveFacts, LibFacts
      <4>2. CASE u # t
        BY <1>3, <2>2, <4>2, OtherFacts, LibFacts DEF Stays, Ended, Active
      <4> QED
        BY <4>1, <4>2
    <3>2. Lib(u)' = lib'[th[u].proc] /\ Lib(u) = lib[th[u].proc]
      BY <3>1 DEF Lib
    <3>3. CASE CreatedAt(Prog(u), th[u].pos)
      <4>1. Fits(Lib(u).server_params)
        BY <3>1, <3>3 DEF ParamsInv
      <4>2. StartsOther(t) => th[u].proc = 1
        BY <2>2, NoneFacts DEF StartsOther, Threads
      <4> QED
        BY <3>1, <3>2, <4>1, <4>2, KeptKeeps
    <3>4. CASE ~CreatedAt(Prog(u), th[u].pos)
      <4>1. u = t
        BY <1>3, <2>2, <3>4, OtherFacts DEF Stays, Ended
      <4>2. Goes(t) /\ Prog(t) \in Seq(CallRecord) /\ LoopsOnlyUse(Prog(t)) /\ InPlace(t)
        BY PlaceFacts, JobFacts DEF ProgramFits, PlaceInv
      <4>3. CASE th'[t].pos = th[t].pos
        BY <1>3, <3>4, <4>1, <4>3
      <4>4. CASE AtCall(t, "repeat") /\ th'[t].pos = Call(t).arg
        <5>1. /\ th[t].pos \in 1 .. Len(Prog(t)) /\ Call(t) = Prog(t)[th[t].pos]
              /\ Call(t).op = "repeat"
          BY <4>2, <4>4, CallFacts DEF AtCall
        <5> QED
          BY <1>3, <3>4, <4>1, <4>2, <4>4, <5>1, LoopPlace
      <4>5. CASE th[t].pos \in 1 .. Len(Prog(t)) /\ Advances(t)
        <5>1. Creates(Prog(t)[th[t].pos]) /\ Call(t) = Prog(t)[th[t].pos]
          BY <1>3, <3>4, <4>1, <4>2, <4>5, CreatedStep DEF Advances, Call
        <5>2. Returns(t)
          BY <4>2, <4>5, <5>1
          DEF Kinds, Asked, Aside, Jumps, Begins, Asks, Opened, NotOpened, Unasked, Closes,
              StartsOther, Exits, EndsWith, Ends, IsOver, AtCall, Creates, Local, Starts, Advances
        <5>3. th[t].rv = "OK" /\ th[t].msg.op = "create" /\ th[t].pc = "ret"
          BY <4>2, <5>1, <5>2 DEF Returns, Creates, InPlace, InCall
        <5>4. Remembered(t)
          BY <5>3 DEF Remembered
        <5>5. lib'[th[t].proc].server_params = Param(t)
          <6>1. lib \in [Threads -> LibRecord] /\ th[t].proc \in Threads
            BY LibFacts DEF StateTypes
          <6> QED
            BY <5>2, <5>4, <6>1 DEF Returns, LibRecord
        <5>6. Fits(Param(t))
          BY <5>3, <5>4, RememberedFits
        <5> QED
          BY <3>2, <4>1, <5>5, <5>6
      <4> QED
        BY <4>2, <4>3, <4>4, <4>5 DEF Goes
    <3> QED
      BY <3>3, <3>4
  <2> QED
    BY <2>1, <2>2
<1> QED
  BY <1>2, <1>3

\* A server as it is to be.
OfPeriod(s) ==
    /\ s.tg # "lost"
    /\ s.params.P = Given.P
    /\ s.params.Q_min = RoundBudget(Given.Q_min, Given.P)
    /\ s.params.flags = Given.flags

\* A request changes no period.
LEMMA RequestFits ==
    ASSUME StateTypes, PlaceInv, RequestInv, NEW t \in Threads, th[t].pc = "ioctl",
           Accepted(Request(t).params),
           \/ Request(t).op = "create"
           \/ /\ Request(t).op \in {"set_params", "set_bandwidth"}
              /\ Request(t).sid \in DOMAIN servers
    PROVE  /\ Rounded(Request(t).params) \in Structure
           /\ Rounded(Request(t).params).P = Given.P
           /\ Rounded(Request(t).params).Q_min = RoundBudget(Given.Q_min, Given.P)
           /\ Rounded(Request(t).params).flags = Request(t).params.flags
           /\ Request(t).params.flags = Given.flags
<1>1. Request(t) \in Message
  BY RequestIs
<1>2. Request(t).params \in Structure
  BY <1>1 DEF Message
<1>3. /\ Request(t).op = th[t].msg.op /\ Request(t).sid = th[t].msg.sid
      /\ Request(t).params = th[t].msg.params
  <2>1. th[t].msg \in Message
    BY RequestIs
  <2> QED
    BY <2>1 DEF Request, Message
<1>4. Request(t).sid \in DOMAIN servers => Request(t).sid # 0
  BY DEF StateTypes
<1>5. Request(t).params.P # 0
  BY <1>2, QresGwAssumption DEF Accepted, Structure
<1>6. AsGiven(Request(t).params)
  BY <1>3, <1>4, <1>5 DEF RequestInv, Fits
<1> QED
  BY <1>2, <1>6, RoundedType DEF AsGiven

LEMMA ServersKeep ==
    ASSUME StateTypes, PlaceInv, ParamsInv, RequestInv, NEW t \in Threads, Kinds(t) \/ Asked(t),
           NEW i \in DOMAIN servers'
    PROVE  OfPeriod(servers'[i])
<1>1. \A k \in DOMAIN servers : OfPeriod(servers[k])
  BY DEF ParamsInv, OfPeriod
<1>2. CASE servers' = servers
  BY <1>1, <1>2
<1>3. CASE Asked(t)
  <2> DEFINE m == Request(t)
  <2>1. PICK o : Came(m, o) /\ servers' = o.servers
    BY <1>3 DEF Asked
  <2>2. th[t].pc = "ioctl" /\ m \in Message
    BY <1>3, RequestIs DEF Asked
  <2>3. servers \in Seq(Server) /\ Len(servers) \in Nat
    BY DEF StateTypes
  <2>4. CASE New(m, o)
    <3>1. PICK w \in Weights : servers' = Append(servers, NewServer(m, w))
      BY <2>1, <2>4 DEF New
    <3>2. OfPeriod(NewServer(m, w))
      <4>1. /\ Rounded(m.params).P = Given.P
            /\ Rounded(m.params).Q_min = RoundBudget(Given.Q_min, Given.P)
            /\ Rounded(m.params).flags = Given.flags
        BY <2>2, <2>4, RequestFits DEF New
      <4> QED
        BY <4>1 DEF NewServer, OfPeriod
    <3>3. i \in DOMAIN servers \/ i = Len(servers) + 1
      BY <2>3, <3>1
    <3>4. i \in DOMAIN servers => servers'[i] = servers[i]
      BY <2>3, <3>1
    <3>5. i = Len(servers) + 1 => servers'[i] = NewServer(m, w)
      BY <2>3, <3>1
    <3> QED
      BY <1>1, <3>2, <3>3, <3>4, <3>5
  <2>5. CASE Freed(m, o)
    <3>1. /\ m.sid \in DOMAIN servers
          /\ servers' = [servers EXCEPT ![m.sid].tg = "freed"]
      BY <2>1, <2>5 DEF Freed
    <3>2. OfPeriod([servers[m.sid] EXCEPT !.tg = "freed"])
      <4>1. servers[m.sid] \in Server /\ OfPeriod(servers[m.sid])
        BY <1>1, <2>3, <3>1
      <4> QED
        BY <4>1 DEF Server, OfPeriod
    <3> QED
      BY <1>1, <3>1, <3>2
  <2>6. CASE Reset(m, o)
    <3> DEFINE new == Rounded(m.params)
               r == [servers[m.sid] EXCEPT !.params = new]
    <3>1. /\ m.sid \in DOMAIN servers /\ Accepted(m.params)
          /\ m.op \in {"set_params", "set_bandwidth"}
          /\ servers' = IF Readmitted(servers[m.sid].params, new)
                        THEN [[servers EXCEPT ![m.sid].params = new] EXCEPT ![m.sid].tg = "lost"]
                        ELSE [servers EXCEPT ![m.sid].params = new]
      BY <2>1, <2>6 DEF Reset
    <3>2. /\ new.P = Given.P /\ new.Q_min = RoundBudget(Given.Q_min, Given.P)
          /\ new.flags = Given.flags
      BY <2>2, <3>1, RequestFits
    <3> HIDE DEF new
    <3>3. servers[m.sid] \in Server /\ OfPeriod(servers[m.sid])
      BY <1>1, <2>3, <3>1
    <3>4. ~Readmitted(servers[m.sid].params, new)
      BY <3>2, <3>3 DEF OfPeriod, Readmitted
    <3>5. servers' = [servers EXCEPT ![m.sid] = r]
      BY <3>1, <3>4
    <3>6. OfPeriod(r)
      BY <3>2, <3>3 DEF Server, OfPeriod
    <3> QED
      BY <1>1, <3>1, <3>5, <3>6
  <2>7. CASE Weighted(m, o)
    <3>1. PICK w \in Weights : servers' = [servers EXCEPT ![m.sid].weight = w]
      BY <2>1, <2>7 DEF Weighted
    <3>2. m.sid \in DOMAIN servers
      BY <2>7 DEF Weighted
    <3>3. OfPeriod([servers[m.sid] EXCEPT !.weight = w])
      <4>1. servers[m.sid] \in Server /\ OfPeriod(servers[m.sid])
        BY <1>1, <2>3, <3>2
      <4> QED
        BY <4>1 DEF Server, OfPeriod
    <3> QED
      BY <1>1, <3>1, <3>2, <3>3
  <2>8. CASE Same(m, o)
    BY <1>1, <2>1, <2>8 DEF Same
  <2> QED
    BY <2>1, <2>4, <2>5, <2>6, <2>7, <2>8 DEF Came
<1> QED
  BY <1>2, <1>3 DEF Kinds, Aside, Jumps, Begins, Opened, NotOpened, Unasked, Returns, Closes,
     StartsOther, Exits, Ends

LEMMA ParamsKeep ==
    ASSUME StateTypes, PlaceInv, ParamsInv, RequestInv, NEW t \in Threads, Kinds(t) \/ Asked(t)
    PROVE  ParamsInv'
<1>1. job' = job
  BY ActiveFacts
<1>2. Given' = Given /\ \A u \in Threads : Prog(u)' = Prog(u)
  BY <1>1 DEF Given, Prog
<1>3. ASSUME NEW u \in Threads
      PROVE  /\ params'[u].Q_min = Given.Q_min /\ params'[u].flags = Given.flags
             /\ params'[u].Q <= Given.P
             /\ ~PassedAt(Prog(u), th'[u].pos, {"period"}) => Param(u)'.P = Given.P
             /\ lib'[u].server_params = NoParams \/ Fits(lib'[u].server_params)
             /\ Active(u)' /\ CreatedAt(Prog(u), th'[u].pos) => Fits(Lib(u)'.server_params)
  BY StructsKeep, PeriodsKeep, KeptFits
<1>4. \A i \in DOMAIN servers' : OfPeriod(servers'[i])
  BY ServersKeep
<1> QED
  BY <1>2, <1>3, <1>4 DEF ParamsInv, Fits, AsGiven, OfPeriod

\* What a thread asks for.
RequestOf(t) ==
    /\ th[t].pc = "ioctl" /\ (th[t].msg.op = "create"
                              \/ (th[t].msg.op = "set_params" /\ th[t].msg.sid # 0)) =>
          Fits(th[t].msg.params)
    /\ th[t].pc = "ioctl" /\ th[t].msg.op = "set_bandwidth" =>
          /\ th[t].msg.params.P = 0 \/ AsGiven(th[t].msg.params)
          /\ CreatedAt(Prog(t), th[t].pos) => AsGiven(th[t].msg.params)
          /\ CreatedAt(Prog(t), th[t].pos) /\ Call(t).arg <= MAX_BW => Fits(th[t].msg.params)
    /\ th[t].pc = "ret" /\ th[t].msg.op = "set_params" /\ th[t].rv = "OK" =>
          th[t].msg.sid # 0

LEMMA AskingFits ==
    ASSUME StateTypes, PlaceInv, ParamsInv, NEW t \in Threads, Active(t), job' = job,
           th[t].pos <= Len(Prog(t)), Asks(t)
    PROVE  RequestOf(t)'
<1>1. InPlace(t) /\ Call(t) \in CallRecord
  BY CallFacts DEF PlaceInv
<1>2. /\ iparams(t).op = Call(t).op /\ iparams(t).sid = sid(t)
      /\ iparams(t).params = IF Call(t).op = "set_bandwidth" THEN qres_set_bandwidth(t)
                             ELSE Param(t)
  BY <1>1, RequestFacts
<1>3. th'[t].pc = "ioctl" /\ th'[t].msg = iparams(t) /\ th'[t].pos = th[t].pos
  BY DEF Asks
<1>4. Given' = Given /\ Prog(t)' = Prog(t) /\ Call(t)' = Call(t)
  BY <1>3 DEF Given, Prog, Call
<1>5. CASE Call(t).op # "set_bandwidth"
  <2>1. Call(t).op = "create" \/ (Call(t).op = "set_params" /\ sid(t) # 0) => Fits(Param(t))
    BY CallParam DEF sid, QRES_SID_NULL
  <2> QED
    BY <1>2, <1>3, <1>4, <1>5, <2>1 DEF RequestOf, Fits, AsGiven
<1>6. CASE Call(t).op = "set_bandwidth"
  <2> DEFINE last == Lib(t).server_params
             Q == bw2Q(Call(t).arg, last.P)
             new == [last EXCEPT !.Q = Q]
  <2>1. last \in Structure /\ th[t].proc \in Threads /\ Call(t).arg \in Nat
    BY <1>1, LibFacts DEF LibRecord, CallRecord
  <2>2. last = NoParams \/ Fits(last)
    BY <2>1, LibFacts DEF ParamsInv
  <2>3. CreatedAt(Prog(t), th[t].pos) => Fits(last)
    BY DEF ParamsInv
  <2>4. iparams(t).params = new
    BY <1>2, <1>6 DEF qres_set_bandwidth
  <2>5. /\ new.P = last.P /\ new.Q_min = last.Q_min /\ new.flags = last.flags
        /\ new.Q = Q
    BY <2>1 DEF Structure
  <2>6. Call(t).arg <= MAX_BW => Q <= last.P
    <3>1. last.P \in Nat
      BY <2>1 DEF Structure
    <3> QED
      BY <2>1, <3>1, BandwidthType
  <2> HIDE DEF new, Q, last
  <2>7. new.P = 0 \/ AsGiven(new)
    BY <2>2, <2>5 DEF NoParams, Fits, AsGiven
  <2>8. CreatedAt(Prog(t), th[t].pos) =>
           AsGiven(new) /\ (Call(t).arg <= MAX_BW => Fits(new))
    BY <2>3, <2>5, <2>6 DEF Fits, AsGiven
  <2> QED
    BY <1>2, <1>3, <1>4, <1>6, <2>4, <2>7, <2>8 DEF RequestOf, Fits, AsGiven
<1> QED
  BY <1>5, <1>6

LEMMA RequestKeeps ==
    ASSUME StateTypes, PlaceInv, ParamsInv, RequestInv, NEW t \in Threads, Kinds(t) \/ Asked(t)
    PROVE  RequestInv'
<1> SUFFICES ASSUME NEW u \in Threads PROVE RequestOf(u)'
  BY DEF RequestInv, RequestOf
<1>1. job' = job /\ Active(t) /\ RequestOf(u)
  BY ActiveFacts DEF RequestInv, RequestOf
<1>2. CASE Stays(u)
  <2>1. Given' = Given /\ Prog(u)' = Prog(u) /\ Call(u)' = Call(u)
    BY <1>1, <1>2 DEF Given, Prog, Call, Stays
  <2> QED
    BY <1>1, <1>2, <2>1 DEF RequestOf, Fits, AsGiven, Stays
<1>3. CASE th'[u].pc \in {"prog", "open", "done"}
  BY <1>3 DEF RequestOf
<1>4. CASE u # t
  <2>1. u = 2 /\ StartsOther(t) => th'[u].pc = "prog"
    BY DEF StartsOther, Thread
  <2> QED
    BY <1>2, <1>3, <1>4, <2>1, OtherFacts DEF Ended
<1>5. CASE u = t /\ Asks(t)
  <2>1. th[t].pos <= Len(Prog(t))
    BY <1>1, <1>5
    DEF Kinds, Asked, Aside, Jumps, Begins, Opened, NotOpened, Unasked, Returns, Closes,
        StartsOther, Exits, Ends, IsOver, GoesOn, Asks, PlaceInv, InPlace
  <2> QED
    BY <1>1, <1>5, <2>1, AskingFits
<1>6. CASE u = t /\ Unasked(t)
  BY <1>6 DEF Unasked, RequestOf
<1>7. CASE u = t /\ Asked(t)
  <2> DEFINE m == Request(t)
  <2>1. PICK o : Came(m, o) /\ th'[t].rv = o.rv
    BY <1>7 DEF Asked
  <2>2. th[t].msg \in Message /\ th'[t].pc = "ret" /\ th'[t].msg = th[t].msg
    BY <1>7, RequestIs DEF Asked
  <2>3. m.op = th[t].msg.op /\ m.sid = th[t].msg.sid
    BY <2>2 DEF Request, Message
  <2>4. o.rv = "OK" /\ m.op = "set_params" => m.sid \in DOMAIN servers
    BY <2>1 DEF Came, New, Freed, Reset, Weighted, Same
  <2>5. m.sid \in DOMAIN servers => m.sid # 0
    BY DEF StateTypes
  <2> QED
    BY <1>7, <2>1, <2>2, <2>3, <2>4, <2>5 DEF RequestOf
<1>8. th'[t].pc \in {"prog", "open", "done"} \/ Asks(t) \/ Unasked(t) \/ Asked(t)
  BY <1>1 DEF Kinds, Aside, Jumps, Begins, Opened, NotOpened, Returns, Closes, StartsOther,
     Exits, Ends, IsOver, GoesOn
<1> QED
  BY <1>3, <1>4, <1>5, <1>6, <1>7, <1>8

-----------------------------------------------------------------------------
(* The servers of the threads and the groups they are in. *)

\* A server is what it was, but for its parameters and weight; one is freed when
\* it is destroyed.
LEMMA ServersGrow ==
    ASSUME StateTypes, PlaceInv, ParamsInv, RequestInv, NEW t \in Threads, Kinds(t) \/ Asked(t),
           NEW i \in DOMAIN servers
    PROVE  /\ i \in DOMAIN servers'
           /\ servers'[i].by = servers[i].by /\ servers'[i].uid = servers[i].uid
           /\ \/ servers'[i].tg = servers[i].tg
              \/ /\ Asked(t) /\ th[t].msg.op = "destroy" /\ i = th[t].msg.sid
                 /\ servers[i].tg = "live" /\ th'[t].rv = "OK" /\ oops' = FALSE
<1>1. CASE servers' = servers
  BY <1>1
<1>2. CASE Asked(t)
  <2> DEFINE m == Request(t)
  <2>1. PICK o : Came(m, o) /\ servers' = o.servers /\ th'[t].rv = o.rv /\ oops' = o.oops
    BY <1>2 DEF Asked
  <2>2. th[t].pc = "ioctl" /\ m \in Message /\ th[t].msg \in Message
    BY <1>2, RequestIs DEF Asked
  <2>3. m.op = th[t].msg.op /\ m.sid = th[t].msg.sid
    BY <2>2 DEF Request, Message
  <2>4. servers \in Seq(Server) /\ servers[i] \in Server
    BY DEF StateTypes
  <2>5. CASE New(m, o)
    <3>1. PICK w \in Weights : servers' = Append(servers, NewServer(m, w))
      BY <2>1, <2>5 DEF New
    <3> QED
      BY <2>4, <3>1
  <2>6. CASE Freed(m, o)
    <3>1. /\ m.sid \in DOMAIN servers /\ m.op = "destroy" /\ o.rv = "OK"
          /\ servers[m.sid].tg = "live" /\ o.oops = FALSE
          /\ servers' = [servers EXCEPT ![m.sid].tg = "freed"]
      BY <2>1, <2>6 DEF Freed
    <3>2. /\ [servers[i] EXCEPT !.tg = "freed"].by = servers[i].by
          /\ [servers[i] EXCEPT !.tg = "freed"].uid = servers[i].uid
      BY <2>4 DEF Server
    <3> QED
      BY <1>2, <2>1, <2>3, <3>1, <3>2
  <2>7. CASE Reset(m, o)
    <3> DEFINE new == Rounded(m.params)
               r == [servers[m.sid] EXCEPT !.params = new]
               q == [r EXCEPT !.tg = "lost"]
    <3>1. /\ m.sid \in DOMAIN servers
          /\ servers' \in {[servers EXCEPT ![m.sid] = r], [servers EXCEPT ![m.sid] = q]}
      <4> DEFINE set == [servers EXCEPT ![m.sid].params = new]
      <4>1. m.sid \in DOMAIN servers /\ servers' \in {set, [set EXCEPT ![m.sid].tg = "lost"]}
        BY <2>1, <2>7 DEF Reset
      <4>2. set = [servers EXCEPT ![m.sid] = r]
        OBVIOUS
      <4>3. [set EXCEPT ![m.sid].tg = "lost"] = [servers EXCEPT ![m.sid] = q]
        <5> HIDE DEF r
        <5> QED
          BY <2>4, <4>1, <4>2
      <4> HIDE DEF set, r, q
      <4> QED
        BY <4>1, <4>2, <4>3
    <3>2. servers[m.sid] \in Server
      BY <2>4, <3>1
    <3>3. /\ r.by = servers[m.sid].by /\ r.uid = servers[m.sid].uid
          /\ r.tg = servers[m.sid].tg
      BY <3>2 DEF Server
    <3>4. q.by = servers[m.sid].by /\ q.uid = servers[m.sid].uid /\ q.tg = "lost"
      BY <3>2 DEF Server
    <3> HIDE DEF r, q
    <3>5. i \in DOMAIN servers' /\ servers'[i] \in {servers[i], IF i = m.sid THEN r ELSE servers[i],
                                                      IF i = m.sid THEN q ELSE servers[i]}
      BY <3>1
    <3>6. servers'[i].tg # "lost"
      BY <3>5, ServersKeep DEF OfPeriod
    <3> QED
      BY <3>3, <3>4, <3>5, <3>6
  <2>8. CASE Weighted(m, o)
    <3>1. PICK w \in Weights : servers' = [servers EXCEPT ![m.sid].weight = w]
      BY <2>1, <2>8 DEF Weighted
    <3>2. m.sid \in DOMAIN servers
      BY <2>8 DEF Weighted
    <3>3. /\ [servers[i] EXCEPT !.weight = w].by = servers[i].by
          /\ [servers[i] EXCEPT !.weight = w].uid = servers[i].uid
          /\ [servers[i] EXCEPT !.weight = w].tg = servers[i].tg
      BY <2>4 DEF Server
    <3> QED
      BY <3>1, <3>2, <3>3
  <2>9. CASE Same(m, o)
    BY <2>1, <2>9 DEF Same
  <2> QED
    BY <2>1, <2>5, <2>6, <2>7, <2>8, <2>9 DEF Came
<1> QED
  BY <1>1, <1>2 DEF Kinds, Aside, Jumps, Begins, Opened, NotOpened, Unasked, Returns, Closes,
     StartsOther, Exits, Ends

\* A server is created: unless a group was refused, it is the caller's.
LEMMA CreatedServer ==
    ASSUME StateTypes, PlaceInv, NEW t \in Threads, Asked(t), "group" \notin happened',
           Creating(t)'
    PROVE  /\ th'[t].val = Len(servers) + 1 /\ th'[t].val \in DOMAIN servers'
           /\ th'[t].val \notin DOMAIN servers /\ th'[t].val # 0
           /\ servers'[th'[t].val].by = th[t].proc /\ servers'[th'[t].val].uid = job.uids[t]
           /\ servers'[th'[t].val].tg = "live"
<1> DEFINE m == Request(t)
<1>1. PICK o : /\ Came(m, o) /\ servers' = o.servers /\ th'[t].rv = o.rv /\ th'[t].val = o.val
               /\ happened' = happened \cup ({o.fault} \ {"none"})
               /\ th'[t].msg = th[t].msg
  BY DEF Asked
<1>2. /\ m.op = Call(t).op /\ m.uid = job.uids[t] /\ m.by = th[t].proc
      /\ m.op = th[t].msg.op
  <2>1. th[t].msg \in Message /\ m.op = Call(t).op /\ m.uid = job.uids[t] /\ m.by = th[t].proc
    BY RequestIs DEF Asked
  <2> QED
    BY <2>1 DEF Request, Message
<1>3. m.op = "create" /\ o.rv = "OK" /\ o.fault # "group"
  BY <1>1, <1>2 DEF Creating
<1>4. New(m, o)
  BY <1>1, <1>3 DEF Came, Freed, Reset, Weighted, Same
<1>5. PICK w \in Weights : servers' = Append(servers, NewServer(m, w))
  BY <1>1, <1>4 DEF New
<1>6. servers \in Seq(Server) /\ Len(servers) \in Nat /\ o.val = Len(servers) + 1
  BY <1>4 DEF StateTypes, New
<1>7. servers'[Len(servers) + 1] = NewServer(m, w) /\ Len(servers) + 1 \in DOMAIN servers'
  BY <1>5, <1>6
<1>8. /\ NewServer(m, w).by = m.by /\ NewServer(m, w).uid = m.uid
      /\ NewServer(m, w).tg = "live"
  BY DEF NewServer
<1> QED
  BY <1>1, <1>2, <1>6, <1>7, <1>8

\* A server is known to be created when the call that creates it returned.
LEMMA CreatesReturns ==
    ASSUME StateTypes, PlaceInv, NEW t \in Threads, Kinds(t) \/ Asked(t), Advances(t),
           Creates(Call(t))
    PROVE  Returns(t) /\ Creating(t)
<1>1. InPlace(t)
  BY DEF PlaceInv
<1>2. Returns(t)
  BY <1>1
  DEF Kinds, Asked, Aside, Jumps, Begins, Asks, Opened, NotOpened, Unasked, Closes,
      StartsOther, Exits, EndsWith, Ends, IsOver, AtCall, Creates, Local, Starts, Advances
<1> QED
  BY <1>1, <1>2 DEF Returns, Creates, Creating, InPlace, InCall

LEMMA PlaceOwn ==
    ASSUME StateTypes, PlaceInv, NEW t \in Threads, Kinds(t) \/ Asked(t)
    PROVE  /\ \/ DestroyedAt(Prog(t), th'[t].pos)
              \/ ~DestroyedAt(Prog(t), th[t].pos)
              \/ Returns(t) /\ Creating(t)
           /\ \/ ~CreatedAt(Prog(t), th'[t].pos)
              \/ CreatedAt(Prog(t), th[t].pos)
              \/ Returns(t) /\ Creating(t)
           /\ Advances(t) /\ Call(t).op = "destroy" => DestroyedAt(Prog(t), th'[t].pos)
<1>1. Goes(t) /\ Prog(t) \in Seq(CallRecord) /\ LoopsOnlyUse(Prog(t)) /\ InPlace(t)
  BY PlaceFacts, JobFacts DEF ProgramFits, PlaceInv
<1>2. CASE th'[t].pos = th[t].pos
  BY <1>1, <1>2 DEF Advances, InPlace
<1>3. CASE th[t].pos \in 1 .. Len(Prog(t)) /\ Advances(t)
  BY <1>1, <1>3, DestroyedStep, CreatedStep, CreatesReturns DEF Call, Advances
<1>4. CASE AtCall(t, "repeat") /\ th'[t].pos = Call(t).arg
  <2>1. th[t].pos \in 1 .. Len(Prog(t)) /\ Call(t) = Prog(t)[th[t].pos] /\ Call(t).op = "repeat"
    BY <1>1, <1>4, CallFacts DEF AtCall
  <2> QED
    BY <1>1, <1>4, <2>1, LoopPlace
<1> QED
  BY <1>1, <1>2, <1>3, <1>4 DEF Goes

\* What a thread knows of its servers.
OwnOf(t) ==
    /\ \A s \in Holds(t) :
          /\ s \in DOMAIN servers
          /\ servers[s].by = th[t].proc /\ servers[s].uid = job.uids[t]
    /\ Creating(t) => th[t].val # 0 /\ servers[th[t].val].tg = "live"
    /\ Active(t) /\ th[t].sid # 0 /\ ~DestroyedAt(Prog(t), th[t].pos)
       /\ ~(th[t].pc = "ret" /\ th[t].msg.op = "destroy") =>
          servers[th[t].sid].tg = "live"
    /\ Active(t) /\ CreatedAt(Prog(t), th[t].pos) => th[t].sid # 0

LEMMA OwnOther ==
    ASSUME StateTypes, PlaceInv, ParamsInv, RequestInv, NEW t \in Threads, Kinds(t) \/ Asked(t),
           NEW u \in Threads \ {t}, OwnOf(u), Holds(t) \cap Holds(u) = {}
    PROVE  OwnOf(u)' /\ Holds(u)' \subseteq Holds(u)
<1>1. job' = job
  BY ActiveFacts
<1>2. ASSUME NEW s \in Holds(u)
      PROVE  /\ s \in DOMAIN servers'
             /\ servers'[s].by = th[u].proc /\ servers'[s].uid = job.uids[u]
             /\ servers'[s].tg = servers[s].tg
  <2>1. s \in DOMAIN servers /\ servers[s].by = th[u].proc /\ servers[s].uid = job.uids[u]
    BY DEF OwnOf
  <2>2. ASSUME Asked(t), s = th[t].msg.sid PROVE FALSE
    <3>1. th[t].msg.sid = sid(t)
      BY <2>2 DEF Asked, PlaceInv, InPlace, InCall
    <3>2. s # 0
      BY DEF Holds
    <3>3. s \in Holds(t)
      BY <2>2, <3>1, <3>2 DEF sid, Holds, QRES_SID_NULL
    <3> QED
      BY <3>3
  <2> QED
    BY <2>1, <2>2, ServersGrow
<1>3. CASE Stays(u)
  <2>1. /\ Prog(u)' = Prog(u) /\ Holds(u)' = Holds(u) /\ Creating(u)' = Creating(u)
        /\ Active(u)' = Active(u)
    BY <1>1, <1>3 DEF Prog, Holds, Creating, Active, Stays
  <2>2. Creating(u) /\ th[u].val # 0 => th[u].val \in Holds(u)
    BY DEF Holds
  <2>3. th[u].sid # 0 => th[u].sid \in Holds(u)
    BY DEF Holds
  <2> QED
    BY <1>1, <1>2, <1>3, <2>1, <2>2, <2>3 DEF OwnOf, Stays
<1>4. CASE Ended(t, u)
  <2>1. ~Creating(u)' /\ ~Active(u)' /\ th'[u].sid = th[u].sid /\ th'[u].proc = th[u].proc
    BY <1>4 DEF Ended, Creating, Active
  <2>2. Holds(u)' \subseteq Holds(u)
    BY <2>1 DEF Holds
  <2> QED
    BY <1>1, <1>2, <2>1, <2>2 DEF OwnOf
<1>5. CASE u = 2 /\ StartsOther(t)
  <2>1. th'[2].pc = "prog" /\ th'[2].pos = 1 /\ th'[2].sid = 0
    BY <1>5 DEF StartsOther, Thread, QRES_SID_NULL
  <2>2. Holds(u)' = {} /\ ~Creating(u)'
    BY <1>5, <2>1 DEF Holds, Creating
  <2>3. ~CreatedAt(Prog(2)', 1)
    BY AtFirst
  <2> QED
    BY <1>5, <2>1, <2>2, <2>3 DEF OwnOf
<1> QED
  BY <1>3, <1>4, <1>5, OtherFacts

LEMMA SelfServers ==
    ASSUME StateTypes, NEW t \in Threads, Kinds(t) \/ Asked(t)
    PROVE  /\ \/ th'[t].sid = th[t].sid
              \/ Returns(t) /\ Creating(t) /\ th'[t].sid = th[t].val
           /\ Creating(t)' => Asked(t) /\ th'[t].sid = th[t].sid
           /\ Returns(t) /\ Creating(t) => th'[t].sid = th[t].val
           /\ ~Creating(t)' => Holds(t)' \subseteq Holds(t)
<1>1. \/ th'[t].sid = th[t].sid
      \/ Returns(t) /\ Creating(t) /\ th'[t].sid = th[t].val
  BY ActiveFacts
  DEF Kinds, Asked, Aside, Jumps, Begins, Opened, NotOpened, Unasked, Returns, Closes,
      StartsOther, Exits, Ends, IsOver, GoesOn, Itself
<1>2. Returns(t) /\ Creating(t) => th'[t].sid = th[t].val
  BY DEF Returns
<1>3. Creating(t)' => Asked(t)
  BY ActiveFacts
  DEF Kinds, Aside, Jumps, Begins, Asks, Opened, NotOpened, Unasked, Returns, Closes,
      StartsOther, Exits, Ends, IsOver, GoesOn, Creating
<1>4. Asked(t) => th'[t].sid = th[t].sid
  BY DEF Asked
<1> QED
  BY <1>1, <1>2, <1>3, <1>4 DEF Holds

LEMMA OwnSelf ==
    ASSUME StateTypes, PlaceInv, ParamsInv, RequestInv, NEW t \in Threads, Kinds(t) \/ Asked(t),
           OwnOf(t), "group" \notin happened'
    PROVE  OwnOf(t)' /\ Holds(t)' \subseteq Holds(t) \cup (DOMAIN servers' \ DOMAIN servers)
<1>1. job' = job /\ Active(t) /\ th'[t].proc = th[t].proc /\ Goes(t)
  BY ActiveFacts, PlaceFacts
<1>2. Prog(t)' = Prog(t)
  BY <1>1 DEF Prog
<1>3. ASSUME NEW s \in Holds(t)
      PROVE  /\ s \in DOMAIN servers'
             /\ servers'[s].by = th[t].proc /\ servers'[s].uid = job.uids[t]
             /\ servers[s].tg = "live" /\ ~(Asked(t) /\ th[t].msg.op = "destroy") =>
                   servers'[s].tg = "live"
  <2>1. s \in DOMAIN servers /\ servers[s].by = th[t].proc /\ servers[s].uid = job.uids[t]
    BY DEF OwnOf
  <2> QED
    BY <2>1, ServersGrow
<1>4. /\ th[t].sid # 0 => th[t].sid \in Holds(t)
      /\ Creating(t) /\ th[t].val # 0 => th[t].val \in Holds(t)
  BY DEF Holds
<1>5. CASE Creating(t)'
  <2>1. Asked(t) /\ th'[t].sid = th[t].sid
    BY <1>5, SelfServers
  <2>2. /\ th'[t].val \in DOMAIN servers' /\ th'[t].val \notin DOMAIN servers /\ th'[t].val # 0
        /\ servers'[th'[t].val].by = th[t].proc /\ servers'[th'[t].val].uid = job.uids[t]
        /\ servers'[th'[t].val].tg = "live"
    BY <1>5, <2>1, CreatedServer
  <2>3. Holds(t)' \subseteq Holds(t) \cup {th'[t].val}
    BY <2>1 DEF Holds
  <2>4. th'[t].pos = th[t].pos /\ th[t].pc = "ioctl" /\ th[t].msg.op = "create"
    BY <1>5, <2>1 DEF Asked, Creating
  <2> QED
    BY <1>1, <1>2, <1>3, <1>4, <2>1, <2>2, <2>3, <2>4 DEF OwnOf
<1>6. CASE ~Creating(t)'
  <2>1. Holds(t)' \subseteq Holds(t)
    BY <1>6, SelfServers
  <2>2. CASE Returns(t) /\ Creating(t)
    <3>1. th'[t].sid = th[t].val /\ th[t].val # 0 /\ servers[th[t].val].tg = "live"
      BY <2>2, SelfServers DEF OwnOf
    <3>2. ~Asked(t)
      BY <2>2 DEF Returns, Asked
    <3>3. servers'[th'[t].sid].tg = "live"
      BY <1>3, <1>4, <2>2, <3>1, <3>2
    <3> QED
      BY <1>1, <1>3, <1>6, <2>1, <3>1, <3>3 DEF OwnOf
  <2>3. CASE ~(Returns(t) /\ Creating(t))
    <3>1. th'[t].sid = th[t].sid
      BY <2>3, SelfServers
    <3>2. CreatedAt(Prog(t), th'[t].pos) => th'[t].sid # 0
      BY <1>1, <2>3, <3>1, PlaceOwn DEF OwnOf
    <3>3. ASSUME Active(t)', th'[t].sid # 0, ~DestroyedAt(Prog(t), th'[t].pos),
                 ~(th'[t].pc = "ret" /\ th'[t].msg.op = "destroy")
          PROVE  servers'[th'[t].sid].tg = "live"
      <4>1. ~DestroyedAt(Prog(t), th[t].pos)
        BY <2>3, <3>3, PlaceOwn
      <4>2. ~(th[t].pc = "ret" /\ th[t].msg.op = "destroy")
        <5> SUFFICES ASSUME th[t].pc = "ret", th[t].msg.op = "destroy" PROVE FALSE
          OBVIOUS
        <5>1. Call(t).op = "destroy"
          BY DEF PlaceInv, InPlace, InCall
        <5>2. Returns(t)
          BY <3>3 DEF Kinds, Asked, Aside, Jumps, Begins, Opened, NotOpened, Unasked, Closes,
             StartsOther, Exits, Ends, IsOver, AtCall, Active
        <5>3. Advances(t)
          BY <5>2 DEF Returns, Advances
        <5> QED
          BY <3>3, <5>1, <5>3, PlaceOwn
      <4>3. servers[th[t].sid].tg = "live"
        BY <1>1, <3>1, <3>3, <4>1, <4>2 DEF OwnOf
      <4>4. ~(Asked(t) /\ th[t].msg.op = "destroy")
        BY <3>3 DEF Asked
      <4> QED
        BY <1>3, <1>4, <3>1, <3>3, <4>3, <4>4
    <3> QED
      BY <1>1, <1>2, <1>3, <1>6, <2>1, <3>2, <3>3 DEF OwnOf
  <2> QED
    BY <2>1, <2>2, <2>3
<1> QED
  BY <1>5, <1>6

\* A thread attaches to or destroys a server of its own that is live.
LEMMA UsedIsLive ==
    ASSUME StateTypes, PlaceInv, NEW t \in Threads, OwnOf(t), th[t].pc = "ioctl",
           th[t].msg.op \in {"attach", "destroy"}, th[t].msg.sid \in DOMAIN servers
    PROVE  servers[th[t].msg.sid].tg = "live"
<1>1. /\ Call(t) = Prog(t)[th[t].pos] /\ th[t].pos \in DOMAIN Prog(t)
      /\ th[t].msg.op = Call(t).op /\ th[t].msg.sid = sid(t)
  BY RequestIs DEF PlaceInv, InPlace, InCall
<1>2. th[t].msg.sid # 0
  BY DEF StateTypes
<1>3. Call(t).sid # "null" /\ th[t].msg.sid = th[t].sid
  BY <1>1, <1>2 DEF sid, QRES_SID_NULL
<1>4. ~DestroyedAt(Prog(t), th[t].pos)
  BY <1>1, <1>3, JobFacts DEF ProgramFits, UsesLiveServers
<1> QED
  BY <1>2, <1>3, <1>4 DEF OwnOf, Active

\* The first is in no group when it starts the other.
LEMMA StartedGroup ==
    ASSUME StateTypes, PlaceInv, GroupInv, StartsOther(1)
    PROVE  th[1].group = 0
<1> SUFFICES ASSUME th[1].group # 0 PROVE FALSE
  OBVIOUS
<1>1. th[2].pc = "none"
  BY DEF StartsOther
<1>2. PassedAt(Prog(1), th[1].pos + 1, {"attach"})
  BY <1>1 DEF GroupInv
<1>3. /\ th[1].pos \in DOMAIN Prog(1) /\ Call(1) = Prog(1)[th[1].pos]
      /\ ~PassedAt(Prog(1), th[1].pos, {"attach"})
      /\ Call(1).op \in {"spawn", "fork", "exec"}
  BY StartedCall, StartedLib
<1>4. Prog(1) \in Seq(CallRecord) /\ th[1].pos \in 1 .. Len(Prog(1))
  BY <1>3, JobFacts DEF Threads
<1>5. PassedAt(Prog(1), th[1].pos, {"attach"})
  BY <1>2, <1>3, <1>4, PassedStep
<1> QED
  BY <1>3, <1>5

LEMMA OopsKeeps ==
    ASSUME StateTypes, PlaceInv, GroupInv, NEW t \in Threads, Kinds(t) \/ Asked(t), OwnOf(t), oops = FALSE
    PROVE  oops' = FALSE
<1>1. CASE oops' = oops
  BY <1>1
<1>2. CASE Asked(t)
  <2>1. PICK o : Came(Request(t), o) /\ oops' = o.oops
    BY <1>2 DEF Asked
  <2>2. /\ Request(t).op = th[t].msg.op /\ Request(t).sid = th[t].msg.sid
        /\ th[t].pc = "ioctl"
    <3>1. th[t].msg \in Message
      BY <1>2, RequestIs DEF Asked
    <3> QED
      BY <1>2, <3>1 DEF Request, Message, Asked
  <2>3. CASE o.oops = TRUE
    <3>1. Same(Request(t), o)
      BY <2>1, <2>3 DEF Came, New, Freed, Reset, Weighted
    <3>2. /\ th[t].msg.op \in {"attach", "destroy"} /\ th[t].msg.sid \in DOMAIN servers
          /\ servers[th[t].msg.sid].tg # "live"
      BY <2>2, <2>3, <3>1 DEF Same
    <3> QED
      BY <2>2, <3>2, UsedIsLive
  <2> QED
    BY <2>1, <2>3 DEF Came
<1>3. CASE StartsOther(t)
  <2>1. t = 1
    BY <1>3 DEF StartsOther
  <2>2. th[1].group = 0
    BY <1>3, <2>1, StartedGroup
  <2> QED
    BY <1>3, <2>1, <2>2 DEF StartsOther
<1> QED
  BY <1>1, <1>2, <1>3 DEF Kinds, Aside, Jumps, Begins, Opened, NotOpened, Unasked, Returns,
     Closes, Exits, Ends

LEMMA OwnKeeps ==
    ASSUME StateTypes, PlaceInv, ParamsInv, RequestInv, OwnInv, GroupInv, NEW t \in Threads,
           Kinds(t) \/ Asked(t)
    PROVE  OwnInv'
<1> SUFFICES ASSUME "group" \notin happened'
             PROVE  /\ oops' = FALSE
                    /\ \A u \in Threads : OwnOf(u)'
                    /\ Holds(1)' \cap Holds(2)' = {}
  BY DEF OwnInv, OwnOf
<1>1. "group" \notin happened
  BY HappenedFacts
<1>2. oops = FALSE /\ (\A u \in Threads : OwnOf(u)) /\ Holds(1) \cap Holds(2) = {}
  BY <1>1 DEF OwnInv, OwnOf, StateTypes
<1>3. oops' = FALSE
  BY <1>2, OopsKeeps
<1>4. OwnOf(t)' /\ Holds(t)' \subseteq Holds(t) \cup (DOMAIN servers' \ DOMAIN servers)
  BY <1>2, OwnSelf
<1>5. ASSUME NEW u \in Threads \ {t}
      PROVE  OwnOf(u)' /\ Holds(u)' \subseteq Holds(u) /\ Holds(t)' \cap Holds(u)' = {}
  <2>1. Holds(t) \cap Holds(u) = {}
    BY <1>2 DEF Threads
  <2>2. OwnOf(u)' /\ Holds(u)' \subseteq Holds(u)
    BY <1>2, <2>1, OwnOther
  <2>3. Holds(u) \subseteq DOMAIN servers
    BY <1>2 DEF OwnOf
  <2> QED
    BY <1>4, <2>1, <2>2, <2>3
<1>6. Holds(1)' \cap Holds(2)' = {}
  BY <1>5 DEF Threads
<1> QED
  BY <1>3, <1>4, <1>5, <1>6

\* The group of a thread after a step.
LEMMA GroupSteps ==
    ASSUME StateTypes, PlaceInv, NEW t \in Threads, Kinds(t) \/ Asked(t), NEW u \in Threads
    PROVE  \/ th'[u].group = 0
           \/ /\ th'[u].group = th[u].group /\ ~(u = 2 /\ StartsOther(t))
              /\ \/ ~Asked(t) \/ th[t].msg.op # "destroy" \/ th[t].msg.sid # th[u].group
                 \/ th[u].group \notin DOMAIN servers \/ servers[th[u].group].tg # "live"
                 \/ th'[t].rv # "OK" \/ oops' = TRUE
           \/ /\ u = t /\ Asked(t) /\ th[t].msg.op = "attach"
              /\ th[t].msg.sid \in DOMAIN servers /\ th[t].msg.sid = th[t].sid
              /\ th'[t].group = th[t].msg.sid
              /\ oops' = FALSE
           \/ u = 2 /\ StartsOther(t) /\ th'[2].group = th[1].group
<1>1. CASE Asked(t)
  <2>1. PICK o : /\ Came(Request(t), o) /\ oops' = o.oops /\ th'[t].rv = o.rv
                 /\ th'[u].group = IF o.rv = "OK" /\ o.oops = FALSE THEN GroupAfter(t, u)
                                   ELSE th[u].group
    BY <1>1 DEF Asked
  <2>2. /\ Request(t).op = th[t].msg.op /\ Request(t).sid = th[t].msg.sid
        /\ th[t].pc = "ioctl" /\ th[t].msg.op = Call(t).op /\ th[t].msg.sid = sid(t)
    <3>1. th[t].msg \in Message
      BY <1>1, RequestIs DEF Asked
    <3> QED
      BY <1>1, <3>1 DEF Request, Message, Asked, PlaceInv, InPlace, InCall
  <2>3. ~StartsOther(t)
    BY <1>1 DEF Asked, StartsOther
  <2>4. CASE o.rv = "OK" /\ o.oops = FALSE
    <3>1. CASE th[t].msg.op = "attach" /\ u = t
      <4>1. Same(Request(t), o)
        BY <2>1, <2>2, <3>1 DEF Came, New, Freed, Reset, Weighted
      <4>2. th[t].msg.sid \in DOMAIN servers
        BY <2>2, <2>4, <3>1, <4>1 DEF Same
      <4>3. th[t].msg.sid # 0
        BY <4>2 DEF StateTypes
      <4>4. th[t].msg.sid = th[t].sid
        BY <2>2, <4>3 DEF sid, QRES_SID_NULL
      <4>5. th'[u].group = th[t].msg.sid
        BY <2>1, <2>4, <3>1 DEF GroupAfter
      <4> QED
        BY <1>1, <2>1, <2>4, <3>1, <4>2, <4>4, <4>5
    <3>2. CASE th[t].msg.op = "detach" /\ u = t
      <4>1. th'[u].group = 0
        BY <2>1, <2>4, <3>2 DEF GroupAfter
      <4> QED
        BY <4>1
    <3>3. CASE /\ th[t].msg.op = "destroy" /\ th[u].group = th[t].msg.sid
               /\ servers[th[t].msg.sid].tg = "live"
      <4>1. th'[u].group = 0
        BY <2>1, <2>4, <3>3 DEF GroupAfter
      <4> QED
        BY <4>1
    <3>4. CASE ~(/\ th[t].msg.op = "destroy" /\ th[u].group = th[t].msg.sid
                 /\ servers[th[t].msg.sid].tg = "live")
               /\ ~(th[t].msg.op \in {"attach", "detach"} /\ u = t)
      <4>1. th'[u].group = th[u].group
        BY <2>1, <2>4, <3>4 DEF GroupAfter
      <4> QED
        BY <2>3, <3>4, <4>1
    <3> QED
      BY <3>1, <3>2, <3>3, <3>4
  <2>5. CASE ~(o.rv = "OK" /\ o.oops = FALSE)
    BY <2>1, <2>3, <2>5 DEF Came
  <2> QED
    BY <2>4, <2>5
<1>2. CASE StartsOther(t)
  <2>1. t = 1 /\ ~Asked(t) /\ th'[2].group = th[1].group /\ th'[1].group = th[1].group
    BY <1>2 DEF StartsOther, Asked, Itself, Thread
  <2> QED
    BY <1>2, <2>1 DEF Threads
<1>3. CASE Kinds(t) /\ ~StartsOther(t)
  <2>1. ~Asked(t)
    BY <1>3 DEF Kinds, Asked, Aside, Jumps, Begins, Opened, NotOpened, Unasked, Returns, Closes,
       Exits, EndsWith, Ends, AtCall, GoesOn, Asks, IsOver, Active
  <2>2. th'[u].group = 0 \/ th'[u].group = th[u].group
    BY <1>3 DEF Kinds, Aside, Jumps, Begins, Opened, NotOpened, Unasked, Returns, Closes,
       Exits, Ends, GoesOn, IsOver, Itself, Others
  <2> QED
    BY <1>3, <2>1, <2>2
<1> QED
  BY <1>1, <1>2, <1>3

\* There are at least as many servers.
LEMMA GroupsGrow ==
    ASSUME StateTypes, PlaceInv, ParamsInv, RequestInv, NEW t \in Threads, Kinds(t) \/ Asked(t),
           StateTypes'
    PROVE  0 .. Len(servers) \subseteq 0 .. Len(servers)'
<1>1. servers \in Seq(Server) /\ servers' \in Seq(Server)'
  BY DEF StateTypes
<1>2. DOMAIN servers \subseteq DOMAIN servers'
  BY ServersGrow
<1>3. DOMAIN servers = 1 .. Len(servers) /\ DOMAIN servers' = 1 .. Len(servers')
  BY <1>1
<1> QED
  BY <1>1, <1>2, <1>3

LEMMA GroupWithin ==
    ASSUME StateTypes, PlaceInv, ParamsInv, RequestInv, GroupInv, NEW t \in Threads,
           Kinds(t) \/ Asked(t), StateTypes', NEW u \in Threads
    PROVE  th'[u].group \in 0 .. Len(servers)'
<1>1. 0 .. Len(servers) \subseteq 0 .. Len(servers)'
  BY GroupsGrow
<1>2. \A v \in Threads : th[v].group \in 0 .. Len(servers)
  BY DEF GroupInv
<1>3. servers \in Seq(Server)
  BY DEF StateTypes
<1>4. \/ th'[u].group = 0
      \/ th'[u].group = th[u].group
      \/ th'[u].group \in DOMAIN servers
      \/ th'[u].group = th[1].group
  BY GroupSteps
<1>5. 0 \in 0 .. Len(servers) /\ DOMAIN servers \subseteq 0 .. Len(servers)
  BY <1>3
<1> QED
  BY <1>1, <1>2, <1>4, <1>5 DEF Threads

\* The first thread is in a group, before it started the second, only when it
\* attached.
LEMMA FirstGroup ==
    ASSUME StateTypes, PlaceInv, GroupInv, NEW t \in Threads, Kinds(t) \/ Asked(t),
           th'[2].pc = "none", th'[1].group # 0
    PROVE  PassedAt(Prog(1), th'[1].pos + 1, {"attach"})
<1>1. th[2].pc = "none" /\ t = 1
  <2>1. th[2].pc = "none"
    BY SecondFacts
  <2> QED
    BY <2>1, NoneFacts
<1>2. Goes(1) /\ Prog(1) \in Seq(CallRecord) /\ LoopsOnlyUse(Prog(1)) /\ InPlace(1)
  BY <1>1, PlaceFacts, JobFacts DEF ProgramFits, PlaceInv
<1>3. th[1].pos \in 1 .. Len(Prog(1)) + 1
  BY <1>2 DEF InPlace
<1>4. th'[1].group = th[1].group \/ (Asked(1) /\ th[1].msg.op = "attach")
  BY <1>1, GroupSteps
<1>5. PassedAt(Prog(1), th[1].pos + 1, {"attach"})
  <2>1. CASE th'[1].group = th[1].group
    BY <1>1, <2>1 DEF GroupInv
  <2>2. CASE Asked(1) /\ th[1].msg.op = "attach"
    <3>1. th[1].pos <= Len(Prog(1)) /\ Prog(1)[th[1].pos].op = "attach"
      BY <1>2, <2>2 DEF Asked, InPlace, InCall, Call
    <3> QED
      BY <1>2, <1>3, <3>1 DEF PassedAt
  <2> QED
    BY <1>4, <2>1, <2>2
<1>6. CASE th'[1].pos = th[1].pos
  BY <1>5, <1>6
<1>7. CASE Advances(1)
  <2>1. th'[1].pos = th[1].pos + 1
    BY <1>7 DEF Advances
  <2> QED
    BY <1>3, <1>5, <2>1 DEF PassedAt
<1>8. CASE AtCall(1, "repeat") /\ th'[1].pos = Call(1).arg
  <2>1. th[1].pos \in 1 .. Len(Prog(1)) /\ Call(1) = Prog(1)[th[1].pos] /\ Call(1).op = "repeat"
    BY <1>1, <1>2, <1>8, CallFacts DEF AtCall
  <2>2. PassedAt(Prog(1), th[1].pos, {"attach"})
    BY <1>2, <1>5, <2>1, PassedStep
  <2>3. Call(1).arg \in Nat /\ PassedAt(Prog(1), Call(1).arg, {"attach"})
    BY <1>2, <2>1, <2>2, LoopPlace
  <2> QED
    BY <1>8, <2>3 DEF PassedAt
<1> QED
  BY <1>2, <1>6, <1>7, <1>8 DEF Goes

\* A thread attached to a server of its own.
LEMMA AttachedOwn ==
    ASSUME StateTypes, PlaceInv, ParamsInv, RequestInv, NEW t \in Threads, Asked(t), OwnOf(t),
           th[t].msg.op = "attach", th[t].msg.sid \in DOMAIN servers, th[t].msg.sid = th[t].sid
    PROVE  /\ servers'[th[t].sid].by = th'[t].proc
           /\ servers'[th[t].sid].tg = "live"
<1>1. th[t].sid \in Holds(t)
  BY DEF StateTypes, Holds
<1>2. servers[th[t].sid].by = th[t].proc /\ servers[th[t].sid].tg = "live"
  BY <1>1, UsedIsLive DEF OwnOf, Asked
<1>3. th'[t].proc = th[t].proc
  BY DEF Asked
<1>4. /\ servers'[th[t].sid].by = servers[th[t].sid].by
      /\ servers'[th[t].sid].tg = servers[th[t].sid].tg
  BY ServersGrow
<1> QED
  BY <1>2, <1>3, <1>4

LEMMA GroupKeeps ==
    ASSUME StateTypes, PlaceInv, ParamsInv, RequestInv, OwnInv, GroupInv, NEW t \in Threads,
           Kinds(t) \/ Asked(t), StateTypes'
    PROVE  GroupInv'
<1>1. job' = job
  BY ActiveFacts
<1>2. \A u \in Threads : th'[u].group \in 0 .. Len(servers)'
  BY GroupWithin
<1>3. Prog(1)' = Prog(1)
  BY <1>1 DEF Prog
<1>4. th'[2].pc = "none" /\ th'[1].group # 0 => PassedAt(Prog(1), th'[1].pos + 1, {"attach"})
  BY FirstGroup
<1>5. ASSUME "group" \notin happened', NEW u \in Threads, th'[u].group # 0
      PROVE  servers'[th'[u].group].by = th'[u].proc /\ servers'[th'[u].group].tg = "live"
  <2>1. "group" \notin happened
    BY <1>5, HappenedFacts
  <2>2. \A v \in Threads : th[v].group # 0 =>
           /\ th[v].group \in DOMAIN servers
           /\ servers[th[v].group].by = th[v].proc /\ servers[th[v].group].tg = "live"
    BY <2>1 DEF GroupInv, InOwnServer, StateTypes
  <2>3. OwnOf(t)
    BY <2>1 DEF OwnInv, OwnOf
  <2>4. CASE /\ th'[u].group = th[u].group /\ ~(u = 2 /\ StartsOther(t))
             /\ \/ ~Asked(t) \/ th[t].msg.op # "destroy" \/ th[t].msg.sid # th[u].group
                \/ th[u].group \notin DOMAIN servers \/ servers[th[u].group].tg # "live"
                \/ th'[t].rv # "OK" \/ oops' = TRUE
    <3>1. th'[u].proc = th[u].proc
      <4>1. CASE u = t
        BY <4>1, PlaceFacts
      <4>2. CASE u # t
        BY <2>4, <4>2, OtherFacts DEF Stays, Ended
      <4> QED
        BY <4>1, <4>2
    <3>2. /\ th[u].group \in DOMAIN servers
          /\ servers[th[u].group].by = th[u].proc /\ servers[th[u].group].tg = "live"
      BY <1>5, <2>2, <2>4
    <3> QED
      BY <2>4, <3>1, <3>2, ServersGrow
  <2>5. CASE /\ u = t /\ Asked(t) /\ th[t].msg.op = "attach"
             /\ th[t].msg.sid \in DOMAIN servers /\ th[t].msg.sid = th[t].sid
             /\ th'[t].group = th[t].msg.sid
    BY <2>3, <2>5, AttachedOwn
  <2>6. CASE u = 2 /\ StartsOther(t) /\ th'[2].group = th[1].group
    <3>1. t = 1 /\ th[1].group # 0
      BY <1>5, <2>6 DEF StartsOther
    <3> QED
      BY <2>6, <3>1, StartedGroup
  <2> QED
    BY <1>5, <2>4, <2>5, <2>6, GroupSteps
<1>6. InOwnServer'
  BY <1>5 DEF InOwnServer
<1> QED
  BY <1>2, <1>3, <1>4, <1>6 DEF GroupInv

-----------------------------------------------------------------------------
(* Why calls fail. *)

\* Parameters that fit are accepted.
LEMMA FitsAccepted ==
    ASSUME StateTypes, NEW p, Fits(p) PROVE Accepted(p) /\ p.flags = Given.flags
  BY GivenFacts DEF Fits, AsGiven, Accepted

\* A call whose result is checked is one that the device has no reason to fail.
LEMMA AskedFits ==
    ASSUME StateTypes, PlaceInv, ParamsInv, RequestInv, OwnInv, "group" \notin happened,
           NEW t \in Threads, th[t].pc = "ioctl", Call(t).checked, ~LeavesNone(Call(t))
    PROVE  /\ ~MayFail(Request(t))
           /\ Request(t).op # "get_sid"
           /\ Request(t).op # "create" => Request(t).sid \in DOMAIN servers
<1> DEFINE m == Request(t)
<1>1. /\ Call(t) \in CallRecord /\ Call(t).op \notin Local
      /\ Call(t) = Prog(t)[th[t].pos] /\ th[t].pos \in DOMAIN Prog(t)
      /\ m.op = Call(t).op /\ m.sid = sid(t)
      /\ m.weight = Call(t).arg /\ m.params = th[t].msg.params
      /\ m.task = (IF Call(t).sid = "other" THEN "other" ELSE "self")
      /\ m.uid = job.uids[t]
  BY RequestIs
<1>2. m.op = th[t].msg.op /\ m.sid = th[t].msg.sid
  BY <1>1 DEF PlaceInv, InPlace, InCall
<1> HIDE DEF m
<1>3. CASE m.op = "create"
  <2>1. Fits(m.params)
    BY <1>1, <1>2, <1>3 DEF RequestInv
  <2>2. Accepted(m.params)
    BY <2>1, FitsAccepted
  <2> QED
    BY <1>3, <2>2 DEF MayFail, m
<1>4. CASE m.op # "create"
  <2>1. /\ Call(t).sid = "mine" /\ CreatedAt(Prog(t), th[t].pos)
        /\ m.op \notin {"get_sid", "get_weight"}
        /\ m.op = "set_weight" => Call(t).arg # 0
        /\ m.op = "set_bandwidth" => Call(t).arg <= MAX_BW
    BY <1>1, <1>4, JobFacts DEF ProgramFits, ChecksWhatSucceeds
  <2>2. OwnOf(t) /\ Active(t)
    BY DEF OwnInv, OwnOf, Active
  <2>3. th[t].sid # 0 /\ m.sid = th[t].sid
    BY <1>1, <2>1, <2>2 DEF OwnOf, sid
  <2>4. m.sid \in Holds(t)
    BY <2>3 DEF Holds
  <2>5. m.sid \in DOMAIN servers /\ servers[m.sid].uid = m.uid
    BY <1>1, <2>2, <2>4 DEF OwnOf
  <2>6. Authorized(m, servers)
    BY <2>5 DEF Authorized
  <2>7. m.op = "set_params" => Fits(m.params)
    BY <1>1, <1>2, <2>3 DEF RequestInv
  <2>8. m.op = "set_bandwidth" => Fits(m.params)
    BY <1>1, <1>2, <2>1 DEF RequestInv
  <2>9. m.op \in {"set_params", "set_bandwidth"} =>
           Accepted(m.params) /\ m.params.flags = servers[m.sid].params.flags
    BY <2>5, <2>7, <2>8, FitsAccepted DEF ParamsInv
  <2>10. m.task = "self"
    BY <1>1, <2>1
  <2> QED
    BY <1>1, <1>4, <2>1, <2>5, <2>6, <2>9, <2>10 DEF MayFail, m
<1> QED
  BY <1>3, <1>4

LEMMA AnswerExplained ==
    ASSUME StateTypes, PlaceInv, ParamsInv, RequestInv, OwnInv, NEW t \in Threads, Asked(t),
           Call(t).checked, ~LeavesNone(Call(t)), th'[t].rv # "OK"
    PROVE  happened' # {} /\ (th'[t].rv # "NOT_FOUND" \/ "group" \in happened')
<1>1. CASE "group" \in happened
  BY <1>1, HappenedFacts
<1>2. CASE "group" \notin happened
  <2>1. PICK o : /\ Came(Request(t), o) /\ th'[t].rv = o.rv
                 /\ happened' = happened \cup ({o.fault} \ {"none"})
    BY DEF Asked
  <2>2. /\ ~MayFail(Request(t)) /\ Request(t).op # "get_sid"
        /\ Request(t).op # "create" => Request(t).sid \in DOMAIN servers
    BY <1>2, AskedFits DEF Asked
  <2>3. Same(Request(t), o)
    BY <2>1 DEF Came, New, Freed, Reset, Weighted
  <2>4. o.fault # "none" /\ o.rv # "NOT_FOUND"
    BY <2>1, <2>2, <2>3 DEF Same
  <2> QED
    BY <2>1, <2>4
<1> QED
  BY <1>1, <1>2

\* A program that leaves no server runs alone.
LEMMA NoneLeft ==
    ASSUME StateTypes, PlaceInv, th[2].pc # "none", NEW t \in Threads,
           th[t].pos <= Len(Prog(t)), LeavesNone(Call(t)), Call(t).checked
    PROVE  FALSE
<1>1. Call(t) = Prog(t)[th[t].pos] /\ th[t].pos \in DOMAIN Prog(t)
  BY CallFacts, JobFacts DEF PlaceInv
<1>2. \E i \in DOMAIN Prog(1) : Prog(1)[i].op \in Starts
  <2>1. PICK n \in 1 .. th[1].pos - 1 : Prog(1)[n].op \in Starts
    BY DEF PlaceInv, SecondInv
  <2>2. Prog(1) \in Seq(CallRecord) /\ th[1].pos \in 1 .. Len(Prog(1)) + 1
    BY JobFacts DEF PlaceInv, InPlace, Threads
  <2> QED
    BY <2>1, <2>2
<1>3. FailsAlone(Prog(1), Prog(2))
  BY JobFacts DEF JobFits, Prog
<1> QED
  BY <1>1, <1>2, <1>3 DEF FailsAlone, Threads

\* What a process ends with.
LEMMA EndExplained ==
    ASSUME StateTypes, PlaceInv, DeviceInv, FailInv, NEW t \in Threads, Active(t),
           NEW rv, EndsWith(t, rv)
    PROVE  \/ rv = "OK"
           \/ th[t].pos <= Len(Prog(t)) /\ LeavesNone(Call(t)) /\ Call(t).checked
           \/ happened' # {} /\ (rv # "NOT_FOUND" \/ "group" \in happened')
<1>1. CASE th[t].pc = "open" /\ rv = "MISSING_COMPONENT" /\ happened' = happened \cup {"device"}
  BY <1>1
<1>2. CASE th[t].pc = "ret" /\ Call(t).checked /\ rv = th[t].rv /\ happened' = happened
  BY <1>2 DEF FailInv, Explained
<1>3. CASE /\ AtCall(t, "cleanup") /\ ~Lib(t).fd /\ Call(t).checked
           /\ rv = "INCONSISTENT_STATE" /\ happened' = happened
  <2>1. Call(t) = Prog(t)[th[t].pos] /\ th[t].pos \in DOMAIN Prog(t) /\ Call(t).op = "cleanup"
    BY <1>3, CallFacts, JobFacts DEF PlaceInv, AtCall
  <2>2. OpenAt(Prog(t), th[t].pos)
    BY <1>3, <2>1, JobFacts DEF ProgramFits, OpensInTurn
  <2>3. "device" \in happened
    BY <1>3, <2>2 DEF DeviceInv
  <2> QED
    BY <1>3, <2>3
<1>4. CASE /\ th[2].pc = "done" /\ th[2].rv # "OK"
           /\ rv = "GENERIC" /\ happened' = happened
  <2>1. 2 \in Threads /\ th[2].pc # "none"
    BY <1>4 DEF Threads
  <2>2. Explained(2)
    BY <1>4, <2>1 DEF FailInv
  <2>3. happened # {}
    BY <1>4, <2>1, <2>2, NoneLeft DEF Explained
  <2> QED
    BY <1>4, <2>3
<1> QED
  BY <1>1, <1>2, <1>3, <1>4 DEF EndsWith

\* What is explained stays so.
LEMMA ExplainedStays ==
    ASSUME job' = job, happened \subseteq happened', NEW u \in Threads, Explained(u),
           th'[u].pos = th[u].pos, th'[u].rv = th[u].rv
    PROVE  Explained(u)'
<1>1. Prog(u)' = Prog(u) /\ Call(u)' = Call(u)
  BY DEF Prog, Call
<1> QED
  BY <1>1 DEF Explained

LEMMA FailSelf ==
    ASSUME StateTypes, PlaceInv, DeviceInv, ParamsInv, RequestInv, OwnInv, FailInv,
           NEW t \in Threads, Kinds(t) \/ Asked(t),
           th'[t].pc = "done" \/ (th'[t].pc = "ret" /\ Call(t)'.checked)
    PROVE  Explained(t)'
<1>1. job' = job /\ Active(t)
  BY ActiveFacts
<1>2. CASE Ends(t)
  BY <1>2 DEF Ends, IsOver, Explained
<1>3. CASE Exits(t)
  <2>1. PICK rv : EndsWith(t, rv) /\ IsOver(t, rv)
    BY <1>1, <1>3 DEF Exits
  <2>2. th'[t].rv = rv /\ th'[t].pos = th[t].pos
    BY <2>1 DEF IsOver
  <2>3. Prog(t)' = Prog(t) /\ Call(t)' = Call(t)
    BY <1>1, <2>2 DEF Prog, Call
  <2> QED
    BY <1>1, <2>1, <2>2, <2>3, EndExplained DEF Explained
<1>4. CASE Unasked(t)
  <2>1. th'[t].rv = "GENERIC" /\ happened' = happened
    BY <1>4 DEF Unasked
  <2>2. "device" \in happened
    BY <1>4 DEF Unasked, DeviceInv, InCall
  <2> QED
    BY <2>1, <2>2 DEF Explained
<1>5. CASE Asked(t)
  <2>1. th'[t].pos = th[t].pos /\ th'[t].pc = "ret" /\ th[t].pc = "ioctl"
    BY <1>5 DEF Asked
  <2>2. Prog(t)' = Prog(t) /\ Call(t)' = Call(t) /\ th[t].pos <= Len(Prog(t))
    BY <1>1, <2>1 DEF Prog, Call, PlaceInv, InPlace
  <2>3. Call(t).checked
    BY <2>1, <2>2
  <2>4. \/ th'[t].rv = "OK"
        \/ LeavesNone(Call(t))
        \/ happened' # {} /\ (th'[t].rv # "NOT_FOUND" \/ "group" \in happened')
    BY <1>5, <2>3, AnswerExplained
  <2> QED
    BY <2>1, <2>2, <2>3, <2>4 DEF Explained
<1>6. Ends(t) \/ Exits(t) \/ Unasked(t) \/ Asked(t)
  BY DEF Kinds, Aside, Jumps, Begins, Asks, Opened, NotOpened, Returns, Closes, StartsOther,
     GoesOn
<1> QED
  BY <1>2, <1>3, <1>4, <1>5, <1>6

LEMMA FailOther ==
    ASSUME StateTypes, PlaceInv, DeviceInv, FailInv, NEW t \in Threads, Kinds(t) \/ Asked(t),
           NEW u \in Threads \ {t},
           th'[u].pc = "done" \/ (th'[u].pc = "ret" /\ Call(u)'.checked)
    PROVE  Explained(u)'
<1>1. job' = job /\ Active(t) /\ happened \subseteq happened'
  BY ActiveFacts, HappenedFacts
<1>2. CASE Stays(u)
  <2>1. Call(u)' = Call(u)
    BY <1>1, <1>2 DEF Prog, Call, Stays
  <2>2. Explained(u)
    BY <1>2, <2>1 DEF FailInv, Stays
  <2> QED
    BY <1>1, <1>2, <2>2, ExplainedStays DEF Stays
<1>3. CASE Ended(t, u)
  <2>1. PICK rv : EndsWith(t, rv) /\ IsOver(u, rv)
    BY <1>3 DEF Ended, Exits
  <2>2. th[2].pc # "none"
    BY <1>1, <1>3 DEF Ended, Active, Threads
  <2>3. th'[u].rv = rv
    BY <2>1 DEF IsOver
  <2> QED
    BY <1>1, <2>1, <2>2, <2>3, EndExplained, NoneLeft DEF Explained
<1>4. CASE u = 2 /\ StartsOther(t)
  <2>1. th'[u].pc = "prog"
    BY <1>4 DEF StartsOther, Thread
  <2> QED
    BY <2>1
<1> QED
  BY <1>2, <1>3, <1>4, OtherFacts

LEMMA FailKeeps ==
    ASSUME StateTypes, PlaceInv, DeviceInv, ParamsInv, RequestInv, OwnInv, FailInv,
           NEW t \in Threads, Kinds(t) \/ Asked(t)
    PROVE  FailInv'
  BY FailSelf, FailOther DEF FailInv

-----------------------------------------------------------------------------
(* The invariant is inductive. *)

LEMMA InitTypes ==
    ASSUME Init
    PROVE  StateTypes
<1>1. job \in Jobs /\ JobFits(job)
  BY JobsAssumption DEF Init
<1>2. params \in [Threads -> Structure]
  BY <1>1 DEF Init, JobFits, Threads
<1>3. Closed \in LibRecord
  BY DEF Closed, LibRecord, NoParams, Structure
<1>4. \A pc \in {"prog", "none"}, p \in Threads : Thread(pc, p) \in ThreadRecord
  <2> SUFFICES ASSUME NEW pc \in {"prog", "none"}, NEW p \in Threads
               PROVE  Thread(pc, p) \in ThreadRecord
    OBVIOUS
  <2>1. "OK" \in Results /\ 0 \in Values /\ 0 \in {QRES_SID_NULL} \cup Message
    BY DEF Results, Values, QRES_SID_NULL
  <2>2. QRES_SID_NULL = 0
    BY DEF QRES_SID_NULL
  <2> QED
    BY <2>1, <2>2 DEF Thread, ThreadRecord
<1>5. th \in [Threads -> ThreadRecord]
  BY <1>4 DEF Init, Threads
<1>6. servers \in Seq(Server)
  BY DEF Init
<1> QED
  BY <1>1, <1>2, <1>3, <1>5, <1>6 DEF Init, StateTypes

LEMMA InitPlaces ==
    ASSUME Init
    PROVE  PlaceInv /\ FileInv /\ DeviceInv
<1>1. StateTypes
  BY InitTypes
<1>2. th[1] = Thread("prog", 1) /\ th[2] = Thread("none", 2) /\ lib[1] = Closed /\ lib[2] = Closed
  BY DEF Init, Threads
<1>3. /\ th[1].pc = "prog" /\ th[1].proc = 1 /\ th[1].pos = 1
      /\ th[2].pc = "none" /\ th[2].proc = 2 /\ th[2].pos = 1
      /\ \A p \in Threads : lib[p].fd = FALSE /\ lib[p].open = 0
  BY <1>2 DEF Thread, Closed, Threads
<1>4. \A t \in Threads : Len(Prog(t)) \in Nat
  BY <1>1, JobFacts
<1>5. \A t \in Threads : InPlace(t)
  BY <1>3, <1>4 DEF InPlace, InCall, Creating, Threads
<1>6. SecondInv
  BY <1>2, <1>3, AtFirst DEF SecondInv
<1>7. ~OpenAt(Prog(1), th[1].pos) /\ ~OpenAt(Prog(2), th[2].pos)
      /\ ~SurelyOpenAt(Prog(1), th[1].pos)
  BY <1>3, AtFirst
<1>8. \A t \in Threads : Lib(t).fd = FALSE
  BY <1>3 DEF Lib, Threads
<1>9. FileInv
  BY <1>3, <1>7, <1>8 DEF FileInv, OneFile, InCall, Active, Threads
<1>10. DeviceInv
  BY <1>3, <1>7 DEF DeviceInv, InCall, Active, Threads
<1> QED
  BY <1>5, <1>6, <1>9, <1>10 DEF PlaceInv

LEMMA InitServers ==
    ASSUME Init
    PROVE  ParamsInv /\ RequestInv /\ OwnInv /\ GroupInv /\ FailInv
<1>1. StateTypes
  BY InitTypes
<1>2. servers = <<>> /\ DOMAIN servers = {} /\ oops = FALSE /\ happened = {}
  BY DEF Init
<1>3. \A t \in Threads :
         /\ th[t].pc \in {"prog", "none"} /\ th[t].pos = 1 /\ th[t].sid = 0 /\ th[t].group = 0
         /\ lib[t].server_params = NoParams
  BY DEF Init, Thread, Closed, QRES_SID_NULL, Threads
<1>4. \A t \in Threads : ~CreatedAt(Prog(t), th[t].pos)
  BY <1>3, AtFirst
<1>5. ParamsInv
  <2>1. params = job.program.structs /\ OnePeriod(job.program)
    BY <1>1, GivenFacts DEF Init
  <2>2. \A t \in Threads :
           /\ params[t].P = Given.P /\ params[t].Q <= Given.P
           /\ params[t].Q_min = Given.Q_min /\ params[t].flags = Given.flags
    BY <2>1 DEF OnePeriod, Given, Threads
  <2>3. \A t \in Threads : Param(t).P = Given.P
    BY <1>1, <2>2, JobFacts DEF Param
  <2> QED
    BY <1>2, <1>3, <1>4, <2>2, <2>3 DEF ParamsInv
<1>6. RequestInv /\ FailInv
  BY <1>3 DEF RequestInv, FailInv
<1>7. \A t \in Threads : Holds(t) = {} /\ ~Creating(t)
  BY <1>3 DEF Holds, Creating
<1>8. OwnInv
  BY <1>2, <1>3, <1>4, <1>7 DEF OwnInv, Threads
<1>9. GroupInv
  BY <1>2, <1>3 DEF GroupInv, InOwnServer, Threads
<1> QED
  BY <1>5, <1>6, <1>8, <1>9

LEMMA InitInv == Init => LibInv
  BY InitTypes, InitPlaces, InitServers DEF LibInv

\* A step of time, or none at all.
LEMMA WaitKeeps ==
    ASSUME LibInv, Waits, elapsed' \in [Threads -> BOOLEAN]
    PROVE  LibInv'
<1>1. /\ job' = job /\ servers' = servers /\ lib' = lib /\ params' = params /\ th' = th
      /\ happened' = happened /\ oops' = oops
  BY DEF Waits
<1>2. StateTypes'
  BY <1>1
  DEF LibInv, StateTypes, Server, Message, ThreadRecord, LibRecord, Users, Values
<1>3. PlaceInv'
  <2>1. /\ Message' = Message
        /\ \A t \in Threads :
              /\ Prog(t)' = Prog(t) /\ Call(t)' = Call(t) /\ sid(t)' = sid(t)
              /\ InCall(t)' = InCall(t) /\ Creating(t)' = Creating(t)
    BY <1>1 DEF Message, Users, Prog, Call, sid, InCall, Creating
  <2>2. ASSUME NEW t \in Threads PROVE InPlace(t)'
    <3>1. InPlace(t)
      BY DEF LibInv, PlaceInv
    <3> QED
      BY <1>1, <2>1, <3>1 DEF InPlace
  <2>3. SecondInv'
    <3>1. SecondInv
      BY DEF LibInv, PlaceInv
    <3> QED
      BY <1>1, <3>1 DEF SecondInv, Prog
  <2> QED
    BY <2>2, <2>3 DEF PlaceInv
<1>4. FileInv'
  BY <1>1 DEF LibInv, FileInv, OneFile, InCall, Racing, Active, Prog, Lib
<1>5. DeviceInv'
  BY <1>1 DEF LibInv, DeviceInv, InCall, Active, Prog, Lib
<1>6. ParamsInv' /\ RequestInv'
  BY <1>1
  DEF LibInv, ParamsInv, RequestInv, Fits, AsGiven, Given, Active, Prog, Call, Param, StructOf,
      Lib
<1>7. OwnInv' /\ GroupInv' /\ FailInv'
  BY <1>1
  DEF LibInv, OwnInv, Holds, Creating, Active, GroupInv, InOwnServer, FailInv, Explained, Prog,
      Call
<1> QED
  BY <1>2, <1>3, <1>4, <1>5, <1>6, <1>7 DEF LibInv

LEMMA NextInv == LibInv /\ [Next]_vars => LibInv'
<1> SUFFICES ASSUME LibInv, [Next]_vars PROVE LibInv'
  OBVIOUS
<1>0. /\ StateTypes /\ PlaceInv /\ FileInv /\ DeviceInv
      /\ ParamsInv /\ RequestInv /\ OwnInv /\ GroupInv /\ FailInv
  BY DEF LibInv
<1>1. CASE UNCHANGED vars
  <2>1. Waits /\ elapsed' = elapsed
    BY <1>1 DEF vars, Waits
  <2>2. elapsed' \in [Threads -> BOOLEAN]
    BY <1>0, <2>1 DEF StateTypes
  <2> QED
    BY <2>1, <2>2, WaitKeeps
<1>2. CASE Next
  <2>1. StateTypes' /\ (Waits \/ \E t \in Threads : Kinds(t) \/ Asked(t))
    BY <1>0, <1>2, StepKinds
  <2>2. CASE Waits
    <3>1. elapsed' \in [Threads -> BOOLEAN]
      BY <2>1 DEF StateTypes
    <3> QED
      BY <2>2, <3>1, WaitKeeps
  <2>3. ASSUME NEW t \in Threads, Kinds(t) \/ Asked(t) PROVE LibInv'
    <3>1. PlaceInv' /\ FileInv' /\ DeviceInv'
      BY <1>0, <2>3, PlaceKeeps, FileKeeps, DeviceKeeps
    <3>2. ParamsInv' /\ RequestInv' /\ OwnInv'
      BY <1>0, <2>3, ParamsKeep, RequestKeeps, OwnKeeps
    <3>3. GroupInv' /\ FailInv'
      BY <1>0, <2>1, <2>3, GroupKeeps, FailKeeps
    <3> QED
      BY <2>1, <3>1, <3>2, <3>3 DEF LibInv
  <2> QED
    BY <2>1, <2>2, <2>3
<1> QED
  BY <1>1, <1>2

LEMMA LibInvAlways == Spec => []LibInv
  BY InitInv, NextInv, PTL DEF Spec

-----------------------------------------------------------------------------
(* The threads that race to open the device. *)

\* While one has yet to open it at most one file is open, none while both have;
\* without a descriptor at most one is, none while the second is there.
RaceInv ==
    Racing /\ "device" \notin happened =>
        /\ lib[1].open <= 2
        /\ ~lib[1].fd => lib[1].open <= 1
        /\ ~lib[1].fd /\ Active(2) => lib[1].open = 0
        /\ \A t \in Threads : th[t].pc = "open" => lib[1].open <= 1
        /\ th[1].pc = "open" /\ th[2].pc = "open" => lib[1].open = 0
        /\ ~lib[2].fd /\ lib[2].open = 0

\* The race begins with one file or none.
LEMMA RaceBegins ==
    ASSUME StateTypes, PlaceInv, FileInv, NEW t \in Threads, StartsOther(t), Racing'
    PROVE  RaceInv'
<1>1. /\ t = 1 /\ th[2].pc = "none" /\ th'[2].pc = "prog" /\ th'[1].pc = "prog"
      /\ th'[1].proc = th[1].proc
  BY DEF StartsOther, Itself, Thread
<1>2. th[1].proc = 1 /\ th[2].proc = 2 /\ lib[2] = Closed
  BY <1>1 DEF PlaceInv, SecondInv, Thread
<1>3. \A p \in Threads : lib[p].open = IF lib[p].fd THEN 1 ELSE 0
  BY <1>2 DEF FileInv, OneFile, Racing
<1>4. Call(1).op = "spawn"
  BY <1>1, <1>2, StartedLib DEF StartsOther, Thread, Racing
<1>5. lib'[1] = lib[1] /\ lib'[2] = lib[2]
  BY <1>1, <1>4, StartedLib
<1>6. ~lib'[2].fd /\ lib'[2].open = 0
  BY <1>2, <1>5 DEF Closed
<1>7. 1 \in Threads /\ (lib'[1].open = IF lib'[1].fd THEN 1 ELSE 0)
  BY <1>3, <1>5 DEF Threads
<1> QED
  BY <1>1, <1>6, <1>7 DEF RaceInv, Threads

\* Who races: the threads of the first process, the second of which neither
\* initialises the library nor closes it.
LEMMA RaceFacts ==
    ASSUME StateTypes, PlaceInv, Racing
    PROVE  /\ th[1].proc = 1 /\ th[2].proc = 1 /\ th[2].pc # "none"
           /\ ~Uses(Prog(2), "init") /\ ~Uses(Prog(2), "cleanup") /\ ~Uses(Prog(1), "init")
<1>1. th[1].proc = 1
  BY DEF PlaceInv, SecondInv
<1>2. th[2].pc # "none"
  <2>1. Thread("none", 2).proc = 2
    BY DEF Thread
  <2> QED
    BY <1>1, <2>1 DEF Racing, PlaceInv, SecondInv
<1> QED
  BY <1>1, <1>2, SpawnedFacts DEF Racing

LEMMA NotRacing ==
    ASSUME StateTypes, PlaceInv, NEW t \in Threads, Kinds(t) \/ Asked(t), ~StartsOther(t), ~Racing
    PROVE  ~Racing'
<1>1. th'[1].proc = th[1].proc
  BY FirstFacts DEF PlaceInv, SecondInv
<1>2. th'[2].proc = th[2].proc
  BY NoneFacts, SecondFacts
<1>3. Prog(1)' = Prog(1)
  BY ActiveFacts DEF Prog
<1> QED
  BY <1>1, <1>2, <1>3 DEF Racing

\* What a step of it does to the descriptor.
LEMMA RaceSteps ==
    ASSUME StateTypes, PlaceInv, FileInv, Racing, NEW t \in Threads, Kinds(t) \/ Asked(t),
           "device" \notin happened'
    PROVE  /\ lib'[2].fd = lib[2].fd /\ lib'[2].open = lib[2].open
           /\ \/ /\ th[t].pc = "open" /\ th'[t].pc # "open"
                 /\ lib'[1].fd = TRUE /\ lib'[1].open = lib[1].open + 1
              \/ /\ t = 1 /\ ~Active(2) /\ th'[1].pc = "prog"
                 /\ lib[1].open # 0 /\ lib'[1].fd = FALSE /\ lib'[1].open = lib[1].open - 1
              \/ /\ \A u \in Threads : ~Active(u)'
                 /\ lib'[1].fd = FALSE /\ lib'[1].open = 0
              \/ /\ lib'[1].fd = lib[1].fd /\ lib'[1].open = lib[1].open
                 /\ th'[t].pc = "open" => ~lib[1].fd
<1>1. /\ th[1].proc = 1 /\ th[2].proc = 1 /\ th[2].pc # "none"
      /\ ~Uses(Prog(2), "init") /\ ~Uses(Prog(2), "cleanup") /\ ~Uses(Prog(1), "init")
  BY RaceFacts
<1>2. th[t].proc = 1 /\ Lib(t) = lib[1] /\ 1 \in Threads /\ 2 \in Threads \ {1}
  BY <1>1 DEF Threads, Lib
<1>3. ~StartsOther(t) /\ ~NotOpened(t)
  BY <1>1, SecondFacts, HappenedFacts
<1>4. CASE Opened(t)
  <2>1. th'[t].pc # "open"
    BY <1>4 DEF Opened, GoesOn, Asks
  <2> QED
    BY <1>2, <1>4, <2>1 DEF Opened, OneOpen
<1>5. CASE Closes(t)
  <2>1. /\ InPlace(t) /\ th[t].pos \in 1 .. Len(Prog(t)) /\ Call(t) = Prog(t)[th[t].pos]
        /\ Call(t).op = "cleanup" /\ Active(t)
    BY <1>5, CallFacts DEF Closes, AtCall, PlaceInv, Active
  <2>2. th[t].pos \in DOMAIN Prog(t)
    BY <2>1, JobFacts
  <2>3. t = 1
    BY <1>1, <2>1, <2>2 DEF Uses, Threads
  <2>4. ~Active(2)
    BY <1>1, <1>2, <1>5, <2>3, CloseAlone
  <2>5. lib[1].open # 0 /\ th'[1].pc = "prog"
    BY <1>2, <1>5, <2>3 DEF Closes, FileInv, GoesOn
  <2> QED
    BY <1>2, <1>5, <2>3, <2>4, <2>5 DEF Closes, OneOpen
<1>6. CASE Exits(t)
  <2>1. \A u \in Threads : th[u].proc = 1
    BY <1>1 DEF Threads
  <2>2. \A u \in Threads : ~Active(u)'
    BY <1>2, <1>6, <2>1 DEF Exits, IsOver, Active
  <2> QED
    BY <1>2, <1>6, <2>2 DEF Exits, OneOpen
<1>7. CASE ~Opened(t) /\ ~Closes(t) /\ ~Exits(t)
  <2>1. LibStays
    BY <1>3, <1>7, LibStaysFacts
  <2>2. ASSUME th'[t].pc = "open" PROVE ~lib[1].fd
    <3>1. Begins(t)
      BY <1>3, <1>7, <2>2 DEF Kinds, Asked, Aside, Jumps, Unasked, Returns, Ends, GoesOn, IsOver
    <3>2. /\ InPlace(t) /\ th[t].pos \in 1 .. Len(Prog(t)) /\ Call(t) = Prog(t)[th[t].pos]
      BY <3>1, CallFacts DEF Begins, PlaceInv
    <3>3. th[t].pos \in DOMAIN Prog(t)
      BY <3>2, JobFacts
    <3>4. Call(t).op # "init"
      BY <1>1, <3>2, <3>3 DEF Uses, Threads
    <3> QED
      BY <1>2, <2>2, <3>1, <3>4 DEF Begins, Asks
  <2> QED
    BY <1>2, <2>1, <2>2 DEF LibStays
<1> QED
  BY <1>4, <1>5, <1>6, <1>7

LEMMA RaceGoesOn ==
    ASSUME StateTypes, StateTypes', PlaceInv, FileInv, RaceInv, Racing,
           NEW t \in Threads, Kinds(t) \/ Asked(t)
    PROVE  RaceInv'
<1> SUFFICES ASSUME "device" \notin happened' PROVE RaceInv'
  BY DEF RaceInv
<1>1. /\ lib[1].open <= 2
      /\ ~lib[1].fd => lib[1].open <= 1
      /\ ~lib[1].fd /\ Active(2) => lib[1].open = 0
      /\ \A u \in Threads : th[u].pc = "open" => lib[1].open <= 1
      /\ th[1].pc = "open" /\ th[2].pc = "open" => lib[1].open = 0
      /\ ~lib[2].fd /\ lib[2].open = 0
  BY HappenedFacts DEF RaceInv
<1>2. /\ Active(t) /\ th[2].pc # "none" /\ ~StartsOther(t)
      /\ Active(2)' => Active(2)
  <2>1. Active(t) /\ th[2].pc # "none"
    BY ActiveFacts, RaceFacts
  <2>2. th[2].pc \in {"none", "done"} \/ Active(2)
    BY DEF StateTypes, ThreadRecord, Threads, Active
  <2> QED
    BY <2>1, <2>2, SecondFacts DEF Active
<1>3. \A u \in Threads \ {t} : th'[u].pc = "open" => th[u].pc = "open"
  <2> TAKE u \in Threads \ {t}
  <2>1. Stays(u) \/ Ended(t, u)
    BY <1>2, OtherFacts
  <2> QED
    BY <2>1 DEF Stays, Ended
<1>4. lib[1].open \in Nat /\ lib[1].fd \in BOOLEAN /\ lib'[1].open \in Nat
  BY DEF StateTypes, LibRecord, Threads
<1>5. lib'[2].fd = lib[2].fd /\ lib'[2].open = lib[2].open
  BY RaceSteps
<1>6. CASE /\ th[t].pc = "open" /\ th'[t].pc # "open"
           /\ lib'[1].fd = TRUE /\ lib'[1].open = lib[1].open + 1
  BY <1>1, <1>3, <1>4, <1>5, <1>6 DEF RaceInv, Threads
<1>7. CASE /\ t = 1 /\ ~Active(2) /\ th'[1].pc = "prog"
           /\ lib[1].open # 0 /\ lib'[1].fd = FALSE /\ lib'[1].open = lib[1].open - 1
  <2>1. ~Active(2)' /\ th'[2].pc # "open"
    BY <1>2, <1>7 DEF Active
  <2> QED
    BY <1>1, <1>4, <1>5, <1>7, <2>1 DEF RaceInv, Threads
<1>8. CASE /\ \A u \in Threads : ~Active(u)'
           /\ lib'[1].fd = FALSE /\ lib'[1].open = 0
  BY <1>1, <1>5, <1>8 DEF RaceInv
<1>9. CASE /\ lib'[1].fd = lib[1].fd /\ lib'[1].open = lib[1].open
           /\ th'[t].pc = "open" => ~lib[1].fd
  <2>1. ASSUME th'[t].pc = "open"
        PROVE  lib[1].open <= 1 /\ (t = 2 \/ Active(2) => lib[1].open = 0)
    BY <1>1, <1>2, <1>9, <2>1
  <2>2. th'[2].pc = "open" => Active(2)
    BY <1>2 DEF Active
  <2>3. th'[1].pc = "open" /\ th'[2].pc = "open" => lib'[1].open = 0
    BY <1>1, <1>3, <1>9, <2>1, <2>2 DEF Threads
  <2>4. \A u \in Threads : th'[u].pc = "open" => lib'[1].open <= 1
    BY <1>1, <1>3, <1>9, <2>1
  <2> QED
    BY <1>1, <1>2, <1>5, <1>9, <2>3, <2>4 DEF RaceInv
<1> QED
  BY <1>6, <1>7, <1>8, <1>9, RaceSteps

LEMMA RaceAlways == Spec => []RaceInv
<1>1. Init => RaceInv
  <2> SUFFICES ASSUME Init PROVE ~Racing
    BY DEF RaceInv
  <2>1. LibInv /\ th[2].pc = "none"
    BY InitInv DEF Init, Thread, Threads
  <2> QED
    BY <2>1, RaceFacts DEF LibInv
<1>2. LibInv /\ LibInv' /\ RaceInv /\ [Next]_vars => RaceInv'
  <2> SUFFICES ASSUME LibInv, LibInv', RaceInv, [Next]_vars PROVE RaceInv'
    OBVIOUS
  <2>0. StateTypes /\ PlaceInv /\ FileInv /\ StateTypes'
    BY DEF LibInv
  <2>1. CASE UNCHANGED <<job, lib, th, happened>>
    BY <2>1 DEF RaceInv, Racing, Active, Prog
  <2>2. ASSUME NEW t \in Threads, Kinds(t) \/ Asked(t) PROVE RaceInv'
    <3>1. CASE Racing
      BY <2>0, <2>2, <3>1, RaceGoesOn
    <3>2. CASE ~Racing /\ StartsOther(t)
      BY <2>0, <3>2, RaceBegins DEF RaceInv
    <3>3. CASE ~Racing /\ ~StartsOther(t)
      <4>1. ~Racing'
        BY <2>0, <2>2, <3>3, NotRacing
      <4> QED
        BY <4>1 DEF RaceInv
    <3> QED
      BY <3>1, <3>2, <3>3
  <2>3. CASE UNCHANGED vars
    BY <2>1, <2>3 DEF vars
  <2>4. CASE Next
    <3>1. Waits \/ \E t \in Threads : Kinds(t) \/ Asked(t)
      BY <2>0, <2>4, StepKinds
    <3> QED
      BY <2>1, <2>2, <3>1 DEF Waits
  <2> QED
    BY <2>3, <2>4
<1> QED
  BY <1>1, <1>2, LibInvAlways, PTL DEF Spec

-----------------------------------------------------------------------------
(* Theorems. *)

\* Whatever programs of one period run, and whatever fails, no server gets
\* another period or guarantee than that of the program, nor loses its group:
\* what qres_set_bandwidth remembers was accepted last (qres_lib.c:291-306).
THEOREM PeriodsAreKept == Spec => []PeriodKept
<1>1. LibInv => PeriodKept
  BY DEF LibInv, ParamsInv, PeriodKept, Given, Threads
<1> QED
  BY <1>1, LibInvAlways, PTL

\* A thread is in no group but that of a server that its own process created and
\* did not destroy, and no program uses a group that is gone, unless the
\* scheduler refused a group (qres_lib.c:74-133).
THEOREM GroupsAreOwned == Spec => []GroupsOwned
<1>1. LibInv => GroupsOwned
  BY DEF LibInv, GroupInv, OwnInv, GroupsOwned, GroupsKnown
<1> QED
  BY <1>1, LibInvAlways, PTL

\* Two threads are never given the same server, however their calls that create
\* servers interleave and whatever either destroyed, unless the scheduler refused
\* a group and an identifier was never written (qres_lib.c:74-89).
ServersApart == "group" \notin happened => Holds(1) \cap Holds(2) = {}

\* ServersApart holds of every program that fits.
THEOREM ServersAreApart == Spec => []ServersApart
<1>1. LibInv => ServersApart
  BY DEF LibInv, OwnInv, ServersApart
<1> QED
  BY <1>1, LibInvAlways, PTL

\* No step gives a server to another process or user, nor makes a group that was
\* freed live again or lost: a server is set, by whomever, only with the period and
\* guarantee it has, so that it is never admitted again (qres.c:618-623).
ServersAsMade ==
    [][\A i \in DOMAIN servers :
          /\ i \in DOMAIN servers'
          /\ servers'[i].by = servers[i].by /\ servers'[i].uid = servers[i].uid
          /\ servers'[i].tg = servers[i].tg
             \/ (servers[i].tg = "live" /\ servers'[i].tg = "freed")]_vars

LEMMA ServersStep ==
    ASSUME LibInv, LibInv', [Next]_vars, NEW i \in DOMAIN servers
    PROVE  /\ i \in DOMAIN servers'
           /\ servers'[i].by = servers[i].by /\ servers'[i].uid = servers[i].uid
           /\ servers'[i].tg = servers[i].tg
              \/ (servers[i].tg = "live" /\ servers'[i].tg = "freed")
<1>0. StateTypes /\ PlaceInv /\ FileInv /\ ParamsInv /\ RequestInv
  BY DEF LibInv
<1>1. CASE servers' = servers
  BY <1>1
<1>2. CASE Next /\ servers' # servers
  <2>1. PICK t \in Threads : Kinds(t) \/ Asked(t)
    BY <1>0, <1>2, StepKinds DEF Waits
  <2>2. /\ i \in DOMAIN servers'
        /\ servers'[i].by = servers[i].by /\ servers'[i].uid = servers[i].uid
        /\ servers'[i].tg = servers[i].tg \/ servers[i].tg = "live"
    BY <1>0, <2>1, ServersGrow
  <2>3. servers'[i].tg \in {"live", "freed", "lost"}
    <3>1. servers' \in Seq(Server)'
      BY DEF LibInv, StateTypes
    <3>2. servers'[i] \in Server'
      BY <2>2, <3>1
    <3> QED
      BY <3>2 DEF Server
  <2>4. servers'[i].tg # "lost"
    BY <2>2 DEF LibInv, ParamsInv
  <2> QED
    BY <2>2, <2>3, <2>4
<1> QED
  BY <1>1, <1>2 DEF vars

\* ServersAsMade holds of every program that fits.
THEOREM ServersStayAsMade == Spec => ServersAsMade
<1>1. LibInv /\ LibInv' /\ [Next]_vars =>
         [\A i \in DOMAIN servers :
             /\ i \in DOMAIN servers'
             /\ servers'[i].by = servers[i].by /\ servers'[i].uid = servers[i].uid
             /\ servers'[i].tg = servers[i].tg
                \/ (servers[i].tg = "live" /\ servers'[i].tg = "freed")]_vars
  BY ServersStep
<1> QED
  BY <1>1, LibInvAlways, PTL DEF Spec, ServersAsMade

\* A process has one file open while it has a descriptor and none when it has
\* not; where threads race to open the library there may be one more, and no
\* second, while the device can be opened (qres_lib.c:48-53, 140-160).
THEOREM DescriptorIsOne == Spec => []OneDescriptor
<1>1. LibInv /\ RaceInv => OneDescriptor
  <2> SUFFICES ASSUME LibInv, RaceInv, NEW p \in Threads, Racing, "device" \notin happened
               PROVE  lib[p].open = (IF lib[p].fd THEN 1 ELSE 0)
                      \/ lib[p].open = (IF lib[p].fd THEN 1 ELSE 0) + 1
    BY DEF LibInv, FileInv, OneFile, Racing, Uses, OneDescriptor
  <2>1. lib[p].open \in Nat /\ lib[p].fd \in BOOLEAN /\ (lib[p].fd => lib[p].open # 0)
    BY DEF LibInv, StateTypes, LibRecord, FileInv
  <2>2. /\ lib[1].open <= 2 /\ (~lib[1].fd => lib[1].open <= 1)
        /\ ~lib[2].fd /\ lib[2].open = 0
    BY DEF RaceInv
  <2> QED
    BY <2>1, <2>2 DEF Threads
<1> QED
  BY <1>1, LibInvAlways, RaceAlways, PTL

\* A program fails only because the device, the supervisor or the scheduler
\* refused something, or where it leaves the server with no identifier
\* (test-qres-base.c:71); and the state is of its types.
THEOREM FailuresAreExplained == Spec => []FailuresExplained
<1>1. ASSUME LibInv PROVE TypeOK
  <2>1. StateTypes /\ (\A t \in Threads : InPlace(t)) /\ GroupInv
    BY <1>1 DEF LibInv, PlaceInv
  <2>2. /\ \A i \in DOMAIN servers : servers[i] \in Server
        /\ \A t \in Threads : lib[t] \in LibRecord /\ th[t] \in ThreadRecord
    BY <2>1 DEF StateTypes
  <2>3. \A t \in Threads :
           /\ th[t].pc \in {"none", "prog", "open", "ioctl", "ret", "done"}
           /\ th[t].proc \in Threads
           /\ lib[t].fd \in BOOLEAN /\ lib[t].open \in Nat
    BY <2>2 DEF ThreadRecord, LibRecord
  <2>4. \A i \in DOMAIN servers :
           servers[i].weight \in Weights /\ servers[i].tg \in {"live", "freed", "lost"}
    BY <2>2 DEF Server
  <2> QED
    BY <2>1, <2>3, <2>4 DEF TypeOK, StateTypes, InPlace, GroupInv
<1>2. LibInv => FailuresExplained
  <2> SUFFICES ASSUME LibInv PROVE FailuresExplained
    OBVIOUS
  <2>1. ASSUME NEW t \in Threads, th[t].pc = "done", th[t].rv # "OK",
               happened = {} \/ (th[t].rv = "NOT_FOUND" /\ "group" \notin happened)
        PROVE  Call(t).op = "detach" /\ sid(t) = QRES_SID_NULL
    <3>1. Explained(t)
      BY <2>1 DEF LibInv, FailInv
    <3>2. LeavesNone(Call(t))
      BY <2>1, <3>1 DEF Explained
    <3> QED
      BY <3>2 DEF LeavesNone, sid
  <2> QED
    BY <1>1, <2>1 DEF FailuresExplained
<1> QED
  BY <1>2, LibInvAlways, PTL
=============================================================================

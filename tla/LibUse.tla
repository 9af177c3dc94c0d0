-------------------------------- MODULE LibUse --------------------------------
(***************************************************************************)
(* How the programs of src/qreslib use the library, as conditions on their *)
(* text.  A program is a sequence of calls, and what is said of a place in *)
(* it is what the calls before that place make of it.  TLC evaluates the   *)
(* conditions for every program of module TestPrograms; the theorems about *)
(* module QresLib assume them, and hold for whatever else keeps to them.   *)
(***************************************************************************)
EXTENDS QresGw

\* What a program does besides asking the device for something.
Local == {"let", "period", "clock", "count", "repeat", "gettimeofday", "forever",
          "spawn", "fork", "exec", "join", "init", "cleanup"}

\* A second thread, a copy of the process, another process.
Starts == {"spawn", "fork", "exec"}

CallRecord == [op : STRING, sid : {"mine", "null", "other"}, checked : BOOLEAN, arg : Nat]
Structure == [Q : Nat, Q_min : Nat, P : Nat, flags : SUBSET STRING]

-----------------------------------------------------------------------------
(* What is so at a place. *)

Opens(call) == call.op = "init" \/ call.op \notin Local

\* The device was opened, and not closed since.
OpenAt(prog, n) ==
    \E i \in 1 .. n - 1 :
        Opens(prog[i]) /\ \A k \in i + 1 .. n - 1 : prog[k].op # "cleanup"

\* It was, or the process had ended.
SurelyOpenAt(prog, n) ==
    \E i \in 1 .. n - 1 :
        /\ Opens(prog[i]) /\ prog[i].checked
        /\ \A k \in i + 1 .. n - 1 : prog[k].op # "cleanup"

Creates(call) == call.op = "create" /\ call.checked

CreatedAt(prog, n) == \E i \in 1 .. n - 1 : Creates(prog[i])

\* The server was destroyed, and no other created since.
DestroyedAt(prog, n) ==
    \E i \in 1 .. n - 1 :
        prog[i].op = "destroy" /\ \A k \in i + 1 .. n - 1 : ~Creates(prog[k])

PassedAt(prog, n, ops) == \E i \in 1 .. n - 1 : prog[i].op \in ops

\* A thread was started and waited for.
JoinedAt(prog, n) ==
    \E i \in 1 .. n - 1 : \E k \in i + 1 .. n - 1 : prog[i].op = "spawn" /\ prog[k].op = "join"

-----------------------------------------------------------------------------
(* Conditions on a program. *)

Uses(prog, op) == \E i \in DOMAIN prog : prog[i].op = op

\* What is repeated comes after the device was opened, and is not what starts or
\* ends something.
LoopsOnlyUse(prog) ==
    \A i \in DOMAIN prog : prog[i].op = "repeat" =>
        /\ prog[i].arg \in 1 .. i
        /\ OpenAt(prog, prog[i].arg)
        /\ \A k \in prog[i].arg .. i :
              prog[k].op \notin Starts \cup {"cleanup", "destroy", "attach", "period"}

\* qres_init is called while the device is not open, qres_cleanup while it is.
OpensInTurn(prog) ==
    \A i \in DOMAIN prog :
        /\ prog[i].op = "init" => ~OpenAt(prog, i)
        /\ prog[i].op = "cleanup" /\ prog[i].checked => OpenAt(prog, i)

\* A server is not used once it is destroyed, nor given the parameters of a
\* structure whose period was changed.
UsesLiveServers(prog) ==
    \A i \in DOMAIN prog :
        /\ prog[i].op \in {"attach", "destroy"} /\ prog[i].sid # "null" => ~DestroyedAt(prog, i)
        /\ prog[i].op = "create" \/ (prog[i].op = "set_params" /\ prog[i].sid # "null") =>
              ~PassedAt(prog, i, {"period"})

\* The result of a call that fails by itself is not checked; there is a server
\* when it is needed.  The one exception is a task that leaves no server.
LeavesNone(call) == call.op = "detach" /\ call.sid = "null"

ChecksWhatSucceeds(prog) ==
    \A i \in DOMAIN prog :
        prog[i].checked /\ prog[i].op \notin Local \cup {"create"} =>
            \/ LeavesNone(prog[i])
            \/ /\ prog[i].sid = "mine" /\ CreatedAt(prog, i)
               /\ prog[i].op \notin {"get_sid", "get_weight"}
               /\ prog[i].op = "set_weight" => prog[i].arg # 0
               /\ prog[i].op = "set_bandwidth" => prog[i].arg <= MAX_BW

ProgramFits(prog) ==
    /\ LoopsOnlyUse(prog) /\ OpensInTurn(prog)
    /\ UsesLiveServers(prog) /\ ChecksWhatSucceeds(prog)
    /\ \A i \in DOMAIN prog : prog[i].op = "set_weight" => prog[i].arg \in Weights

-----------------------------------------------------------------------------
(* Conditions on what runs together. *)

\* The first program starts at most one other, and before it attaches itself to
\* a server: what is started inside a group is in the group, too, but not in its
\* list (module SchedGroup).  When two share the descriptor, only the first
\* opens and closes it, before the other is there and after it is waited for;
\* or no one calls qres_init, and then they may race.
StartsOne(first, second) ==
    /\ \A i \in DOMAIN second : second[i].op \notin Starts
    /\ \A i, k \in DOMAIN first : first[i].op \in Starts /\ first[k].op \in Starts => i = k
    /\ \A i \in DOMAIN first :
          /\ first[i].op \in Starts => ~PassedAt(first, i, {"attach"})
          /\ first[i].op \in {"spawn", "fork"} => ~Uses(second, "init")
          /\ first[i].op = "spawn" =>
                /\ ~Uses(second, "cleanup")
                /\ Uses(first, "init") => SurelyOpenAt(first, i)
          /\ first[i].op = "cleanup" /\ PassedAt(first, i, {"spawn"}) => JoinedAt(first, i)

\* A program that leaves no server, and fails, is alone.
FailsAlone(first, second) ==
    (\E i \in DOMAIN first : first[i].op \in Starts) =>
        /\ \A i \in DOMAIN first : first[i].checked => ~LeavesNone(first[i])
        /\ \A i \in DOMAIN second : second[i].checked => ~LeavesNone(second[i])

\* Both structures have one period, guarantee and flags, that are accepted, and
\* a period is changed only in a structure of one's own.
OnePeriod(program) ==
    LET given == program.structs[1]
    IN  /\ given.P >= MIN_SRV_PERIOD
        /\ \A k \in {1, 2} :
              /\ program.structs[k].P = given.P /\ program.structs[k].Q <= given.P
              /\ program.structs[k].Q_min = given.Q_min
              /\ program.structs[k].flags = given.flags
              /\ \A i \in DOMAIN program.progs[k] :
                    /\ program.progs[k][i].op = "let" => program.progs[k][i].arg <= given.P
                    /\ program.shared => program.progs[k][i].op # "period"

JobFits(job) ==
    /\ job.program.progs \in [{1, 2} -> Seq(CallRecord)]
    /\ job.program.structs \in [{1, 2} -> Structure]
    /\ job.program.shared \in BOOLEAN
    /\ \A k \in {1, 2} : ProgramFits(job.program.progs[k])
    /\ StartsOne(job.program.progs[1], job.program.progs[2])
    /\ FailsAlone(job.program.progs[1], job.program.progs[2])
    /\ OnePeriod(job.program)
=============================================================================

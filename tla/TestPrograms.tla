----------------------------- MODULE TestPrograms -----------------------------
(***************************************************************************)
(* The programs that come with the library of the reservation layer        *)
(* (src/qreslib/*.c), as sequences of calls.  Times are in units of 100    *)
(* microseconds.  What they print, and the work they measure, is left out. *)
(***************************************************************************)
EXTENDS Integers, Sequences

\* A call: of which program step, on which server, whether a failure ends the
\* process, and the budget, bandwidth, weight or place to go to.
Call(op) == [op |-> op, sid |-> "mine", checked |-> TRUE, arg |-> 0]
Try(op) == [Call(op) EXCEPT !.checked = FALSE]
With(op, arg) == [Call(op) EXCEPT !.arg = arg]
On(sid, op) == [Call(op) EXCEPT !.sid = sid]

Struct(Q, Q_min, P) == [Q |-> Q, Q_min |-> Q_min, P |-> P, flags |-> {}]

\* A program: what is started first, and what the second thread or process
\* runs; `shared` when both use one structure of parameters.
Program(first, p1, second, p2, shared) ==
    [progs |-> <<first, second>>, structs |-> <<p1, p2>>, shared |-> shared]
Alone(prog, p) == Program(prog, p, <<>>, p, FALSE)

Enter == <<Call("create"), Call("attach")>>
Leave == <<Call("destroy"), Call("cleanup")>>

\* Two seconds of counting.
count_and_wait == <<Call("clock"), Call("count")>>

\* A call at place n is repeated until the time is up.
Until(n, call) == <<call, With("repeat", n)>>

-----------------------------------------------------------------------------
(* test-qres-beginend.c, test-qres-app.c and test-qres-loop.c.             *)

Beginend == Alone(<<Call("init")>> \o Enter \o Leave, Struct(100, 0, 10000))

\* Two of its ten readings of the time.
App == Alone(<<Call("init")>> \o Enter \o <<Try("get_exec_time"), Try("get_exec_time")>>
             \o Leave, Struct(100, 0, 10000))

Loop == Alone(<<Call("init")>> \o Enter \o <<Call("forever")>>, Struct(2000, 1000, 10000))

-----------------------------------------------------------------------------
(* test-qres-base.c: the server is destroyed, detached from, or given      *)
(* other parameters.                                                       *)

Base ==
    LET begin == <<Call("init")>> \o Enter \o count_and_wait
    IN  Alone(begin \o Leave
              \o begin \o <<On("null", "detach"), Call("cleanup")>>
              \o begin \o <<With("let", 250), Call("set_params")>> \o count_and_wait
              \o <<With("let", 500), Call("set_params")>> \o count_and_wait \o Leave,
              Struct(500, 0, 1000))

-----------------------------------------------------------------------------
(* test-qres.c and test-qres-pthreads.c: the budget is cut to shares of    *)
(* what it was.                                                            *)

Cut(Q) == <<With("let", Q), Call("set_params")>> \o count_and_wait

Test == Alone(<<Call("init")>> \o Enter \o count_and_wait
              \o Cut(250) \o Cut(150) \o Cut(50) \o Leave, Struct(500, 0, 1000))

\* Both threads use one structure of parameters.
Pthreads ==
    LET main_loop == Enter \o count_and_wait \o Cut(100) \o Cut(60) \o Cut(20) \o <<Call("destroy")>>
    IN  Program(<<Call("init"), Call("spawn")>> \o main_loop \o <<Call("join"), Call("cleanup")>>,
                Struct(200, 0, 1000), main_loop, Struct(200, 0, 1000), TRUE)

-----------------------------------------------------------------------------
(* fork_and_loop.c and fork_and_loop_pthreads.c: the time is read until    *)
(* four seconds are over.                                                  *)

MainLoop(at) ==
    Enter \o <<Call("get_exec_time"), Call("clock")>>
    \o Until(at + 4, Call("get_exec_time"))

\* The library is opened before the fork.  The new process takes the branch
\* that waits, for a child it does not have.
ForkAndLoop ==
    Program(<<Call("init"), Call("fork")>> \o MainLoop(3), Struct(300, 0, 600),
            MainLoop(1) \o <<Call("cleanup")>>, Struct(150, 0, 600), FALSE)

ForkAndLoopPthreads ==
    Program(<<Call("init"), Call("spawn")>> \o MainLoop(3) \o <<Call("join"), Call("cleanup")>>,
            Struct(150, 0, 600), MainLoop(1), Struct(300, 0, 600), FALSE)

-----------------------------------------------------------------------------
(* test-qres-sched.c: it runs itself once more and reads the time period   *)
(* after period, of which one here.                                        *)

Sched ==
    LET Body(at) == <<Call("init")>> \o Enter \o <<Try("get_exec_time"), Call("clock")>>
                    \o Until(at + 5, Try("get_exec_time")) \o Leave
    IN  Program(<<Call("exec")>> \o Body(2) \o <<Call("join")>>, Struct(200, 200, 1000),
                Body(1), Struct(200, 200, 1000), FALSE)

-----------------------------------------------------------------------------
(* test-get-budget.c over util_periodic.c: the budgets are read at every   *)
(* tick until the time is up.                                              *)

ReadBudgets == <<Call("get_params"), Call("get_appr_budget"), Call("get_next_budget"),
                 Call("get_curr_budget")>>

GetBudget == Alone(<<Call("init")>> \o Enter \o <<Call("clock")>> \o ReadBudgets
                   \o <<Call("gettimeofday"), With("repeat", 5)>> \o Leave, Struct(99, 0, 1000))

-----------------------------------------------------------------------------
(* Uses of the library that no program makes.                              *)

\* The bandwidth of a server is set, after its parameters were, after a call
\* that failed for another, and without qres_init.
Bandwidths ==
    Alone(Enter \o <<With("set_bandwidth", 1500), With("let", 400), Call("set_params"),
                     With("period", 1000), [On("null", "set_params") EXCEPT !.checked = FALSE],
                     With("set_bandwidth", 2500), Call("attach"), Call("get_bandwidth"),
                     Call("get_deadline")>> \o Leave, Struct(300, 0, 600))

\* A task is looked for that is not found, and weights are set and read.
Others ==
    Alone(Enter \o <<[On("other", "attach") EXCEPT !.checked = FALSE], Try("get_sid"),
                     With("set_weight", 2), [With("set_weight", 0) EXCEPT !.checked = FALSE],
                     Try("get_weight"), Call("detach")>> \o Leave, Struct(300, 100, 600))

\* Two threads use the library before it is opened.
Unopened ==
    Program(<<Call("spawn")>> \o Enter \o <<Call("join")>>, Struct(300, 0, 600),
            <<Try("get_sid")>>, Struct(300, 0, 600), FALSE)
=============================================================================

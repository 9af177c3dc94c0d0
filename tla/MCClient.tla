------------------------------- MODULE MCClient -------------------------------
(***************************************************************************)
(* The programs of src/qreslib over the library and the device.            *)
(***************************************************************************)
EXTENDS QresLib

P == INSTANCE TestPrograms

\* All by one user, but for two processes that are started by root.
MCJobs ==
    [program : {P!Beginend, P!App, P!Loop, P!Base, P!Test, P!Pthreads, P!ForkAndLoop,
                P!ForkAndLoopPthreads, P!GetBudget, P!Bandwidths, P!Others, P!Unopened},
     uids : {<<1, 1>>}]
    \cup [program : {P!Sched}, uids : {<<1, 1>>, <<Root, 1>>}]
=============================================================================

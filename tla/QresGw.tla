-------------------------------- MODULE QresGw --------------------------------
(***************************************************************************)
(* The device of the reservation layer as a process sees it                *)
(* (src/src/qres_gw_ks.c over src/src/qres.c): an ioctl finds the server   *)
(* by its identifier, acts, and copies the reply back.  Each request is a  *)
(* set of outcomes here; module Qres has the steps inside the larger ones  *)
(* and what the supervisor makes of them.                                  *)
(*                                                                         *)
(* Nothing takes a server out of the list, so the identifiers given out    *)
(* are 1, 2, 3, ... and `servers` is a sequence.                           *)
(***************************************************************************)
EXTENDS Bandwidth, Sequences

CONSTANTS
    Root,            \* uid 0
    MIN_SRV_PERIOD,  \* the smallest period accepted
    Weights,         \* weights, 0 included
    Faults           \* those of "refused", "group" and "device" that happen

ASSUME QresGwAssumption ==
    /\ MIN_SRV_PERIOD \in Nat \ {0}
    /\ 0 \in Weights
    /\ Faults \subseteq {"refused", "group", "device"}

QRES_SID_NULL == 0
NoParams == [Q |-> 0, Q_min |-> 0, P |-> 0, flags |-> {}]

\* An outcome: what is returned, the value copied back, the servers afterwards,
\* the fault there was, and whether a group is used that is gone or unknown.
Outcome(rv, val, servers) ==
    [rv |-> rv, val |-> val, servers |-> servers, fault |-> "none", oops |-> FALSE]
Fails(rv, servers) == {Outcome(rv, QRES_SID_NULL, servers)}
Oopses(servers) == {[Outcome("OK", QRES_SID_NULL, servers) EXCEPT !.oops = TRUE]}

When(fault, outcomes) ==
    IF fault \in Faults THEN {[o EXCEPT !.fault = fault] : o \in outcomes} ELSE {}

-----------------------------------------------------------------------------
(* The handlers: a request has a server id, parameters, a weight, the task *)
(* it is about, and the uid of the caller.                                 *)

Found(sid, servers) == sid \in DOMAIN servers
Authorized(m, servers) == m.uid \in {Root, servers[m.sid].uid}
Accepted(param) == param.P >= MIN_SRV_PERIOD /\ param.Q <= param.P

Rounded(param) ==
    [param EXCEPT !.Q = RoundBudget(@, param.P), !.Q_min = RoundBudget(@, param.P)]

\* The memory of a server is not cleared, so its weight may be any.
NewServer(m, weight) ==
    [uid |-> m.uid, by |-> m.by, params |-> Rounded(m.params), weight |-> weight, tg |-> "live"]

\* Variant: the identifier is that of the server before.
qres_create_server_Last(m, servers) ==
    IF ~Accepted(m.params) THEN Fails("INVALID_PARAM", servers)
    ELSE {Outcome("OK", Len(servers), Append(servers, NewServer(m, w))) : w \in Weights}

\* When there is no group for it the server is thrown away, and OK is returned
\* with an identifier that was never written.
qres_create_server(m, servers) ==
    IF ~Accepted(m.params) THEN Fails("INVALID_PARAM", servers)
    ELSE {Outcome("OK", Len(servers) + 1, Append(servers, NewServer(m, w))) : w \in Weights}
         \cup When("refused", Fails("UNAUTHORIZED", servers))
         \cup When("group", {Outcome("OK", sid, servers) : sid \in 0 .. Len(servers) + 1})

\* The tasks leave the group (see `leave` in QresLib) and the group is freed; a
\* server whose pointer to the group was lost keeps it.
qres_gw_destroy_server(m, servers) ==
    IF ~Found(m.sid, servers) THEN Fails("NOT_FOUND", servers)
    ELSE CASE servers[m.sid].tg = "freed" -> Oopses(servers)
           [] servers[m.sid].tg = "lost"  -> Fails("OK", servers)
           [] OTHER -> Fails("OK", [servers EXCEPT ![m.sid].tg = "freed"])

\* The only task that is found is the caller.
find_task(m) == m.task = "self"

qres_gw_attach_task(m, servers) ==
    CASE ~find_task(m)                    -> Fails("INVALID_PARAM", servers)
      [] find_task(m) /\ ~Found(m.sid, servers) -> Fails("NOT_FOUND", servers)
      [] OTHER -> IF ~Authorized(m, servers) THEN Fails("UNAUTHORIZED", servers)
                  ELSE IF servers[m.sid].tg = "live" THEN Fails("OK", servers)
                  ELSE Oopses(servers)

qres_gw_detach_task(m, servers) ==
    CASE ~find_task(m)                    -> Fails("INVALID_PARAM", servers)
      [] find_task(m) /\ ~Found(m.sid, servers) -> Fails("NOT_FOUND", servers)
      [] OTHER -> IF Authorized(m, servers) THEN Fails("OK", servers)
                  ELSE Fails("UNAUTHORIZED", servers)

Readmitted(old, new) == new.Q_min # old.Q_min \/ new.P # old.P

\* A server that is admitted again loses the pointer to its group.
SetParams(m, servers) ==
    LET old == servers[m.sid].params
        new == Rounded(m.params)
        set == [servers EXCEPT ![m.sid].params = new]
    IN  IF Readmitted(old, new)
        THEN Fails("OK", [set EXCEPT ![m.sid].tg = "lost"])
             \cup When("refused", Fails("UNAUTHORIZED", servers))
        ELSE Fails("OK", set)

qres_gw_set_params(m, servers) ==
    IF ~Found(m.sid, servers) THEN Fails("NOT_FOUND", servers)
    ELSE CASE ~Authorized(m, servers) -> Fails("UNAUTHORIZED", servers)
           [] Authorized(m, servers) /\ ~Accepted(m.params) -> Fails("INVALID_PARAM", servers)
           [] OTHER -> IF m.params.flags # servers[m.sid].params.flags
                       THEN Fails("UNIMPLEMENTED", servers)
                       ELSE SetParams(m, servers)

\* No task has a pointer to a server, so none has an identifier.
qres_gw_get_server_id(m, servers) ==
    Fails(IF find_task(m) THEN "NOT_FOUND" ELSE "INVALID_PARAM", servers)

\* Parameters, budgets and the deadline are read; what a process does next does
\* not depend on them.
qres_gw_get(m, servers) ==
    Fails(IF Found(m.sid, servers) THEN "OK" ELSE "NOT_FOUND", servers)

\* Variant: the time is not written, like the execution time.
qres_gw_get_exec_time_Unset(m, servers) == qres_gw_get(m, servers)

\* The time, of which m.late says whether it is late for the caller.
qres_gw_get_exec_time(m, servers) ==
    {[o EXCEPT !.val = IF m.late /\ o.rv = "OK" THEN 1 ELSE 0] : o \in qres_gw_get(m, servers)}

qres_gw_set_weight(m, servers) ==
    IF ~Found(m.sid, servers) THEN Fails("NOT_FOUND", servers)
    ELSE IF m.weight = 0 THEN Fails("INVALID_PARAM", servers)
    ELSE {Outcome("OK", m.weight, [servers EXCEPT ![m.sid].weight = m.weight])}

-----------------------------------------------------------------------------
(* The dispatcher.  To get a weight is to set the one that the caller's    *)
(* memory happens to hold.  The library passes records of its own, of the  *)
(* right size, so that the copies in and out succeed.                      *)

qres_gw_ks(m, servers) ==
    CASE m.op = "create"        -> qres_create_server(m, servers)
      [] m.op = "destroy"       -> qres_gw_destroy_server(m, servers)
      [] m.op = "attach"        -> qres_gw_attach_task(m, servers)
      [] m.op = "detach"        -> qres_gw_detach_task(m, servers)
      [] m.op \in {"set_params", "set_bandwidth"} -> qres_gw_set_params(m, servers)
      [] m.op = "get_sid"       -> qres_gw_get_server_id(m, servers)
      [] m.op = "get_exec_time" -> qres_gw_get_exec_time(m, servers)
      [] m.op = "set_weight"    -> qres_gw_set_weight(m, servers)
      [] m.op = "get_weight"    -> UNION {qres_gw_set_weight([m EXCEPT !.weight = w], servers) :
                                            w \in Weights}
      [] OTHER                  -> qres_gw_get(m, servers)

=============================================================================

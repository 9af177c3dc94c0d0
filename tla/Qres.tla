-------------------------------- MODULE Qres --------------------------------
(***************************************************************************)
(* The reservation layer (src/src/qres.c): servers, their parameters and   *)
(* their scheduler groups, and the threads that call it through the device *)
(* (src/src/qres_gw_ks.c).  The supervisor is module Qsup.                 *)
(*                                                                         *)
(* qres.c expects a global lock to be held; the gateway's lock is commented *)
(* out, which leaves the lock the kernel holds around an ioctl.  That lock *)
(* is given up whenever a handler sleeps: when it creates a group and when *)
(* it sets the runtime of one.  So a handler is a sequence of steps; other *)
(* threads run between two of them, except where `lock` is kept.           *)
(*                                                                         *)
(* A server is known by its descriptor, and so is the one group created    *)
(* for it.  A group has two pairs of period and runtime, for its tasks and *)
(* for the group; qres.c always sets both alike, and they are one here.    *)
(***************************************************************************)
EXTENDS Qsup, Sequences, SequencesExt

CONSTANTS
    Threads,          \* the threads that call the layer
    Cred,             \* the uid and gid of each thread
    Root, RootGroup,  \* uid 0 and gid 0
    Operations,       \* the operations called
    GroupFailure,     \* whether sched_create_group may fail
    SchedBw,          \* bandwidth the kernel accepts for all groups together
    MIN_SRV_PERIOD    \* the smallest period accepted

\* Here the parameters have a budget as well.
Param == [Q : Nat, Q_min : Nat, P : Nat \ {0}, flags : SUBSET Flags]

ASSUME QresAssumption ==
    /\ Params \subseteq Param
    /\ NumServers # 0
    /\ Cred \in [Threads -> Credentials]
    /\ Operations \subseteq {"create", "destroy", "attach", "detach", "set_params",
                             "add_rule"}
    /\ GroupFailure \in BOOLEAN
    /\ SchedBw \in Nat
    /\ MIN_SRV_PERIOD \in Nat \ {0}
    /\ None \notin Servers
    /\ None \notin Threads

VARIABLES
    server_list,    \* the servers in the list, newest first
    server_id,      \* where the search for a free identifier starts
    qres,           \* the descriptors
    groups,         \* the scheduler group of each descriptor
    task_group,     \* the group of each thread, None for the initial group
    lock,           \* the thread that runs without having slept, or None
    thread          \* where each thread is in its handler

list_vars == <<server_list, server_id>>
qres_vars == <<vars, list_vars, qres, groups, task_group, lock, thread>>

-----------------------------------------------------------------------------
(* Data. *)

Listed == ToSet(server_list)

BlankQres == [id |-> 0, params |-> None, period |-> 0, owner |-> None, tg |-> None]

NoGroup == [state |-> "none", runtime |-> 0]
NewGroup == [state |-> "live", runtime |-> 0]

\* A thread outside the layer, and one that starts a handler for a server.
Outside == [pc |-> "idle", s |-> None, ask |-> None, rest |-> <<>>, q |-> 0,
            then |-> "idle"]
Enter(pc, s, param) == [Outside EXCEPT !.pc = pc, !.s = s, !.ask = param]

QresInit ==
    /\ Init
    /\ server_list = <<>>
    /\ server_id = 1
    /\ qres = [s \in Servers |-> BlankQres]
    /\ groups = [s \in Servers |-> NoGroup]
    /\ task_group = [t \in Threads |-> None]
    /\ lock = None
    /\ thread = [t \in Threads |-> Outside]

Accepted(param) == param.P >= MIN_SRV_PERIOD /\ param.Q <= param.P

\* The server every other task belongs to is for root to create.
MayCreate(t, param) ==
    "DEFAULT" \in param.flags => Cred[t][1] = Root \/ Cred[t][2] = RootGroup

Rounded(param) ==
    [param EXCEPT !.Q = RoundBudget(@, param.P), !.Q_min = RoundBudget(@, param.P)]

RequestOf(param) == r2bw(param.Q, param.P)

\* Variant: a server gets what it asks for.
Budget_Requested(s) == bw2Q(srv[s].req_bw, qres[s].period)

\* The budget a server is due: what the supervisor approves of its request.
Budget(s) == bw2Q(approved_bw(s), qres[s].period)

\* Variant: the identifier that comes next is not looked up.
NewId_Unchecked == server_id

\* Variant: the search starts after the last identifier given out.
NewId_Next ==
    CHOOSE n \in server_id + 1 .. server_id + NumServers + 1 :
        /\ \A s \in Listed : qres[s].id # n
        /\ \A m \in server_id + 1 .. n - 1 : \E s \in Listed : qres[s].id = m

\* The first identifier from server_id on that no listed server has.
NewId ==
    CHOOSE n \in server_id .. server_id + NumServers :
        /\ \A s \in Listed : qres[s].id # n
        /\ \A m \in server_id .. n - 1 : \E s \in Listed : qres[s].id = m

\* The kernel accepts a runtime that fits beside those of the other groups.
Load(g) == [s \in Servers |->
              IF g[s].state = "live" THEN r2bw(g[s].runtime, qres[s].period) ELSE 0]

Fits(s, q) ==
    Total(Load([groups EXCEPT ![s].runtime = q]), NumServers) <= SchedBw

\* A group that is not known, or that is freed, is used.  A null pointer stops
\* the kernel; freed memory may, or may take what is written to it.
Oops(s) ==
    /\ qres[s].tg = None \/ groups[s].state = "freed"
    /\ Fault

-----------------------------------------------------------------------------
(* Threads. *)

At(t, pc) ==
    /\ ~faulted
    /\ thread[t].pc = pc
    /\ lock \in {None, t}

Goto(t, local) == thread' = [thread EXCEPT ![t] = local]

Sleep == lock' = None
Hold(t) == lock' = t

\* Where a thread goes on that calls qres_update_bandwidths with these servers
\* in the list, and what it does afterwards.
Update(local, list, then) ==
    IF list = <<>> THEN [local EXCEPT !.pc = then]
    ELSE [local EXCEPT !.pc = "zero", !.rest = list, !.then = then]

\* The end of a handler that may have set bandwidths.
Finish(local) == IF local.pc = "idle" THEN Outside ELSE local

-----------------------------------------------------------------------------
(* qres_update_bandwidths: all runtimes are set to zero, then each to the  *)
(* budget approved.  Errors are ignored.                                   *)

\* The budget of a server is read before the thread may sleep, and set after.
Zero(t) ==
    LET me == thread[t]
        s  == Head(me.rest)
    IN  /\ At(t, "zero")
        /\ Sleep
        /\ \/ Oops(s) /\ UNCHANGED <<groups, thread>>
           \/ /\ qres[s].tg # None
              /\ groups' = [groups EXCEPT ![s].runtime = 0]
              /\ Goto(t, IF Tail(me.rest) # <<>>
                         THEN [me EXCEPT !.rest = Tail(@)]
                         ELSE [me EXCEPT !.pc = "apply", !.rest = server_list,
                                         !.q = Budget(Head(server_list))])
              /\ UNCHANGED vars
        /\ UNCHANGED <<list_vars, qres, task_group>>

\* Variants: every server gets the budget of the first; the list has no end.
NextBudget_First(me) ==
    IF Tail(me.rest) # <<>> THEN [me EXCEPT !.rest = Tail(@)]
    ELSE Finish([me EXCEPT !.pc = me.then, !.rest = <<>>, !.q = 0])

NextBudget_Endless(me) ==
    LET rest == IF Tail(me.rest) # <<>> THEN Tail(me.rest) ELSE server_list
    IN  [me EXCEPT !.rest = rest, !.q = Budget(Head(rest))]

\* The walk goes on, with the budget of the next server, or ends.
NextBudget(me) ==
    IF Tail(me.rest) # <<>>
    THEN [me EXCEPT !.rest = Tail(@), !.q = Budget(Head(Tail(me.rest)))]
    ELSE Finish([me EXCEPT !.pc = me.then, !.rest = <<>>, !.q = 0])

\* rres_set_budget for one server, and the budget of the next.  Its own test of
\* the total bandwidth never refuses: U_tot stays zero.
Apply(t) ==
    LET me == thread[t]
        s  == Head(me.rest)
    IN  /\ At(t, "apply")
        /\ Sleep
        /\ \/ Oops(s) /\ UNCHANGED <<groups, thread>>
           \/ /\ qres[s].tg # None
              /\ groups' = IF Fits(s, me.q) THEN [groups EXCEPT ![s].runtime = me.q]
                           ELSE groups
              /\ Goto(t, NextBudget(me))
              /\ UNCHANGED vars
        /\ UNCHANGED <<list_vars, qres, task_group>>

-----------------------------------------------------------------------------
(* qres_create_server, with qres_init_server.  A refusal by the supervisor *)
(* or of the parameters frees the descriptor and changes nothing.          *)

Create(t, s, param) ==
    /\ "create" \in Operations
    /\ At(t, "idle")
    /\ srv[s] = BlankServer
    /\ Accepted(param)
    /\ MayCreate(t, param)
    /\ InitServer(s, Cred[t][1], Cred[t][2], Rounded(param))
    /\ qres' = [qres EXCEPT ![s] = [BlankQres EXCEPT !.period = param.P]]
    /\ Goto(t, Enter("request", s, Rounded(param)))
    /\ Hold(t)
    /\ UNCHANGED <<list_vars, groups, task_group>>

\* The request is made; every listed server may have to give way.
Request(t) ==
    LET me == thread[t]
    IN  /\ At(t, "request")
        /\ SetRequiredBw(me.s, RequestOf(me.ask))
        /\ Goto(t, Update(me, server_list, "group"))
        /\ Sleep
        /\ UNCHANGED <<list_vars, qres, groups, task_group>>

\* The group is created and the server enters the list.
CreateGroup(t) ==
    LET me   == thread[t]
        list == <<me.s>> \o server_list
    IN  /\ At(t, "group")
        /\ groups' = [groups EXCEPT ![me.s] = NewGroup]
        /\ qres' = [qres EXCEPT ![me.s].id = NewId, ![me.s].params = me.ask,
                                ![me.s].owner = Cred[t], ![me.s].tg = me.s]
        /\ server_list' = list
        /\ server_id' = NewId
        /\ Goto(t, Update([me EXCEPT !.ask = None], list, "idle"))
        /\ Sleep
        /\ UNCHANGED <<vars, task_group>>

\* Variant: the server is left in the supervisor.
Withdraw_Not(s) == UNCHANGED vars
Withdraw(s) == CleanupServer(s)

\* The group is not created: the server is taken back, and OK is returned.
CreateGroupFails(t) ==
    LET me == thread[t]
    IN  /\ GroupFailure
        /\ At(t, "group")
        /\ Withdraw(me.s)
        /\ Goto(t, Finish(Update([me EXCEPT !.ask = None], server_list, "idle")))
        /\ Sleep
        /\ UNCHANGED <<list_vars, qres, groups, task_group>>

-----------------------------------------------------------------------------
(* The operations on a listed server; all but qres_set_params take one     *)
(* step.  The gateway looks the server up by its identifier.               *)

Authorized(t, s) == Cred[t][1] \in {Root, qres[s].owner[1]}

\* qres_destroy_server: the threads leave the group and the group goes.
Destroy(t, s) ==
    /\ "destroy" \in Operations
    /\ At(t, "idle")
    /\ qres[s].tg # None
    /\ \/ Oops(s) /\ UNCHANGED <<groups, task_group>>
       \/ /\ task_group' = [u \in Threads |-> IF task_group[u] = s THEN None
                                             ELSE task_group[u]]
          /\ groups' = [groups EXCEPT ![s].state = "freed"]
          /\ UNCHANGED vars
    /\ Goto(t, Outside)
    /\ UNCHANGED <<list_vars, qres, lock>>

\* A thread attaches itself, the only task find_task finds.
Attach(t, s) ==
    /\ "attach" \in Operations
    /\ At(t, "idle")
    /\ Authorized(t, s)
    /\ \/ Oops(s) /\ UNCHANGED task_group
       \/ /\ qres[s].tg # None
          /\ task_group' = [task_group EXCEPT ![t] = s]
          /\ UNCHANGED vars
    /\ Goto(t, Outside)
    /\ UNCHANGED <<list_vars, qres, groups, lock>>

Detach(t, s) ==
    /\ "detach" \in Operations
    /\ At(t, "idle")
    /\ Authorized(t, s)
    /\ task_group' = [task_group EXCEPT ![t] = None]
    /\ Goto(t, Outside)
    /\ UNCHANGED <<vars, list_vars, qres, groups, lock>>

\* qres_set_params starts: the request is acceptable.
MaySetParams(t, s, param) ==
    /\ "set_params" \in Operations
    /\ At(t, "idle")
    /\ Authorized(t, s)
    /\ Accepted(param)
    /\ param.flags = qres[s].params.flags

\* The guarantee, or the period, changes.
Readmitted(s, param) ==
    \/ Rounded(param).Q_min # qres[s].params.Q_min
    \/ param.P # qres[s].params.P

\* Variant: the new parameters are not recorded.
Recorded_Not(s, param) == qres
Recorded(s, param) == [qres EXCEPT ![s].params = param]

\* It does not: only the request changes.
SetRequest(t, s, param) ==
    /\ MaySetParams(t, s, param)
    /\ ~Readmitted(s, param)
    /\ SetRequiredBw(s, RequestOf(Rounded(param)))
    /\ qres' = Recorded(s, Rounded(param))
    /\ Goto(t, Outside)
    /\ UNCHANGED <<list_vars, groups, task_group, lock>>

\* Variant: another thread may run before the server is admitted again.
KeepLock_Released(t) == Sleep
KeepLock(t) == Hold(t)

\* It does: the server is taken out of the supervisor, which reports an error,
\* having taken its guarantee back all the same, when it was not in.
SetParams(t, s, param) ==
    /\ MaySetParams(t, s, param)
    /\ Readmitted(s, param)
    /\ CleanupServer(s)
    /\ IF s \in qsup_servers
       THEN /\ Goto(t, Enter("readmit", s, Rounded(param)))
            /\ KeepLock(t)
       ELSE Goto(t, Outside) /\ UNCHANGED lock
    /\ UNCHANGED <<list_vars, qres, groups, task_group>>

Readmissible(s, param) == Admissible(qres[s].owner[1], qres[s].owner[2], param)

\* qsup_init_server clears the pointer to the group.
Readmit(t, s, param) ==
    /\ InitServer(s, qres[s].owner[1], qres[s].owner[2], param)
    /\ qres' = [qres EXCEPT ![s].tg = None]
    /\ Goto(t, [thread[t] EXCEPT !.pc = "set"])
    /\ Hold(t)

\* It is admitted with its new guarantee,
ReadmitNew(t) ==
    /\ At(t, "readmit")
    /\ Readmit(t, thread[t].s, thread[t].ask)
    /\ UNCHANGED <<list_vars, groups, task_group>>

\* or, when that is refused, with its old one,
ReadmitOld(t) ==
    LET s == thread[t].s
    IN  /\ At(t, "readmit")
        /\ ~Readmissible(s, thread[t].ask)
        /\ Readmit(t, s, qres[s].params)
        /\ UNCHANGED <<list_vars, groups, task_group>>

\* or not at all.
ReadmitNone(t) ==
    LET s == thread[t].s
    IN  /\ At(t, "readmit")
        /\ ~Readmissible(s, thread[t].ask)
        /\ ~Readmissible(s, qres[s].params)
        /\ Goto(t, Outside)
        /\ Sleep
        /\ UNCHANGED <<vars, list_vars, qres, groups, task_group>>

\* The new request is made and the new parameters are recorded.
Set(t) ==
    LET me == thread[t]
    IN  /\ At(t, "set")
        /\ SetRequiredBw(me.s, RequestOf(me.ask))
        /\ qres' = Recorded(me.s, me.ask)
        /\ Goto(t, Outside)
        /\ Sleep
        /\ UNCHANGED <<list_vars, groups, task_group>>

\* An administrator adds a rule.
AddRule(g, constr) ==
    /\ "add_rule" \in Operations
    /\ ~faulted /\ lock = None
    /\ AddGroupRule(g, constr)
    /\ UNCHANGED <<list_vars, qres, groups, task_group, lock, thread>>

-----------------------------------------------------------------------------

Continue(t) ==
    \/ Zero(t)
    \/ Apply(t)
    \/ Request(t)
    \/ CreateGroup(t)
    \/ CreateGroupFails(t)
    \/ ReadmitNew(t)
    \/ ReadmitOld(t)
    \/ ReadmitNone(t)
    \/ Set(t)

Call(t) ==
    \/ \E s \in Servers, param \in Params : Create(t, s, param)
    \/ \E s \in Listed : Destroy(t, s) \/ Attach(t, s) \/ Detach(t, s)
    \/ \E s \in Listed, param \in Params : SetRequest(t, s, param) \/ SetParams(t, s, param)

QresNext ==
    \/ \E t \in Threads : Continue(t) \/ Call(t)
    \/ \E g \in Gids, constr \in Constraints : AddRule(g, constr)

\* A thread inside a handler gets the lock in its turn, and the processor.
Fairness == \A t \in Threads : SF_qres_vars(Continue(t))

SpecQres == QresInit /\ [][QresNext]_qres_vars /\ Fairness

-----------------------------------------------------------------------------
(* Properties. *)

Idle == \A t \in Threads : thread[t].pc = "idle"

\* The servers a thread is still creating, or admitting again.
Creating(t) == thread[t].pc \in {"request", "group"} \/ thread[t].then = "group"
Readmitting(t) == thread[t].pc \in {"readmit", "set"}
InHand == {thread[t].s : t \in {u \in Threads : Creating(u) \/ Readmitting(u)}}

QresTypeOK ==
    /\ TypeOK
    /\ Listed \subseteq Servers
    /\ IsInjective(server_list)
    /\ server_id \in 1 .. NumServers
    /\ \A s \in Servers :
          /\ qres[s].id \in 0 .. NumServers
          /\ qres[s].tg \in {None, s}
          /\ groups[s].state \in {"none", "live", "freed"}
          /\ groups[s].runtime \in Nat
    /\ \A t \in Threads : task_group[t] \in Listed \cup {None}
    /\ lock \in Threads \cup {None}

\* No two listed servers have the same identifier, although server_id is not
\* advanced when one is given out.
UniqueIds ==
    \A s, u \in Listed : s # u => qres[s].id # qres[u].id

\* No rule has been added since the servers were created.
RulesUnchanged == \A g \in Gids : group_rules[g] = None

\* The guarantee of a listed server is that of the parameters that are recorded
\* and that qres_get_params returns.  It is not when new parameters were refused:
\* they are recorded, and the server has its old guarantee (qres.c:621-631).
GuaranteesRecorded ==
    \A s \in Listed \ InHand : srv[s].gua_bw = MinBw(qres[s].params)

\* The list and the supervisor agree on which servers there are, but for those a
\* thread has in hand: a creation that fails leaves nothing behind, and a server
\* whose new parameters are refused is admitted again.
ListedAdmitted ==
    /\ Listed \ InHand \subseteq qsup_servers
    /\ qsup_servers \ InHand \subseteq Listed

\* However qres_set_params takes a server out of the supervisor and admits it
\* again, its guarantee is taken off the total once (qsup.c:423 is not guarded
\* against a server that is out already).
GuaranteesCounted == tot_gua_bw = SumOf(qsup_servers, GuaBw)

\* The supervisor stands for the listed servers: each is admitted, and its
\* guarantee counted, once (qres.c:617-624), until a rule is added or refused
\* parameters are recorded.
SupervisorAgrees ==
    RulesUnchanged /\ GuaranteesRecorded => ListedAdmitted /\ GuaranteesCounted

\* When no thread is inside a handler, every live group has the runtime its
\* server is approved for (qres_lib.h at qres_get_appr_budget).
BudgetsAsApproved ==
    Idle => \A s \in Listed : groups[s].state = "live" => groups[s].runtime = Budget(s)

\* A runtime about to be set always fits: the group of a server that is to give
\* way has given way before that of one that is to get more asks for it.
SettingFits ==
    \A t \in Threads :
        thread[t].pc = "apply" => Fits(Head(thread[t].rest), thread[t].q)

\* The request of a listed server in the supervisor is that of the parameters
\* that are recorded and that qres_get_params returns.
RequestsInForce ==
    ~faulted =>
        \A s \in (Listed \cap qsup_servers) \ InHand :
            srv[s].req_bw = bw_min(RequestOf(qres[s].params), srv[s].max_user_bw)

\* A handler returns, unless the kernel stops.
HandlersReturn ==
    \A t \in Threads : thread[t].pc # "idle" ~> thread[t].pc = "idle" \/ faulted
=============================================================================

-------------------------------- MODULE Qsup --------------------------------
(***************************************************************************)
(* The QoS supervisor (src/src/qsup.c): admission control of guaranteed    *)
(* bandwidth, and compression of the requests of users and levels that ask *)
(* for more than they may have.                                            *)
(*                                                                         *)
(* A server asks for bandwidth (req_bw) and may have a guaranteed minimum  *)
(* (gua_bw), of which it uses min(req_bw, gua_bw).  The servers of one     *)
(* user are compressed to the user's maximum, the users of one level to    *)
(* what is left of U_LUB by the levels above; only what is requested       *)
(* beyond the guaranteed minimum is compressed.  The supervisor keeps the  *)
(* per-user, per-level and global totals incrementally.                    *)
(*                                                                         *)
(* The actions below are the functions of qsup.c.  Module Qres composes    *)
(* them into the handlers of the reservation layer.                        *)
(***************************************************************************)
EXTENDS Bandwidth, Sums

CONSTANTS
    NumServers,   \* number of qsup_server_t descriptors
    NumUsers,     \* number of users
    Gids,         \* group ids
    Constraints,  \* the qsup_constraints_t an administrator configures
    Params,       \* the qres_params_t a server is created with
    Credentials,  \* the uid, gid pairs processes run with
    Requests,     \* bandwidths passed to qsup_set_required_bw
    LevelCaps,    \* bandwidths passed to qsup_add_level_rule
    Spares,       \* bandwidths passed to qsup_reserve_spare
    None          \* no rule, no user

Servers == 1 .. NumServers
Uids == 1 .. NumUsers
Levels == {0, 1}   \* MAX_NUM_LEVELS is 2; level 0 is served first
Flags == {"SOFT", "NOMULTI", "PERSISTENT", "DEFAULT"}
Bandwidths == 0 .. MAX_BW
Word == 0 .. WORD - 1

\* Only qsup_add_level_rule checks the number of a level. The level of a constraint indexes
\* qsup_levels unchecked (qsup_gw_ks.c:74-80, qsup.c:363-376), and 0 and 1 are those it has.
Constraint == [level : Levels, max_bw : Bandwidths, max_min_bw : Bandwidths,
               flags_mask : SUBSET Flags]

ASSUME QsupAssumption ==
    /\ NumServers \in Nat
    /\ NumUsers \in Nat
    /\ NumServers * MAX_BW < WORD
    /\ NumUsers * MAX_BW < WORD
    /\ Constraints \subseteq Constraint
    /\ \A p \in Params : /\ p.P \in Nat \ {0}
                         /\ p.Q_min \in 0 .. p.P
                         /\ p.flags \in SUBSET Flags
    /\ Credentials \subseteq Uids \X Gids
    /\ Requests \subseteq Bandwidths
    /\ LevelCaps \subseteq Bandwidths
    /\ Spares \subseteq Bandwidths
    /\ None \notin Constraint
    /\ None \notin Uids

VARIABLES
    group_rules,      \* the newest rule of each group
    user_rules,       \* the newest rule of each user
    spare_bw,         \* bandwidth withheld from admission
    qsup_servers,     \* the descriptors in the list of servers
    srv,              \* the descriptors
    qsup_users,       \* per-user totals and coefficient
    qsup_levels,      \* per-level totals and coefficient
    tot_gua_bw,       \* sum of the guarantees of accepted servers
    tot_used_gua_bw,  \* sum of the guarantees in use
    faulted           \* a divide error has stopped the kernel

rules == <<group_rules, user_rules, spare_bw>>
accounts == <<qsup_users, qsup_levels, tot_used_gua_bw>>
vars == <<rules, qsup_servers, srv, accounts, tot_gua_bw, faulted>>

-----------------------------------------------------------------------------
(* Data. *)

default_constraint == [level |-> 0, max_bw |-> U_LUB, max_min_bw |-> U_LUB,
                       flags_mask |-> {}]

\* A descriptor that is not in use.
BlankServer == [uid |-> None, level |-> 0, max_user_bw |-> 0, gua_bw |-> 0,
                used_gua_bw |-> 0, req_bw |-> 0]

\* get_user_info creates the record of a user on first use, with these values.
NewUser == [user_req |-> 0, user_coeff |-> COEFF_ONE, user_gua |-> 0,
            user_used_gua |-> 0]

NewLevel == [level_max |-> U_LUB, level_req |-> 0, level_sum |-> 0,
             level_coeff |-> COEFF_ONE, level_gua |-> 0]

Server == [uid : Uids \cup {None}, level : Levels, max_user_bw : Bandwidths,
           gua_bw : Bandwidths, used_gua_bw : Bandwidths, req_bw : Bandwidths]

\* A coefficient is not above its divisor's quotient, which fits a word.
User == [user_req : Word, user_coeff : Word, user_gua : Word,
         user_used_gua : Word]

Level == [level_max : 0 .. U_LUB, level_req : Word, level_sum : 0 .. U_LUB,
          level_coeff : Word, level_gua : Word]

Init ==
    /\ group_rules = [g \in Gids |-> None]
    /\ user_rules = [u \in Uids |-> None]
    /\ spare_bw = 0
    /\ qsup_servers = {}
    /\ srv = [s \in Servers |-> BlankServer]
    /\ qsup_users = [u \in Uids |-> NewUser]
    /\ qsup_levels = [l \in Levels |-> NewLevel]
    /\ tot_gua_bw = 0
    /\ tot_used_gua_bw = 0
    /\ faulted = FALSE

-----------------------------------------------------------------------------
(* Configuration. *)

\* The newest matching rule wins, user rules override group rules.
qsup_find_constr(uid, gid) ==
    CASE user_rules[uid] # None  -> user_rules[uid]
      [] user_rules[uid] = None /\ group_rules[gid] # None -> group_rules[gid]
      [] OTHER -> default_constraint

AddLevelRule(l, max_bw) ==
    /\ qsup_levels' = [qsup_levels EXCEPT ![l].level_max = bw_min(max_bw, U_LUB)]
    /\ UNCHANGED <<rules, qsup_servers, srv, qsup_users, tot_gua_bw,
                   tot_used_gua_bw, faulted>>

AddGroupRule(gid, constr) ==
    /\ group_rules' = [group_rules EXCEPT ![gid] = constr]
    /\ UNCHANGED <<user_rules, spare_bw, qsup_servers, srv, accounts,
                   tot_gua_bw, faulted>>

AddUserRule(uid, constr) ==
    /\ user_rules' = [user_rules EXCEPT ![uid] = constr]
    /\ UNCHANGED <<group_rules, spare_bw, qsup_servers, srv, accounts,
                   tot_gua_bw, faulted>>

\* Variant: a spare above U_LUB is not refused.
ReserveSpare_Unbounded(bw) ==
    /\ qsup_servers = {}
    /\ spare_bw' = bw
    /\ UNCHANGED <<group_rules, user_rules, qsup_servers, srv, accounts,
                   tot_gua_bw, faulted>>

\* Variant: the spare changes under active servers.
ReserveSpare_Anytime(bw) ==
    /\ bw <= U_LUB
    /\ spare_bw' = bw
    /\ UNCHANGED <<group_rules, user_rules, qsup_servers, srv, accounts,
                   tot_gua_bw, faulted>>

\* The spare changes only while no server is listed.
ReserveSpare(bw) ==
    /\ bw <= U_LUB
    /\ qsup_servers = {}
    /\ spare_bw' = bw
    /\ UNCHANGED <<group_rules, user_rules, qsup_servers, srv, accounts,
                   tot_gua_bw, faulted>>

-----------------------------------------------------------------------------
(* Admission. *)

MinBw(param) == r2bw_ceil(param.Q_min, param.P)

\* Variant: the schedulability test looks at the new server alone.
Admissible_Alone(uid, gid, param) ==
    LET constr == qsup_find_constr(uid, gid)
        min_bw == MinBw(param)
    IN  /\ param.flags \cap constr.flags_mask = {}
        /\ min_bw <= constr.max_min_bw
        /\ min_bw <= U_LUB - spare_bw

\* qsup_init_server returns QOS_OK.
Admissible(uid, gid, param) ==
    LET constr == qsup_find_constr(uid, gid)
        min_bw == MinBw(param)
        usr    == qsup_users[uid]
    IN  /\ param.flags \cap constr.flags_mask = {}
        /\ min_bw <= constr.max_min_bw
        /\ Wrap(tot_gua_bw + min_bw) <= U_LUB - spare_bw
        /\ Wrap(usr.user_gua + min_bw) <= U_LUB - spare_bw
        /\ Wrap(usr.user_gua + min_bw) <= constr.max_min_bw

\* The descriptor qsup_init_server fills in; the rule in force is copied.
NewServer(uid, gid, param) ==
    LET constr == qsup_find_constr(uid, gid)
    IN  [uid |-> uid, level |-> constr.level, max_user_bw |-> constr.max_bw,
         gua_bw |-> MinBw(param), used_gua_bw |-> 0, req_bw |-> 0]

\* qsup_init_server on a descriptor that is not in the list.
InitServer(s, uid, gid, param) ==
    /\ s \notin qsup_servers
    /\ Admissible(uid, gid, param)
    /\ srv' = [srv EXCEPT ![s] = NewServer(uid, gid, param)]
    /\ qsup_servers' = qsup_servers \cup {s}
    /\ tot_gua_bw' = Wrap(tot_gua_bw + MinBw(param))
    /\ UNCHANGED <<rules, accounts, faulted>>

-----------------------------------------------------------------------------
(* Requests: qsup_set_required_bw(srv, server_req). *)

\* The request, saturated to the maximum of the user.
Saturated(s, server_req) == bw_min(server_req, srv[s].max_user_bw)

\* The part of a request that is covered by the guaranteed minimum.
UsedGua(s, req) == bw_min(req, srv[s].gua_bw)

ServerAfter(s, req) ==
    [srv[s] EXCEPT !.req_bw = req, !.used_gua_bw = UsedGua(s, req)]

\* Totals change by the difference between the new and the old value.
UserReqAfter(s, req) ==
    Wrap(qsup_users[srv[s].uid].user_req - srv[s].req_bw + req)

\* Variant: the old value is not taken off.
UserGuaAfter_Added(s, req) ==
    Wrap(qsup_users[srv[s].uid].user_used_gua + UsedGua(s, req))

UserGuaAfter(s, req) ==
    Wrap(qsup_users[srv[s].uid].user_used_gua
           + UsedGua(s, req) - srv[s].used_gua_bw)

TotUsedGuaAfter(s, req) ==
    Wrap(tot_used_gua_bw + UsedGua(s, req) - srv[s].used_gua_bw)

\* What the user may have, and asks for, beyond the guaranteed minimums.
UserCompressed(s, req) == UserReqAfter(s, req) > srv[s].max_user_bw
UserRoom_Whole(s, req) == srv[s].max_user_bw   \* variant: guarantees not set aside
UserRoom(s, req) == Wrap(srv[s].max_user_bw - UserGuaAfter(s, req))
UserExcess(s, req) == Wrap(UserReqAfter(s, req) - UserGuaAfter(s, req))

\* Variant: the coefficient is not reset when the user fits again.
UserAfter_Sticky(s, req) ==
    [qsup_users[srv[s].uid] EXCEPT
        !.user_req = UserReqAfter(s, req),
        !.user_used_gua = UserGuaAfter(s, req),
        !.user_coeff = IF UserCompressed(s, req)
                       THEN coeff_compute(UserRoom(s, req), UserExcess(s, req))
                       ELSE @]

UserAfter(s, req) ==
    [qsup_users[srv[s].uid] EXCEPT
        !.user_req = UserReqAfter(s, req),
        !.user_used_gua = UserGuaAfter(s, req),
        !.user_coeff = IF UserCompressed(s, req)
                       THEN coeff_compute(UserRoom(s, req), UserExcess(s, req))
                       ELSE COEFF_ONE]

\* Variant: the user's request enters the level uncompressed.
LevelTotalsAfter_Uncapped(s, req) ==
    [qsup_levels[srv[s].level] EXCEPT
        !.level_req = Wrap(@ - srv[s].req_bw + req),
        !.level_gua = Wrap(@ + UsedGua(s, req) - srv[s].used_gua_bw)]

\* The level of the server, its request and guarantees brought up to date.
LevelTotalsAfter(s, req) ==
    LET max == srv[s].max_user_bw
        old == bw_min(qsup_users[srv[s].uid].user_req, max)
        new == bw_min(UserReqAfter(s, req), max)
    IN  [qsup_levels[srv[s].level] EXCEPT
            !.level_req = Wrap(@ - old + new),
            !.level_gua = Wrap(@ + UsedGua(s, req) - srv[s].used_gua_bw)]

\* What a level asks for, and what it gets: each level is served from what the
\* levels above have left.
Demand_Excess(lev) ==   \* variant: the guarantees are left out
    bw_min(lev.level_req - lev.level_gua, lev.level_max)
Demand(lev) == bw_min(lev.level_req, lev.level_max)

\* Variants: level 1 is served first; every level may use all of U_LUB.
Assigned_Reversed(levels, l) ==
    IF l = 1 THEN bw_min(Demand(levels[1]), U_LUB)
    ELSE bw_min(Demand(levels[0]), U_LUB - bw_min(Demand(levels[1]), U_LUB))

Assigned_Undivided(levels, l) == bw_min(Demand(levels[l]), U_LUB)

Assigned(levels, l) ==
    IF l = 0 THEN bw_min(Demand(levels[0]), U_LUB)
    ELSE bw_min(Demand(levels[1]), U_LUB - bw_min(Demand(levels[0]), U_LUB))

LevelCompressed_Empty(lev) == lev.level_req >= lev.level_gua   \* variant
LevelCompressed(lev) == lev.level_req > lev.level_gua
LevelRoom_Whole(levels, l) == Assigned(levels, l)   \* variant: guarantees not set aside
LevelRoom(levels, l) == Wrap(Assigned(levels, l) - levels[l].level_gua)
LevelExcess(lev) == Wrap(lev.level_req - lev.level_gua)

\* Every level is compressed anew.
Recompute(levels) ==
    [l \in Levels |->
        [levels[l] EXCEPT
            !.level_sum = Assigned(levels, l),
            !.level_coeff = IF LevelCompressed(levels[l])
                            THEN coeff_compute(LevelRoom(levels, l),
                                               LevelExcess(levels[l]))
                            ELSE COEFF_ONE]]

LevelsBefore(s, req) ==
    [qsup_levels EXCEPT ![srv[s].level] = LevelTotalsAfter(s, req)]

LevelsAfter(s, req) == Recompute(LevelsBefore(s, req))

\* One of the divisions faults.
Faults(s, req) ==
    \/ /\ UserCompressed(s, req)
       /\ CoeffFaults(UserRoom(s, req), UserExcess(s, req))
    \/ \E l \in Levels :
          LET levels == LevelsBefore(s, req)
          IN  /\ LevelCompressed(levels[l])
              /\ CoeffFaults(LevelRoom(levels, l), LevelExcess(levels[l]))

\* The totals a request changes.
SetAccounts(s, req) ==
    /\ qsup_users' = [qsup_users EXCEPT ![srv[s].uid] = UserAfter(s, req)]
    /\ qsup_levels' = LevelsAfter(s, req)
    /\ tot_used_gua_bw' = TotUsedGuaAfter(s, req)

\* A divide error in kernel mode: nothing runs after it.
Fault ==
    /\ faulted' = TRUE
    /\ UNCHANGED <<rules, qsup_servers, srv, accounts, tot_gua_bw>>

SetRequiredBw(s, server_req) ==
    LET req == Saturated(s, server_req)
    IN  \/ /\ Faults(s, req)
           /\ Fault
        \/ /\ ~Faults(s, req)
           /\ SetAccounts(s, req)
           /\ srv' = [srv EXCEPT ![s] = ServerAfter(s, req)]
           /\ UNCHANGED <<rules, qsup_servers, tot_gua_bw, faulted>>

\* Variant: the guaranteed part is compressed too.
approved_bw_Compressed(s) ==
    coeff_apply(coeff_apply(srv[s].req_bw, qsup_users[srv[s].uid].user_coeff),
                qsup_levels[srv[s].level].level_coeff)

\* qsup_get_approved_bw: what the server gets of what it asked for.
approved_bw(s) ==
    LET usr == qsup_users[srv[s].uid]
        lev == qsup_levels[srv[s].level]
    IN  Wrap(srv[s].used_gua_bw
               + coeff_apply(coeff_apply(srv[s].req_bw - srv[s].used_gua_bw,
                                         usr.user_coeff),
                             lev.level_coeff))

-----------------------------------------------------------------------------
(* Removal: qsup_cleanup_server, which takes the request back first, and   *)
(* qsup_destroy_server, which also frees the descriptor.  `left` is what   *)
(* the descriptor holds afterwards.  The guarantee is subtracted before    *)
(* the list is searched, so a descriptor that is not in the list takes its *)
(* guarantee off the total as well; nothing happens when the list is empty *)

TakeOut(s, left) ==
    /\ qsup_servers # {}
    /\ IF srv[s].req_bw = 0 THEN UNCHANGED accounts ELSE SetAccounts(s, 0)
    /\ srv' = [srv EXCEPT ![s] = left]
    /\ tot_gua_bw' = Wrap(tot_gua_bw - srv[s].gua_bw)
    /\ qsup_servers' = qsup_servers \ {s}
    /\ UNCHANGED <<rules, faulted>>

RemoveFaults(s) == srv[s].req_bw # 0 /\ Faults(s, 0)

RemoveServer(s, left) ==
    \/ RemoveFaults(s) /\ Fault
    \/ ~RemoveFaults(s) /\ TakeOut(s, left)

CleanupServer(s) == RemoveServer(s, ServerAfter(s, 0))
DestroyServer(s) == RemoveServer(s, BlankServer)

-----------------------------------------------------------------------------
(* The supervisor on its own: rules may change at any time, and servers    *)
(* are created, asked for and removed through its interface.               *)

Configure ==
    \/ \E l \in Levels, bw \in LevelCaps : AddLevelRule(l, bw)
    \/ \E g \in Gids, c \in Constraints : AddGroupRule(g, c)
    \/ \E u \in Uids, c \in Constraints : AddUserRule(u, c)
    \/ \E bw \in Spares : ReserveSpare(bw)

CreateServer ==
    \E s \in Servers, cred \in Credentials, p \in Params :
        InitServer(s, cred[1], cred[2], p)

Serve ==
    \/ CreateServer
    \/ \E s \in qsup_servers, bw \in Requests : SetRequiredBw(s, bw)
    \/ \E s \in qsup_servers : CleanupServer(s) \/ DestroyServer(s)

Next == ~faulted /\ (Configure \/ Serve)

Spec == Init /\ [][Next]_vars

-----------------------------------------------------------------------------
(* The sums the totals stand for.                                          *)

ServersOf(u) == {s \in qsup_servers : srv[s].uid = u}
ServersAt(l) == {s \in qsup_servers : srv[s].level = l}

SumOf(S, f) == Total(On(S, f, NumServers), NumServers)

GuaBw == [s \in Servers |-> srv[s].gua_bw]
UsedGuaBw == [s \in Servers |-> srv[s].used_gua_bw]
ReqBw == [s \in Servers |-> srv[s].req_bw]
ApprovedBw == [s \in Servers |-> IF s \in qsup_servers THEN approved_bw(s) ELSE 0]

\* What the users of a level ask for, each up to the user's own maximum.
CappedReq(l) ==
    [u \in Uids |->
        IF \E s \in ServersOf(u) : srv[s].level = l
        THEN bw_min(qsup_users[u].user_req,
                    srv[CHOOSE s \in ServersOf(u) : srv[s].level = l].max_user_bw)
        ELSE 0]

-----------------------------------------------------------------------------
(* What holds whatever the rules are and whenever they change.             *)

\* Every variable holds a value of its C type.
TypeOK ==
    /\ group_rules \in [Gids -> Constraints \cup {None}]
    /\ user_rules \in [Uids -> Constraints \cup {None}]
    /\ spare_bw \in 0 .. U_LUB
    /\ qsup_servers \in SUBSET Servers
    /\ srv \in [Servers -> Server]
    /\ \A s \in qsup_servers : srv[s].uid \in Uids
    /\ qsup_users \in [Uids -> User]
    /\ qsup_levels \in [Levels -> Level]
    /\ tot_gua_bw \in Word
    /\ tot_used_gua_bw \in Word
    /\ faulted \in BOOLEAN

\* The guarantees given out never exceed what may be given out (the
\* schedulability test of qsup_init_server), through any sequence of
\* creations, requests and destructions: qsup.c keeps only the running total.
GuaranteesSchedulable ==
    SumOf(qsup_servers, GuaBw) <= U_LUB - spare_bw

\* The incrementally kept totals are the sums they stand for, so they never
\* drift (the worry of the second @todo of qsup.c).
TotalsAreSums ==
    /\ tot_gua_bw = SumOf(qsup_servers, GuaBw)
    /\ tot_used_gua_bw = SumOf(qsup_servers, UsedGuaBw)
    /\ \A u \in Uids :
          /\ qsup_users[u].user_req = SumOf(ServersOf(u), ReqBw)
          /\ qsup_users[u].user_used_gua = SumOf(ServersOf(u), UsedGuaBw)
    /\ \A l \in Levels :
          qsup_levels[l].level_gua = SumOf(ServersAt(l), UsedGuaBw)

\* The levels together never get more than U_LUB (the loop of
\* qsup_set_required_bw hands each level only what is left).
LevelsWithinBound ==
    qsup_levels[0].level_sum + qsup_levels[1].level_sum <= U_LUB

-----------------------------------------------------------------------------
(* What an administrator must see to, and what holds then.  qsup.c checks  *)
(* none of this: the check of user_gua against max_min_bw looks at one     *)
(* server at a time, because nothing adds to user_gua.                     *)

WellConfigured ==
    \* The servers of a user were all created under the same rule.
    /\ \A s, t \in qsup_servers :
          srv[s].uid = srv[t].uid => /\ srv[s].level = srv[t].level
                                     /\ srv[s].max_user_bw = srv[t].max_user_bw
    \* A user's guarantees fit the user's maximum.
    /\ \A s \in qsup_servers :
          SumOf(ServersOf(srv[s].uid), GuaBw) <= srv[s].max_user_bw
    \* A level's guarantees fit the level's maximum.
    /\ \A l \in Levels :
          SumOf(ServersAt(l), GuaBw) <= qsup_levels[l].level_max
    \* The guarantees of level 1 are out of reach of level 0.
    /\ SumOf(ServersAt(1), GuaBw) <= U_LUB - qsup_levels[0].level_max

\* The supervisor under an administrator who keeps to that.
SpecWell == Init /\ [][Next /\ WellConfigured']_vars

\* No division faults.
NoFault == ~faulted

\* The request of a level is what its users ask for, each up to their maximum.
LevelReqIsSum ==
    \A l \in Levels : qsup_levels[l].level_req = Total(CappedReq(l), NumUsers)

\* The coefficient of a user is that of what its servers ask for now, whatever
\* they asked for before: an earlier compression leaves no trace.
UserCoeffCurrent ==
    \A s \in qsup_servers :
        LET req == SumOf(ServersOf(srv[s].uid), ReqBw)
            gua == SumOf(ServersOf(srv[s].uid), UsedGuaBw)
            max == srv[s].max_user_bw
        IN  qsup_users[srv[s].uid].user_coeff =
                IF req > max THEN coeff_compute(max - gua, req - gua)
                ELSE COEFF_ONE

\* Every guaranteed minimum in use is covered by what its level was assigned:
\* compression retains it.
GuaranteesBacked ==
    \A l \in Levels : qsup_levels[l].level_gua <= qsup_levels[l].level_sum

\* The servers of a user together get no more than the user's maximum, and
\* those of a level no more than the level was assigned, whatever the
\* truncations of the two coefficients.
ApprovedWithinUser ==
    \A s \in qsup_servers :
        SumOf(ServersOf(srv[s].uid), ApprovedBw) <= srv[s].max_user_bw

ApprovedWithinLevel ==
    \A l \in Levels :
        SumOf(ServersAt(l), ApprovedBw) <= qsup_levels[l].level_sum

\* All servers together get no more than U_LUB.
ApprovedWithinBound == SumOf(qsup_servers, ApprovedBw) <= U_LUB

\* A server gets at least the guarantee it uses, and no more than it asks for.
ApprovedBetween ==
    \A s \in qsup_servers :
        approved_bw(s) \in bw_min(srv[s].req_bw, srv[s].gua_bw) .. srv[s].req_bw

\* Nothing the supervisor divides or subtracts goes wrong: no division faults,
\* and the guarantees in use are covered by what is assigned (qsup.c:488, 535).
NothingWraps == NoFault /\ GuaranteesBacked

\* The requests and coefficients that are kept are those of what the servers ask
\* for now, of users and of levels, after any history (qsup.c:479-507).
RequestsCurrent == LevelReqIsSum /\ UserCoeffCurrent

\* What is approved keeps to every bound at once: each server's own, and those of
\* its user, its level and the system (qsup.c:578-590).
ApprovedSound ==
    /\ ApprovedBetween
    /\ ApprovedWithinUser
    /\ ApprovedWithinLevel
    /\ ApprovedWithinBound

-----------------------------------------------------------------------------
(* What a step may not do.                                                 *)

\* A request, or the end, of a server of level 1 takes nothing away from and
\* adds nothing to the servers of level 0, unless a level rule has changed
\* since the levels were last served.
PriorityIsolation ==
    [][\A s \in qsup_servers, t \in qsup_servers :
         /\ srv'[t] # srv[t]
         /\ srv[s].level = 0 /\ srv[t].level = 1
         /\ qsup_levels = Recompute(qsup_levels)
         => approved_bw(s)' = approved_bw(s)]_vars

-----------------------------------------------------------------------------
(* The counters of qsup.c implement admission control as module Admission  *)
(* states it.                                                              *)

Adm == INSTANCE Admission WITH
           NumClients <- NumServers,
           Capacity   <- U_LUB,
           spare      <- spare_bw,
           clients    <- qsup_servers,
           granted    <- On(qsup_servers, GuaBw, NumServers)

\* Every behaviour of the supervisor is one of admission control: a guarantee
\* is granted only if it fits beside those in force, and given back once.
ImplementsAdmission == Adm!Init /\ [][Adm!Next]_(Adm!avars)
=============================================================================

----------------------------- MODULE Qres_proofs -----------------------------
(***************************************************************************)
(* Theorems about the reservation layer, for every number of servers,      *)
(* users and threads, and any parameters, rules and scheduler.             *)
(*                                                                         *)
(* The layer calls the supervisor with parameters and requests of its own, *)
(* and goes on using a server that the supervisor has refused to admit     *)
(* again, so it is no behaviour of Qsup!Spec; the lemmas of Qsup_proofs    *)
(* about single operations are what carries over.                          *)
(***************************************************************************)
EXTENDS Qres, Qsup_proofs, FiniteSetTheorems

-----------------------------------------------------------------------------
(* The inductive invariant. *)

\* What the variables of the layer hold.
Descriptor == [id : Nat, params : Param \cup {None}, period : Nat,
               owner : Credentials \cup {None}, tg : Servers \cup {None}]

Group == [state : {"none", "live", "freed"}, runtime : Nat]

Steps == {"idle", "zero", "apply", "request", "group", "readmit", "set"}

Local == [pc : Steps, s : Servers \cup {None}, ask : Param \cup {None},
          rest : Seq(Servers), q : Nat, then : {"idle", "group"}]

LayerTyped ==
    /\ TypeOK
    /\ server_list \in Seq(Servers)
    /\ server_id \in Nat
    /\ qres \in [Servers -> Descriptor]
    /\ \A s \in Servers : qres[s].tg \in {None, s}
    /\ groups \in [Servers -> Group]
    /\ task_group \in [Threads -> Listed \cup {None}]
    /\ lock \in Threads \cup {None}
    /\ thread \in [Threads -> Local]

\* Servers enter at the head of the list and none leaves it, so they are
\* numbered from the tail.
ListNumbered ==
    /\ IsInjective(server_list)
    /\ server_id = IF server_list = <<>> THEN 1 ELSE Len(server_list)
    /\ \A i \in 1 .. Len(server_list) : qres[server_list[i]].id = Len(server_list) - i + 1
    /\ \A s \in Servers \ Listed : qres[s].id = 0
    /\ \A s \in Listed : /\ s \in InUse
                         /\ qres[s].params \in Param
                         /\ qres[s].owner \in Credentials

\* Where a thread is, and what it has in hand there.
ThreadOK(t) ==
    LET me == thread[t]
    IN  /\ me.pc = "idle" => me = Outside
        /\ me.pc \in {"zero", "apply"} => me.rest # <<>> /\ ToSet(me.rest) \subseteq Listed
        /\ me.pc \in {"request", "readmit", "set"} => lock = t /\ me.then = "idle"
        /\ Creating(t) => /\ me.s \in (InUse \cap qsup_servers) \ Listed
                          /\ me.ask \in Param
        /\ Readmitting(t) => me.s \in Listed /\ me.ask \in Param
        /\ me.pc = "readmit" => faulted \/ me.s \notin qsup_servers
        /\ me.pc = "set" => me.s \in qsup_servers

ThreadsInv ==
    /\ \A t \in Threads : ThreadOK(t)
    /\ \A t, u \in Threads : t # u /\ Creating(t) /\ Creating(u) => thread[t].s # thread[u].s

\* What the layer never configures keeps its default.
DefaultsKept ==
    /\ spare_bw = 0
    /\ \A u \in Uids : user_rules[u] = None /\ qsup_users[u].user_gua = 0
    /\ \A l \in Levels : qsup_levels[l].level_max = U_LUB
    /\ RulesUnchanged => \A s \in InUse : srv[s].level = 0 /\ srv[s].max_user_bw = U_LUB

\* What was asked for is what is, or is about to be, recorded.
RequestsMade ==
    ~faulted => \A t \in Threads :
        Creating(t) /\ thread[t].pc # "request" =>
            srv[thread[t].s].req_bw = bw_min(RequestOf(thread[t].ask),
                                             srv[thread[t].s].max_user_bw)

\* The servers that are in the list but out of the supervisor, for good.
Away == {s \in Listed \ qsup_servers :
            \A t \in Threads : thread[t].pc = "readmit" => thread[t].s # s}

\* While there are none, the supervisor stands for the listed servers, and one
\* that was taken out may have its guarantee back.
Agreed ==
    /\ TotalsInv
    /\ ~faulted => WellInv
    /\ tot_gua_bw <= U_LUB
    /\ qsup_servers \subseteq Listed \cup {thread[t].s : t \in {u \in Threads : Creating(u)}}
    /\ \A t \in Threads : thread[t].pc = "readmit" =>
          tot_gua_bw + srv[thread[t].s].gua_bw <= U_LUB

\* The first of them had other parameters recorded than it had its guarantee by.
RefusedInv ==
    RulesUnchanged =>
        IF Away = {} THEN Agreed
        ELSE \E s \in Away : srv[s].gua_bw # MinBw(qres[s].params)

LayerInv ==
    /\ LayerTyped
    /\ ListNumbered
    /\ ThreadsInv
    /\ DefaultsKept
    /\ RequestsMade
    /\ RequestsInForce
    /\ RefusedInv

-----------------------------------------------------------------------------
(* What the operators of the layer return. *)

\* Rounding parameters keeps them parameters.
LEMMA RoundedType ==
    ASSUME NEW param \in Param
    PROVE  /\ Rounded(param) \in Param
           /\ Rounded(param).P = param.P
<1>1. \A Q \in Nat, P \in Nat : bw2Q(Q, P) \in Nat
  BY BandwidthAssumption DEF bw2Q, ul_mul_shr, Wrap
<1>2. ASSUME NEW Q \in Nat
      PROVE  RoundBudget(Q, param.P) \in Nat
  <2>1. param.P \in Nat \ {0}
    BY DEF Param
  <2>2. Q * MAX_BW \in Nat
    BY BandwidthAssumption
  <2>3. ul_shl_div(Q, MAX_BW, param.P) \in Nat
    BY <2>1, <2>2, DivNat DEF ul_shl_div
  <2>4. Wrap(ul_shl_div(Q, MAX_BW, param.P) + 1) \in Nat
    BY <2>3, WrapType DEF Word
  <2>5. r2bw_ceil(Q, param.P) \in Nat
    BY <2>3, <2>4 DEF r2bw_ceil, ul_shl_ceil
  <2> QED
    BY <1>1, <2>1, <2>5 DEF RoundBudget
<1>3. param.Q \in Nat /\ param.Q_min \in Nat
  BY DEF Param
<1> QED
  BY <1>2, <1>3 DEF Rounded, Param

\* A request is a natural, and so is a guaranteed minimum.
LEMMA ParamFacts ==
    ASSUME NEW param \in Param
    PROVE  RequestOf(param) \in Nat /\ MinBw(param) \in Nat
<1>1. param.Q \in Nat /\ param.Q_min \in Nat /\ param.P \in Nat \ {0}
  BY DEF Param
<1>2. param.Q * MAX_BW \in Nat
  BY <1>1, BandwidthAssumption
<1> QED
  BY <1>1, <1>2, MinBwNat, DivNat DEF RequestOf, r2bw, ul_shl_div

\* So is a budget.
LEMMA BudgetType ==
    ASSUME LayerTyped, NEW s \in InUse
    PROVE  Budget(s) \in Nat
<1>1. /\ srv[s].req_bw \in Int /\ srv[s].used_gua_bw \in Int
      /\ qsup_users[srv[s].uid].user_coeff \in Int
      /\ qsup_levels[srv[s].level].level_coeff \in Int
      /\ qres[s].period \in Int
  <2>1. TypeOK /\ 0 \in Bandwidths
    BY BandwidthAssumption DEF LayerTyped, Bandwidths
  <2>2. /\ s \in Servers /\ srv[s].uid \in Uids /\ srv[s].level \in Levels
        /\ srv[s].req_bw \in Int /\ srv[s].used_gua_bw \in Int
    BY <2>1, ServerFacts DEF Bandwidths
  <2>3. qsup_users[srv[s].uid] \in User /\ qsup_levels[srv[s].level] \in Level
    BY <2>1, <2>2 DEF TypeOK
  <2>4. qres[s] \in Descriptor
    BY <2>2 DEF LayerTyped
  <2> QED
    BY <2>2, <2>3, <2>4 DEF User, Level, Word, Descriptor
<1>2. \A a \in Int, c \in Int : coeff_apply(a, c) \in Int
  <2> SUFFICES ASSUME NEW a \in Int, NEW c \in Int PROVE coeff_apply(a, c) \in Int
    OBVIOUS
  <2>1. a * c \in Int
    OBVIOUS
  <2> QED
    BY <2>1, BandwidthAssumption DEF coeff_apply, ul_mul_shr, Wrap
<1>3. approved_bw(s) \in Int
  <2>1. srv[s].req_bw - srv[s].used_gua_bw \in Int
    BY <1>1
  <2>2. coeff_apply(coeff_apply(srv[s].req_bw - srv[s].used_gua_bw,
                                qsup_users[srv[s].uid].user_coeff),
                    qsup_levels[srv[s].level].level_coeff) \in Int
    BY <1>1, <1>2, <2>1
  <2> QED
    BY <1>1, <2>2, BandwidthAssumption DEF approved_bw, Wrap
<1>4. approved_bw(s) * qres[s].period \in Int
  BY <1>1, <1>3
<1> QED
  BY <1>4, BandwidthAssumption DEF Budget, bw2Q, ul_mul_shr, Wrap

\* Where a thread goes on.
LEMMA UpdateFacts ==
    ASSUME NEW local \in Local, NEW list \in Seq(Servers), NEW then \in {"idle", "group"}
    PROVE  /\ Update(local, list, then) \in Local
           /\ Update(local, list, then).s = local.s
           /\ Update(local, list, then).ask = local.ask
           /\ list = <<>> => /\ Update(local, list, then).pc = then
                             /\ Update(local, list, then).then = local.then
           /\ list # <<>> => /\ Update(local, list, then).pc = "zero"
                             /\ Update(local, list, then).then = then
                             /\ Update(local, list, then).rest = list
BY DEF Update, Local, Steps

LEMMA OutsideFacts ==
    /\ Outside \in Local
    /\ Outside.pc = "idle"
    /\ Outside.then = "idle"
BY DEF Outside, Local, Steps

LEMMA EnterFacts ==
    ASSUME NEW pc \in Steps, NEW s \in Servers, NEW param \in Param
    PROVE  /\ Enter(pc, s, param) \in Local
           /\ Enter(pc, s, param).pc = pc
           /\ Enter(pc, s, param).s = s
           /\ Enter(pc, s, param).ask = param
           /\ Enter(pc, s, param).then = "idle"
BY OutsideFacts DEF Enter, Local, Outside

\* The members of a sequence.
LEMMA ToSetFacts ==
    ASSUME NEW S, NEW seq \in Seq(S)
    PROVE  /\ ToSet(seq) \subseteq S
           /\ \A i \in 1 .. Len(seq) : seq[i] \in ToSet(seq)
           /\ seq # <<>> => Head(seq) \in ToSet(seq)
           /\ seq # <<>> => /\ Tail(seq) \in Seq(S)
                            /\ ToSet(Tail(seq)) \subseteq ToSet(seq)
<1>1. \A i \in 1 .. Len(seq) : seq[i] \in ToSet(seq) /\ seq[i] \in S
  BY DEF ToSet
<1>2. ToSet(seq) \subseteq S
  BY <1>1 DEF ToSet
<1>3. ASSUME seq # <<>>
      PROVE  /\ Head(seq) \in ToSet(seq)
             /\ Tail(seq) \in Seq(S)
             /\ ToSet(Tail(seq)) \subseteq ToSet(seq)
  <2>1. Len(seq) >= 1 /\ Head(seq) = seq[1]
    BY <1>3
  <2>2. /\ Tail(seq) \in Seq(S)
        /\ Len(Tail(seq)) = Len(seq) - 1
        /\ \A i \in 1 .. Len(Tail(seq)) : Tail(seq)[i] = seq[i + 1]
    BY <1>3
  <2>3. ASSUME NEW x \in ToSet(Tail(seq))
        PROVE  x \in ToSet(seq)
    <3>1. PICK i \in 1 .. Len(Tail(seq)) : x = Tail(seq)[i]
      BY <2>2, <2>3 DEF ToSet
    <3>2. i + 1 \in 1 .. Len(seq) /\ x = seq[i + 1]
      BY <2>1, <2>2, <3>1
    <3> QED
      BY <1>1, <3>2
  <2> QED
    BY <1>1, <2>1, <2>2, <2>3
<1> QED
  BY <1>1, <1>2, <1>3

\* One put in front of a sequence.
LEMMA PrependFacts ==
    ASSUME NEW S, NEW seq \in Seq(S), NEW x \in S
    PROVE  /\ <<x>> \o seq \in Seq(S)
           /\ Len(<<x>> \o seq) = Len(seq) + 1
           /\ (<<x>> \o seq)[1] = x
           /\ \A i \in 2 .. Len(seq) + 1 : (<<x>> \o seq)[i] = seq[i - 1]
           /\ ToSet(<<x>> \o seq) = ToSet(seq) \cup {x}
<1> DEFINE new == <<x>> \o seq
<1>1. /\ new \in Seq(S)
      /\ Len(new) = Len(seq) + 1
      /\ new[1] = x
      /\ \A i \in 2 .. Len(seq) + 1 : new[i] = seq[i - 1]
  OBVIOUS
<1>2. DOMAIN new = 1 .. Len(seq) + 1 /\ DOMAIN seq = 1 .. Len(seq)
  BY <1>1
<1> HIDE DEF new
<1>3. ASSUME NEW y \in ToSet(seq)
      PROVE  y \in ToSet(new)
  <2>1. PICK i \in 1 .. Len(seq) : y = seq[i]
    BY <1>2, <1>3 DEF ToSet
  <2>2. i + 1 \in DOMAIN new /\ new[i + 1] = y
    BY <1>1, <1>2, <2>1
  <2> QED
    BY <2>2 DEF ToSet
<1>4. ASSUME NEW y \in ToSet(new)
      PROVE  y \in ToSet(seq) \cup {x}
  <2>1. PICK i \in 1 .. Len(seq) + 1 : y = new[i]
    BY <1>2, <1>4 DEF ToSet
  <2>2. CASE i = 1
    BY <1>1, <2>1, <2>2
  <2>3. CASE i # 1
    <3>1. i - 1 \in DOMAIN seq /\ y = seq[i - 1]
      BY <1>1, <1>2, <2>1, <2>3
    <3> QED
      BY <3>1 DEF ToSet
  <2> QED
    BY <2>2, <2>3
<1>5. x \in ToSet(new)
  <2>1. 1 \in DOMAIN new /\ new[1] = x
    BY <1>1, <1>2
  <2> QED
    BY <2>1 DEF ToSet
<1> QED
  BY <1>1, <1>3, <1>4, <1>5 DEF new

-----------------------------------------------------------------------------
(* What the layer does to the supervisor. *)

SupervisorStep ==
    \/ UNCHANGED vars
    \/ Fault
    \/ \E s \in Servers, uid \in Uids, gid \in Gids, param \in Param :
          InitServer(s, uid, gid, param)
    \/ \E s \in InUse, bw \in Nat : SetRequiredBw(s, bw)
    \/ \E s \in InUse : CleanupServer(s)
    \/ \E g \in Gids, c \in Constraints : AddGroupRule(g, c)

\* A server that is taken back keeps its descriptor.
LEMMA CleanupFacts ==
    ASSUME TypeOK, NEW s \in InUse
    PROVE  /\ ServerAfter(s, 0) \in Server
           /\ ServerAfter(s, 0).uid = srv[s].uid
           /\ ServerAfter(s, 0).level = srv[s].level
           /\ ServerAfter(s, 0).gua_bw = srv[s].gua_bw
           /\ ServerAfter(s, 0).max_user_bw = srv[s].max_user_bw
<1>1. 0 \in Bandwidths /\ srv[s] \in Server
  BY BandwidthAssumption DEF Bandwidths, TypeOK, InUse
<1> QED
  BY <1>1, ServerFacts DEF ServerAfter, Server

\* What a request and a removal leave of the descriptors.
LEMMA DescriptorsKept ==
    ASSUME TypeOK, NEW s \in InUse,
           CleanupServer(s) \/ \E bw \in Nat : SetRequiredBw(s, bw)
    PROVE  \A x \in Servers : /\ srv'[x].uid = srv[x].uid
                              /\ srv'[x].level = srv[x].level
                              /\ srv'[x].gua_bw = srv[x].gua_bw
                              /\ srv'[x].max_user_bw = srv[x].max_user_bw
<1>1. srv \in [Servers -> Server] /\ s \in Servers /\ srv[s] \in Server
  BY DEF TypeOK, InUse
<1>2. UNCHANGED srv \/ \E req : srv' = [srv EXCEPT ![s] = ServerAfter(s, req)]
  BY DEF CleanupServer, RemoveServer, TakeOut, SetRequiredBw, Fault
<1>3. \A req : /\ ServerAfter(s, req).uid = srv[s].uid
               /\ ServerAfter(s, req).level = srv[s].level
               /\ ServerAfter(s, req).gua_bw = srv[s].gua_bw
               /\ ServerAfter(s, req).max_user_bw = srv[s].max_user_bw
  BY <1>1 DEF ServerAfter, Server
<1> QED
  BY <1>1, <1>2, <1>3

\* It keeps the variables of the supervisor typed, and no descriptor is freed.
LEMMA SupervisorType ==
    ASSUME TypeOK, SupervisorStep
    PROVE  TypeOK' /\ InUse \subseteq InUse'
<1>1. CASE UNCHANGED vars
  BY <1>1 DEF vars, rules, accounts, TypeOK, InUse
<1>2. CASE Fault
  BY <1>2 DEF Fault, rules, accounts, TypeOK, InUse
<1>3. ASSUME NEW s \in Servers, NEW uid \in Uids, NEW gid \in Gids, NEW param \in Param,
             InitServer(s, uid, gid, param)
      PROVE  TypeOK' /\ InUse \subseteq InUse'
  <2>1. TypeOK'
    BY <1>3, ParamFacts, TypeInitServer
  <2>2. srv' = [srv EXCEPT ![s] = NewServer(uid, gid, param)] /\ srv \in [Servers -> Server]
    BY <1>3 DEF InitServer, TypeOK
  <2>3. NewServer(uid, gid, param).uid = uid
    BY DEF NewServer
  <2> QED
    BY <2>1, <2>2, <2>3 DEF InUse
<1>4. ASSUME NEW s \in InUse, NEW bw \in Nat, SetRequiredBw(s, bw)
      PROVE  TypeOK' /\ InUse \subseteq InUse'
  BY <1>4, TypeSetRequiredBw, DescriptorsKept DEF InUse
<1>5. ASSUME NEW s \in InUse, CleanupServer(s)
      PROVE  TypeOK' /\ InUse \subseteq InUse'
  <2>1. TypeOK'
    BY <1>5, CleanupFacts, TypeRemoveServer DEF CleanupServer
  <2> QED
    BY <1>5, <2>1, DescriptorsKept DEF InUse
<1>6. ASSUME NEW g \in Gids, NEW c \in Constraints, AddGroupRule(g, c)
      PROVE  TypeOK' /\ InUse \subseteq InUse'
  BY <1>6 DEF AddGroupRule, accounts, TypeOK, InUse
<1> QED
  BY <1>1, <1>2, <1>3, <1>4, <1>5, <1>6 DEF SupervisorStep

\* A request leaves the maximum of a level, and adds nothing to user_gua.
LEMMA AccountsDefaults ==
    ASSUME TypeOK, NEW s \in InUse, NEW req \in Bandwidths, SetAccounts(s, req)
    PROVE  /\ \A u \in Uids : qsup_users'[u].user_gua = qsup_users[u].user_gua
           /\ \A l \in Levels : qsup_levels'[l].level_max = qsup_levels[l].level_max
<1>1. /\ qsup_users \in [Uids -> User] /\ qsup_levels \in [Levels -> Level]
      /\ srv[s].uid \in Uids /\ srv[s].level \in Levels
  BY ServerFacts DEF TypeOK
<1>2. qsup_users' = [qsup_users EXCEPT ![srv[s].uid] = UserAfter(s, req)]
      /\ qsup_levels' = Recompute(LevelsBefore(s, req))
  BY DEF SetAccounts, LevelsAfter
<1>3. UserAfter(s, req).user_gua = qsup_users[srv[s].uid].user_gua
  <2>1. qsup_users[srv[s].uid] \in User
    BY <1>1
  <2> QED
    BY <2>1 DEF UserAfter, User
<1>4. LevelTotalsAfter(s, req).level_max = qsup_levels[srv[s].level].level_max
  <2>1. qsup_levels[srv[s].level] \in Level
    BY <1>1
  <2> QED
    BY <2>1 DEF LevelTotalsAfter, Level
<1>5. LevelsBefore(s, req) \in [Levels -> Level]
  BY <1>1, LevelTotalsType DEF LevelsBefore
<1>6. \A l \in Levels : LevelsBefore(s, req)[l].level_max = qsup_levels[l].level_max
  BY <1>1, <1>4 DEF LevelsBefore
<1>7. \A l \in Levels : qsup_levels'[l].level_max = LevelsBefore(s, req)[l].level_max
  BY <1>2, <1>5 DEF Recompute, Level
<1> QED
  BY <1>1, <1>2, <1>3, <1>6, <1>7

\* The default rule is in force as long as no rule is added.
LEMMA DefaultRule ==
    ASSUME DefaultsKept, RulesUnchanged, NEW uid \in Uids, NEW gid \in Gids
    PROVE  qsup_find_constr(uid, gid) = default_constraint
BY DEF DefaultsKept, RulesUnchanged, qsup_find_constr

\* What is not configured keeps its default.
LEMMA SupervisorDefaults ==
    ASSUME TypeOK, DefaultsKept, SupervisorStep
    PROVE  DefaultsKept' /\ (RulesUnchanged' => RulesUnchanged)
<1>1. ASSUME UNCHANGED <<rules, qsup_users, qsup_levels>>,
             RulesUnchanged => \A s \in InUse' : srv'[s].level = 0 /\ srv'[s].max_user_bw = U_LUB
      PROVE  DefaultsKept' /\ (RulesUnchanged' => RulesUnchanged)
  BY <1>1 DEF DefaultsKept, RulesUnchanged, rules
<1>2. CASE UNCHANGED vars \/ Fault
  <2>1. UNCHANGED <<rules, qsup_users, qsup_levels, srv>>
    BY <1>2 DEF vars, accounts, Fault
  <2> QED
    BY <1>1, <2>1 DEF DefaultsKept, InUse
<1>3. ASSUME NEW s \in Servers, NEW uid \in Uids, NEW gid \in Gids, NEW param \in Param,
             InitServer(s, uid, gid, param)
      PROVE  DefaultsKept' /\ (RulesUnchanged' => RulesUnchanged)
  <2>1. /\ srv' = [srv EXCEPT ![s] = NewServer(uid, gid, param)]
        /\ srv \in [Servers -> Server]
        /\ UNCHANGED <<rules, qsup_users, qsup_levels>>
    BY <1>3 DEF InitServer, TypeOK, accounts
  <2>2. RulesUnchanged => /\ NewServer(uid, gid, param).level = 0
                          /\ NewServer(uid, gid, param).max_user_bw = U_LUB
    BY DefaultRule DEF NewServer, default_constraint
  <2>3. RulesUnchanged => \A x \in InUse' : srv'[x].level = 0 /\ srv'[x].max_user_bw = U_LUB
    BY <2>1, <2>2 DEF DefaultsKept, InUse
  <2> QED
    BY <1>1, <2>1, <2>3
<1>4. ASSUME NEW s \in InUse, CleanupServer(s) \/ \E bw \in Nat : SetRequiredBw(s, bw)
      PROVE  DefaultsKept' /\ (RulesUnchanged' => RulesUnchanged)
  <2>1. /\ InUse' = InUse
        /\ \A x \in InUse : /\ srv'[x].level = srv[x].level
                            /\ srv'[x].max_user_bw = srv[x].max_user_bw
    BY <1>4, DescriptorsKept DEF InUse
  <2>2. 0 \in Bandwidths
    BY BandwidthAssumption DEF Bandwidths
  <2>3. UNCHANGED rules
    BY <1>4 DEF CleanupServer, RemoveServer, TakeOut, SetRequiredBw, Fault
  <2>4. UNCHANGED accounts \/ \E req \in Bandwidths : SetAccounts(s, req)
    BY <1>4, <2>2, SaturatedType
       DEF CleanupServer, RemoveServer, TakeOut, SetRequiredBw, Fault
  <2>5. /\ \A u \in Uids : qsup_users'[u].user_gua = qsup_users[u].user_gua
        /\ \A l \in Levels : qsup_levels'[l].level_max = qsup_levels[l].level_max
    BY <2>4, AccountsDefaults DEF accounts
  <2> QED
    BY <2>1, <2>3, <2>5 DEF DefaultsKept, RulesUnchanged, rules
<1>5. ASSUME NEW g \in Gids, NEW c \in Constraints, AddGroupRule(g, c)
      PROVE  DefaultsKept' /\ (RulesUnchanged' => RulesUnchanged)
  <2>1. c # None
    BY QsupAssumption
  <2>2. group_rules'[g] = c
    BY <1>5 DEF AddGroupRule, TypeOK
  <2>3. ~RulesUnchanged'
    BY <2>1, <2>2 DEF RulesUnchanged
  <2> QED
    BY <1>5, <2>3 DEF AddGroupRule, accounts, DefaultsKept
<1> QED
  BY <1>2, <1>3, <1>4, <1>5 DEF SupervisorStep

-----------------------------------------------------------------------------
(* The shape of the layer: its list, and what its threads have in hand. *)

ShapeInv == LayerTyped /\ ListNumbered /\ ThreadsInv

\* The identifier of the next server is one more than the number of servers,
\* although server_id is left at the last identifier given out.
LEMMA NewIdIs ==
    ASSUME LayerTyped, ListNumbered
    PROVE  NewId = Len(server_list) + 1
<1> DEFINE n0 == Len(server_list) + 1
           Free(n) == /\ \A s \in Listed : qres[s].id # n
                      /\ \A m \in server_id .. n - 1 : \E s \in Listed : qres[s].id = m
<1>1. /\ Len(server_list) \in Nat /\ NumServers \in Nat /\ NumServers >= 1
      /\ server_id \in Nat
      /\ server_list \in Seq(Servers)
      /\ server_id = IF server_list = <<>> THEN 1 ELSE Len(server_list)
      /\ \A i \in 1 .. Len(server_list) : qres[server_list[i]].id = Len(server_list) - i + 1
  <2>1. NumServers \in Nat /\ NumServers >= 1
    BY QsupAssumption, QresAssumption
  <2>2. server_list \in Seq(Servers) /\ server_id \in Nat
    BY DEF LayerTyped
  <2>3. Len(server_list) \in Nat
    BY <2>2
  <2>4. /\ server_id = IF server_list = <<>> THEN 1 ELSE Len(server_list)
        /\ \A i \in 1 .. Len(server_list) : qres[server_list[i]].id = Len(server_list) - i + 1
    BY DEF ListNumbered
  <2> QED
    BY <2>1, <2>2, <2>3, <2>4
<1>2. ASSUME NEW s \in Listed
      PROVE  qres[s].id \in 1 .. Len(server_list)
  <2>1. PICK i \in 1 .. Len(server_list) : s = server_list[i]
    BY <1>1, <1>2 DEF Listed, ToSet
  <2>2. qres[s].id = Len(server_list) - i + 1
    BY <1>1, <2>1
  <2> QED
    BY <1>1, <2>1, <2>2
<1>3. server_list # <<>> => \E s \in Listed : qres[s].id = Len(server_list)
  <2> SUFFICES ASSUME server_list # <<>>
               PROVE  \E s \in Listed : qres[s].id = Len(server_list)
    OBVIOUS
  <2>1. 1 \in 1 .. Len(server_list)
    BY <1>1
  <2>2. server_list[1] \in Listed
    BY <1>1, <2>1, ToSetFacts DEF Listed
  <2>3. qres[server_list[1]].id = Len(server_list)
    BY <1>1, <2>1
  <2> QED
    BY <2>2, <2>3
<1>4. n0 \in server_id .. server_id + NumServers
  <2>1. server_list = <<>> => Len(server_list) = 0
    BY <1>1
  <2> QED
    BY <1>1, <2>1
<1>5. Free(n0)
  <2>1. \A s \in Listed : qres[s].id # n0
    BY <1>1, <1>2
  <2>2. ASSUME NEW m \in server_id .. n0 - 1
        PROVE  \E s \in Listed : qres[s].id = m
    <3>1. server_list # <<>>
      BY <1>1, <2>2
    <3>2. m = Len(server_list)
      BY <1>1, <2>2, <3>1
    <3> QED
      BY <1>3, <3>1, <3>2
  <2> QED
    BY <2>1, <2>2
<1>6. ASSUME NEW n \in server_id .. server_id + NumServers, Free(n)
      PROVE  n = n0
  <2>1. n \in Nat
    BY <1>1
  <2>2. ~(n > n0)
    <3> SUFFICES ASSUME n > n0 PROVE FALSE
      OBVIOUS
    <3>1. n0 \in server_id .. n - 1
      BY <1>1, <1>4, <2>1
    <3>2. PICK s \in Listed : qres[s].id = n0
      BY <1>6, <3>1
    <3> QED
      BY <1>1, <1>2, <3>2
  <2>3. ~(n < n0)
    <3> SUFFICES ASSUME n < n0 PROVE FALSE
      OBVIOUS
    <3>1. server_list # <<>>
      BY <1>1, <1>6
    <3>2. n = Len(server_list)
      BY <1>1, <1>6, <2>1, <3>1
    <3> QED
      BY <1>3, <1>6, <3>1, <3>2
  <2> QED
    BY <1>1, <2>1, <2>2, <2>3
<1>7. NewId = CHOOSE n \in server_id .. server_id + NumServers : Free(n)
  BY DEF NewId
<1> HIDE DEF n0, Free
<1>8. NewId = n0
  BY <1>4, <1>5, <1>6, <1>7
<1> QED
  BY <1>8 DEF n0

\* No more servers are listed than there are.
LEMMA ListWithin ==
    ASSUME LayerTyped, ListNumbered
    PROVE  Len(server_list) \in 0 .. NumServers
<1> DEFINE S == 1 .. Len(server_list)
<1>1. NumServers \in Nat /\ Len(server_list) \in Nat
  BY QsupAssumption DEF LayerTyped
<1>2. server_list \in [S -> Servers]
  BY DEF LayerTyped
<1>3. server_list \in Injection(S, Servers)
  BY <1>2 DEF Injection, ListNumbered
<1>4. IsFiniteSet(Servers) /\ Cardinality(Servers) = NumServers
  BY <1>1, FS_Interval DEF Servers
<1>5. Cardinality(S) = Len(server_list)
  <2> DEFINE n == Len(server_list)
  <2> HIDE DEF n
  <2>1. n \in Nat
    BY <1>1 DEF n
  <2>2. Cardinality(1 .. n) = IF 1 > n THEN 0 ELSE n - 1 + 1
    BY <2>1, FS_Interval
  <2>3. Cardinality(1 .. n) = n
    BY <2>1, <2>2
  <2> QED
    BY <2>3 DEF n
<1>6. Cardinality(S) <= Cardinality(Servers)
  BY <1>3, <1>4, FS_Injection
<1> QED
  BY <1>1, <1>4, <1>5, <1>6

\* The other threads keep what they have in hand; a thread that runs is the
\* only one that may hold the lock.
LEMMA OthersKept ==
    ASSUME ThreadsInv, NEW t \in Threads, lock \in {None, t},
           NEW u \in Threads \ {t}, thread'[u] = thread[u],
           Listed \subseteq Listed', InUse \subseteq InUse',
           Creating(u) => thread[u].s \in qsup_servers' \ Listed'
    PROVE  ThreadOK(u)'
<1>1. ThreadOK(u) /\ lock # u
  BY QresAssumption DEF ThreadsInv
<1>2. thread[u].pc \notin {"request", "readmit", "set"}
  BY <1>1 DEF ThreadOK
<1> QED
  BY <1>1, <1>2 DEF ThreadOK, Creating, Readmitting

\* A step of thread t that leaves the list.
LEMMA ShapeStep ==
    ASSUME ShapeInv, SupervisorStep, NEW t \in Threads, lock \in {None, t},
           UNCHANGED list_vars,
           qres' \in [Servers -> Descriptor],
           \A s \in Servers : qres'[s].tg \in {None, s} /\ qres'[s].id = qres[s].id,
           \A s \in Listed : qres'[s].params \in Param /\ qres'[s].owner \in Credentials,
           groups' \in [Servers -> Group],
           task_group' \in [Threads -> Listed \cup {None}],
           lock' \in {None, t},
           NEW local \in Local, thread' = [thread EXCEPT ![t] = local],
           \A u \in Threads \ {t} : Creating(u) =>
              thread[u].s \in qsup_servers' /\ (Creating(t)' => thread[u].s # local.s),
           ThreadOK(t)'
    PROVE  ShapeInv'
<1>1. TypeOK' /\ InUse \subseteq InUse'
  BY SupervisorType DEF ShapeInv, LayerTyped
<1>2. Listed' = Listed /\ server_list' = server_list /\ server_id' = server_id
  BY DEF list_vars, Listed
<1>3. thread \in [Threads -> Local]
  BY DEF ShapeInv, LayerTyped
<1>4. thread'[t] = local /\ \A u \in Threads \ {t} : thread'[u] = thread[u]
  BY <1>3
<1>5. LayerTyped'
  <2>1. thread' \in [Threads -> Local]
    BY <1>3
  <2>2. server_list' \in Seq(Servers) /\ server_id' \in Nat
    BY <1>2 DEF ShapeInv, LayerTyped
  <2> QED
    BY <1>1, <1>2, <2>1, <2>2 DEF LayerTyped
<1>6. ListNumbered'
  <2>1. \A i \in 1 .. Len(server_list) : server_list[i] \in Servers
    BY DEF ShapeInv, LayerTyped
  <2> QED
    BY <1>1, <1>2, <2>1 DEF ShapeInv, ListNumbered
<1>7. ThreadsInv'
  <2>1. ASSUME NEW u \in Threads \ {t}
        PROVE  ThreadOK(u)'
    <3>1. Creating(u) => thread[u].s \notin Listed
      BY DEF ShapeInv, ThreadsInv, ThreadOK
    <3> QED
      BY <1>1, <1>2, <1>4, <3>1, OthersKept DEF ShapeInv
  <2>2. \A u, v \in Threads : u # v /\ Creating(u)' /\ Creating(v)' => thread'[u].s # thread'[v].s
    BY <1>4 DEF ShapeInv, ThreadsInv, Creating
  <2> QED
    BY <2>1, <2>2 DEF ThreadsInv
<1> QED
  BY <1>5, <1>6, <1>7 DEF ShapeInv

\* What a step of thread t may rely on.
LEMMA ShapeFacts ==
    ASSUME ShapeInv, NEW t \in Threads
    PROVE  /\ TypeOK
           /\ thread \in [Threads -> Local] /\ thread[t] \in Local
           /\ qres \in [Servers -> Descriptor]
           /\ \A s \in Servers : qres[s].tg \in {None, s}
           /\ groups \in [Servers -> Group]
           /\ task_group \in [Threads -> Listed \cup {None}]
           /\ server_list \in Seq(Servers)
           /\ Listed \subseteq Servers /\ Listed \subseteq InUse
           /\ \A s \in Listed : qres[s].params \in Param /\ qres[s].owner \in Credentials
           /\ ThreadOK(t)
           /\ \A u \in Threads \ {t} : Creating(u) =>
                 /\ thread[u].s \in qsup_servers \ Listed
                 /\ Creating(t) => thread[u].s # thread[t].s
           /\ server_list # <<>> <=> Listed # {}
           /\ server_list # <<>> => Head(server_list) \in Listed
<1>1. server_list \in Seq(Servers)
  BY DEF ShapeInv, LayerTyped
<1>2. /\ Listed \subseteq Servers
      /\ server_list # <<>> => Head(server_list) \in Listed
      /\ server_list = <<>> => Listed = {}
  BY <1>1, ToSetFacts DEF Listed, ToSet
<1>3. \A u \in Threads \ {t} : Creating(u) =>
         /\ thread[u].s \in qsup_servers \ Listed
         /\ Creating(t) => thread[u].s # thread[t].s
  BY DEF ShapeInv, ThreadsInv, ThreadOK
<1>4. /\ TypeOK
      /\ thread \in [Threads -> Local] /\ thread[t] \in Local
      /\ qres \in [Servers -> Descriptor]
      /\ \A s \in Servers : qres[s].tg \in {None, s}
      /\ groups \in [Servers -> Group]
      /\ task_group \in [Threads -> Listed \cup {None}]
  BY DEF ShapeInv, LayerTyped
<1>5. /\ \A s \in Listed : qres[s].params \in Param /\ qres[s].owner \in Credentials
      /\ Listed \subseteq InUse
      /\ ThreadOK(t)
  BY DEF ShapeInv, ListNumbered, ThreadsInv
<1> QED
  BY <1>1, <1>2, <1>3, <1>4, <1>5

\* A thread that uses a group that is not there stops the system where it is.
LEMMA ShapeOops ==
    ASSUME ShapeInv, NEW t \in Threads, lock \in {None, t}, Fault,
           thread[t].pc \notin {"request", "readmit", "set"},
           UNCHANGED <<list_vars, qres, groups, task_group>>, lock' \in {None, t},
           thread' = thread \/ (thread[t].pc = "idle" /\ thread' = [thread EXCEPT ![t] = Outside])
    PROVE  SupervisorStep /\ ShapeInv'
<1> USE ShapeFacts
<1>1. SupervisorStep
  BY DEF SupervisorStep
<1>2. thread' = [thread EXCEPT ![t] = thread[t]]
  BY DEF ThreadOK
<1>3. qsup_servers' = qsup_servers /\ InUse' = InUse /\ Listed' = Listed
  BY DEF Fault, list_vars, InUse, Listed
<1>4. thread' = thread
  BY <1>2
<1>5. ThreadOK(t)'
  BY <1>3, <1>4 DEF ThreadOK, Creating, Readmitting
<1> QED
  BY <1>1, <1>2, <1>3, <1>4, <1>5, ShapeStep DEF ListNumbered, ShapeInv, Creating

\* A step of a thread that changes nothing of the supervisor, the list or the
\* descriptors.
LEMMA ShapeQuiet ==
    ASSUME ShapeInv, NEW t \in Threads, lock \in {None, t},
           UNCHANGED <<vars, list_vars, qres>>,
           groups' \in [Servers -> Group],
           task_group' \in [Threads -> Listed \cup {None}],
           lock' \in {None, t},
           NEW local \in Local, thread' = [thread EXCEPT ![t] = local],
           Creating(t)' => Creating(t) /\ local.s = thread[t].s,
           ThreadOK(t)'
    PROVE  SupervisorStep /\ ShapeInv'
<1>1. SupervisorStep
  BY DEF SupervisorStep
<1>2. /\ qres' \in [Servers -> Descriptor]
      /\ \A s \in Servers : qres'[s].tg \in {None, s} /\ qres'[s].id = qres[s].id
      /\ \A s \in Listed : qres'[s].params \in Param /\ qres'[s].owner \in Credentials
  BY ShapeFacts
<1>3. \A u \in Threads \ {t} : Creating(u) =>
         thread[u].s \in qsup_servers' /\ (Creating(t)' => thread[u].s # local.s)
  BY ShapeFacts DEF vars
<1> QED
  BY <1>1, <1>2, <1>3, ShapeStep

LEMMA ShapeZero ==
    ASSUME ShapeInv, NEW t \in Threads, Zero(t)
    PROVE  SupervisorStep /\ ShapeInv'
<1> DEFINE me == thread[t]
           s == Head(me.rest)
<1>1. /\ me.pc = "zero" /\ lock \in {None, t} /\ lock' = None
      /\ UNCHANGED <<list_vars, qres, task_group>>
  BY DEF Zero, At, Sleep
<1>2. CASE Fault /\ UNCHANGED <<groups, thread>>
  BY <1>1, <1>2, ShapeOops
<1>3. ASSUME NEW local, UNCHANGED vars, groups' = [groups EXCEPT ![s].runtime = 0],
             thread' = [thread EXCEPT ![t] = local],
             IF Tail(me.rest) # <<>> THEN local = [me EXCEPT !.rest = Tail(@)]
             ELSE local = [me EXCEPT !.pc = "apply", !.rest = server_list,
                                     !.q = Budget(Head(server_list))]
      PROVE  SupervisorStep /\ ShapeInv'
  <2>2. me \in Local /\ me.rest \in Seq(Servers) /\ me.rest # <<>> /\ ToSet(me.rest) \subseteq Listed
    BY <1>1, ShapeFacts DEF ThreadOK, Local
  <2>3. /\ s \in Listed /\ Tail(me.rest) \in Seq(Servers)
        /\ ToSet(Tail(me.rest)) \subseteq Listed
    BY <2>2, ToSetFacts
  <2>4. /\ server_list \in Seq(Servers) /\ server_list # <<>>
        /\ Budget(Head(server_list)) \in Nat
    <3>1. server_list # <<>> /\ Head(server_list) \in InUse
      BY <2>3, ShapeFacts
    <3> QED
      BY <3>1, ShapeFacts, BudgetType DEF ShapeInv
  <2>5. /\ local \in Local /\ local.pc \in {"zero", "apply"}
        /\ local.s = me.s /\ local.ask = me.ask /\ local.then = me.then
        /\ local.rest # <<>> /\ ToSet(local.rest) \subseteq Listed
    BY <1>1, <1>3, <2>2, <2>3, <2>4 DEF Local, Steps, Listed
  <2>6. qsup_servers' = qsup_servers /\ InUse' = InUse /\ Listed' = Listed /\ thread'[t] = local
    BY <1>1, <1>3, ShapeFacts DEF vars, list_vars, InUse, Listed
  <2>7. Creating(t)' <=> Creating(t)
    BY <1>1, <2>5, <2>6 DEF Creating
  <2>8. ThreadOK(t)'
    BY <1>1, <2>5, <2>6, <2>7, ShapeFacts DEF ThreadOK, Readmitting
  <2>9. groups' \in [Servers -> Group]
    BY <1>3, <2>3, ShapeFacts DEF Group
  <2>10. task_group' \in [Threads -> Listed \cup {None}]
    BY <1>1, ShapeFacts
  <2> QED
    BY <1>1, <1>3, <2>5, <2>7, <2>8, <2>9, <2>10, ShapeQuiet
<1> QED
  BY <1>2, <1>3 DEF Zero, Oops, Goto

LEMMA ShapeApply ==
    ASSUME ShapeInv, NEW t \in Threads, Apply(t)
    PROVE  SupervisorStep /\ ShapeInv'
<1> DEFINE me == thread[t]
           s == Head(me.rest)
<1>1. /\ me.pc = "apply" /\ lock \in {None, t} /\ lock' = None
      /\ UNCHANGED <<list_vars, qres, task_group>>
  BY DEF Apply, At, Sleep
<1>2. CASE Fault /\ UNCHANGED <<groups, thread>>
  BY <1>1, <1>2, ShapeOops
<1>3. CASE /\ UNCHANGED vars
           /\ groups' = IF Fits(s, me.q) THEN [groups EXCEPT ![s].runtime = me.q] ELSE groups
           /\ thread' = [thread EXCEPT ![t] = NextBudget(me)]
  <2>1. me \in Local /\ me.rest \in Seq(Servers) /\ me.rest # <<>> /\ ToSet(me.rest) \subseteq Listed
    BY <1>1, ShapeFacts DEF ThreadOK, Local
  <2>2. /\ s \in Listed /\ Tail(me.rest) \in Seq(Servers)
        /\ ToSet(Tail(me.rest)) \subseteq Listed
    BY <2>1, ToSetFacts
  <2>3. groups' \in [Servers -> Group]
    <3>1. me.q \in Nat
      BY <2>1 DEF Local
    <3> QED
      BY <1>3, <2>2, <3>1, ShapeFacts DEF Group
  <2>4. task_group' \in [Threads -> Listed \cup {None}]
    BY <1>1, ShapeFacts
  <2>5. qsup_servers' = qsup_servers /\ InUse' = InUse /\ Listed' = Listed
    BY <1>1, <1>3 DEF vars, list_vars, InUse, Listed
  <2>6. CASE Tail(me.rest) # <<>>
    <3> DEFINE local == [me EXCEPT !.rest = Tail(@), !.q = Budget(Head(Tail(me.rest)))]
    <3>1. Budget(Head(Tail(me.rest))) \in Nat
      <4>1. Head(Tail(me.rest)) \in ToSet(Tail(me.rest))
        BY <2>2, <2>6, ToSetFacts
      <4>2. Head(Tail(me.rest)) \in InUse
        BY <2>2, <4>1, ShapeFacts
      <4> QED
        BY <4>2, BudgetType DEF ShapeInv
    <3>2. /\ local \in Local /\ local.pc = "apply"
          /\ local.s = me.s /\ local.ask = me.ask /\ local.then = me.then
          /\ local.rest # <<>> /\ ToSet(local.rest) \subseteq Listed
      BY <1>1, <2>1, <2>2, <2>6, <3>1 DEF Local
    <3>3. thread' = [thread EXCEPT ![t] = local]
      BY <1>3, <2>6 DEF NextBudget
    <3> HIDE DEF local
    <3>4. thread'[t] = local
      BY <3>3, ShapeFacts
    <3>5. Creating(t)' <=> Creating(t)
      BY <1>1, <3>2, <3>4 DEF Creating
    <3>6. ThreadOK(t)'
      BY <1>1, <2>5, <3>2, <3>4, <3>5, ShapeFacts DEF ThreadOK, Readmitting
    <3> QED
      BY <1>1, <1>3, <2>3, <2>4, <3>2, <3>3, <3>5, <3>6, ShapeQuiet
  <2>7. CASE Tail(me.rest) = <<>>
    <3> DEFINE over == [me EXCEPT !.pc = me.then, !.rest = <<>>, !.q = 0]
    <3>1. /\ over \in Local /\ over.pc = me.then /\ over.then = me.then
          /\ over.s = me.s /\ over.ask = me.ask
      <4>1. me.then \in {"idle", "group"} /\ me.then \in Steps
        BY <2>1 DEF Local, Steps
      <4>2. <<>> \in Seq(Servers) /\ 0 \in Nat
        OBVIOUS
      <4> QED
        BY <2>1, <4>1, <4>2 DEF Local
    <3>2. thread' = [thread EXCEPT ![t] = Finish(over)]
      BY <1>3, <2>7 DEF NextBudget
    <3> HIDE DEF over
    <3>3. CASE me.then = "idle"
      <4>1. thread' = [thread EXCEPT ![t] = Outside] /\ thread'[t] = Outside
        BY <3>1, <3>2, <3>3, ShapeFacts DEF Finish
      <4>2. ~Creating(t)' /\ ThreadOK(t)'
        BY <4>1, OutsideFacts DEF Creating, Readmitting, ThreadOK
      <4> QED
        BY <1>1, <1>3, <2>3, <2>4, <4>1, <4>2, OutsideFacts, ShapeQuiet
    <3>4. CASE me.then = "group"
      <4>1. thread' = [thread EXCEPT ![t] = over] /\ thread'[t] = over
        BY <3>1, <3>2, <3>4, ShapeFacts DEF Finish
      <4>2. Creating(t)
        BY <3>4 DEF Creating
      <4>3. ThreadOK(t)'
        BY <2>5, <3>1, <3>4, <4>1, <4>2, ShapeFacts DEF ThreadOK, Creating, Readmitting
      <4> QED
        BY <1>1, <1>3, <2>3, <2>4, <3>1, <4>1, <4>2, <4>3, ShapeQuiet
    <3> QED
      BY <2>1, <3>3, <3>4 DEF Local
  <2> QED
    BY <2>6, <2>7
<1> QED
  BY <1>2, <1>3 DEF Apply, Oops, Goto

\* Creation: a descriptor nobody has in hand is admitted.
LEMMA ShapeCreate ==
    ASSUME ShapeInv, NEW t \in Threads, NEW s \in Servers, NEW param \in Params,
           Create(t, s, param)
    PROVE  SupervisorStep /\ ShapeInv'
<1> DEFINE local == Enter("request", s, Rounded(param))
<1>1. /\ thread[t].pc = "idle" /\ lock \in {None, t} /\ lock' = t
      /\ srv[s] = BlankServer
      /\ InitServer(s, Cred[t][1], Cred[t][2], Rounded(param))
      /\ qres' = [qres EXCEPT ![s] = [BlankQres EXCEPT !.period = param.P]]
      /\ thread' = [thread EXCEPT ![t] = local]
      /\ UNCHANGED <<list_vars, groups, task_group>>
  BY DEF Create, At, Goto, Hold
<1>2. /\ param \in Param /\ Rounded(param) \in Param
      /\ Cred[t][1] \in Uids /\ Cred[t][2] \in Gids
  BY QresAssumption, QsupAssumption, RoundedType
<1>3. SupervisorStep
  BY <1>1, <1>2 DEF SupervisorStep
<1>4. s \notin InUse /\ s \notin Listed
  BY <1>1, QsupAssumption, ShapeFacts DEF InUse, BlankServer
<1>5. /\ local \in Local /\ local.pc = "request" /\ local.then = "idle"
      /\ local.s = s /\ local.ask = Rounded(param)
  BY <1>2, EnterFacts DEF Steps
<1> HIDE DEF local
<1>6. /\ thread'[t] = local
      /\ Listed' = Listed
      /\ qsup_servers' = qsup_servers \cup {s}
  BY <1>1, ShapeFacts DEF InitServer, list_vars, Listed
<1>7. s \in InUse'
  <2>1. srv' = [srv EXCEPT ![s] = NewServer(Cred[t][1], Cred[t][2], Rounded(param))]
        /\ srv \in [Servers -> Server]
    BY <1>1, ShapeFacts DEF InitServer, TypeOK
  <2>2. srv'[s].uid = Cred[t][1]
    BY <2>1 DEF NewServer
  <2> QED
    BY <1>2, <2>2 DEF InUse
<1>8. ThreadOK(t)'
  BY <1>1, <1>2, <1>4, <1>5, <1>6, <1>7 DEF ThreadOK, Creating, Readmitting
<1>9. [BlankQres EXCEPT !.period = param.P] \in Descriptor
      /\ [BlankQres EXCEPT !.period = param.P].tg = None
      /\ [BlankQres EXCEPT !.period = param.P].id = 0
  BY <1>2 DEF BlankQres, Descriptor, Param
<1>10. /\ qres' \in [Servers -> Descriptor]
       /\ \A x \in Servers : qres'[x].tg \in {None, x} /\ qres'[x].id = qres[x].id
       /\ \A x \in Listed : qres'[x].params \in Param /\ qres'[x].owner \in Credentials
  <2>1. qres[s].id = 0
    BY <1>4 DEF ShapeInv, ListNumbered
  <2>2. \A x \in Servers : x # s => qres'[x] = qres[x]
    BY <1>1, ShapeFacts
  <2>3. qres'[s] = [BlankQres EXCEPT !.period = param.P]
    BY <1>1, ShapeFacts
  <2>4. qres' \in [Servers -> Descriptor]
    BY <1>1, <1>9, ShapeFacts
  <2>5. \A x \in Listed : x # s
    BY <1>4
  <2> HIDE DEF ShapeInv
  <2> QED
    BY <1>9, <2>1, <2>2, <2>3, <2>4, <2>5, ShapeFacts
<1>11. /\ groups' \in [Servers -> Group]
       /\ task_group' \in [Threads -> Listed \cup {None}]
  BY <1>1, ShapeFacts
<1>12. \A u \in Threads \ {t} : Creating(u) =>
          thread[u].s \in qsup_servers' /\ thread[u].s # local.s
  <2>1. \A u \in Threads \ {t} : Creating(u) => thread[u].s \in qsup_servers /\ thread[u].s \in InUse
    BY DEF ShapeInv, ThreadsInv, ThreadOK
  <2> QED
    BY <1>4, <1>5, <1>6, <2>1
<1> QED
  BY <1>1, <1>3, <1>5, <1>8, <1>10, <1>11, <1>12, ShapeStep

\* A thread that has left its handler has nothing in hand.
LEMMA OutsideOK ==
    ASSUME NEW t \in Threads, thread'[t] = Outside
    PROVE  ~Creating(t)' /\ ThreadOK(t)'
BY OutsideFacts DEF Creating, Readmitting, ThreadOK

\* A request leaves the list of the supervisor, and a removal takes at most the
\* server out of it.
LEMMA SupervisorList ==
    ASSUME NEW s \in Servers
    PROVE  /\ \A bw \in Nat : SetRequiredBw(s, bw) => UNCHANGED qsup_servers
           /\ CleanupServer(s) => IF faulted' # faulted THEN UNCHANGED qsup_servers
                                  ELSE qsup_servers' \in {qsup_servers, qsup_servers \ {s}}
BY DEF SetRequiredBw, CleanupServer, RemoveServer, TakeOut, Fault

LEMMA ShapeRequest ==
    ASSUME ShapeInv, NEW t \in Threads, Request(t)
    PROVE  SupervisorStep /\ ShapeInv'
<1> DEFINE me == thread[t]
           local == Update(me, server_list, "group")
<1>1. /\ me.pc = "request" /\ lock \in {None, t} /\ lock' = None
      /\ SetRequiredBw(me.s, RequestOf(me.ask))
      /\ thread' = [thread EXCEPT ![t] = local]
      /\ UNCHANGED <<list_vars, qres, groups, task_group>>
  BY DEF Request, At, Goto, Sleep
<1>2. Creating(t) /\ me.then = "idle"
  BY <1>1, ShapeFacts DEF Creating, ThreadOK
<1>3. me.s \in (InUse \cap qsup_servers) \ Listed /\ me.ask \in Param
  BY <1>2, ShapeFacts DEF ThreadOK
<1>4. SupervisorStep
  BY <1>1, <1>3, ParamFacts DEF SupervisorStep
<1>5. InUse \subseteq InUse' /\ qsup_servers' = qsup_servers /\ Listed' = Listed
  <2>1. Listed' = Listed
    BY <1>1 DEF list_vars, Listed
  <2> QED
    BY <1>1, <1>3, <1>4, <2>1, ParamFacts, SupervisorType, SupervisorList, ShapeFacts DEF InUse
<1>6. /\ local \in Local /\ local.s = me.s /\ local.ask = me.ask
      /\ \/ local.pc = "group" /\ local.then = "idle"
         \/ /\ local.pc = "zero" /\ local.then = "group"
            /\ local.rest # <<>> /\ ToSet(local.rest) = Listed
  <2>1. me \in Local /\ server_list \in Seq(Servers)
    BY ShapeFacts
  <2> HIDE DEF local, me
  <2>2. local = Update(me, server_list, "group")
    BY DEF local
  <2> QED
    BY <1>2, <2>1, <2>2, UpdateFacts DEF Listed
<1> HIDE DEF local
<1>7. thread'[t] = local
  BY <1>1, ShapeFacts
<1>8. ThreadOK(t)'
  BY <1>3, <1>5, <1>6, <1>7 DEF ThreadOK, Creating, Readmitting
<1>9. \A u \in Threads \ {t} : Creating(u) =>
         thread[u].s \in qsup_servers' /\ thread[u].s # local.s
  BY <1>2, <1>5, <1>6, ShapeFacts
<1>10. /\ qres' \in [Servers -> Descriptor]
       /\ \A s \in Servers : qres'[s].tg \in {None, s} /\ qres'[s].id = qres[s].id
       /\ \A s \in Listed : qres'[s].params \in Param /\ qres'[s].owner \in Credentials
       /\ groups' \in [Servers -> Group]
       /\ task_group' \in [Threads -> Listed \cup {None}]
  BY <1>1, ShapeFacts
<1> QED
  BY <1>1, <1>4, <1>6, <1>8, <1>9, <1>10, ShapeStep

LEMMA ShapeCreateGroup ==
    ASSUME ShapeInv, NEW t \in Threads, CreateGroup(t)
    PROVE  SupervisorStep /\ ShapeInv'
<1> DEFINE me == thread[t]
           s == me.s
           list == <<s>> \o server_list
           n == Len(server_list)
           local == Update([me EXCEPT !.ask = None], list, "idle")
<1>1. /\ me.pc = "group" /\ lock \in {None, t} /\ lock' = None
      /\ groups' = [groups EXCEPT ![s] = NewGroup]
      /\ qres' = [qres EXCEPT ![s].id = NewId, ![s].params = me.ask,
                              ![s].owner = Cred[t], ![s].tg = s]
      /\ server_list' = list /\ server_id' = NewId
      /\ thread' = [thread EXCEPT ![t] = local]
      /\ UNCHANGED <<vars, task_group>>
  BY DEF CreateGroup, At, Goto, Sleep
<1>2. SupervisorStep
  BY <1>1 DEF SupervisorStep
<1>3. Creating(t)
  BY <1>1 DEF Creating
<1>4. s \in (InUse \cap qsup_servers) \ Listed /\ me.ask \in Param /\ s \in Servers
  BY <1>3, ShapeFacts DEF ThreadOK, InUse
<1>5. NewId = n + 1 /\ n \in Nat
  BY NewIdIs, ShapeFacts DEF ShapeInv
<1>6. InUse' = InUse /\ qsup_servers' = qsup_servers
  BY <1>1 DEF vars, InUse
<1>7. /\ server_list \in Seq(Servers)
      /\ list \in Seq(Servers) /\ Len(list) = n + 1 /\ list[1] = s
      /\ \A i \in 2 .. n + 1 : list[i] = server_list[i - 1]
      /\ ToSet(list) = Listed \cup {s}
      /\ list # <<>>
  BY <1>4, ShapeFacts, PrependFacts DEF Listed
<1>8. Listed' = Listed \cup {s}
  BY <1>1, <1>7 DEF Listed
<1>9. /\ local \in Local /\ local.pc = "zero" /\ local.then = "idle"
      /\ local.rest = list
  <2>1. [me EXCEPT !.ask = None] \in Local
    BY ShapeFacts DEF Local
  <2> HIDE DEF list
  <2> QED
    BY <1>7, <2>1, UpdateFacts
<1> HIDE DEF local, list
<1>10. thread'[t] = local /\ \A u \in Threads \ {t} : thread'[u] = thread[u]
  BY <1>1, ShapeFacts
<1>11. Cred[t] \in Credentials
  BY QresAssumption
<1>12. /\ qres' \in [Servers -> Descriptor]
       /\ qres'[s].id = n + 1 /\ qres'[s].params = me.ask /\ qres'[s].owner = Cred[t]
       /\ qres'[s].tg = s
       /\ \A x \in Servers : x # s => qres'[x] = qres[x]
  <2>1. qres \in [Servers -> Descriptor] /\ n + 1 \in Nat
    BY <1>5, ShapeFacts
  <2> HIDE DEF me, s, n
  <2>2. qres' = [qres EXCEPT ![s].id = n + 1, ![s].params = me.ask,
                             ![s].owner = Cred[t], ![s].tg = s]
    BY <1>1, <1>5
  <2> DEFINE d == [qres[s] EXCEPT !.id = n + 1, !.params = me.ask,
                                  !.owner = Cred[t], !.tg = s]
  <2>3. qres[s] \in Descriptor
    BY <1>4, <2>1
  <2>4. /\ d \in Descriptor
        /\ d.id = n + 1 /\ d.params = me.ask /\ d.owner = Cred[t] /\ d.tg = s
    BY <1>4, <1>11, <2>1, <2>3 DEF Descriptor
  <2>5. qres' = [qres EXCEPT ![s] = d]
    BY <1>4, <2>1, <2>2
  <2> HIDE DEF d
  <2> QED
    BY <1>4, <2>1, <2>4, <2>5
<1>13. LayerTyped'
  <2>1. TypeOK'
    BY <1>2, ShapeFacts, SupervisorType
  <2>2. groups' \in [Servers -> Group]
    BY <1>1, <1>4, ShapeFacts DEF NewGroup, Group
  <2>3. thread' \in [Threads -> Local]
    BY <1>1, <1>9, ShapeFacts
  <2>4. \A x \in Servers : qres'[x].tg \in {None, x}
    BY <1>12, ShapeFacts
  <2>5. task_group' \in [Threads -> Listed' \cup {None}]
    BY <1>1, <1>8, ShapeFacts
  <2>6. server_list' \in Seq(Servers) /\ server_id' \in Nat /\ lock' \in Threads \cup {None}
    BY <1>1, <1>5, <1>7
  <2> QED
    BY <1>12, <2>1, <2>2, <2>3, <2>4, <2>5, <2>6 DEF LayerTyped
<1>14. ListNumbered'
  <2>1. /\ IsInjective(server_list)
        /\ \A i \in 1 .. n : qres[server_list[i]].id = n - i + 1
        /\ \A x \in Servers \ Listed : qres[x].id = 0
    BY DEF ShapeInv, ListNumbered
  <2>2. DOMAIN list = 1 .. n + 1 /\ DOMAIN server_list = 1 .. n
    BY <1>7
  <2>3. \A i \in 1 .. n : server_list[i] \in Listed /\ server_list[i] # s /\ server_list[i] \in Servers
    BY <1>4, <1>7, ToSetFacts, ShapeFacts DEF Listed
  <2> HIDE DEF me, s, n
  <2>4. IsInjective(list)
    <3> SUFFICES ASSUME NEW i \in 1 .. n + 1, NEW j \in 1 .. n + 1, list[i] = list[j]
                 PROVE  i = j
      BY <2>2 DEF IsInjective
    <3>1. CASE i = 1 \/ j = 1
      BY <1>5, <1>7, <2>3, <3>1
    <3>2. CASE i # 1 /\ j # 1
      <4>1. i - 1 \in 1 .. n /\ j - 1 \in 1 .. n
        BY <1>5, <3>2
      <4>2. server_list[i - 1] = server_list[j - 1]
        BY <1>5, <1>7, <3>2
      <4>3. i - 1 = j - 1
        BY <2>1, <2>2, <4>1, <4>2 DEF IsInjective
      <4> QED
        BY <4>3
    <3> QED
      BY <3>1, <3>2
  <2>5. ASSUME NEW i \in 1 .. n + 1
        PROVE  qres'[list[i]].id = n + 1 - i + 1
    <3>1. CASE i = 1
      BY <1>5, <1>7, <1>12, <3>1
    <3>2. CASE i # 1
      <4>1. i - 1 \in 1 .. n /\ list[i] = server_list[i - 1]
        BY <1>5, <1>7, <3>2
      <4>2. qres'[list[i]].id = n - (i - 1) + 1
        BY <1>12, <2>1, <2>3, <4>1
      <4> QED
        BY <1>5, <4>2
    <3> QED
      BY <3>1, <3>2
  <2>6. \A x \in Servers \ Listed' : qres'[x].id = 0
    BY <1>8, <1>12, <2>1
  <2>7. \A x \in Listed' : x \in InUse' /\ qres'[x].params \in Param /\ qres'[x].owner \in Credentials
    BY <1>4, <1>6, <1>8, <1>11, <1>12, ShapeFacts
  <2>8. server_list' = list /\ server_id' = n + 1 /\ Len(list) = n + 1 /\ list # <<>>
    BY <1>1, <1>5, <1>7
  <2>9. IsInjective(server_list')
    BY <2>4, <2>8
  <2>10. server_id' = IF server_list' = <<>> THEN 1 ELSE Len(server_list')
    BY <2>8
  <2>11. \A i \in 1 .. Len(server_list') :
            qres'[server_list'[i]].id = Len(server_list') - i + 1
    BY <1>5, <2>5, <2>8
  <2> QED
    BY <2>6, <2>7, <2>9, <2>10, <2>11 DEF ListNumbered
<1>15. ThreadsInv'
  <2>1. ThreadOK(t)'
    BY <1>1, <1>7, <1>8, <1>9, <1>10 DEF ThreadOK, Creating, Readmitting
  <2>2. ASSUME NEW u \in Threads \ {t}
        PROVE  ThreadOK(u)'
    <3>1. Creating(u) => thread[u].s \in qsup_servers' \ Listed'
      BY <1>3, <1>6, <1>8, ShapeFacts
    <3> QED
      BY <1>1, <1>6, <1>8, <1>10, <3>1, OthersKept DEF ShapeInv
  <2>3. ~Creating(t)' /\ \A u \in Threads \ {t} : Creating(u)' <=> Creating(u)
    BY <1>9, <1>10 DEF Creating
  <2>4. \A u, v \in Threads : u # v /\ Creating(u)' /\ Creating(v)' => thread'[u].s # thread'[v].s
    BY <1>10, <2>3 DEF ShapeInv, ThreadsInv
  <2> QED
    BY <2>1, <2>2, <2>4 DEF ThreadsInv
<1> QED
  BY <1>2, <1>13, <1>14, <1>15 DEF ShapeInv

LEMMA ShapeCreateGroupFails ==
    ASSUME ShapeInv, NEW t \in Threads, CreateGroupFails(t)
    PROVE  SupervisorStep /\ ShapeInv'
<1> DEFINE me == thread[t]
           next == Update([me EXCEPT !.ask = None], server_list, "idle")
           local == Finish(next)
<1>1. /\ me.pc = "group" /\ lock \in {None, t} /\ lock' = None
      /\ CleanupServer(me.s)
      /\ thread' = [thread EXCEPT ![t] = local]
      /\ UNCHANGED <<list_vars, qres, groups, task_group>>
  BY DEF CreateGroupFails, At, Goto, Sleep, Withdraw
<1>2. Creating(t)
  BY <1>1 DEF Creating
<1>3. me.s \in InUse /\ me.s \in Servers
  BY <1>2, ShapeFacts DEF ThreadOK, InUse
<1>4. SupervisorStep
  BY <1>1, <1>3 DEF SupervisorStep
<1>5. Listed' = Listed /\ qsup_servers \ {me.s} \subseteq qsup_servers'
  BY <1>1, <1>3, SupervisorList DEF list_vars, Listed
<1>6. /\ local \in Local /\ ~(local.then = "group") /\ local.pc \in {"idle", "zero"}
      /\ local.pc = "idle" => local = Outside
      /\ local.pc = "zero" => local.rest # <<>> /\ ToSet(local.rest) = Listed
  <2>1. [me EXCEPT !.ask = None] \in Local /\ server_list \in Seq(Servers)
    BY ShapeFacts DEF Local
  <2>2. /\ next \in Local /\ next.pc \in {"idle", "zero"}
        /\ next.pc = "zero" => /\ next.rest # <<>> /\ ToSet(next.rest) = Listed
                               /\ next.then = "idle"
    BY <2>1, UpdateFacts DEF Listed
  <2> HIDE DEF next
  <2>3. CASE next.pc = "idle"
    <3>1. local = Outside
      BY <2>3 DEF Finish
    <3> QED
      BY <3>1, OutsideFacts
  <2>4. CASE next.pc = "zero"
    <3>1. local = next
      BY <2>4 DEF Finish
    <3> QED
      BY <2>2, <2>4, <3>1
  <2> QED
    BY <2>2, <2>3, <2>4
<1> HIDE DEF local
<1>7. thread'[t] = local
  BY <1>1, ShapeFacts
<1>8. ThreadOK(t)' /\ ~Creating(t)'
  BY <1>5, <1>6, <1>7 DEF ThreadOK, Creating, Readmitting
<1>9. \A u \in Threads \ {t} : Creating(u) => thread[u].s \in qsup_servers'
  BY <1>2, <1>5, ShapeFacts
<1>10. /\ qres' \in [Servers -> Descriptor]
       /\ \A s \in Servers : qres'[s].tg \in {None, s} /\ qres'[s].id = qres[s].id
       /\ \A s \in Listed : qres'[s].params \in Param /\ qres'[s].owner \in Credentials
       /\ groups' \in [Servers -> Group]
       /\ task_group' \in [Threads -> Listed \cup {None}]
  BY <1>1, ShapeFacts
<1> QED
  BY <1>1, <1>4, <1>6, <1>8, <1>9, <1>10, ShapeStep

\* The operations on tasks and groups change nothing of the supervisor.
LEMMA ShapeTasks ==
    ASSUME ShapeInv, NEW t \in Threads, NEW s \in Listed,
           Destroy(t, s) \/ Attach(t, s) \/ Detach(t, s)
    PROVE  SupervisorStep /\ ShapeInv'
<1>1. /\ thread[t].pc = "idle" /\ lock \in {None, t} /\ lock' = lock
      /\ thread' = [thread EXCEPT ![t] = Outside]
      /\ UNCHANGED <<list_vars, qres>>
  BY DEF Destroy, Attach, Detach, At, Goto
<1>2. CASE Fault /\ UNCHANGED <<groups, task_group>>
  BY <1>1, <1>2, ShapeOops
<1>3. CASE UNCHANGED vars
  <2>1. groups' \in [Servers -> Group] /\ task_group' \in [Threads -> Listed \cup {None}]
    <3>1. UNCHANGED groups \/ groups' = [groups EXCEPT ![s].state = "freed"]
      BY <1>3 DEF Destroy, Attach, Detach, Oops, Fault, vars
    <3>2. \/ UNCHANGED task_group
          \/ task_group' = [task_group EXCEPT ![t] = s]
          \/ task_group' = [task_group EXCEPT ![t] = None]
          \/ task_group' = [u \in Threads |-> IF task_group[u] = s THEN None
                                             ELSE task_group[u]]
      BY DEF Destroy, Attach, Detach
    <3>3. groups' \in [Servers -> Group]
      BY <3>1, ShapeFacts DEF Group
    <3> QED
      BY <3>2, <3>3, ShapeFacts
  <2>2. thread'[t] = Outside
    BY <1>1, ShapeFacts
  <2> QED
    BY <1>1, <1>3, <2>1, <2>2, OutsideFacts, OutsideOK, ShapeQuiet
<1> QED
  BY <1>2, <1>3 DEF Destroy, Attach, Detach, Oops

\* New parameters, or no group, in a descriptor.
LEMMA DescriptorSet ==
    ASSUME ShapeInv, NEW t \in Threads, NEW s \in Listed,
           \/ \E param \in Param : qres' = [qres EXCEPT ![s].params = param]
           \/ qres' = [qres EXCEPT ![s].tg = None]
    PROVE  /\ qres' \in [Servers -> Descriptor]
           /\ \A x \in Servers : qres'[x].tg \in {None, x} /\ qres'[x].id = qres[x].id
           /\ \A x \in Listed : qres'[x].params \in Param /\ qres'[x].owner \in Credentials
<1> DEFINE Changed(d) == /\ qres' = [qres EXCEPT ![s] = d]
                         /\ d.id = qres[s].id /\ d.owner = qres[s].owner
                         /\ d.tg \in {qres[s].tg, None}
                         /\ d.params \in Param
<1>1. PICK d \in Descriptor : Changed(d)
  <2>1. s \in Servers /\ qres \in [Servers -> Descriptor] /\ qres[s].params \in Param
    BY ShapeFacts
  <2>2. ASSUME NEW param \in Param, qres' = [qres EXCEPT ![s].params = param]
        PROVE  \E d \in Descriptor : Changed(d)
    <3> DEFINE d == [qres[s] EXCEPT !.params = param]
    <3>1. d \in Descriptor /\ Changed(d)
      BY <2>1, <2>2 DEF Descriptor
    <3> QED
      BY <3>1
  <2>3. ASSUME qres' = [qres EXCEPT ![s].tg = None]
        PROVE  \E d \in Descriptor : Changed(d)
    <3> DEFINE d == [qres[s] EXCEPT !.tg = None]
    <3>1. d \in Descriptor /\ Changed(d)
      BY <2>1, <2>3 DEF Descriptor
    <3> QED
      BY <3>1
  <2> QED
    BY <2>2, <2>3
<1>2. /\ s \in Servers /\ qres \in [Servers -> Descriptor] /\ Listed \subseteq Servers
      /\ \A x \in Servers : qres[x].tg \in {None, x}
      /\ \A x \in Listed : qres[x].params \in Param /\ qres[x].owner \in Credentials
  BY ShapeFacts
<1>3. /\ qres' \in [Servers -> Descriptor]
      /\ qres'[s] = d
      /\ \A x \in Servers : x # s => qres'[x] = qres[x]
  BY <1>1, <1>2
<1> QED
  BY <1>1, <1>2, <1>3

LEMMA ShapeSetRequest ==
    ASSUME ShapeInv, NEW t \in Threads, NEW s \in Listed, NEW param \in Params,
           SetRequest(t, s, param)
    PROVE  SupervisorStep /\ ShapeInv'
<1>1. /\ thread[t].pc = "idle" /\ lock \in {None, t} /\ lock' = lock
      /\ SetRequiredBw(s, RequestOf(Rounded(param)))
      /\ qres' = [qres EXCEPT ![s].params = Rounded(param)]
      /\ thread' = [thread EXCEPT ![t] = Outside]
      /\ UNCHANGED <<list_vars, groups, task_group>>
  BY DEF SetRequest, MaySetParams, At, Goto, Recorded
<1>2. s \in InUse /\ s \in Servers /\ Rounded(param) \in Param
  BY QresAssumption, RoundedType, ShapeFacts
<1>3. RequestOf(Rounded(param)) \in Nat
  BY <1>2, ParamFacts
<1>4. SupervisorStep
  BY <1>1, <1>2, <1>3 DEF SupervisorStep
<1>5. qsup_servers' = qsup_servers
  BY <1>1, <1>2, <1>3, SupervisorList
<1>6. thread'[t] = Outside
  BY <1>1, ShapeFacts
<1>7. /\ qres' \in [Servers -> Descriptor]
      /\ \A x \in Servers : qres'[x].tg \in {None, x} /\ qres'[x].id = qres[x].id
      /\ \A x \in Listed : qres'[x].params \in Param /\ qres'[x].owner \in Credentials
  BY <1>1, <1>2, DescriptorSet
<1>8. groups' \in [Servers -> Group] /\ task_group' \in [Threads -> Listed \cup {None}]
  BY <1>1, ShapeFacts
<1>9. \A u \in Threads \ {t} : Creating(u) => thread[u].s \in qsup_servers'
  BY <1>5, ShapeFacts
<1> QED
  BY <1>1, <1>4, <1>6, <1>7, <1>8, <1>9, OutsideFacts, OutsideOK, ShapeStep

LEMMA ShapeSetParams ==
    ASSUME ShapeInv, NEW t \in Threads, NEW s \in Listed, NEW param \in Params,
           SetParams(t, s, param)
    PROVE  SupervisorStep /\ ShapeInv'
<1> DEFINE local == IF s \in qsup_servers THEN Enter("readmit", s, Rounded(param)) ELSE Outside
<1>1. /\ thread[t].pc = "idle" /\ lock \in {None, t}
      /\ CleanupServer(s)
      /\ lock' = IF s \in qsup_servers THEN t ELSE lock
      /\ thread' = [thread EXCEPT ![t] = local]
      /\ UNCHANGED <<list_vars, qres, groups, task_group>>
  BY DEF SetParams, MaySetParams, At, Goto, KeepLock, Hold
<1>2. s \in InUse /\ s \in Servers /\ Rounded(param) \in Param
  BY QresAssumption, RoundedType, ShapeFacts
<1>3. SupervisorStep
  BY <1>1, <1>2 DEF SupervisorStep
<1>4. /\ qsup_servers \ {s} \subseteq qsup_servers'
      /\ faulted' \/ s \notin qsup_servers'
  <2>1. faulted \in BOOLEAN
    BY ShapeFacts DEF TypeOK
  <2> QED
    BY <1>1, <2>1 DEF CleanupServer, RemoveServer, TakeOut, Fault
<1>5. /\ local \in Local /\ local.then = "idle"
      /\ IF s \in qsup_servers
         THEN local.pc = "readmit" /\ local.s = s /\ local.ask = Rounded(param)
         ELSE local = Outside
  BY <1>2, EnterFacts, OutsideFacts DEF Steps
<1> HIDE DEF local
<1>6. thread'[t] = local /\ Listed' = Listed
  BY <1>1, ShapeFacts DEF list_vars, Listed
<1>7. ThreadOK(t)' /\ ~Creating(t)'
  <2>1. CASE s \in qsup_servers
    BY <1>1, <1>2, <1>4, <1>5, <1>6, <2>1 DEF ThreadOK, Creating, Readmitting
  <2>2. CASE s \notin qsup_servers
    BY <1>5, <1>6, <2>2, OutsideOK
  <2> QED
    BY <2>1, <2>2
<1>8. /\ qres' \in [Servers -> Descriptor]
      /\ \A x \in Servers : qres'[x].tg \in {None, x} /\ qres'[x].id = qres[x].id
      /\ \A x \in Listed : qres'[x].params \in Param /\ qres'[x].owner \in Credentials
      /\ groups' \in [Servers -> Group] /\ task_group' \in [Threads -> Listed \cup {None}]
  BY <1>1, ShapeFacts
<1>9. \A u \in Threads \ {t} : Creating(u) => thread[u].s \in qsup_servers'
  BY <1>4, ShapeFacts
<1>10. lock' \in {None, t}
  BY <1>1
<1> QED
  BY <1>1, <1>3, <1>5, <1>7, <1>8, <1>9, <1>10, ShapeStep

\* What a thread has in hand that admits a server again.
LEMMA ReadmitFacts ==
    ASSUME ShapeInv, NEW t \in Threads, thread[t].pc = "readmit"
    PROVE  /\ thread[t].s \in Listed /\ thread[t].s \in Servers /\ thread[t].s \in InUse
           /\ thread[t].ask \in Param
           /\ qres[thread[t].s].params \in Param
           /\ qres[thread[t].s].owner[1] \in Uids /\ qres[thread[t].s].owner[2] \in Gids
           /\ thread[t].then = "idle" /\ lock = t
           /\ ~faulted => thread[t].s \notin qsup_servers
<1>1. Readmitting(t) /\ ThreadOK(t)
  BY ShapeFacts DEF Readmitting
<1>2. /\ thread[t].s \in Listed /\ thread[t].ask \in Param
      /\ thread[t].then = "idle" /\ lock = t
      /\ ~faulted => thread[t].s \notin qsup_servers
  BY <1>1 DEF ThreadOK
<1>3. /\ thread[t].s \in Servers /\ thread[t].s \in InUse
      /\ qres[thread[t].s].params \in Param
      /\ qres[thread[t].s].owner \in Credentials
  BY <1>2, ShapeFacts
<1> QED
  BY <1>2, <1>3, QsupAssumption

LEMMA ShapeReadmit ==
    ASSUME ShapeInv, NEW t \in Threads, At(t, "readmit"), NEW param \in Param,
           Readmit(t, thread[t].s, param), UNCHANGED <<list_vars, groups, task_group>>
    PROVE  SupervisorStep /\ ShapeInv'
<1> DEFINE me == thread[t]
           s == me.s
           local == [me EXCEPT !.pc = "set"]
<1>1. /\ me.pc = "readmit" /\ lock \in {None, t} /\ lock' = t
      /\ InitServer(s, qres[s].owner[1], qres[s].owner[2], param)
      /\ qres' = [qres EXCEPT ![s].tg = None]
      /\ thread' = [thread EXCEPT ![t] = local]
  BY DEF Readmit, At, Goto, Hold
<1>2. /\ s \in Listed /\ s \in Servers /\ me.ask \in Param /\ me.then = "idle"
      /\ qres[s].owner[1] \in Uids /\ qres[s].owner[2] \in Gids
  BY <1>1, ReadmitFacts
<1>3. SupervisorStep
  BY <1>1, <1>2 DEF SupervisorStep
<1>4. qsup_servers' = qsup_servers \cup {s}
  BY <1>1 DEF InitServer
<1>5. /\ local \in Local /\ local.pc = "set" /\ local.then = "idle"
      /\ local.s = s /\ local.ask = me.ask
  <2>1. me \in Local
    BY ShapeFacts
  <2> QED
    BY <1>2, <2>1 DEF Local, Steps
<1> HIDE DEF local
<1>6. thread'[t] = local /\ Listed' = Listed
  BY <1>1, ShapeFacts DEF list_vars, Listed
<1>7. ThreadOK(t)' /\ ~Creating(t)'
  BY <1>1, <1>2, <1>4, <1>5, <1>6 DEF ThreadOK, Creating, Readmitting
<1>8. /\ qres' \in [Servers -> Descriptor]
      /\ \A x \in Servers : qres'[x].tg \in {None, x} /\ qres'[x].id = qres[x].id
      /\ \A x \in Listed : qres'[x].params \in Param /\ qres'[x].owner \in Credentials
  BY <1>1, <1>2, DescriptorSet
<1>9. groups' \in [Servers -> Group] /\ task_group' \in [Threads -> Listed \cup {None}]
  BY ShapeFacts
<1>10. \A u \in Threads \ {t} : Creating(u) => thread[u].s \in qsup_servers'
  BY <1>4, ShapeFacts
<1> QED
  BY <1>1, <1>3, <1>5, <1>7, <1>8, <1>9, <1>10, ShapeStep

LEMMA ShapeReadmitNone ==
    ASSUME ShapeInv, NEW t \in Threads, ReadmitNone(t)
    PROVE  SupervisorStep /\ ShapeInv'
<1>1. /\ thread[t].pc = "readmit" /\ lock \in {None, t} /\ lock' = None
      /\ thread' = [thread EXCEPT ![t] = Outside]
      /\ UNCHANGED <<vars, list_vars, qres, groups, task_group>>
  BY DEF ReadmitNone, At, Goto, Sleep
<1>2. groups' \in [Servers -> Group] /\ task_group' \in [Threads -> Listed \cup {None}]
  BY <1>1, ShapeFacts
<1>3. thread'[t] = Outside
  BY <1>1, ShapeFacts
<1> QED
  BY <1>1, <1>2, <1>3, OutsideFacts, OutsideOK, ShapeQuiet

\* What a thread has in hand that sets the request of a server admitted again.
LEMMA SetFacts ==
    ASSUME ShapeInv, NEW t \in Threads, thread[t].pc = "set"
    PROVE  /\ thread[t].s \in Listed /\ thread[t].s \in Servers /\ thread[t].s \in InUse
           /\ thread[t].s \in qsup_servers
           /\ thread[t].ask \in Param /\ RequestOf(thread[t].ask) \in Nat
<1>1. Readmitting(t) /\ ThreadOK(t)
  BY ShapeFacts DEF Readmitting
<1> QED
  BY <1>1, ShapeFacts, ParamFacts DEF ThreadOK

LEMMA ShapeSet ==
    ASSUME ShapeInv, NEW t \in Threads, Set(t)
    PROVE  SupervisorStep /\ ShapeInv'
<1> DEFINE me == thread[t]
           s == me.s
<1>1. /\ me.pc = "set" /\ lock \in {None, t} /\ lock' = None
      /\ SetRequiredBw(s, RequestOf(me.ask))
      /\ qres' = [qres EXCEPT ![s].params = me.ask]
      /\ thread' = [thread EXCEPT ![t] = Outside]
      /\ UNCHANGED <<list_vars, groups, task_group>>
  BY DEF Set, At, Goto, Sleep, Recorded
<1>2. s \in Listed /\ s \in InUse /\ s \in Servers /\ me.ask \in Param /\ RequestOf(me.ask) \in Nat
  BY <1>1, SetFacts
<1>3. SupervisorStep
  BY <1>1, <1>2 DEF SupervisorStep
<1>4. qsup_servers' = qsup_servers
  BY <1>1, <1>2, SupervisorList
<1>5. thread'[t] = Outside
  BY <1>1, ShapeFacts
<1>6. /\ qres' \in [Servers -> Descriptor]
      /\ \A x \in Servers : qres'[x].tg \in {None, x} /\ qres'[x].id = qres[x].id
      /\ \A x \in Listed : qres'[x].params \in Param /\ qres'[x].owner \in Credentials
  BY <1>1, <1>2, DescriptorSet
<1>7. groups' \in [Servers -> Group] /\ task_group' \in [Threads -> Listed \cup {None}]
  BY <1>1, ShapeFacts
<1>8. \A u \in Threads \ {t} : Creating(u) => thread[u].s \in qsup_servers'
  BY <1>4, ShapeFacts
<1> QED
  BY <1>1, <1>3, <1>5, <1>6, <1>7, <1>8, OutsideFacts, OutsideOK, ShapeStep

\* A step that moves no thread.
LEMMA ShapeAlone ==
    ASSUME ShapeInv, SupervisorStep,
           UNCHANGED <<list_vars, qres, groups, task_group, lock, thread>>,
           UNCHANGED <<qsup_servers, faulted>>
    PROVE  ShapeInv'
<1>1. TypeOK' /\ InUse \subseteq InUse'
  BY SupervisorType DEF ShapeInv, LayerTyped
<1>2. Listed' = Listed /\ server_list' = server_list /\ server_id' = server_id
  BY DEF list_vars, Listed
<1>3. LayerTyped'
  BY <1>1, <1>2 DEF ShapeInv, LayerTyped
<1>4. ListNumbered'
  BY <1>1, <1>2 DEF ShapeInv, ListNumbered
<1>5. \A u \in Threads : ThreadOK(u)'
  BY <1>1, <1>2 DEF ShapeInv, ThreadsInv, ThreadOK, Creating, Readmitting
<1>6. ThreadsInv'
  BY <1>5 DEF ShapeInv, ThreadsInv, Creating
<1> QED
  BY <1>3, <1>4, <1>6 DEF ShapeInv

LEMMA ShapeNext ==
    ASSUME ShapeInv, [QresNext]_qres_vars
    PROVE  SupervisorStep /\ ShapeInv'
<1>1. CASE UNCHANGED qres_vars
  <2>1. UNCHANGED vars /\ UNCHANGED <<list_vars, qres, groups, task_group, lock, thread>>
    BY <1>1 DEF qres_vars
  <2>2. UNCHANGED <<qsup_servers, faulted>>
    BY <2>1 DEF vars
  <2> QED
    BY <2>1, <2>2, ShapeAlone DEF SupervisorStep
<1>2. ASSUME NEW g \in Gids, NEW c \in Constraints, AddRule(g, c)
      PROVE  SupervisorStep /\ ShapeInv'
  <2>1. AddGroupRule(g, c) /\ UNCHANGED <<list_vars, qres, groups, task_group, lock, thread>>
    BY <1>2 DEF AddRule
  <2>2. UNCHANGED <<qsup_servers, faulted>>
    BY <2>1 DEF AddGroupRule
  <2> QED
    BY <2>1, <2>2, ShapeAlone DEF SupervisorStep
<1>3. ASSUME NEW t \in Threads, Continue(t)
      PROVE  SupervisorStep /\ ShapeInv'
  <2>1. CASE ReadmitNew(t)
    <3>1. At(t, "readmit") /\ Readmit(t, thread[t].s, thread[t].ask)
          /\ UNCHANGED <<list_vars, groups, task_group>>
      BY <2>1 DEF ReadmitNew
    <3>2. thread[t].ask \in Param
      BY <3>1, ReadmitFacts DEF At
    <3> QED
      BY <3>1, <3>2, ShapeReadmit
  <2>2. CASE ReadmitOld(t)
    <3>1. At(t, "readmit") /\ Readmit(t, thread[t].s, qres[thread[t].s].params)
          /\ UNCHANGED <<list_vars, groups, task_group>>
      BY <2>2 DEF ReadmitOld
    <3>2. qres[thread[t].s].params \in Param
      BY <3>1, ReadmitFacts DEF At
    <3> QED
      BY <3>1, <3>2, ShapeReadmit
  <2> QED
    BY <1>3, <2>1, <2>2, ShapeZero, ShapeApply, ShapeRequest, ShapeCreateGroup,
       ShapeCreateGroupFails, ShapeReadmitNone, ShapeSet DEF Continue
<1>4. ASSUME NEW t \in Threads, Call(t)
      PROVE  SupervisorStep /\ ShapeInv'
  BY <1>4, ShapeCreate, ShapeTasks, ShapeSetRequest, ShapeSetParams DEF Call
<1> QED
  BY <1>1, <1>2, <1>3, <1>4 DEF QresNext

LEMMA ShapeInit == QresInit => ShapeInv
<1> SUFFICES ASSUME QresInit PROVE ShapeInv
  OBVIOUS
<1>1. TypeOK
  BY TypeInit DEF QresInit
<1>2. /\ server_list = <<>> /\ Listed = {} /\ server_id = 1
      /\ qres = [s \in Servers |-> BlankQres]
      /\ groups = [s \in Servers |-> NoGroup]
      /\ task_group = [t \in Threads |-> None]
      /\ lock = None
      /\ thread = [t \in Threads |-> Outside]
  BY DEF QresInit, Listed, ToSet
<1>3. BlankQres \in Descriptor /\ BlankQres.tg = None /\ BlankQres.id = 0
  BY DEF BlankQres, Descriptor
<1>4. NoGroup \in Group
  BY DEF NoGroup, Group
<1>5. LayerTyped
  BY <1>1, <1>2, <1>3, <1>4, OutsideFacts DEF LayerTyped
<1>6. ListNumbered
  <2>1. IsInjective(server_list)
    BY <1>2 DEF IsInjective
  <2> QED
    BY <1>2, <1>3, <2>1 DEF ListNumbered
<1>7. \A t \in Threads : ~Creating(t) /\ ThreadOK(t)
  BY <1>2, OutsideFacts DEF Creating, Readmitting, ThreadOK
<1> QED
  BY <1>5, <1>6, <1>7 DEF ShapeInv, ThreadsInv

LEMMA ShapeAlways == SpecQres => []ShapeInv
BY ShapeInit, ShapeNext, PTL DEF SpecQres

\* The identifier of a listed server tells its place from the end of the list.
LEMMA IdOfListed ==
    ASSUME LayerTyped, ListNumbered, NEW s \in Listed
    PROVE  \E i \in 1 .. Len(server_list) :
              s = server_list[i] /\ qres[s].id = Len(server_list) - i + 1
<1>1. PICK i \in 1 .. Len(server_list) : s = server_list[i]
  BY DEF Listed, ToSet, LayerTyped
<1> QED
  BY <1>1 DEF ListNumbered

\* Every variable of the layer holds a value of its C type, and an identifier is
\* never more than the number of servers.
THEOREM LayerTypeCorrect == SpecQres => []QresTypeOK
<1>1. ASSUME ShapeInv
      PROVE  QresTypeOK
  <2>1. LayerTyped /\ ListNumbered
    BY <1>1 DEF ShapeInv
  <2>2. Len(server_list) \in 0 .. NumServers /\ NumServers \in Nat /\ NumServers # 0
    BY <2>1, ListWithin, QsupAssumption, QresAssumption
  <2>3. server_list \in Seq(Servers) /\ Listed \subseteq Servers
    BY <2>1, ToSetFacts DEF LayerTyped, Listed
  <2>4. server_id \in 1 .. NumServers
    <3>1. CASE server_list = <<>>
      BY <2>1, <2>2, <3>1 DEF ListNumbered
    <3>2. CASE server_list # <<>>
      <4>1. Len(server_list) # 0
        BY <2>3, <3>2
      <4> QED
        BY <2>1, <2>2, <3>2, <4>1 DEF ListNumbered
    <3> QED
      BY <3>1, <3>2
  <2>5. ASSUME NEW s \in Servers
        PROVE  qres[s].id \in 0 .. NumServers
    <3>1. CASE s \in Listed
      <4>1. PICK i \in 1 .. Len(server_list) : qres[s].id = Len(server_list) - i + 1
        BY <2>1, <3>1, IdOfListed
      <4> QED
        BY <2>2, <4>1
    <3>2. CASE s \notin Listed
      BY <2>1, <2>2, <3>2 DEF ListNumbered
    <3> QED
      BY <3>1, <3>2
  <2>6. \A s \in Servers : /\ qres[s].tg \in {None, s}
                           /\ groups[s].state \in {"none", "live", "freed"}
                           /\ groups[s].runtime \in Nat
    BY <2>1 DEF LayerTyped, Group
  <2>7. /\ TypeOK
        /\ \A t \in Threads : task_group[t] \in Listed \cup {None}
        /\ lock \in Threads \cup {None}
    BY <2>1 DEF LayerTyped
  <2> QED
    BY <2>1, <2>3, <2>4, <2>5, <2>6, <2>7 DEF QresTypeOK, ListNumbered
<1> QED
  BY <1>1, ShapeAlways, PTL

\* No two listed servers have the same identifier, for all that server_id stays at
\* the last one given out and the search starts there (qres.c, new_server_id).
THEOREM IdentifiersUnique == SpecQres => []UniqueIds
<1>1. ASSUME ShapeInv
      PROVE  UniqueIds
  <2>1. LayerTyped /\ ListNumbered
    BY <1>1 DEF ShapeInv
  <2> SUFFICES ASSUME NEW s \in Listed, NEW u \in Listed, qres[s].id = qres[u].id
               PROVE  s = u
    BY DEF UniqueIds
  <2>2. PICK i \in 1 .. Len(server_list) :
           s = server_list[i] /\ qres[s].id = Len(server_list) - i + 1
    BY <2>1, IdOfListed
  <2>3. PICK j \in 1 .. Len(server_list) :
           u = server_list[j] /\ qres[u].id = Len(server_list) - j + 1
    BY <2>1, IdOfListed
  <2>4. Len(server_list) \in Nat
    BY <2>1 DEF LayerTyped
  <2> QED
    BY <2>2, <2>3, <2>4
<1> QED
  BY <1>1, ShapeAlways, PTL

-----------------------------------------------------------------------------
(* The request that is in force is the one that is recorded.               *)

RequestsInv == ShapeInv /\ RequestsMade /\ RequestsInForce

\* A step of thread t touches the servers of S, at most, and leaves right what
\* it had in hand.
Touches(t, S) ==
    /\ \A u \in Threads \ {t} : thread'[u] = thread[u]
    /\ \A x \in Servers \ S : /\ srv'[x] = srv[x]
                              /\ qres'[x].params = qres[x].params
                              /\ x \in qsup_servers' => x \in qsup_servers
    /\ Listed' \ S \subseteq Listed
    /\ \A u \in Threads \ {t} : Creating(u) => thread[u].s \notin S
    /\ Creating(t)' /\ thread'[t].pc # "request" =>
          srv'[thread'[t].s].req_bw = bw_min(RequestOf(thread'[t].ask),
                                             srv'[thread'[t].s].max_user_bw)
    /\ \A x \in S \cap Listed' \cap qsup_servers' :
          \/ Readmitting(t)' /\ thread'[t].s = x
          \/ srv'[x].req_bw = bw_min(RequestOf(qres'[x].params), srv'[x].max_user_bw)
    /\ Creating(t) \/ Readmitting(t) =>
          \/ thread[t].s \in S \/ thread[t].s \notin qsup_servers'
          \/ Creating(t)' /\ thread'[t].s = thread[t].s

LEMMA RequestsStep ==
    ASSUME RequestsInv, ~faulted, NEW t \in Threads, NEW S, ~faulted' => Touches(t, S)
    PROVE  RequestsMade' /\ RequestsInForce'
<1> SUFFICES ASSUME ~faulted' PROVE RequestsMade' /\ RequestsInForce'
  BY DEF RequestsMade, RequestsInForce
<1> USE DEF Touches
<1>1. /\ \A u \in Threads \ {t} : /\ thread'[u] = thread[u]
                                  /\ Creating(u)' <=> Creating(u)
                                  /\ Readmitting(u)' <=> Readmitting(u)
  BY DEF Creating, Readmitting
<1>2. Listed \subseteq Servers
  BY ShapeFacts DEF RequestsInv
<1>3. ASSUME ~faulted', NEW u \in Threads, Creating(u)', thread'[u].pc # "request"
      PROVE  srv'[thread'[u].s].req_bw = bw_min(RequestOf(thread'[u].ask),
                                                srv'[thread'[u].s].max_user_bw)
  <2>1. CASE u = t
    BY <1>1, <1>3, <2>1
  <2>2. CASE u # t
    <3>1. Creating(u) /\ thread'[u] = thread[u]
      BY <1>1, <1>3, <2>2
    <3>2. thread[u].s \in Servers
      BY <3>1 DEF RequestsInv, ShapeInv, ThreadsInv, ThreadOK, InUse
    <3>3. srv'[thread[u].s] = srv[thread[u].s]
      BY <2>2, <3>1, <3>2
    <3> QED
      BY <1>3, <3>1, <3>3 DEF RequestsInv, RequestsMade
  <2> QED
    BY <2>1, <2>2
<1>4. ASSUME ~faulted', NEW x \in Listed' \cap qsup_servers', x \notin InHand'
      PROVE  srv'[x].req_bw = bw_min(RequestOf(qres'[x].params), srv'[x].max_user_bw)
  <2>1. \A u \in Threads : (Creating(u) \/ Readmitting(u))' => thread'[u].s # x
    BY <1>4 DEF InHand
  <2>2. CASE x \in S
    BY <1>1, <1>4, <2>1, <2>2
  <2>3. CASE x \notin S
    <3>1. x \in Listed /\ x \in Servers
      BY <1>2, <1>4, <2>3
    <3>2. x \in qsup_servers /\ srv'[x] = srv[x] /\ qres'[x].params = qres[x].params
      BY <1>4, <2>3, <3>1
    <3>3. \A u \in Threads : Creating(u) \/ Readmitting(u) => thread[u].s # x
      BY <1>1, <1>4, <2>1, <2>3
    <3>4. x \notin InHand
      BY <3>3 DEF InHand
    <3> QED
      BY <3>1, <3>2, <3>4 DEF RequestsInv, RequestsInForce
  <2> QED
    BY <2>2, <2>3
<1> QED
  BY <1>3, <1>4 DEF RequestsMade, RequestsInForce

\* A step that changes nothing of the supervisor, the list or the parameters,
\* and lets nothing out of hand that is in the supervisor.
LEMMA RequestsQuiet ==
    ASSUME RequestsInv, NEW t \in Threads, UNCHANGED <<vars, list_vars, qres>>,
           \A u \in Threads \ {t} : thread'[u] = thread[u],
           Creating(t) => /\ Creating(t)' /\ thread'[t].pc # "request" /\ thread[t].pc # "request"
                          /\ thread'[t].s = thread[t].s /\ thread'[t].ask = thread[t].ask,
           Creating(t)' => Creating(t),
           Readmitting(t) => faulted \/ thread[t].s \notin qsup_servers
    PROVE  RequestsMade' /\ RequestsInForce'
<1>1. UNCHANGED <<srv, qsup_servers, faulted>> /\ Listed' = Listed
  BY DEF vars, list_vars, Listed
<1>2. CASE faulted
  BY <1>1, <1>2 DEF RequestsMade, RequestsInForce
<1>3. CASE ~faulted
  <2>1. Creating(t)' =>
           srv'[thread'[t].s].req_bw = bw_min(RequestOf(thread'[t].ask), srv'[thread'[t].s].max_user_bw)
    BY <1>1, <1>3 DEF RequestsInv, RequestsMade
  <2> QED
    <3>1. Touches(t, {})
      BY <1>1, <1>3, <2>1 DEF Touches
    <3> QED
      BY <1>3, <3>1, RequestsStep
<1> QED
  BY <1>2, <1>3

\* What a request leaves in a descriptor, and in the others.
LEMMA RequestForm ==
    ASSUME TypeOK, NEW s \in Servers, NEW bw, SetRequiredBw(s, bw), ~faulted'
    PROVE  /\ srv'[s].req_bw = bw_min(bw, srv'[s].max_user_bw)
           /\ \A x \in Servers \ {s} : srv'[x] = srv[x]
           /\ UNCHANGED <<qsup_servers, faulted>>
<1>1. srv' = [srv EXCEPT ![s] = ServerAfter(s, Saturated(s, bw))]
      /\ UNCHANGED <<qsup_servers, faulted>>
  BY DEF SetRequiredBw, Fault
<1>2. srv \in [Servers -> Server] /\ srv[s] \in Server
  BY DEF TypeOK
<1>3. /\ ServerAfter(s, Saturated(s, bw)).req_bw = Saturated(s, bw)
      /\ ServerAfter(s, Saturated(s, bw)).max_user_bw = srv[s].max_user_bw
  BY <1>2 DEF ServerAfter, Server
<1> QED
  BY <1>1, <1>2, <1>3 DEF Saturated

\* What a removal leaves.
LEMMA RemovalLeaves ==
    ASSUME TypeOK, NEW s \in Servers, CleanupServer(s), ~faulted'
    PROVE  /\ \A x \in Servers \ {s} : srv'[x] = srv[x]
           /\ qsup_servers' = qsup_servers \ {s}
           /\ ~faulted
<1>1. /\ srv' = [srv EXCEPT ![s] = ServerAfter(s, 0)]
      /\ qsup_servers' = qsup_servers \ {s} /\ UNCHANGED faulted
  BY DEF CleanupServer, RemoveServer, TakeOut, Fault
<1> QED
  BY <1>1 DEF TypeOK

\* What follows for a thread from where it is.
LEMMA Runs ==
    ASSUME RequestsInv, NEW t \in Threads, NEW local,
           thread' = [thread EXCEPT ![t] = local]
    PROVE  thread'[t] = local /\ \A u \in Threads \ {t} : thread'[u] = thread[u]
BY ShapeFacts DEF RequestsInv

\* What a thread has in hand while it walks the list.
LEMMA WalkFacts ==
    ASSUME ShapeInv, NEW t \in Threads, Zero(t) \/ Apply(t)
    PROVE  /\ ~faulted /\ UNCHANGED <<list_vars, qres>>
           /\ (Fault /\ UNCHANGED thread) \/ UNCHANGED vars
           /\ \A u \in Threads \ {t} : thread'[u] = thread[u]
           /\ thread[t].pc \in {"zero", "apply"}
           /\ thread'[t].pc \in {"zero", "apply", "group", "idle"}
           /\ ~Readmitting(t) /\ (Creating(t)' <=> Creating(t))
           /\ Creating(t) => thread'[t].s = thread[t].s /\ thread'[t].ask = thread[t].ask
<1> DEFINE me == thread[t]
<1>1. /\ ~faulted /\ UNCHANGED <<list_vars, qres>> /\ me.pc \in {"zero", "apply"}
      /\ (Fault /\ UNCHANGED thread) \/ UNCHANGED vars
  BY DEF Zero, Apply, At, Oops
<1>2. me \in Local /\ me.then \in {"idle", "group"}
  BY ShapeFacts DEF Local
<1>3. \/ UNCHANGED thread
      \/ \E local : /\ thread' = [thread EXCEPT ![t] = local]
                    /\ \/ /\ local.pc \in {"zero", "apply"}
                          /\ local.s = me.s /\ local.ask = me.ask /\ local.then = me.then
                       \/ /\ me.then = "group" /\ local.pc = "group"
                          /\ local.s = me.s /\ local.ask = me.ask /\ local.then = me.then
                       \/ me.then = "idle" /\ local = Outside
  <2>1. ASSUME NEW local,
               \/ local = [me EXCEPT !.rest = Tail(@)]
               \/ local = [me EXCEPT !.pc = "apply", !.rest = server_list,
                                     !.q = Budget(Head(server_list))]
               \/ local = [me EXCEPT !.rest = Tail(@), !.q = Budget(Head(Tail(me.rest)))]
        PROVE  /\ local.pc \in {"zero", "apply"}
               /\ local.s = me.s /\ local.ask = me.ask /\ local.then = me.then
    BY <1>1, <1>2, <2>1 DEF Local
  <2>2. CASE Zero(t)
    BY <2>1, <2>2 DEF Zero, Goto
  <2>3. CASE Apply(t)
    <3>1. UNCHANGED thread \/ thread' = [thread EXCEPT ![t] = NextBudget(me)]
      BY <2>3 DEF Apply, Goto
    <3>2. CASE Tail(me.rest) # <<>>
      BY <2>1, <3>1, <3>2 DEF NextBudget
    <3>3. CASE Tail(me.rest) = <<>>
      <4> DEFINE over == [me EXCEPT !.pc = me.then, !.rest = <<>>, !.q = 0]
      <4>1. NextBudget(me) = Finish(over)
        BY <3>3 DEF NextBudget
      <4>2. /\ over.pc = me.then /\ over.then = me.then
            /\ over.s = me.s /\ over.ask = me.ask
        BY <1>2 DEF Local
      <4> HIDE DEF over
      <4>3. CASE me.then = "idle"
        <5>1. NextBudget(me) = Outside
          BY <4>1, <4>2, <4>3 DEF Finish
        <5> QED
          BY <3>1, <4>3, <5>1
      <4>4. CASE me.then = "group"
        <5>1. NextBudget(me) = over
          BY <4>1, <4>2, <4>4 DEF Finish
        <5> QED
          BY <3>1, <4>2, <4>4, <5>1
      <4> QED
        BY <1>2, <4>3, <4>4
    <3> QED
      BY <3>2, <3>3
  <2> QED
    BY <2>2, <2>3
<1>4. ~Readmitting(t)
  BY <1>1 DEF Readmitting
<1>5. CASE UNCHANGED thread
  BY <1>1, <1>4, <1>5 DEF Creating
<1>6. ASSUME NEW local, thread' = [thread EXCEPT ![t] = local],
             \/ /\ local.pc \in {"zero", "apply"}
                /\ local.s = me.s /\ local.ask = me.ask /\ local.then = me.then
             \/ /\ me.then = "group" /\ local.pc = "group"
                /\ local.s = me.s /\ local.ask = me.ask /\ local.then = me.then
             \/ me.then = "idle" /\ local = Outside
      PROVE  /\ \A u \in Threads \ {t} : thread'[u] = thread[u]
             /\ thread'[t].pc \in {"zero", "apply", "group", "idle"}
             /\ Creating(t)' <=> Creating(t)
             /\ Creating(t) => thread'[t].s = thread[t].s /\ thread'[t].ask = thread[t].ask
  <2>1. thread'[t] = local /\ \A u \in Threads \ {t} : thread'[u] = thread[u]
    BY <1>6, ShapeFacts
  <2> QED
    BY <1>1, <1>6, <2>1, OutsideFacts DEF Creating
<1> QED
  BY <1>1, <1>3, <1>4, <1>5, <1>6

LEMMA RequestsWalk ==
    ASSUME RequestsInv, NEW t \in Threads, Zero(t) \/ Apply(t)
    PROVE  RequestsMade' /\ RequestsInForce'
<1>1. CASE Fault
  BY <1>1 DEF Fault, RequestsMade, RequestsInForce
<1>2. CASE UNCHANGED vars
  BY <1>2, WalkFacts, RequestsQuiet DEF RequestsInv
<1> QED
  BY <1>1, <1>2, WalkFacts DEF RequestsInv

LEMMA RequestsCreate ==
    ASSUME RequestsInv, NEW t \in Threads, NEW s \in Servers, NEW param \in Params,
           Create(t, s, param)
    PROVE  RequestsMade' /\ RequestsInForce'
<1>1. /\ thread[t].pc = "idle" /\ ~faulted /\ srv[s] = BlankServer
      /\ InitServer(s, Cred[t][1], Cred[t][2], Rounded(param))
      /\ qres' = [qres EXCEPT ![s] = [BlankQres EXCEPT !.period = param.P]]
      /\ thread' = [thread EXCEPT ![t] = Enter("request", s, Rounded(param))]
      /\ UNCHANGED list_vars
  BY DEF Create, At, Goto
<1>2. /\ thread'[t] = Enter("request", s, Rounded(param))
      /\ \A u \in Threads \ {t} : thread'[u] = thread[u]
  BY <1>1, Runs
<1>3. thread'[t].pc = "request"
  BY <1>2 DEF Enter, Outside
<1>4. s \notin InUse
  BY <1>1, QsupAssumption DEF InUse, BlankServer
<1>5. \A u \in Threads : Creating(u) => thread[u].s \in InUse
  BY DEF RequestsInv, ShapeInv, ThreadsInv, ThreadOK
<1>6. s \notin Listed /\ Listed' = Listed /\ ~Creating(t) /\ ~Readmitting(t)
  <2>1. thread[t] = Outside /\ Listed \subseteq InUse
    BY <1>1, ShapeFacts DEF RequestsInv, ThreadOK
  <2> QED
    BY <1>1, <1>4, <2>1, OutsideFacts DEF list_vars, Listed, Creating, Readmitting
<1>7. \A x \in Servers \ {s} : /\ srv'[x] = srv[x]
                               /\ qres'[x].params = qres[x].params
                               /\ x \in qsup_servers' => x \in qsup_servers
  <2>1. srv \in [Servers -> Server] /\ qres \in [Servers -> Descriptor]
    BY ShapeFacts DEF RequestsInv, TypeOK
  <2> QED
    BY <1>1, <2>1 DEF InitServer
<1>8. Touches(t, {s})
  BY <1>2, <1>3, <1>4, <1>5, <1>6, <1>7 DEF Touches
<1> QED
  BY <1>1, <1>8, RequestsStep

LEMMA RequestsRequest ==
    ASSUME RequestsInv, NEW t \in Threads, Request(t)
    PROVE  RequestsMade' /\ RequestsInForce'
<1> DEFINE me == thread[t]
           local == Update(me, server_list, "group")
<1>1. /\ me.pc = "request" /\ ~faulted
      /\ SetRequiredBw(me.s, RequestOf(me.ask))
      /\ thread' = [thread EXCEPT ![t] = local]
      /\ UNCHANGED <<list_vars, qres>>
  BY DEF Request, At, Goto
<1>2. Creating(t)
  BY <1>1 DEF Creating
<1>3. me.s \in Servers /\ me.s \notin Listed
  BY <1>2, ShapeFacts DEF RequestsInv, ThreadOK, InUse
<1>4. local.s = me.s /\ local.ask = me.ask /\ (local.pc = "group" \/ local.then = "group")
  <2>1. me \in Local /\ server_list \in Seq(Servers)
    BY ShapeFacts DEF RequestsInv
  <2> QED
    BY <2>1, UpdateFacts
<1> HIDE DEF local
<1>5. thread'[t] = local /\ \A u \in Threads \ {t} : thread'[u] = thread[u]
  BY <1>1, Runs
<1>6. Listed' = Listed /\ UNCHANGED qres /\ Creating(t)'
  BY <1>1, <1>4, <1>5 DEF list_vars, Listed, Creating
<1>7. ASSUME ~faulted'
      PROVE  Touches(t, {me.s})
  <2>1. /\ srv'[me.s].req_bw = bw_min(RequestOf(me.ask), srv'[me.s].max_user_bw)
        /\ \A x \in Servers \ {me.s} : srv'[x] = srv[x]
        /\ UNCHANGED qsup_servers
    BY <1>1, <1>3, <1>7, RequestForm, ShapeFacts DEF RequestsInv
  <2>2. \A u \in Threads \ {t} : Creating(u) => thread[u].s # me.s
    BY <1>2, ShapeFacts DEF RequestsInv
  <2> QED
    BY <1>3, <1>4, <1>5, <1>6, <2>1, <2>2 DEF Touches
<1> QED
  BY <1>1, <1>7, RequestsStep

LEMMA RequestsCreateGroup ==
    ASSUME RequestsInv, NEW t \in Threads, CreateGroup(t)
    PROVE  RequestsMade' /\ RequestsInForce'
<1> DEFINE me == thread[t]
           s == me.s
           list == <<s>> \o server_list
           local == Update([me EXCEPT !.ask = None], list, "idle")
<1>1. /\ me.pc = "group" /\ ~faulted
      /\ qres' = [qres EXCEPT ![s].id = NewId, ![s].params = me.ask,
                              ![s].owner = Cred[t], ![s].tg = s]
      /\ server_list' = list
      /\ thread' = [thread EXCEPT ![t] = local]
      /\ UNCHANGED vars
  BY DEF CreateGroup, At, Goto
<1>2. Creating(t)
  BY <1>1 DEF Creating
<1>3. s \in Servers
  BY <1>2, ShapeFacts DEF RequestsInv, ThreadOK, InUse
<1>4. Listed' = Listed \cup {s} /\ local.pc = "zero" /\ local.then = "idle"
  <2>1. /\ list \in Seq(Servers) /\ ToSet(list) = Listed \cup {s} /\ list # <<>>
    <3>1. server_list \in Seq(Servers)
      BY ShapeFacts DEF RequestsInv
    <3> QED
      BY <1>3, <3>1, PrependFacts DEF Listed
  <2>2. [me EXCEPT !.ask = None] \in Local
    BY ShapeFacts DEF RequestsInv, Local
  <2> HIDE DEF list
  <2> QED
    BY <1>1, <2>1, <2>2, UpdateFacts DEF Listed
<1> HIDE DEF local, list
<1>5. thread'[t] = local /\ \A u \in Threads \ {t} : thread'[u] = thread[u]
  BY <1>1, Runs
<1>6. /\ qres'[s].params = me.ask
      /\ \A x \in Servers \ {s} : qres'[x].params = qres[x].params
  <2>1. qres \in [Servers -> Descriptor]
    BY ShapeFacts DEF RequestsInv
  <2>2. qres[s] \in Descriptor
    BY <1>3, <2>1
  <2> HIDE DEF me, s
  <2> QED
    BY <1>1, <1>3, <2>1, <2>2 DEF Descriptor
<1>7. UNCHANGED <<srv, qsup_servers>>
  BY <1>1 DEF vars
<1>8. srv[s].req_bw = bw_min(RequestOf(me.ask), srv[s].max_user_bw)
  BY <1>1, <1>2 DEF RequestsInv, RequestsMade
<1>9. ~Creating(t)'
  BY <1>4, <1>5 DEF Creating
<1>10. \A u \in Threads \ {t} : Creating(u) => thread[u].s # s
  BY <1>2, ShapeFacts DEF RequestsInv
<1>11. Touches(t, {s})
  BY <1>4, <1>5, <1>6, <1>7, <1>8, <1>9, <1>10 DEF Touches
<1> QED
  BY <1>1, <1>11, RequestsStep

LEMMA RequestsCreateGroupFails ==
    ASSUME RequestsInv, NEW t \in Threads, CreateGroupFails(t)
    PROVE  RequestsMade' /\ RequestsInForce'
<1> DEFINE me == thread[t]
           next == Update([me EXCEPT !.ask = None], server_list, "idle")
           local == Finish(next)
<1>1. /\ me.pc = "group" /\ ~faulted
      /\ CleanupServer(me.s)
      /\ thread' = [thread EXCEPT ![t] = local]
      /\ UNCHANGED <<list_vars, qres>>
  BY DEF CreateGroupFails, At, Goto, Withdraw
<1>2. Creating(t)
  BY <1>1 DEF Creating
<1>3. me.s \in Servers /\ me.s \notin Listed
  BY <1>2, ShapeFacts DEF RequestsInv, ThreadOK, InUse
<1>4. local.pc \in {"idle", "zero"} /\ ~(local.then = "group")
  <2>1. [me EXCEPT !.ask = None] \in Local /\ server_list \in Seq(Servers)
    BY ShapeFacts DEF RequestsInv, Local
  <2>2. next.pc = "idle" \/ (next.pc = "zero" /\ next.then = "idle")
    BY <2>1, UpdateFacts
  <2> HIDE DEF next
  <2>3. local = Outside \/ (local = next /\ next.pc = "zero" /\ next.then = "idle")
    BY <2>2 DEF Finish
  <2> HIDE DEF local
  <2> QED
    BY <2>3, OutsideFacts
<1> HIDE DEF local
<1>5. thread'[t] = local /\ \A u \in Threads \ {t} : thread'[u] = thread[u]
  BY <1>1, Runs
<1>6. Listed' = Listed /\ UNCHANGED qres /\ ~Creating(t)'
  BY <1>1, <1>4, <1>5 DEF list_vars, Listed, Creating
<1>7. ASSUME ~faulted'
      PROVE  Touches(t, {me.s})
  <2>1. /\ \A x \in Servers \ {me.s} : srv'[x] = srv[x]
        /\ qsup_servers' = qsup_servers \ {me.s}
    BY <1>1, <1>3, <1>7, RemovalLeaves, ShapeFacts DEF RequestsInv
  <2>2. \A u \in Threads \ {t} : Creating(u) => thread[u].s # me.s
    BY <1>2, ShapeFacts DEF RequestsInv
  <2> QED
    BY <1>3, <1>5, <1>6, <2>1, <2>2 DEF Touches
<1> QED
  BY <1>1, <1>7, RequestsStep

\* An idle thread has nothing in hand, and neither has one that returns.
LEMMA IdleHand ==
    ASSUME ShapeInv, NEW t \in Threads, thread[t].pc = "idle"
    PROVE  ~Creating(t) /\ ~Readmitting(t)
BY ShapeFacts, OutsideFacts DEF ThreadOK, Creating, Readmitting

LEMMA RequestsTasks ==
    ASSUME RequestsInv, NEW t \in Threads, NEW s \in Listed,
           Destroy(t, s) \/ Attach(t, s) \/ Detach(t, s)
    PROVE  RequestsMade' /\ RequestsInForce'
<1>1. /\ thread[t].pc = "idle"
      /\ thread' = [thread EXCEPT ![t] = Outside]
      /\ UNCHANGED <<list_vars, qres>>
  BY DEF Destroy, Attach, Detach, At, Goto
<1>2. CASE Fault
  BY <1>2 DEF Fault, RequestsMade, RequestsInForce
<1>3. CASE UNCHANGED vars
  <2>1. thread'[t] = Outside /\ \A u \in Threads \ {t} : thread'[u] = thread[u]
    BY <1>1, Runs
  <2>2. ~Creating(t) /\ ~Readmitting(t) /\ ~Creating(t)'
    BY <1>1, <2>1, IdleHand, OutsideFacts DEF RequestsInv, Creating
  <2> QED
    BY <1>1, <1>3, <2>1, <2>2, RequestsQuiet
<1> QED
  BY <1>2, <1>3 DEF Destroy, Attach, Detach, Oops

\* The request of a listed server is set and its parameters are recorded.
LEMMA RequestsSetRequest ==
    ASSUME RequestsInv, NEW t \in Threads, NEW s \in Listed, NEW param, ~faulted,
           SetRequiredBw(s, RequestOf(param)),
           qres' = [qres EXCEPT ![s].params = param],
           thread' = [thread EXCEPT ![t] = Outside],
           UNCHANGED list_vars,
           ~Creating(t), Readmitting(t) => thread[t].s = s
    PROVE  RequestsMade' /\ RequestsInForce'
<1>1. s \in Servers /\ TypeOK /\ qres \in [Servers -> Descriptor] /\ qres[s] \in Descriptor
  BY ShapeFacts DEF RequestsInv
<1>2. thread'[t] = Outside /\ \A u \in Threads \ {t} : thread'[u] = thread[u]
  BY Runs
<1>3. Listed' = Listed /\ ~Creating(t)'
  BY <1>2, OutsideFacts DEF list_vars, Listed, Creating
<1>4. qres'[s].params = param /\ \A x \in Servers \ {s} : qres'[x].params = qres[x].params
  BY <1>1 DEF Descriptor
<1>5. \A u \in Threads \ {t} : Creating(u) => thread[u].s # s
  BY ShapeFacts DEF RequestsInv
<1>6. ASSUME ~faulted'
      PROVE  Touches(t, {s})
  <2>1. /\ srv'[s].req_bw = bw_min(RequestOf(param), srv'[s].max_user_bw)
        /\ \A x \in Servers \ {s} : srv'[x] = srv[x]
        /\ UNCHANGED qsup_servers
    BY <1>1, <1>6, RequestForm
  <2> QED
    BY <1>2, <1>3, <1>4, <1>5, <2>1 DEF Touches
<1> QED
  BY <1>6, RequestsStep

LEMMA RequestsSetParams ==
    ASSUME RequestsInv, NEW t \in Threads, NEW s \in Listed, NEW param \in Params,
           SetParams(t, s, param)
    PROVE  RequestsMade' /\ RequestsInForce'
<1> DEFINE local == IF s \in qsup_servers THEN Enter("readmit", s, Rounded(param)) ELSE Outside
<1>1. /\ thread[t].pc = "idle" /\ ~faulted
      /\ CleanupServer(s)
      /\ thread' = [thread EXCEPT ![t] = local]
      /\ UNCHANGED <<list_vars, qres>>
  BY DEF SetParams, MaySetParams, At, Goto
<1>2. s \in Servers
  BY ShapeFacts DEF RequestsInv
<1>3. thread'[t] = local /\ \A u \in Threads \ {t} : thread'[u] = thread[u]
  BY <1>1, Runs
<1>4. local.pc \in {"readmit", "idle"} /\ local.then = "idle"
  BY OutsideFacts DEF Enter, Outside
<1> HIDE DEF local
<1>5. /\ Listed' = Listed /\ UNCHANGED qres
      /\ ~Creating(t)' /\ ~Creating(t) /\ ~Readmitting(t)
  BY <1>1, <1>3, <1>4, IdleHand DEF RequestsInv, list_vars, Listed, Creating
<1>6. \A u \in Threads \ {t} : Creating(u) => thread[u].s # s
  BY ShapeFacts DEF RequestsInv
<1>7. ASSUME ~faulted'
      PROVE  Touches(t, {s})
  <2>1. /\ \A x \in Servers \ {s} : srv'[x] = srv[x]
        /\ qsup_servers' = qsup_servers \ {s}
    BY <1>1, <1>2, <1>7, RemovalLeaves, ShapeFacts DEF RequestsInv
  <2> QED
    BY <1>3, <1>5, <1>6, <2>1 DEF Touches
<1> QED
  BY <1>1, <1>7, RequestsStep

LEMMA RequestsReadmit ==
    ASSUME RequestsInv, NEW t \in Threads, At(t, "readmit"), NEW param,
           Readmit(t, thread[t].s, param), UNCHANGED list_vars
    PROVE  RequestsMade' /\ RequestsInForce'
<1> DEFINE me == thread[t]
           s == me.s
           local == [me EXCEPT !.pc = "set"]
<1>1. /\ me.pc = "readmit" /\ ~faulted
      /\ InitServer(s, qres[s].owner[1], qres[s].owner[2], param)
      /\ qres' = [qres EXCEPT ![s].tg = None]
      /\ thread' = [thread EXCEPT ![t] = local]
  BY DEF Readmit, At, Goto
<1>2. s \in Listed /\ s \in Servers /\ me.then = "idle"
  BY <1>1, ReadmitFacts DEF RequestsInv
<1>3. local.pc = "set" /\ local.then = "idle" /\ local.s = s
  <2>1. me \in Local
    BY ShapeFacts DEF RequestsInv
  <2> QED
    BY <1>2, <2>1 DEF Local
<1> HIDE DEF local
<1>4. thread'[t] = local /\ \A u \in Threads \ {t} : thread'[u] = thread[u]
  BY <1>1, Runs
<1>5. Listed' = Listed /\ ~Creating(t)' /\ Readmitting(t)'
  BY <1>3, <1>4 DEF list_vars, Listed, Creating, Readmitting
<1>6. \A u \in Threads \ {t} : Creating(u) => thread[u].s # s
  BY <1>2, ShapeFacts DEF RequestsInv
<1>7. \A x \in Servers \ {s} : /\ srv'[x] = srv[x]
                               /\ qres'[x].params = qres[x].params
                               /\ x \in qsup_servers' => x \in qsup_servers
  <2>1. srv \in [Servers -> Server] /\ qres \in [Servers -> Descriptor]
    BY ShapeFacts DEF RequestsInv, TypeOK
  <2> QED
    BY <1>1, <2>1 DEF InitServer
<1>8. Touches(t, {s})
  BY <1>3, <1>4, <1>5, <1>6, <1>7 DEF Touches
<1> QED
  BY <1>1, <1>8, RequestsStep

LEMMA RequestsReadmitNone ==
    ASSUME RequestsInv, NEW t \in Threads, ReadmitNone(t)
    PROVE  RequestsMade' /\ RequestsInForce'
<1>1. /\ thread[t].pc = "readmit" /\ ~faulted
      /\ thread' = [thread EXCEPT ![t] = Outside]
      /\ UNCHANGED <<vars, list_vars, qres>>
  BY DEF ReadmitNone, At, Goto
<1>2. thread[t].s \notin qsup_servers /\ ~Creating(t)
  BY <1>1, ReadmitFacts DEF RequestsInv, Creating
<1>3. thread'[t] = Outside /\ \A u \in Threads \ {t} : thread'[u] = thread[u]
  BY <1>1, Runs
<1>4. ~Creating(t)'
  BY <1>3, OutsideFacts DEF Creating
<1> QED
  BY <1>1, <1>2, <1>3, <1>4, RequestsQuiet

LEMMA RequestsNext ==
    ASSUME RequestsInv, [QresNext]_qres_vars
    PROVE  RequestsInv'
<1>1. ShapeInv'
  BY ShapeNext DEF RequestsInv
<1>2. CASE UNCHANGED qres_vars
  <2>1. UNCHANGED <<srv, qsup_servers, faulted>> /\ Listed' = Listed /\ UNCHANGED <<qres, thread>>
    BY <1>2 DEF qres_vars, vars, list_vars, Listed
  <2> QED
    BY <1>1, <2>1
       DEF RequestsInv, RequestsMade, RequestsInForce, InHand, Creating, Readmitting
<1>3. ASSUME NEW g \in Gids, NEW c \in Constraints, AddRule(g, c)
      PROVE  RequestsInv'
  <2>1. UNCHANGED <<srv, qsup_servers, faulted>> /\ Listed' = Listed /\ UNCHANGED <<qres, thread>>
    BY <1>3 DEF AddRule, AddGroupRule, list_vars, Listed
  <2> QED
    BY <1>1, <2>1
       DEF RequestsInv, RequestsMade, RequestsInForce, InHand, Creating, Readmitting
<1>4. ASSUME NEW t \in Threads, Continue(t)
      PROVE  RequestsMade' /\ RequestsInForce'
  <2>1. CASE ReadmitNew(t) \/ ReadmitOld(t)
    BY <2>1, RequestsReadmit DEF ReadmitNew, ReadmitOld
  <2>2. CASE Set(t)
    <3> DEFINE s == thread[t].s
    <3>1. /\ thread[t].pc = "set" /\ ~faulted
          /\ SetRequiredBw(s, RequestOf(thread[t].ask))
          /\ qres' = [qres EXCEPT ![s].params = thread[t].ask]
          /\ thread' = [thread EXCEPT ![t] = Outside]
          /\ UNCHANGED list_vars
      BY <2>2 DEF Set, At, Goto, Recorded
    <3>2. s \in Listed
      BY <3>1, SetFacts DEF RequestsInv
    <3>3. ~Creating(t)
      BY <3>1, ShapeFacts DEF RequestsInv, ThreadOK, Creating
    <3> QED
      BY <3>1, <3>2, <3>3, RequestsSetRequest
  <2> QED
    BY <1>4, <2>1, <2>2, RequestsWalk, RequestsRequest, RequestsCreateGroup,
       RequestsCreateGroupFails, RequestsReadmitNone DEF Continue
<1>5. ASSUME NEW t \in Threads, Call(t)
      PROVE  RequestsMade' /\ RequestsInForce'
  <2>1. ASSUME NEW s \in Listed, NEW param \in Params, SetRequest(t, s, param)
        PROVE  RequestsMade' /\ RequestsInForce'
    <3>1. /\ thread[t].pc = "idle" /\ ~faulted
          /\ SetRequiredBw(s, RequestOf(Rounded(param)))
          /\ qres' = [qres EXCEPT ![s].params = Rounded(param)]
          /\ thread' = [thread EXCEPT ![t] = Outside]
          /\ UNCHANGED list_vars
      BY <2>1 DEF SetRequest, MaySetParams, At, Goto, Recorded
    <3>2. ~Creating(t) /\ ~Readmitting(t)
      BY <3>1, IdleHand DEF RequestsInv
    <3> QED
      BY <3>1, <3>2, RequestsSetRequest
  <2> QED
    BY <1>5, <2>1, RequestsCreate, RequestsTasks, RequestsSetParams DEF Call
<1> QED
  BY <1>1, <1>2, <1>3, <1>4, <1>5 DEF QresNext, RequestsInv

LEMMA RequestsInit == QresInit => RequestsInv
<1> SUFFICES ASSUME QresInit PROVE RequestsInv
  OBVIOUS
<1>1. ShapeInv
  BY ShapeInit
<1>2. Listed = {} /\ \A t \in Threads : ~Creating(t)
  BY OutsideFacts DEF QresInit, Listed, ToSet, Creating
<1> QED
  BY <1>1, <1>2 DEF RequestsInv, RequestsMade, RequestsInForce

LEMMA RequestsAlways == SpecQres => []RequestsInv
BY RequestsInit, RequestsNext, PTL DEF SpecQres

\* The request of a listed server that is in the supervisor and in nobody's hand
\* is the one recorded in its parameters, cut to the maximum of its user, however
\* the handlers of any number of threads interleave (qres.c:621-634).
THEOREM RequestsStayInForce == SpecQres => []RequestsInForce
<1>1. RequestsInv => RequestsInForce
  BY DEF RequestsInv
<1> QED
  BY <1>1, RequestsAlways, PTL

-----------------------------------------------------------------------------
(* What the supervisor stands for.  A server that is away stays away, with *)
(* the guarantee and the parameters it has.                                *)

StaysAway(t, s) ==
    /\ \A u \in Threads \ {t} : thread'[u] = thread[u]
    /\ thread'[t].pc = "readmit" => thread'[t].s # s
    /\ s \in Listed' \ qsup_servers'
    /\ srv'[s].gua_bw = srv[s].gua_bw
    /\ MinBw(qres'[s].params) = MinBw(qres[s].params)

LEMMA AwayStep ==
    ASSUME NEW s \in Away, NEW t \in Threads, StaysAway(t, s)
    PROVE  /\ s \in Away'
           /\ srv'[s].gua_bw = srv[s].gua_bw
           /\ MinBw(qres'[s].params) = MinBw(qres[s].params)
<1>1. \A u \in Threads : thread'[u].pc = "readmit" => thread'[u].s # s
  BY DEF StaysAway, Away
<1> QED
  BY <1>1 DEF StaysAway, Away

\* A step that does not touch the server or its parameters leaves it away.
LEMMA AwayUntouched ==
    ASSUME ShapeInv, NEW s \in Away, NEW t \in Threads, NEW local,
           thread' = [thread EXCEPT ![t] = local], local.pc # "readmit" \/ local.s # s,
           Listed \subseteq Listed',
           srv'[s] = srv[s], qres'[s].params = qres[s].params, s \notin qsup_servers'
    PROVE  StaysAway(t, s)
<1>1. thread'[t] = local /\ \A u \in Threads \ {t} : thread'[u] = thread[u]
  BY ShapeFacts
<1> QED
  BY <1>1 DEF StaysAway, Away

\* Neither does a request or a removal, as far as the guarantee goes.
LEMMA AwayRequest ==
    ASSUME ShapeInv, NEW s \in Away, NEW t \in Threads, NEW local, NEW x \in InUse,
           CleanupServer(x) \/ \E bw \in Nat : SetRequiredBw(x, bw),
           thread' = [thread EXCEPT ![t] = local], local.pc # "readmit" \/ local.s # s,
           UNCHANGED list_vars, MinBw(qres'[s].params) = MinBw(qres[s].params)
    PROVE  StaysAway(t, s)
<1>1. thread'[t] = local /\ \A u \in Threads \ {t} : thread'[u] = thread[u]
  BY ShapeFacts
<1>2. x \in Servers /\ s \in Servers /\ TypeOK /\ Listed' = Listed
  BY ShapeFacts DEF InUse, Away, list_vars, Listed
<1>3. qsup_servers' \subseteq qsup_servers
  BY <1>2, SupervisorList
<1>4. srv'[s].gua_bw = srv[s].gua_bw
  BY <1>2, DescriptorsKept
<1> QED
  BY <1>1, <1>2, <1>3, <1>4 DEF StaysAway, Away

LEMMA AwayContinue ==
    ASSUME ShapeInv, NEW s \in Away, NEW t \in Threads, Continue(t)
    PROVE  StaysAway(t, s)
<1> DEFINE me == thread[t]
<1>1. /\ s \in Listed /\ s \notin qsup_servers /\ s \in Servers
      /\ me.pc = "readmit" => me.s # s
      /\ me \in Local /\ ThreadOK(t) /\ server_list \in Seq(Servers)
  BY ShapeFacts DEF Away
<1>2. CASE Zero(t) \/ Apply(t)
  <2>1. UNCHANGED <<srv, qres, qsup_servers>> /\ Listed' = Listed
    BY <1>2, WalkFacts DEF Fault, vars, list_vars, Listed
  <2> QED
    BY <1>1, <1>2, <2>1, WalkFacts DEF StaysAway
<1>3. CASE Request(t)
  <2>1. Creating(t)
    BY <1>3 DEF Request, At, Creating
  <2>2. me.s \in InUse /\ RequestOf(me.ask) \in Nat
    BY <1>1, <2>1, ParamFacts DEF ThreadOK
  <2>3. Update(me, server_list, "group").pc # "readmit"
    BY <1>1, UpdateFacts
  <2> QED
    BY <1>3, <2>2, <2>3, AwayRequest DEF Request, Goto
<1>4. CASE CreateGroup(t)
  <2> DEFINE x == me.s
             list == <<x>> \o server_list
             local == Update([me EXCEPT !.ask = None], list, "idle")
  <2>1. Creating(t)
    BY <1>4 DEF CreateGroup, At, Creating
  <2>2. x \in Servers /\ x # s
    BY <1>1, <2>1 DEF ThreadOK, InUse
  <2>3. local.pc # "readmit"
    BY <1>1 DEF Update, Local
  <2>4. Listed \subseteq Listed'
    BY <1>1, <1>4, <2>2, PrependFacts DEF CreateGroup, Listed
  <2>5. qres'[s] = qres[s]
    BY <1>1, <1>4, <2>2, ShapeFacts DEF CreateGroup
  <2>6. srv' = srv /\ qsup_servers' = qsup_servers
    BY <1>4 DEF CreateGroup, vars
  <2>7. thread' = [thread EXCEPT ![t] = local]
    BY <1>4 DEF CreateGroup, Goto
  <2> HIDE DEF local, list
  <2> QED
    BY <1>1, <2>3, <2>4, <2>5, <2>6, <2>7, AwayUntouched
<1>5. CASE CreateGroupFails(t)
  <2> DEFINE next == Update([me EXCEPT !.ask = None], server_list, "idle")
  <2>1. Creating(t)
    BY <1>5 DEF CreateGroupFails, At, Creating
  <2>2. me.s \in InUse
    BY <1>1, <2>1 DEF ThreadOK
  <2>3. next.pc # "readmit"
    BY <1>1 DEF Update, Local
  <2> HIDE DEF next
  <2>4. Finish(next).pc # "readmit"
    BY <2>3, OutsideFacts DEF Finish
  <2>5. /\ CleanupServer(me.s) /\ thread' = [thread EXCEPT ![t] = Finish(next)]
        /\ UNCHANGED <<list_vars, qres>>
    BY <1>5 DEF CreateGroupFails, Goto, Withdraw, next
  <2> QED
    BY <2>2, <2>4, <2>5, AwayRequest
<1>6. CASE ReadmitNew(t) \/ ReadmitOld(t)
  <2>1. PICK param : Readmit(t, me.s, param) /\ UNCHANGED list_vars /\ At(t, "readmit")
    BY <1>6 DEF ReadmitNew, ReadmitOld
  <2>2. me.s # s /\ me.s \in Servers
    BY <1>1, <2>1, ReadmitFacts DEF At
  <2>3. srv'[s] = srv[s] /\ qres'[s] = qres[s] /\ s \notin qsup_servers' /\ Listed' = Listed
    <3>1. srv \in [Servers -> Server] /\ qres \in [Servers -> Descriptor]
      BY ShapeFacts DEF TypeOK
    <3> QED
      BY <1>1, <2>1, <2>2, <3>1 DEF Readmit, InitServer, list_vars, Listed
  <2>4. [me EXCEPT !.pc = "set"].pc # "readmit"
    BY <1>1 DEF Local
  <2> QED
    BY <2>1, <2>3, <2>4, AwayUntouched DEF Readmit, Goto
<1>7. CASE ReadmitNone(t)
  <2>1. UNCHANGED <<srv, qres, qsup_servers>> /\ Listed' = Listed
    BY <1>7 DEF ReadmitNone, vars, list_vars, Listed
  <2> QED
    BY <1>1, <1>7, <2>1, OutsideFacts, AwayUntouched DEF ReadmitNone, Goto
<1>8. CASE Set(t)
  <2>1. /\ me.s \in InUse /\ me.s \in Servers /\ me.s # s /\ RequestOf(me.ask) \in Nat
    BY <1>1, <1>8, SetFacts DEF Set, At
  <2>2. qres'[s] = qres[s]
    BY <1>1, <1>8, <2>1, ShapeFacts DEF Set, Recorded
  <2> QED
    BY <1>8, <2>1, <2>2, OutsideFacts, AwayRequest DEF Set, Goto
<1> QED
  BY <1>2, <1>3, <1>4, <1>5, <1>6, <1>7, <1>8 DEF Continue

LEMMA AwayCall ==
    ASSUME ShapeInv, NEW s \in Away, NEW t \in Threads, Call(t)
    PROVE  StaysAway(t, s)
<1>1. s \in Listed /\ s \notin qsup_servers /\ s \in Servers /\ Listed \subseteq InUse
  BY ShapeFacts DEF Away
<1>2. ASSUME NEW x \in Servers, NEW param \in Params, Create(t, x, param)
      PROVE  StaysAway(t, s)
  <2>1. x # s
    <3>1. srv[x] = BlankServer
      BY <1>2 DEF Create
    <3> QED
      BY <1>1, <3>1, QsupAssumption DEF InUse, BlankServer
  <2>2. srv'[s] = srv[s] /\ qres'[s] = qres[s] /\ s \notin qsup_servers' /\ Listed' = Listed
    <3>1. srv \in [Servers -> Server] /\ qres \in [Servers -> Descriptor]
      BY ShapeFacts DEF TypeOK
    <3> QED
      BY <1>1, <1>2, <2>1, <3>1 DEF Create, InitServer, list_vars, Listed
  <2>3. Enter("request", x, Rounded(param)).pc # "readmit"
    BY DEF Enter, Outside
  <2> QED
    BY <1>2, <2>2, <2>3, AwayUntouched DEF Create, Goto
<1>3. ASSUME NEW x \in Listed, Destroy(t, x) \/ Attach(t, x) \/ Detach(t, x)
      PROVE  StaysAway(t, s)
  <2>1. UNCHANGED <<srv, qres, qsup_servers>> /\ Listed' = Listed
    BY <1>3 DEF Destroy, Attach, Detach, Oops, Fault, vars, list_vars, Listed
  <2>2. thread' = [thread EXCEPT ![t] = Outside]
    BY <1>3 DEF Destroy, Attach, Detach, Goto
  <2> QED
    BY <1>1, <2>1, <2>2, OutsideFacts, AwayUntouched
<1>4. ASSUME NEW x \in Listed, NEW param \in Params, SetRequest(t, x, param)
      PROVE  StaysAway(t, s)
  <2>1. /\ SetRequiredBw(x, RequestOf(Rounded(param))) /\ UNCHANGED list_vars
        /\ qres' = [qres EXCEPT ![x].params = Rounded(param)]
        /\ thread' = [thread EXCEPT ![t] = Outside]
        /\ Rounded(param).Q_min = qres[x].params.Q_min
        /\ param.P = qres[x].params.P
    BY <1>4 DEF SetRequest, Recorded, Readmitted, Goto
  <2>2. x \in InUse /\ x \in Servers /\ RequestOf(Rounded(param)) \in Nat
        /\ Rounded(param).P = param.P
    BY <1>1, QresAssumption, RoundedType, ParamFacts, ShapeFacts
  <2>3. MinBw(qres'[s].params) = MinBw(qres[s].params)
    <3>1. qres \in [Servers -> Descriptor]
      BY ShapeFacts
    <3>2. CASE x = s
      <4>1. qres'[s].params = Rounded(param)
        BY <1>1, <2>1, <3>1, <3>2 DEF Descriptor
      <4>2. MinBw(Rounded(param)) = MinBw(qres[s].params)
        BY <2>1, <2>2, <3>2 DEF MinBw
      <4> QED
        BY <4>1, <4>2
    <3>3. CASE x # s
      BY <1>1, <2>1, <3>1, <3>3
    <3> QED
      BY <3>2, <3>3
  <2> QED
    BY <2>1, <2>2, <2>3, OutsideFacts, AwayRequest
<1>5. ASSUME NEW x \in Listed, NEW param \in Params, SetParams(t, x, param)
      PROVE  StaysAway(t, s)
  <2> DEFINE local == IF x \in qsup_servers THEN Enter("readmit", x, Rounded(param)) ELSE Outside
  <2>1. /\ CleanupServer(x) /\ UNCHANGED <<list_vars, qres>>
        /\ thread' = [thread EXCEPT ![t] = local]
    BY <1>5 DEF SetParams, Goto
  <2>2. local.pc # "readmit" \/ local.s # s
    BY <1>1, OutsideFacts DEF Enter, Outside
  <2> HIDE DEF local
  <2> QED
    BY <1>1, <2>1, <2>2, AwayRequest
<1> QED
  BY <1>2, <1>3, <1>4, <1>5 DEF Call

LEMMA AwayKept ==
    ASSUME ShapeInv, [QresNext]_qres_vars, NEW s \in Away
    PROVE  /\ s \in Away'
           /\ srv'[s].gua_bw = srv[s].gua_bw
           /\ MinBw(qres'[s].params) = MinBw(qres[s].params)
<1>1. CASE UNCHANGED qres_vars \/ \E g \in Gids, c \in Constraints : AddRule(g, c)
  <2>1. UNCHANGED <<srv, qres, qsup_servers, thread>> /\ Listed' = Listed
    BY <1>1 DEF qres_vars, vars, AddRule, AddGroupRule, list_vars, Listed
  <2> QED
    BY <2>1 DEF Away
<1>2. CASE \E t \in Threads : Continue(t) \/ Call(t)
  BY <1>2, AwayContinue, AwayCall, AwayStep
<1> QED
  BY <1>1, <1>2 DEF QresNext

-----------------------------------------------------------------------------
(* Until a rule is added the supervisor is well configured, and sound.     *)

LEMMA SumSubset ==
    ASSUME NEW S, NEW T, S \subseteq T, NEW f \in PerServer
    PROVE  SumOf(S, f) <= SumOf(T, f)
<1> DEFINE fs == On(S, f, NumServers)
           ft == On(T, f, NumServers)
<1>1. NumServers \in Nat /\ f \in [1 .. NumServers -> 0 .. MAX_BW] /\ MAX_BW \in Nat
  BY QsupAssumption, BandwidthAssumption DEF PerServer
<1>2. /\ fs \in [1 .. NumServers -> Int] /\ ft \in [1 .. NumServers -> Int]
      /\ \A i \in 1 .. NumServers : fs[i] <= ft[i]
  BY <1>1 DEF On
<1> HIDE DEF fs, ft
<1>3. Total(fs, NumServers) <= Total(ft, NumServers)
  BY <1>1, <1>2, TotalMono
<1> QED
  BY <1>3 DEF SumOf, fs, ft

\* With the default rule in force all servers are at level 0, which may use all
\* there is.
LEMMA DefaultWell ==
    ASSUME TotalsInv', DefaultsKept', RulesUnchanged', tot_gua_bw' <= U_LUB
    PROVE  WellConfigured'
<1>1. /\ TypeOK' /\ tot_gua_bw' = SumOf(qsup_servers, GuaBw)'
  BY DEF TotalsInv, TotalsAreSums
<1>2. GuaBw' \in PerServer
  BY <1>1, FieldTypes DEF TypeOK, GuaBw
<1>3. \A s \in qsup_servers' : srv'[s].level = 0 /\ srv'[s].max_user_bw = U_LUB
  BY <1>1 DEF DefaultsKept, InUse, TypeOK
<1>4. \A l \in Levels : qsup_levels'[l].level_max = U_LUB
  BY DEF DefaultsKept
<1>5. \A u : SumOf(ServersOf(u), GuaBw)' <= tot_gua_bw'
  <2> TAKE u
  <2>1. ServersOf(u)' \subseteq qsup_servers'
    BY DEF ServersOf
  <2>2. SumOf(ServersOf(u)', GuaBw') <= SumOf(qsup_servers', GuaBw')
    BY <1>2, <2>1, SumSubset
  <2> QED
    BY <1>1, <2>2 DEF SumOf
<1>6. ServersAt(0)' = qsup_servers' /\ ServersAt(1)' = {}
  BY <1>3 DEF ServersAt
<1>7. SumOf(ServersAt(0), GuaBw)' = tot_gua_bw' /\ SumOf(ServersAt(1), GuaBw)' = 0
  <2>1. SumOf(ServersAt(1)', GuaBw') = 0
    BY <1>6, SumEmpty
  <2> QED
    BY <1>1, <1>6, <2>1 DEF SumOf
<1>8. U_LUB \in Nat /\ tot_gua_bw' \in Nat
  BY <1>1, BandwidthAssumption, BoundType DEF TypeOK, Word
<1>9. \A s \in qsup_servers' : SumOf(ServersOf(srv[s].uid), GuaBw)' <= srv'[s].max_user_bw
  <2> TAKE s \in qsup_servers'
  <2>1. SumOf(ServersOf(srv[s].uid), GuaBw)' \in Int
    <3>1. SumOf(ServersOf(srv[s].uid)', GuaBw') \in Word
      BY <1>2, SumFits
    <3> QED
      BY <3>1, BandwidthAssumption DEF Word, SumOf
  <2>2. SumOf(ServersOf(srv[s].uid), GuaBw)' <= tot_gua_bw'
    BY <1>5 DEF ServersOf
  <2> QED
    BY <1>3, <1>8, <2>1, <2>2
<1> QED
  BY <1>3, <1>4, <1>7, <1>8, <1>9 DEF WellConfigured, Levels

\* What the layer does to a supervisor that has each server it uses.
SoundStep ==
    \/ UNCHANGED vars
    \/ \E s \in Servers, uid \in Uids, gid \in Gids, param \in Param :
          InitServer(s, uid, gid, param)
    \/ \E s \in qsup_servers, bw \in Nat : SetRequiredBw(s, bw)
    \/ \E s \in qsup_servers : CleanupServer(s)

\* It never faults then.
LEMMA SoundRuns ==
    ASSUME WellInv, NEW s \in qsup_servers
    PROVE  /\ \A bw \in Nat : SetRequiredBw(s, bw) => ~faulted' /\ UNCHANGED <<tot_gua_bw, qsup_servers>>
           /\ CleanupServer(s) => TakeOut(s, ServerAfter(s, 0)) /\ ~faulted'
<1>1. TotalsInv /\ TypeOK /\ WellConfigured /\ LevelReqIsSum /\ ~faulted
  BY DEF WellInv, TotalsInv, NoFault
<1>2. 0 \in Bandwidths
  BY BandwidthAssumption DEF Bandwidths
<1>3. s \in InUse
  BY <1>1, ListedInUse
<1>4. \A req \in Bandwidths : ~Faults(s, req)
  BY <1>1, NoFaults
<1>5. \A bw \in Nat : Saturated(s, bw) \in Bandwidths
  BY <1>1, <1>3, SaturatedType
<1> QED
  BY <1>1, <1>2, <1>4, <1>5 DEF SetRequiredBw, CleanupServer, RemoveServer, RemoveFaults, TakeOut

\* Taking a server out takes its guarantee off the total.
LEMMA SoundRemoval ==
    ASSUME WellInv, NEW s \in qsup_servers, CleanupServer(s), TotalsInv'
    PROVE  tot_gua_bw = tot_gua_bw' + srv[s].gua_bw
<1>1. TypeOK /\ tot_gua_bw = SumOf(qsup_servers, GuaBw) /\ srv \in [Servers -> Server]
      /\ s \in InUse /\ s \in Servers
  BY ListedInUse DEF WellInv, TotalsInv, TotalsAreSums, TypeOK, InUse
<1>2. TypeOK' /\ tot_gua_bw' = SumOf(qsup_servers, GuaBw)'
  BY DEF TotalsInv, TotalsAreSums
<1>3. qsup_servers' = qsup_servers \ {s}
  BY SoundRuns DEF TakeOut
<1>4. GuaBw' = GuaBw
  BY <1>1, DescriptorsKept DEF GuaBw
<1>5. GuaBw \in PerServer /\ GuaBw[s] = srv[s].gua_bw
  BY <1>1, FieldTypes DEF GuaBw
<1>6. SumOf(qsup_servers \ {s}, GuaBw) = SumOf(qsup_servers, GuaBw) - GuaBw[s]
  BY <1>1, <1>5, ServerSumRemove DEF Servers
<1>7. tot_gua_bw' = SumOf(qsup_servers \ {s}, GuaBw)
  BY <1>2, <1>3, <1>4 DEF SumOf
<1>8. tot_gua_bw \in Int /\ srv[s].gua_bw \in Int
  BY <1>1, BandwidthAssumption DEF TypeOK, Word, Server, Bandwidths
<1> QED
  BY <1>1, <1>5, <1>6, <1>7, <1>8

LEMMA SoundKept ==
    ASSUME WellInv, DefaultsKept, tot_gua_bw <= U_LUB, SoundStep, RulesUnchanged'
    PROVE  WellInv' /\ tot_gua_bw' <= U_LUB
<1>1. TotalsInv /\ TypeOK /\ LevelsWithinBound /\ qsup_servers \subseteq InUse
  BY ListedInUse DEF WellInv, TotalsInv
<1>2. SupervisorStep
  BY <1>1 DEF SoundStep, SupervisorStep
<1>3. TypeOK' /\ DefaultsKept'
  BY <1>1, <1>2, SupervisorType, SupervisorDefaults
<1>4. U_LUB \in Nat /\ spare_bw = 0
  BY BoundType, BandwidthAssumption DEF DefaultsKept
<1>5. CASE UNCHANGED vars
  <2>1. /\ UNCHANGED <<qsup_servers, srv, qsup_users, qsup_levels, tot_gua_bw,
                       tot_used_gua_bw, faulted>>
    BY <1>5 DEF vars, accounts
  <2>2. TotalsInv'
    BY <1>1, <1>3, <2>1, TotalsUnchanged
  <2>3. WellConfigured'
    BY <1>3, <2>1, <2>2, DefaultWell
  <2> QED
    BY <2>1, <2>2, <2>3, WellUnchanged
<1>6. ASSUME NEW s \in Servers, NEW uid \in Uids, NEW gid \in Gids, NEW param \in Param,
             InitServer(s, uid, gid, param)
      PROVE  WellInv' /\ tot_gua_bw' <= U_LUB
  <2>1. TotalsInv'
    BY <1>1, <1>3, <1>6, TotalsInitServer
  <2>2. tot_gua_bw' <= U_LUB
    BY <1>4, <1>6 DEF InitServer, Admissible
  <2>3. WellConfigured'
    BY <1>3, <2>1, <2>2, DefaultWell
  <2> QED
    BY <1>6, <2>1, <2>2, <2>3, WellInitServer
<1>7. ASSUME NEW s \in qsup_servers, NEW bw \in Nat, SetRequiredBw(s, bw)
      PROVE  WellInv' /\ tot_gua_bw' <= U_LUB
  <2>1. TotalsInv' /\ LevelsWithinBound'
    BY <1>1, <1>3, <1>7, TotalsSetRequiredBw, LevelsSetRequiredBw
  <2>2. tot_gua_bw' <= U_LUB
    BY <1>7, SoundRuns
  <2>3. WellConfigured'
    BY <1>3, <2>1, <2>2, DefaultWell
  <2> QED
    BY <1>7, <2>1, <2>2, <2>3, WellSetRequiredBw
<1>8. ASSUME NEW s \in qsup_servers, CleanupServer(s)
      PROVE  WellInv' /\ tot_gua_bw' <= U_LUB
  <2>1. ServerAfter(s, 0) \in Server /\ RemoveServer(s, ServerAfter(s, 0))
    BY <1>1, <1>8, CleanupFacts DEF CleanupServer
  <2>2. TotalsInv' /\ LevelsWithinBound'
    BY <1>1, <1>3, <2>1, TotalsRemoveServer, LevelsRemoveServer
  <2>3. tot_gua_bw' <= U_LUB
    <3>1. tot_gua_bw = tot_gua_bw' + srv[s].gua_bw
      BY <1>8, <2>2, SoundRemoval
    <3>2. srv[s].gua_bw \in Nat /\ tot_gua_bw' \in Nat
      BY <1>1, <1>3, BandwidthAssumption DEF TypeOK, Server, Bandwidths, Word, InUse
    <3> QED
      BY <1>4, <3>1, <3>2
  <2>4. WellConfigured'
    BY <1>3, <2>2, <2>3, DefaultWell
  <2> QED
    BY <2>1, <2>2, <2>3, <2>4, WellRemoveServer
<1> QED
  BY <1>5, <1>6, <1>7, <1>8 DEF SoundStep

-----------------------------------------------------------------------------
(* The list and the supervisor agree.                                      *)

\* A step of thread t that keeps them in agreement.
Agrees(t) ==
    /\ SoundStep
    /\ \A u \in Threads \ {t} : thread'[u] = thread[u]
    /\ Listed \subseteq Listed' /\ Listed' \subseteq Listed \cup qsup_servers'
    /\ qsup_servers' \ qsup_servers \subseteq
          Listed' \cup {s \in Servers : Creating(t)' /\ thread'[t].s = s}
    /\ Creating(t) => \/ thread[t].s \notin qsup_servers' \/ thread[t].s \in Listed'
                      \/ Creating(t)' /\ thread'[t].s = thread[t].s
    /\ \A s \in (Listed \cap qsup_servers) \ qsup_servers' :
          thread'[t].pc = "readmit" /\ thread'[t].s = s
    /\ thread[t].pc = "readmit" => thread[t].s \in qsup_servers'
    /\ thread'[t].pc = "readmit" => thread'[t].s \in qsup_servers /\ CleanupServer(thread'[t].s)

LEMMA AgreedStep ==
    ASSUME ShapeInv, DefaultsKept, Agreed, Away = {}, ~faulted, RulesUnchanged',
           NEW t \in Threads, lock \in {None, t}, Agrees(t)
    PROVE  Agreed' /\ Away' = {}
<1>1. WellInv /\ TypeOK /\ tot_gua_bw <= U_LUB
  BY DEF Agreed, TotalsInv
<1>2. WellInv' /\ TotalsInv' /\ tot_gua_bw' <= U_LUB
  BY <1>1, SoundKept DEF Agrees, WellInv
<1>3. \A u \in Threads \ {t} : thread[u].pc # "readmit" /\ thread'[u] = thread[u]
  BY QresAssumption DEF ShapeInv, ThreadsInv, ThreadOK, Agrees
<1>4. ASSUME NEW s \in qsup_servers'
      PROVE  \/ s \in Listed'
             \/ \E u \in Threads : Creating(u)' /\ thread'[u].s = s
  <2>1. CASE s \notin qsup_servers
    BY <2>1 DEF Agrees
  <2>2. CASE s \in qsup_servers
    <3>1. s \in Listed \/ \E u \in Threads : Creating(u) /\ thread[u].s = s
      BY <2>2 DEF Agreed
    <3>2. ASSUME NEW u \in Threads, Creating(u), thread[u].s = s
          PROVE  s \in Listed' \/ \E v \in Threads : Creating(v)' /\ thread'[v].s = s
      <4>1. CASE u = t
        BY <3>2, <4>1 DEF Agrees
      <4>2. CASE u # t
        BY <1>3, <3>2, <4>2 DEF Creating
      <4> QED
        BY <4>1, <4>2
    <3> QED
      BY <3>1, <3>2 DEF Agrees
  <2> QED
    BY <2>1, <2>2
<1>5. qsup_servers' \subseteq Listed' \cup {thread'[u].s : u \in {v \in Threads : Creating(v)'}}
  BY <1>4
<1>6. ASSUME NEW u \in Threads, thread'[u].pc = "readmit"
      PROVE  tot_gua_bw' + srv'[thread'[u].s].gua_bw <= U_LUB
  <2> DEFINE s == thread'[u].s
  <2>1. u = t
    BY <1>3, <1>6
  <2>2. s \in qsup_servers /\ CleanupServer(s)
    BY <1>6, <2>1 DEF Agrees
  <2>3. s \in InUse /\ s \in Servers
    BY <1>1, <2>2, ListedInUse DEF InUse
  <2>4. srv'[s].gua_bw = srv[s].gua_bw
    BY <1>1, <2>2, <2>3, DescriptorsKept
  <2>5. tot_gua_bw = tot_gua_bw' + srv[s].gua_bw
    BY <1>1, <1>2, <2>2, SoundRemoval
  <2> QED
    BY <1>1, <2>4, <2>5
<1>7. Away' = {}
  <2> SUFFICES ASSUME NEW s \in Listed' \ qsup_servers',
                      \A u \in Threads : thread'[u].pc = "readmit" => thread'[u].s # s
               PROVE  FALSE
    BY DEF Away
  <2>1. s \in Listed /\ s \notin qsup_servers
    BY DEF Agrees
  <2>2. PICK u \in Threads : thread[u].pc = "readmit" /\ thread[u].s = s
    BY <2>1 DEF Away
  <2>3. u = t
    BY <1>3, <2>2
  <2> QED
    BY <2>2, <2>3 DEF Agrees
<1> QED
  BY <1>2, <1>5, <1>6, <1>7 DEF Agreed

\* The supervisor and the threads stay where they are, or the system stops.
LEMMA AgreedAlone ==
    ASSUME TypeOK, DefaultsKept, Agreed, Away = {}, RulesUnchanged',
           Fault \/ UNCHANGED vars, UNCHANGED <<list_vars, thread>>
    PROVE  Agreed' /\ Away' = {}
<1>1. UNCHANGED <<qsup_servers, srv, qsup_users, qsup_levels, tot_gua_bw, tot_used_gua_bw>>
  BY DEF Fault, vars, accounts
<1>2. TypeOK'
  BY SupervisorType DEF SupervisorStep
<1>3. TotalsInv'
  BY <1>1, <1>2, TotalsUnchanged DEF Agreed
<1>4. ~faulted' => WellInv'
  <2> SUFFICES ASSUME ~faulted' PROVE WellInv'
    OBVIOUS
  <2>1. UNCHANGED vars /\ ~faulted
    BY DEF Fault, vars
  <2> QED
    BY <2>1, SoundKept DEF Agreed, SoundStep
<1>5. Listed' = Listed /\ UNCHANGED thread
  BY DEF list_vars, Listed
<1>6. Away' = {}
  BY <1>1, <1>5 DEF Away
<1> QED
  BY <1>1, <1>3, <1>4, <1>5, <1>6 DEF Agreed, Creating

\* While none is away, a thread that starts a handler finds a listed server in the
\* supervisor: no other thread has it out.
LEMMA InSupervisor ==
    ASSUME ShapeInv, Away = {}, NEW t \in Threads, lock \in {None, t}, thread[t].pc = "idle",
           NEW s \in Listed
    PROVE  s \in qsup_servers
<1> SUFFICES ASSUME s \notin qsup_servers PROVE FALSE
  OBVIOUS
<1>1. PICK u \in Threads : thread[u].pc = "readmit" /\ thread[u].s = s
  BY DEF Away
<1>2. lock = u
  BY <1>1, ShapeFacts DEF ThreadOK
<1> QED
  BY <1>1, <1>2, QresAssumption

LEMMA AgreesWalk ==
    ASSUME ShapeInv, NEW t \in Threads, Zero(t) \/ Apply(t), UNCHANGED vars
    PROVE  Agrees(t)
<1>1. UNCHANGED qsup_servers /\ Listed' = Listed
  BY WalkFacts DEF vars, list_vars, Listed
<1> QED
  BY <1>1, WalkFacts DEF Agrees, SoundStep

LEMMA AgreesCreate ==
    ASSUME ShapeInv, NEW t \in Threads, NEW s \in Servers, NEW param \in Params,
           Create(t, s, param)
    PROVE  Agrees(t)
<1> DEFINE local == Enter("request", s, Rounded(param))
<1>1. /\ thread[t].pc = "idle"
      /\ InitServer(s, Cred[t][1], Cred[t][2], Rounded(param))
      /\ thread' = [thread EXCEPT ![t] = local]
      /\ UNCHANGED list_vars
  BY DEF Create, At, Goto
<1>2. Rounded(param) \in Param /\ Cred[t][1] \in Uids /\ Cred[t][2] \in Gids
  BY QresAssumption, QsupAssumption, RoundedType
<1>3. SoundStep
  BY <1>1, <1>2 DEF SoundStep
<1>4. local.pc = "request" /\ local.s = s
  BY DEF Enter, Outside
<1> HIDE DEF local
<1>5. /\ thread'[t] = local /\ \A u \in Threads \ {t} : thread'[u] = thread[u]
      /\ Listed' = Listed /\ qsup_servers' = qsup_servers \cup {s}
  BY <1>1, ShapeFacts DEF InitServer, list_vars, Listed
<1>6. ~Creating(t) /\ Creating(t)'
  BY <1>1, <1>4, <1>5, IdleHand DEF Creating
<1> QED
  BY <1>1, <1>3, <1>4, <1>5, <1>6 DEF Agrees

LEMMA AgreesRequest ==
    ASSUME ShapeInv, WellInv, NEW t \in Threads, Request(t)
    PROVE  Agrees(t)
<1> DEFINE me == thread[t]
           local == Update(me, server_list, "group")
<1>1. /\ me.pc = "request"
      /\ SetRequiredBw(me.s, RequestOf(me.ask))
      /\ thread' = [thread EXCEPT ![t] = local]
      /\ UNCHANGED list_vars
  BY DEF Request, At, Goto
<1>2. Creating(t)
  BY <1>1 DEF Creating
<1>3. me.s \in qsup_servers /\ RequestOf(me.ask) \in Nat
  BY <1>2, ShapeFacts, ParamFacts DEF ThreadOK
<1>4. local.s = me.s /\ local.pc # "readmit" /\ (local.pc = "group" \/ local.then = "group")
  <2>1. me \in Local /\ server_list \in Seq(Servers)
    BY ShapeFacts
  <2> QED
    BY <2>1, UpdateFacts
<1> HIDE DEF local
<1>5. /\ thread'[t] = local /\ \A u \in Threads \ {t} : thread'[u] = thread[u]
      /\ Listed' = Listed /\ qsup_servers' = qsup_servers
  BY <1>1, <1>3, ShapeFacts, SoundRuns DEF list_vars, Listed
<1>6. Creating(t)' /\ SoundStep
  BY <1>1, <1>3, <1>4, <1>5 DEF Creating, SoundStep
<1> QED
  BY <1>1, <1>4, <1>5, <1>6 DEF Agrees

LEMMA AgreesCreateGroup ==
    ASSUME ShapeInv, NEW t \in Threads, CreateGroup(t)
    PROVE  Agrees(t)
<1> DEFINE me == thread[t]
           list == <<me.s>> \o server_list
           local == Update([me EXCEPT !.ask = None], list, "idle")
<1>1. /\ me.pc = "group" /\ server_list' = list /\ UNCHANGED vars
      /\ thread' = [thread EXCEPT ![t] = local]
  BY DEF CreateGroup, At, Goto
<1>2. Creating(t)
  BY <1>1 DEF Creating
<1>3. me.s \in qsup_servers /\ me.s \in Servers /\ server_list \in Seq(Servers) /\ me \in Local
  BY <1>2, ShapeFacts DEF ThreadOK, InUse
<1>4. Listed' = Listed \cup {me.s}
  BY <1>1, <1>3, PrependFacts DEF Listed
<1>5. local.pc # "readmit"
  BY <1>3 DEF Update, Local
<1> HIDE DEF local, list
<1>6. /\ thread'[t] = local /\ \A u \in Threads \ {t} : thread'[u] = thread[u]
      /\ qsup_servers' = qsup_servers
  BY <1>1, ShapeFacts DEF vars
<1> QED
  BY <1>1, <1>3, <1>4, <1>5, <1>6 DEF Agrees, SoundStep

LEMMA AgreesCreateGroupFails ==
    ASSUME ShapeInv, WellInv, NEW t \in Threads, CreateGroupFails(t)
    PROVE  Agrees(t)
<1> DEFINE me == thread[t]
           next == Update([me EXCEPT !.ask = None], server_list, "idle")
<1>1. /\ me.pc = "group" /\ CleanupServer(me.s) /\ UNCHANGED list_vars
      /\ thread' = [thread EXCEPT ![t] = Finish(next)]
  BY DEF CreateGroupFails, At, Goto, Withdraw
<1>2. Creating(t)
  BY <1>1 DEF Creating
<1>3. me.s \in qsup_servers /\ me.s \notin Listed /\ me \in Local
  BY <1>2, ShapeFacts DEF ThreadOK
<1>4. next.pc # "readmit"
  BY <1>3 DEF Update, Local
<1> HIDE DEF next
<1>5. Finish(next).pc # "readmit"
  BY <1>4, OutsideFacts DEF Finish
<1>6. /\ thread'[t] = Finish(next) /\ \A u \in Threads \ {t} : thread'[u] = thread[u]
      /\ qsup_servers' = qsup_servers \ {me.s} /\ Listed' = Listed
  BY <1>1, <1>3, ShapeFacts, SoundRuns DEF TakeOut, list_vars, Listed
<1>7. SoundStep
  BY <1>1, <1>3 DEF SoundStep
<1> QED
  BY <1>1, <1>3, <1>5, <1>6, <1>7 DEF Agrees

\* A step that ends a handler with at most a request to a server in the supervisor.
LEMMA AgreesReturn ==
    ASSUME ShapeInv, NEW t \in Threads, ~Creating(t), thread[t].pc # "readmit",
           UNCHANGED list_vars, thread' = [thread EXCEPT ![t] = Outside],
           \/ UNCHANGED vars
           \/ WellInv /\ \E s \in qsup_servers, bw \in Nat : SetRequiredBw(s, bw)
    PROVE  Agrees(t)
<1>1. thread'[t] = Outside /\ \A u \in Threads \ {t} : thread'[u] = thread[u]
  BY ShapeFacts
<1>2. qsup_servers' = qsup_servers /\ Listed' = Listed
  BY SoundRuns DEF vars, list_vars, Listed
<1>3. SoundStep
  BY DEF SoundStep
<1> QED
  BY <1>1, <1>2, <1>3, OutsideFacts DEF Agrees

LEMMA AgreesSetParams ==
    ASSUME ShapeInv, WellInv, Away = {}, NEW t \in Threads, NEW s \in Listed,
           NEW param \in Params, SetParams(t, s, param)
    PROVE  Agrees(t)
<1> DEFINE local == Enter("readmit", s, Rounded(param))
<1>1. /\ thread[t].pc = "idle" /\ lock \in {None, t} /\ CleanupServer(s)
      /\ UNCHANGED list_vars
      /\ s \in qsup_servers => thread' = [thread EXCEPT ![t] = local]
  BY DEF SetParams, MaySetParams, At, Goto
<1>2. s \in qsup_servers
  BY <1>1, InSupervisor
<1>3. local.pc = "readmit" /\ local.s = s
  BY DEF Enter, Outside
<1> HIDE DEF local
<1>4. /\ thread'[t] = local /\ \A u \in Threads \ {t} : thread'[u] = thread[u]
      /\ qsup_servers' = qsup_servers \ {s} /\ Listed' = Listed
  BY <1>1, <1>2, ShapeFacts, SoundRuns DEF TakeOut, list_vars, Listed
<1>5. SoundStep /\ ~Creating(t)
  BY <1>1, <1>2, IdleHand DEF SoundStep
<1> QED
  BY <1>1, <1>2, <1>3, <1>4, <1>5 DEF Agrees

LEMMA AgreesReadmit ==
    ASSUME ShapeInv, NEW t \in Threads, At(t, "readmit"), NEW param \in Param,
           Readmit(t, thread[t].s, param), UNCHANGED list_vars
    PROVE  Agrees(t)
<1> DEFINE me == thread[t]
           local == [me EXCEPT !.pc = "set"]
<1>1. /\ me.pc = "readmit"
      /\ InitServer(me.s, qres[me.s].owner[1], qres[me.s].owner[2], param)
      /\ thread' = [thread EXCEPT ![t] = local]
  BY DEF Readmit, At, Goto
<1>2. /\ me.s \in Listed /\ me.s \in Servers /\ me.then = "idle" /\ me \in Local
      /\ qres[me.s].owner[1] \in Uids /\ qres[me.s].owner[2] \in Gids
  BY <1>1, ReadmitFacts, ShapeFacts
<1>3. local.pc = "set"
  BY <1>2 DEF Local
<1> HIDE DEF local
<1>4. /\ thread'[t] = local /\ \A u \in Threads \ {t} : thread'[u] = thread[u]
      /\ qsup_servers' = qsup_servers \cup {me.s} /\ Listed' = Listed
  BY <1>1, ShapeFacts DEF InitServer, list_vars, Listed
<1>5. SoundStep /\ ~Creating(t)
  BY <1>1, <1>2 DEF SoundStep, Creating
<1> QED
  BY <1>1, <1>2, <1>3, <1>4, <1>5 DEF Agrees

\* A server that is refused its old guarantee as well had other parameters
\* recorded.
LEMMA RefusedNone ==
    ASSUME ShapeInv, DefaultsKept, Agreed, RulesUnchanged, NEW t \in Threads, ReadmitNone(t)
    PROVE  \E s \in Away' : srv'[s].gua_bw # MinBw(qres'[s].params)
<1> DEFINE s == thread[t].s
           uid == qres[s].owner[1]
           gid == qres[s].owner[2]
<1>1. /\ thread[t].pc = "readmit" /\ ~faulted /\ lock \in {None, t}
      /\ ~Admissible(uid, gid, qres[s].params)
      /\ thread' = [thread EXCEPT ![t] = Outside]
      /\ UNCHANGED <<vars, list_vars, qres>>
  BY DEF ReadmitNone, At, Goto, Readmissible
<1>2. /\ s \in Listed /\ s \notin qsup_servers /\ s \in Servers
      /\ uid \in Uids /\ gid \in Gids /\ qres[s].params \in Param
  BY <1>1, ReadmitFacts
<1>3. s \in Away'
  <2>1. thread'[t] = Outside /\ \A u \in Threads \ {t} : thread'[u] = thread[u]
    BY <1>1, ShapeFacts
  <2>2. \A u \in Threads \ {t} : thread[u].pc # "readmit"
    BY <1>1, QresAssumption DEF ShapeInv, ThreadsInv, ThreadOK
  <2>3. Listed' = Listed /\ qsup_servers' = qsup_servers
    BY <1>1 DEF vars, list_vars, Listed
  <2> QED
    BY <1>2, <2>1, <2>2, <2>3, OutsideFacts DEF Away
<1>4. MinBw(qres[s].params) # srv[s].gua_bw
  <2> SUFFICES ASSUME MinBw(qres[s].params) = srv[s].gua_bw
               PROVE  Admissible(uid, gid, qres[s].params)
    BY <1>1
  <2> DEFINE gua == srv[s].gua_bw
  <2>1. TypeOK /\ gua \in Nat /\ tot_gua_bw \in Nat /\ U_LUB \in Nat
    <3>1. TypeOK
      BY ShapeFacts
    <3>2. srv[s] \in Server /\ tot_gua_bw \in Word
      BY <1>2, <3>1 DEF TypeOK
    <3> QED
      BY <3>1, <3>2, BoundType, BandwidthAssumption DEF Server, Bandwidths, Word
  <2>2. tot_gua_bw + gua <= U_LUB
    BY <1>1 DEF Agreed
  <2>3. qsup_find_constr(uid, gid) = default_constraint
    BY <1>2, DefaultRule
  <2>4. spare_bw = 0 /\ qsup_users[uid].user_gua = 0
    BY <1>2 DEF DefaultsKept
  <2>5. gua <= U_LUB
    BY <2>1, <2>2
  <2>6. tot_gua_bw + gua \in 0 .. U_LUB /\ 0 + gua \in 0 .. U_LUB
    BY <2>1, <2>2, <2>5
  <2>7. Wrap(tot_gua_bw + gua) = tot_gua_bw + gua /\ Wrap(0 + gua) = 0 + gua
    BY <2>6, BoundType, WrapId
  <2>8. 0 + gua = gua /\ U_LUB - 0 = U_LUB
    BY <2>1
  <2> HIDE DEF gua
  <2>9. MinBw(qres[s].params) = gua
    BY DEF gua
  <2> QED
    BY <2>2, <2>3, <2>4, <2>5, <2>7, <2>8, <2>9 DEF Admissible, default_constraint
<1>5. srv'[s] = srv[s] /\ qres'[s] = qres[s]
  BY <1>1 DEF vars
<1> QED
  BY <1>3, <1>4, <1>5

LEMMA AgreedThread ==
    ASSUME ShapeInv, DefaultsKept, Agreed, Away = {}, RulesUnchanged, RulesUnchanged',
           NEW t \in Threads, Continue(t) \/ Call(t)
    PROVE  \/ Agreed' /\ Away' = {}
           \/ \E s \in Away' : srv'[s].gua_bw # MinBw(qres'[s].params)
<1>1. ~faulted /\ lock \in {None, t}
  BY DEF Continue, Call, Zero, Apply, Request, CreateGroup, CreateGroupFails, ReadmitNew,
         ReadmitOld, ReadmitNone, Set, Create, Destroy, Attach, Detach, SetRequest,
         SetParams, MaySetParams, At
<1>2. WellInv /\ TypeOK
  BY <1>1, ShapeFacts DEF Agreed
<1>3. Agrees(t) => Agreed' /\ Away' = {}
  BY <1>1, AgreedStep
<1>4. Fault /\ UNCHANGED <<list_vars, thread>> => Agreed' /\ Away' = {}
  BY <1>2, AgreedAlone
<1>5. CASE Zero(t) \/ Apply(t)
  <2>1. CASE Fault /\ UNCHANGED thread
    BY <1>4, <1>5, <2>1, WalkFacts
  <2>2. CASE UNCHANGED vars
    BY <1>3, <1>5, <2>2, AgreesWalk
  <2> QED
    BY <1>5, <2>1, <2>2, WalkFacts
<1>6. CASE ReadmitNew(t) \/ ReadmitOld(t)
  <2>1. \E param \in Param : Readmit(t, thread[t].s, param) /\ UNCHANGED list_vars
        /\ At(t, "readmit")
    BY <1>6, ReadmitFacts DEF ReadmitNew, ReadmitOld, At
  <2> QED
    BY <1>3, <2>1, AgreesReadmit
<1>7. CASE Set(t)
  <2>1. /\ thread[t].pc = "set" /\ SetRequiredBw(thread[t].s, RequestOf(thread[t].ask))
        /\ thread' = [thread EXCEPT ![t] = Outside] /\ UNCHANGED list_vars
    BY <1>7 DEF Set, At, Goto
  <2>2. thread[t].s \in qsup_servers /\ RequestOf(thread[t].ask) \in Nat
    BY <2>1, SetFacts
  <2>3. ~Creating(t)
    BY <2>1, ShapeFacts DEF ThreadOK, Creating
  <2> QED
    BY <1>2, <1>3, <2>1, <2>2, <2>3, AgreesReturn
<1>8. CASE ReadmitNone(t)
  BY <1>8, RefusedNone
<1>9. ASSUME NEW s \in Listed, Destroy(t, s) \/ Attach(t, s) \/ Detach(t, s)
      PROVE  Agreed' /\ Away' = {}
  <2>1. /\ thread[t].pc = "idle" /\ thread' = [thread EXCEPT ![t] = Outside]
        /\ UNCHANGED list_vars /\ (Fault \/ UNCHANGED vars)
    BY <1>9 DEF Destroy, Attach, Detach, At, Goto, Oops
  <2>2. CASE Fault
    <3>1. UNCHANGED thread
      BY <2>1, ShapeFacts DEF ThreadOK
    <3> QED
      BY <1>4, <2>1, <2>2, <3>1
  <2>3. CASE UNCHANGED vars
    <3>1. ~Creating(t)
      BY <2>1, IdleHand
    <3> QED
      BY <1>3, <2>1, <2>3, <3>1, AgreesReturn
  <2> QED
    BY <2>1, <2>2, <2>3
<1>10. ASSUME NEW s \in Listed, NEW param \in Params, SetRequest(t, s, param)
       PROVE  Agreed' /\ Away' = {}
  <2>1. /\ thread[t].pc = "idle" /\ SetRequiredBw(s, RequestOf(Rounded(param)))
        /\ thread' = [thread EXCEPT ![t] = Outside] /\ UNCHANGED list_vars
    BY <1>10 DEF SetRequest, MaySetParams, At, Goto
  <2>2. s \in qsup_servers
    BY <1>1, <2>1, InSupervisor
  <2>3. RequestOf(Rounded(param)) \in Nat
    BY QresAssumption, RoundedType, ParamFacts
  <2>4. ~Creating(t)
    BY <2>1, IdleHand
  <2> QED
    BY <1>2, <1>3, <2>1, <2>2, <2>3, <2>4, AgreesReturn
<1>11. CASE Continue(t)
  BY <1>2, <1>3, <1>5, <1>6, <1>7, <1>8, <1>11, AgreesRequest, AgreesCreateGroup,
     AgreesCreateGroupFails DEF Continue
<1>12. CASE Call(t)
  BY <1>2, <1>3, <1>9, <1>10, <1>12, AgreesCreate, AgreesSetParams DEF Call
<1> QED
  BY <1>11, <1>12

LEMMA LayerNext == LayerInv /\ [QresNext]_qres_vars => LayerInv'
<1> SUFFICES ASSUME LayerInv, [QresNext]_qres_vars PROVE LayerInv'
  OBVIOUS
<1>1. RequestsInv /\ ShapeInv /\ DefaultsKept /\ RefusedInv
  BY DEF LayerInv, RequestsInv, ShapeInv
<1>2. RequestsInv'
  BY <1>1, RequestsNext
<1>3. DefaultsKept' /\ (RulesUnchanged' => RulesUnchanged)
  BY <1>1, ShapeNext, SupervisorDefaults DEF ShapeInv, LayerTyped
<1>4. RefusedInv'
  <2> SUFFICES ASSUME RulesUnchanged'
               PROVE  \/ Agreed' /\ Away' = {}
                      \/ \E s \in Away' : srv'[s].gua_bw # MinBw(qres'[s].params)
    BY DEF RefusedInv
  <2>1. RulesUnchanged
    BY <1>3
  <2>2. CASE Away # {}
    <3>1. PICK s \in Away : srv[s].gua_bw # MinBw(qres[s].params)
      BY <1>1, <2>1, <2>2 DEF RefusedInv
    <3> QED
      BY <1>1, <3>1, AwayKept
  <2>3. CASE Away = {}
    <3>1. Agreed
      BY <1>1, <2>1, <2>3 DEF RefusedInv
    <3>2. CASE UNCHANGED qres_vars
      BY <1>1, <2>3, <3>1, <3>2, AgreedAlone DEF qres_vars, ShapeInv, LayerTyped
    <3>3. ASSUME NEW g \in Gids, NEW c \in Constraints, AddRule(g, c)
          PROVE  FALSE
      <4>1. c # None
        BY QsupAssumption
      <4>2. group_rules'[g] = c
        BY <1>1, <3>3 DEF AddRule, AddGroupRule, ShapeInv, LayerTyped, TypeOK
      <4> QED
        BY <4>1, <4>2 DEF RulesUnchanged
    <3>4. CASE \E t \in Threads : Continue(t) \/ Call(t)
      BY <1>1, <2>1, <2>3, <3>1, <3>4, AgreedThread
    <3> QED
      BY <3>2, <3>3, <3>4 DEF QresNext
  <2> QED
    BY <2>2, <2>3
<1> QED
  BY <1>2, <1>3, <1>4 DEF LayerInv, RequestsInv, ShapeInv

LEMMA LayerInit == QresInit => LayerInv
<1> SUFFICES ASSUME QresInit PROVE LayerInv
  OBVIOUS
<1>1. RequestsInv /\ ShapeInv
  BY RequestsInit DEF RequestsInv
<1>2. Init /\ Listed = {} /\ \A t \in Threads : thread[t].pc = "idle"
  BY OutsideFacts DEF QresInit, Listed, ToSet
<1>3. DefaultsKept
  BY <1>2, QsupAssumption DEF Init, DefaultsKept, NewUser, NewLevel, InUse, BlankServer
<1>4. WellInv /\ TotalsInv
  BY <1>2, WellInit DEF WellInv
<1>5. tot_gua_bw <= U_LUB /\ qsup_servers = {}
  BY <1>2, BoundType, BandwidthAssumption DEF Init
<1>6. Agreed
  BY <1>2, <1>4, <1>5 DEF Agreed
<1>7. Away = {}
  BY <1>2 DEF Away
<1> QED
  BY <1>1, <1>3, <1>6, <1>7 DEF LayerInv, RequestsInv, ShapeInv, RefusedInv

LEMMA LayerAlways == SpecQres => []LayerInv
BY LayerInit, LayerNext, PTL DEF SpecQres

\* The supervisor stands for the listed servers: each of them is admitted, but for
\* one a thread has in hand, no other server is, and the total is the sum of their
\* guarantees - although qres_set_params takes a server out and admits it again
\* with other threads about, and a creation may fail halfway - until a rule is
\* added or refused parameters are recorded (qres.c:617-631, qsup.c:415-430).
THEOREM SupervisorStandsFor == SpecQres => []SupervisorAgrees
<1>1. ASSUME LayerInv
      PROVE  SupervisorAgrees
  <2> SUFFICES ASSUME RulesUnchanged, GuaranteesRecorded
               PROVE  ListedAdmitted /\ GuaranteesCounted
    BY DEF SupervisorAgrees
  <2>1. ThreadsInv /\ RefusedInv
    BY <1>1 DEF LayerInv
  <2>2. ASSUME NEW s \in Away
        PROVE  s \notin InHand
    <3> SUFFICES ASSUME NEW t \in Threads, Creating(t) \/ Readmitting(t), thread[t].s = s
                 PROVE  FALSE
      BY DEF InHand
    <3>1. s \in Listed /\ s \notin qsup_servers /\ thread[t].pc # "readmit"
      BY DEF Away
    <3> QED
      BY <2>1, <3>1 DEF ThreadsInv, ThreadOK, Readmitting
  <2>3. Away = {}
    <3>1. \A s \in Away : srv[s].gua_bw = MinBw(qres[s].params)
      BY <2>2 DEF Away, GuaranteesRecorded
    <3> QED
      BY <2>1, <3>1 DEF RefusedInv
  <2>4. Agreed
    BY <2>1, <2>3 DEF RefusedInv
  <2>5. GuaranteesCounted
    BY <2>4 DEF Agreed, TotalsInv, TotalsAreSums, GuaranteesCounted
  <2>6. ASSUME NEW s \in Listed \ InHand
        PROVE  s \in qsup_servers
    <3>1. \A t \in Threads : thread[t].pc = "readmit" => thread[t].s # s
      BY <2>6 DEF InHand, Readmitting
    <3> QED
      BY <2>3, <2>6, <3>1 DEF Away
  <2>7. ASSUME NEW s \in qsup_servers \ InHand
        PROVE  s \in Listed
    <3>1. s \in Listed \/ \E t \in Threads : Creating(t) /\ thread[t].s = s
      BY <2>4, <2>7 DEF Agreed
    <3> QED
      BY <2>7, <3>1 DEF InHand
  <2> QED
    BY <2>5, <2>6, <2>7 DEF ListedAdmitted
<1> QED
  BY <1>1, LayerAlways, PTL

-----------------------------------------------------------------------------
(* The budgets.  Two threads that update them at once may each undo what    *)
(* the other has done, qres_set_params leaves them as they are, and so does *)
(* a rule; where one thread creates and destroys servers they are right,    *)
(* and none is refused, as long as the kernel accepts what the supervisor   *)
(* may hand out.                                                            *)

Serial ==
    /\ \E t \in Threads : Threads = {t}
    /\ Operations \cap {"set_params", "add_rule"} = {}
    /\ U_LUB <= SchedBw

Applied(S) == \A s \in S : groups[s].runtime = Budget(s)
Zeroed(S) == \A s \in S : groups[s].runtime = 0

\* What no walk changes.
Standing ==
    /\ RulesUnchanged
    /\ Listed \subseteq qsup_servers
    /\ \A s \in Servers \ Listed : groups[s].state = "none"
    /\ \A s \in InUse : qres[s].period # 0

\* How far the walk over the list has come, in the first loop of
\* qres_update_bandwidths and in the second.
Walked(t) ==
    LET me == thread[t]
    IN  /\ me.pc \notin {"readmit", "set"}
        /\ me.pc \in {"idle", "group"} => Applied(Listed)
        /\ me.pc \in {"zero", "apply"} => IsInjective(me.rest)
        /\ me.pc = "zero" => Zeroed(Listed \ ToSet(me.rest))
        /\ me.pc = "apply" => /\ Applied(Listed \ ToSet(me.rest))
                              /\ Zeroed(ToSet(me.rest))
                              /\ me.q = Budget(Head(me.rest))
                              /\ Fits(Head(me.rest), me.q)

BudgetInv == Standing /\ \A t \in Threads : Walked(t)

\* A budget takes no more than the bandwidth it stands for.
LEMMA BudgetWithin ==
    ASSUME NEW a \in Nat, NEW P \in Nat \ {0}
    PROVE  r2bw(bw2Q(a, P), P) \in 0 .. a
<1> DEFINE x == (a * P) \div MAX_BW
           q == bw2Q(a, P)
<1>1. a * P \in Nat /\ a * P = P * a /\ MAX_BW \in Nat \ {0} /\ WORD \in Nat \ {0}
  BY BandwidthAssumption
<1>2. x \in Nat /\ MAX_BW * x <= a * P
  BY <1>1, DivFacts
<1>3. q = x % WORD
  BY DEF bw2Q, ul_mul_shr, Wrap
<1> HIDE DEF x, q
<1>4. q \in Nat /\ q <= x
  BY <1>1, <1>2, <1>3
<1>5. q * MAX_BW <= x * MAX_BW
  BY <1>1, <1>2, <1>4, TimesMono
<1>6. q * MAX_BW \in Nat /\ q * MAX_BW <= P * a
  <2>1. x * MAX_BW = MAX_BW * x /\ x * MAX_BW \in Nat /\ q * MAX_BW \in Nat
    BY <1>1, <1>2, <1>4
  <2> QED
    BY <1>1, <1>2, <1>5, <2>1
<1>7. (q * MAX_BW) \div P \in Nat /\ (q * MAX_BW) \div P <= a
  BY <1>6, DivNat, DivAtMost
<1> QED
  BY <1>7 DEF r2bw, ul_shl_div, q

\* Groups whose runtimes are budgets, or zero, load the kernel with no more than
\* the supervisor has approved.
LEMMA BudgetsFit ==
    ASSUME Serial, ShapeInv, WellInv, Standing,
           NEW g \in [Servers -> Group],
           \A s \in Servers \ Listed : g[s].state = "none",
           \A s \in Listed : g[s].runtime \in {0, Budget(s)}
    PROVE  Total(Load(g), NumServers) <= SchedBw
<1> DEFINE f == On(qsup_servers, ApprovedBw, NumServers)
<1>1. NumServers \in Nat /\ Servers = 1 .. NumServers /\ ApprovedBw \in PerServer
  BY ShareTypes, PerServerInt DEF Servers
<1>2. qsup_servers \subseteq Servers /\ Listed \subseteq Servers /\ Listed \subseteq InUse
  BY ListedInUse DEF Standing, ShapeInv, LayerTyped, InUse
<1>3. /\ f \in [1 .. NumServers -> Int]
      /\ \A i \in 1 .. NumServers : f[i] >= 0
      /\ \A i \in qsup_servers : f[i] = approved_bw(i) /\ approved_bw(i) \in Nat
  <2>1. \A i \in 1 .. NumServers : ApprovedBw[i] \in 0 .. MAX_BW /\ ApprovedBw[i] \in Nat
    BY <1>1, BandwidthAssumption DEF PerServer
  <2>2. \A i \in qsup_servers : ApprovedBw[i] = approved_bw(i)
    BY <1>1, <1>2 DEF ApprovedBw
  <2> QED
    BY <1>1, <1>2, <2>1, <2>2 DEF On
<1>4. ASSUME NEW i \in 1 .. NumServers
      PROVE  Load(g)[i] \in Int /\ Load(g)[i] <= f[i]
  <2>1. Load(g)[i] = IF g[i].state = "live" THEN r2bw(g[i].runtime, qres[i].period) ELSE 0
    BY <1>1 DEF Load
  <2>2. CASE g[i].state # "live"
    BY <1>3, <2>1, <2>2
  <2>3. CASE g[i].state = "live"
    <3>1. i \in Listed /\ i \in qsup_servers /\ i \in InUse
      BY <1>1, <1>2, <2>3 DEF Standing
    <3>2. qres[i].period \in Nat \ {0}
      <4>1. qres[i] \in Descriptor
        BY <1>1 DEF ShapeInv, LayerTyped
      <4> QED
        BY <3>1, <4>1 DEF Descriptor, Standing
    <3>3. approved_bw(i) \in Nat /\ f[i] = approved_bw(i)
      BY <1>3, <3>1
    <3>4. CASE g[i].runtime = Budget(i)
      <4>1. r2bw(Budget(i), qres[i].period) \in 0 .. approved_bw(i)
        BY <3>2, <3>3, BudgetWithin DEF Budget
      <4> QED
        BY <2>1, <2>3, <3>3, <3>4, <4>1
    <3>5. CASE g[i].runtime = 0
      <4>1. 0 * MAX_BW = 0 /\ 0 \div qres[i].period = 0
        BY <3>2, BandwidthAssumption
      <4>2. r2bw(0, qres[i].period) = 0
        BY <4>1 DEF r2bw, ul_shl_div
      <4> QED
        BY <2>1, <2>3, <3>3, <3>5, <4>2
    <3> QED
      BY <3>1, <3>4, <3>5
  <2> QED
    BY <2>2, <2>3
<1>5. Load(g) \in [1 .. NumServers -> Int]
  BY <1>1, <1>4 DEF Load
<1>6. Total(Load(g), NumServers) <= Total(f, NumServers)
  BY <1>1, <1>3, <1>4, <1>5, TotalMono
<1>7. Total(f, NumServers) <= U_LUB
  BY WellApprovedSound DEF ApprovedSound, ApprovedWithinBound, SumOf
<1>8. U_LUB \in Int /\ SchedBw \in Int /\ U_LUB <= SchedBw
  BY BoundType, QresAssumption DEF Serial
<1>9. Total(Load(g), NumServers) \in Int /\ Total(f, NumServers) \in Int
  BY <1>1, <1>3, <1>5, TotalType
<1> QED
  BY <1>6, <1>7, <1>8, <1>9

\* Budgets depend on requests, coefficients and periods only.
LEMMA BudgetKept ==
    ASSUME UNCHANGED <<srv, qsup_users, qsup_levels, qres>>
    PROVE  \A s : Budget(s)' = Budget(s)
BY DEF Budget, approved_bw

\* The members of a sequence without its first, and without repetitions.
LEMMA TailFacts ==
    ASSUME NEW S, NEW seq \in Seq(S), seq # <<>>, IsInjective(seq)
    PROVE  /\ Tail(seq) \in Seq(S)
           /\ IsInjective(Tail(seq))
           /\ Head(seq) \in ToSet(seq)
           /\ Head(seq) \notin ToSet(Tail(seq))
           /\ ToSet(seq) = ToSet(Tail(seq)) \cup {Head(seq)}
<1>1. /\ Len(seq) \in Nat /\ Len(seq) >= 1 /\ Head(seq) = seq[1]
      /\ Tail(seq) \in Seq(S)
      /\ Len(Tail(seq)) = Len(seq) - 1
      /\ \A i \in 1 .. Len(seq) - 1 : Tail(seq)[i] = seq[i + 1]
  OBVIOUS
<1>2. DOMAIN seq = 1 .. Len(seq) /\ DOMAIN Tail(seq) = 1 .. Len(seq) - 1
  BY <1>1
<1>3. IsInjective(Tail(seq))
  <2> SUFFICES ASSUME NEW i \in 1 .. Len(seq) - 1, NEW j \in 1 .. Len(seq) - 1,
                      Tail(seq)[i] = Tail(seq)[j]
               PROVE  i = j
    BY <1>2 DEF IsInjective
  <2>1. i + 1 \in DOMAIN seq /\ j + 1 \in DOMAIN seq /\ seq[i + 1] = seq[j + 1]
    BY <1>1, <1>2
  <2>2. i + 1 = j + 1
    BY <2>1 DEF IsInjective
  <2> QED
    BY <2>2
<1>4. Head(seq) \notin ToSet(Tail(seq))
  <2> SUFFICES ASSUME NEW i \in 1 .. Len(seq) - 1, Tail(seq)[i] = Head(seq)
               PROVE  FALSE
    BY <1>2 DEF ToSet
  <2>1. i + 1 \in DOMAIN seq /\ 1 \in DOMAIN seq /\ seq[i + 1] = seq[1]
    BY <1>1, <1>2
  <2>2. i + 1 = 1
    BY <2>1 DEF IsInjective
  <2> QED
    BY <2>2
<1>5. ASSUME NEW x \in ToSet(seq)
      PROVE  x \in ToSet(Tail(seq)) \cup {Head(seq)}
  <2>1. PICK i \in 1 .. Len(seq) : x = seq[i]
    BY <1>2, <1>5 DEF ToSet
  <2>2. CASE i = 1
    BY <1>1, <2>1, <2>2
  <2>3. CASE i # 1
    <3>1. i - 1 \in DOMAIN Tail(seq) /\ Tail(seq)[i - 1] = x
      BY <1>1, <1>2, <2>1, <2>3
    <3> QED
      BY <3>1 DEF ToSet
  <2> QED
    BY <2>2, <2>3
<1> QED
  BY <1>1, <1>3, <1>4, <1>5, ToSetFacts

\* A fault changes no group, no budget and no thread inside a handler.
LEMMA BudgetsFault ==
    ASSUME BudgetInv, Fault \/ UNCHANGED vars,
           UNCHANGED <<list_vars, qres, groups, thread>>
    PROVE  BudgetInv'
<1>1. /\ UNCHANGED <<group_rules, qsup_servers, srv, qsup_users, qsup_levels>>
      /\ Listed' = Listed /\ InUse' = InUse
  BY DEF Fault, vars, rules, accounts, list_vars, Listed, InUse
<1>2. \A s : Budget(s)' = Budget(s)
  BY <1>1, BudgetKept
<1>3. \A s, q : Fits(s, q)' <=> Fits(s, q)
  BY DEF Fits, Load
<1>4. ASSUME NEW t \in Threads
      PROVE  Walked(t)'
  BY <1>1, <1>2, <1>3 DEF BudgetInv, Walked, Applied, Zeroed
<1> QED
  BY <1>1, <1>4 DEF BudgetInv, Standing, RulesUnchanged

\* What a walk over the list leaves of what it does not change.
LEMMA StandingWalk ==
    ASSUME ShapeInv, Standing, NEW s \in Listed, NEW q,
           UNCHANGED <<vars, list_vars, qres>>,
           groups' \in {groups, [groups EXCEPT ![s].runtime = q]}
    PROVE  Standing' /\ \A x : Budget(x)' = Budget(x)
<1>1. /\ UNCHANGED <<group_rules, qsup_servers, srv, qsup_users, qsup_levels>>
      /\ Listed' = Listed /\ InUse' = InUse
  BY DEF vars, rules, accounts, list_vars, Listed, InUse
<1>2. \A x \in Servers \ {s} : groups'[x] = groups[x]
  BY DEF ShapeInv, LayerTyped
<1> QED
  BY <1>1, <1>2, BudgetKept DEF Standing, RulesUnchanged

\* A budget that is about to be set fits beside budgets and zeroes.
LEMMA NextFits ==
    ASSUME Serial, ShapeInv, WellInv, Standing, UNCHANGED qres,
           groups' \in [Servers -> Group],
           \A s \in Servers \ Listed : groups'[s].state = "none",
           \A s \in Listed : groups'[s].runtime \in {0, Budget(s)},
           NEW t \in Threads, NEW h \in Listed,
           Head(thread'[t].rest) = h, thread'[t].q = Budget(h)
    PROVE  Fits(Head(thread[t].rest), thread[t].q)'
<1> DEFINE g == [groups' EXCEPT ![h].runtime = Budget(h)]
<1>1. h \in Servers /\ Budget(h) \in Nat
  BY ShapeFacts, BudgetType DEF ShapeInv
<1>2. g \in [Servers -> Group]
  BY <1>1 DEF Group
<1>3. \A s \in Servers : /\ g[s].state = groups'[s].state
                         /\ g[s].runtime = IF s = h THEN Budget(h) ELSE groups'[s].runtime
  BY <1>1 DEF Group
<1>4. Listed \subseteq Servers
  BY ShapeFacts
<1> HIDE DEF g
<1>5. Total(Load(g), NumServers) <= SchedBw
  <2>1. \A s \in Servers \ Listed : g[s].state = "none"
    BY <1>3
  <2>2. \A s \in Listed : g[s].runtime \in {0, Budget(s)}
    BY <1>3, <1>4
  <2> QED
    BY <1>2, <2>1, <2>2, BudgetsFit
<1>6. Load(g) = [s \in Servers |-> IF g[s].state = "live"
                                   THEN r2bw(g[s].runtime, qres'[s].period) ELSE 0]
  BY DEF Load
<1> QED
  BY <1>5, <1>6 DEF Fits, Load, g

\* Where there is one thread, only its walk is to be looked at.
LEMMA OneWalk ==
    ASSUME Serial, NEW t \in Threads, Walked(t)', Standing'
    PROVE  BudgetInv'
<1>1. ASSUME NEW u \in Threads
      PROVE  Walked(u)'
  <2>1. u = t
    BY DEF Serial
  <2> QED
    BY <2>1
<1> QED
  BY <1>1 DEF BudgetInv

\* The first loop takes one runtime back, or ends and the second begins.
LEMMA BudgetsZero ==
    ASSUME Serial, ShapeInv, ShapeInv', WellInv, BudgetInv, NEW t \in Threads, Zero(t)
    PROVE  BudgetInv'
<1> DEFINE me == thread[t]
           s == Head(me.rest)
<1>1. me.pc = "zero" /\ UNCHANGED <<list_vars, qres>>
  BY DEF Zero, At
<1>2. CASE Fault /\ UNCHANGED <<groups, thread>>
  BY <1>1, <1>2, BudgetsFault
<1>3. CASE /\ UNCHANGED vars
           /\ groups' = [groups EXCEPT ![s].runtime = 0]
           /\ thread' = [thread EXCEPT ![t] =
                 IF Tail(me.rest) # <<>> THEN [me EXCEPT !.rest = Tail(@)]
                 ELSE [me EXCEPT !.pc = "apply", !.rest = server_list,
                                 !.q = Budget(Head(server_list))]]
  <2>1. /\ me \in Local /\ me.rest \in Seq(Servers) /\ me.rest # <<>>
        /\ ToSet(me.rest) \subseteq Listed
    BY <1>1, ShapeFacts DEF ThreadOK, Local
  <2>2. IsInjective(me.rest) /\ Zeroed(Listed \ ToSet(me.rest)) /\ Standing
    BY <1>1 DEF BudgetInv, Walked
  <2>3. /\ s \in Listed
        /\ Tail(me.rest) \in Seq(Servers) /\ IsInjective(Tail(me.rest))
        /\ ToSet(me.rest) = ToSet(Tail(me.rest)) \cup {s}
    BY <2>1, <2>2, TailFacts
  <2>4. Standing' /\ \A x : Budget(x)' = Budget(x)
    BY <1>1, <1>3, <2>2, <2>3, StandingWalk
  <2>5. Listed' = Listed /\ Listed \subseteq Servers
    BY <1>1, ShapeFacts DEF list_vars, Listed
  <2>6. \A x \in Servers : groups'[x].runtime = IF x = s THEN 0 ELSE groups[x].runtime
    BY <1>3, <2>3, <2>5, ShapeFacts DEF Group
  <2>7. CASE Tail(me.rest) # <<>>
    <3> DEFINE local == [me EXCEPT !.rest = Tail(@)]
    <3>1. local.pc = "zero" /\ local.rest = Tail(me.rest)
      BY <1>1, <2>1 DEF Local
    <3>2. thread'[t] = local
      BY <1>3, <2>7, ShapeFacts
    <3> HIDE DEF local
    <3>3. Walked(t)'
      BY <2>2, <2>3, <2>5, <2>6, <3>1, <3>2 DEF Walked, Zeroed
    <3> QED
      BY <2>4, <3>3, OneWalk
  <2>8. CASE Tail(me.rest) = <<>>
    <3> DEFINE h == Head(server_list)
               local == [me EXCEPT !.pc = "apply", !.rest = server_list, !.q = Budget(h)]
    <3>1. local.pc = "apply" /\ local.rest = server_list /\ local.q = Budget(h)
      BY <2>1 DEF Local
    <3>2. thread'[t] = local
      BY <1>3, <2>8, ShapeFacts
    <3> HIDE DEF local
    <3>3. h \in Listed /\ IsInjective(server_list) /\ ToSet(server_list) = Listed
      BY <2>3, ShapeFacts DEF ShapeInv, ListNumbered, Listed
    <3>4. ToSet(Tail(me.rest)) = {}
      BY <2>8 DEF ToSet
    <3>5. \A x \in Listed : groups'[x].runtime = 0
      BY <2>2, <2>3, <2>5, <2>6, <3>4 DEF Zeroed
    <3>6. Fits(Head(thread[t].rest), thread[t].q)'
      <4>1. groups' \in [Servers -> Group] /\ \A x \in Servers \ Listed : groups'[x].state = "none"
        BY <2>4, <2>5, ShapeFacts DEF Standing, ShapeInv, LayerTyped
      <4> HIDE DEF h
      <4>2. Head(thread'[t].rest) = h /\ thread'[t].q = Budget(h)
        BY <3>1, <3>2 DEF h
      <4> QED
        BY <1>1, <2>2, <3>3, <3>5, <4>1, <4>2, NextFits
    <3>7. Walked(t)'
      BY <2>4, <2>5, <3>1, <3>2, <3>3, <3>5, <3>6 DEF Walked, Applied, Zeroed
    <3> QED
      BY <2>4, <3>7, OneWalk
  <2> QED
    BY <2>7, <2>8
<1> QED
  BY <1>2, <1>3 DEF Zero, Oops, Goto

\* The second loop sets one budget and reads the next, or ends.
LEMMA BudgetsApply ==
    ASSUME Serial, ShapeInv, ShapeInv', WellInv, BudgetInv, NEW t \in Threads, Apply(t)
    PROVE  BudgetInv'
<1> DEFINE me == thread[t]
           s == Head(me.rest)
<1>1. me.pc = "apply" /\ UNCHANGED <<list_vars, qres>>
  BY DEF Apply, At
<1>2. CASE Fault /\ UNCHANGED <<groups, thread>>
  BY <1>1, <1>2, BudgetsFault
<1>3. CASE /\ UNCHANGED vars
           /\ groups' = IF Fits(s, me.q) THEN [groups EXCEPT ![s].runtime = me.q] ELSE groups
           /\ thread' = [thread EXCEPT ![t] = NextBudget(me)]
  <2>1. /\ me \in Local /\ me.rest \in Seq(Servers) /\ me.rest # <<>>
        /\ ToSet(me.rest) \subseteq Listed
    BY <1>1, ShapeFacts DEF ThreadOK, Local
  <2>2. /\ IsInjective(me.rest) /\ Applied(Listed \ ToSet(me.rest)) /\ Zeroed(ToSet(me.rest))
        /\ me.q = Budget(s) /\ Fits(s, me.q) /\ Standing
    BY <1>1 DEF BudgetInv, Walked
  <2>3. /\ s \in Listed /\ s \notin ToSet(Tail(me.rest))
        /\ Tail(me.rest) \in Seq(Servers) /\ IsInjective(Tail(me.rest))
        /\ ToSet(me.rest) = ToSet(Tail(me.rest)) \cup {s}
    BY <2>1, <2>2, TailFacts
  <2>4. Standing' /\ \A x : Budget(x)' = Budget(x)
    BY <1>1, <1>3, <2>2, <2>3, StandingWalk
  <2>5. Listed' = Listed /\ Listed \subseteq Servers
    BY <1>1, ShapeFacts DEF list_vars, Listed
  <2>6. \A x \in Servers : groups'[x].runtime = IF x = s THEN Budget(s) ELSE groups[x].runtime
    BY <1>3, <2>2, <2>3, <2>5, ShapeFacts DEF Group
  <2>7. /\ \A x \in Listed \ ToSet(Tail(me.rest)) : groups'[x].runtime = Budget(x)
        /\ \A x \in ToSet(Tail(me.rest)) : groups'[x].runtime = 0
    BY <2>1, <2>2, <2>3, <2>5, <2>6 DEF Applied, Zeroed
  <2>8. CASE Tail(me.rest) # <<>>
    <3> DEFINE h == Head(Tail(me.rest))
               local == [me EXCEPT !.rest = Tail(@), !.q = Budget(h)]
    <3>1. local.pc = "apply" /\ local.rest = Tail(me.rest) /\ local.q = Budget(h)
      BY <1>1, <2>1 DEF Local
    <3>2. thread'[t] = local
      BY <1>3, <2>8, ShapeFacts DEF NextBudget
    <3> HIDE DEF local
    <3>3. h \in ToSet(Tail(me.rest)) /\ h \in Listed
      BY <2>1, <2>3, <2>8, ToSetFacts
    <3>4. Fits(Head(thread[t].rest), thread[t].q)'
      <4>1. groups' \in [Servers -> Group] /\ \A x \in Servers \ Listed : groups'[x].state = "none"
        BY <2>4, <2>5, ShapeFacts DEF Standing, ShapeInv, LayerTyped
      <4>2. \A x \in Listed : groups'[x].runtime \in {0, Budget(x)}
        BY <2>7
      <4> HIDE DEF h
      <4>3. Head(thread'[t].rest) = h /\ thread'[t].q = Budget(h)
        BY <3>1, <3>2 DEF h
      <4> QED
        BY <1>1, <2>2, <3>3, <4>1, <4>2, <4>3, NextFits
    <3>5. Walked(t)'
      BY <2>3, <2>4, <2>5, <2>7, <3>1, <3>2, <3>4 DEF Walked, Applied, Zeroed
    <3> QED
      BY <2>4, <3>5, OneWalk
  <2>9. CASE Tail(me.rest) = <<>>
    <3> DEFINE over == [me EXCEPT !.pc = me.then, !.rest = <<>>, !.q = 0]
    <3>1. over.pc \in {"idle", "group"}
      BY <2>1 DEF Local
    <3>2. thread'[t] = Finish(over)
      BY <1>3, <2>9, ShapeFacts DEF NextBudget
    <3> HIDE DEF over
    <3>3. thread'[t].pc \in {"idle", "group"}
      BY <3>1, <3>2, OutsideFacts DEF Finish
    <3>4. \A x \in Listed : groups'[x].runtime = Budget(x)
      <4>1. ToSet(Tail(me.rest)) = {}
        BY <2>9 DEF ToSet
      <4> QED
        BY <2>7, <4>1
    <3>5. Walked(t)'
      BY <2>4, <2>5, <3>3, <3>4 DEF Walked, Applied
    <3> QED
      BY <2>4, <3>5, OneWalk
  <2> QED
    BY <2>8, <2>9
<1> QED
  BY <1>2, <1>3 DEF Apply, Oops, Goto

\* A walk begins with the whole list, in which there is no repetition; without
\* one there is no runtime to set.
LEMMA WalkBegins ==
    ASSUME ShapeInv', NEW t \in Threads, NEW local \in Local, NEW then \in {"idle", "group"},
           thread'[t] \in {Update(local, server_list', then),
                           Finish(Update(local, server_list', then))}
    PROVE  Walked(t)'
<1> DEFINE me == thread'[t]
           next == Update(local, server_list', then)
<1>1. /\ server_list' \in Seq(Servers) /\ IsInjective(server_list')
      /\ Listed' = ToSet(server_list')
  BY DEF ShapeInv, LayerTyped, ListNumbered, Listed
<1>2. CASE server_list' = <<>>
  <2>1. next.pc = then
    BY <1>1, <1>2, UpdateFacts
  <2> HIDE DEF next
  <2>2. me.pc \in {"idle", "group"}
    BY <2>1, OutsideFacts DEF Finish, next
  <2>3. Listed' = {}
    BY <1>1, <1>2 DEF ToSet
  <2> QED
    BY <2>2, <2>3 DEF Walked, Applied
<1>3. CASE server_list' # <<>>
  <2>1. next.pc = "zero" /\ next.rest = server_list'
    BY <1>1, <1>3, UpdateFacts
  <2>2. me = next
    BY <2>1 DEF Finish
  <2> HIDE DEF next
  <2>3. Listed' \ ToSet(me.rest) = {}
    BY <1>1, <2>1, <2>2
  <2> QED
    BY <1>1, <2>1, <2>2, <2>3 DEF Walked, Zeroed
<1> QED
  BY <1>2, <1>3

LEMMA BudgetsCreate ==
    ASSUME Serial, ShapeInv, BudgetInv, NEW t \in Threads, NEW s \in Servers,
           NEW param \in Params, Create(t, s, param)
    PROVE  BudgetInv'
<1>1. /\ InitServer(s, Cred[t][1], Cred[t][2], Rounded(param))
      /\ qres' = [qres EXCEPT ![s] = [BlankQres EXCEPT !.period = param.P]]
      /\ thread' = [thread EXCEPT ![t] = Enter("request", s, Rounded(param))]
      /\ UNCHANGED <<list_vars, groups>>
  BY DEF Create, Goto
<1>2. UNCHANGED group_rules /\ qsup_servers \subseteq qsup_servers' /\ Listed' = Listed
  BY <1>1 DEF InitServer, rules, list_vars, Listed
<1>3. InUse' \subseteq InUse \cup {s} /\ \A x \in Servers : x # s => (x \in InUse' <=> x \in InUse)
  BY <1>1, ShapeFacts DEF InitServer, TypeOK, InUse
<1>4. /\ qres'[s].period = param.P /\ param.P # 0
      /\ \A x \in Servers : x # s => qres'[x] = qres[x]
  BY <1>1, ShapeFacts, QresAssumption DEF BlankQres, Param
<1>5. Standing'
  BY <1>1, <1>2, <1>3, <1>4 DEF BudgetInv, Standing, RulesUnchanged, InUse
<1>6. thread'[t].pc = "request"
  BY <1>1, ShapeFacts DEF Enter, Outside
<1>7. Walked(t)'
  BY <1>6 DEF Walked
<1> QED
  BY <1>5, <1>7, OneWalk

\* A request, and the removal of a server that was not listed, leave a walk to do.
LEMMA BudgetsSupervisor ==
    ASSUME Serial, ShapeInv, ShapeInv', BudgetInv, NEW t \in Threads,
           NEW s \in InUse \ Listed, NEW then \in {"idle", "group"}, NEW local \in Local,
           CleanupServer(s) \/ \E bw \in Nat : SetRequiredBw(s, bw),
           UNCHANGED <<list_vars, qres, groups>>,
           thread'[t] \in {Update(local, server_list, then),
                           Finish(Update(local, server_list, then))}
    PROVE  BudgetInv'
<1>1. /\ UNCHANGED group_rules
      /\ qsup_servers' \in {qsup_servers, qsup_servers \ {s}}
  BY DEF CleanupServer, RemoveServer, TakeOut, SetRequiredBw, Fault, rules
<1>2. Listed' = Listed /\ server_list' = server_list
  BY DEF list_vars, Listed
<1>3. InUse' = InUse
  BY DescriptorsKept DEF InUse, ShapeInv, LayerTyped
<1>4. Standing'
  BY <1>1, <1>2, <1>3 DEF BudgetInv, Standing, RulesUnchanged
<1>5. Walked(t)'
  BY <1>2, WalkBegins
<1> QED
  BY <1>4, <1>5, OneWalk

LEMMA BudgetsRequest ==
    ASSUME Serial, ShapeInv, ShapeInv', BudgetInv, NEW t \in Threads, Request(t)
    PROVE  BudgetInv'
<1> DEFINE me == thread[t]
<1>1. /\ me.pc = "request" /\ SetRequiredBw(me.s, RequestOf(me.ask))
      /\ thread' = [thread EXCEPT ![t] = Update(me, server_list, "group")]
      /\ UNCHANGED <<list_vars, qres, groups>>
  BY DEF Request, At, Goto
<1>2. me.s \in InUse \ Listed /\ me.ask \in Param /\ me \in Local
  BY <1>1, ShapeFacts DEF ThreadOK, Creating
<1>3. RequestOf(me.ask) \in Nat
  BY <1>2, ParamFacts
<1>4. thread'[t] = Update(me, server_list, "group")
  BY <1>1, ShapeFacts
<1> QED
  BY <1>1, <1>2, <1>3, <1>4, BudgetsSupervisor

LEMMA BudgetsCreateGroupFails ==
    ASSUME Serial, ShapeInv, ShapeInv', BudgetInv, NEW t \in Threads, CreateGroupFails(t)
    PROVE  BudgetInv'
<1> DEFINE me == thread[t]
           local == [me EXCEPT !.ask = None]
<1>1. /\ me.pc = "group" /\ CleanupServer(me.s)
      /\ thread' = [thread EXCEPT ![t] = Finish(Update(local, server_list, "idle"))]
      /\ UNCHANGED <<list_vars, qres, groups>>
  BY DEF CreateGroupFails, At, Goto, Withdraw
<1>2. me.s \in InUse \ Listed /\ me \in Local
  BY <1>1, ShapeFacts DEF ThreadOK, Creating
<1>3. local \in Local
  BY <1>2 DEF Local
<1> HIDE DEF local
<1>4. thread'[t] = Finish(Update(local, server_list, "idle"))
  BY <1>1, ShapeFacts
<1> QED
  BY <1>1, <1>2, <1>3, <1>4, BudgetsSupervisor

LEMMA BudgetsCreateGroup ==
    ASSUME Serial, ShapeInv, ShapeInv', BudgetInv, NEW t \in Threads, CreateGroup(t)
    PROVE  BudgetInv'
<1> DEFINE me == thread[t]
           s == me.s
           list == <<s>> \o server_list
           local == [me EXCEPT !.ask = None]
<1>1. /\ me.pc = "group"
      /\ groups' = [groups EXCEPT ![s] = NewGroup]
      /\ qres' = [qres EXCEPT ![s].id = NewId, ![s].params = me.ask,
                              ![s].owner = Cred[t], ![s].tg = s]
      /\ server_list' = list
      /\ thread' = [thread EXCEPT ![t] = Update(local, list, "idle")]
      /\ UNCHANGED vars
  BY DEF CreateGroup, At, Goto
<1>2. Creating(t)
  BY <1>1 DEF Creating
<1>3. s \in (InUse \cap qsup_servers) \ Listed /\ s \in Servers /\ me \in Local
  BY <1>2, ShapeFacts DEF ThreadOK, InUse
<1>4. Listed' = Listed \cup {s}
  BY <1>1, <1>3, ShapeFacts, PrependFacts DEF Listed
<1>5. \A x \in Servers : qres'[x].period = qres[x].period
  <2>1. qres \in [Servers -> Descriptor]
    BY ShapeFacts
  <2> HIDE DEF me, s
  <2> QED
    BY <1>1, <2>1 DEF Descriptor
<1>6. \A x \in Servers \ {s} : groups'[x] = groups[x]
  BY <1>1, ShapeFacts
<1>7. UNCHANGED <<group_rules, qsup_servers>> /\ InUse' = InUse
  BY <1>1 DEF vars, rules, InUse
<1>8. Standing'
  <2>1. InUse \subseteq Servers
    BY DEF InUse
  <2> QED
    BY <1>3, <1>4, <1>5, <1>6, <1>7, <2>1 DEF BudgetInv, Standing, RulesUnchanged
<1>9. local \in Local
  BY <1>3 DEF Local
<1> HIDE DEF local, list
<1>10. thread'[t] = Update(local, server_list', "idle")
  BY <1>1, ShapeFacts
<1>11. Walked(t)'
  BY <1>9, <1>10, WalkBegins
<1> QED
  BY <1>8, <1>11, OneWalk

\* Between two calls, destruction frees a group and leaves every runtime.
LEMMA BudgetsTasks ==
    ASSUME Serial, ShapeInv, BudgetInv, NEW t \in Threads, NEW s \in Listed,
           Destroy(t, s) \/ Attach(t, s) \/ Detach(t, s)
    PROVE  BudgetInv'
<1>1. /\ thread[t].pc = "idle" /\ thread' = [thread EXCEPT ![t] = Outside]
      /\ UNCHANGED <<list_vars, qres>> /\ (Fault \/ UNCHANGED vars)
      /\ groups' \in {groups, [groups EXCEPT ![s].state = "freed"]}
  BY DEF Destroy, Attach, Detach, At, Goto, Oops
<1>2. /\ UNCHANGED <<group_rules, qsup_servers, srv, qsup_users, qsup_levels>>
      /\ Listed' = Listed /\ InUse' = InUse
  BY <1>1 DEF Fault, vars, rules, accounts, list_vars, Listed, InUse
<1>3. \A x : Budget(x)' = Budget(x)
  BY <1>1, <1>2, BudgetKept
<1>4. /\ \A x \in Servers : groups'[x].runtime = groups[x].runtime
      /\ \A x \in Servers \ {s} : groups'[x] = groups[x]
  <2>1. s \in Servers /\ groups \in [Servers -> Group]
    BY ShapeFacts
  <2>2. CASE groups' = [groups EXCEPT ![s].state = "freed"]
    BY <2>1, <2>2 DEF Group
  <2> QED
    BY <1>1, <2>2
<1>5. Standing'
  BY <1>1, <1>2, <1>4 DEF BudgetInv, Standing, RulesUnchanged
<1>6. Applied(Listed)
  BY <1>1 DEF BudgetInv, Walked
<1>7. thread'[t].pc = "idle"
  BY <1>1, ShapeFacts, OutsideFacts
<1>8. Walked(t)'
  BY <1>2, <1>3, <1>4, <1>6, <1>7, ShapeFacts DEF Walked, Applied
<1> QED
  BY <1>5, <1>8, OneWalk

\* While no rule has been added and no listed server is out, the supervisor is
\* well configured.
LEMMA BudgetsWell ==
    ASSUME LayerInv, Standing, ~faulted
    PROVE  WellInv
<1>1. Away = {}
  BY DEF Away, Standing
<1> QED
  BY <1>1 DEF LayerInv, RefusedInv, Agreed, Standing

LEMMA BudgetsNext ==
    ASSUME Serial, LayerInv, LayerInv', BudgetInv, [QresNext]_qres_vars
    PROVE  BudgetInv'
<1>1. ShapeInv /\ ShapeInv'
  BY DEF LayerInv, ShapeInv
<1>2. CASE UNCHANGED qres_vars
  BY <1>2, BudgetsFault DEF qres_vars
<1>3. ASSUME NEW t \in Threads, Zero(t) \/ Apply(t)
      PROVE  BudgetInv'
  <2>1. WellInv
    BY <1>1, <1>3, WalkFacts, BudgetsWell DEF BudgetInv
  <2> QED
    BY <1>1, <1>3, <2>1, BudgetsZero, BudgetsApply
<1>4. ASSUME NEW t \in Threads, Continue(t)
      PROVE  BudgetInv'
  <2>1. thread[t].pc \notin {"readmit", "set"}
    BY DEF BudgetInv, Walked
  <2>2. ~ReadmitNew(t) /\ ~ReadmitOld(t) /\ ~ReadmitNone(t) /\ ~Set(t)
    BY <2>1 DEF ReadmitNew, ReadmitOld, ReadmitNone, Set, At
  <2> QED
    BY <1>1, <1>3, <1>4, <2>2, BudgetsRequest, BudgetsCreateGroup, BudgetsCreateGroupFails
    DEF Continue
<1>5. ASSUME NEW t \in Threads, Call(t)
      PROVE  BudgetInv'
  <2>1. \A s \in Listed, param \in Params : ~SetRequest(t, s, param) /\ ~SetParams(t, s, param)
    BY DEF SetRequest, SetParams, MaySetParams, Serial
  <2> QED
    BY <1>1, <1>5, <2>1, BudgetsCreate, BudgetsTasks DEF Call
<1>6. \A g \in Gids, c \in Constraints : ~AddRule(g, c)
  BY DEF AddRule, Serial
<1> QED
  BY <1>2, <1>4, <1>5, <1>6 DEF QresNext

LEMMA BudgetsInit == QresInit => BudgetInv
<1> SUFFICES ASSUME QresInit PROVE BudgetInv
  OBVIOUS
<1>1. Init /\ Listed = {} /\ groups = [s \in Servers |-> NoGroup]
      /\ \A t \in Threads : thread[t].pc = "idle"
  BY OutsideFacts DEF QresInit, Listed, ToSet
<1>2. RulesUnchanged /\ InUse = {}
  BY <1>1, QsupAssumption DEF Init, RulesUnchanged, InUse, BlankServer
<1> QED
  BY <1>1, <1>2 DEF BudgetInv, Standing, Walked, Applied, NoGroup

LEMMA BudgetsAlways == Serial => (SpecQres => []BudgetInv)
<1> SUFFICES ASSUME Serial PROVE SpecQres => []BudgetInv
  OBVIOUS
<1>1. LayerInv /\ LayerInv' /\ BudgetInv /\ [QresNext]_qres_vars => BudgetInv'
  BY BudgetsNext
<1> QED
  BY <1>1, BudgetsInit, LayerAlways, PTL DEF SpecQres

\* Where one thread creates and destroys servers, every live group has the
\* runtime its server is approved for whenever no call is under way, although
\* qres_update_bandwidths takes all of them back before it sets the first, sleeps
\* in between and ignores the scheduler's errors (qres.c:210-240, qres_lib.h at
\* qres_get_appr_budget).
THEOREM BudgetsInForce == Serial => (SpecQres => []BudgetsAsApproved)
<1> SUFFICES ASSUME Serial PROVE SpecQres => []BudgetsAsApproved
  OBVIOUS
<1>1. BudgetInv => BudgetsAsApproved
  <2> SUFFICES ASSUME BudgetInv, Idle PROVE \A s \in Listed : groups[s].runtime = Budget(s)
    BY DEF BudgetsAsApproved
  <2> QED
    BY DEF Serial, Idle, BudgetInv, Walked, Applied
<1> QED
  BY <1>1, BudgetsAlways, PTL

\* There is always room for the runtime about to be set: all were taken back
\* before the first is set, and the budgets the supervisor approves take no more
\* than U_LUB together, rounded as they are (qsup.c:578-588).
THEOREM BudgetsNeverRefused == Serial => (SpecQres => []SettingFits)
<1> SUFFICES ASSUME Serial PROVE SpecQres => []SettingFits
  OBVIOUS
<1>1. BudgetInv => SettingFits
  BY DEF BudgetInv, Walked, SettingFits
<1> QED
  BY <1>1, BudgetsAlways, PTL
=============================================================================

-------------------------------- MODULE QsupGw --------------------------------
(***************************************************************************)
(* The device of the supervisor (src/src/qsup_gw_ks.c): how rules reach    *)
(* module Qsup.  Root configures the supervisor with ioctls; servers come  *)
(* and go through the reservation layer.  The two questions of the device  *)
(* (which rule is in force, which guarantee is available) change nothing   *)
(* here and are left out.                                                  *)
(***************************************************************************)
EXTENDS Qsup

CONSTANTS
    Callers,   \* the user ids of the processes that open the device
    Root       \* uid 0

-----------------------------------------------------------------------------
(* What is changed. *)

\* Only root may do anything.
qsup_authorize_op(caller) == caller = Root

\* A rule for a group nobody is in changes nothing.
AddGroupConstraints(gid, constr) ==
    IF gid \in Gids THEN AddGroupRule(gid, constr) ELSE UNCHANGED vars

\* QSUP_OP_ADD_USER_RULE adds a rule for the group that has the number of the
\* user.  It goes on as QSUP_OP_FIND_CONSTR, which changes nothing, and reads the
\* level of the rule as the group to look for.
GwAddUserRule(uid, constr) == AddGroupConstraints(uid, constr)

qsup_gw_ks(caller) ==
    /\ qsup_authorize_op(caller)
    /\ \/ \E l \in Levels, bw \in LevelCaps : AddLevelRule(l, bw)
       \/ \E g \in Gids, c \in Constraints : AddGroupConstraints(g, c)
       \/ \E u \in Uids, c \in Constraints : GwAddUserRule(u, c)
       \/ \E bw \in Spares : ReserveSpare(bw)

\* Other modules of the kernel add user rules, as the tests do.
AddUserConstraints == \E u \in Uids, c \in Constraints : AddUserRule(u, c)

GwNext == ~faulted /\ (AddUserConstraints \/ Serve \/ \E caller \in Callers : qsup_gw_ks(caller))

SpecGw == Init /\ [][GwNext]_vars

-----------------------------------------------------------------------------
(* Properties. *)

\* A user rule that root adds through the device is in force for that user, in
\* whatever group the user's processes are (qsup.h:98, qsup_gw.h:47-50).
UserRuleInForce ==
    [][\A u \in Uids, c \in Constraints :
         GwAddUserRule(u, c) => \A g \in Gids : qsup_find_constr(u, g)' = c]_vars
=============================================================================

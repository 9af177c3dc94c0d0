---------------------------- MODULE QsupGw_proofs ----------------------------
(***************************************************************************)
(* Theorems about the device of the supervisor: what it lets root do is    *)
(* within what module Qsup allows, so that everything proved of the        *)
(* supervisor holds behind the device.                                     *)
(***************************************************************************)
EXTENDS QsupGw, Qsup_proofs

-----------------------------------------------------------------------------
(* A call of the device is a configuration step, or changes nothing.       *)

LEMMA ConstraintsStep ==
    ASSUME NEW g, NEW c \in Constraints, AddGroupConstraints(g, c)
    PROVE  Configure \/ UNCHANGED vars
  BY DEF AddGroupConstraints, Configure

LEMMA GatewayStep ==
    ASSUME NEW caller, qsup_gw_ks(caller)
    PROVE  Configure \/ UNCHANGED vars
<1>1. CASE \E l \in Levels, bw \in LevelCaps : AddLevelRule(l, bw)
  BY <1>1 DEF Configure
<1>2. CASE \E g \in Gids, c \in Constraints : AddGroupConstraints(g, c)
  BY <1>2, ConstraintsStep
<1>3. CASE \E u \in Uids, c \in Constraints : GwAddUserRule(u, c)
  BY <1>3, ConstraintsStep DEF GwAddUserRule
<1>4. CASE \E bw \in Spares : ReserveSpare(bw)
  BY <1>4 DEF Configure
<1> QED
  BY <1>1, <1>2, <1>3, <1>4 DEF qsup_gw_ks

LEMMA GwStep == GwNext => [Next]_vars
<1> SUFFICES ASSUME GwNext PROVE [Next]_vars
  OBVIOUS
<1>1. CASE AddUserConstraints
  BY <1>1 DEF AddUserConstraints, GwNext, Next, Configure
<1>2. CASE Serve
  BY <1>2 DEF GwNext, Next
<1>3. CASE \E caller \in Callers : qsup_gw_ks(caller)
  BY <1>3, GatewayStep DEF GwNext, Next
<1> QED
  BY <1>1, <1>2, <1>3 DEF GwNext

\* Behind its device the supervisor behaves as module Qsup says.
THEOREM DeviceWithinSupervisor == SpecGw => Spec
  BY GwStep, PTL DEF SpecGw, Spec

\* So the guarantees stay schedulable (qsup_init_server), whatever root asks.
THEOREM GwGuaranteesCorrect == SpecGw => []GuaranteesSchedulable
  BY DeviceWithinSupervisor, GuaranteesCorrect, PTL
=============================================================================

------------------------------- MODULE QsupTests -------------------------------
(***************************************************************************)
(* The test programs of the supervisor (src/src/test-qsup-*.c), beside the *)
(* use of it that module Qsup calls well configured.  Each program         *)
(* configures level 0 and one rule, creates two servers and goes through a *)
(* table of requests, comparing what is approved with a second table.  The *)
(* programs go through the table once, from the top; here they go through  *)
(* its rows in every order.                                                *)
(***************************************************************************)
EXTENDS Qsup

CONSTANTS
    TestGid,     \* the group of the programs, 0 in the code
    Tolerance    \* the difference the programs allow, in units of bandwidth

VARIABLES
    program,   \* the program that runs, None outside of the tests
    step,      \* what it does next
    row        \* the requests of the current row

tvars == <<vars, program, step, row>>

-----------------------------------------------------------------------------
(* The programs: their rule, in percent, what the rule must refuse, their  *)
(* servers, and the requests of the first and second server.               *)

test_qsup_level ==
    [user_rule |-> FALSE, max |-> 50, max_min |-> 0, refused |-> {},
     uids |-> <<1, 2>>, min |-> <<0, 0>>,
     requests |-> {<<20, 20>>, <<50, 50>>, <<40, 50>>, <<20, 60>>, <<40, 60>>, <<0, 0>>}]

test_qsup_min_2 ==
    [user_rule |-> FALSE, max |-> 75, max_min |-> 30, refused |-> {50},
     uids |-> <<1, 2>>, min |-> <<20, 10>>,
     requests |-> {<<5, 5>>, <<30, 30>>, <<60, 40>>, <<10, 60>>, <<15, 75>>,
                   <<25, 75>>, <<0, 0>>}]

test_qsup_minim ==
    [user_rule |-> FALSE, max |-> 75, max_min |-> 30, refused |-> {50},
     uids |-> <<1, 2>>, min |-> <<10, 10>>,
     requests |-> {<<5, 5>>, <<30, 30>>, <<60, 40>>, <<0, 0>>}]

test_qsup_users ==
    [user_rule |-> TRUE, max |-> 50, max_min |-> 0, refused |-> {},
     uids |-> <<1, 1>>, min |-> <<0, 0>>,
     requests |-> {<<10, 30>>, <<30, 30>>, <<20, 40>>, <<40, 40>>, <<30, 50>>, <<0, 0>>}]

Programs == {test_qsup_level, test_qsup_min_2, test_qsup_minim, test_qsup_users}

LevelMax == 75

Percent(n) == (n * MAX_BW) \div 100

Rule0(p) == [level |-> 0, max_bw |-> Percent(p.max), max_min_bw |-> Percent(p.max_min),
             flags_mask |-> {}]

ParamOf(min) == [Q_min |-> Percent(min), P |-> MAX_BW, flags |-> {}]

\* What two servers share: the maximum of their user, or of their level.
Cap(p) == IF p.uids[1] = p.uids[2] THEN p.max ELSE LevelMax

\* The table of what is approved: every entry of bw_approved is the request, up
\* to the maximum, or, when the two exceed what they share, the minimum in use
\* and a part of the room beyond the minimums.
bw_approved(p, requests) ==
    LET req  == [i \in 1 .. 2 |-> Percent(bw_min(requests[i], p.max))]
        used == [i \in 1 .. 2 |-> bw_min(req[i], Percent(p.min[i]))]
        room == Percent(Cap(p)) - used[1] - used[2]
        excess == req[1] + req[2] - used[1] - used[2]
    IN  [i \in 1 .. 2 |->
            IF excess <= room THEN req[i]
            ELSE used[i] + ((req[i] - used[i]) * room) \div excess]

-----------------------------------------------------------------------------
(* Their steps. *)

Went(s) == step' = s /\ UNCHANGED <<program, row>>

\* The rules; each program adds one besides that of level 0.
RunRules ==
    \/ /\ step = "level rule"
       /\ AddLevelRule(0, Percent(LevelMax))
       /\ Went("rule")
    \/ /\ step = "rule"
       /\ IF program.user_rule THEN AddUserRule(1, Rule0(program))
          ELSE AddGroupRule(TestGid, Rule0(program))
       /\ Went("create")

\* The servers, the first descriptor before the second.
RunCreate ==
    /\ step = "create"
    /\ \E s \in 1 .. 2 :
          /\ qsup_servers = 1 .. s - 1
          /\ InitServer(s, program.uids[s], TestGid, ParamOf(program.min[s]))
          /\ Went(IF s = 1 THEN "create" ELSE "row")

\* A row of the table: both requests, then the comparison.
RunRow ==
    \/ /\ step \in {"row", "compare"}
       /\ \E requests \in program.requests :
             /\ SetRequiredBw(1, Percent(requests[1]))
             /\ row' = requests
       /\ step' = "second"
       /\ UNCHANGED program
    \/ /\ step = "second"
       /\ SetRequiredBw(2, Percent(row[2]))
       /\ Went("compare")

\* The servers go earliest first or latest first; two programs leave them to
\* qsup_cleanup.
RunDestroy ==
    /\ step \in {"compare", "end"}
    /\ row = <<0, 0>>
    /\ \E s \in qsup_servers : DestroyServer(s)
    /\ Went("end")

TestNext ==
    IF program = None
    THEN Next /\ WellConfigured' /\ UNCHANGED <<program, step, row>>
    ELSE RunRules \/ RunCreate \/ RunRow \/ RunDestroy

TestInit ==
    /\ Init
    /\ row = <<0, 0>>
    /\ \/ program = None /\ step = "none"
       \/ program \in Programs /\ step = "level rule"

SpecTests == TestInit /\ [][TestNext]_tvars

-----------------------------------------------------------------------------
(* What the programs check. *)

\* Every check of the programs succeeds, in whatever order the rows of their
\* tables are taken: the guarantee above the rule is refused and the others are
\* admitted (qos_chk_exit, qos_chk_ok_exit), and what is approved for a row is as
\* the table says (src/src/test-qsup-min-2.c:83-86), whatever was asked before.
TestsPass ==
    program # None =>
        /\ step = "create" =>
              /\ qsup_servers = {} =>
                    \A min \in program.refused :
                        ~Admissible(program.uids[1], TestGid, ParamOf(min))
              /\ LET s == IF qsup_servers = {} THEN 1 ELSE 2
                 IN  Admissible(program.uids[s], TestGid, ParamOf(program.min[s]))
        /\ step = "compare" =>
              \A i \in 1 .. 2 :
                  LET expected == bw_approved(program, row)[i]
                  IN  approved_bw(i) \in expected - Tolerance .. expected + Tolerance

=============================================================================

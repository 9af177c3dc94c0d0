------------------------------ MODULE Roundings ------------------------------
(***************************************************************************)
(* How the parameters of one server are rounded (src/src/qres.c): a budget *)
(* is turned into a bandwidth and back when it is asked for, the rounded   *)
(* value is what qres_get_params returns and what qres_set_params compares *)
(* a later request with, and the bandwidth the server is given is computed *)
(* from the rounded value once more.  The server is alone and under the    *)
(* default constraint, so the supervisor admits a guarantee of up to U_LUB *)
(* and approves a request of up to U_LUB; requests it refuses are left out *)
(***************************************************************************)
EXTENDS Bandwidth

CONSTANTS
    Periods   \* the periods, in microseconds, servers are created with

ASSUME RoundingsAssumption ==
    /\ Periods \subseteq (Nat \ {0}) /\ \A P \in Periods : P < WORD
    /\ WORD % MAX_BW = 0   \* both are powers of two

VARIABLES
    P,        \* the period of the server
    sent,     \* the budgets the client asked for: [Q, Q_min]
    params,   \* the budgets recorded: [Q, Q_min]
    gua_bw,   \* the guarantee admitted
    req_bw    \* the bandwidth requested of the supervisor

vars == <<P, sent, params, gua_bw, req_bw>>


\* The budgets qres_init_server and qres_set_params make of those they are
\* given.
Rounded(ask, period) ==
    [Q |-> RoundBudget(ask.Q, period), Q_min |-> RoundBudget(ask.Q_min, period)]

GuaranteeOf(ask, period) == r2bw_ceil(Rounded(ask, period).Q_min, period)

\* The request, saturated as the supervisor does.
RequestOf(ask, period) == bw_min(r2bw(Rounded(ask, period).Q, period), U_LUB)

\* The budgets that pass the test Q <= P and admission.
Budgets(period) ==
    {ask \in [Q : 0 .. period, Q_min : 0 .. period] : GuaranteeOf(ask, period) <= U_LUB}

\* qres_init_server.
Init ==
    \E period \in Periods : \E ask \in Budgets(period) :
        /\ P = period
        /\ sent = ask
        /\ params = Rounded(ask, period)
        /\ gua_bw = GuaranteeOf(ask, period)
        /\ req_bw = RequestOf(ask, period)

\* qres_set_params with the same period.  The server is admitted anew only
\* when the rounded minimum differs from the recorded one.
SetParams(ask) ==
    /\ sent' = ask
    /\ params' = Rounded(ask, P)
    /\ gua_bw' = IF params'.Q_min # params.Q_min THEN GuaranteeOf(ask, P) ELSE gua_bw
    /\ req_bw' = RequestOf(ask, P)
    /\ UNCHANGED P

\* The client asks for something, asks for the same again, or sends back what
\* qres_get_params returned.
Request == \E ask \in Budgets(P) : SetParams(ask)
Repeat == SetParams(sent)
Resend == SetParams(params)

Next == Request \/ Repeat \/ Resend

Spec == Init /\ [][Next]_vars

\* The budget the scheduler is given (qres_update_bandwidths) when only what the
\* guarantee covers is approved.
GuaranteedBudget == bw2Q(bw_min(req_bw, gua_bw), P)

-----------------------------------------------------------------------------

\* A recorded budget is one the client asked for or a larger one, as
\* qres_lib.h says of qres_get_params, but still fits the period, so sending it
\* back passes the test Q <= P of qres_set_params.
RoundedUp ==
    /\ params.Q \in sent.Q .. P
    /\ params.Q_min \in sent.Q_min .. P

\* Rounding costs less than one unit of bandwidth: of the bandwidth that covers
\* what was asked for, at most one unit is not requested of the supervisor, and
\* the guarantee admitted covers all of it.
RoundingLoss ==
    /\ req_bw >= bw_min(r2bw_ceil(sent.Q, P), U_LUB) - 1
    /\ gua_bw = r2bw_ceil(sent.Q_min, P)

\* A guarantee above the period, which nothing compares with the period
\* (qres.c:281), is refused all the same: what it is rounded to is above what the
\* supervisor admits, and does not wrap to less.  Budgets are not negative, so
\* below half of a word; those the divide instruction faults on are left out.
AbovePeriodRefused ==
    \A q \in P + 1 .. (WORD \div 2) - 1 :
        ~DivideFaults(q, MAX_BW, P) =>
            GuaranteeOf([Q |-> 0, Q_min |-> q], P) > U_LUB

\* Both ways of computing a ceiling agree, so the two builds of the module
\* round alike.
CeilingsAgree ==
    \A q \in {sent.Q, sent.Q_min, params.Q, params.Q_min} :
        ul_shl_ceil(q, MAX_BW, P) = ul_shl_ceil_other(q, MAX_BW, P)

\* A client that sends back what it read, or repeats itself, changes nothing: in
\* particular the server is not taken out of the supervisor and admitted anew.
ResendIsIdle ==
    [][Repeat \/ Resend => UNCHANGED <<params, gua_bw, req_bw>>]_vars
=============================================================================

------------------------------ MODULE MCQsupGw ------------------------------
EXTENDS QsupGw

Rule(l, max, min) ==
    [level |-> l, max_bw |-> max, max_min_bw |-> min, flags_mask |-> {"SOFT"}]

\* A server asking for a minimum of q units of the processor.
Param(q, flags) == [Q_min |-> q, P |-> MAX_BW, flags |-> flags]

\* One user, whose servers may be created before and after the rule is added,
\* so with different levels and maxima; two guarantees exceed the maximum.
AnyRules == {Rule(1, 3, 2)}
AnyParams == {Param(0, {"SOFT"}), Param(2, {})}

\* The group of the user has the user's number.
AnyCredentials == {<<1, 1>>}

\* The groups have numbers of their own.
RuleCredentials == {<<1, 3>>, <<2, 3>>}
=============================================================================

------------------------------- MODULE MCQsup -------------------------------
EXTENDS QsupTests

Rule(l, max, min) ==
    [level |-> l, max_bw |-> Percent(max), max_min_bw |-> Percent(min), flags_mask |-> {"SOFT"}]

\* Two users; the rule puts one of them, or both, in level 1, the default
\* constraint leaves them in level 0.
WellRules == {Rule(1, 60, 30)}
WellParams == {ParamOf(0), ParamOf(30)}
WellCredentials == {<<1, "g">>, <<2, "g">>}
=============================================================================

------------------------------- MODULE MCQres -------------------------------
EXTENDS Qres

Ask(q, q_min) == [Q |-> q, Q_min |-> q_min, P |-> MAX_BW, flags |-> {}]

MCCredentials == {<<1, "g">>, <<2, "g">>}
OneUser == [t \in Threads |-> <<1, "g">>]
EachItsUser == [t \in Threads |-> IF t = "a" THEN <<1, "g">> ELSE <<2, "g">>]

\* One server may be guaranteed what it asks for; any two must give way.
CreateParams == {Ask(12, 6), Ask(20, 0)}

\* Guarantees of which two small ones, or a large one alone, fit.
GuaranteeParams == {Ask(8, 8), Ask(12, 12)}

NoParams == {}

\* A rule under which little is admitted.
Rule(max_bw, max_min_bw) == [level |-> 0, max_bw |-> max_bw, max_min_bw |-> max_min_bw,
                             flags_mask |-> {}]
MCRules == {Rule(10, 4)}
=============================================================================

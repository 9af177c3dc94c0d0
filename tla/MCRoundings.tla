----------------------------- MODULE MCRoundings -----------------------------
EXTENDS Roundings

\* Periods below, at and above MAX_BW, with and without common divisors.
MCPeriods == {3, 8, 13, 16, 20, 37}
=============================================================================

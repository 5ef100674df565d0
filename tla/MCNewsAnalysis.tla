--------------------------- MODULE MCNewsAnalysis ---------------------------
EXTENDS NewsAnalysis

CONSTANTS n1, n2

MCItem == {n1, n2}
\* One of the news has no date.
MCPublished == [i \in MCItem |-> IF i = n1 THEN 1 ELSE 0]
=============================================================================

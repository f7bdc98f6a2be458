------------------------------ MODULE MCReuse ------------------------------
\* An instance of BarrierReuse for TLC: three runs of the harnesses that call
\* waitpid, and two of the one that does not, whose runs overlap.
EXTENDS BarrierReuse

MCRuns == [h \in Harnesses |-> IF h = "constructor" THEN 2 ELSE 3]
=============================================================================

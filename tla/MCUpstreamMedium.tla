-------------------------- MODULE MCUpstreamMedium --------------------------
EXTENDS UpstreamMedium

CONSTANTS near, far

MCDelay == [m \in Modems |-> IF m = near THEN 0 ELSE 2]
=============================================================================

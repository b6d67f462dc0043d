------------------------------ MODULE MCCaches ------------------------------
\* Two requests at a time, two changes of the tables in all, and values under
\* at most two keys.
EXTENDS Caches

CONSTANTS c1, c2

MCCallers == {c1, c2}
=============================================================================

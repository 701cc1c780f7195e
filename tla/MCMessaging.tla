---------------------------- MODULE MCMessaging ----------------------------
EXTENDS Messaging

CONSTANTS m1, m2, m3, high, low, all

\* m1 has the key "a"; m2, which has no body, and m3 have "b".
MCKeyOf(m) == IF m = m1 THEN "a" ELSE "b"
MCPriority(r) == IF r = high THEN 2 ELSE 1
MCMatches(r, k) == r = all \/ k = "a"
=============================================================================

----------------------------- MODULE MCBilling -----------------------------
EXTENDS Billing

CONSTANTS i1, i2, v1, v2, v3

Growing == {<<v1, v2>>, <<v2, v3>>}
\* One item, one to which another one is added, and two from the start.
Start(its, left, failing) ==
  [listed: {its}, order: BOOLEAN, stamped: BOOLEAN, edits: {left}, faults: {failing}]
OneItem == Start({i1}, 3, 1)
Faultless == Start({i1}, 3, 0)
TwoItems == Start({i1}, 2, 1) \cup Start({i1, i2}, 2, 0)
NoRescale == {}
Back == {<<v1, v2>>, <<v2, v1>>}
============================================================================

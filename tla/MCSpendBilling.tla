-------------------------- MODULE MCSpendBilling --------------------------
(* Small instances of SpendBilling for TLC. *)
EXTENDS SpendBilling, TLC

CONSTANTS s1, s2, i1, i2, p1, p2

PortalSymm == Permutations({i1, i2})
PromSymm == Permutations({p1, p2})
SeriesSymm == Permutations({s1, s2})
HASymm == PortalSymm \cup PromSymm
=============================================================================

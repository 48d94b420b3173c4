--------------------------- MODULE MCConfigWriter ---------------------------
(* Small instances of ConfigWriter for TLC. *)
EXTENDS ConfigWriter

CONSTANTS e1, e2, s1, m0, m1, m2, m3, m4, m5, p1, p2, console

\* Two portal instances.
MCHost == [o \in Ops |-> CASE o = e1 -> p1 [] o = e2 -> p2 [] OTHER -> console]

\* e1 revokes m0 and e2 adds a key whose label no loader takes.  s1 adds a
\* variable that only the console has (it validates there and the gateway refuses
\* it), or an entry that everyone takes.  The first file may hold a variable that
\* nobody has (m4), or a bad entry (m5).
MCKind == [m \in Marks |-> CASE m \in {m1, m5} -> "bad" [] m = m2 -> "console"
                             [] m = m4 -> "missing" [] OTHER -> "good"]
Add(m) == [removes |-> {}, adds |-> {m}]
MCChanges == [o \in Ops |-> CASE o = e1 -> {[removes |-> {m0}, adds |-> {}]}
                              [] o = e2 -> {Add(m1)}
                              [] OTHER -> {Add(m2), Add(m3)}]
=============================================================================

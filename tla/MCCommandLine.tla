------------------------------ MODULE MCCommandLine ------------------------------
(* Small instance of CommandLine for TLC. *)
EXTENDS CommandLine

CONSTANTS t1, t2, p, q, a, d1, d2, u, c1, c2, k1, k2

MCTasks    == {t1, t2}
MCPip      == {p, q}
MCPipFiles == {"module", "dependency"}
MCBrings   == [x \in MCPip |-> IF x = p THEN MCPipFiles ELSE {"dependency"}]
MCMatches  == [x \in MCPip |-> IF x = p THEN {"module"} ELSE {"dependency"}]
MCApt      == {a}
MCDebs     == {d1, d2}
MCNeeds    == [x \in {a} |-> {d1, d2}]
MCUser     == {u}
MCCommands == {k1, k2}
MCCallers  == {c1, c2}
MCTarOrder == <<User(u), Pip("module"), Pip("dependency"), Deb(d1), Deb(d2)>>

=============================================================================

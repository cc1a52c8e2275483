-------------------------------- MODULE MCPool --------------------------------
(* Small instances of Pool for TLC. *)
EXTENDS Pool

CONSTANTS c1, c2, c3, s1, s2

MCClients1 == {c1}
MCClients3 == {c1, c2, c3}
MCSandboxes == {s1, s2}

=============================================================================

-------------------------------- MODULE MCExec --------------------------------
(* Small instances of IsolatedExec for TLC. *)
EXTENDS IsolatedExec

MCChunks == {1, 2}

=============================================================================

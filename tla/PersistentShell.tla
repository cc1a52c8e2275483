---------------------------- MODULE PersistentShell ----------------------------
(***************************************************************************)
(* What a sandbox promises about its shell: "each Run() call shares the    *)
(* same shell state (environment variables, working directory) as previous *)
(* calls" (sandbox/sandbox.go).  There is one shell.  Commands change it   *)
(* while they execute, nothing changes it between commands, and Reset puts *)
(* it back.  At the end of a command it forgets what no new interpreter    *)
(* can be given: arrays, and the read-only attribute, with the variable    *)
(* when it is not exported.  The promise is about environment variables:   *)
(* whether one that is not exported outlives its command is left open.     *)
(***************************************************************************)
CONSTANTS
    PNames,     \* the variables the promise is about
    NoEntry,    \* a variable that is not set
    Places,     \* directories
    HomeDir     \* where the shell starts

VARIABLES
    env,        \* the shell's variables
    cwd,        \* its working directory
    executing   \* a command is executing

pvars == <<env, cwd, executing>>

Kept(entry) ==
    IF entry = NoEntry \/ ~entry.str \/ (entry.readonly /\ ~entry.exported)
    THEN NoEntry
    ELSE [entry EXCEPT !.readonly = FALSE]

PInit ==
    /\ env = [n \in PNames |-> NoEntry]
    /\ cwd = HomeDir
    /\ executing = FALSE

Start ==
    /\ ~executing
    /\ executing' = TRUE
    /\ UNCHANGED <<env, cwd>>

ChangeVar(n) ==
    /\ executing
    /\ \A m \in PNames \ {n} : env'[m] = env[m]
    /\ UNCHANGED <<cwd, executing>>

Move ==
    /\ executing
    /\ cwd' \in Places
    /\ UNCHANGED <<env, executing>>

Finish ==
    /\ executing
    /\ executing' = FALSE
    /\ \E lost \in SUBSET {n \in PNames : env[n] # NoEntry /\ ~env[n].exported} :
          env' = [n \in PNames |-> IF n \in lost THEN NoEntry ELSE Kept(env[n])]
    /\ UNCHANGED cwd

StartOver ==
    /\ ~executing
    /\ env' = [n \in PNames |-> NoEntry]
    /\ cwd' = HomeDir
    /\ UNCHANGED executing

PNext == Start \/ (\E n \in PNames : ChangeVar(n)) \/ Move \/ Finish \/ StartOver

PSpec == PInit /\ [][PNext]_pvars

=============================================================================

----------------------------- MODULE ShellExecutor -----------------------------
(***************************************************************************)
(* The shell state that executor/shell.go carries from one Run to the      *)
(* next, and the interpreter (mvdan.cc/sh, external) that a run works on.  *)
(* Every run builds a fresh interpreter from the carried state, has it     *)
(* execute a preamble and the command, and merges its final state back.    *)
(*                                                                         *)
(* Directories are places under the sandbox root; the virtual and the real *)
(* path of a place are its two names (internal/pathmap).                   *)
(***************************************************************************)
EXTENDS Integers, FiniteSets

CONSTANTS
    Names,      \* names of shell variables
    Vals,       \* their values
    NoVal,      \* no value in an environment
    NoVar,      \* no entry in a variable table
    Unset,      \* the interpreter's entry for a variable that was unset
    FuncNames,  \* names of shell functions
    Cd,         \* one of them: the name of the injected cd() shim
    Dirs        \* directories

ASSUME ShellAssumption ==
    /\ NoVal \notin Vals
    /\ Cd \in FuncNames

(* expand.Variable: its value, its attributes, and Kind = expand.String. *)
Var == [val : Vals, exported : BOOLEAN, readonly : BOOLEAN, str : BOOLEAN]

ASSUME EntryAssumption == NoVar \notin Var /\ Unset \notin Var /\ NoVar # Unset

VARIABLES
    base,       \* e.baseEnv
    vars,       \* e.vars
    dir,        \* e.dir
    funcs,      \* e.funcs
    stage,      \* how far the current run is
    rvars,      \* the interpreter's variables
    rdir,       \* its working directory
    rfuncs,     \* its functions
    stopped     \* its context is done: it starts no further statement

carried == <<base, vars, dir, funcs>>
runner  == <<stage, rvars, rdir, rfuncs, stopped>>

Scalar(v, x) == [val |-> v, exported |-> x, readonly |-> FALSE, str |-> TRUE]

IsVar(entry) == entry \notin {NoVar, Unset}

InEnviron(entry) == IsVar(entry) /\ entry.exported /\ entry.str

(* The KEY=VALUE pairs given to the next interpreter. *)
EffectiveEnv ==
    [n \in Names |-> CASE vars[n] = Unset    -> NoVal
                       [] InEnviron(vars[n]) -> vars[n].val
                       [] OTHER              -> base[n]]

(* The variable table of a fresh interpreter: everything in it is exported. *)
FreshVars ==
    [n \in Names |-> IF EffectiveEnv[n] = NoVal THEN NoVar
                     ELSE Scalar(EffectiveEnv[n], TRUE)]

(* A scalar assignment keeps the attributes the variable has. *)
Assigned(entry, v) ==
    IF IsVar(entry) THEN [entry EXCEPT !.val = v, !.str = TRUE] ELSE Scalar(v, FALSE)

(* The variables the preamble assigns again. *)
PreambleVars ==
    {n \in Names : IsVar(vars[n]) /\ ~vars[n].exported /\ ~vars[n].readonly /\ vars[n].str}

(* The interpreter's variables once the assignments to S have been executed. *)
PreambleDone(S) ==
    [n \in Names |-> IF n \in S THEN Assigned(FreshVars[n], vars[n].val) ELSE FreshVars[n]]

(* What the command of the next run will find. *)
Visible == PreambleDone(PreambleVars)

(* ExtractState. *)
ExtractEnv ==
    [n \in Names |-> CASE vars[n] = Unset                         -> NoVal
                       [] InEnviron(vars[n])                      -> vars[n].val
                       [] IsVar(vars[n]) /\ ~vars[n].exported     -> NoVal
                       [] OTHER                                   -> base[n]]

-----------------------------------------------------------------------------
ShellInit(env, cwd) ==
    /\ base = env
    /\ vars = [n \in Names |-> NoVar]
    /\ dir = cwd
    /\ funcs = {}
    /\ stage = "idle"
    /\ rvars = [n \in Names |-> NoVar]
    /\ rdir = cwd
    /\ rfuncs = {}
    /\ stopped = FALSE

(* runCore up to runner.Run. *)
NewRunner(ctxDone) ==
    /\ stage = "idle"
    /\ stage' = "preamble"
    /\ rvars' = FreshVars
    /\ rdir' = dir
    /\ rfuncs' = {}
    /\ stopped' = ctxDone
    /\ UNCHANGED carried

(* The preamble defines the cd() shim, then variables, then functions. *)
Preamble ==
    /\ stage = "preamble"
    /\ ~stopped
    /\ stage' = "script"
    /\ rvars' = Visible
    /\ rfuncs' = funcs \cup {Cd}
    /\ UNCHANGED <<rdir, stopped>> /\ UNCHANGED carried

(* The context is done before the command is reached: part of the preamble runs. *)
CutPreamble ==
    /\ stage = "preamble"
    /\ stopped
    /\ stage' = "cut"
    /\ \E S \in SUBSET PreambleVars, F \in SUBSET (funcs \cup {Cd}) :
          /\ S # {} => Cd \in F
          /\ F \ {Cd} # {} => Cd \in F /\ S = PreambleVars
          /\ rvars' = PreambleDone(S)
          /\ rfuncs' = F
    /\ UNCHANGED <<rdir, stopped>> /\ UNCHANGED carried

(* The run's timeout, the caller's cancel, or the output cap. *)
Expire ==
    /\ stage \in {"preamble", "script"}
    /\ ~stopped
    /\ stopped' = TRUE
    /\ UNCHANGED <<stage, rvars, rdir, rfuncs>> /\ UNCHANGED carried

-----------------------------------------------------------------------------
(* One statement of the command. *)

Executing == stage = "script" /\ ~stopped

SetVar(n, entry) ==
    /\ Executing
    /\ rvars' = [rvars EXCEPT ![n] = entry]
    /\ UNCHANGED <<stage, rdir, rfuncs, stopped>> /\ UNCHANGED carried

Writable(n) == IsVar(rvars[n]) => ~rvars[n].readonly

Assign(n, v) == Writable(n) /\ SetVar(n, Assigned(rvars[n], v))

UnsetVar(n) == Writable(n) /\ SetVar(n, Unset)

MakeArray(n) == IsVar(rvars[n]) /\ Writable(n) /\ SetVar(n, [rvars[n] EXCEPT !.str = FALSE])

Export(n) == IsVar(rvars[n]) /\ SetVar(n, [rvars[n] EXCEPT !.exported = TRUE])

MakeReadonly(n) == IsVar(rvars[n]) /\ SetVar(n, [rvars[n] EXCEPT !.readonly = TRUE])

ChangeFuncs(F) ==
    /\ Executing
    /\ rfuncs' = F
    /\ UNCHANGED <<stage, rvars, rdir, stopped>> /\ UNCHANGED carried

DefineFunc(f) == ChangeFuncs(rfuncs \cup {f})

UnsetFunc(f) == ChangeFuncs(rfuncs \ {f})

ChangeDir(d) ==
    /\ Executing
    /\ rdir' = d
    /\ UNCHANGED <<stage, rvars, rfuncs, stopped>> /\ UNCHANGED carried

-----------------------------------------------------------------------------
(* Mutation: the merge keeps the interpreter's unset entries. *)
SyncVarsKeepsUnset ==
    [n \in Names |-> IF rvars[n] = NoVar THEN vars[n] ELSE rvars[n]]

(* Mutation: the merge does not delete what the command unset. *)
SyncVarsForgetsUnset ==
    [n \in Names |-> IF rvars[n] \in {NoVar, Unset} THEN vars[n] ELSE rvars[n]]

(* The variable merge of syncFrom: names the interpreter does not list stay. *)
SyncVars ==
    [n \in Names |-> IF rvars[n] = NoVar THEN vars[n]
                     ELSE IF rvars[n] = Unset THEN NoVar ELSE rvars[n]]

(* runner.Run has returned: syncFrom. *)
Sync ==
    /\ stage \in {"script", "cut"}
    /\ vars' = SyncVars
    /\ dir' = rdir
    /\ funcs' = rfuncs \ {Cd}
    /\ stage' = "idle"
    /\ rvars' = [n \in Names |-> NoVar]
    /\ rfuncs' = {}
    /\ stopped' = FALSE
    /\ UNCHANGED <<base, rdir>>

(* Mutation: the functions of the session outlive a reset of its variables. *)
ResetStateKeepsFuncs(env, cwd) ==
    /\ stage = "idle"
    /\ base' = env
    /\ vars' = [n \in Names |-> NoVar]
    /\ dir' = cwd
    /\ UNCHANGED funcs /\ UNCHANGED runner

ResetState(env, cwd) ==
    /\ stage = "idle"
    /\ base' = env
    /\ vars' = [n \in Names |-> NoVar]
    /\ dir' = cwd
    /\ funcs' = {}
    /\ UNCHANGED runner

-----------------------------------------------------------------------------
ShellTypeOK ==
    /\ base \in [Names -> Vals \cup {NoVal}]
    /\ vars \in [Names -> Var \cup {NoVar}]
    /\ dir \in Dirs
    /\ funcs \subseteq FuncNames \ {Cd}
    /\ stage \in {"idle", "preamble", "script", "cut"}
    /\ rvars \in [Names -> Var \cup {NoVar, Unset}]
    /\ rdir \in Dirs
    /\ rfuncs \subseteq FuncNames
    /\ stopped \in BOOLEAN

=============================================================================

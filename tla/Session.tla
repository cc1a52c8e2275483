-------------------------------- MODULE Session --------------------------------
(***************************************************************************)
(* A sandbox of sandbox/sandbox.go with one caller: Run, RunContext and    *)
(* RunStream on the shell executor, Reset, file uploads, and Close, which  *)
(* may come from another goroutine while a command runs.                   *)
(***************************************************************************)
EXTENDS ShellExecutor

CONSTANTS
    Root,        \* the sandbox's temp directory
    Files,       \* other places in it: files
    Outside,     \* directories that are not in it, where a relative cd may go
    Skeleton,    \* what bootstrapFS creates in it
    BaseImage,   \* what NewLayeredFS copies into it from Options.BaseImageDir
    WorkDir,     \* Options.WorkDir
    InitEnv,     \* newShellState's environment, with the overlay's PATH and PYTHONPATH
    MaxHistory,  \* bound: runs between two resets
    MaxScript    \* bound: statements of one command

Paths == Dirs \cup Files

(* The places in the sandbox. *)
Inner == Paths \ Outside

ASSUME SessionAssumption ==
    /\ {Root, WorkDir} \cup Outside \subseteq Dirs
    /\ {Root, WorkDir} \cup Files \cup Skeleton \cup BaseImage \subseteq Inner
    /\ InitEnv \in [Names -> Vals \cup {NoVal}]
    /\ MaxHistory \in Nat /\ MaxScript \in Nat

VARIABLES
    stateEnv,  \* s.state.Env
    stateCwd,  \* s.state.Cwd
    history,   \* the length of s.state.History
    closed,    \* s.closed
    owned,     \* s.ctx is the context New made, so s.cancelCtx cancels it
    ctxDone,   \* s.ctx is done
    disk,      \* the places that exist, Root among them
    script     \* statements the current command has executed

sandbox == <<stateEnv, stateCwd, history>>
life    == <<closed, owned, ctxDone>>
svars   == <<carried, runner, sandbox, life, disk, script>>

InitialDisk == {Root, WorkDir} \cup Skeleton \cup BaseImage

Init ==
    /\ ShellInit(InitEnv, WorkDir)
    /\ stateEnv = InitEnv
    /\ stateCwd = WorkDir
    /\ history = 0
    /\ closed = FALSE
    /\ owned = TRUE
    /\ ctxDone = FALSE
    /\ disk = InitialDisk
    /\ script = 0

(* After the executor returns, whatever it did. *)
Record ==
    /\ stateEnv' = ExtractEnv'
    /\ stateCwd' = dir'
    /\ history' = history + 1

MayRun ==
    /\ ~closed
    /\ history < MaxHistory
    /\ stage = "idle"

(* A blank command, one that does not parse, or a working directory that is gone. *)
RunRefused ==
    /\ MayRun
    /\ UNCHANGED <<carried, runner>>
    /\ Record
    /\ UNCHANGED <<life, disk, script>>

(* The context of the run is the caller's or the base context, merged. *)
RunBegin ==
    /\ MayRun
    /\ dir \in disk \cup Outside
    /\ \E callerDone \in BOOLEAN : NewRunner(ctxDone \/ callerDone)
    /\ script' = 0
    /\ UNCHANGED <<sandbox, life, disk>>

RunPreamble == (Preamble \/ CutPreamble) /\ UNCHANGED <<sandbox, life, disk, script>>

RunExpire == Expire /\ UNCHANGED <<sandbox, life, disk, script>>

(* Mutation: the host's view of the shell is not brought up to date. *)
RunEndStale ==
    /\ Sync
    /\ history' = history + 1
    /\ script' = 0
    /\ UNCHANGED <<stateEnv, stateCwd, life, disk>>

(* The interpreter has returned: merge its state, then record it for the host. *)
RunEnd ==
    /\ Sync
    /\ Record
    /\ script' = 0
    /\ UNCHANGED <<life, disk>>

-----------------------------------------------------------------------------
(* The command's statements. *)

Statement ==
    /\ script < MaxScript
    /\ script' = script + 1
    /\ UNCHANGED <<sandbox, life>>

VarStatement ==
    /\ Statement
    /\ \E n \in Names :
          \/ \E v \in Vals : Assign(n, v)
          \/ UnsetVar(n)
          \/ MakeArray(n)
          \/ Export(n)
          \/ MakeReadonly(n)
    /\ UNCHANGED disk

FuncStatement ==
    /\ Statement
    /\ \E f \in FuncNames : DefineFunc(f) \/ UnsetFunc(f)
    /\ UNCHANGED disk

(* Nothing keeps a relative cd below the root. *)
CdStatement ==
    /\ Statement
    /\ \E d \in (Dirs \cap disk) \cup Outside : ChangeDir(d)
    /\ UNCHANGED disk

(* A write creates the directories above it (OsFS.ensureDir), Root included. *)
Put(p) == disk' = disk \cup {Root, p}

FileStatement ==
    /\ Statement
    /\ Executing
    /\ \E p \in Inner \ {Root} : Put(p) \/ disk' = disk \ {p}
    /\ UNCHANGED <<carried, runner>>

-----------------------------------------------------------------------------
(* The other operations of a sandbox. *)

(* WriteFile, or an entry of UploadTar; neither looks at s.closed. *)
HostWrite ==
    /\ stage = "idle"
    /\ \E p \in Inner \ {Root} : Put(p)
    /\ UNCHANGED <<carried, runner, sandbox, life, script>>

SetContext ==
    /\ stage = "idle"
    /\ owned' = FALSE
    /\ ctxDone' = FALSE
    /\ UNCHANGED <<carried, runner, sandbox, closed, disk, script>>

CancelContext ==
    /\ ~owned
    /\ ctxDone' = TRUE
    /\ UNCHANGED <<carried, runner, sandbox, closed, owned, disk, script>>

(* Reset does not look at s.closed either. *)
Reset ==
    /\ stage = "idle"
    /\ ResetState(InitEnv, WorkDir)
    /\ stateEnv' = InitEnv
    /\ stateCwd' = WorkDir
    /\ history' = 0
    /\ disk' = {Root} \cup Skeleton
    /\ UNCHANGED <<life, script>>

Close ==
    /\ ~closed
    /\ closed' = TRUE
    /\ ctxDone' = (ctxDone \/ owned)
    /\ disk' = {}
    /\ UNCHANGED <<carried, runner, sandbox, owned, script>>

Next ==
    \/ RunRefused \/ RunBegin \/ RunPreamble \/ RunExpire \/ RunEnd
    \/ VarStatement \/ FuncStatement \/ CdStatement \/ FileStatement
    \/ HostWrite \/ SetContext \/ CancelContext \/ Reset \/ Close

Spec == Init /\ [][Next]_svars

-----------------------------------------------------------------------------
(* Properties. *)

(* Every variable has its type. *)
TypeOK ==
    /\ ShellTypeOK
    /\ stateEnv \in [Names -> Vals \cup {NoVal}]
    /\ stateCwd \in Dirs
    /\ history \in 0 .. MaxHistory
    /\ closed \in BOOLEAN /\ owned \in BOOLEAN /\ ctxDone \in BOOLEAN
    /\ disk \subseteq Inner
    /\ script \in 0 .. MaxScript

(***************************************************************************)
(* What State() shows the host is what the next command will find: the     *)
(* same working directory, and as environment the exported part of the     *)
(* shell's variables.  Held for the names the session itself introduced;   *)
(* those of the initial environment come back when a command unsets them.  *)
(***************************************************************************)
SessionNames == {n \in Names : InitEnv[n] = NoVal}

StateMirrorsShell ==
    stage = "idle" =>
        /\ stateCwd = dir
        /\ \A n \in SessionNames :
              stateEnv[n] = IF IsVar(Visible[n]) /\ Visible[n].exported
                            THEN Visible[n].val ELSE NoVal

(***************************************************************************)
(* The sandbox implements one persistent shell: no refused command, no     *)
(* timeout, cancel or Close at whatever point of a run, changes a variable *)
(* or the working directory, and a run begins with what the last one left. *)
(***************************************************************************)
ShellVars == IF stage = "script" THEN rvars ELSE Visible
ShellEnv  == [n \in SessionNames |-> IF IsVar(ShellVars[n]) THEN ShellVars[n] ELSE NoVar]
ShellCwd  == IF stage = "script" THEN rdir ELSE dir

Shell == INSTANCE PersistentShell WITH
    PNames    <- SessionNames,
    NoEntry   <- NoVar,
    Places    <- Dirs,
    HomeDir   <- WorkDir,
    env       <- ShellEnv,
    cwd       <- ShellCwd,
    executing <- stage = "script"

PersistentShellSpec == Shell!PSpec

(***************************************************************************)
(* "Reset restores the sandbox to its initial Options state": variables,   *)
(* functions, working directory and files are those New left.              *)
(***************************************************************************)
ResetRestores ==
    [][ Reset =>
            /\ base' = InitEnv /\ stateEnv' = InitEnv
            /\ Visible' = [n \in Names |-> IF InitEnv[n] = NoVal THEN NoVar
                                           ELSE Scalar(InitEnv[n], TRUE)]
            /\ funcs' = {}
            /\ dir' = WorkDir /\ stateCwd' = WorkDir
            /\ disk' = InitialDisk ]_svars

(***************************************************************************)
(* "Shell function definitions persist to the next Run()": a run that      *)
(* never reached its command leaves the functions alone.                   *)
(***************************************************************************)
FunctionsPersist == [][ stage = "cut" => funcs' = funcs ]_svars

=============================================================================

------------------------------- MODULE CommandLine -------------------------------
(***************************************************************************)
(* One process that uses a sandbox: agentic-bash with one of its           *)
(* subcommands (main.go), or a program that embeds the package.  It        *)
(* composes the root and its packages (Overlay), the archives              *)
(* (Checkpoint), the handler chain, the terminal UI (Terminal) and the     *)
(* fetch of the Python runtime (PythonCache).  Which of them move depends  *)
(* on what the process was started for.                                    *)
(***************************************************************************)
EXTENDS Checkpoint, Terminal, PythonCache, HandlerChain

CONSTANTS
    Main,      \* the task that runs the script itself; the others are its background jobs
    MaxLines,  \* bound: lines read, or archives made and used, by the process
    MaxCalls   \* bound: external commands begun

ASSUME CommandLineAssumption == Main \in Tasks /\ MaxLines \in Nat \ {0} /\ MaxCalls \in Nat \ {0}

VARIABLES
    app,    \* the subcommand
    opts,   \* the options the handler chain depends on
    at,     \* where the main goroutine is
    lines, calls,  \* counters for the bounds
    root,   \* the temp directory: "there", "gone", or "partly" removed
    killed  \* history: a signal ended the process

mainVars == <<app, opts, at, lines, calls, root, killed>>
treeVars == <<ovars, cpvars>>
vars     == <<treeVars, tvars, pvars, mainVars>>

Apps == {"run", "shell", "snapshot", "restore", "tui", "embed", "fetch"}
TreeApps == {"run", "shell", "snapshot", "restore", "embed"}

Start(a) ==
    CASE a \in {"run", "embed"} -> {"command"}
      [] a = "shell"            -> {"prompt"}
      [] a = "snapshot"         -> {"command", "save"}
      [] a = "restore"          -> {"load"}
      [] a \in {"tui", "fetch"} -> {a}

(* Bound: what the user files may be, for each program. *)
Varied(a) ==
    CASE a = "snapshot"         -> FileKinds
      [] a = "shell"            -> {"link", "dotdot", "sealed"}
      [] a = "restore"          -> {"link", "wayout", "dotdot"}
      [] a = "embed"            -> {"link", "wayout", "sealed"}
      [] a = "run"              -> {"link"}
      [] a \in {"tui", "fetch"} -> {"link"}

(* The command line starts with an empty root and leaves the options of the handler chain *)
(* alone.  How much of the bounds a process may use depends on what else it does.          *)
Init ==
    /\ app \in Apps
    /\ at \in Start(app)
    /\ opts = [wasm |-> app = "embed", block |-> {}]
    /\ lines = CASE app = "restore" -> MaxLines [] app = "embed" -> MaxLines - 1 [] OTHER -> 0
    /\ calls = IF app \in {"snapshot", "embed", "shell"} THEN MaxCalls - 1 ELSE 0
    /\ root = "there" /\ killed = FALSE
    /\ OverlayInit /\ CheckpointInit /\ TerminalInit /\ CacheInit
    /\ quit = (app # "tui")
    /\ CASE app = "restore" -> TRUE
         [] app = "embed"   -> archive = NoArchive \/ (archive.has = Entries /\ ~archive.cut)
         [] OTHER           -> archive = NoArchive
    /\ app # "run" => archives = {}
    /\ \A f \in UserFiles : kind[f] \in Varied(app)

Alive == at # "exited"

(* Nobody writes into the root, and everything under it can be removed. *)
Removable == Busy = {} /\ cp.at = "idle" /\ UnderWay = {} /\ \A e \in tree : ~Stays(e)

-----------------------------------------------------------------------------
(* Commands. *)

(* What an external command does under the handler it meets. *)
Handle(t, c) ==
    \/ /\ Handler(c, opts) = "pip"
       /\ \E p \in PipPkgs : IF Installs(c) THEN PipInstall(t, p) ELSE PipUninstall(t, p)
    \/ /\ Handler(c, opts) = "apt"
       /\ IF c.verb = "update"
          THEN Idle(t) /\ UNCHANGED ovars
          ELSE \E a \in AptPkgs : IF Installs(c) THEN AptInstall(t, a) ELSE AptRemove(t, a)
    \/ Handler(c, opts) = "ln" /\ Ln(t)
    \/ Handler(c, opts) \in {"wasm", "isolated"} /\ Idle(t) /\ ExternalChange

Command(t) ==
    /\ at = "command" /\ calls < MaxCalls
    /\ \E c \in External : Handle(t, c)
    /\ Note
    /\ calls' = calls + 1
    /\ UNCHANGED <<cp, taken, archive, tvars, pvars, app, opts, at, lines, root, killed>>

(* The calls of a command go on after it, until the process ends. *)
Task(t) ==
    /\ Alive /\ app \in TreeApps
    /\ Advance(t) /\ Note
    /\ UNCHANGED <<cp, taken, archive, tvars, pvars, mainVars>>

(* Explored under the run command only: elsewhere the archive holds what this process needed. *)
OtherProcess ==
    /\ Alive /\ app = "run"
    /\ OtherDownload /\ Note
    /\ UNCHANGED <<cp, taken, archive, tvars, pvars, mainVars>>

Goes(to) == at' = to /\ UNCHANGED <<app, opts, calls, killed>>

(* RunStream returns when the script's own calls have.  The run command ends with os.Exit, *)
(* which runs no deferred call.                                                             *)
CommandEnds ==
    /\ at = "command" /\ Idle(Main)
    /\ \E to \in CASE app = "run"      -> {"exited"}
                   [] app = "snapshot" -> {"save", "closing"}
                   [] app = "shell"    -> {"prompt"}
                   [] app = "embed"    -> {"closing"} :
          Goes(to)
    /\ UNCHANGED <<treeVars, tvars, pvars, lines, root>>

-----------------------------------------------------------------------------
(* The lines of the REPL. *)

Line(to) == at = "prompt" /\ lines < MaxLines /\ lines' = lines + 1 /\ Goes(to)

ReadCommand ==
    /\ Line("command")
    /\ UNCHANGED <<treeVars, tvars, pvars, root>>

ReadReset ==
    /\ Line("prompt")
    /\ ResetRoot
    /\ UNCHANGED <<cpvars, tvars, pvars, root>>

ReadSnapshot ==
    /\ Line("checkpoint")
    /\ SaveBegin("snapshot")
    /\ UNCHANGED <<tvars, pvars, root>>

(* There is a file to restore from. *)
ReadRestore ==
    /\ Line("checkpoint")
    /\ archive # NoArchive /\ RestoreBegin
    /\ UNCHANGED <<tvars, pvars, root>>

ReadEOF ==
    /\ at = "prompt"
    /\ Goes("closing")
    /\ UNCHANGED <<treeVars, tvars, pvars, lines, root>>

-----------------------------------------------------------------------------
(* Archives. *)

(* The snapshot command after its script, and the restore command before its REPL. *)
SnapshotCmd ==
    /\ at = "save" /\ SaveBegin("snapshot")
    /\ Goes("checkpoint")
    /\ UNCHANGED <<tvars, pvars, lines, root>>

RestoreCmd ==
    /\ at = "load"
    /\ IF archive = NoArchive
       THEN Goes("closing") /\ UNCHANGED treeVars
       ELSE Goes("checkpoint") /\ RestoreBegin
    /\ UNCHANGED <<tvars, pvars, lines, root>>

(* An embedding program's goroutine, while another one runs a command. *)
EmbeddedCall ==
    /\ app = "embed" /\ at = "command" /\ lines < MaxLines
    /\ CheckpointBegin
    /\ lines' = lines + 1
    /\ UNCHANGED <<tvars, pvars, app, opts, at, calls, root, killed>>

(* Mutation: a failed restore leaves the process without closing the sandbox. *)
AfterCheckpointExit ==
    IF cp'.at # "idle" THEN {at}
    ELSE CASE app = "shell"    -> {"prompt"}
           [] app = "snapshot" -> {"closing"}
           [] app = "restore"  -> IF FillDone THEN {"prompt"} ELSE {"exited"}
           [] app = "embed"    -> {at}

(* A failed restore ends the restore command; a good one makes a shell of it, where a *)
(* failed restore ends nothing.                                                        *)
AfterCheckpoint ==
    IF cp'.at # "idle" THEN {at}
    ELSE CASE app = "shell"    -> {"prompt"}
           [] app = "snapshot" -> {"closing"}
           [] app = "restore"  -> IF FillDone THEN {"prompt"} ELSE {"closing"}
           [] app = "embed"    -> {at}

ArchiveStep ==
    /\ Alive /\ CheckpointStep
    /\ at' \in AfterCheckpoint
    /\ app' = IF app = "restore" /\ at' = "prompt" THEN "shell" ELSE app
    /\ UNCHANGED <<tvars, pvars, opts, lines, calls, root, killed>>

-----------------------------------------------------------------------------
(* The other programs. *)

TUI ==
    /\ app = "tui" /\ at = "tui" /\ TerminalNext
    /\ UNCHANGED <<treeVars, pvars, mainVars>>

QuitTUI ==
    /\ at = "tui" /\ quit
    /\ Goes("closing")
    /\ UNCHANGED <<treeVars, tvars, pvars, lines, root>>

FetchRuntime ==
    /\ at = "fetch" /\ CacheNext
    /\ UNCHANGED <<treeVars, tvars, mainVars>>

-----------------------------------------------------------------------------
(* The end. *)

(* sb.Close: RemoveAll gives up at a directory that a job still writes into, or whose mode *)
(* forbids it, and nobody looks at its error.                                                *)
Close ==
    /\ at = "closing"
    /\ root' \in IF Removable THEN {"gone"} ELSE {"gone", "partly"}
    /\ Goes("exited")
    /\ UNCHANGED <<treeVars, tvars, pvars, lines>>

(* A signal; in the prompt readline reads ctrl+c as the end of the input. *)
Killed ==
    /\ app \in TreeApps /\ at \in {"command", "checkpoint"}
    /\ at' = "exited" /\ killed' = TRUE
    /\ IF cp.at = "save" THEN CutFile \/ UNCHANGED archive ELSE UNCHANGED archive
    /\ UNCHANGED <<ovars, cp, taken, touched, tvars, pvars, app, opts, lines, calls, root>>

Next ==
    \/ OtherProcess \/ \E t \in Tasks : Command(t) \/ Task(t)
    \/ CommandEnds \/ ReadCommand \/ ReadReset \/ ReadSnapshot \/ ReadRestore \/ ReadEOF
    \/ SnapshotCmd \/ RestoreCmd \/ EmbeddedCall \/ ArchiveStep
    \/ TUI \/ QuitTUI \/ FetchRuntime \/ Close \/ Killed

Spec == Init /\ [][Next]_vars

(***************************************************************************)
(* The scheduler runs every goroutine; what a child or a command does ends *)
(* by itself or with the timeout; a mutex is given to a waiter in the end  *)
(* (Go's starvation mode); Update receives every message.  Nothing is      *)
(* assumed of the user, of signals and of other processes.                 *)
(***************************************************************************)
Fairness ==
    /\ \A t \in Tasks : SF_vars(Task(t))
    /\ WF_vars(TUI /\ (Listen \/ Show))
    /\ WF_vars(TUI /\ \E j \in Jobs : JobStep(j))

FairSpec == Spec /\ Fairness

-----------------------------------------------------------------------------
(* Properties.  Those of the parts are in their modules. *)

(***************************************************************************)
(* "pip commands still redirect to the overlay": an install the shims      *)
(* recognise reaches one of them, with the WASM runtime or without, unless *)
(* the block list refuses it.                                              *)
(***************************************************************************)
InstallsShimmed ==
    \A c \in External : Installs(c) => Handler(c, opts) \in {"pip", "apt", "blocked"}

(***************************************************************************)
(* "defer sb.Close()": an ended process leaves its temp directory only if  *)
(* it was killed, if it was the run command, or if RemoveAll gave up, as   *)
(* it may with a job writing into the directory, or for a file's mode.     *)
(***************************************************************************)
CleanExit ==
    ~Alive /\ ~killed /\ app # "run" =>
        \/ root = "gone"
        \/ root = "partly" /\ ~Removable

(* Every variable has its type. *)
CommandLineTypeOK ==
    /\ OverlayTypeOK /\ CheckpointTypeOK /\ TerminalTypeOK /\ CacheTypeOK
    /\ app \in Apps /\ opts \in [wasm : BOOLEAN, block : SUBSET Programs]
    /\ at \in (UNION {Start(a) : a \in Apps}) \cup {"checkpoint", "closing", "exited"}
    /\ lines \in 0..MaxLines /\ calls \in 0..MaxCalls
    /\ root \in {"there", "gone", "partly"} /\ killed \in BOOLEAN

(* Every shim call ends, though calls wait for each other's lock, unless the process does. *)
CallsReturn == \A t \in Tasks : ~Idle(t) ~> Idle(t) \/ ~Alive

=============================================================================

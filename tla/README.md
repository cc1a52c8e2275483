# A verification model of agentic-bash

agentic-bash is a Go library and command-line tool that gives an agent a
persistent, isolated shell: a `Sandbox` owns a temp directory laid out like a
small Linux system, an in-process shell interpreter whose state survives from
one `Run` to the next, and a chain of handlers that run, intercept or isolate
external commands. A `Pool` hands ready sandboxes to concurrent clients.

This directory holds TLA+ modules translated from the code, TLC configurations
that check them on small instances, and proofs, checked by TLAPS, that the most
important properties hold for every value of the constants.
`PROJECT.json` maps each definition to the lines it models.

## Inventory

| Component | State | Operations | Interaction | What is hard | What makes it correct |
|---|---|---|---|---|---|
| **Pool** `sandbox/pool.go` | buffered channel of idle sandboxes, counter `size`, flag `closed`, channel `done` | `NewPool`, `Acquire`, `Release`, `evictLoop`/`evictIdle`, `Close` | called by any number of goroutines; calls `New`, `Reset`, `Close` of sandboxes outside its lock | lock and channel are separate; the evictor empties the channel and refills it; failure of `New`; close during release | `size` counts exactly the live sandboxes and stays within `MaxSize`; a sandbox has one holder; calls return |
| **Session** `sandbox/{sandbox,session,options,bootstrap,result}.go` | `ShellState` (env, cwd, history), `closed`, base context, temp directory, metrics, manifest | `New`, `Run`, `RunContext`, `RunStream`, `Reset`, `Close`, `SetContext`, `WriteFile`, `ReadFile`, `ListFiles`, `UploadTar`, `DownloadTar` | drives the executor, reads its state back, resets the tracker, re-wires the handlers on every run | runs cut by timeout, cancel or `Close`; rebuilding on `Reset` exactly what `New` built | state persists between runs and nothing else changes it; the host's view agrees with the shell's |
| **Shell executor** `executor/shell.go` | base environment, variable table, directory, functions | `Run`/`RunToWriters`, `ExtractState`, `ResetState` | builds a new interpreter (mvdan.cc/sh) per run, replays state through environment and preamble, merges it back | state takes four forms in turn; a run may end before its preamble has been executed | round trip: a run starts with what the last one left |
| **Native executor** `executor/native.go` | none between calls | `Run` | one `/bin/sh` process per call | kill on timeout and cap | as isolated execution |
| **Isolated execution** `isolation/exechandler.go`, `internal/limitwriter` | per command: pid, one-shot kill, shared byte counter, cgroup, metrics | the exec handler, `Writer.Write` | terminal handler of the chain; os/exec's copying goroutines call the writers, which call the kill | three goroutines race for one kill; combined cap over two streams | the cap is exact; cancellation ends the command |
| **Isolation strategies** `isolation/{namespace,landlock}_linux.go`, `strategy.go`, **cgroups**, **network filter** | none (kernel attributes, files under `/sys/fs/cgroup`) | `Wrap`, `Apply`, `New`/`AddPID`/`Stop` | called by the exec handler | kernel support | selection falls back to the strongest available |
| **Change tracker** `fs/tracker.go` | created, modified, deleted sets | writes, `Remove`, `RemoveAll`, `Rename`, `Symlink`, `Reset` | wraps the file system; redirections and `ln -s` go through it | looks at the disk outside its lock; concurrent writers; calls that take a whole tree along | the report agrees with what happened to the files themselves |
| **File systems** `fs/{layered,realfs,memory,handler,openat2_linux}.go` | the disk under the root | file operations with containment checks, `Clear` | open handler of the interpreter | path containment | paths stay under the root |
| **Snapshot** `fs/snapshot.go`, `DownloadTar`/`UploadTar` of `sandbox.go`, `doSnapshot`/`doRestore` of `main.go` | the archive file | `Snapshot`, `Restore` | walks or refills the root, entry by entry, while background jobs of an earlier command still change it | nothing is atomic: the walk, the wipe, the refill, the write of the file; links that lead out, entries that cannot be listed, opened or removed | an archive holds what can be copied and leaves out only what the walk skips; a restore without an error leaves the archive |
| **Path mapping** `internal/pathmap` | none | `VirtualToReal`, `RealToVirtual`, `IsEscaping` | everywhere a path crosses the root; next to it `resolvePath`, the open, stat and readdir handlers, the call hook, `resolveArg` and the `cd()` shim each translate names themselves | prefixes, `..`, names that are real already, copies of the working directory | a name means one place to all of them |
| **Intercept** `executor/intercept/*` | none | dispatcher, call hook, command shims | middle of the handler chain | order of handlers | each command meets the right handler |
| **Packages** `packages/*` | shared archive directory of `.deb` files with a mutex per process, per-sandbox manifest, cached Python runtime | install and uninstall of the `pip` and `apt` shims, `FetchPythonWASM` | exec middlewares; the tasks of a command call them concurrently, and a background job goes on after its command | shared archive, partial failure, killed children, a manifest that `Reset` replaces under a job; names of packages and names of their files | manifest agrees with what one package alone owns; the lock is exclusive and given back |
| **Terminal UI** `tui/*` | running flag (in two structs), cancel function, prompt and history, log channel and panel | message handlers, `listenLogCh`, `nonBlocking` | one goroutine handles messages, one runs the command, one waits for a log entry | messages overtaking each other, a full channel | one command at a time; the prompt shows what the history index says; log entries in order |
| **Command line** `main.go` | where the process is | `run`, `shell`, `snapshot`, `restore`, `tui` | composes all of the above | exits from every point, signals, `os.Exit` | the temp directory is removed; every prompt comes back |

## Plan

Order of work, the most important behaviour first:

1. `Pool` with its abstraction `SandboxLease`, and `PoolProofs`. **Done.**
2. `ShellExecutor` and `Session`, with the abstraction `PersistentShell`. **Done**, with `SessionProofs`.
3. `IsolatedExec`. **Done.**
4. `ChangeTracker`: concurrent writers within one run (background jobs, pipelines) and runs that overlap. **Done**, with `ChangeTrackerProofs`.
5. `Overlay` (the root, the package shims, the shared archive and its lock), `Checkpoint` (archives) on top of it,
   `PythonCache`. **Done**, with `OverlayProofs` and `CheckpointProofs`.
6. `Terminal` and `HandlerChain`, and `CommandLine`, which composes them with step 5. **Done**, with
   `TerminalProofs` and `CommandLineProofs`. `PathMap` as pure operators, and `SessionPaths`, which asks them
   what a name means wherever a session has gone. **Done.**
7. `ExecProofs`. **Done.**

Left: the outcome of a run with the native executor, the containment checks of `fs/fs.go` for
links, and a temporal statement of what a client may expect of a pool that evicts.

## Modules

| Module | Models | Extends or instantiates |
|---|---|---|
| `Pool` | `sandbox/pool.go` | `SandboxLease` (refinement) |
| `SandboxLease` | what the pool promises its clients | |
| `PoolProofs` | theorems about `Pool` | `Pool`, `TLAPS` |
| `ShellExecutor` | `executor/shell.go` and the interpreter as the code uses it | |
| `Session` | `sandbox/sandbox.go` and what it calls in `session.go`, `bootstrap.go`, `fs/layered.go` | `ShellExecutor`, `PersistentShell` (refinement) |
| `PersistentShell` | the shell a sandbox promises | |
| `SessionProofs` | theorems about `Session` and `SessionPaths` | `SessionPaths`, `TLAPS` |
| `PathMap` | `internal/pathmap`, and what its callers make of a name | |
| `SessionPaths` | the places of a session with their paths | `Session`, `PathMap` |
| `IsolatedExec` | `isolation/exechandler.go`, `internal/limitwriter` | |
| `ExecProofs` | theorems about `IsolatedExec` | `IsolatedExec`, `TLAPS` |
| `ChangeTracker` | `fs/tracker.go`, and the writes of `fs/realfs.go` below it | |
| `ChangeTrackerProofs` | theorems about `ChangeTracker` | `ChangeTracker`, `TLAPS` |
| `Overlay` | the root, `packages/{pip,apt,cache,manifest}.go`, `ln` of `intercept/filesystem.go`, `Reset` as the root sees it | |
| `Checkpoint` | `fs/snapshot.go`, `DownloadTar`/`UploadTar`, the archive file of `main.go` | `Overlay` |
| `PythonCache` | `packages/python_fetch.go` | |
| `Terminal` | `tui/*`, and the callbacks and channel of `main.go`'s `tui` | |
| `HandlerChain` | the order of call hook, dispatcher, shims and runtimes | |
| `CommandLine` | `main.go`, or a program that embeds the package | `Checkpoint`, `Terminal`, `PythonCache`, `HandlerChain` |
| `OverlayProofs`, `CheckpointProofs`, `TerminalProofs` | theorems about these modules | the module, `TLAPS` |
| `CommandLineProofs` | theorems about `CommandLine`, and that it implements its parts | `CommandLine`, the three above, `TLAPS` |
| `MCPool`, `MCSession`, `MCExec`, `MCTracker`, `MCCommandLine` | small instances for TLC | |

### Pool

A goroutine's program counter `pc[p]` names the code it is about to execute,
`sb[p]` the sandbox it has in a local variable. One action is one channel
operation, one critical section of `p.mu`, or one call of `New` or `Close` on a
sandbox only that goroutine knows, so every interleaving the code allows is a
behaviour. `pool` is the channel, `old` the entries whose `idleSince` is before
the cutoff (any subset, chosen at each tick: time is abstracted), `keep` the
evictor's local list. `open` is the set of sandboxes that `New` returned and
nobody closed. `Discard` and `DecSize` are the two steps "close, then
decrement" that `Release`, `evictIdle` (twice) and `Close` share; where the
goroutine goes on is `AfterDec`.

Assumed of clients: a client releases the lease it holds, once. This is
the API's contract; a double release is not modelled.

### Shell executor and session

`vars`, `base`, `dir`, `funcs` are the executor's fields; a table maps every
name to an entry or to `NoVar`. A run is `RunBegin` (the interpreter is made:
`rvars`, `rdir`, `rfuncs`), `RunPreamble`, statements, and `RunEnd`
(`syncFrom`, then `ExtractState`). `RunExpire` is the timeout, the caller's
cancel or the output cap; afterwards no statement starts, and a run that
expires before its preamble executes only a part of it (`CutPreamble`).
`RunRefused` stands for a blank command, a parse error and a working directory
that does not exist: their effect on the state is the same. The function table
is a set of names: bodies are copied unchanged. Variables the interpreter sets
by itself (`PWD`, `IFS`, `UID`, ...) are left out. `PersistentShell` promises environment
variables: whether one that is not exported outlives its command is open there
(`Finish`), because the comment at `executor/shell.go:42` says it does not, while the code sees to it that it does
(`SessionKeepsVariables`).

`disk` is the set of places that exist under the temp directory: directories a
command may `cd` to, and files. `Outside` are directories of the host above the root,
which a relative `cd` may reach (`executor/shell.go:347` does not look) and
where the session then goes on. `Close` may happen at any time; `WriteFile`,
`UploadTar` and `Reset` look at `closed` no more than the code does.
The change tracker has a module of its own; the metrics and the manifest are left out.

### Isolated execution

The handler's goroutine, the watcher, and one copying goroutine per stream have
program counters; the command's processes are a leader and one child which may
write, exit, fork or redirect their output at any time. `pipe[s]` holds at most
one chunk. `forwarded` counts the bytes handed to the handler's stdout and stderr, which may
take less or fail (`Forward`, the place `failed`): `io.Copy` then ends. A process that writes to a pipe whose reader has ended may die
(`Exit`). Process groups are killed as a whole; a process that leaves the group
(`setsid`) is not modelled, and would not be ended by the kill.

### Change tracker

`disk` is the set of files and directories that exist, `Below[p]` what lies below a path
(nothing, for a file or a link); `op[t]` is the call a task is executing and
its next step: a write looks (`StatForWrite`), records (`RecordWrite`) and writes
(`Write`, which may fail, and of which an open makes the directories above first); a removal or rename
changes the disk and records after it. `RemoveAll` and `Rename` take along everything below
their path, `Remove` refuses a directory that is not empty, and `RemoveFails` is a
`RemoveAll` that gives up half-way and records nothing. `MkdirAll` is the tracker's, which records nothing. Any
number of tasks may be at any of these points, because a
command's subshells, pipeline stages and background jobs share the tracker.
`Reset` may happen at any time: a background job outlives its run, and
`RunContext` does not exclude another caller. `Untracked` is everything that
changes the root past the tracker: child processes, package installs, uploads
and restores. In the run path only `OpenFile` and `Symlink` of the tracker are
called; the others are there for users of the package.

Three history variables say what a report can be expected to know. `before` is
the disk at the last `Reset`; `rough` collects the paths that were changed past the
tracker, that a call was busy with at the `Reset`, that were removed or
renamed while another call was about them, or that a failed removal took; `swept` the
files that a removal or a rename of a directory above them changed. `ReportExact` is about the files in neither:
there, the look at the disk outside the lock does no harm, however the writes
interleave. The swept files are what the report misses, silently.

### Paths

A path is a sequence of names, a name as it is typed is absolute or not and may
hold `..`. `PathMap` has one operator for each piece of code that turns a name into
a real path: `ResolvePath` (`ReadFile`, `WriteFile`, `ListFiles`), `OpenPath`
(redirections), `StatPath` (tests and globs), `CallArg` (the call hook, which rewrites
arguments of every command, builtins included), `ChildPath` (what a process
makes of the result), `ResolveArg` (the commands the sandbox implements) and
`CdPath`. The pass-through of `/dev`, `/proc` and `/sys` is left out. `SessionPaths`
gives the directories of `Session` real paths and asks in each of its states,
before, during and after runs, whether these operators agree (`NamesAgree`). The
property spells out where they do not: a child process is told another place when the
call hook leaves a virtual name alone (`Skipped`), because the host has it or because its string begins
with the root's (`RawUnder`: `callhook.go:74` compares strings, so that a sibling of the root counts, `Siblings`);
and it says nothing of `cd` with an absolute name, which `CdFinds` does and `session_cd` refutes. It speaks of names
that stay inside (`StaysInside`): none of the places passed on the way is above the
root, where a name that is a real path already counts from the root on.
`PathsAssumption` says what `New` sees to: the root and the directories are
clean paths, those but `Outside` under the root, the host's files outside of it, and
nothing inside has the name that `os.MkdirTemp` made up for the root itself.

### The root, packages and archives

`Overlay`: `tree` is the set of entries under the root, `op[t]` the shim call a
task is executing and its next step. A task is the script, a subshell or a
background job; a job outlives its command and, if the sandbox is reset, keeps
the manifest it was started with (`old`). A pip install is the child, which
writes its entries one by one and may fail or be killed after any of them, and the
record of the name that was asked for; an uninstall removes the entries that match the name, one by one, where a removal may
fail without a word, and then forgets. `Brings` are the entries an install puts into the target, its
dependencies' among them, and `Matches` those whose names `pip.go:125-129` takes for the package's: any two sets
for each package, so that a package may have entries no uninstall finds (its `.dist-info`, a module of
another name), share them with others, or take what another brought. An apt install looks up the mutex
of the archive directory, locks it, downloads, lists the `.deb` files, extracts them one by
one (each may fail with a warning only), records and unlocks. `ExternalChange` is any other
command. A failed extraction may be a warning or, for a `.deb` that ends early, nothing at all
(`apt.go:162-165`). `rough` is a history
variable as in the tracker: the entries that overlapping calls, failed calls,
links or other commands changed.

`kind` says what a user file is to the code that walks, empties and fills the root: an
absolute link under the root (`link`) or one that leads out of it (`wayout`), a name at the
root that begins with two dots (`dotdot`), a fifo, a file that cannot be opened (`shut`), one in a
directory that cannot be listed (`hidden`) or changed (`sealed`). A file keeps its kind during a process.
The last three are for a user who is not root; for root they are plain files, as
the packages' entries are.

`Checkpoint` has one call under way, `cp`: a snapshot visits the places of
`TarOrder` one by one and then writes the file: it takes what it can copy (`Copied`), leaves out without an error
what leads out of the root or cannot be listed (`Skipped`), fails at what cannot be opened and
blocks at a fifo. A restore wipes the root entry by
entry, which may fail at what cannot be removed (`Stays`), and fills it, which may fail for a rejected
entry or below a directory that was made with its saved mode. `archive` is the file, which another sandbox may have made (`own`)
or a signal or failed write may have cut short (`cut`). `touched` are the entries
others changed or were busy with during the call.

`PythonCache`: callers of `FetchPythonWASM`, in one process or several, read the
cache file, download, truncate, write.

### Terminal and command line

`Terminal`: one action is one message handled by `Update`, or one step of a command's
goroutine or of the listener. Log entries are numbered as they are made. After
`Quit` only the goroutines that are left move. `CommandLine` composes: `app` is the
subcommand, `at` where the main goroutine is. `Command` chooses any external
command of `HandlerChain` and does what its handler does; `Task` moves
the calls on, also between commands and during snapshots and restores; `Killed`
is a signal at a command or an archive, `Close` the removal of the temp
directory, which may give up when a job writes into it or an entry cannot be removed (`Removable`). `embed` is a program that
runs commands and archives in two goroutines, `fetch` one that only fetches the runtime.

## Runs

| Run | Checks | Instance |
|---|---|---|
| `pool_all` | accounting, bound, exclusive and ready leases, no waste, refinement, `Close` returns, evictor ends | 3 clients, 2 sandboxes, `MaxSize` 2, `MinSize` 1, eviction, failures and cancellation on |
| `pool_waiters` | every `Acquire` returns | as above without eviction, failures, cancellation; clients may close their sandbox; `MinSize` 5 is clamped |
| `pool_lost_wakeup` | the same with eviction: **violated** | 1 client, `MaxSize` 1 |
| `pool_close_leak` | a closed pool is empty: **violated** | 3 clients |
| `session` | types, the host's view, names mean one place, refinement of `PersistentShell`, `Reset` | 1 name of the initial environment, 1 session name, 2 values, 3 directories and one above the root, 2 runs between resets of 2 statements; a root of two names, 21 names to resolve |
| `session_reset` | `Reset` restores: **violated** | a `WorkDir` outside the skeleton and a base image |
| `session_functions` | functions persist: **violated** | 2 runs of 1 statement |
| `session_cd` | `cd` of a virtual absolute name finds a directory that is there: **violated** | 1 run of 1 statement |
| `exec` | the cap is exact, kills have a cause, cancellation ends the command or the kill was lost | cap 3, chunks of 1 and 2, 6 bytes |
| `exec_kill` | cancellation ends the command: **violated** | cap 1 |
| `tracker` | the report is exact for files only the run's calls changed and no tree took along; nothing falls out of it | 2 directories with a file each: 2 tasks, resets and untracked changes on the files, or 1 task on all four paths with at most 2 of them in the report |
| `cli` | the archive lock, what apt records was extracted, what pip records and the target agree, faithful archives, the terminal, clean exits, installs reach the shims, every call and prompt returns | every subcommand; 2 tasks, 1 pip package and the dependency it brings, 1 apt package of 2 `.deb` files, 1 user file of any kind, 2 prompt commands, 2 callers of the fetch |

Why the bounds are enough. With `MaxSize` 2 and three clients there is a client
that waits, one that holds and one that releases, next to the evictor and the
closer; the accounting and exclusion are proved for all sizes. Two runs of two
statements are enough for a variable to be set in one run, changed and unset
in the next, and for a cut run to lie between; `Reset` starts the count
again, so sessions are unbounded. Six bytes over a cap of three let each stream
be below, at and over the cap while the other is in the middle of a write.
A directory whose name begins with two dots, a name the host has, names that
climb and return, a real path and one of a sibling whose name begins with the root's are the cases `PathMap`
distinguishes; every
one is resolved from every directory, virtual or real, also from the one above the root.
Two files are what a rename needs, and two tasks let a call overlap every step of
another; two directories with a file each are what a rename of a directory needs. The constraint `Bounds` of `tracker` lets
either two tasks at the files (`TwoTasks`) or one at all paths with nothing untracked (`OneTask`), which a `Reset` lets go on without end; TLC checks
the states just outside the constraint too. The tasks are interchangeable and the properties are safety, so `TaskSymmetry` is sound.
The tracker's properties are proved for all numbers of both and any trees.
A package that brings another, and that other one, are the two ways in which packages share an entry. In `cli` the
bounds are `LogCap` 2, `MaxLog` 2 and `MaxJobs` 2, so that channel and panel are
full and a command is entered while the previous one's messages are on the way
(`MaxFiles` 0: a job makes at least one entry anyway); `MaxLines` 3, one line
each to save, change and restore; and `MaxCalls` 2, two calls that overlap.
A process whose interest lies elsewhere gets less of them: `restore` begins
with its lines used up except for the restore itself, `embed` with one left, and
`snapshot`, `embed` and `shell` have one call. `Varied` says which kinds the user file may have for each
program: all of them for `snapshot`, elsewhere those that its archives and its end tell apart. Other processes' downloads are
explored under `run` only, and a signal only while a command or an archive is
under way. All safety properties of this run that its parts state are proved
for any number of tasks, packages, files and callers.

## Fairness

- Pool: every goroutine that can run does (weak fairness per step). A blocked
  receive gets strong fairness because the Go runtime queues receivers and hands
  a sent value to the first; the evictor's `select` because Go chooses among
  ready cases at random. Clients return their leases; nothing makes a client call
  `Acquire`, cancel a context, or close the pool.
- Session: none, its properties are safety. Whether a run ends depends on the command in progress, which
  a kill may miss (`exec_kill`, a process that left its group, an open that blocks).
- Isolated execution: the goroutines run; the command's processes are not fair.
- Change tracker: none, its properties are safety.
- Command line: strong fairness of each task, because Go's mutex gives itself to a waiter in
  the end (its starvation mode) and a child ends by itself or is killed with its command's context, 30 seconds by default;
  weak fairness of the terminal's listener, of `Update` for the entry it brought, and
  of a command's goroutine. The user, signals and other processes do what they like, and a snapshot may never end (it blocks on a fifo).

## What the runs found

1. **Lost wakeup** (`pool_lost_wakeup`). `evictIdle` frees a slot without waking a
   caller that blocks in `Acquire`; it waits although the pool is empty and has room.
2. **Leak on close** (`pool_close_leak`). `Release` decides under the lock and sends
   after it; a `Close` in between leaves an open sandbox in the channel for ever.
3. **Reset loses the working directory and the base image** (`session_reset`).
   `Reset` clears the root and recreates only the skeleton.
4. **A cancelled run wipes the functions** (`session_functions`). `syncFrom` replaces
   the function table even if the preamble was never executed.
5. **The kill can be lost** (`exec_kill`). If the output exceeds the cap before the pid is
   stored, the one-shot kill is spent on pid 0; the timeout then kills nothing.
6. **`cd` does not find absolute names** (`session_cd`). The call hook is asked for functions too and makes the real
   path of an absolute argument the host does not have (`intercept/callhook.go:70-80`), and the `cd()` shim puts the root before it
   once more (`executor/shell.go:346`): `s.Run("cd /workspace && ...")` of the repository's README (line 57)
   fails on a host without that directory. `SessionNamesExactly` says when it works.

Met while modelling and left standing by the properties above, which say as much as the code allows:

- **`unset` does not last** for names of the base environment: the branches for unset entries in `effectiveEnv` and
  `ExtractState` (`executor/shell.go:252-253`, `302-303`) are dead, because `syncFrom` deletes such entries. `PersistentShellSpec` and `StateMirrorsShell`
  speak of the other names; `SessionUnsetExactly` says what becomes of each.
- **Variables outlive their run**, exported or not, though `executor/shell.go:42-43` and `shell_test.go:105-106` scope
  those that are not exported to one run; the preamble assigns them again (`shell.go:354-365`). `PersistentShell`
  allows both; `SessionKeepsVariables` says how completely the code keeps them.
- **The report misses what a tree takes along.** `RemoveAll` and `Rename` of a directory record their
  paths and nothing of the files below (`fs/tracker.go:118`, `129-132`). `ReportExact` leaves these files out (`swept`).
- **An uninstall leaves the `.dist-info`.** The dashes of an entry's name are replaced before it is compared with a
  prefix that ends in one (`packages/pip.go:125-128`), though the comment at 122 names what it is meant to find. `ManifestAgrees` promises of a forgotten package only
  that what `Matches` is gone.
- **Dependencies are not tracked.** The manifest has the names on the command line only (`packages/pip.go:103-107`), though
  the repository's README (line 336) says that installed packages are tracked.
- **A sandbox may fail to restore its own snapshot**: below a directory whose mode forbids
  changes `RemoveAll` fails half-way through the wipe (`fs/snapshot.go:110`), or the file is not created (135, 159); a name
  at the root that begins with two dots is refused (129) after the root has been wiped. `RestoredFaithful` speaks of restores
  without an error, `CheckpointPartRestored` of the others.

Met while reading, without a run:
`README.md:372` says snapshots include shell state, but only files are saved;
`README.md:280` says the tracker diffs the overlay, but it records only what goes
through it, and nothing in the run path calls its `Remove`, so `FilesDeleted` stays empty;
`Reset` and `WriteFile` after `Close` create the temp directory again. The tracker
records a write before it happens, so an open that fails is reported all the same, and
a rename over a file lists that file as created; a `RemoveAll` that fails half-way records nothing.
`Restore` of `fs/snapshot.go` wipes the root
before it reads the archive, so an archive it rejects half way leaves a partial tree.
`navigateHistory` of `tui/terminal_panel.go` moves to the older entries on Down, not on Up:
a second Up leaves the history again.

Also met while reading, of the components modelled last:

- `cd` with a relative name may leave the root (`executor/shell.go:347`); the next run starts where it led, and
  the host is shown its real path.
- `cd -` sets `PWD` to the old value of `OLDPWD` and may leave `OLDPWD` naming a real path.
- A child process sees the host's file for an absolute name the host has, while `cat`, tests and
  redirections see the sandbox's. A relative name that climbs above the root means
  one place to the host's `ReadFile` and another to the shell. An absolute virtual name that begins with the
  root's string without being below it is left as it is (`intercept/callhook.go:74`).
- `RealToVirtual` returns the real path of a place in the root whose name begins with two dots
  (`pathmap.go:33`), though its comment (25) says so only of paths not under the root.
- `UploadTar` accepts the names with two dots that `Restore` refuses. An absolute link inside the root is saved with its real
  path, so that an archive with one cannot be restored in another sandbox. A link that leads
  out of the root, as a virtual environment's `python`, is left out of a snapshot without an error, and so
  is what cannot be listed.
- `pip uninstall` compares names: an entry under another name than its package (PyYAML's `yaml`) stays, and the
  package is forgotten all the same; the manifest distinguishes names by case, the target's removal does not.
- A `.deb` that ends early is extracted without an error and recorded (`packages/apt.go:162-165`).
- An archive file that was cut off between two entries restores without an error. A fifo
  under the root blocks a snapshot for ever (`fs/snapshot.go:79`).
- `run` leaves its temp directory behind, because `os.Exit` skips the deferred `Close`;
  `ctrl+c` at the prompt of the REPL ends it. `Close` leaves a part of it if an entry cannot be removed.
- `apt-get -y install` and `pip -q install` pass by the shims, which look at the first argument only.
- `Restore` of a snapshot leaves the manifest alone; `Manifest.Clone` and `Restore` are not called by anything.
- A file of the Python runtime that was cut off in the cache is handed out from then on (`packages/python_fetch.go:48`).

## What is proved

`PoolProofs`, for any finite set of clients, any set of sandboxes and any
options, under `ConstantsAssumption` of `Pool` only (which `pool_all` evaluates):

- `PoolTypeCorrect`, `PoolSizeAccounts`, `PoolNothingWasted`, `PoolExclusiveLease`,
  `PoolLeaseReady`, `PoolLiveBounded`: the invariants of `pool_all`.
- `PoolRefinesLease`: the pool implements `SandboxLease` if clients do not close what
  they lease.
- `PoolStaysSealed`: how far `ClosedPoolIsEmpty`, which `pool_close_leak` refutes, holds.
  Once the channel is empty, the evictor has nothing set aside and no send that was decided before the close is
  under way, nothing enters a closed pool any more.
- `PoolCloseDrains`: what `Close` may still find never grows, and each round of its loop takes one away.
- `PoolNoWaiterStranded`, without eviction and failures of `New`: a client that waits in
  `Acquire` waits for a sandbox that is idle, held or on its way. Both hypotheses are needed, as `pool_lost_wakeup` shows of the first.

The argument. Types need one thing more (`TypeInv`): a goroutine at a point
where it owns a sandbox has one in its local variable (`OwnersHaveSandbox`).
The accounting `size = Len(pool) + Len(keep) + |Slots|` is inductive together
with two facts about the program's phases (`CountInv`): nothing runs before
`NewPool` has returned, and the evictor's list is empty outside `evictIdle`.
Each step then moves one unit between the channel, the evictor's list and the
goroutines at slot points. From it follows `NothingWasted`: a goroutine that has
a sandbox in hand occupies one of the at most `MaxSize` units, so the channel
has room for it, and the full-channel branches are dead. `ExclusiveLease` alone
is not inductive, because a step that makes a new sandbox must know that it is
in none of the places; `PlaceInv` adds `OpenPlaced`: every open sandbox is in
use somewhere and, unless clients close their own, everything in use is open.
The bound on live sandboxes is then a count of places.

`SessionProofs`, for any names, values, functions, directories, initial
environment and bounds, under `ShellAssumption`, `EntryAssumption` and
`SessionAssumption`, for names and places also `PathsAssumption` (all of which `session` evaluates):

- `SessionTypeCorrect`: `TypeOK`.
- `HostSeesShell`: `StateMirrorsShell`.
- `SessionImplementsShell`: every behaviour of the session is one of
  `PersistentShell`.
- `SessionNamesAgree`: `NamesAgree`, for any root, directories, names and files of the host, the
  working directory inside the root or not; `SessionNamesExactly`: a child misses the place of a name exactly when the call hook
  leaves a virtual name alone, and exactly then `cd` finds an absolute one;
  `PlacesRoundTrip`: a directory's real path made virtual and real again is the same.
- `SessionKeepsVariables`: the next command finds every variable the last one left, exported or not, but arrays and what `Kept` drops.
- `ResetRestoresExactly`: `Reset` restores the shell of `New` always, and its files
  exactly when `New` creates nothing outside the skeleton (`SkeletonIsAll`); under that hypothesis,
  which the default options satisfy, `SessionResetRestores` is the property of `session`.
- `SessionUnsetExactly` and `SessionFunctionsOnlyLost`: how far the comment at `shell.go:252-253` and what
  `session_functions` refutes hold. A variable that was unset is gone, or back at its value of the initial
  environment if it has one; only an executed command, `Reset` and a run cut off in
  its preamble change the functions, and the last adds none.

The argument. A run is counted when it ends, so the type of `history` needs
`RoomInHistory`. `VisibleKept` is the centre: for a name that is not in the
initial environment, what a new interpreter has after the preamble is exactly
`Kept` of the entry in `e.vars`, by cases on the entry's attributes; and
keeping twice keeps the same (`KeptTwice`). `HostView` (the base environment is
the initial one, the host's copies are what `ExtractState` would return now) is
inductive and gives `StateMirrorsShell`. The refinement needs `RunInv` about the
run under way: in the preamble the interpreter is still in the shell's
directory; in the command, a name the interpreter does not list is one the
shell could not keep; after a cut preamble, each variable is absent or is the
one the shell has. With it the end of a command maps to `Finish`, the end of a
cut run to a stutter, and the preamble to `Start`.

For `NamesAgree`, a path is cleaned by `Walk`, a recursive function of the number of names
taken. What it yields for any path needs induction, and the library's theorems of it
take an operator. `SetInduction` states it of a set instead, which is a value: a set that holds 0 and with each
number the next one holds all numbers. Its proof is the pigeonhole principle (`FS_PigeonHole`): if k were
missing, adding one would map the members up to k into themselves without 0, two to the same. With it two walks stay in step
as long as the places agree (with the root in front, or without), a walk that does not
leave the root is the walk from inside it, and a clean path is where it leads. The types then bring in the session: every
directory it can be in is one of `Dirs`; and `StateMirrorsShell` gives the host's copy of it.
The proof attempt corrected the property: as first
written, `StaysInside` counted a real path among the names that stay inside although it climbed above
the root on its way, and there the parts of the program do not agree.

`ChangeTrackerProofs`, for any files, directories and tasks, under `TrackerAssumption` and `TreesAssumption` (what lies below a path lies
below what that lies below; both are evaluated by `tracker`): `TrackerTypeCorrect`, `TrackerReportExact` and `TrackerNothingForgotten`.

The argument. `ReportExact` says nothing of files a call is busy with, so it is
not inductive. `TrackerInv` says for every file that is neither rough nor swept how far the
calls under way explain the difference between report and disk
(`FileReported`), that what a call has seen or done still holds when it takes
its next step (`CallCurrent`: a file that was seen is still there, a file about to
be written is already in the report), and, since the second would fail if a
removal overlapped another call, that no such overlap exists (`Alone`). When no
call is busy with the file, `FileReported` is `ReportExact`.

`ExecProofs`, for any cap, chunks and streams, under `ExecAssumption`:
`ExecTypeCorrect`, `ExecOutputCapped`, `ExecKilledForCause`, `ExecLostOnlyByCap`.
The argument. `ExecInv` adds to the properties what holds of goroutines that
have not started (`Fresh`), that the shared counter is what the copying goroutines were given,
each of them once (`Counting`: a chunk's share of the cap follows from the value its own addition returned, not from
the counter, which others move), that the pid is known once the watcher
runs (`PidKnown`), and why a watcher is about to kill (`WatcherCause`). Only the cap can
then come before the pid.

Three more say what the finding of `exec_kill` leaves standing. `ExecLostWindow`: the kill can be lost only
between the command's start and the store of its pid. `ExecKillReaches`: a kill that
was sent leaves no process and no writer, a watcher that has ended while the handler waits has killed,
and so has an output over the cap once no copying goroutine is on its way to it.
`ExecSurvivorsQuiet`: a process that outlives the handler no longer holds the pipes, unless the kill was
lost or both receivers of the output failed. They need the order of start, store and kill (`KillOrder`) and that a copying goroutine
ends only when nobody writes any more, when its receiver failed, or at the cap, where it has killed (`PipesDrained`).

`OverlayProofs`, for any tasks, packages, files and needs, under `OverlayAssumption`:
`OverlayTypeCorrect`, `OverlayLockExclusive`, `OverlayRecordedExtracted`, `OverlayManifestAgrees`.
The argument. `LockInv`: there is one mutex for the archive directory once anybody has
looked it up, and two tasks after the lock would have locked it twice.
`ExtractInv` says how far each call has come with the files its package needs: still to be downloaded or
in the archive, which loses none, then still to be extracted or in the root. `AgreeInv` speaks of one entry of the target and one package at a time: if the entry is not rough, at most one call is about it
(`Alone`), and for a package that keeps it (`Kept`: no uninstall of another package takes it) or owns it alone (`Sole`: no install of another package
brings it), manifest and target agree on it up to what the call under way has still to do (`KeptStages`, `SoleStages`). What packages share otherwise is
not promised, because the code does not keep it (see above).
`OverlayLockReturned`: a mutex is locked only for a call that has still to unlock it.
`OverlayCallsWindDown`: each step of a call goes to a later kind of step or leaves fewer entries to handle
(`Nearer`), and no other call takes it back.

`CheckpointProofs`, under the same and `CheckpointAssumption`: `CheckpointSavedFaithful`,
`CheckpointRestoredFaithful`, and `CheckpointPartRestored`: at each point of the refill, and so
after a rejected entry, an archive that ends too early or a signal, the root holds exactly the entries
before that point. The argument. `CpInv` speaks of the places the walk has passed: up to what
others touched, what was taken is what of the root can be copied, and what was passed over is what the walk
skips (`Held`, in `Walked` and `ToSave`; a file that cannot be opened or a fifo would have ended the walk), the root is empty of
what was wiped and could be (`Wiped`), and holds of what was filled what the archive holds (`Filled`). `RootInv` joins it with the types.

`TerminalProofs`, for any commands and capacities, under `TerminalAssumption`:
`TerminalTypeCorrect`, `TerminalOneRun`, `TerminalPromptShown`, `TerminalLogInOrder`,
`TerminalWorkWindsDown`.
The argument. `PromptShown` needs that a command under way has the index at -1
(`RunInv`), because its end clears the input. The log's order is a statement about the
concatenation of panel, entry on its way and channel: increasing, and complete up to what was given up.
`Work` counts the steps a command has left and what its log entries have still to go; only `Enter` adds to it.

`CommandLineProofs`, for any values of the constants under the assumptions above,
`CacheAssumption` and `CommandLineAssumption`: every behaviour of a process is one of
`OverlaySpec`, `TerminalSpec` and `CacheSpec` (`ProcessImplementsOverlay`,
`ProcessImplementsTerminal`, `ProcessImplementsCache`), so that what is proved of
the parts holds of the whole (`ProcessSafe`); with signals, which `CheckpointSpec` does not have,
the archives' properties are proved again from the same invariant (`ProcessArchives`, `ProcessPartRestored`); and
`CachePartOnlyIfCut`, `ProcessInstallsShimmed`, `ProcessCleanExit`,
`ProcessTypeCorrect`. `PlaceInv` relates where the main goroutine is to the subcommand.

Only model-checked: everything temporal that needs fairness (`AcquireReturns`,
`CloseReturns`, `EvictorEnds`, `CancelReturnsOrLost`, `CallsReturn`, `LogShown`,
`PromptReturns`), which is out of the prover's reach. For most of them a theorem states the part that is
not about time: that there is something to wait for (`PoolNoWaiterStranded` of `AcquireReturns`,
`OverlayLockReturned` of `CallsReturn`, `ExecKillReaches` of `CancelReturnsOrLost`), or that a number which cannot fall for ever falls
with each step and does not rise (`PoolCloseDrains` of `CloseReturns`, `OverlayCallsWindDown` of
`CallsReturn`, `TerminalWorkWindsDown` of `PromptReturns` and `LogShown`). All invariants and action
properties of the passing runs are proved.

## Not modelled

The native executor (one process per call, no state; kept as a fallback); the network filter, Landlock, namespaces and cgroup
files (kernel configuration without state of its own); the memory file system,
`openat2` and the containment errors of `fs`; what the interceptors print (only `ln` changes the root); the formats of archives and packages and the parsing
of arguments; the read-only calls of the tracker; the layout, scrolling and
rendering of the terminal; the sandbox's state that the status bar
reads (`tui/model.go:195`) while a command's goroutine writes it, a data race over a text only; `Manifest.Clone` and
`Restore`, `IsEscaping`, which nothing calls; the contents of files,
wording and formatting; concurrent `RunContext` calls on one sandbox, except for what they do to the tracker.

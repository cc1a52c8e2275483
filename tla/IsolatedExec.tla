------------------------------ MODULE IsolatedExec ------------------------------
(***************************************************************************)
(* One external command run by NewIsolatedExecHandler of                   *)
(* isolation/exechandler.go: the handler's goroutine, the two goroutines   *)
(* of os/exec that copy the command's output through the limit writers of  *)
(* internal/limitwriter, the goroutine that watches the context, and the   *)
(* command's processes.                                                    *)
(***************************************************************************)
EXTENDS Integers, FiniteSets

CONSTANTS
    Cap,          \* limits.MaxOutputBytes; 0: no cap
    Chunks,       \* sizes of the writes of the command
    MaxOutput,    \* bound: bytes the command writes
    HasCgroup     \* limits.CgroupManager is available

Streams == {"out", "err"}
Processes == {"leader", "child"}

ASSUME ExecAssumption ==
    /\ Cap \in Nat
    /\ Chunks \subseteq Nat \ {0}
    /\ MaxOutput \in Nat
    /\ HasCgroup \in BOOLEAN

VARIABLES
    handler,    \* where the handler's goroutine is
    pidStored,  \* pidStore holds the pid
    killed,     \* killOnce: "no", or it has run and signalled the group ("sent") or nobody ("lost")
    limitHit,   \* metrics.LimitHit
    cgroup,     \* the cgroup's life
    ctxDone,    \* the context is done
    watcher,    \* where the watching goroutine is
    alive,      \* processes of the command's group
    writers,    \* those of them that have the output pipes open
    pipe,       \* the chunk in each pipe, 0 for none
    emitted,    \* bytes the command has written
    copier,     \* where each copying goroutine is
    size,       \* the chunk it is writing
    after,      \* the counter's value it got
    counter,    \* the writers' shared counter
    limitOnce,  \* the writers' shared once has run
    forwarded   \* bytes handed to the handler's stdout and stderr, whatever they take of them

proc  == <<alive, writers, emitted>>
out   == <<pipe, copier, size, after, counter, limitOnce, forwarded>>
kill  == <<pidStored, killed, limitHit>>
execVars == <<handler, kill, cgroup, ctxDone, watcher, proc, out>>

(* io.Copy has returned: at the end of the output, at the cap, or for the writer behind it. *)
Ended(s) == copier[s] \in {"end", "failed"}

Init ==
    /\ handler = "start"
    /\ pidStored = FALSE /\ killed = "no" /\ limitHit = FALSE
    /\ cgroup = "none"
    /\ ctxDone \in BOOLEAN
    /\ watcher = "none"
    /\ alive = {} /\ writers = {}
    /\ pipe = [s \in Streams |-> 0]
    /\ emitted = 0
    /\ copier = [s \in Streams |-> "none"]
    /\ size = [s \in Streams |-> 0]
    /\ after = [s \in Streams |-> 0]
    /\ counter = 0
    /\ limitOnce = FALSE
    /\ forwarded = 0

-----------------------------------------------------------------------------
(* The handler's goroutine. *)

(* The command is not found, or Wrap, the network filter or Start fails. *)
StartFail ==
    /\ handler = "start"
    /\ handler' = "done"
    /\ UNCHANGED <<kill, cgroup, ctxDone, watcher, proc, out>>

(* cmd.Start: the process runs, and so do the copying goroutines. *)
Start ==
    /\ handler = "start"
    /\ handler' = "started"
    /\ alive' = {"leader"} /\ writers' = {"leader"}
    /\ copier' = [s \in Streams |-> "read"]
    /\ UNCHANGED <<kill, cgroup, ctxDone, watcher, emitted,
                   pipe, size, after, counter, limitOnce, forwarded>>

(* Mutation: the pid is not recorded before the context is watched. *)
StorePidForgotten ==
    /\ handler = "started"
    /\ handler' = "cgroup"
    /\ UNCHANGED <<kill, cgroup, ctxDone, watcher, proc, out>>

StorePid ==
    /\ handler = "started"
    /\ pidStored' = TRUE
    /\ handler' = "cgroup"
    /\ UNCHANGED <<killed, limitHit, cgroup, ctxDone, watcher, proc, out>>

(* Creating the cgroup may fail; the command then runs without one. *)
MakeCgroup ==
    /\ handler = "cgroup"
    /\ cgroup' \in IF HasCgroup THEN {"none", "live"} ELSE {"none"}
    /\ handler' = "watch"
    /\ UNCHANGED <<kill, ctxDone, watcher, proc, out>>

Watch ==
    /\ handler = "watch"
    /\ watcher' = "select"
    /\ handler' = "wait"
    /\ UNCHANGED <<kill, cgroup, ctxDone, proc, out>>

(* cmd.Wait: the leader has exited and both copying goroutines have ended. *)
Wait ==
    /\ handler = "wait"
    /\ "leader" \notin alive
    /\ \A s \in Streams : Ended(s)
    /\ handler' = "stop"
    /\ UNCHANGED <<kill, cgroup, ctxDone, watcher, proc, out>>

(* cg.Stop, metrics.record, and the deferred close(waitDone). *)
Stop ==
    /\ handler = "stop"
    /\ cgroup' = IF cgroup = "live" THEN "removed" ELSE cgroup
    /\ handler' = "done"
    /\ UNCHANGED <<kill, ctxDone, watcher, proc, out>>

-----------------------------------------------------------------------------
(* Mutation: the kill reaches the leader alone. *)
KillFnLeaderOnly ==
    /\ killed' = IF killed # "no" THEN killed ELSE IF pidStored THEN "sent" ELSE "lost"
    /\ limitHit' = TRUE
    /\ alive' = IF killed = "no" /\ pidStored THEN alive \ {"leader"} ELSE alive
    /\ writers' = writers \cap alive'
    /\ UNCHANGED pidStored

(* killFn: once, and only if the pid is known by then. *)
KillFn ==
    /\ killed' = IF killed # "no" THEN killed ELSE IF pidStored THEN "sent" ELSE "lost"
    /\ limitHit' = TRUE
    /\ alive' = IF killed = "no" /\ pidStored THEN {} ELSE alive
    /\ writers' = writers \cap alive'
    /\ UNCHANGED pidStored

(* The watching goroutine picks any ready case of its select. *)
WatcherCancelled ==
    /\ watcher = "select"
    /\ ctxDone
    /\ watcher' = "kill"
    /\ UNCHANGED <<handler, kill, cgroup, ctxDone, proc, out>>

WatcherKill ==
    /\ watcher = "kill"
    /\ KillFn
    /\ watcher' = "end"
    /\ UNCHANGED <<handler, cgroup, ctxDone, emitted, out>>

WatcherDone ==
    /\ watcher = "select"
    /\ handler = "done"
    /\ watcher' = "end"
    /\ UNCHANGED <<handler, kill, cgroup, ctxDone, proc, out>>

-----------------------------------------------------------------------------
(* A copying goroutine: io.Copy from the pipe to a limit writer. *)

GoCopy(s, l) == copier' = [copier EXCEPT ![s] = l]

(* Mutations: each stream has a counter of its own; reaching the cap counts as exceeding it. *)
CountOwn(s) ==
    /\ copier[s] = "read"
    /\ pipe[s] # 0
    /\ counter' = counter + pipe[s]
    /\ size' = [size EXCEPT ![s] = pipe[s]]
    /\ after' = [after EXCEPT ![s] = @ + pipe[s]]
    /\ pipe' = [pipe EXCEPT ![s] = 0]
    /\ GoCopy(s, IF Cap > 0 /\ after[s] + pipe[s] > Cap THEN "limit" ELSE "write")
    /\ UNCHANGED <<handler, kill, cgroup, ctxDone, watcher, proc, limitOnce, forwarded>>
CountAtCap(s) ==
    /\ copier[s] = "read"
    /\ pipe[s] # 0
    /\ counter' = counter + pipe[s]
    /\ size' = [size EXCEPT ![s] = pipe[s]]
    /\ after' = [after EXCEPT ![s] = counter + pipe[s]]
    /\ pipe' = [pipe EXCEPT ![s] = 0]
    /\ GoCopy(s, IF Cap > 0 /\ counter + pipe[s] >= Cap THEN "limit" ELSE "write")
    /\ UNCHANGED <<handler, kill, cgroup, ctxDone, watcher, proc, limitOnce, forwarded>>

(* Read a chunk and add it to the shared counter. *)
Count(s) ==
    /\ copier[s] = "read"
    /\ pipe[s] # 0
    /\ counter' = counter + pipe[s]
    /\ size' = [size EXCEPT ![s] = pipe[s]]
    /\ after' = [after EXCEPT ![s] = counter + pipe[s]]
    /\ pipe' = [pipe EXCEPT ![s] = 0]
    /\ GoCopy(s, IF Cap > 0 /\ counter + pipe[s] > Cap THEN "limit" ELSE "write")
    /\ UNCHANGED <<handler, kill, cgroup, ctxDone, watcher, proc, limitOnce, forwarded>>

(* Over the cap: the shared once calls killFn. *)
OnLimit(s) ==
    /\ copier[s] = "limit"
    /\ limitOnce' = TRUE
    /\ IF limitOnce THEN UNCHANGED <<kill, alive, writers>> ELSE KillFn
    /\ GoCopy(s, "fit")
    /\ UNCHANGED <<handler, cgroup, ctxDone, watcher, emitted,
                   pipe, size, after, counter, forwarded>>

(* Mutation: what fits is reckoned from the end of the chunk. *)
FitFromEnd(s) ==
    /\ copier[s] = "fit"
    /\ forwarded' = forwarded + Cap - after[s]
    /\ GoCopy(s, "end")
    /\ UNCHANGED <<handler, kill, cgroup, ctxDone, watcher, proc,
                   pipe, size, after, counter, limitOnce>>

(* Pass on what fits, report the error; io.Copy ends and the pipe is closed. *)
Fit(s) ==
    /\ copier[s] = "fit"
    /\ LET fits == Cap - (after[s] - size[s])
       IN  forwarded' = IF fits > 0 THEN forwarded + fits ELSE forwarded
    /\ GoCopy(s, "end")
    /\ UNCHANGED <<handler, kill, cgroup, ctxDone, watcher, proc,
                   pipe, size, after, counter, limitOnce>>

(* The writer behind it may fail or take less, a closed pipe for one: io.Copy then ends. *)
Forward(s) ==
    /\ copier[s] = "write"
    /\ forwarded' = forwarded + size[s]
    /\ GoCopy(s, "read") \/ GoCopy(s, "failed")
    /\ UNCHANGED <<handler, kill, cgroup, ctxDone, watcher, proc,
                   pipe, size, after, counter, limitOnce>>

Eof(s) ==
    /\ copier[s] = "read"
    /\ pipe[s] = 0
    /\ writers = {}
    /\ GoCopy(s, "end")
    /\ UNCHANGED <<handler, kill, cgroup, ctxDone, watcher, proc,
                   pipe, size, after, counter, limitOnce, forwarded>>

Copy(s) == Count(s) \/ OnLimit(s) \/ Fit(s) \/ Forward(s) \/ Eof(s)

-----------------------------------------------------------------------------
(* The command's processes, and the context's owner. *)

Emit(p, s) ==
    /\ p \in alive \cap writers
    /\ pipe[s] = 0
    /\ ~Ended(s)
    /\ \E n \in Chunks :
          /\ emitted + n <= MaxOutput
          /\ pipe' = [pipe EXCEPT ![s] = n]
          /\ emitted' = emitted + n
    /\ UNCHANGED <<handler, kill, cgroup, ctxDone, watcher, alive, writers,
                   copier, size, after, counter, limitOnce, forwarded>>

(* The process ends by itself, or by SIGPIPE when it writes to a closed pipe. *)
Exit(p) ==
    /\ p \in alive
    /\ alive' = alive \ {p}
    /\ writers' = writers \ {p}
    /\ UNCHANGED <<handler, kill, cgroup, ctxDone, watcher, emitted, out>>

(* The child stays in the group; one that leaves it, with setsid, is left out. *)
Fork ==
    /\ alive = {"leader"}
    /\ alive' = Processes
    /\ writers' = IF "leader" \in writers THEN Processes ELSE writers
    /\ UNCHANGED <<handler, kill, cgroup, ctxDone, watcher, emitted, out>>

(* A process redirects its output away from the pipes. *)
Detach(p) ==
    /\ p \in writers
    /\ writers' = writers \ {p}
    /\ UNCHANGED <<handler, kill, cgroup, ctxDone, watcher, alive, emitted, out>>

CtxExpire ==
    /\ ~ctxDone
    /\ ctxDone' = TRUE
    /\ UNCHANGED <<handler, kill, cgroup, watcher, proc, out>>

Next ==
    \/ StartFail \/ Start \/ StorePid \/ MakeCgroup \/ Watch \/ Wait \/ Stop
    \/ WatcherCancelled \/ WatcherKill \/ WatcherDone
    \/ \E s \in Streams : Copy(s)
    \/ \E p \in Processes, s \in Streams : Emit(p, s)
    \/ \E p \in Processes : Exit(p) \/ Detach(p)
    \/ Fork
    \/ CtxExpire

Spec == Init /\ [][Next]_execVars

(***************************************************************************)
(* Goroutines that can run do run.  Nothing makes the command exit, write  *)
(* or close its output: a command may run for ever.                        *)
(***************************************************************************)
Fairness ==
    /\ WF_execVars(StartFail \/ Start) /\ WF_execVars(StorePid)
    /\ WF_execVars(MakeCgroup) /\ WF_execVars(Watch)
    /\ WF_execVars(Wait) /\ WF_execVars(Stop)
    /\ WF_execVars(WatcherCancelled \/ WatcherDone) /\ WF_execVars(WatcherKill)
    /\ \A s \in Streams : WF_execVars(Copy(s))

FairSpec == Spec /\ Fairness

-----------------------------------------------------------------------------
(* Properties. *)

(* Every variable has its type, and no process writes that is not alive. *)
TypeOK ==
    /\ handler \in {"start", "started", "cgroup", "watch", "wait", "stop", "done"}
    /\ pidStored \in BOOLEAN /\ killed \in {"no", "sent", "lost"} /\ limitHit \in BOOLEAN
    /\ cgroup \in {"none", "live", "removed"}
    /\ ctxDone \in BOOLEAN
    /\ watcher \in {"none", "select", "kill", "end"}
    /\ alive \subseteq Processes /\ writers \subseteq alive
    /\ pipe \in [Streams -> Chunks \cup {0}]
    /\ emitted \in Nat
    /\ copier \in [Streams -> {"none", "read", "limit", "fit", "write", "end", "failed"}]
    /\ size \in [Streams -> Nat]
    /\ after \in [Streams -> Nat]
    /\ counter \in Nat
    /\ limitOnce \in BOOLEAN
    /\ forwarded \in Nat

(***************************************************************************)
(* The cap is on "combined stdout+stderr": however the two copying         *)
(* goroutines interleave, and whichever the writers behind them fail, no   *)
(* byte beyond it is handed on, and when neither goroutine is in the       *)
(* middle of a write, every byte below it that was read has been.          *)
(***************************************************************************)
OutputCapped ==
    Cap > 0 =>
        /\ forwarded <= Cap
        /\ (\A s \in Streams : copier[s] \in {"none", "read"} \/ Ended(s))
              => forwarded = IF counter <= Cap THEN counter ELSE Cap

(***************************************************************************)
(* A command is killed only for a reason: its output is over the cap, or   *)
(* its context is done.  A short command that ends in time is never cut.   *)
(***************************************************************************)
KilledForCause == killed # "no" => (Cap > 0 /\ counter > Cap) \/ ctxDone

(***************************************************************************)
(* The context's kill always finds the pid: only a kill for the output cap *)
(* can come before the handler has recorded it and signal nobody.          *)
(***************************************************************************)
LostOnlyByCap == killed = "lost" => Cap > 0 /\ counter > Cap

(***************************************************************************)
(* "Kills the entire process group on context cancellation": once the      *)
(* context is done the handler returns, with the whole group dead or with  *)
(* a command that ended by itself - unless the kill was lost.              *)
(***************************************************************************)
CancelReturnsOrLost == ctxDone ~> (handler = "done" \/ killed = "lost")

(* The same without the exception. *)
CancelReturns == ctxDone ~> (handler = "done")

=============================================================================

-------------------------------- MODULE Terminal --------------------------------
(***************************************************************************)
(* The terminal UI: tui/model.go and its panels, and the log channel that  *)
(* main.go's tui command connects to the sandbox's callbacks.  One         *)
(* goroutine handles messages; a command runs in another one, and a third  *)
(* waits for a log entry.                                                  *)
(***************************************************************************)
EXTENDS Integers, Sequences

CONSTANTS
    Commands,  \* texts a user types
    NoText,    \* the empty input
    LogCap,    \* capacity of the log channel (256)
    MaxLog,    \* MaxLogEntries (1000)
    MaxJobs,   \* bound: commands entered
    MaxFiles   \* bound: files one command changes

ASSUME TerminalAssumption ==
    /\ NoText \notin Commands
    /\ LogCap \in Nat \ {0} /\ MaxLog \in Nat \ {0} /\ MaxJobs \in Nat /\ MaxFiles \in Nat

VARIABLES
    logCh,     \* the buffered channel: entries are numbered as they are made
    made,      \* how many entries were made
    dropped,   \* history: entries that found the channel full
    listener,  \* 0 while listenLogCh waits, else the entry it brings to Update; -1 when it is not running
    entries,   \* the log panel
    running,   \* m.running, and p.running of the terminal panel
    cancelRun, \* the command that m.cancelRun cancels, 0 for nil
    job,       \* what each command's goroutine is about to do
    history, historyIdx, input,  \* the prompt
    quit       \* the terminal's program has ended, or was never started

logVars    == <<logCh, made, dropped, listener, entries>>
promptVars == <<history, historyIdx, input>>
tvars      == <<logVars, running, cancelRun, job, promptVars, quit>>

Jobs == 1..MaxJobs

(* A command's goroutine: its phase, the log entries it has still to make in it, and *)
(* whether its context was cancelled.                                                 *)
NoJob     == [at |-> "none", left |-> 0, dead |-> FALSE]
JobStates == [at : {"begin", "exec", "result", "finished"}, left : 0..(MaxFiles + 1), dead : BOOLEAN]
                 \cup {NoJob}

TerminalInit ==
    /\ logCh = <<1>> /\ made = 1 /\ dropped = {}
    /\ listener = 0 /\ entries = <<>>
    /\ running = FALSE /\ cancelRun = 0
    /\ job = [j \in Jobs |-> NoJob]
    /\ history = <<>> /\ historyIdx = -1 /\ input = NoText
    /\ quit \in BOOLEAN

(* nonBlocking: an entry that finds the channel full is lost. *)
Emit ==
    /\ made' = made + 1
    /\ IF Len(logCh) < LogCap
       THEN logCh' = Append(logCh, made') /\ UNCHANGED dropped
       ELSE dropped' = dropped \cup {made'} /\ UNCHANGED logCh
    /\ UNCHANGED <<listener, entries>>

JobGoes(j, from, to, left) ==
    /\ job[j].at = from
    /\ job' = [job EXCEPT ![j].at = to, ![j].left = left]

-----------------------------------------------------------------------------
(* Keys. *)

Type ==
    /\ ~running /\ ~quit
    /\ input' \in Commands /\ historyIdx' = -1
    /\ UNCHANGED <<logVars, running, cancelRun, job, history, quit>>

(* Mutation: the index is not kept below the length of the history. *)
NavigateUnclamped(delta) ==
    /\ ~running /\ ~quit /\ history # <<>>
    /\ LET idx == IF historyIdx = -1 /\ delta = -1 THEN 0 ELSE historyIdx + delta
       IN  IF idx < 0
           THEN historyIdx' = -1 /\ input' = NoText
           ELSE historyIdx' = idx /\ UNCHANGED input
    /\ UNCHANGED <<logVars, running, cancelRun, job, history, quit>>

(* navigateHistory: -1 is the up key, 1 the down key. *)
Navigate(delta) ==
    /\ ~running /\ ~quit /\ history # <<>>
    /\ LET idx == IF historyIdx = -1 /\ delta = -1 THEN 0 ELSE historyIdx + delta
           top == IF idx >= Len(history) THEN Len(history) - 1 ELSE idx
       IN  IF idx < 0
           THEN historyIdx' = -1 /\ input' = NoText
           ELSE historyIdx' = top /\ input' = history[Len(history) - top]
    /\ UNCHANGED <<logVars, running, cancelRun, job, history, quit>>

(* Mutation: PushHistory leaves the index where it was. *)
EnterKeepsIndex ==
    /\ ~running /\ ~quit /\ input # NoText
    /\ \E j \in Jobs :
          /\ job[j].at = "none" /\ \A k \in 1..(j - 1) : job[k].at # "none"
          /\ job' = [job EXCEPT ![j] = [NoJob EXCEPT !.at = "begin"]]
          /\ cancelRun' = j
    /\ running' = TRUE
    /\ history' = Append(history, input)
    /\ UNCHANGED <<logVars, historyIdx, input, quit>>

(* Mutation: Enter does not look at the running flag. *)
EnterAnytime ==
    /\ ~quit /\ input # NoText
    /\ \E j \in Jobs :
          /\ job[j].at = "none" /\ \A k \in 1..(j - 1) : job[k].at # "none"
          /\ job' = [job EXCEPT ![j] = [NoJob EXCEPT !.at = "begin"]]
          /\ cancelRun' = j
    /\ running' = TRUE
    /\ history' = Append(history, input) /\ historyIdx' = -1
    /\ UNCHANGED <<logVars, input, quit>>

(* Enter: the input stays in the field until the command has finished. *)
Enter ==
    /\ ~running /\ ~quit /\ input # NoText
    /\ \E j \in Jobs :
          /\ job[j].at = "none" /\ \A k \in 1..(j - 1) : job[k].at # "none"
          /\ job' = [job EXCEPT ![j] = [NoJob EXCEPT !.at = "begin"]]
          /\ cancelRun' = j
    /\ running' = TRUE
    /\ history' = Append(history, input) /\ historyIdx' = -1
    /\ UNCHANGED <<logVars, input, quit>>

(* ctrl+c cancels the context of the command under way; without one it quits. *)
CtrlC ==
    /\ ~quit
    /\ IF running /\ cancelRun # 0
       THEN /\ job' = [job EXCEPT ![cancelRun].dead = TRUE]
            /\ UNCHANGED quit
       ELSE quit' = TRUE /\ UNCHANGED job
    /\ UNCHANGED <<logVars, running, cancelRun, promptVars>>

(* "exit" or "quit" at the prompt, or a signal at any time. *)
Quit ==
    /\ ~quit
    /\ quit' = TRUE
    /\ UNCHANGED <<logVars, running, cancelRun, job, promptVars>>

-----------------------------------------------------------------------------
(* A command: RunContext with its callbacks, in a goroutine of its own. *)

(* OnCommand. *)
JobBegin(j) ==
    /\ JobGoes(j, "begin", "exec", 0)
    /\ Emit
    /\ UNCHANGED <<running, cancelRun, promptVars, quit>>

(* The command ends: an error, which a cancelled context is, makes one log entry, a *)
(* result one and another for each file.                                             *)
JobExec(j) ==
    /\ \E n \in 1..(MaxFiles + 1) :
          /\ job[j].dead => n = 1
          /\ JobGoes(j, "exec", "result", n)
    /\ UNCHANGED <<logVars, running, cancelRun, promptVars, quit>>

JobResult(j) ==
    /\ job[j].left > 0
    /\ JobGoes(j, "result", "result", job[j].left - 1)
    /\ Emit
    /\ UNCHANGED <<running, cancelRun, promptVars, quit>>

(* Mutation: the running flag survives the command. *)
JobFinishedForgotten(j) ==
    /\ job[j].left = 0 /\ ~quit
    /\ JobGoes(j, "result", "finished", 0)
    /\ cancelRun' = 0 /\ input' = NoText
    /\ UNCHANGED <<logVars, running, history, historyIdx, quit>>

(* Update receives MsgCommandFinished. *)
JobFinished(j) ==
    /\ job[j].left = 0 /\ ~quit
    /\ JobGoes(j, "result", "finished", 0)
    /\ running' = FALSE /\ cancelRun' = 0 /\ input' = NoText
    /\ UNCHANGED <<logVars, history, historyIdx, quit>>

-----------------------------------------------------------------------------
(* The log. *)

(* Mutation: the newest entry makes room in a full channel. *)
ListenNewest ==
    /\ listener = 0 /\ logCh # <<>>
    /\ listener' = logCh[Len(logCh)] /\ logCh' = SubSeq(logCh, 1, Len(logCh) - 1)
    /\ UNCHANGED <<made, dropped, entries, running, cancelRun, job, promptVars, quit>>

Listen ==
    /\ listener = 0 /\ logCh # <<>>
    /\ listener' = Head(logCh) /\ logCh' = Tail(logCh)
    /\ UNCHANGED <<made, dropped, entries, running, cancelRun, job, promptVars, quit>>

(* Mutation: the listener is not started again. *)
ShowOnce ==
    /\ listener > 0 /\ ~quit
    /\ entries' = SubSeq(Append(entries, listener), IF Len(entries) = MaxLog THEN 2 ELSE 1, Len(entries) + 1)
    /\ listener' = -1
    /\ UNCHANGED <<logCh, made, dropped, running, cancelRun, job, promptVars, quit>>

(* Update receives MsgLogEntry: the panel keeps the newest, and the listener starts again. *)
Show ==
    /\ listener > 0 /\ ~quit
    /\ entries' = SubSeq(Append(entries, listener), IF Len(entries) = MaxLog THEN 2 ELSE 1, Len(entries) + 1)
    /\ listener' = 0
    /\ UNCHANGED <<logCh, made, dropped, running, cancelRun, job, promptVars, quit>>

JobStep(j) == JobBegin(j) \/ JobExec(j) \/ JobResult(j) \/ JobFinished(j)

Key == Type \/ Navigate(-1) \/ Navigate(1) \/ Enter \/ CtrlC \/ Quit

TerminalNext == Key \/ Listen \/ Show \/ \E j \in Jobs : JobStep(j)

TerminalSpec == TerminalInit /\ [][TerminalNext]_tvars

-----------------------------------------------------------------------------
(* Properties. *)

(* Every variable has its type; the history index stays within the history. *)
TerminalTypeOK ==
    /\ logCh \in Seq(1..made) /\ Len(logCh) <= LogCap
    /\ made \in Nat \ {0} /\ dropped \subseteq 1..made
    /\ listener \in 0..made
    /\ entries \in Seq(1..made) /\ Len(entries) <= MaxLog
    /\ running \in BOOLEAN /\ quit \in BOOLEAN
    /\ cancelRun \in 0..MaxJobs
    /\ job \in [Jobs -> JobStates]
    /\ history \in Seq(Commands) /\ input \in Commands \cup {NoText}
    /\ historyIdx \in -1..(Len(history) - 1)

(***************************************************************************)
(* While the index points into the history the prompt shows that entry, 0  *)
(* being the most recent, whatever was typed, entered or finished since.   *)
(***************************************************************************)
PromptShown == historyIdx >= 0 => input = history[Len(history) - historyIdx]

(***************************************************************************)
(* "Update ... runs single-threaded": while the flag is set exactly one    *)
(* command is under way, and ctrl+c reaches that one; RunContext is never  *)
(* called by two commands at once.                                         *)
(***************************************************************************)
UnderWay == {j \in Jobs : job[j].at \notin {"none", "finished"}}

OneRun ==
    /\ UnderWay = IF running THEN {cancelRun} ELSE {}
    /\ running <=> cancelRun # 0

(***************************************************************************)
(* The panel, the entry on its way and the channel hold entries in the     *)
(* order they were made, and only two things are missing: what found the   *)
(* channel full, and what a full panel has given up for newer entries.     *)
(***************************************************************************)
InFlight == IF listener = 0 THEN <<>> ELSE <<listener>>
Shown    == entries \o InFlight \o logCh

LogInOrder ==
    /\ \A i \in 1..(Len(Shown) - 1) : Shown[i] < Shown[i + 1]
    /\ \A n \in 1..made :
          \/ \E i \in 1..Len(Shown) : Shown[i] = n
          \/ n \in dropped
          \/ Len(entries) = MaxLog /\ n < entries[1]

(* What the channel has accepted reaches the panel, unless the program ends first. *)
LogShown == []<>(quit \/ InFlight \o logCh = <<>>)

(* The prompt comes back after every command, whatever else the user does. *)
PromptReturns == running ~> ~running \/ quit

=============================================================================

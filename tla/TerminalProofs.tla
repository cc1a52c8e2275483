------------------------------ MODULE TerminalProofs ------------------------------
(***************************************************************************)
(* Theorems about the terminal UI, for any history, any number of commands *)
(* and any capacity of the log: one command runs at a time, the prompt     *)
(* shows the entry the history index points to, and the log is in order    *)
(* and complete but for the entries it is known to have given up.          *)
(***************************************************************************)
EXTENDS Terminal, SequenceTheorems, TLAPS

USE TerminalAssumption DEF TerminalAssumption

-----------------------------------------------------------------------------
(* Types. *)

LogTypeOK ==
    /\ logCh \in Seq(1..made) /\ Len(logCh) <= LogCap
    /\ made \in Nat \ {0} /\ dropped \subseteq 1..made
    /\ listener \in 0..made
    /\ entries \in Seq(1..made) /\ Len(entries) <= MaxLog

FlagTypeOK == running \in BOOLEAN /\ quit \in BOOLEAN

JobTypeOK == cancelRun \in 0..MaxJobs /\ job \in [Jobs -> JobStates]

PromptTypeOK ==
    /\ history \in Seq(Commands) /\ input \in Commands \cup {NoText}
    /\ historyIdx \in -1..(Len(history) - 1)

LEMMA TypeParts == TerminalTypeOK <=> LogTypeOK /\ FlagTypeOK /\ JobTypeOK /\ PromptTypeOK
  BY Zenon DEF TerminalTypeOK, LogTypeOK, FlagTypeOK, JobTypeOK, PromptTypeOK

LEMMA TypePartsNext == LogTypeOK' /\ FlagTypeOK' /\ JobTypeOK' /\ PromptTypeOK' => TerminalTypeOK'
  BY Zenon DEF TerminalTypeOK, LogTypeOK, FlagTypeOK, JobTypeOK, PromptTypeOK

LEMMA TerminalTypeInit == TerminalInit => TerminalTypeOK
  <1> SUFFICES ASSUME TerminalInit
               PROVE  TerminalTypeOK
    OBVIOUS
  <1>1. LogTypeOK
    BY DEF TerminalInit, LogTypeOK
  <1>2. FlagTypeOK
    BY Zenon DEF TerminalInit, FlagTypeOK
  <1>3. JobTypeOK
    BY DEF TerminalInit, JobTypeOK, JobStates
  <1>4. PromptTypeOK
    BY DEF TerminalInit, PromptTypeOK
  <1>5. QED
    BY <1>1, <1>2, <1>3, <1>4, TypeParts

LEMMA EmitTypes ==
  ASSUME LogTypeOK, Emit
  PROVE  LogTypeOK'
  <1>1. made' \in Nat \ {0} /\ 1..made \subseteq 1..made' /\ made' \in 1..made'
    BY DEF LogTypeOK, Emit
  <1>2. logCh \in Seq(1..made') /\ entries' \in Seq(1..made') /\ listener' \in 0..made'
    BY <1>1 DEF LogTypeOK, Emit
  <1>3. CASE Len(logCh) < LogCap
    <2>1. logCh' = Append(logCh, made') /\ UNCHANGED dropped
      BY <1>3 DEF Emit
    <2>2. logCh' \in Seq(1..made') /\ Len(logCh') = Len(logCh) + 1
      BY <1>1, <1>2, <2>1
    <2>3. QED
      BY <1>1, <1>2, <1>3, <2>1, <2>2 DEF LogTypeOK, Emit
  <1>4. CASE ~(Len(logCh) < LogCap)
    BY <1>1, <1>2, <1>4 DEF LogTypeOK, Emit
  <1>5. QED
    BY <1>3, <1>4

(* The panel with one more entry: the oldest gives way when it is full. *)
LEMMA PanelTypes ==
  ASSUME LogTypeOK, Show
  PROVE  /\ entries' \in Seq(1..made) /\ Len(entries') <= MaxLog
         /\ Len(entries) < MaxLog => entries' = Append(entries, listener)
         /\ Len(entries) = MaxLog => entries' = Tail(Append(entries, listener))
  <1> DEFINE new == Append(entries, listener)
  <1>1. listener \in 1..made /\ entries \in Seq(1..made)
    BY DEF LogTypeOK, Show
  <1>2. new \in Seq(1..made) /\ Len(new) = Len(entries) + 1 /\ Len(entries) \in Nat
    BY <1>1
  <1>3. CASE Len(entries) = MaxLog
    <2>1. entries' = SubSeq(new, 2, Len(new))
      BY <1>2, <1>3 DEF Show
    <2>2. entries' = Tail(new) /\ Len(entries') = Len(entries)
      BY <1>2, <1>3, <2>1
    <2>3. QED
      BY <1>2, <1>3, <2>2
  <1>4. CASE Len(entries) # MaxLog
    <2>1. entries' = SubSeq(new, 1, Len(new))
      BY <1>2, <1>4 DEF Show
    <2>2. entries' = new
      BY <1>2, <2>1
    <2>3. QED
      BY <1>2, <1>4, <2>2 DEF LogTypeOK
  <1>5. QED
    BY <1>3, <1>4

LEMMA KeyTypes ==
  ASSUME TerminalTypeOK, OneRun, Type \/ Navigate(-1) \/ Navigate(1) \/ Enter \/ CtrlC \/ Quit
  PROVE  TerminalTypeOK'
  <1>1. LogTypeOK /\ FlagTypeOK /\ JobTypeOK /\ PromptTypeOK
    BY TypeParts
  <1>2. LogTypeOK'
    BY <1>1 DEF LogTypeOK, logVars, Type, Navigate, Enter, CtrlC, Quit
  <1>3. FlagTypeOK'
    BY <1>1, Zenon DEF FlagTypeOK, Type, Navigate, Enter, CtrlC, Quit
  <1>4. JobTypeOK'
    <2>1. CASE Type \/ Navigate(-1) \/ Navigate(1) \/ Quit
      BY <1>1, <2>1 DEF JobTypeOK, Type, Navigate, Quit
    <2>2. CASE Enter
      <3>1. PICK j \in Jobs : job' = [job EXCEPT ![j] = [NoJob EXCEPT !.at = "begin"]] /\ cancelRun' = j
        BY <2>2 DEF Enter
      <3>2. [NoJob EXCEPT !.at = "begin"] \in JobStates
        <4>1. [NoJob EXCEPT !.at = "begin"] \in [at : {"begin"}, left : {0}, dead : BOOLEAN]
          BY DEF NoJob
        <4>2. {0} \subseteq 0..(MaxFiles + 1)
          OBVIOUS
        <4>3. QED
          BY <4>1, <4>2 DEF JobStates
      <3>3. QED
        BY <1>1, <3>1, <3>2 DEF JobTypeOK, Jobs
    <2>3. CASE CtrlC
      <3>1. CASE running /\ cancelRun # 0
        <4>1. job' = [job EXCEPT ![cancelRun].dead = TRUE] /\ cancelRun \in Jobs /\ UNCHANGED cancelRun
          BY <1>1, <2>3, <3>1 DEF CtrlC, JobTypeOK, Jobs
        <4>2. job[cancelRun] # NoJob
          BY <3>1 DEF OneRun, UnderWay, NoJob
        <4>3. [job[cancelRun] EXCEPT !.dead = TRUE] \in JobStates
          BY <1>1, <4>1, <4>2 DEF JobTypeOK, JobStates
        <4>4. QED
          BY <1>1, <4>1, <4>3 DEF JobTypeOK
      <3>2. CASE ~(running /\ cancelRun # 0)
        BY <1>1, <2>3, <3>2 DEF CtrlC, JobTypeOK
      <3>3. QED
        BY <3>1, <3>2
    <2>4. QED
      BY <2>1, <2>2, <2>3
  <1>5. PromptTypeOK'
    <2>1. CASE Type \/ CtrlC \/ Quit
      BY <1>1, <2>1 DEF PromptTypeOK, promptVars, Type, CtrlC, Quit
    <2>2. CASE Enter
      BY <1>1, <2>2 DEF PromptTypeOK, Enter
    <2>3. ASSUME NEW delta \in {-1, 1}, Navigate(delta)
          PROVE  PromptTypeOK'
      BY <1>1, <2>3 DEF PromptTypeOK, Navigate
    <2>4. QED
      BY <2>1, <2>2, <2>3
  <1>6. QED
    BY <1>2, <1>3, <1>4, <1>5, TypePartsNext

LEMMA JobStepTypes ==
  ASSUME TerminalTypeOK, NEW j \in Jobs, JobStep(j)
  PROVE  TerminalTypeOK'
  <1>1. LogTypeOK /\ FlagTypeOK /\ JobTypeOK /\ PromptTypeOK
    BY TypeParts
  <1>2. LogTypeOK'
    <2>1. CASE JobBegin(j) \/ JobResult(j)
      BY <1>1, <2>1, EmitTypes DEF JobBegin, JobResult
    <2>2. CASE JobExec(j) \/ JobFinished(j)
      BY <1>1, <2>2 DEF JobExec, JobFinished, logVars, LogTypeOK
    <2>3. QED
      BY <2>1, <2>2 DEF JobStep
  <1>3. FlagTypeOK'
    BY <1>1, Zenon DEF FlagTypeOK, JobStep, JobBegin, JobExec, JobResult, JobFinished
  <1>4. JobTypeOK'
    <2>1. ASSUME NEW from \in {"begin", "exec", "result"}, NEW to \in {"exec", "result", "finished"},
                 NEW left \in 0..(MaxFiles + 1), JobGoes(j, from, to, left)
          PROVE  job' \in [Jobs -> JobStates]
      <3>1. job[j] \in JobStates /\ job[j] # NoJob
        BY <1>1, <2>1 DEF JobTypeOK, JobGoes, NoJob
      <3>2. [job[j] EXCEPT !.at = to, !.left = left] \in JobStates
        BY <3>1 DEF JobStates
      <3>3. job' = [job EXCEPT ![j] = [job[j] EXCEPT !.at = to, !.left = left]]
        BY <1>1, <2>1 DEF JobGoes, JobTypeOK
      <3>4. QED
        BY <1>1, <3>2, <3>3 DEF JobTypeOK
    <2>2. 0 \in 0..(MaxFiles + 1)
      OBVIOUS
    <2>3. CASE JobBegin(j)
      BY <1>1, <2>1, <2>2, <2>3 DEF JobBegin, JobTypeOK
    <2>4. CASE JobExec(j)
      <3>1. PICK n \in 1..(MaxFiles + 1) : JobGoes(j, "exec", "result", n)
        BY <2>4 DEF JobExec
      <3>2. n \in 0..(MaxFiles + 1)
        OBVIOUS
      <3>3. QED
        BY <1>1, <2>1, <2>4, <3>1, <3>2 DEF JobExec, JobTypeOK
    <2>5. CASE JobResult(j)
      <3>1. job[j] \in JobStates /\ job[j].left > 0
        BY <1>1, <2>5 DEF JobResult, JobTypeOK
      <3>2. job[j].left \in 0..(MaxFiles + 1)
        BY <3>1 DEF JobStates, NoJob
      <3>3. job[j].left - 1 \in 0..(MaxFiles + 1)
        BY <3>1, <3>2
      <3>4. QED
        BY <1>1, <2>1, <2>5, <3>3 DEF JobResult, JobTypeOK
    <2>6. CASE JobFinished(j)
      BY <1>1, <2>1, <2>2, <2>6 DEF JobFinished, JobTypeOK
    <2>7. QED
      BY <2>3, <2>4, <2>5, <2>6 DEF JobStep
  <1>5. PromptTypeOK'
    BY <1>1 DEF PromptTypeOK, promptVars, JobStep, JobBegin, JobExec, JobResult, JobFinished
  <1>6. QED
    BY <1>2, <1>3, <1>4, <1>5, TypePartsNext

LEMMA LogStepTypes ==
  ASSUME TerminalTypeOK, Listen \/ Show
  PROVE  TerminalTypeOK'
  <1>1. LogTypeOK /\ FlagTypeOK /\ JobTypeOK /\ PromptTypeOK
    BY TypeParts
  <1>2. LogTypeOK'
    <2>1. CASE Listen
      BY <1>1, <2>1 DEF LogTypeOK, Listen
    <2>2. CASE Show
      <3>1. entries' \in Seq(1..made) /\ Len(entries') <= MaxLog
        BY <1>1, <2>2, PanelTypes
      <3>2. listener' = 0 /\ UNCHANGED <<logCh, made, dropped>>
        BY <2>2 DEF Show
      <3>3. QED
        BY <1>1, <3>1, <3>2 DEF LogTypeOK
    <2>3. QED
      BY <2>1, <2>2
  <1>3. FlagTypeOK' /\ JobTypeOK' /\ PromptTypeOK'
    BY <1>1 DEF FlagTypeOK, JobTypeOK, PromptTypeOK, promptVars, Listen, Show
  <1>4. QED
    BY <1>2, <1>3, TypePartsNext

-----------------------------------------------------------------------------
(* One command at a time. *)

(* The prompt is left alone while a command runs. *)
RunInv == OneRun /\ (running => historyIdx = -1)

LEMMA RunInit == TerminalInit => RunInv
  BY DEF TerminalInit, RunInv, OneRun, UnderWay, NoJob

LEMMA UnderWayKept ==
  ASSUME RunInv, UNCHANGED <<running, cancelRun, historyIdx>>,
         \A k \in Jobs : job'[k].at \in {"none", "finished"} <=> job[k].at \in {"none", "finished"}
  PROVE  RunInv'
  BY DEF RunInv, OneRun, UnderWay

LEMMA RunKey ==
  ASSUME TerminalTypeOK, RunInv, Type \/ Navigate(-1) \/ Navigate(1) \/ Enter \/ CtrlC \/ Quit
  PROVE  RunInv'
  <1>1. JobTypeOK
    BY TypeParts
  <1>2. CASE Type \/ Navigate(-1) \/ Navigate(1)
    BY <1>2 DEF RunInv, OneRun, UnderWay, Type, Navigate
  <1>3. CASE Enter
    <2>1. PICK j \in Jobs : /\ job[j].at = "none"
                            /\ job' = [job EXCEPT ![j] = [NoJob EXCEPT !.at = "begin"]] /\ cancelRun' = j
      BY <1>3 DEF Enter
    <2>2. ~running /\ running' = TRUE /\ historyIdx' = -1
      BY <1>3 DEF Enter
    <2>3. job'[j].at = "begin" /\ \A k \in Jobs : k # j => job'[k] = job[k]
      BY <1>1, <2>1 DEF JobTypeOK, NoJob
    <2>4. UnderWay = {} /\ j # 0
      BY <2>2 DEF RunInv, OneRun, Jobs
    <2>5. UnderWay' = {j}
      BY <2>3, <2>4 DEF UnderWay
    <2>6. QED
      BY <2>1, <2>2, <2>4, <2>5 DEF RunInv, OneRun
  <1>4. CASE CtrlC \/ Quit
    <2>1. \A k \in Jobs : job'[k].at = job[k].at
      <3>1. \A k \in Jobs : job[k] \in JobStates
        BY <1>1 DEF JobTypeOK
      <3>2. CASE CtrlC /\ running /\ cancelRun # 0
        <4>1. job' = [job EXCEPT ![cancelRun].dead = TRUE]
          BY <3>2 DEF CtrlC
        <4>2. \A k \in Jobs : [job[k] EXCEPT !.dead = TRUE].at = job[k].at
          BY <3>1 DEF JobStates, NoJob
        <4>3. QED
          BY <1>1, <4>1, <4>2 DEF JobTypeOK
      <3>3. CASE ~(CtrlC /\ running /\ cancelRun # 0)
        BY <1>4, <3>3 DEF CtrlC, Quit
      <3>4. QED
        BY <3>2, <3>3
    <2>2. QED
      BY <1>4, <2>1, UnderWayKept DEF CtrlC, Quit, promptVars
  <1>5. QED
    BY <1>2, <1>3, <1>4

LEMMA RunStep ==
  ASSUME TerminalTypeOK, RunInv, NEW j \in Jobs, JobStep(j)
  PROVE  RunInv'
  <1>1. JobTypeOK
    BY TypeParts
  <1>2. \A k \in Jobs : job[k] \in JobStates
    BY <1>1 DEF JobTypeOK
  <1>3. ASSUME NEW from, NEW to, NEW left, JobGoes(j, from, to, left)
        PROVE  job[j].at = from /\ job'[j].at = to /\ \A k \in Jobs : k # j => job'[k] = job[k]
    <2>1. [job[j] EXCEPT !.at = to, !.left = left].at = to
      BY <1>2 DEF JobStates, NoJob
    <2>2. QED
      BY <1>1, <1>3, <2>1 DEF JobTypeOK, JobGoes
  <1>4. CASE JobBegin(j) \/ JobExec(j) \/ JobResult(j)
    <2>1. \A k \in Jobs : job'[k].at \in {"none", "finished"} <=> job[k].at \in {"none", "finished"}
      BY <1>3, <1>4 DEF JobBegin, JobExec, JobResult
    <2>2. QED
      BY <1>4, <2>1, UnderWayKept DEF JobBegin, JobExec, JobResult, promptVars
  <1>5. CASE JobFinished(j)
    <2>1. job[j].at = "result" /\ job'[j].at = "finished" /\ \A k \in Jobs : k # j => job'[k] = job[k]
      BY <1>3, <1>5 DEF JobFinished
    <2>2. j \in UnderWay
      BY <2>1 DEF UnderWay
    <2>3. UnderWay = {j}
      BY <2>2 DEF RunInv, OneRun
    <2>4. UnderWay' = {}
      BY <2>1, <2>3 DEF UnderWay
    <2>5. running' = FALSE /\ cancelRun' = 0
      BY <1>5 DEF JobFinished
    <2>6. QED
      BY <2>4, <2>5 DEF RunInv, OneRun
  <1>6. QED
    BY <1>4, <1>5 DEF JobStep

LEMMA RunLog ==
  ASSUME RunInv, Listen \/ Show \/ UNCHANGED tvars
  PROVE  RunInv'
  BY UnderWayKept DEF Listen, Show, tvars, promptVars

LEMMA RunNext ==
  ASSUME TerminalTypeOK, RunInv, [TerminalNext]_tvars
  PROVE  TerminalTypeOK' /\ RunInv'
  <1>1. CASE TerminalNext
    BY <1>1, KeyTypes, JobStepTypes, LogStepTypes, RunKey, RunStep, RunLog DEF TerminalNext, Key, RunInv
  <1>2. CASE UNCHANGED tvars
    <2>1. LogTypeOK' /\ FlagTypeOK' /\ JobTypeOK' /\ PromptTypeOK'
      BY <1>2, TypeParts DEF tvars, logVars, promptVars, LogTypeOK, FlagTypeOK, JobTypeOK, PromptTypeOK
    <2>2. QED
      BY <1>2, <2>1, TypePartsNext, RunLog
  <1>3. QED
    BY <1>1, <1>2

LEMMA RunAlways == TerminalSpec => [](TerminalTypeOK /\ RunInv)
  BY TerminalTypeInit, RunInit, RunNext, PTL DEF TerminalSpec

(* Every variable of the terminal keeps its type; the history index stays within the history. *)
THEOREM TerminalTypeCorrect == TerminalSpec => []TerminalTypeOK
  BY RunAlways, PTL

(* RunContext is never called by two commands at once, whatever the user types or cancels,  *)
(* and ctrl+c reaches the command that runs (Model.Update).                                  *)
THEOREM TerminalOneRun == TerminalSpec => []OneRun
  <1>1. RunInv => OneRun
    BY DEF RunInv
  <1>2. QED
    BY <1>1, RunAlways, PTL

-----------------------------------------------------------------------------
(* The prompt. *)

LEMMA PromptInit == TerminalInit => PromptShown
  BY DEF TerminalInit, PromptShown

LEMMA PromptNext ==
  ASSUME TerminalTypeOK, RunInv, PromptShown, [TerminalNext]_tvars
  PROVE  PromptShown'
  <1>1. PromptTypeOK
    BY TypeParts
  <1>2. CASE UNCHANGED promptVars
    BY <1>2 DEF PromptShown, promptVars
  <1>3. CASE Type
    BY <1>3 DEF PromptShown, Type
  <1>4. ASSUME NEW delta \in {-1, 1}, Navigate(delta)
        PROVE  PromptShown'
    BY <1>1, <1>4 DEF PromptTypeOK, PromptShown, Navigate
  <1>5. CASE Enter
    BY <1>5 DEF PromptShown, Enter
  <1>6. ASSUME NEW j \in Jobs, JobFinished(j)
        PROVE  PromptShown'
    <2>1. job[j].at = "result"
      BY <1>6 DEF JobFinished, JobGoes
    <2>2. historyIdx = -1
      BY <2>1 DEF RunInv, OneRun, UnderWay
    <2>3. QED
      BY <1>6, <2>2 DEF JobFinished, PromptShown
  <1>7. CASE Listen \/ Show \/ CtrlC \/ Quit \/ UNCHANGED tvars
    BY <1>2, <1>7 DEF Listen, Show, CtrlC, Quit, tvars
  <1>8. ASSUME NEW j \in Jobs, JobBegin(j) \/ JobExec(j) \/ JobResult(j)
        PROVE  PromptShown'
    BY <1>2, <1>8 DEF JobBegin, JobExec, JobResult
  <1>9. QED
    BY <1>3, <1>4, <1>5, <1>6, <1>7, <1>8 DEF TerminalNext, Key, JobStep

(* Whatever is typed, entered or finished, the prompt shows the entry the history index *)
(* points to (navigateHistory, PushHistory).                                             *)
THEOREM TerminalPromptShown == TerminalSpec => []PromptShown
  BY RunAlways, PromptInit, PromptNext, PTL DEF TerminalSpec

-----------------------------------------------------------------------------
(* The log. *)

LEMMA ShownIs ==
  ASSUME LogTypeOK
  PROVE  /\ Shown \in Seq(1..made)
         /\ listener = 0 => Shown = entries \o logCh
         /\ listener > 0 => Shown = Append(entries, listener) \o logCh
  <1>1. entries \in Seq(1..made) /\ logCh \in Seq(1..made) /\ listener \in 0..made
    BY DEF LogTypeOK
  <1>2. CASE listener = 0
    <2>1. InFlight = <<>> /\ entries \o <<>> = entries
      BY <1>1, <1>2 DEF InFlight
    <2>2. QED
      BY <1>1, <1>2, <2>1 DEF Shown
  <1>3. CASE listener > 0
    <2>1. InFlight = <<listener>> /\ entries \o <<listener>> = Append(entries, listener)
      BY <1>1, <1>3 DEF InFlight
    <2>2. Append(entries, listener) \in Seq(1..made)
      BY <1>1, <1>3
    <2>3. QED
      BY <1>1, <1>3, <2>1, <2>2 DEF Shown
  <1>4. QED
    BY <1>1, <1>2, <1>3

LEMMA LogInit == TerminalInit => LogInOrder
  <1> SUFFICES ASSUME TerminalInit
               PROVE  LogInOrder
    OBVIOUS
  <1>1. LogTypeOK
    BY TerminalTypeInit, TypeParts
  <1>2. Shown = <<1>>
    BY <1>1, ShownIs DEF TerminalInit
  <1>3. QED
    BY <1>2 DEF LogInOrder, TerminalInit

LEMMA ConcatAppend ==
  ASSUME NEW S, NEW s \in Seq(S), NEW t \in Seq(S), NEW e \in S
  PROVE  s \o Append(t, e) = Append(s \o t, e)
  <1>1. Append(t, e) = t \o <<e>> /\ <<e>> \in Seq(S)
    BY AppendIsConcat
  <1>2. s \o t \in Seq(S)
    BY ConcatProperties
  <1>3. Append(s \o t, e) = (s \o t) \o <<e>>
    BY <1>2, AppendIsConcat
  <1>4. QED
    BY <1>1, <1>3, ConcatAssociative

(* A new entry is the greatest, and comes last. *)
LEMMA LogEmit ==
  ASSUME LogTypeOK, LogInOrder, Emit
  PROVE  LogInOrder'
  <1>1. LogTypeOK'
    BY EmitTypes
  <1>2. made' = made + 1 /\ made \in Nat /\ UNCHANGED <<listener, entries>>
    BY DEF Emit, LogTypeOK
  <1>3. Shown \in Seq(1..made)
    BY ShownIs
  <1>4. CASE Len(logCh) < LogCap
    <2>1. logCh' = Append(logCh, made') /\ UNCHANGED dropped
      BY <1>4 DEF Emit
    <2>2. Shown' = Append(Shown, made')
      <3>1. entries \o InFlight \in Seq(1..made) /\ logCh \in Seq(1..made)
        <4>1. listener # 0 => listener \in 1..made
          BY DEF LogTypeOK
        <4>2. InFlight \in Seq(1..made)
          <5>1. CASE listener = 0
            BY <5>1 DEF InFlight
          <5>2. CASE listener # 0
            <6>1. <<listener>> \in Seq(1..made)
              BY <4>1, <5>2
            <6>2. QED
              BY <5>2, <6>1, Zenon DEF InFlight
          <5>3. QED
            BY <5>1, <5>2
        <4>3. QED
          BY <4>2 DEF LogTypeOK
      <3>2. entries \o InFlight \in Seq(1..made') /\ logCh \in Seq(1..made') /\ made' \in 1..made'
        BY <1>2, <3>1
      <3>3. (entries \o InFlight) \o Append(logCh, made') = Append((entries \o InFlight) \o logCh, made')
        <4> DEFINE ahead == entries \o InFlight
        <4>1. ahead \in Seq(1..made') /\ logCh \in Seq(1..made') /\ made' \in 1..made'
          BY <3>2
        <4> HIDE DEF ahead
        <4>2. ahead \o Append(logCh, made') = Append(ahead \o logCh, made')
          BY <4>1, ConcatAppend
        <4>3. QED
          BY <4>2, Zenon DEF ahead
      <3>4. InFlight' = InFlight
        BY <1>2 DEF InFlight
      <3>5. QED
        BY <1>2, <2>1, <3>3, <3>4, Zenon DEF Shown
    <2>3. /\ Len(Shown') = Len(Shown) + 1 /\ Len(Shown) \in Nat /\ Shown'[Len(Shown) + 1] = made'
          /\ \A i \in 1..Len(Shown) : Shown'[i] = Shown[i] /\ Shown[i] \in 1..made
      BY <1>2, <1>3, <2>2
    <2>4. \A i \in 1..(Len(Shown') - 1) : Shown'[i] < Shown'[i + 1]
      BY <1>2, <2>3 DEF LogInOrder
    <2>5. ASSUME NEW n \in 1..made'
          PROVE  \/ \E i \in 1..Len(Shown') : Shown'[i] = n
                 \/ n \in dropped'
                 \/ Len(entries') = MaxLog /\ n < entries'[1]
      <3>1. CASE n = made'
        BY <2>3, <3>1
      <3>2. CASE n \in 1..made
        BY <1>2, <2>1, <2>3, <3>2 DEF LogInOrder
      <3>3. QED
        BY <1>2, <3>1, <3>2
    <2>6. QED
      BY <2>4, <2>5 DEF LogInOrder
  <1>5. CASE ~(Len(logCh) < LogCap)
    <2>1. dropped' = dropped \cup {made'} /\ UNCHANGED logCh
      BY <1>5 DEF Emit
    <2>2. Shown' = Shown
      BY <1>2, <2>1 DEF Shown, InFlight
    <2>3. QED
      BY <1>2, <2>1, <2>2 DEF LogInOrder
  <1>6. QED
    BY <1>4, <1>5

LEMMA LogListen ==
  ASSUME LogTypeOK, LogInOrder, Listen
  PROVE  LogInOrder'
  <1>1. /\ listener = 0 /\ logCh # <<>> /\ listener' = Head(logCh) /\ logCh' = Tail(logCh)
        /\ UNCHANGED <<made, dropped, entries>>
    BY DEF Listen
  <1>2. entries \in Seq(1..made) /\ logCh \in Seq(1..made) /\ listener' \in 1..made
    BY <1>1 DEF LogTypeOK
  <1>3. Shown = entries \o logCh
    BY <1>1, ShownIs
  <1>4. Shown' = (entries \o <<listener'>>) \o logCh'
    <2>1. listener' # 0
      BY <1>2
    <2>2. QED
      BY <1>1, <2>1, Zenon DEF Shown, InFlight
  <1>5. (entries \o <<Head(logCh)>>) \o Tail(logCh) = entries \o logCh
    BY <1>1, <1>2
  <1>6. Shown' = Shown
    BY <1>1, <1>3, <1>4, <1>5
  <1>7. QED
    BY <1>1, <1>6 DEF LogInOrder

LEMMA ItemsOf ==
  ASSUME NEW S, NEW s \in Seq(S)
  PROVE  \A i \in 1..Len(s) : s[i] \in S
  OBVIOUS

LEMMA TailConcat ==
  ASSUME NEW S, NEW s \in Seq(S), NEW t \in Seq(S), Len(s) > 0
  PROVE  /\ Len(Tail(s) \o t) = Len(s) - 1 + Len(t) /\ Len(s \o t) = Len(s) + Len(t)
         /\ \A i \in 1..(Len(s) - 1 + Len(t)) : (Tail(s) \o t)[i] = (s \o t)[i + 1]
  <1>1. Tail(s) \in Seq(S) /\ Len(Tail(s)) = Len(s) - 1 /\ Len(s) \in Nat /\ Len(t) \in Nat
    BY s # <<>>
  <1>2. Len(Tail(s) \o t) = Len(s) - 1 + Len(t) /\ Len(s \o t) = Len(s) + Len(t)
    BY <1>1
  <1>3. ASSUME NEW i \in 1..(Len(s) - 1 + Len(t))
        PROVE  (Tail(s) \o t)[i] = (s \o t)[i + 1]
    <2>1. CASE i <= Len(s) - 1
      <3>1. (Tail(s) \o t)[i] = Tail(s)[i]
        BY <1>1, <2>1
      <3>2. Tail(s)[i] = s[i + 1]
        BY <1>1, <2>1
      <3>3. (s \o t)[i + 1] = s[i + 1]
        BY <1>1, <2>1
      <3>4. QED
        BY <3>1, <3>2, <3>3
    <2>2. CASE i > Len(s) - 1
      <3>1. (Tail(s) \o t)[i] = t[i - (Len(s) - 1)]
        BY <1>1, <2>2
      <3>2. (s \o t)[i + 1] = t[i + 1 - Len(s)]
        BY <1>1, <2>2
      <3>3. QED
        BY <1>1, <3>1, <3>2
    <2>3. QED
      BY <1>1, <2>1, <2>2
  <1>4. QED
    BY <1>2, <1>3

(* The panel takes the entry on its way, and gives up its oldest when it is full. *)
LEMMA LogShow ==
  ASSUME LogTypeOK, LogInOrder, Show
  PROVE  LogInOrder'
  <1> DEFINE new == Append(entries, listener)
  <1>1. listener > 0 /\ listener' = 0 /\ UNCHANGED <<logCh, made, dropped>>
    BY DEF Show
  <1>2. entries \in Seq(1..made) /\ logCh \in Seq(1..made) /\ listener \in 1..made /\ Len(entries) <= MaxLog
    BY <1>1 DEF LogTypeOK
  <1>3. new \in Seq(1..made) /\ Len(new) = Len(entries) + 1
    BY <1>2
  <1>4. Shown = new \o logCh
    BY <1>1, ShownIs
  <1>5. entries' \in Seq(1..made)
    BY PanelTypes
  <1>6. Shown' = entries' \o logCh
    <2>1. entries' \o <<>> = entries'
      BY <1>5
    <2>2. QED
      BY <1>1, <2>1 DEF Shown, InFlight
  <1>7. CASE Len(entries) < MaxLog
    <2>1. Shown' = Shown
      BY <1>4, <1>6, <1>7, PanelTypes
    <2>2. \A n \in 1..made : (\E i \in 1..Len(Shown) : Shown[i] = n) \/ n \in dropped
      BY <1>7 DEF LogInOrder
    <2>3. QED
      BY <1>1, <2>1, <2>2 DEF LogInOrder
  <1>8. CASE Len(entries) = MaxLog
    <2>1. entries' = Tail(new)
      BY <1>8, PanelTypes
    <2>2. /\ Len(Shown) = MaxLog + 1 + Len(logCh) /\ Len(Shown') = MaxLog + Len(logCh) /\ Len(logCh) \in Nat
          /\ \A i \in 1..Len(Shown') : Shown'[i] = Shown[i + 1]
      <3>1. Len(new) = MaxLog + 1 /\ Len(new) > 0 /\ Len(logCh) \in Nat
        BY <1>2, <1>3, <1>8
      <3>2. /\ Len(Tail(new) \o logCh) = Len(new) - 1 + Len(logCh) /\ Len(new \o logCh) = Len(new) + Len(logCh)
            /\ \A i \in 1..(Len(new) - 1 + Len(logCh)) : (Tail(new) \o logCh)[i] = (new \o logCh)[i + 1]
        <4>1. new \in Seq(1..made) /\ logCh \in Seq(1..made) /\ Len(new) > 0
          BY <1>2, <1>3, <3>1
        <4> HIDE DEF new
        <4>2. QED
          BY <4>1, TailConcat, Zenon
      <3>3. Shown' = Tail(new) \o logCh /\ Shown = new \o logCh
        BY <1>4, <1>6, <2>1
      <3>4. Len(Shown') = MaxLog + Len(logCh) /\ Len(Shown) = MaxLog + 1 + Len(logCh)
        BY <3>1, <3>2, <3>3
      <3>5. \A i \in 1..Len(Shown') : Shown'[i] = Shown[i + 1]
        <4>1. Len(new) - 1 + Len(logCh) = Len(Shown')
          BY <3>1, <3>4
        <4>2. QED
          BY <3>2, <3>3, <4>1
      <3>6. QED
        BY <3>1, <3>4, <3>5
    <2>3. Len(entries') = MaxLog
      BY <1>3, <1>8, <2>1
    <2>4. Shown[1] = entries[1] /\ Shown[2] = entries'[1] /\ \A i \in 1..Len(Shown) : Shown[i] \in 1..made
      <3>1. Shown[1] = new[1] /\ new[1] = entries[1]
        BY <1>2, <1>3, <1>4, <1>8
      <3>2. Shown'[1] = entries'[1]
        BY <1>2, <1>5, <1>6, <2>3
      <3>3. Shown'[1] = Shown[2]
        BY <2>2
      <3>4. Shown \in Seq(1..made)
        BY ShownIs
      <3>5. \A i \in 1..Len(Shown) : Shown[i] \in 1..made
        BY <3>4, ItemsOf
      <3>6. QED
        BY <3>1, <3>2, <3>3, <3>5
    <2>5. entries[1] < entries'[1]
      BY <2>2, <2>4 DEF LogInOrder
    <2>6. \A i \in 1..(Len(Shown') - 1) : Shown'[i] < Shown'[i + 1]
      BY <2>2 DEF LogInOrder
    <2>7. ASSUME NEW n \in 1..made
          PROVE  \/ \E i \in 1..Len(Shown') : Shown'[i] = n
                 \/ n \in dropped
                 \/ n < entries'[1]
      <3>1. CASE n < entries[1]
        <4>1. entries[1] \in 1..made /\ entries'[1] \in 1..made
          BY <2>2, <2>4
        <4>2. QED
          BY <2>5, <3>1, <4>1
      <3>2. CASE n \in dropped
        BY <3>2
      <3>3. ASSUME NEW i \in 1..Len(Shown), Shown[i] = n
            PROVE  n < entries'[1] \/ \E k \in 1..Len(Shown') : Shown'[k] = n
        <4>1. CASE i = 1
          BY <2>4, <2>5, <3>3, <4>1
        <4>2. CASE i > 1
          <5>1. i - 1 \in 1..Len(Shown') /\ Shown'[i - 1] = Shown[i]
            BY <2>2, <4>2
          <5>2. QED
            BY <3>3, <5>1
        <4>3. QED
          BY <4>1, <4>2
      <3>4. QED
        BY <3>1, <3>2, <3>3 DEF LogInOrder
    <2>8. QED
      BY <1>1, <2>3, <2>6, <2>7 DEF LogInOrder
  <1>9. QED
    BY <1>2, <1>7, <1>8

LEMMA LogNext ==
  ASSUME TerminalTypeOK, LogInOrder, [TerminalNext]_tvars
  PROVE  LogInOrder'
  <1>1. LogTypeOK
    BY TypeParts
  <1>2. CASE UNCHANGED logVars
    BY <1>2 DEF LogInOrder, Shown, InFlight, logVars
  <1>3. CASE Key \/ UNCHANGED tvars
    BY <1>2, <1>3 DEF Key, Type, Navigate, Enter, CtrlC, Quit, tvars
  <1>4. ASSUME NEW j \in Jobs, JobStep(j)
        PROVE  LogInOrder'
    <2>1. CASE JobBegin(j) \/ JobResult(j)
      BY <1>1, <2>1, LogEmit DEF JobBegin, JobResult
    <2>2. CASE JobExec(j) \/ JobFinished(j)
      BY <1>2, <2>2 DEF JobExec, JobFinished
    <2>3. QED
      BY <1>4, <2>1, <2>2 DEF JobStep
  <1>5. QED
    BY <1>1, <1>3, <1>4, LogListen, LogShow DEF TerminalNext

(* The log shows entries in the order they were made, and misses only those that found the  *)
(* channel full and those a full panel gave up for newer ones (listenLogCh, AppendEntry).    *)
THEOREM TerminalLogInOrder == TerminalSpec => []LogInOrder
  BY TerminalTypeCorrect, LogInit, LogNext, PTL DEF TerminalSpec

-----------------------------------------------------------------------------
(***************************************************************************)
(* PromptReturns and LogShown need fairness and are checked by TLC; this   *)
(* is the part of them that is not about time.  What a command's goroutine *)
(* has still to do, what the channel holds and what the listener brings    *)
(* are counted so that an entry weighs less the nearer it is to the panel. *)
(***************************************************************************)

(* Steps a command has to take; JobResult makes at most MaxFiles + 1 log entries. *)
StepsOf(goroutine) ==
    CASE goroutine.at = "begin"  -> MaxFiles + 4
      [] goroutine.at = "exec"   -> MaxFiles + 3
      [] goroutine.at = "result" -> goroutine.left + 1
      [] OTHER                   -> 0

RunLeft == IF running THEN StepsOf(job[cancelRun]) ELSE 0
LogLeft == 2 * Len(logCh) + IF listener = 0 THEN 0 ELSE 1
Work    == 3 * RunLeft + LogLeft

(* Only Enter makes work; every step of a command, of the listener and of Update for what *)
(* they bring does some of it.                                                             *)
WorkWindsDown ==
    /\ Enter \/ Work' <= Work
    /\ Listen \/ Show \/ (\E j \in Jobs : JobStep(j)) => Work' < Work

LEMMA StepsNumber ==
  ASSUME NEW goroutine \in JobStates
  PROVE  StepsOf(goroutine) \in Nat
  BY DEF StepsOf, JobStates, NoJob

LEMMA WorkNumber ==
  ASSUME TerminalTypeOK, RunInv
  PROVE  /\ RunLeft \in Nat /\ LogLeft \in Nat
         /\ running => cancelRun \in Jobs
  <1>1. LogTypeOK /\ JobTypeOK
    BY TypeParts
  <1>2. running => cancelRun \in Jobs
    BY <1>1 DEF RunInv, OneRun, JobTypeOK, Jobs
  <1>3. RunLeft \in Nat
    BY <1>1, <1>2, StepsNumber DEF RunLeft, JobTypeOK
  <1>4. Len(logCh) \in Nat
    BY <1>1 DEF LogTypeOK
  <1>5. QED
    BY <1>2, <1>3, <1>4 DEF LogLeft

LEMMA EmitWork ==
  ASSUME LogTypeOK, Emit
  PROVE  LogLeft' <= LogLeft + 2
  <1>1. Len(logCh) \in Nat /\ listener' = listener
    BY DEF LogTypeOK, Emit
  <1>2. Len(logCh') \in {Len(logCh), Len(logCh) + 1}
    BY DEF LogTypeOK, Emit
  <1>3. QED
    BY <1>1, <1>2 DEF LogLeft

LEMMA JobWork ==
  ASSUME TerminalTypeOK, RunInv, NEW j \in Jobs, JobStep(j)
  PROVE  RunLeft' < RunLeft /\ LogLeft' <= LogLeft + 2
  <1>1. LogTypeOK /\ JobTypeOK
    BY TypeParts
  <1>2. \A k \in Jobs : job[k] \in JobStates
    BY <1>1 DEF JobTypeOK
  <1>3. ASSUME NEW from, NEW to, NEW left, JobGoes(j, from, to, left)
        PROVE  job[j].at = from /\ job'[j].at = to /\ job'[j].left = left
    <2>1. [job[j] EXCEPT !.at = to, !.left = left].at = to
      BY <1>2 DEF JobStates, NoJob
    <2>2. [job[j] EXCEPT !.at = to, !.left = left].left = left
      BY <1>2 DEF JobStates, NoJob
    <2>3. QED
      BY <1>1, <1>3, <2>1, <2>2 DEF JobTypeOK, JobGoes
  <1>4. job[j].at \in {"begin", "exec", "result"}
    BY <1>3 DEF JobStep, JobBegin, JobExec, JobResult, JobFinished
  <1>5. j \in UnderWay
    BY <1>4 DEF UnderWay
  <1>6. running /\ cancelRun = j
    BY <1>5 DEF RunInv, OneRun
  <1>7. RunLeft = StepsOf(job[j])
    BY <1>6 DEF RunLeft
  <1>8. CASE JobBegin(j)
    <2>1. job[j].at = "begin" /\ job'[j].at = "exec" /\ running' = running /\ cancelRun' = cancelRun
      BY <1>3, <1>8 DEF JobBegin
    <2>2. RunLeft' = MaxFiles + 3 /\ RunLeft = MaxFiles + 4
      BY <1>6, <1>7, <2>1 DEF RunLeft, StepsOf
    <2>3. QED
      BY <1>1, <1>8, <2>2, EmitWork DEF JobBegin
  <1>9. CASE JobExec(j)
    <2>1. PICK n \in 1..(MaxFiles + 1) : JobGoes(j, "exec", "result", n)
      BY <1>9 DEF JobExec
    <2>2. /\ job[j].at = "exec" /\ job'[j].at = "result" /\ job'[j].left = n
          /\ running' = running /\ cancelRun' = cancelRun
      BY <1>3, <1>9, <2>1 DEF JobExec
    <2>3. RunLeft' = n + 1 /\ RunLeft = MaxFiles + 3
      BY <1>6, <1>7, <2>2 DEF RunLeft, StepsOf
    <2>4. LogLeft' = LogLeft
      BY <1>9 DEF JobExec, logVars, LogLeft
    <2>5. QED
      BY <1>1, <2>3, <2>4, WorkNumber
  <1>10. CASE JobResult(j)
    <2>1. /\ job[j].at = "result" /\ job'[j].at = "result" /\ job'[j].left = job[j].left - 1
          /\ running' = running /\ cancelRun' = cancelRun
      BY <1>3, <1>10 DEF JobResult
    <2>2. job[j].left \in Nat
      BY <1>2 DEF JobStates, NoJob
    <2>3. RunLeft' = job[j].left /\ RunLeft = job[j].left + 1
      BY <1>6, <1>7, <2>1, <2>2 DEF RunLeft, StepsOf
    <2>4. QED
      BY <1>1, <1>10, <2>2, <2>3, EmitWork DEF JobResult
  <1>11. CASE JobFinished(j)
    <2>1. job[j].at = "result" /\ job[j].left = 0 /\ running' = FALSE
      BY <1>3, <1>11 DEF JobFinished
    <2>2. RunLeft' = 0 /\ RunLeft = 1
      BY <1>7, <2>1 DEF RunLeft, StepsOf
    <2>3. LogLeft' = LogLeft
      BY <1>11 DEF JobFinished, logVars, LogLeft
    <2>4. QED
      BY <2>2, <2>3, WorkNumber
  <1>12. QED
    BY <1>8, <1>9, <1>10, <1>11 DEF JobStep

LEMMA LogWork ==
  ASSUME TerminalTypeOK, Listen \/ Show
  PROVE  RunLeft' = RunLeft /\ LogLeft' < LogLeft
  <1>1. LogTypeOK
    BY TypeParts
  <1>2. RunLeft' = RunLeft
    BY DEF Listen, Show, RunLeft
  <1>3. CASE Listen
    <2>1. Len(logCh) \in Nat \ {0} /\ Len(logCh') = Len(logCh) - 1
      BY <1>1, <1>3, EmptySeq, HeadTailProperties DEF LogTypeOK, Listen
    <2>2. listener = 0
      BY <1>3 DEF Listen
    <2>3. QED
      BY <1>2, <2>1, <2>2 DEF LogLeft
  <1>4. CASE Show
    BY <1>1, <1>2, <1>4 DEF LogTypeOK, Show, LogLeft
  <1>5. QED
    BY <1>3, <1>4

LEMMA KeyWork ==
  ASSUME TerminalTypeOK, RunInv, (Key /\ ~Enter) \/ UNCHANGED tvars
  PROVE  RunLeft' = RunLeft /\ LogLeft' = LogLeft
  <1>1. UNCHANGED <<logVars, running, cancelRun>>
    BY DEF Key, Type, Navigate, CtrlC, Quit, tvars
  <1>2. LogLeft' = LogLeft
    BY <1>1 DEF LogLeft, logVars
  <1>3. CASE UNCHANGED job
    BY <1>1, <1>2, <1>3 DEF RunLeft
  <1>4. CASE CtrlC /\ running /\ cancelRun # 0
    <2>1. job' = [job EXCEPT ![cancelRun].dead = TRUE] /\ cancelRun \in Jobs
      BY <1>4, WorkNumber DEF CtrlC
    <2>2. job[cancelRun] \in JobStates /\ job \in [Jobs -> JobStates]
      BY <2>1, TypeParts DEF JobTypeOK
    <2>3. /\ [job[cancelRun] EXCEPT !.dead = TRUE].at = job[cancelRun].at
          /\ [job[cancelRun] EXCEPT !.dead = TRUE].left = job[cancelRun].left
      BY <2>2 DEF JobStates, NoJob
    <2>4. job'[cancelRun].at = job[cancelRun].at /\ job'[cancelRun].left = job[cancelRun].left
      BY <2>1, <2>2, <2>3
    <2>5. QED
      BY <1>1, <1>2, <2>4 DEF RunLeft, StepsOf
  <1>5. QED
    BY <1>3, <1>4 DEF Key, Type, Navigate, CtrlC, Quit, tvars

WorkTypes == RunLeft \in Nat /\ LogLeft \in Nat

LEMMA Weighted ==
  ASSUME NEW r \in Nat, NEW l \in Nat, NEW rr \in Nat, NEW ll \in Nat
  PROVE  /\ rr < r /\ ll <= l + 2 => 3 * rr + ll < 3 * r + l
         /\ rr = r /\ ll < l => 3 * rr + ll < 3 * r + l
         /\ 3 * rr + ll < 3 * r + l => 3 * rr + ll <= 3 * r + l
  OBVIOUS

LEMMA WorkStep ==
  ASSUME TerminalTypeOK, RunInv, WorkTypes, WorkTypes', [TerminalNext]_tvars
  PROVE  WorkWindsDown
  <1>1. Work = 3 * RunLeft + LogLeft /\ Work' = 3 * RunLeft' + LogLeft'
    BY DEF Work
  <1>2. /\ RunLeft' < RunLeft /\ LogLeft' <= LogLeft + 2 => Work' < Work
        /\ RunLeft' = RunLeft /\ LogLeft' < LogLeft => Work' < Work
        /\ Work' < Work => Work' <= Work
    BY <1>1, Weighted DEF WorkTypes
  <1>3. (\E j \in Jobs : JobStep(j)) => Work' < Work
    BY <1>2, JobWork
  <1>4. Listen \/ Show => Work' < Work
    BY <1>2, LogWork
  <1>5. (Key /\ ~Enter) \/ UNCHANGED tvars => Work' <= Work
    <2>1. SUFFICES ASSUME (Key /\ ~Enter) \/ UNCHANGED tvars
                   PROVE  Work' <= Work
      OBVIOUS
    <2>2. Work' = Work
      BY <1>1, <2>1, KeyWork
    <2>3. Work \in Nat
      BY <1>1 DEF WorkTypes
    <2>4. QED
      BY <2>2, <2>3
  <1>6. Enter \/ Work' <= Work
    BY <1>2, <1>3, <1>4, <1>5 DEF TerminalNext
  <1>7. QED
    BY <1>3, <1>4, <1>6 DEF WorkWindsDown

(* Every step of a command, of the listener and of what they bring to Update brings the  *)
(* terminal nearer to a prompt with all log entries shown, whatever the user does, until *)
(* the next command is entered (runCommand, listenLogCh).                                 *)
THEOREM TerminalWorkWindsDown == TerminalSpec => [][WorkWindsDown]_tvars
  <1>1. TerminalTypeOK /\ RunInv => WorkTypes
    BY WorkNumber DEF WorkTypes
  <1>2. TerminalTypeOK /\ RunInv /\ WorkTypes /\ WorkTypes' /\ [TerminalNext]_tvars => WorkWindsDown
    BY WorkStep
  <1>3. QED
    BY <1>1, <1>2, RunAlways, PTL DEF TerminalSpec

=============================================================================

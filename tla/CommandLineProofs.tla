----------------------------- MODULE CommandLineProofs -----------------------------
(***************************************************************************)
(* Theorems about a whole process, whatever it was started for and for any *)
(* number of tasks, packages, files, lines and calls: it implements its    *)
(* parts, so what is proved of them holds of it; its archives are          *)
(* faithful; installs reach a shim; and only the known ways of ending      *)
(* leave the temp directory.                                               *)
(***************************************************************************)
EXTENDS CommandLine, CheckpointProofs, TerminalProofs

-----------------------------------------------------------------------------
(* Where each program's main goroutine can be. *)

Places(a) ==
    CASE a = "run"      -> {"command", "exited"}
      [] a = "shell"    -> {"prompt", "command", "checkpoint", "closing", "exited"}
      [] a = "snapshot" -> {"command", "save", "checkpoint", "closing", "exited"}
      [] a = "restore"  -> {"load", "checkpoint", "closing", "exited"}
      [] a = "embed"    -> {"command", "closing", "exited"}
      [] a = "tui"      -> {"tui", "closing", "exited"}
      [] a = "fetch"    -> {"fetch"}

PlaceInv ==
    /\ app \in Apps /\ at \in Places(app)
    /\ cp.at # "idle" => app = "embed" \/ at \in {"checkpoint", "exited"}

LEMMA PlaceInit == Init => PlaceInv
  BY DEF Init, Apps, Start, PlaceInv, Places, CheckpointInit, NoCheckpoint

(* A step that leaves the calls on archives alone. *)
LEMMA PlaceKept ==
  ASSUME PlaceInv, UNCHANGED <<cp, app>>, at' \in Places(app),
         cp.at # "idle" => app = "embed" \/ at' \in {"checkpoint", "exited"}
  PROVE  PlaceInv'
  BY DEF PlaceInv

LEMMA PlaceWork ==
  ASSUME PlaceInv,
         OtherProcess \/ TUI \/ FetchRuntime \/ Killed \/ (\E t \in Tasks : Command(t) \/ Task(t))
  PROVE  PlaceInv'
  <1>1. CASE Killed
    BY <1>1 DEF PlaceInv, Places, Killed, TreeApps
  <1>2. CASE ~Killed
    <2>1. UNCHANGED <<cp, app, at>>
      BY <1>2 DEF OtherProcess, TUI, FetchRuntime, Command, Task, mainVars, treeVars, cpvars
    <2>2. QED
      BY <2>1 DEF PlaceInv
  <1>3. QED
    BY <1>1, <1>2

LEMMA PlaceMoves ==
  ASSUME PlaceInv, CommandEnds \/ ReadCommand \/ ReadReset \/ ReadEOF \/ QuitTUI \/ Close
  PROVE  PlaceInv'
  <1>1. UNCHANGED <<cp, app>>
    BY DEF CommandEnds, ReadCommand, ReadReset, ReadEOF, QuitTUI, Close, Line, Goes, treeVars, cpvars
  <1>2. CASE CommandEnds
    BY <1>1, <1>2, PlaceKept DEF PlaceInv, Places, Apps, CommandEnds, Goes
  <1>3. CASE ReadCommand \/ ReadReset \/ ReadEOF
    BY <1>1, <1>3, PlaceKept DEF PlaceInv, Places, Apps, ReadCommand, ReadReset, ReadEOF, Line, Goes
  <1>4. CASE QuitTUI \/ Close
    BY <1>1, <1>4, PlaceKept DEF PlaceInv, Places, Apps, QuitTUI, Close, Goes
  <1>5. QED
    BY <1>2, <1>3, <1>4

LEMMA PlaceCalls ==
  ASSUME PlaceInv, ReadSnapshot \/ ReadRestore \/ SnapshotCmd \/ RestoreCmd \/ EmbeddedCall
  PROVE  PlaceInv'
  <1>1. UNCHANGED app
    BY DEF ReadSnapshot, ReadRestore, SnapshotCmd, RestoreCmd, EmbeddedCall, Line, Goes
  <1>2. CASE ReadSnapshot \/ ReadRestore
    BY <1>1, <1>2 DEF PlaceInv, Places, Apps, ReadSnapshot, ReadRestore, Line, Goes
  <1>3. CASE SnapshotCmd
    BY <1>1, <1>3 DEF PlaceInv, Places, Apps, SnapshotCmd, Goes
  <1>4. CASE RestoreCmd
    BY <1>1, <1>4 DEF PlaceInv, Places, Apps, RestoreCmd, Goes, treeVars, cpvars
  <1>5. CASE EmbeddedCall
    BY <1>1, <1>5 DEF PlaceInv, Places, Apps, EmbeddedCall
  <1>6. QED
    BY <1>2, <1>3, <1>4, <1>5

LEMMA PlaceArchive ==
  ASSUME PlaceInv, ArchiveStep
  PROVE  PlaceInv'
  <1>1. cp.at # "idle"
    BY DEF ArchiveStep, CheckpointStep, Visit, VisitBlocks, VisitFails, VisitsDone, SaveFile, SaveFileFails,
       DownloadVisit, DownloadFails, DownloadDone, Wipe, WipeFails, WipeDone, Fill, FillFails,
       UploadFill, UploadFails, ReadFails, FillDone, Walks, Fills
  <1>2. at # "exited" /\ (app = "embed" \/ at = "checkpoint")
    BY <1>1 DEF PlaceInv, ArchiveStep, Alive
  <1>3. at' \in AfterCheckpoint /\ app' = IF app = "restore" /\ at' = "prompt" THEN "shell" ELSE app
    BY DEF ArchiveStep
  <1>4. QED
    BY <1>1, <1>2, <1>3 DEF PlaceInv, Places, Apps, AfterCheckpoint

LEMMA PlaceNext ==
  ASSUME PlaceInv, [Next]_vars
  PROVE  PlaceInv'
  <1>1. CASE UNCHANGED vars
    BY <1>1 DEF PlaceInv, vars, mainVars, treeVars, cpvars
  <1>2. QED
    BY <1>1, PlaceWork, PlaceMoves, PlaceCalls, PlaceArchive DEF Next

-----------------------------------------------------------------------------
(* The process implements its parts: the root. *)

LEMMA CommandBegins ==
  ASSUME NEW t \in Tasks, NEW c \in External, Handle(t, c), OverlayTypeOK
  PROVE  OverlayNext \/ UNCHANGED ovars
  <1>1. CASE Idle(t) /\ ExternalChange
    <2>1. \A new \in SUBSET Entries : TreeBecomes(new) => OverlayNext
      BY DEF OverlayNext, AnyChange
    <2>2. tree \subseteq Entries /\ \A u \in UserFiles : User(u) \in Entries
      BY DEF OverlayTypeOK, Entries, Users
    <2>3. QED
      BY <1>1, <2>1, <2>2 DEF ExternalChange
  <1>2. CASE ~(Idle(t) /\ ExternalChange)
    BY <1>2 DEF Handle, OverlayNext, Begin
  <1>3. QED
    BY <1>1, <1>2

(* The steps that do not change the root. *)
Elsewhere ==
    \/ CommandEnds \/ ReadCommand \/ ReadEOF \/ TUI \/ QuitTUI \/ FetchRuntime \/ Close

LEMMA ElsewhereRoot ==
  ASSUME Elsewhere
  PROVE  UNCHANGED <<ovars, cpvars>>
  BY DEF Elsewhere, CommandEnds, ReadCommand, ReadEOF, TUI, QuitTUI, FetchRuntime, Close, treeVars

ArchiveCalls == ReadSnapshot \/ ReadRestore \/ SnapshotCmd \/ RestoreCmd \/ EmbeddedCall \/ ArchiveStep

LEMMA CallsOfArchive ==
  ASSUME ArchiveCalls
  PROVE  CheckpointBegin \/ CheckpointStep \/ UNCHANGED <<ovars, cpvars>>
  BY DEF ArchiveCalls, ReadSnapshot, ReadRestore, SnapshotCmd, RestoreCmd, EmbeddedCall, ArchiveStep,
     CheckpointBegin, Saving, treeVars

(* A step of the jobs, of another process, or a reset: what Others stands for. *)
LEMMA WorkOfOthers ==
  ASSUME OverlayTypeOK, PlaceInv,
         OtherProcess \/ ReadReset \/ \E t \in Tasks : Command(t) \/ Task(t)
  PROVE  (OverlayNext \/ UNCHANGED ovars) /\ Note /\ UNCHANGED <<cp, taken, archive>>
  <1>1. CASE OtherProcess
    BY <1>1 DEF OtherProcess, OverlayNext
  <1>2. CASE ReadReset
    <2>1. ResetRoot /\ UNCHANGED <<cp, taken, archive, touched>>
      BY <1>2 DEF ReadReset, cpvars
    <2>2. cp.at = "idle"
      BY <1>2 DEF ReadReset, Line, PlaceInv, Places, Apps
    <2>3. QED
      BY <2>1, <2>2 DEF Note, OverlayNext
  <1>3. ASSUME NEW t \in Tasks, Command(t)
        PROVE  (OverlayNext \/ UNCHANGED ovars) /\ Note /\ UNCHANGED <<cp, taken, archive>>
    <2>1. PICK c \in External : Handle(t, c)
      BY <1>3 DEF Command
    <2>2. OverlayNext \/ UNCHANGED ovars
      BY <2>1, CommandBegins
    <2>3. QED
      BY <1>3, <2>2 DEF Command
  <1>4. ASSUME NEW t \in Tasks, Task(t)
        PROVE  (OverlayNext \/ UNCHANGED ovars) /\ Note /\ UNCHANGED <<cp, taken, archive>>
    BY <1>4 DEF Task, OverlayNext
  <1>5. QED
    BY <1>1, <1>2, <1>3, <1>4

LEMMA RootNext ==
  ASSUME RootInv, PlaceInv, [Next]_vars
  PROVE  /\ RootInv' /\ (OverlayNext \/ UNCHANGED ovars)
         /\ Killed \/ Around
  <1>1. OverlayTypeOK /\ CheckpointTypeOK /\ CallTypeOK /\ SetsTypeOK /\ CpInv
    BY CheckpointParts DEF RootInv
  <1>2. CASE UNCHANGED <<ovars, cpvars>>
    <2>1. RootInv'
      BY <1>2, RootStay
    <2>2. QED
      BY <1>2, <2>1 DEF Around, cpvars
  <1>3. CASE ArchiveCalls
    <2>1. CASE CheckpointBegin \/ CheckpointStep
      <3>1. RootInv'
        BY <2>1, RootCall
      <3>2. OverlayNext \/ UNCHANGED ovars
        BY <1>1, <2>1, CheckpointOverlay
      <3>3. QED
        BY <2>1, <3>1, <3>2 DEF Around
    <2>2. QED
      BY <1>2, <1>3, <2>1, CallsOfArchive
  <1>4. CASE OtherProcess \/ ReadReset \/ \E t \in Tasks : Command(t) \/ Task(t)
    <2>1. (OverlayNext \/ UNCHANGED ovars) /\ Note /\ UNCHANGED <<cp, taken, archive>>
      BY <1>1, <1>4, WorkOfOthers
    <2>2. OverlayTypeOK'
      <3>1. CASE OverlayNext
        BY <1>1, <3>1, OverlayTypeNext
      <3>2. CASE UNCHANGED ovars
        BY <1>1, <3>2 DEF OverlayTypeOK, ovars, lockVars
      <3>3. QED
        BY <2>1, <3>1, <3>2
    <2>3. CheckpointTypeOK' /\ CpInv'
      BY <1>1, <2>1, <2>2, KindKept, CpOthers
    <2>4. QED
      BY <2>1, <2>2, <2>3 DEF RootInv, Around
  <1>5. CASE Killed
    <2>1. UNCHANGED <<ovars, cp, taken, touched>> /\ (UNCHANGED archive \/ (cp.at = "save" /\ CutFile))
      BY <1>5 DEF Killed
    <2>2. CASE UNCHANGED archive
      <3>1. UNCHANGED <<ovars, cpvars>>
        BY <2>1, <2>2 DEF cpvars
      <3>2. QED
        BY <1>2, <3>1
    <2>3. CASE cp.at = "save" /\ CutFile
      <3>1. OverlayTypeOK' /\ UNCHANGED <<tree, kind>>
        BY <1>1, <2>1 DEF OverlayTypeOK, ovars, lockVars
      <3>2. CheckpointTypeOK' /\ CpInv'
        BY <1>1, <2>1, <2>3, <3>1, CpCut
      <3>3. QED
        BY <1>5, <2>1, <3>1, <3>2 DEF RootInv
    <2>4. QED
      BY <1>5, <2>1, <2>2, <2>3
  <1>6. QED
    BY <1>2, <1>3, <1>4, <1>5, ElsewhereRoot DEF Next, ArchiveCalls, Elsewhere, vars, treeVars

LEMMA ProcessInit == Init => RootInv /\ PlaceInv
  BY PlaceInit, RootInit DEF Init

LEMMA ProcessAlways == Spec => [](RootInv /\ PlaceInv)
  BY ProcessInit, RootNext, PlaceNext, PTL DEF Spec

(* Whatever the process was started for, what happens under its root are the steps of the   *)
(* shims, of Reset, of the archives and of the programs it runs.                              *)
THEOREM ProcessImplementsOverlay == Spec => OverlaySpec
  <1>1. Init => OverlayInit
    BY DEF Init
  <1>2. RootInv /\ PlaceInv /\ [Next]_vars => [OverlayNext]_ovars
    BY RootNext
  <1>3. QED
    BY <1>1, <1>2, ProcessAlways, PTL DEF Spec, OverlaySpec

-----------------------------------------------------------------------------
(* The terminal and the Python runtime. *)

(* What happens in the terminal of an interactive process are the steps of the model of the   *)
(* TUI; every other step of the process, its end included, leaves the terminal alone.         *)
THEOREM ProcessImplementsTerminal == Spec => TerminalSpec
  <1>1. Init => TerminalInit
    BY DEF Init
  <1>2. [Next]_vars => [TerminalNext]_tvars
    <2>1. CASE TUI
      BY <2>1 DEF TUI
    <2>2. CASE ~TUI /\ Next
      BY <2>2 DEF Next, OtherProcess, Command, Task, CommandEnds, ReadCommand, ReadReset, ReadSnapshot, ReadRestore,
         ReadEOF, SnapshotCmd, RestoreCmd, EmbeddedCall, ArchiveStep, QuitTUI, FetchRuntime, Close, Killed
    <2>3. QED
      BY <2>1, <2>2 DEF vars
  <1>3. QED
    BY <1>1, <1>2, PTL DEF Spec, TerminalSpec

(* What a process does to the runtime's file in the cache are the steps of FetchPythonWASM, *)
(* however many callers it has and whenever it is killed.                                     *)
THEOREM ProcessImplementsCache == Spec => CacheSpec
  <1>1. Init => CacheInit
    BY DEF Init
  <1>2. [Next]_vars => [CacheNext]_pvars
    <2>1. CASE FetchRuntime
      BY <2>1 DEF FetchRuntime
    <2>2. CASE ~FetchRuntime /\ Next
      BY <2>2 DEF Next, OtherProcess, Command, Task, CommandEnds, ReadCommand, ReadReset, ReadSnapshot, ReadRestore,
         ReadEOF, SnapshotCmd, RestoreCmd, EmbeddedCall, ArchiveStep, TUI, QuitTUI, Close, Killed
    <2>3. QED
      BY <2>1, <2>2 DEF vars
  <1>3. QED
    BY <1>1, <1>2, PTL DEF Spec, CacheSpec

(* The archives of the process are faithful, though a signal may end it in the middle of one: *)
(* what a snapshot completes, what it leaves out, and what a restore without an error leaves.  *)
THEOREM ProcessArchives == Spec => SavedFaithful /\ RestoredFaithful
  <1>1. ASSUME RootInv, PlaceInv, [Next]_vars
        PROVE  [FaithfulSave /\ FaithfulRestore]_<<ovars, cpvars>>
    <2>1. CASE Killed
      <3>1. UNCHANGED cp /\ cp.at \in {"idle"} \cup Phases
        BY <1>1, <2>1, CheckpointParts DEF RootInv, CallTypeOK, NoCheckpoint, Killed
      <3>2. Around
        BY <3>1 DEF Around
      <3>3. QED
        BY <1>1, <3>2, RootEnds
    <2>2. QED
      BY <1>1, <2>1, RootNext, RootEnds
  <1>2. QED
    BY <1>1, ProcessAlways, PTL DEF Spec, SavedFaithful, RestoredFaithful

(* A restore that a signal, a rejected entry or a file that ends too early stops half way      *)
(* leaves the root with exactly the part of the archive before that point (doRestore).        *)
THEOREM ProcessPartRestored == Spec => []PartRestored
  BY PartFromInv, ProcessAlways, PTL

-----------------------------------------------------------------------------
(* The cache of the runtime. *)

CacheInv == CacheTypeOK /\ PartOnlyIfCut

LEMMA CacheInitInv == CacheInit => CacheInv
  BY DEF CacheInit, CacheInv, CacheTypeOK, PartOnlyIfCut

LEMMA CacheNextInv ==
  ASSUME CacheInv, [CacheNext]_pvars
  PROVE  CacheInv'
  <1>1. CASE UNCHANGED pvars
    BY <1>1 DEF CacheInv, CacheTypeOK, PartOnlyIfCut, pvars
  <1>2. ASSUME NEW c \in Callers, FetchStep(c) \/ Dies(c)
        PROVE  CacheInv'
    <2>1. CASE Hit(c) \/ Miss(c) \/ FetchFails(c)
      BY <1>2, <2>1, CacheAssumption DEF CacheAssumption, CacheInv, CacheTypeOK, PartOnlyIfCut, Hit, Miss, FetchFails, Fetch
    <2>2. CASE Truncate(c)
      BY <1>2, <2>2 DEF CacheInv, CacheTypeOK, PartOnlyIfCut, Truncate, Fetch
    <2>3. CASE WriteDone(c)
      BY <1>2, <2>3 DEF CacheInv, CacheTypeOK, PartOnlyIfCut, WriteDone, Fetch
    <2>4. CASE WriteFails(c)
      BY <1>2, <2>4 DEF CacheInv, CacheTypeOK, PartOnlyIfCut, WriteFails, Fetch
    <2>5. CASE Dies(c)
      BY <1>2, <2>5 DEF CacheInv, CacheTypeOK, PartOnlyIfCut, Dies, Fetch
    <2>6. QED
      BY <1>2, <2>1, <2>2, <2>3, <2>4, <2>5 DEF FetchStep
  <1>3. QED
    BY <1>1, <1>2 DEF CacheNext

(* Of any number of callers in any number of processes, one that finds a part of the runtime *)
(* in the cache finds it while it is being written, or after that write failed or its process *)
(* died (FetchPythonWASM).                                                                     *)
THEOREM CachePartOnlyIfCut == CacheSpec => []PartOnlyIfCut
  <1>1. CacheInv => PartOnlyIfCut
    BY DEF CacheInv
  <1>2. QED
    BY <1>1, CacheInitInv, CacheNextInv, PTL DEF CacheSpec

-----------------------------------------------------------------------------
(* The handler chain. *)

(* The command line sets no block list. *)
OptionsInv == opts \in [wasm : BOOLEAN, block : {{}}]

(* What the layers before the handler do not take. *)
LEMMA HandlerIs ==
  ASSUME NEW c, NEW o, NEW i \in 1..6, Takes(Chain[i], c, o), \A j \in 1..(i - 1) : ~Takes(Chain[j], c, o)
  PROVE  Handler(c, o) = Chain[i]
  <1>1. Len(Chain) = 6
    BY DEF Chain
  <1>2. \A k \in 1..6 : Takes(Chain[k], c, o) /\ (\A j \in 1..(k - 1) : ~Takes(Chain[j], c, o)) => k = i
    OBVIOUS
  <1>3. (CHOOSE k \in 1..Len(Chain) : Takes(Chain[k], c, o) /\ \A j \in 1..(k - 1) : ~Takes(Chain[j], c, o)) = i
    BY <1>1, <1>2
  <1>4. QED
    BY <1>3 DEF Handler

LEMMA ShimsFirst ==
  ASSUME NEW c \in External, Installs(c), OptionsInv
  PROVE  Handler(c, opts) \in {"pip", "apt"}
  <1>1. Chain[1] = "blocked" /\ Chain[2] = "ln" /\ Chain[3] = "pip" /\ Chain[4] = "apt"
    BY DEF Chain
  <1>2. opts.block = {}
    BY DEF OptionsInv
  <1>3. ~Takes("blocked", c, opts) /\ ~Takes("ln", c, opts)
    BY <1>2 DEF Takes, Installs
  <1>4. CASE PipMatches(c)
    <2>1. Takes("pip", c, opts)
      BY <1>4 DEF Takes
    <2>2. Handler(c, opts) = Chain[3]
      <3>1. \A j \in 1..(3 - 1) : ~Takes(Chain[j], c, opts)
        BY <1>1, <1>3
      <3>2. QED
        BY <1>1, <2>1, <3>1, HandlerIs
    <2>3. QED
      BY <1>1, <2>2
  <1>5. CASE ~PipMatches(c)
    <2>1. AptMatches(c)
      BY <1>5 DEF Installs, PipMatches, AptMatches
    <2>2. Takes("apt", c, opts) /\ ~Takes("pip", c, opts)
      BY <1>5, <2>1 DEF Takes
    <2>3. Handler(c, opts) = Chain[4]
      <3>1. \A j \in 1..(4 - 1) : ~Takes(Chain[j], c, opts)
        BY <1>1, <1>3, <2>2
      <3>2. QED
        BY <1>1, <2>2, <3>1, HandlerIs
    <2>4. QED
      BY <1>1, <2>3
  <1>6. QED
    BY <1>4, <1>5

LEMMA OptionsAlways == Spec => []OptionsInv
  <1>1. Init => OptionsInv
    BY DEF Init, OptionsInv
  <1>2. OptionsInv /\ [Next]_vars => OptionsInv'
    <2>1. [Next]_vars => UNCHANGED opts
      BY DEF Next, OtherProcess, Command, Task, CommandEnds, ReadCommand, ReadReset, ReadSnapshot, ReadRestore,
         ReadEOF, SnapshotCmd, RestoreCmd, EmbeddedCall, ArchiveStep, TUI, QuitTUI, FetchRuntime, Close, Killed,
         Line, Goes, mainVars, vars
    <2>2. QED
      BY <2>1 DEF OptionsInv
  <1>3. QED
    BY <1>1, <1>2, PTL DEF Spec

(* With the WASM runtime or without, an install in a form the shims recognise reaches one of *)
(* them (wireHandlers).                                                                        *)
THEOREM ProcessInstallsShimmed == Spec => []InstallsShimmed
  <1>1. OptionsInv => InstallsShimmed
    BY ShimsFirst DEF InstallsShimmed
  <1>2. QED
    BY <1>1, OptionsAlways, PTL
-----------------------------------------------------------------------------
(* The end of the process. *)

EndInv == CleanExit /\ (Alive => ~killed)

LEMMA OnlyAlive == Next => Alive
  BY DEF Next, OtherProcess, Command, Task, CommandEnds, ReadCommand, ReadReset, ReadSnapshot, ReadRestore,
     ReadEOF, SnapshotCmd, RestoreCmd, EmbeddedCall, ArchiveStep, TUI, QuitTUI, FetchRuntime, Close, Killed,
     Line, Alive

(* The three ways to end. *)
LEMMA WaysToEnd ==
  ASSUME PlaceInv, Next, at' = "exited"
  PROVE  Close \/ Killed \/ (CommandEnds /\ app = "run")
  <1>1. Alive
    BY OnlyAlive
  <1>2. ~ArchiveStep
    <2>1. ASSUME ArchiveStep
          PROVE  FALSE
      <3>1. at' \in AfterCheckpoint /\ at # "exited" /\ cp.at # "idle"
        BY <1>1, <2>1 DEF ArchiveStep, Alive, CheckpointStep, Visit, VisitBlocks, VisitFails, VisitsDone, SaveFile,
           SaveFileFails, DownloadVisit, DownloadFails, DownloadDone, Wipe, WipeFails, WipeDone, Fill, FillFails,
           UploadFill, UploadFails, ReadFails, FillDone, Walks, Fills
      <3>2. QED
        BY <3>1 DEF AfterCheckpoint, PlaceInv, Places, Apps
    <2>2. QED
      BY <2>1
  <1>3. CommandEnds => app = "run"
    BY DEF CommandEnds, Goes, PlaceInv, Places, Apps
  <1>4. QED
    BY <1>1, <1>2, <1>3 DEF Next, Alive, OtherProcess, Command, Task, ReadCommand, ReadReset, ReadSnapshot, ReadRestore,
       ReadEOF, SnapshotCmd, RestoreCmd, EmbeddedCall, TUI, QuitTUI, FetchRuntime, Line, Goes, mainVars

LEMMA EndInit == Init => EndInv
  BY DEF Init, Apps, Start, EndInv, CleanExit, Alive

LEMMA EndNext ==
  ASSUME PlaceInv, EndInv, [Next]_vars
  PROVE  EndInv'
  <1>1. CASE UNCHANGED vars
    BY <1>1 DEF EndInv, CleanExit, Alive, Removable, Stays, KindOf, Busy, About, UnderWay, vars, treeVars, ovars, cpvars, tvars, mainVars
  <1>2. CASE Next /\ at' # "exited"
    <2>1. Alive /\ ~Killed
      BY <1>2, OnlyAlive DEF Killed
    <2>2. UNCHANGED killed
      BY <1>2, <2>1 DEF Next, OtherProcess, Command, Task, CommandEnds, ReadCommand, ReadReset, ReadSnapshot, ReadRestore,
         ReadEOF, SnapshotCmd, RestoreCmd, EmbeddedCall, ArchiveStep, TUI, QuitTUI, FetchRuntime, Close, Line, Goes, mainVars
    <2>3. QED
      BY <1>2, <2>1, <2>2 DEF EndInv, CleanExit, Alive
  <1>3. CASE Next /\ at' = "exited"
    <2>1. CASE Close
      <3>1. ~Removable => ~Removable'
        BY <2>1 DEF Close, Removable, Stays, KindOf, Busy, About, UnderWay, treeVars, ovars, cpvars, tvars
      <3>2. root' = "gone" \/ (root' = "partly" /\ ~Removable)
        BY <2>1 DEF Close
      <3>3. QED
        BY <1>3, <3>1, <3>2 DEF EndInv, CleanExit, Alive
    <2>2. CASE Killed
      BY <1>3, <2>2 DEF Killed, EndInv, CleanExit, Alive
    <2>3. CASE CommandEnds /\ app = "run"
      BY <1>3, <2>3 DEF CommandEnds, Goes, EndInv, CleanExit, Alive
    <2>4. QED
      BY <1>3, <2>1, <2>2, <2>3, WaysToEnd
  <1>4. QED
    BY <1>1, <1>2, <1>3

(* A process that has ended and left its temp directory was killed, or is the run command, or *)
(* RemoveAll met a writer or a mode that forbids it (the deferred Close, os.Exit in main.go).  *)
THEOREM ProcessCleanExit == Spec => []CleanExit
  <1>1. EndInv => CleanExit
    BY DEF EndInv
  <1>2. QED
    BY <1>1, ProcessAlways, EndInit, EndNext, PTL DEF Spec

-----------------------------------------------------------------------------
(* Types, and what the parts promise. *)

CountersOK == lines \in 0..MaxLines /\ calls \in 0..MaxCalls

LEMMA CountersAlways == Spec => []CountersOK
  <1>1. Init => CountersOK
    BY CommandLineAssumption DEF CommandLineAssumption, Init, CountersOK
  <1>2. CountersOK /\ [Next]_vars => CountersOK'
    <2>1. ASSUME CountersOK, [Next]_vars
          PROVE  /\ UNCHANGED lines \/ (lines < MaxLines /\ lines' = lines + 1)
                 /\ UNCHANGED calls \/ (calls < MaxCalls /\ calls' = calls + 1)
      BY <2>1 DEF Next, OtherProcess, Command, Task, CommandEnds, ReadCommand, ReadReset, ReadSnapshot, ReadRestore,
         ReadEOF, SnapshotCmd, RestoreCmd, EmbeddedCall, ArchiveStep, TUI, QuitTUI, FetchRuntime, Close, Killed,
         Line, Goes, mainVars, vars
    <2>2. QED
      BY <2>1, CommandLineAssumption DEF CommandLineAssumption, CountersOK
  <1>3. QED
    BY <1>1, <1>2, PTL DEF Spec

FlagsOK == root \in {"there", "gone", "partly"} /\ killed \in BOOLEAN

LEMMA FlagsAlways == Spec => []FlagsOK
  <1>1. Init => FlagsOK
    BY DEF Init, FlagsOK
  <1>2. FlagsOK /\ [Next]_vars => FlagsOK'
    <2>1. [Next]_vars => /\ UNCHANGED root \/ root' \in {"gone", "partly"}
                         /\ UNCHANGED killed \/ killed' = TRUE
      BY DEF Next, OtherProcess, Command, Task, CommandEnds, ReadCommand, ReadReset, ReadSnapshot, ReadRestore,
         ReadEOF, SnapshotCmd, RestoreCmd, EmbeddedCall, ArchiveStep, TUI, QuitTUI, FetchRuntime, Close, Killed,
         Line, Goes, mainVars, vars
    <2>2. QED
      BY <2>1 DEF FlagsOK
  <1>3. QED
    BY <1>1, <1>2, PTL DEF Spec

(* Every variable of a process keeps its type. *)
THEOREM ProcessTypeCorrect == Spec => []CommandLineTypeOK
  <1>1. OptionsInv => opts \in [wasm : BOOLEAN, block : SUBSET Programs]
    BY DEF OptionsInv
  <1>2. PlaceInv => app \in Apps /\ at \in (UNION {Start(a) : a \in Apps}) \cup {"checkpoint", "closing", "exited"}
    <2>1. Start("run") = {"command"} /\ Start("shell") = {"prompt"} /\ Start("snapshot") = {"command", "save"}
          /\ Start("restore") = {"load"} /\ Start("tui") = {"tui"} /\ Start("fetch") = {"fetch"}
      BY DEF Start
    <2>2. {"command", "prompt", "save", "load", "tui", "fetch"} \subseteq UNION {Start(a) : a \in Apps}
      BY <2>1 DEF Apps
    <2>3. QED
      BY <2>2 DEF PlaceInv, Places, Apps
  <1>3. CacheInv => CacheTypeOK
    BY DEF CacheInv
  <1>4. RootInv /\ PlaceInv /\ TerminalTypeOK /\ CacheTypeOK /\ OptionsInv /\ CountersOK /\ FlagsOK => CommandLineTypeOK
    BY <1>1, <1>2 DEF CommandLineTypeOK, RootInv, CountersOK, FlagsOK
  <1>5. QED
    BY <1>3, <1>4, ProcessAlways, ProcessImplementsTerminal, TerminalTypeCorrect, ProcessImplementsCache,
       CacheInitInv, CacheNextInv, OptionsAlways, CountersAlways, FlagsAlways, PTL DEF CacheSpec

(* What is proved of the packages, the terminal and the runtime holds of the whole process. *)
THEOREM ProcessSafe ==
  Spec => [](LockExclusive /\ LockReturned /\ RecordedExtracted /\ ManifestAgrees /\ OneRun /\ PromptShown /\ LogInOrder /\ PartOnlyIfCut)
  BY ProcessImplementsOverlay, OverlayLockExclusive, OverlayLockReturned, OverlayRecordedExtracted, OverlayManifestAgrees,
     ProcessImplementsTerminal, TerminalOneRun, TerminalPromptShown, TerminalLogInOrder,
     ProcessImplementsCache, CachePartOnlyIfCut, PTL

=============================================================================

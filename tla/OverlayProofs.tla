------------------------------ MODULE OverlayProofs ------------------------------
(***************************************************************************)
(* Theorems about the packages under a root, for any number of tasks,      *)
(* packages and files: the lock of the shared archive excludes, and the    *)
(* manifest agrees with what was extracted and installed.                  *)
(***************************************************************************)
EXTENDS Overlay, TLAPS

USE OverlayAssumption DEF OverlayAssumption

-----------------------------------------------------------------------------
(* Calls as records. *)

CallRecords ==
    [next : PipSteps \cup AptSteps \cup {"lnLink", "idle"}, pkg : PipPkgs \cup AptPkgs \cup {NoPkg},
     todo : SUBSET Entries, mu : Nat, old : BOOLEAN]

LEMMA PartsAreEntries == Pips \subseteq Entries /\ DebFiles \subseteq Entries /\ Users \subseteq Entries
  BY DEF Entries

LEMMA CallIsRecord ==
  ASSUME NEW c \in Calls \cup {NoCall}
  PROVE  c \in CallRecords
  <1>1. CASE c = NoCall
    BY <1>1 DEF NoCall, CallRecords
  <1>2. CASE c \in Calls
    BY <1>2, PartsAreEntries DEF Calls, CallRecords, PipSteps, AptSteps
  <1>3. QED
    BY <1>1, <1>2

LEMMA OverlayTypeInit == OverlayInit => OverlayTypeOK
  BY DEF OverlayInit, OverlayTypeOK, Recordable

PipAdvance(t) ==
    \/ PipChildWrites(t) \/ PipChildDone(t) \/ PipChildFails(t) \/ PipRecord(t)
    \/ PipRemoves(t) \/ PipRemoveDone(t) \/ PipForget(t)

LEMMA PipEntriesAre ==
  ASSUME NEW p \in PipPkgs
  PROVE  Brought(p) \subseteq Pips /\ Matched(p) \subseteq Pips /\ PipEntries(p) \subseteq Pips
  <1>1. Brings[p] \subseteq PipFiles /\ Matches[p] \subseteq PipFiles
    OBVIOUS
  <1>2. QED
    BY <1>1 DEF PipEntries, Brought, Matched, Pips

LEMMA PipTypes ==
  ASSUME OverlayTypeOK, NEW t \in Tasks, NEW p \in PipPkgs
  PROVE  /\ PipInstall(t, p) => OverlayTypeOK'
         /\ PipUninstall(t, p) => OverlayTypeOK'
  <1>1. Brought(p) \subseteq Pips /\ Matched(p) \subseteq Pips /\ PipEntries(p) \subseteq Entries
    BY PipEntriesAre, PartsAreEntries
  <1>2. ASSUME NEW step \in PipSteps, NEW todo \in SUBSET Pips, Begins(t, step, p, todo)
        PROVE  op' \in [Tasks -> Calls \cup {NoCall}]
    <2>1. [NoCall EXCEPT !.next = step, !.pkg = p, !.todo = todo] \in Calls
      BY DEF NoCall, Calls
    <2>2. QED
      BY <1>2, <2>1 DEF OverlayTypeOK, Begins
  <1>3. CASE PipInstall(t, p)
    <2>1. op' \in [Tasks -> Calls \cup {NoCall}]
      BY <1>1, <1>2, <1>3 DEF PipInstall, PipSteps
    <2>2. QED
      BY <1>1, <1>3, <2>1 DEF OverlayTypeOK, PipInstall, lockVars
  <1>4. CASE PipUninstall(t, p)
    <2>1. Matched(p) \cap tree \in SUBSET Pips
      BY <1>1
    <2>2. op' \in [Tasks -> Calls \cup {NoCall}]
      BY <1>2, <1>4, <2>1 DEF PipUninstall, PipSteps
    <2>3. QED
      BY <1>1, <1>4, <2>2 DEF OverlayTypeOK, PipUninstall, lockVars
  <1>5. QED
    BY <1>3, <1>4

LEMMA PipAdvanceTypes ==
  ASSUME OverlayTypeOK, NEW t \in Tasks, PipAdvance(t)
  PROVE  OverlayTypeOK'
  <1>1. op[t] \in [next : PipSteps, pkg : PipPkgs, todo : SUBSET Pips, mu : {0}, old : BOOLEAN]
    BY DEF OverlayTypeOK, Calls, NoCall, PipSteps, AptSteps, PipAdvance,
       PipChildWrites, PipChildDone, PipChildFails, PipRecord, PipRemoves, PipRemoveDone, PipForget
  <1>2. CASE PipChildWrites(t)
    BY <1>1, <1>2, PartsAreEntries DEF OverlayTypeOK, Calls, PipChildWrites, lockVars
  <1>3. CASE PipChildDone(t) \/ PipRemoveDone(t)
    BY <1>1, <1>3 DEF OverlayTypeOK, Calls, PipChildDone, PipRemoveDone, GoesTo, PipSteps, lockVars
  <1>4. CASE PipChildFails(t)
    BY <1>1, <1>4, PipEntriesAre, PartsAreEntries DEF OverlayTypeOK, PipChildFails, Returns, lockVars
  <1>5. CASE PipRecord(t) \/ PipForget(t)
    <2>1. <<"pip", op[t].pkg>> \in Recordable
      BY <1>1 DEF Recordable
    <2>2. manifest' \subseteq Recordable
      BY <1>5, <2>1 DEF OverlayTypeOK, PipRecord, PipForget
    <2>3. op' \in [Tasks -> Calls \cup {NoCall}]
      BY <1>5 DEF OverlayTypeOK, PipRecord, PipForget, Returns
    <2>4. QED
      BY <1>5, <2>2, <2>3 DEF OverlayTypeOK, PipRecord, PipForget, lockVars
  <1>6. CASE PipRemoves(t)
    <2>1. PICK e \in op[t].todo : /\ tree' = tree \ {e} \/ UNCHANGED tree
                                  /\ rough' = rough \cup {e} \/ UNCHANGED rough
                                  /\ op' = [op EXCEPT ![t].todo = @ \ {e}]
      BY <1>6 DEF PipRemoves
    <2>2. tree' \subseteq Entries /\ rough' \subseteq Entries
      BY <1>1, <2>1, PartsAreEntries DEF OverlayTypeOK
    <2>3. op' \in [Tasks -> Calls \cup {NoCall}]
      BY <1>1, <2>1 DEF OverlayTypeOK, Calls
    <2>4. QED
      BY <1>6, <2>2, <2>3 DEF OverlayTypeOK, PipRemoves, lockVars
  <1>7. QED
    BY <1>2, <1>3, <1>4, <1>5, <1>6 DEF PipAdvance

LEMMA AptBeginTypes ==
  ASSUME OverlayTypeOK, NEW t \in Tasks, NEW a \in AptPkgs
  PROVE  /\ AptInstall(t, a) => OverlayTypeOK'
         /\ AptRemove(t, a) => OverlayTypeOK'
  <1>1. CASE AptInstall(t, a)
    <2>1. mutex' \in Nat \ {0}
      BY <1>1 DEF AptInstall, OverlayTypeOK
    <2>2. [NoCall EXCEPT !.next = "aptLock", !.pkg = a, !.mu = mutex'] \in Calls
      BY <2>1 DEF NoCall, Calls, AptSteps
    <2>3. QED
      BY <1>1, <2>1, <2>2 DEF OverlayTypeOK, AptInstall
  <1>2. CASE AptRemove(t, a)
    BY <1>2 DEF OverlayTypeOK, AptRemove, lockVars
  <1>3. QED
    BY <1>1, <1>2

AptAdvance(t) ==
    \/ AptLock(t) \/ AptDownload(t) \/ AptDownloadDone(t) \/ AptDownloadFails(t)
    \/ AptGlob(t) \/ AptExtract(t) \/ AptExtractFails(t) \/ AptRecord(t) \/ AptUnlock(t)

LEMMA AptAdvanceTypes ==
  ASSUME OverlayTypeOK, NEW t \in Tasks, AptAdvance(t)
  PROVE  OverlayTypeOK'
  <1> DEFINE AptCalls == [next : AptSteps, pkg : AptPkgs, todo : SUBSET DebFiles, mu : Nat \ {0}, old : BOOLEAN]
  <1>1. op[t] \in AptCalls
    BY DEF OverlayTypeOK, Calls, NoCall, PipSteps, AptSteps, AptAdvance,
       AptLock, AptDownload, AptDownloadDone, AptDownloadFails, AptGlob, AptExtract,
       AptExtractFails, AptRecord, AptUnlock
  <1>2. CASE AptLock(t)
    <2>1. {Deb(d) : d \in Needs[op[t].pkg]} \subseteq DebFiles
      BY <1>1 DEF DebFiles
    <2>2. op'[t] \in AptCalls /\ \A u \in Tasks : u # t => op'[u] = op[u]
      BY <1>1, <1>2, <2>1 DEF OverlayTypeOK, AptLock, AptSteps
    <2>3. QED
      BY <1>1, <1>2, <2>2 DEF OverlayTypeOK, AptLock, Calls
  <1>3. CASE AptDownload(t)
    BY <1>1, <1>3 DEF OverlayTypeOK, AptDownload, Calls
  <1>4. CASE AptDownloadDone(t) \/ AptDownloadFails(t)
    BY <1>1, <1>4 DEF OverlayTypeOK, AptDownloadDone, AptDownloadFails, GoesTo, Calls, AptSteps, lockVars
  <1>5. CASE AptGlob(t)
    <2>1. {Deb(d) : d \in archives} \subseteq DebFiles
      BY DEF OverlayTypeOK, DebFiles
    <2>2. QED
      BY <1>1, <1>5, <2>1 DEF OverlayTypeOK, AptGlob, Calls, AptSteps, lockVars
  <1>6. CASE AptExtract(t) \/ AptExtractFails(t)
    BY <1>1, <1>6, PartsAreEntries DEF OverlayTypeOK, AptExtract, AptExtractFails, Calls, lockVars
  <1>7. CASE AptRecord(t)
    BY <1>1, <1>7 DEF OverlayTypeOK, AptRecord, GoesTo, Calls, AptSteps, Recordable, lockVars
  <1>8. CASE AptUnlock(t)
    BY <1>1, <1>8 DEF OverlayTypeOK, AptUnlock, Returns
  <1>9. QED
    BY <1>2, <1>3, <1>4, <1>5, <1>6, <1>7, <1>8 DEF AptAdvance

LEMMA BusyIsEntries ==
  ASSUME OverlayTypeOK
  PROVE  Busy \subseteq Entries
  <1>1. ASSUME NEW t \in Tasks
        PROVE  About(t) \subseteq Entries
    <2>1. op[t].next \in PipSteps => op[t].pkg \in PipPkgs
      BY DEF OverlayTypeOK, Calls, NoCall, PipSteps, AptSteps
    <2>2. op[t].todo \subseteq Entries
      BY PartsAreEntries DEF OverlayTypeOK, Calls, NoCall
    <2>3. QED
      BY <2>1, <2>2, PipEntriesAre, PartsAreEntries DEF About
  <1>2. QED
    BY <1>1 DEF Busy

LEMMA OtherTypes ==
  ASSUME OverlayTypeOK, OtherDownload \/ ResetRoot \/ AnyChange \/ \E t \in Tasks : Ln(t) \/ LnLink(t)
  PROVE  OverlayTypeOK'
  <1>1. CASE OtherDownload
    BY <1>1 DEF OverlayTypeOK, OtherDownload
  <1>2. CASE ResetRoot
    <2>1. tree' \subseteq Entries /\ rough' \subseteq Entries
      BY <1>2, BusyIsEntries DEF OverlayTypeOK, ResetRoot
    <2>2. ASSUME NEW t \in Tasks
          PROVE  op'[t] \in Calls \cup {NoCall}
      <3>1. CASE Idle(t)
        BY <1>2, <3>1 DEF ResetRoot
      <3>2. CASE ~Idle(t)
        <4>1. op[t] \in Calls
          BY <3>2 DEF OverlayTypeOK, Idle
        <4>2. [op[t] EXCEPT !.old = TRUE] \in Calls
          BY <4>1 DEF Calls
        <4>3. QED
          BY <1>2, <3>2, <4>2 DEF ResetRoot
      <3>3. QED
        BY <3>1, <3>2
    <2>3. op' \in [Tasks -> Calls \cup {NoCall}]
      BY <1>2, <2>2 DEF ResetRoot
    <2>4. QED
      BY <1>2, <2>1, <2>3 DEF OverlayTypeOK, ResetRoot, lockVars
  <1>3. CASE AnyChange
    BY <1>3 DEF OverlayTypeOK, AnyChange, TreeBecomes, lockVars
  <1>4. ASSUME NEW t \in Tasks, Ln(t)
        PROVE  OverlayTypeOK'
    <2>1. PICK u \in UserFiles, force \in BOOLEAN :
            /\ tree' = IF force THEN tree \ {User(u)} ELSE tree
            /\ Begins(t, "lnLink", NoPkg, {User(u)})
      BY <1>4 DEF Ln
    <2>2. {User(u)} \subseteq Users
      BY DEF Users
    <2>3. [NoCall EXCEPT !.next = "lnLink", !.pkg = NoPkg, !.todo = {User(u)}] \in Calls
      BY <2>2 DEF NoCall, Calls
    <2>4. tree' \subseteq Entries /\ op' \in [Tasks -> Calls \cup {NoCall}]
      BY <2>1, <2>3 DEF OverlayTypeOK, Begins
    <2>5. QED
      BY <1>4, <2>4 DEF OverlayTypeOK, Ln, lockVars
  <1>5. ASSUME NEW t \in Tasks, LnLink(t)
        PROVE  OverlayTypeOK'
    <2>1. op[t].todo \subseteq Entries
      BY PartsAreEntries DEF OverlayTypeOK, Calls, NoCall
    <2>2. QED
      BY <1>5, <2>1 DEF OverlayTypeOK, LnLink, Returns, lockVars
  <1>6. QED
    BY <1>1, <1>2, <1>3, <1>4, <1>5

LEMMA OverlayTypeNext ==
  ASSUME OverlayTypeOK, OverlayNext
  PROVE  OverlayTypeOK'
  BY PipTypes, PipAdvanceTypes, AptBeginTypes, AptAdvanceTypes, OtherTypes
     DEF OverlayNext, Begin, Advance, AptAdvance, PipAdvance

(* A call that changes its step or ends; the others stay as they are. *)
LEMMA OthersStay ==
  ASSUME OverlayTypeOK, NEW t \in Tasks,
         \/ \E step : GoesTo(t, step)
         \/ Returns(t)
         \/ \E step, p, todo : Begins(t, step, p, todo)
  PROVE  \A u \in Tasks : u # t => op'[u] = op[u]
  BY DEF OverlayTypeOK, GoesTo, Returns, Begins

-----------------------------------------------------------------------------
(* The lock of the archive directory. *)

(* There is one mutex for the directory, and every apt install holds or awaits it. *)
OneMutex == \A t \in Tasks : op[t].next \in AptSteps => mutex = 1 /\ op[t].mu = 1

LockInv == mutex \in {0, 1} /\ OneMutex /\ LockExclusive

LEMMA LockKept ==
  ASSUME LockInv, UNCHANGED <<mutex, locked>>,
         \A u \in Tasks : op'[u].next \in AptSteps =>
             /\ op[u].next \in AptSteps /\ op'[u].mu = op[u].mu
             /\ op'[u].next \in LockSteps => op[u].next \in LockSteps
  PROVE  LockInv'
  BY DEF LockInv, OneMutex, LockExclusive, InSection, LockSteps

LEMMA LockAptInstall ==
  ASSUME OverlayTypeOK, LockInv, NEW t \in Tasks, NEW a \in AptPkgs, AptInstall(t, a)
  PROVE  LockInv'
  <1>1. mutex' = 1
    BY DEF AptInstall, LockInv
  <1>2. op'[t].next = "aptLock" /\ op'[t].mu = 1
    BY <1>1 DEF OverlayTypeOK, AptInstall, NoCall
  <1>3. UNCHANGED locked /\ \A u \in Tasks : u # t => op'[u] = op[u]
    BY DEF OverlayTypeOK, AptInstall
  <1>4. QED
    BY <1>1, <1>2, <1>3 DEF LockInv, OneMutex, LockExclusive, InSection, LockSteps, AptSteps

LEMMA LockAptLock ==
  ASSUME OverlayTypeOK, LockInv, NEW t \in Tasks, AptLock(t)
  PROVE  LockInv'
  <1>1. op[t] \in CallRecords /\ op[t].next = "aptLock" /\ op[t].mu = 1 /\ mutex = 1 /\ 1 \notin locked
    BY CallIsRecord DEF OverlayTypeOK, AptLock, LockInv, OneMutex, AptSteps
  <1>2. op'[t].next = "aptDownload" /\ op'[t].mu = 1 /\ \A u \in Tasks : u # t => op'[u] = op[u]
    BY <1>1 DEF OverlayTypeOK, AptLock, CallRecords
  <1>3. locked' = locked \cup {1} /\ UNCHANGED mutex
    BY <1>1 DEF AptLock
  <1>4. \A u \in Tasks : ~InSection(u)
    BY <1>1 DEF LockInv, OneMutex, LockExclusive, InSection, LockSteps
  <1>5. QED
    BY <1>1, <1>2, <1>3, <1>4 DEF LockInv, OneMutex, LockExclusive, InSection, LockSteps, AptSteps

LEMMA LockAptUnlock ==
  ASSUME OverlayTypeOK, LockInv, NEW t \in Tasks, AptUnlock(t)
  PROVE  LockInv'
  <1>1. op'[t].next = "idle" /\ \A u \in Tasks : u # t => op'[u] = op[u]
    BY DEF OverlayTypeOK, AptUnlock, Returns, NoCall
  <1>2. InSection(t) /\ \A u \in Tasks : u # t => ~InSection(u)
    BY DEF AptUnlock, LockInv, LockExclusive, InSection, LockSteps, AptSteps
  <1>3. \A u \in Tasks : ~InSection(u)'
    BY <1>1, <1>2 DEF InSection, LockSteps, AptSteps
  <1>4. UNCHANGED mutex
    BY DEF AptUnlock
  <1>5. QED
    BY <1>1, <1>3, <1>4 DEF LockInv, OneMutex, LockExclusive, AptSteps

(* The steps between the two keep the mutex. *)
LEMMA LockWithin ==
  ASSUME OverlayTypeOK, LockInv, NEW t \in Tasks,
         \/ AptDownload(t) \/ AptDownloadDone(t) \/ AptDownloadFails(t)
         \/ AptGlob(t) \/ AptExtract(t) \/ AptExtractFails(t) \/ AptRecord(t)
  PROVE  LockInv'
  <1>1. op[t] \in CallRecords /\ op[t].next \in LockSteps
    BY CallIsRecord DEF OverlayTypeOK, AptDownload, AptDownloadDone, AptDownloadFails, AptGlob,
       AptExtract, AptExtractFails, AptRecord, LockSteps, AptSteps
  <1>2. op'[t].mu = op[t].mu /\ \A u \in Tasks : u # t => op'[u] = op[u]
    BY <1>1 DEF OverlayTypeOK, CallRecords, GoesTo, AptDownload, AptDownloadDone, AptDownloadFails,
       AptGlob, AptExtract, AptExtractFails, AptRecord
  <1>3. UNCHANGED <<mutex, locked>>
    BY DEF AptDownload, AptDownloadDone, AptDownloadFails, AptGlob, AptExtract, AptExtractFails, AptRecord, lockVars
  <1>4. QED
    BY <1>1, <1>2, <1>3, LockKept DEF LockSteps

(* Where a call that is no apt install goes on. *)
LEMMA StepsOfPip ==
  ASSUME OverlayTypeOK, NEW t \in Tasks,
         \/ \E p \in PipPkgs : PipInstall(t, p) \/ PipUninstall(t, p)
         \/ PipAdvance(t)
         \/ Ln(t) \/ LnLink(t)
  PROVE  op'[t].next \in PipSteps \cup {"lnLink", "idle"} /\ \A u \in Tasks : u # t => op'[u] = op[u]
  <1>1. op[t] \in CallRecords
    BY CallIsRecord DEF OverlayTypeOK
  <1>2. ASSUME NEW p, NEW todo, NEW step \in {"pipChild", "pipRemove", "lnLink"}, Begins(t, step, p, todo)
        PROVE  op'[t].next = step /\ \A u \in Tasks : u # t => op'[u] = op[u]
    BY <1>2 DEF OverlayTypeOK, Begins, NoCall
  <1>3. CASE \/ \E p \in PipPkgs : PipInstall(t, p) \/ PipUninstall(t, p)
             \/ Ln(t)
    BY <1>2, <1>3 DEF PipInstall, PipUninstall, Ln, PipSteps
  <1>4. CASE PipChildFails(t) \/ PipRecord(t) \/ PipForget(t) \/ LnLink(t)
    BY <1>4 DEF OverlayTypeOK, PipChildFails, PipRecord, PipForget, LnLink, Returns, NoCall
  <1>5. CASE PipChildWrites(t) \/ PipChildDone(t) \/ PipRemoves(t) \/ PipRemoveDone(t)
    BY <1>1, <1>5 DEF OverlayTypeOK, CallRecords, PipChildWrites, PipChildDone, PipRemoves, PipRemoveDone,
       GoesTo, PipSteps
  <1>6. QED
    BY <1>3, <1>4, <1>5 DEF PipAdvance

(* The other calls, and what is not a call. *)
LEMMA LockOther ==
  ASSUME OverlayTypeOK, LockInv, NEW t \in Tasks,
         \/ \E p \in PipPkgs : PipInstall(t, p) \/ PipUninstall(t, p)
         \/ \E a \in AptPkgs : AptRemove(t, a)
         \/ PipAdvance(t)
         \/ Ln(t) \/ LnLink(t)
  PROVE  LockInv'
  <1>1. CASE \E a \in AptPkgs : AptRemove(t, a)
    BY <1>1, LockKept DEF AptRemove, lockVars
  <1>2. CASE ~\E a \in AptPkgs : AptRemove(t, a)
    <2>1. op'[t].next \notin AptSteps /\ \A u \in Tasks : u # t => op'[u] = op[u]
      BY <1>2, StepsOfPip DEF PipSteps, AptSteps
    <2>2. UNCHANGED <<mutex, locked>>
      BY <1>2 DEF PipInstall, PipUninstall, PipAdvance, PipChildWrites, PipChildDone, PipChildFails, PipRecord,
         PipRemoves, PipRemoveDone, PipForget, Ln, LnLink, lockVars
    <2>3. QED
      BY <2>1, <2>2, LockKept
  <1>3. QED
    BY <1>1, <1>2

LEMMA LockEnvironment ==
  ASSUME OverlayTypeOK, LockInv, OtherDownload \/ ResetRoot \/ AnyChange
  PROVE  LockInv'
  <1>1. UNCHANGED <<mutex, locked>>
    BY DEF OtherDownload, ResetRoot, AnyChange, TreeBecomes, lockVars
  <1>2. ASSUME NEW u \in Tasks
        PROVE  op'[u].next = op[u].next /\ op'[u].mu = op[u].mu
    <2>1. CASE ResetRoot
      <3>1. op[u] \in CallRecords
        BY CallIsRecord DEF OverlayTypeOK
      <3>2. op'[u] = IF Idle(u) THEN NoCall ELSE [op[u] EXCEPT !.old = TRUE]
        BY <2>1 DEF ResetRoot
      <3>3. QED
        BY <3>1, <3>2 DEF Idle, CallRecords
    <2>2. CASE OtherDownload \/ AnyChange
      BY <2>2 DEF OtherDownload, AnyChange, TreeBecomes
    <2>3. QED
      BY <2>1, <2>2
  <1>3. QED
    BY <1>1, <1>2, LockKept

LEMMA LockNext ==
  ASSUME OverlayTypeOK, LockInv, OverlayNext
  PROVE  LockInv'
  BY LockAptInstall, LockAptLock, LockAptUnlock, LockWithin, LockOther, LockEnvironment
     DEF OverlayNext, Begin, Advance, PipAdvance

LEMMA LockStutter ==
  ASSUME LockInv, UNCHANGED ovars
  PROVE  LockInv'
  BY LockKept DEF ovars, lockVars

LEMMA LockInit == OverlayInit => LockInv
  BY DEF OverlayInit, LockInv, OneMutex, LockExclusive, InSection, LockSteps, AptSteps, NoCall

(* Every variable of the root keeps its type. *)
THEOREM OverlayTypeCorrect == OverlaySpec => []OverlayTypeOK
  <1>1. OverlayTypeOK /\ UNCHANGED ovars => OverlayTypeOK'
    BY DEF OverlayTypeOK, ovars, lockVars
  <1>2. QED
    BY <1>1, OverlayTypeInit, OverlayTypeNext, PTL DEF OverlaySpec

LEMMA LockAlways == OverlaySpec => []LockInv
  <1>1. OverlayTypeOK /\ LockInv /\ [OverlayNext]_ovars => LockInv'
    BY LockNext, LockStutter
  <1>2. QED
    BY <1>1, LockInit, OverlayTypeCorrect, PTL DEF OverlaySpec

(* Of any number of concurrent installs one at a time is between the lock of the archive *)
(* directory and its deferred unlock, and its mutex is locked (dirLocks, apt.go).        *)
THEOREM OverlayLockExclusive == OverlaySpec => []LockExclusive
  BY LockAlways, PTL DEF LockInv

(* The deferred unlock: a mutex of dirLocks is locked for an install that is between its *)
(* lock and its unlock, never for one that has failed or returned, so whoever waits for  *)
(* it waits for a call that still has the mutex to give back.                            *)
LockReturned == \A m \in locked : \E t \in Tasks : InSection(t) /\ op[t].mu = m

LEMMA ReturnedKept ==
  ASSUME LockReturned, UNCHANGED locked,
         \A u \in Tasks : InSection(u) => InSection(u)' /\ op'[u].mu = op[u].mu
  PROVE  LockReturned'
  BY DEF LockReturned

LEMMA ReturnedLock ==
  ASSUME OverlayTypeOK, LockReturned, NEW t \in Tasks, AptLock(t)
  PROVE  LockReturned'
  <1>1. op[t] \in CallRecords /\ op[t].next = "aptLock"
    BY CallIsRecord DEF OverlayTypeOK, AptLock
  <1>2. op'[t].next = "aptDownload" /\ op'[t].mu = op[t].mu /\ \A u \in Tasks : u # t => op'[u] = op[u]
    BY <1>1 DEF OverlayTypeOK, AptLock, CallRecords
  <1>3. locked' = locked \cup {op[t].mu}
    BY DEF AptLock
  <1>4. ~InSection(t) /\ InSection(t)'
    BY <1>1, <1>2 DEF InSection, LockSteps, AptSteps
  <1>5. ASSUME NEW m \in locked
        PROVE  \E u \in Tasks : InSection(u)' /\ op'[u].mu = m
    <2>1. PICK u \in Tasks : InSection(u) /\ op[u].mu = m
      BY DEF LockReturned
    <2>2. op'[u] = op[u]
      BY <1>2, <1>4, <2>1
    <2>3. QED
      BY <2>1, <2>2 DEF InSection
  <1>6. QED
    BY <1>2, <1>3, <1>4, <1>5 DEF LockReturned

LEMMA ReturnedUnlock ==
  ASSUME OverlayTypeOK, LockInv, LockReturned, NEW t \in Tasks, AptUnlock(t)
  PROVE  LockReturned'
  <1>1. InSection(t) /\ \A u \in Tasks : u # t => ~InSection(u)
    BY DEF AptUnlock, LockInv, LockExclusive, InSection, LockSteps, AptSteps
  <1>2. locked' = locked \ {op[t].mu}
    BY DEF AptUnlock
  <1>3. locked' = {}
    BY <1>1, <1>2 DEF LockReturned
  <1>4. QED
    BY <1>3 DEF LockReturned

LEMMA ReturnedWithin ==
  ASSUME OverlayTypeOK, LockReturned, NEW t \in Tasks,
         \/ AptDownload(t) \/ AptDownloadDone(t) \/ AptDownloadFails(t)
         \/ AptGlob(t) \/ AptExtract(t) \/ AptExtractFails(t) \/ AptRecord(t)
  PROVE  LockReturned'
  <1>1. op[t] \in CallRecords /\ op[t].next \in LockSteps
    BY CallIsRecord DEF OverlayTypeOK, AptDownload, AptDownloadDone, AptDownloadFails, AptGlob,
       AptExtract, AptExtractFails, AptRecord, LockSteps, AptSteps
  <1>2. /\ op'[t].mu = op[t].mu /\ op'[t].next \in LockSteps
        /\ \A u \in Tasks : u # t => op'[u] = op[u]
    BY <1>1 DEF OverlayTypeOK, CallRecords, GoesTo, AptDownload, AptDownloadDone, AptDownloadFails,
       AptGlob, AptExtract, AptExtractFails, AptRecord, LockSteps, AptSteps
  <1>3. UNCHANGED locked
    BY DEF AptDownload, AptDownloadDone, AptDownloadFails, AptGlob, AptExtract, AptExtractFails, AptRecord, lockVars
  <1>4. QED
    BY <1>2, <1>3, ReturnedKept DEF InSection

LEMMA ReturnedOther ==
  ASSUME OverlayTypeOK, LockReturned, NEW t \in Tasks,
         \/ \E p \in PipPkgs : PipInstall(t, p) \/ PipUninstall(t, p)
         \/ \E a \in AptPkgs : AptInstall(t, a) \/ AptRemove(t, a)
         \/ PipAdvance(t)
         \/ Ln(t) \/ LnLink(t)
  PROVE  LockReturned'
  <1>1. UNCHANGED locked
    BY DEF PipInstall, PipUninstall, AptInstall, AptRemove, PipAdvance, PipChildWrites, PipChildDone,
       PipChildFails, PipRecord, PipRemoves, PipRemoveDone, PipForget, Ln, LnLink, lockVars
  <1>2. CASE \E a \in AptPkgs : AptRemove(t, a)
    BY <1>1, <1>2, ReturnedKept DEF AptRemove, InSection
  <1>3. CASE ~\E a \in AptPkgs : AptRemove(t, a)
    <2>1. ~InSection(t)
      <3>1. CASE Idle(t)
        BY <3>1 DEF Idle, NoCall, InSection, LockSteps, AptSteps
      <3>2. CASE PipAdvance(t) \/ LnLink(t)
        BY <3>2 DEF PipAdvance, PipChildWrites, PipChildDone, PipChildFails, PipRecord,
           PipRemoves, PipRemoveDone, PipForget, LnLink, InSection, LockSteps, AptSteps
      <3>3. QED
        BY <1>3, <3>1, <3>2 DEF PipInstall, PipUninstall, AptInstall, Ln
    <2>2. CASE \E a \in AptPkgs : AptInstall(t, a)
      <3>1. \A u \in Tasks : u # t => op'[u] = op[u]
        BY <2>2 DEF OverlayTypeOK, AptInstall
      <3>2. QED
        BY <1>1, <2>1, <3>1, ReturnedKept DEF InSection
    <2>3. CASE ~\E a \in AptPkgs : AptInstall(t, a)
      <3>1. \A u \in Tasks : u # t => op'[u] = op[u]
        BY <1>3, <2>3, StepsOfPip
      <3>2. QED
        BY <1>1, <2>1, <3>1, ReturnedKept DEF InSection
    <2>4. QED
      BY <2>2, <2>3
  <1>4. QED
    BY <1>2, <1>3

LEMMA ReturnedEnvironment ==
  ASSUME OverlayTypeOK, LockReturned, OtherDownload \/ ResetRoot \/ AnyChange
  PROVE  LockReturned'
  <1>1. UNCHANGED locked
    BY DEF OtherDownload, ResetRoot, AnyChange, TreeBecomes, lockVars
  <1>2. ASSUME NEW u \in Tasks
        PROVE  op'[u].next = op[u].next /\ op'[u].mu = op[u].mu
    <2>1. CASE ResetRoot
      <3>1. op[u] \in CallRecords
        BY CallIsRecord DEF OverlayTypeOK
      <3>2. op'[u] = IF Idle(u) THEN NoCall ELSE [op[u] EXCEPT !.old = TRUE]
        BY <2>1 DEF ResetRoot
      <3>3. QED
        BY <3>1, <3>2 DEF Idle, CallRecords
    <2>2. CASE OtherDownload \/ AnyChange
      BY <2>2 DEF OtherDownload, AnyChange, TreeBecomes
    <2>3. QED
      BY <2>1, <2>2
  <1>3. QED
    BY <1>1, <1>2, ReturnedKept DEF InSection

(* No install keeps the mutex of the archive directory: not one whose download fails, not *)
(* one whose files cannot be extracted, not one whose sandbox is reset meanwhile.         *)
THEOREM OverlayLockReturned == OverlaySpec => []LockReturned
  <1>1. OverlayInit => LockReturned
    BY DEF OverlayInit, LockReturned
  <1>2. OverlayTypeOK /\ LockInv /\ LockReturned /\ [OverlayNext]_ovars => LockReturned'
    <2> SUFFICES ASSUME OverlayTypeOK, LockInv, LockReturned, [OverlayNext]_ovars
                 PROVE  LockReturned'
      OBVIOUS
    <2>1. CASE OverlayNext
      BY <2>1, ReturnedLock, ReturnedUnlock, ReturnedWithin, ReturnedOther, ReturnedEnvironment
      DEF OverlayNext, Begin, Advance, PipAdvance
    <2>2. CASE UNCHANGED ovars
      BY <2>2, ReturnedKept DEF ovars, lockVars, InSection
    <2>3. QED
      BY <2>1, <2>2
  <1>3. QED
    BY <1>1, <1>2, LockAlways, OverlayTypeCorrect, PTL DEF OverlaySpec

-----------------------------------------------------------------------------
(***************************************************************************)
(* A call winds down.  CallsReturn is a liveness property and stays with   *)
(* TLC; this is the part of it that is about steps: nothing a call does,   *)
(* and nothing done to it, takes it back.                                  *)
(***************************************************************************)

(* How many kinds of steps a call has still before it, at most. *)
StepsLeft(step) ==
    CASE step = "aptLock"                                             -> 5
      [] step = "aptDownload"                                         -> 4
      [] step = "aptGlob"                                             -> 3
      [] step \in {"aptExtract", "pipChild", "pipRemove"}             -> 2
      [] step \in {"aptUnlock", "pipRecord", "pipForget", "lnLink"}   -> 1
      [] OTHER                                                        -> 0

(* A call comes closer to its return: a later kind of step, or fewer entries to handle. *)
Nearer(old, new) ==
    \/ StepsLeft(new.next) < StepsLeft(old.next)
    \/ new.next = old.next /\ new.todo \subseteq old.todo /\ new.todo # old.todo

CallsWindDown ==
    \A t \in Tasks : ~Idle(t) =>
        /\ Advance(t) => Nearer(op[t], op'[t])
        /\ op'[t] # op[t] => Advance(t) \/ (ResetRoot /\ op'[t] = [op[t] EXCEPT !.old = TRUE])

LEMMA ReturnsNearer ==
  ASSUME OverlayTypeOK, NEW t \in Tasks, StepsLeft(op[t].next) > 0, Returns(t)
  PROVE  Nearer(op[t], op'[t])
  <1>1. op'[t].next = "idle"
    BY DEF OverlayTypeOK, Returns, NoCall
  <1>2. QED
    BY <1>1 DEF Nearer, StepsLeft

LEMMA AdvanceNearer ==
  ASSUME OverlayTypeOK, NEW t \in Tasks, Advance(t)
  PROVE  Nearer(op[t], op'[t])
  <1>1. op[t] \in CallRecords
    BY CallIsRecord DEF OverlayTypeOK
  <1>2. CASE PipChildFails(t) \/ PipRecord(t) \/ PipForget(t) \/ AptUnlock(t) \/ LnLink(t)
    <2>1. Returns(t)
      BY <1>2 DEF PipChildFails, PipRecord, PipForget, AptUnlock, LnLink
    <2>2. op[t].next \in {"pipChild", "pipRecord", "pipForget", "aptUnlock", "lnLink"}
      BY <1>2 DEF PipChildFails, PipRecord, PipForget, AptUnlock, LnLink
    <2>3. QED
      BY <2>1, <2>2, ReturnsNearer DEF StepsLeft
  <1>3. CASE PipChildWrites(t) \/ PipRemoves(t) \/ AptExtract(t) \/ AptExtractFails(t)
    <2>1. PICK e \in op[t].todo : op' = [op EXCEPT ![t].todo = @ \ {e}]
      BY <1>3 DEF PipChildWrites, PipRemoves, AptExtract, AptExtractFails
    <2>2. op'[t].todo = op[t].todo \ {e} /\ op'[t].next = op[t].next
      BY <1>1, <2>1 DEF OverlayTypeOK, CallRecords
    <2>3. QED
      BY <2>1, <2>2 DEF Nearer
  <1>4. CASE AptDownload(t)
    <2>1. PICK d \in Debs : Deb(d) \in op[t].todo /\ op' = [op EXCEPT ![t].todo = @ \ {Deb(d)}]
      BY <1>4 DEF AptDownload
    <2>2. op'[t].todo = op[t].todo \ {Deb(d)} /\ op'[t].next = op[t].next
      BY <1>1, <2>1 DEF OverlayTypeOK, CallRecords
    <2>3. QED
      BY <2>1, <2>2 DEF Nearer
  <1>5. CASE AptLock(t)
    <2>1. op[t].next = "aptLock" /\ op'[t].next = "aptDownload"
      BY <1>1, <1>5 DEF OverlayTypeOK, CallRecords, AptLock
    <2>2. QED
      BY <2>1 DEF Nearer, StepsLeft
  <1>6. CASE PipChildDone(t) \/ PipRemoveDone(t)
    <2>1. op[t].next \in {"pipChild", "pipRemove"} /\ op'[t].next \in {"pipRecord", "pipForget"}
      BY <1>1, <1>6 DEF OverlayTypeOK, CallRecords, PipChildDone, PipRemoveDone, GoesTo
    <2>2. QED
      BY <2>1 DEF Nearer, StepsLeft
  <1>7. CASE AptDownloadDone(t) \/ AptDownloadFails(t)
    <2>1. op[t].next = "aptDownload" /\ op'[t].next \in {"aptGlob", "aptUnlock"}
      BY <1>1, <1>7 DEF OverlayTypeOK, CallRecords, AptDownloadDone, AptDownloadFails, GoesTo
    <2>2. QED
      BY <2>1 DEF Nearer, StepsLeft
  <1>8. CASE AptGlob(t)
    <2>1. op[t].next = "aptGlob" /\ op'[t].next = "aptExtract"
      BY <1>1, <1>8 DEF OverlayTypeOK, CallRecords, AptGlob
    <2>2. QED
      BY <2>1 DEF Nearer, StepsLeft
  <1>9. CASE AptRecord(t)
    <2>1. op[t].next = "aptExtract" /\ op'[t].next = "aptUnlock"
      BY <1>1, <1>9 DEF OverlayTypeOK, CallRecords, AptRecord, GoesTo
    <2>2. QED
      BY <2>1 DEF Nearer, StepsLeft
  <1>10. QED
    BY <1>2, <1>3, <1>4, <1>5, <1>6, <1>7, <1>8, <1>9 DEF Advance

(* Nobody but its task changes a call, except that Reset takes its manifest away. *)
LEMMA CallIsOwn ==
  ASSUME OverlayTypeOK, OverlayNext, NEW t \in Tasks, ~Idle(t), op'[t] # op[t]
  PROVE  Advance(t) \/ (ResetRoot /\ op'[t] = [op[t] EXCEPT !.old = TRUE])
  <1>1. CASE ResetRoot
    BY <1>1 DEF ResetRoot
  <1>2. CASE OtherDownload \/ AnyChange
    BY <1>2 DEF OtherDownload, AnyChange, TreeBecomes
  <1>3. ASSUME NEW u \in Tasks, Begin(u)
        PROVE  FALSE
    <2>1. CASE \E a \in AptPkgs : AptRemove(u, a)
      BY <2>1 DEF AptRemove
    <2>2. CASE ~\E a \in AptPkgs : AptRemove(u, a)
      <3>1. Idle(u)
        BY <1>3, <2>2 DEF Begin, PipInstall, PipUninstall, AptInstall, Ln
      <3>2. u # t
        BY <3>1
      <3>3. CASE \E a \in AptPkgs : AptInstall(u, a)
        BY <3>2, <3>3 DEF OverlayTypeOK, AptInstall
      <3>4. CASE ~\E a \in AptPkgs : AptInstall(u, a)
        BY <1>3, <2>2, <3>2, <3>4, StepsOfPip DEF Begin
      <3>5. QED
        BY <3>3, <3>4
    <2>3. QED
      BY <2>1, <2>2
  <1>4. ASSUME NEW u \in Tasks, u # t, Advance(u)
        PROVE  FALSE
    <2>1. CASE PipAdvance(u) \/ LnLink(u)
      BY <1>4, <2>1, StepsOfPip
    <2>2. CASE AptAdvance(u)
      BY <1>4, <2>2 DEF OverlayTypeOK, AptAdvance, AptLock, AptDownload, AptDownloadDone,
         AptDownloadFails, AptGlob, AptExtract, AptExtractFails, AptRecord, AptUnlock, GoesTo, Returns
    <2>3. QED
      BY <1>4, <2>1, <2>2 DEF Advance, PipAdvance, AptAdvance
  <1>5. QED
    BY <1>1, <1>2, <1>3, <1>4 DEF OverlayNext

(* Every step of a shim call brings it nearer to its return and no step of another task or
   process takes it back, so that with finitely many entries a call has finitely many steps;
   OverlayLockReturned says the rest, that the lock it waits for is given back. *)
THEOREM OverlayCallsWindDown == OverlaySpec => [][CallsWindDown]_ovars
  <1>1. OverlayTypeOK /\ [OverlayNext]_ovars => [CallsWindDown]_ovars
    BY AdvanceNearer, CallIsOwn DEF CallsWindDown
  <1>2. QED
    BY <1>1, OverlayTypeCorrect, PTL DEF OverlaySpec

-----------------------------------------------------------------------------
(* What is recorded was extracted. *)

(* How far a call has come with the files of its package.  A download puts each of them   *)
(* into the archive, which loses none, and the extraction reads all that are there.        *)
Downloading(t) ==
    op[t].next = "aptDownload" => \A d \in Needs[op[t].pkg] : Deb(d) \in op[t].todo \/ d \in archives

Downloaded(t) == op[t].next = "aptGlob" => Needs[op[t].pkg] \subseteq archives

Extracting(t) ==
    op[t].next = "aptExtract" /\ ~op[t].old =>
        \A d \in Needs[op[t].pkg] : Deb(d) \in tree \cup rough \cup op[t].todo

Progress(t) == Downloading(t) /\ Downloaded(t) /\ Extracting(t)

ExtractInv == RecordedExtracted /\ \A t \in Tasks : Progress(t)

(* Nothing but Reset makes the root forget a file that was extracted. *)
DebsKept == \A d \in Debs : Deb(d) \in tree \cup rough => Deb(d) \in tree' \cup rough'

LEMMA ProgressKept ==
  ASSUME NEW t \in Tasks, OverlayTypeOK, Progress(t), op'[t] = op[t], archives \subseteq archives', DebsKept
  PROVE  Progress(t)'
  <1>1. op[t].next \in AptSteps => op[t].pkg \in AptPkgs
    BY DEF OverlayTypeOK, Calls, NoCall, PipSteps, AptSteps
  <1>2. QED
    BY <1>1 DEF Progress, Downloading, Downloaded, Extracting, DebsKept, AptSteps

(* A step of a task that begins or ends a call, or a step of one, and leaves the manifest alone *)
(* or takes records away.                                                                         *)
LEMMA ExtractKept ==
  ASSUME OverlayTypeOK, ExtractInv, NEW t \in Tasks, \A u \in Tasks : u # t => op'[u] = op[u],
         archives \subseteq archives', DebsKept, Progress(t)',
         \A a \in AptPkgs : <<"apt", a>> \in manifest' => <<"apt", a>> \in manifest
  PROVE  ExtractInv'
  <1>1. RecordedExtracted'
    BY DEF ExtractInv, RecordedExtracted, DebsKept
  <1>2. \A u \in Tasks : Progress(u)'
    BY ProgressKept DEF ExtractInv
  <1>3. QED
    BY <1>1, <1>2 DEF ExtractInv

LEMMA NoProgress ==
  ASSUME NEW t \in Tasks, op'[t].next \notin {"aptDownload", "aptGlob", "aptExtract"}
  PROVE  Progress(t)'
  BY DEF Progress, Downloading, Downloaded, Extracting

(* The entries of pip and of users are no .deb files. *)
LEMMA NoDebs == \A d \in Debs : Deb(d) \notin Pips \cup Users
  BY DEF Pips, Users, Pip, Deb, User

LEMMA ExtractOther ==
  ASSUME OverlayTypeOK, ExtractInv, NEW t \in Tasks,
         \/ \E p \in PipPkgs : PipInstall(t, p) \/ PipUninstall(t, p)
         \/ PipAdvance(t)
         \/ Ln(t) \/ LnLink(t)
  PROVE  ExtractInv'
  <1>1. op'[t].next \notin {"aptDownload", "aptGlob", "aptExtract"} /\ \A u \in Tasks : u # t => op'[u] = op[u]
    BY StepsOfPip DEF PipSteps
  <1>2. UNCHANGED archives
    BY DEF PipInstall, PipUninstall, PipAdvance, PipChildWrites, PipChildDone, PipChildFails, PipRecord,
       PipRemoves, PipRemoveDone, PipForget, Ln, LnLink, lockVars
  <1>3. DebsKept
    <2>1. CASE PipAdvance(t)
      <3>1. op[t].next \in PipSteps
        BY <2>1 DEF PipAdvance, PipChildWrites, PipChildDone, PipChildFails, PipRecord, PipRemoves, PipRemoveDone,
           PipForget, PipSteps
      <3>2. op[t].todo \subseteq Pips
        BY <3>1 DEF OverlayTypeOK, Calls, NoCall, PipSteps, AptSteps
      <3>3. QED
        BY <2>1, <3>2, NoDebs DEF DebsKept, PipAdvance, PipChildWrites, PipChildDone, PipChildFails, PipRecord,
           PipRemoves, PipRemoveDone, PipForget
    <2>2. CASE Ln(t)
      BY <2>2 DEF DebsKept, Ln, Deb, User
    <2>3. CASE LnLink(t) \/ \E p \in PipPkgs : PipInstall(t, p) \/ PipUninstall(t, p)
      BY <2>3 DEF DebsKept, LnLink, PipInstall, PipUninstall
    <2>4. QED
      BY <2>1, <2>2, <2>3
  <1>4. \A a \in AptPkgs : <<"apt", a>> \in manifest' => <<"apt", a>> \in manifest
    <2>1. CASE PipAdvance(t)
      BY <2>1 DEF PipAdvance, PipChildWrites, PipChildDone, PipChildFails, PipRecord, PipRemoves, PipRemoveDone,
         PipForget
    <2>2. CASE \/ \E p \in PipPkgs : PipInstall(t, p) \/ PipUninstall(t, p)
               \/ Ln(t) \/ LnLink(t)
      BY <2>2 DEF PipInstall, PipUninstall, Ln, LnLink
    <2>3. QED
      BY <2>1, <2>2
  <1>5. QED
    BY <1>1, <1>2, <1>3, <1>4, ExtractKept, NoProgress


LEMMA StepsOfApt ==
  ASSUME OverlayTypeOK, NEW t \in Tasks, AptAdvance(t)
  PROVE  /\ op[t] \in CallRecords /\ op[t].pkg \in AptPkgs
         /\ \A u \in Tasks : u # t => op'[u] = op[u]
  <1>1. op[t] \in CallRecords
    BY CallIsRecord DEF OverlayTypeOK
  <1>2. op[t].next \in AptSteps
    BY DEF AptAdvance, AptLock, AptDownload, AptDownloadDone, AptDownloadFails, AptGlob, AptExtract,
       AptExtractFails, AptRecord, AptUnlock, AptSteps
  <1>3. op[t].pkg \in AptPkgs
    BY <1>2 DEF OverlayTypeOK, Calls, NoCall, PipSteps, AptSteps
  <1>4. \A u \in Tasks : u # t => op'[u] = op[u]
    BY DEF OverlayTypeOK, AptAdvance, AptLock, AptDownload, AptDownloadDone, AptDownloadFails, AptGlob, AptExtract,
       AptExtractFails, AptRecord, AptUnlock, GoesTo, Returns
  <1>5. QED
    BY <1>1, <1>3, <1>4

LEMMA ExtractApt ==
  ASSUME OverlayTypeOK, ExtractInv, NEW t \in Tasks, AptAdvance(t)
  PROVE  ExtractInv'
  <1>1. op[t] \in CallRecords /\ op[t].pkg \in AptPkgs /\ \A u \in Tasks : u # t => op'[u] = op[u]
    BY StepsOfApt
  <1>2. Progress(t)
    BY DEF ExtractInv
  <1>3. DebsKept /\ archives \subseteq archives'
    BY DEF DebsKept, AptAdvance, AptLock, AptDownload, AptDownloadDone, AptDownloadFails, AptGlob, AptExtract,
       AptExtractFails, AptRecord, AptUnlock, lockVars
  <1>4. CASE ~AptRecord(t)
    <2>1. UNCHANGED manifest
      BY <1>4 DEF AptAdvance, AptLock, AptDownload, AptDownloadDone, AptDownloadFails, AptGlob, AptExtract,
         AptExtractFails, AptUnlock
    <2>2. CASE AptLock(t)
      <3>1. op'[t].next = "aptDownload" /\ op'[t].pkg = op[t].pkg
            /\ op'[t].todo = {Deb(d) : d \in Needs[op[t].pkg]}
        BY <1>1, <2>2 DEF AptLock, OverlayTypeOK, CallRecords
      <3>2. QED
        BY <1>1, <1>3, <2>1, <3>1, ExtractKept DEF Progress, Downloading, Downloaded, Extracting
    <2>3. CASE AptDownload(t)
      <3>1. PICK d \in Debs : archives' = archives \cup {d} /\ op' = [op EXCEPT ![t].todo = @ \ {Deb(d)}]
        BY <2>3 DEF AptDownload
      <3>2. op'[t].next = "aptDownload" /\ op'[t].pkg = op[t].pkg /\ op'[t].todo = op[t].todo \ {Deb(d)}
        BY <1>1, <2>3, <3>1 DEF AptDownload, OverlayTypeOK, CallRecords
      <3>3. \A e \in Needs[op[t].pkg] : Deb(e) \in op[t].todo \/ e \in archives
        BY <1>2, <2>3 DEF AptDownload, Progress, Downloading
      <3>4. \A e \in Needs[op[t].pkg] : Deb(e) \in op'[t].todo \/ e \in archives'
        BY <1>1, <3>1, <3>2, <3>3 DEF Deb
      <3>5. Progress(t)'
        BY <3>2, <3>4 DEF Progress, Downloading, Downloaded, Extracting
      <3>6. QED
        BY <1>1, <1>3, <2>1, <3>5, ExtractKept
    <2>4. CASE AptDownloadDone(t)
      <3>1. op'[t].next = "aptGlob" /\ op'[t].pkg = op[t].pkg
        BY <1>1, <2>4 DEF AptDownloadDone, GoesTo, OverlayTypeOK, CallRecords
      <3>2. Needs[op[t].pkg] \subseteq archives /\ UNCHANGED archives
        BY <1>1, <1>2, <2>4 DEF AptDownloadDone, Progress, Downloading, lockVars
      <3>3. QED
        BY <1>1, <1>3, <2>1, <3>1, <3>2, ExtractKept DEF Progress, Downloading, Downloaded, Extracting
    <2>5. CASE AptGlob(t)
      <3>1. /\ op'[t].next = "aptExtract" /\ op'[t].pkg = op[t].pkg
            /\ op'[t].todo = {Deb(d) : d \in archives}
        BY <1>1, <2>5 DEF AptGlob, OverlayTypeOK, CallRecords
      <3>2. Needs[op[t].pkg] \subseteq archives
        BY <1>2, <2>5 DEF AptGlob, Progress, Downloaded
      <3>3. Progress(t)'
        BY <3>1, <3>2 DEF Progress, Downloading, Downloaded, Extracting
      <3>4. QED
        BY <1>1, <1>3, <2>1, <3>3, ExtractKept
    <2>6. CASE AptExtract(t) \/ AptExtractFails(t)
      <3>1. PICK e \in op[t].todo : /\ e \in tree' \cup rough'
                                    /\ op' = [op EXCEPT ![t].todo = @ \ {e}]
        BY <2>6 DEF AptExtract, AptExtractFails
      <3>2. /\ op[t].next = "aptExtract" /\ op'[t].next = "aptExtract" /\ op'[t].pkg = op[t].pkg
            /\ op'[t].old = op[t].old /\ op'[t].todo = op[t].todo \ {e}
        BY <1>1, <2>6, <3>1 DEF AptExtract, AptExtractFails, OverlayTypeOK, CallRecords
      <3>3. Progress(t)'
        BY <1>1, <1>2, <1>3, <3>1, <3>2 DEF Progress, Downloading, Downloaded, Extracting, DebsKept
      <3>4. QED
        BY <1>1, <1>3, <2>1, <3>3, ExtractKept
    <2>7. CASE AptDownloadFails(t) \/ AptUnlock(t)
      <3>1. op'[t].next \in {"aptUnlock", "idle"}
        BY <1>1, <2>7 DEF AptDownloadFails, AptUnlock, Returns, NoCall, OverlayTypeOK, CallRecords
      <3>2. QED
        BY <1>1, <1>3, <2>1, <3>1, ExtractKept, NoProgress
    <2>8. QED
      BY <1>4, <2>2, <2>3, <2>4, <2>5, <2>6, <2>7 DEF AptAdvance
  <1>5. CASE AptRecord(t)
    <2>1. op'[t].next = "aptUnlock" /\ UNCHANGED archives
      BY <1>1, <1>5 DEF AptRecord, GoesTo, OverlayTypeOK, CallRecords, lockVars
    <2>2. \A u \in Tasks : Progress(u)'
      BY <1>1, <1>3, <2>1, NoProgress, ProgressKept DEF ExtractInv
    <2>3. ~op[t].old => \A d \in Needs[op[t].pkg] : Deb(d) \in tree' \cup rough'
      BY <1>1, <1>2, <1>5 DEF AptRecord, Progress, Extracting
    <2>4. RecordedExtracted'
      BY <1>1, <1>3, <1>5, <2>3 DEF AptRecord, ExtractInv, RecordedExtracted, DebsKept
    <2>5. QED
      BY <2>2, <2>4 DEF ExtractInv
  <1>6. QED
    BY <1>4, <1>5

(* A begin, and what is not a call. *)
LEMMA ExtractBegin ==
  ASSUME OverlayTypeOK, ExtractInv, NEW t \in Tasks, NEW a \in AptPkgs, AptInstall(t, a) \/ AptRemove(t, a)
  PROVE  ExtractInv'
  <1>1. UNCHANGED <<archives, tree, rough>>
    BY DEF AptInstall, AptRemove, lockVars
  <1>2. DebsKept /\ \A b \in AptPkgs : <<"apt", b>> \in manifest' => <<"apt", b>> \in manifest
    BY <1>1 DEF DebsKept, AptInstall, AptRemove
  <1>3. CASE AptInstall(t, a)
    <2>1. op'[t].next = "aptLock" /\ \A u \in Tasks : u # t => op'[u] = op[u]
      BY <1>3 DEF AptInstall, OverlayTypeOK, NoCall
    <2>2. QED
      BY <1>1, <1>2, <2>1, ExtractKept, NoProgress
  <1>4. CASE AptRemove(t, a)
    <2>1. UNCHANGED op
      BY <1>4 DEF AptRemove
    <2>2. Progress(t)'
      BY <1>1, <1>2, <2>1, ProgressKept DEF ExtractInv
    <2>3. QED
      BY <1>1, <1>2, <2>1, <2>2, ExtractKept
  <1>5. QED
    BY <1>3, <1>4

LEMMA ExtractEnvironment ==
  ASSUME OverlayTypeOK, ExtractInv, OtherDownload \/ ResetRoot \/ AnyChange \/ UNCHANGED ovars
  PROVE  ExtractInv'
  <1>1. CASE OtherDownload \/ AnyChange \/ UNCHANGED ovars
    <2>1. archives \subseteq archives' /\ UNCHANGED <<op, manifest>> /\ DebsKept
      BY <1>1 DEF OtherDownload, AnyChange, TreeBecomes, DebsKept, lockVars, ovars
    <2>2. \A u \in Tasks : Progress(u)'
      BY <2>1, ProgressKept DEF ExtractInv
    <2>3. RecordedExtracted'
      BY <2>1 DEF ExtractInv, RecordedExtracted, DebsKept
    <2>4. QED
      BY <2>2, <2>3 DEF ExtractInv
  <1>2. CASE ResetRoot
    <2>1. RecordedExtracted'
      BY <1>2 DEF ResetRoot, RecordedExtracted
    <2>2. ASSUME NEW u \in Tasks
          PROVE  Progress(u)'
      <3>1. op[u] \in CallRecords /\ op'[u] = IF Idle(u) THEN NoCall ELSE [op[u] EXCEPT !.old = TRUE]
        BY <1>2, CallIsRecord DEF OverlayTypeOK, ResetRoot
      <3>2. CASE Idle(u)
        BY <3>1, <3>2, NoProgress DEF NoCall
      <3>3. CASE ~Idle(u)
        <4>1. /\ op'[u].next = op[u].next /\ op'[u].pkg = op[u].pkg /\ op'[u].todo = op[u].todo /\ op'[u].old
              /\ UNCHANGED archives
          BY <1>2, <3>1, <3>3 DEF CallRecords, ResetRoot, lockVars
        <4>2. Progress(u)
          BY DEF ExtractInv
        <4>3. QED
          BY <4>1, <4>2 DEF Progress, Downloading, Downloaded, Extracting
      <3>4. QED
        BY <3>2, <3>3
    <2>3. QED
      BY <2>1, <2>2 DEF ExtractInv
  <1>3. QED
    BY <1>1, <1>2

LEMMA ExtractInit == OverlayInit => ExtractInv
  BY DEF OverlayInit, ExtractInv, RecordedExtracted, Progress, Downloading, Downloaded, Extracting, NoCall

LEMMA ExtractNext ==
  ASSUME OverlayTypeOK, ExtractInv, [OverlayNext]_ovars
  PROVE  ExtractInv'
  BY ExtractOther, ExtractApt, ExtractBegin, ExtractEnvironment
     DEF OverlayNext, Begin, Advance, AptAdvance, PipAdvance

(* Whatever calls overlap, time out or outlive a reset, a package the manifest lists for apt *)
(* had each of its files extracted, or the extraction of a file failed, or something else    *)
(* changed it since (AptShim.install).                                                        *)
THEOREM OverlayRecordedExtracted == OverlaySpec => []RecordedExtracted
  <1>1. OverlayTypeOK /\ ExtractInv /\ [OverlayNext]_ovars => ExtractInv'
    BY ExtractNext
  <1>2. ExtractInv => RecordedExtracted
    BY DEF ExtractInv
  <1>3. QED
    BY <1>1, <1>2, ExtractInit, OverlayTypeCorrect, PTL DEF OverlaySpec

-----------------------------------------------------------------------------
(* The manifest and what pip put into the root. *)

PipCall(t, p) == op[t].next \in PipSteps /\ op[t].pkg = p

(* A call that writes or removes an entry. *)
On(t, e) == op[t].next \in PipSteps /\ e \in PipEntries(op[t].pkg)

Doing(p, steps) == \E t \in Tasks : op[t].next \in steps /\ op[t].pkg = p

Listed(p) == <<"pip", p>> \in manifest

(* How far calls have come with an entry their package alone loses, *)
KeptStages(p, e) ==
    /\ \A t \in Tasks : op[t].pkg = p =>
          /\ op[t].next = "pipChild"  => e \in tree \cup op[t].todo
          /\ op[t].next = "pipRecord" => e \in tree
    /\ Listed(p) => e \in tree \/ Doing(p, {"pipRemove", "pipForget"})

(* and with one it alone brings. *)
SoleStages(p, e) ==
    /\ \A t \in Tasks : op[t].pkg = p =>
          /\ op[t].next = "pipRemove" /\ e \in tree => e \in op[t].todo
          /\ op[t].next = "pipForget" => e \notin tree
    /\ e \in tree => Listed(p) \/ Doing(p, {"pipChild", "pipRecord"})

(* One call at a time is on an entry that is not rough, and none of those a reset outdated. *)
Alone(e) ==
    \A t \in Tasks : On(t, e) => ~op[t].old /\ \A u \in Tasks : On(u, e) => u = t

Staged(p, e) == (e \in Kept(p) => KeptStages(p, e)) /\ (e \in Sole(p) => SoleStages(p, e))

EntryAgrees(e) == e \notin rough => Alone(e) /\ \A p \in PipPkgs : Staged(p, e)

(* What each kind of call has left to do. *)
TodoKinds ==
    \A t \in Tasks :
        /\ op[t].next = "pipChild"  => op[t].todo \subseteq Brought(op[t].pkg)
        /\ op[t].next = "pipRemove" => op[t].todo \subseteq Matched(op[t].pkg)

AgreeInv == TodoKinds /\ \A e \in Pips : EntryAgrees(e)

LEMMA KeptAndSole ==
  ASSUME NEW p \in PipPkgs
  PROVE  Kept(p) \subseteq PipEntries(p) /\ Sole(p) \subseteq PipEntries(p)
  BY DEF Kept, Sole, PipEntries

(* What no step is about keeps what holds of it. *)
LEMMA EntryKept ==
  ASSUME NEW e \in Pips, e \notin rough => EntryAgrees(e), e \in rough => e \in rough',
         e \notin rough' => (e \in tree' <=> e \in tree),
         \A p \in PipPkgs : e \in PipEntries(p) => (Listed(p)' <=> Listed(p)),
         \A t \in Tasks : On(t, e) \/ On(t, e)' => op'[t] = op[t]
  PROVE  EntryAgrees(e)'
  <1> SUFFICES ASSUME e \notin rough'
               PROVE  Alone(e)' /\ \A p \in PipPkgs : Staged(p, e)'
    BY DEF EntryAgrees
  <1>1. Alone(e) /\ \A p \in PipPkgs : Staged(p, e)
    BY DEF EntryAgrees
  <1>2. \A t \in Tasks : On(t, e)' <=> On(t, e)
    BY DEF On
  <1>3. Alone(e)'
    BY <1>1, <1>2 DEF Alone
  <1>4. ASSUME NEW p \in PipPkgs, e \in PipEntries(p)
        PROVE  /\ \A t \in Tasks : PipCall(t, p) \/ PipCall(t, p)' => op'[t] = op[t]
               /\ (Listed(p)' <=> Listed(p)) /\ (e \in tree' <=> e \in tree)
    BY <1>4 DEF PipCall, On
  <1>5. ASSUME NEW p \in PipPkgs, e \in PipEntries(p), NEW steps \in SUBSET PipSteps
        PROVE  Doing(p, steps)' <=> Doing(p, steps)
    BY <1>4, <1>5 DEF Doing, PipCall
  <1>6. ASSUME NEW p \in PipPkgs, e \in Kept(p)
        PROVE  KeptStages(p, e)'
    <2>1. e \in PipEntries(p) /\ KeptStages(p, e)
      BY <1>1, <1>6, KeptAndSole DEF Staged
    <2>2. Doing(p, {"pipRemove", "pipForget"})' <=> Doing(p, {"pipRemove", "pipForget"})
      BY <1>5, <2>1 DEF PipSteps
    <2>3. QED
      BY <1>4, <2>1, <2>2 DEF KeptStages, PipCall, PipSteps
  <1>7. ASSUME NEW p \in PipPkgs, e \in Sole(p)
        PROVE  SoleStages(p, e)'
    <2>1. e \in PipEntries(p) /\ SoleStages(p, e)
      BY <1>1, <1>7, KeptAndSole DEF Staged
    <2>2. Doing(p, {"pipChild", "pipRecord"})' <=> Doing(p, {"pipChild", "pipRecord"})
      BY <1>5, <2>1 DEF PipSteps
    <2>3. QED
      BY <1>4, <2>1, <2>2 DEF SoleStages, PipCall, PipSteps
  <1>8. \A p \in PipPkgs : Staged(p, e)'
    BY <1>6, <1>7 DEF Staged, Kept, Sole
  <1>9. QED
    BY <1>3, <1>8

(* What is left to do when one task alone changes its step. *)
LEMMA TodoKept ==
  ASSUME TodoKinds, NEW t \in Tasks, \A u \in Tasks : u # t => op'[u] = op[u],
         op'[t].next = "pipChild"  => op'[t].todo \subseteq Brought(op'[t].pkg),
         op'[t].next = "pipRemove" => op'[t].todo \subseteq Matched(op'[t].pkg)
  PROVE  TodoKinds'
  BY DEF TodoKinds, Brought, Matched

(* A call on a package begins: where another one is busy, entries become rough. *)
LEMMA AgreePipBegin ==
  ASSUME OverlayTypeOK, AgreeInv, NEW t \in Tasks, NEW p \in PipPkgs, PipInstall(t, p) \/ PipUninstall(t, p)
  PROVE  AgreeInv'
  <1>1. /\ op'[t].next \in {"pipChild", "pipRemove"} /\ op'[t].pkg = p /\ ~op'[t].old
        /\ op'[t].next = "pipChild" => op'[t].todo = Brought(p)
        /\ op'[t].next = "pipRemove" => op'[t].todo = Matched(p) \cap tree
        /\ \A u \in Tasks : u # t => op'[u] = op[u]
    <2>1. ASSUME NEW step, NEW todo, Begins(t, step, p, todo)
          PROVE  /\ op'[t].next = step /\ op'[t].pkg = p /\ op'[t].todo = todo /\ ~op'[t].old
                 /\ \A u \in Tasks : u # t => op'[u] = op[u]
      <3>1. op'[t] = [next |-> step, pkg |-> p, todo |-> todo, mu |-> 0, old |-> FALSE]
        BY <2>1 DEF Begins, OverlayTypeOK, NoCall
      <3>2. op'[t].old = FALSE
        BY <3>1
      <3>3. \A u \in Tasks : u # t => op'[u] = op[u]
        BY <2>1 DEF Begins, OverlayTypeOK
      <3>4. QED
        BY <3>1, <3>2, <3>3
    <2>2. CASE PipInstall(t, p)
      BY <2>1, <2>2 DEF PipInstall
    <2>3. CASE PipUninstall(t, p)
      BY <2>1, <2>3 DEF PipUninstall
    <2>4. QED
      BY <2>2, <2>3
  <1>2. Idle(t) /\ UNCHANGED <<tree, manifest>> /\ rough' = rough \cup (PipEntries(p) \cap Busy)
    BY DEF PipInstall, PipUninstall
  <1>3. TodoKinds'
    BY <1>1, TodoKept DEF AgreeInv
  <1>4. \A e \in Pips : ~On(t, e)
    BY <1>2 DEF On, Idle, NoCall, PipSteps
  <1>5. ASSUME NEW e \in Pips, e \notin PipEntries(p)
        PROVE  EntryAgrees(e)'
    <2>1. \A u \in Tasks : On(u, e) \/ On(u, e)' => op'[u] = op[u]
      BY <1>1, <1>4, <1>5 DEF On, PipEntries, Brought, Matched
    <2>2. QED
      BY <1>2, <2>1, EntryKept DEF AgreeInv, Listed
  <1>6. ASSUME NEW e \in Pips, e \in PipEntries(p), e \notin rough'
        PROVE  Alone(e)' /\ \A q \in PipPkgs : Staged(q, e)'
    <2>1. \A u \in Tasks : ~On(u, e)
      BY <1>2, <1>6 DEF On, Busy, About
    <2>2. \A u \in Tasks : On(u, e)' => u = t
      BY <1>1, <2>1 DEF On, PipEntries, Brought, Matched
    <2>3. Alone(e)'
      BY <1>1, <2>2 DEF Alone
    <2>4. \A q \in PipPkgs : Staged(q, e)
      BY <1>2, <1>6 DEF AgreeInv, EntryAgrees
    <2>5. ASSUME NEW q \in PipPkgs, e \in PipEntries(q), NEW u \in Tasks
          PROVE  ~PipCall(u, q) /\ (PipCall(u, q)' => u = t /\ q = p)
      BY <1>1, <2>1, <2>5 DEF PipCall, On
    <2>6. ASSUME NEW q \in PipPkgs, e \in Kept(q)
          PROVE  KeptStages(q, e)'
      <3>1. e \in PipEntries(q) /\ e \in Brought(q) /\ KeptStages(q, e)
        BY <2>4, <2>6, KeptAndSole DEF Staged, Kept
      <3>2. Listed(q) => e \in tree
        BY <2>5, <3>1 DEF KeptStages, Doing, PipCall, PipSteps
      <3>3. QED
        BY <1>1, <1>2, <2>5, <3>1, <3>2 DEF KeptStages, PipCall, PipSteps, Listed
    <2>7. ASSUME NEW q \in PipPkgs, e \in Sole(q)
          PROVE  SoleStages(q, e)'
      <3>1. e \in PipEntries(q) /\ e \in Matched(q) /\ SoleStages(q, e)
        BY <2>4, <2>7, KeptAndSole DEF Staged, Sole
      <3>2. e \in tree => Listed(q)
        BY <2>5, <3>1 DEF SoleStages, Doing, PipCall, PipSteps
      <3>3. QED
        BY <1>1, <1>2, <2>5, <3>1, <3>2 DEF SoleStages, PipCall, PipSteps, Listed
    <2>8. QED
      BY <2>3, <2>6, <2>7 DEF Staged, Kept, Sole
  <1>7. QED
    BY <1>3, <1>5, <1>6 DEF AgreeInv, EntryAgrees, Pips

(* Where a step of a call leads. *)
LEMMA PipAdvanceLeads ==
  ASSUME OverlayTypeOK, TodoKinds, NEW t \in Tasks, PipAdvance(t)
  PROVE  /\ op[t].next \in PipSteps /\ op[t].pkg \in PipPkgs
         /\ \A u \in Tasks : u # t => op'[u] = op[u]
         /\ rough \subseteq rough'
         /\ \A q \in PipPkgs : q # op[t].pkg => (Listed(q)' <=> Listed(q))
         /\ op'[t].next = "idle" \/ (op'[t].next \in PipSteps /\ op'[t].pkg = op[t].pkg /\ op'[t].old = op[t].old)
  <1>1. op[t] \in CallRecords /\ op[t].next \in PipSteps /\ op[t].pkg \in PipPkgs
    BY CallIsRecord DEF OverlayTypeOK, Calls, NoCall, PipSteps, AptSteps, PipAdvance,
       PipChildWrites, PipChildDone, PipChildFails, PipRecord, PipRemoves, PipRemoveDone, PipForget
  <1>2. \A u \in Tasks : u # t => op'[u] = op[u]
    BY StepsOfPip
  <1>3. rough \subseteq rough'
    BY DEF PipAdvance, PipChildWrites, PipChildDone, PipChildFails, PipRecord, PipRemoves, PipRemoveDone, PipForget
  <1>4. \A q \in PipPkgs : q # op[t].pkg => (Listed(q)' <=> Listed(q))
    BY DEF Listed, PipAdvance, PipChildWrites, PipChildDone, PipChildFails, PipRecord, PipRemoves, PipRemoveDone,
       PipForget
  <1>5. op'[t].next = "idle" \/ (op'[t].next \in PipSteps /\ op'[t].pkg = op[t].pkg /\ op'[t].old = op[t].old)
    <2>1. CASE PipChildWrites(t) \/ PipRemoves(t)
      BY <1>1, <2>1 DEF PipChildWrites, PipRemoves, OverlayTypeOK, CallRecords
    <2>2. CASE PipChildDone(t) \/ PipRemoveDone(t)
      BY <1>1, <2>2 DEF PipChildDone, PipRemoveDone, GoesTo, OverlayTypeOK, CallRecords, PipSteps
    <2>3. CASE PipChildFails(t) \/ PipRecord(t) \/ PipForget(t)
      BY <2>3 DEF PipChildFails, PipRecord, PipForget, Returns, OverlayTypeOK, NoCall
    <2>4. QED
      BY <2>1, <2>2, <2>3 DEF PipAdvance
  <1>6. QED
    BY <1>1, <1>2, <1>3, <1>4, <1>5

(* How far the one call on its package has come with an entry, *)
KeptSoFar(t, e) ==
    /\ op[t].next = "pipChild"  => e \in tree \cup op[t].todo
    /\ op[t].next = "pipRecord" => e \in tree
    /\ Listed(op[t].pkg) => e \in tree \/ op[t].next \in {"pipRemove", "pipForget"}

SoleSoFar(t, e) ==
    /\ op[t].next = "pipRemove" /\ e \in tree => e \in op[t].todo
    /\ op[t].next = "pipForget" => e \notin tree
    /\ e \in tree => Listed(op[t].pkg) \/ op[t].next \in {"pipChild", "pipRecord"}

(* and with its next step. *)
LEMMA NextSoFar ==
  ASSUME OverlayTypeOK, TodoKinds, NEW t \in Tasks, PipAdvance(t), ~op[t].old,
         NEW p \in PipPkgs, op[t].pkg = p, NEW e \in PipEntries(p), e \notin rough'
  PROVE  /\ KeptSoFar(t, e) =>
              /\ op'[t].next = "pipChild"  => e \in tree' \cup op'[t].todo
              /\ op'[t].next = "pipRecord" => e \in tree'
              /\ Listed(p)' => e \in tree' \/ op'[t].next \in {"pipRemove", "pipForget"}
         /\ SoleSoFar(t, e) =>
              /\ op'[t].next = "pipRemove" /\ e \in tree' => e \in op'[t].todo
              /\ op'[t].next = "pipForget" => e \notin tree'
              /\ e \in tree' => Listed(p)' \/ op'[t].next \in {"pipChild", "pipRecord"}
  <1>1. op[t] \in CallRecords
    BY CallIsRecord DEF OverlayTypeOK
  <1>2. CASE PipChildWrites(t)
    <2>1. PICK x \in op[t].todo : tree' = tree \cup {x} /\ op' = [op EXCEPT ![t].todo = @ \ {x}]
      BY <1>2 DEF PipChildWrites
    <2>2. op[t].next = "pipChild" /\ op'[t].next = "pipChild" /\ op'[t].todo = op[t].todo \ {x}
      BY <1>1, <1>2, <2>1 DEF PipChildWrites, OverlayTypeOK, CallRecords
    <2>3. Listed(p)' <=> Listed(p)
      BY <1>2 DEF PipChildWrites, Listed
    <2>4. QED
      BY <2>1, <2>2, <2>3 DEF KeptSoFar, SoleSoFar
  <1>3. CASE PipRemoves(t)
    <2>1. PICK x \in op[t].todo : /\ tree' = tree \ {x} \/ (rough' = rough \cup {x} /\ UNCHANGED tree)
                                  /\ op' = [op EXCEPT ![t].todo = @ \ {x}]
      BY <1>3 DEF PipRemoves
    <2>2. op[t].next = "pipRemove" /\ op'[t].next = "pipRemove" /\ op'[t].todo = op[t].todo \ {x}
      BY <1>1, <1>3, <2>1 DEF PipRemoves, OverlayTypeOK, CallRecords
    <2>3. Listed(p)' <=> Listed(p)
      BY <1>3 DEF PipRemoves, Listed
    <2>4. QED
      BY <2>1, <2>2, <2>3 DEF KeptSoFar, SoleSoFar
  <1>4. CASE PipChildDone(t)
    <2>1. op[t].next = "pipChild" /\ op[t].todo = {} /\ op'[t].next = "pipRecord" /\ UNCHANGED <<tree, manifest>>
      BY <1>1, <1>4 DEF PipChildDone, GoesTo, OverlayTypeOK, CallRecords
    <2>2. QED
      BY <2>1 DEF KeptSoFar, SoleSoFar, Listed
  <1>5. CASE PipRemoveDone(t)
    <2>1. op[t].next = "pipRemove" /\ op[t].todo = {} /\ op'[t].next = "pipForget" /\ UNCHANGED <<tree, manifest>>
      BY <1>1, <1>5 DEF PipRemoveDone, GoesTo, OverlayTypeOK, CallRecords
    <2>2. QED
      BY <2>1 DEF KeptSoFar, SoleSoFar, Listed
  <1>6. CASE PipChildFails(t)
    BY <1>6 DEF PipChildFails
  <1>7. CASE PipRecord(t)
    <2>1. op[t].next = "pipRecord" /\ op'[t].next = "idle" /\ UNCHANGED tree /\ Listed(p)'
      BY <1>7 DEF PipRecord, Returns, OverlayTypeOK, NoCall, Listed
    <2>2. QED
      BY <2>1 DEF KeptSoFar, SoleSoFar
  <1>8. CASE PipForget(t)
    <2>1. op[t].next = "pipForget" /\ op'[t].next = "idle" /\ UNCHANGED tree /\ ~Listed(p)'
      BY <1>8 DEF PipForget, Returns, OverlayTypeOK, NoCall, Listed
    <2>2. QED
      BY <2>1 DEF KeptSoFar, SoleSoFar
  <1>9. QED
    BY <1>2, <1>3, <1>4, <1>5, <1>6, <1>7, <1>8 DEF PipAdvance

(* A step of a call on p, and an entry of p. *)
LEMMA AdvanceOwn ==
  ASSUME OverlayTypeOK, AgreeInv, NEW t \in Tasks, PipAdvance(t),
         NEW p \in PipPkgs, op[t].pkg = p, NEW e \in PipEntries(p), e \in Pips, e \notin rough'
  PROVE  Alone(e)' /\ \A q \in PipPkgs : Staged(q, e)'
  <1>1. /\ op[t].next \in PipSteps /\ \A u \in Tasks : u # t => op'[u] = op[u]
        /\ e \notin rough /\ TodoKinds
        /\ \A q \in PipPkgs : q # p => (Listed(q)' <=> Listed(q))
        /\ op'[t].next = "idle" \/ (op'[t].next \in PipSteps /\ op'[t].pkg = p /\ op'[t].old = op[t].old)
    BY PipAdvanceLeads DEF AgreeInv
  <1>2. Alone(e) /\ \A q \in PipPkgs : Staged(q, e)
    BY <1>1 DEF AgreeInv, EntryAgrees
  <1>3. ~op[t].old /\ \A u \in Tasks : On(u, e) => u = t
    BY <1>1, <1>2 DEF Alone, On
  <1>4. \A u \in Tasks : On(u, e)' => u = t
    BY <1>1, <1>3 DEF On
  <1>5. Alone(e)'
    BY <1>1, <1>3, <1>4 DEF Alone, On, PipSteps
  <1>6. ASSUME NEW q \in PipPkgs, e \in PipEntries(q), NEW u \in Tasks
        PROVE  (PipCall(u, q) => u = t /\ q = p) /\ (PipCall(u, q)' => u = t /\ q = p)
    BY <1>1, <1>3, <1>6 DEF PipCall, On, PipSteps
  <1>7. /\ \A q \in PipPkgs : q # p /\ e \in Kept(q) /\ e \in tree => e \in tree'
        /\ \A q \in PipPkgs : q # p /\ e \in Sole(q) /\ e \in tree' => e \in tree
    <2>1. CASE PipChildWrites(t)
      <3>1. op[t].todo \subseteq Brought(p)
        BY <1>1, <2>1 DEF PipChildWrites, TodoKinds
      <3>2. QED
        BY <2>1, <3>1 DEF PipChildWrites, Sole
    <2>2. CASE PipRemoves(t)
      <3>1. op[t].todo \subseteq Matched(p)
        BY <1>1, <2>2 DEF PipRemoves, TodoKinds
      <3>2. QED
        BY <2>2, <3>1 DEF PipRemoves, Kept
    <2>3. CASE PipChildDone(t) \/ PipChildFails(t) \/ PipRecord(t) \/ PipRemoveDone(t) \/ PipForget(t)
      BY <2>3 DEF PipChildDone, PipChildFails, PipRecord, PipRemoveDone, PipForget
    <2>4. QED
      BY <2>1, <2>2, <2>3 DEF PipAdvance
  <1>8. ASSUME NEW q \in PipPkgs, e \in Kept(q)
        PROVE  KeptStages(q, e)'
    <2>1. e \in PipEntries(q) /\ KeptStages(q, e)
      BY <1>2, <1>8, KeptAndSole DEF Staged
    <2>2. CASE q # p
      <3>1. \A u \in Tasks : ~PipCall(u, q) /\ ~PipCall(u, q)'
        BY <1>6, <2>1, <2>2
      <3>2. Listed(q) => e \in tree
        BY <2>1, <3>1 DEF KeptStages, Doing, PipCall, PipSteps
      <3>3. Listed(q)' => e \in tree'
        BY <1>1, <1>7, <1>8, <2>2, <3>2
      <3>4. QED
        BY <3>1, <3>3 DEF KeptStages, PipCall, PipSteps
    <2>3. CASE q = p
      <3>1. KeptSoFar(t, e)
        BY <1>6, <2>1, <2>3 DEF KeptSoFar, KeptStages, Doing, PipCall, PipSteps
      <3>2. /\ op'[t].next = "pipChild"  => e \in tree' \cup op'[t].todo
            /\ op'[t].next = "pipRecord" => e \in tree'
            /\ Listed(p)' => e \in tree' \/ op'[t].next \in {"pipRemove", "pipForget"}
        BY <1>1, <1>3, <3>1, NextSoFar
      <3>3. Listed(p)' => e \in tree' \/ Doing(p, {"pipRemove", "pipForget"})'
        BY <1>1, <3>2 DEF Doing
      <3>4. \A u \in Tasks : PipCall(u, p)' => u = t
        BY <1>6, <2>1, <2>3
      <3>5. QED
        BY <2>3, <3>2, <3>3, <3>4 DEF KeptStages, PipCall, PipSteps
    <2>4. QED
      BY <2>2, <2>3
  <1>9. ASSUME NEW q \in PipPkgs, e \in Sole(q)
        PROVE  SoleStages(q, e)'
    <2>1. e \in PipEntries(q) /\ SoleStages(q, e)
      BY <1>2, <1>9, KeptAndSole DEF Staged
    <2>2. CASE q # p
      <3>1. \A u \in Tasks : ~PipCall(u, q) /\ ~PipCall(u, q)'
        BY <1>6, <2>1, <2>2
      <3>2. e \in tree => Listed(q)
        BY <2>1, <3>1 DEF SoleStages, Doing, PipCall, PipSteps
      <3>3. e \in tree' => Listed(q)'
        BY <1>1, <1>7, <1>9, <2>2, <3>2
      <3>4. QED
        BY <3>1, <3>3 DEF SoleStages, PipCall, PipSteps
    <2>3. CASE q = p
      <3>1. SoleSoFar(t, e)
        BY <1>6, <2>1, <2>3 DEF SoleSoFar, SoleStages, Doing, PipCall, PipSteps
      <3>2. /\ op'[t].next = "pipRemove" /\ e \in tree' => e \in op'[t].todo
            /\ op'[t].next = "pipForget" => e \notin tree'
            /\ e \in tree' => Listed(p)' \/ op'[t].next \in {"pipChild", "pipRecord"}
        BY <1>1, <1>3, <3>1, NextSoFar
      <3>3. e \in tree' => Listed(p)' \/ Doing(p, {"pipChild", "pipRecord"})'
        BY <1>1, <3>2 DEF Doing
      <3>4. \A u \in Tasks : PipCall(u, p)' => u = t
        BY <1>6, <2>1, <2>3
      <3>5. QED
        BY <2>3, <3>2, <3>3, <3>4 DEF SoleStages, PipCall, PipSteps
    <2>4. QED
      BY <2>2, <2>3
  <1>10. QED
    BY <1>5, <1>8, <1>9 DEF Staged, Kept, Sole

LEMMA AgreePipAdvance ==
  ASSUME OverlayTypeOK, AgreeInv, NEW t \in Tasks, PipAdvance(t)
  PROVE  AgreeInv'
  <1>1. /\ op[t].next \in PipSteps /\ op[t].pkg \in PipPkgs
        /\ \A u \in Tasks : u # t => op'[u] = op[u]
        /\ rough \subseteq rough' /\ TodoKinds
        /\ \A q \in PipPkgs : q # op[t].pkg => (Listed(q)' <=> Listed(q))
        /\ op'[t].next = "idle" \/ (op'[t].next \in PipSteps /\ op'[t].pkg = op[t].pkg /\ op'[t].old = op[t].old)
    BY PipAdvanceLeads DEF AgreeInv
  <1>2. PICK p \in PipPkgs : op[t].pkg = p
    BY <1>1
  <1>3. TodoKinds'
    <2>1. op[t] \in CallRecords
      BY CallIsRecord DEF OverlayTypeOK
    <2>2. \/ op'[t].next \notin {"pipChild", "pipRemove"}
          \/ op'[t].next = op[t].next /\ op'[t].todo \subseteq op[t].todo /\ op'[t].pkg = p
      <3>1. CASE PipChildWrites(t) \/ PipRemoves(t)
        BY <1>2, <2>1, <3>1 DEF PipChildWrites, PipRemoves, OverlayTypeOK, CallRecords
      <3>2. CASE PipChildDone(t) \/ PipRemoveDone(t)
        BY <2>1, <3>2 DEF PipChildDone, PipRemoveDone, GoesTo, OverlayTypeOK, CallRecords
      <3>3. CASE PipChildFails(t) \/ PipRecord(t) \/ PipForget(t)
        BY <3>3 DEF PipChildFails, PipRecord, PipForget, Returns, OverlayTypeOK, NoCall
      <3>4. QED
        BY <3>1, <3>2, <3>3 DEF PipAdvance
    <2>3. /\ op[t].next = "pipChild"  => op[t].todo \subseteq Brought(p)
          /\ op[t].next = "pipRemove" => op[t].todo \subseteq Matched(p)
      BY <1>1, <1>2 DEF TodoKinds
    <2>4. QED
      BY <1>1, <2>2, <2>3, TodoKept
  <1>4. ASSUME NEW e \in Pips, e \notin PipEntries(p)
        PROVE  EntryAgrees(e)'
    <2>1. \A u \in Tasks : On(u, e) \/ On(u, e)' => op'[u] = op[u]
      BY <1>1, <1>2, <1>4 DEF On, PipSteps, PipEntries, Brought, Matched
    <2>2. e \in tree' <=> e \in tree
      <3>1. /\ op[t].next = "pipChild"  => op[t].todo \subseteq PipEntries(p)
            /\ op[t].next = "pipRemove" => op[t].todo \subseteq PipEntries(p)
        BY <1>1, <1>2 DEF TodoKinds, PipEntries
      <3>2. QED
        BY <1>4, <3>1 DEF PipAdvance, PipChildWrites, PipChildDone, PipChildFails, PipRecord, PipRemoves,
           PipRemoveDone, PipForget
    <2>3. \A q \in PipPkgs : e \in PipEntries(q) => (Listed(q)' <=> Listed(q))
      BY <1>1, <1>2, <1>4
    <2>4. QED
      BY <1>1, <2>1, <2>2, <2>3, EntryKept DEF AgreeInv
  <1>5. \A e \in Pips : e \in PipEntries(p) => EntryAgrees(e)'
    BY <1>2, AdvanceOwn DEF EntryAgrees
  <1>6. QED
    BY <1>3, <1>4, <1>5 DEF AgreeInv, Pips

(* A step that is about no Python package. *)
LEMMA AgreeElsewhere ==
  ASSUME OverlayTypeOK, AgreeInv, NEW t \in Tasks,
         \A u \in Tasks : u # t => op'[u] = op[u],
         op[t].next \notin PipSteps, op'[t].next \notin PipSteps, rough \subseteq rough',
         \A e \in Pips : e \in tree' <=> e \in tree,
         \A p \in PipPkgs : <<"pip", p>> \in manifest' <=> <<"pip", p>> \in manifest
  PROVE  AgreeInv'
  <1>1. TodoKinds'
    BY TodoKept DEF AgreeInv, PipSteps
  <1>2. ASSUME NEW e \in Pips
        PROVE  EntryAgrees(e)'
    <2>1. \A u \in Tasks : On(u, e) \/ On(u, e)' => op'[u] = op[u]
      BY DEF On
    <2>2. QED
      BY <2>1, EntryKept DEF AgreeInv, Listed
  <1>3. QED
    BY <1>1, <1>2 DEF AgreeInv, Pips

(* The entries of apt and of users are none of pip's. *)
LEMMA NotPips == \A e \in Pips : e \notin DebFiles /\ e \notin Users
  BY DEF Pips, DebFiles, Users, Pip, Deb, User

LEMMA AgreeApt ==
  ASSUME OverlayTypeOK, AgreeInv, NEW t \in Tasks, AptAdvance(t)
  PROVE  AgreeInv'
  <1>1. op[t] \in CallRecords /\ \A u \in Tasks : u # t => op'[u] = op[u]
    BY StepsOfApt
  <1>2. op[t].next \in AptSteps /\ op'[t].next \in AptSteps \cup {"idle"}
    <2>1. op[t].next \in AptSteps
      BY DEF AptAdvance, AptLock, AptDownload, AptDownloadDone, AptDownloadFails, AptGlob, AptExtract,
         AptExtractFails, AptRecord, AptUnlock, AptSteps
    <2>2. CASE AptLock(t) \/ AptDownload(t) \/ AptDownloadDone(t)
      BY <1>1, <2>2 DEF AptLock, AptDownload, AptDownloadDone, GoesTo, OverlayTypeOK, CallRecords, AptSteps
    <2>3. CASE AptDownloadFails(t) \/ AptGlob(t) \/ AptRecord(t)
      BY <1>1, <2>3 DEF AptDownloadFails, AptGlob, AptRecord, GoesTo, OverlayTypeOK, CallRecords, AptSteps
    <2>4. CASE AptExtract(t) \/ AptExtractFails(t)
      BY <1>1, <2>4 DEF AptExtract, AptExtractFails, OverlayTypeOK, CallRecords, AptSteps
    <2>5. CASE AptUnlock(t)
      BY <2>5 DEF AptUnlock, Returns, OverlayTypeOK, NoCall, AptSteps
    <2>6. QED
      BY <2>1, <2>2, <2>3, <2>4, <2>5 DEF AptAdvance
  <1>3. \A e \in Pips : e \in tree' <=> e \in tree
    <2>1. op[t].todo \subseteq DebFiles
      BY <1>2 DEF OverlayTypeOK, Calls, NoCall, PipSteps, AptSteps
    <2>2. QED
      BY <2>1, NotPips DEF AptAdvance, AptLock, AptDownload, AptDownloadDone, AptDownloadFails, AptGlob,
         AptExtract, AptExtractFails, AptRecord, AptUnlock
  <1>4. \A p \in PipPkgs : <<"pip", p>> \in manifest' <=> <<"pip", p>> \in manifest
    BY DEF AptAdvance, AptLock, AptDownload, AptDownloadDone, AptDownloadFails, AptGlob,
       AptExtract, AptExtractFails, AptRecord, AptUnlock
  <1>5. rough \subseteq rough'
    BY DEF AptAdvance, AptLock, AptDownload, AptDownloadDone, AptDownloadFails, AptGlob,
       AptExtract, AptExtractFails, AptRecord, AptUnlock
  <1>6. QED
    BY <1>1, <1>2, <1>3, <1>4, <1>5, AgreeElsewhere DEF AptSteps, PipSteps

LEMMA AgreeAptBegin ==
  ASSUME OverlayTypeOK, AgreeInv, NEW t \in Tasks, NEW a \in AptPkgs, AptInstall(t, a) \/ AptRemove(t, a)
  PROVE  AgreeInv'
  <1>1. op[t].next = "idle"
    BY DEF AptInstall, AptRemove, Idle, NoCall
  <1>2. op'[t].next \in {"aptLock", "idle"} /\ \A u \in Tasks : u # t => op'[u] = op[u]
    BY <1>1 DEF AptInstall, AptRemove, OverlayTypeOK, NoCall
  <1>3. UNCHANGED <<tree, rough>> /\ \A p \in PipPkgs : <<"pip", p>> \in manifest' <=> <<"pip", p>> \in manifest
    BY DEF AptInstall, AptRemove
  <1>4. QED
    BY <1>1, <1>2, <1>3, AgreeElsewhere DEF PipSteps

LEMMA AgreeLn ==
  ASSUME OverlayTypeOK, AgreeInv, NEW t \in Tasks, Ln(t) \/ LnLink(t)
  PROVE  AgreeInv'
  <1>1. op[t].next \in {"idle", "lnLink"}
    BY DEF Ln, LnLink, Idle, NoCall
  <1>2. UNCHANGED <<rough, manifest>>
    BY DEF Ln, LnLink
  <1>3. CASE Ln(t)
    <2>1. PICK u \in UserFiles, force \in BOOLEAN :
            /\ tree' = IF force THEN tree \ {User(u)} ELSE tree
            /\ Begins(t, "lnLink", NoPkg, {User(u)})
      BY <1>3 DEF Ln
    <2>2. op'[t].next = "lnLink" /\ \A v \in Tasks : v # t => op'[v] = op[v]
      BY <2>1 DEF Begins, OverlayTypeOK, NoCall
    <2>3. \A e \in Pips : e \in tree' <=> e \in tree
      BY <2>1, NotPips DEF Users
    <2>4. QED
      BY <1>1, <1>2, <2>2, <2>3, AgreeElsewhere DEF PipSteps
  <1>4. CASE LnLink(t)
    <2>1. op'[t].next = "idle" /\ \A v \in Tasks : v # t => op'[v] = op[v]
      BY <1>4 DEF LnLink, Returns, OverlayTypeOK, NoCall
    <2>2. op[t].todo \subseteq Users /\ tree' = tree \cup op[t].todo
      BY <1>4 DEF LnLink, OverlayTypeOK, Calls, NoCall, PipSteps, AptSteps
    <2>3. \A e \in Pips : e \in tree' <=> e \in tree
      BY <2>2, NotPips
    <2>4. QED
      BY <1>1, <1>2, <2>1, <2>3, AgreeElsewhere DEF PipSteps
  <1>5. QED
    BY <1>3, <1>4

LEMMA AgreeReset ==
  ASSUME OverlayTypeOK, AgreeInv, ResetRoot
  PROVE  AgreeInv'
  <1>1. PICK kept \in SUBSET tree : tree' = kept /\ rough' = Busy \cup kept
    BY DEF ResetRoot
  <1>2. ASSUME NEW u \in Tasks
        PROVE  op'[u].next = op[u].next /\ op'[u].pkg = op[u].pkg /\ op'[u].todo = op[u].todo
    <2>1. op[u] \in CallRecords /\ op'[u] = IF Idle(u) THEN NoCall ELSE [op[u] EXCEPT !.old = TRUE]
      BY CallIsRecord DEF OverlayTypeOK, ResetRoot
    <2>2. QED
      BY <2>1 DEF Idle, CallRecords
  <1>3. TodoKinds'
    BY <1>2 DEF AgreeInv, TodoKinds
  <1>4. ASSUME NEW e \in Pips, e \notin rough'
        PROVE  Alone(e)' /\ \A p \in PipPkgs : Staged(p, e)'
    <2>1. \A u \in Tasks : ~On(u, e)'
      BY <1>1, <1>2, <1>4 DEF On, Busy, About
    <2>2. e \notin tree' /\ manifest' = {}
      BY <1>1, <1>4 DEF ResetRoot
    <2>3. ASSUME NEW p \in PipPkgs, e \in PipEntries(p), NEW u \in Tasks
          PROVE  ~(op'[u].next \in PipSteps /\ op'[u].pkg = p)
      BY <2>1, <2>3 DEF On
    <2>4. \A p \in PipPkgs : Staged(p, e)'
      BY <2>2, <2>3, KeptAndSole DEF Staged, KeptStages, SoleStages, Listed, Kept, Sole, PipSteps
    <2>5. QED
      BY <2>1, <2>4 DEF Alone
  <1>5. QED
    BY <1>3, <1>4 DEF AgreeInv, EntryAgrees, Pips

LEMMA AgreeEnvironment ==
  ASSUME OverlayTypeOK, AgreeInv, OtherDownload \/ AnyChange \/ UNCHANGED ovars
  PROVE  AgreeInv'
  <1>1. UNCHANGED <<op, manifest>>
    BY DEF OtherDownload, AnyChange, TreeBecomes, ovars
  <1>2. TodoKinds'
    BY <1>1 DEF AgreeInv, TodoKinds
  <1>3. ASSUME NEW e \in Pips
        PROVE  EntryAgrees(e)'
    <2>1. (e \in rough => e \in rough') /\ (e \notin rough' => (e \in tree' <=> e \in tree))
      BY DEF OtherDownload, AnyChange, TreeBecomes, ovars
    <2>2. QED
      BY <1>1, <2>1, EntryKept DEF AgreeInv, Listed
  <1>4. QED
    BY <1>2, <1>3 DEF AgreeInv, Pips

LEMMA AgreeInit == OverlayInit => AgreeInv
  BY DEF OverlayInit, AgreeInv, TodoKinds, EntryAgrees, Alone, On, Staged, KeptStages, SoleStages, Listed,
     NoCall, PipSteps

LEMMA AgreeNext ==
  ASSUME OverlayTypeOK, AgreeInv, [OverlayNext]_ovars
  PROVE  AgreeInv'
  BY AgreePipBegin, AgreePipAdvance, AgreeApt, AgreeAptBegin, AgreeLn, AgreeReset, AgreeEnvironment
     DEF OverlayNext, Begin, Advance, AptAdvance, PipAdvance

LEMMA AgreeManifest ==
  ASSUME OverlayTypeOK, AgreeInv
  PROVE  ManifestAgrees
  <1>1. ASSUME NEW p \in PipPkgs, NEW e \in PipEntries(p), e \notin Busy
        PROVE  ~Doing(p, PipSteps)
    BY <1>1 DEF Doing, Busy, About
  <1>2. ASSUME NEW p \in PipPkgs, NEW e \in PipEntries(p), e \notin Busy \cup rough
        PROVE  Staged(p, e) /\ ~Doing(p, {"pipRemove", "pipForget"}) /\ ~Doing(p, {"pipChild", "pipRecord"})
    BY <1>1, <1>2, PipEntriesAre DEF AgreeInv, EntryAgrees, Doing, PipSteps
  <1>3. ASSUME NEW p \in PipPkgs, Listed(p), NEW e \in Kept(p)
        PROVE  e \in tree \cup Busy \cup rough
    BY <1>2, <1>3, KeptAndSole DEF Staged, KeptStages
  <1>4. ASSUME NEW p \in PipPkgs, ~Listed(p), NEW e \in Sole(p), e \in tree
        PROVE  e \in Busy \cup rough
    BY <1>2, <1>4, KeptAndSole DEF Staged, SoleStages
  <1>5. QED
    BY <1>3, <1>4 DEF ManifestAgrees, Listed

(* Whatever calls overlap, fail or outlive a reset: of a recorded package everything is under *)
(* the root that no other package's uninstall takes for its own, of one that is not nothing   *)
(* is that its uninstall would remove and no other install brings (PipShim, Sandbox.Reset).    *)
THEOREM OverlayManifestAgrees == OverlaySpec => []ManifestAgrees
  <1>1. OverlayTypeOK /\ AgreeInv /\ [OverlayNext]_ovars => AgreeInv'
    BY AgreeNext
  <1>2. OverlayTypeOK /\ AgreeInv => ManifestAgrees
    BY AgreeManifest
  <1>3. QED
    BY <1>1, <1>2, AgreeInit, OverlayTypeCorrect, PTL DEF OverlaySpec

=============================================================================

------------------------------- MODULE ExecProofs -------------------------------
(***************************************************************************)
(* Theorems about one external command: for any cap, any sizes of writes   *)
(* and any interleaving of the copying goroutines, the watcher and the     *)
(* command's processes, the output cap holds and a kill has a cause.       *)
(***************************************************************************)
EXTENDS IsolatedExec, TLAPS

USE ExecAssumption DEF ExecAssumption

(* What a copying goroutine has counted and not yet passed on, up to the cap. *)
Pending(s) ==
    IF copier[s] = "write" THEN size[s]
    ELSE IF copier[s] \in {"limit", "fit"} /\ Cap - (after[s] - size[s]) > 0 THEN Cap - (after[s] - size[s])
    ELSE 0

(* A chunk is below the cap exactly when its goroutine writes it whole. *)
ChunkPlaced(s) ==
    /\ copier[s] \in {"write", "limit", "fit"} => size[s] <= after[s] /\ after[s] <= counter
    /\ copier[s] \in {"limit", "fit"} => Cap > 0 /\ after[s] > Cap

(* Every byte counted is passed on, about to be, or over the cap. *)
AllCounted ==
    Cap > 0 => forwarded + Pending("out") + Pending("err") = IF counter <= Cap THEN counter ELSE Cap

PidKnown ==
    /\ handler \in {"cgroup", "watch", "wait", "stop"} => pidStored
    /\ watcher \in {"select", "kill"} => pidStored

WatcherCause == watcher = "kill" => ctxDone

Fresh == handler = "start" => \A s \in Streams : copier[s] = "none"

Counting == (\A s \in Streams : ChunkPlaced(s)) /\ AllCounted

ExecInv == TypeOK /\ Fresh /\ Counting /\ PidKnown /\ WatcherCause /\ KilledForCause /\ LostOnlyByCap

(* The parts of the type invariant: flags, places, and numbers. *)
Flags == pidStored \in BOOLEAN /\ limitHit \in BOOLEAN /\ ctxDone \in BOOLEAN /\ limitOnce \in BOOLEAN

Places ==
    /\ handler \in {"start", "started", "cgroup", "watch", "wait", "stop", "done"}
    /\ killed \in {"no", "sent", "lost"}
    /\ cgroup \in {"none", "live", "removed"}
    /\ watcher \in {"none", "select", "kill", "end"}
    /\ alive \subseteq Processes /\ writers \subseteq alive
    /\ copier \in [Streams -> {"none", "read", "limit", "fit", "write", "end", "failed"}]

Numbers ==
    /\ pipe \in [Streams -> Chunks \cup {0}]
    /\ emitted \in Nat
    /\ size \in [Streams -> Nat] /\ after \in [Streams -> Nat]
    /\ counter \in Nat /\ forwarded \in Nat

LEMMA ChunkSize ==
  ASSUME Numbers, NEW s \in Streams
  PROVE  pipe[s] \in Nat
  <1>1. \A n \in Chunks \cup {0} : n \in Nat
    OBVIOUS
  <1>2. pipe[s] \in Chunks \cup {0}
    BY DEF Numbers
  <1>3. QED
    BY <1>1, <1>2

LEMMA TypeParts == TypeOK <=> Flags /\ Places /\ Numbers
  BY DEF TypeOK, Flags, Places, Numbers

LEMMA ExecTypeInit == Init => TypeOK
  <1> SUFFICES ASSUME Init
               PROVE  TypeOK
    OBVIOUS
  <1>1. Flags
    BY DEF Init, Flags
  <1>2. Places
    BY DEF Init, Places
  <1>3. Numbers
    BY DEF Init, Numbers
  <1>4. QED
    BY <1>1, <1>2, <1>3, TypeParts

LEMMA FlagsNext ==
  ASSUME Flags, Next
  PROVE  Flags'
  BY Zenon DEF Flags, Next, StartFail, Start, StorePid, MakeCgroup, Watch, Wait, Stop,
     WatcherCancelled, WatcherKill, WatcherDone, KillFn, Copy, Count, OnLimit, Fit, Forward, Eof,
     Emit, Exit, Detach, Fork, CtxExpire, kill, proc, out

LEMMA PlacesNext ==
  ASSUME Places, Next
  PROVE  Places'
  <1> USE DEF Places, kill, proc, out, Processes
  <1>1. CASE StartFail \/ Start \/ StorePid
    BY <1>1 DEF StartFail, Start, StorePid
  <1>2. CASE MakeCgroup \/ Watch \/ Wait \/ Stop
    BY <1>2 DEF MakeCgroup, Watch, Wait, Stop
  <1>3. CASE WatcherCancelled \/ WatcherKill \/ WatcherDone
    BY <1>3 DEF WatcherCancelled, WatcherKill, WatcherDone, KillFn
  <1>4. ASSUME NEW s \in Streams, Copy(s)
        PROVE  Places'
    <2>1. CASE Count(s)
      BY <2>1 DEF Count, GoCopy
    <2>2. CASE OnLimit(s)
      BY <2>2 DEF OnLimit, KillFn, GoCopy
    <2>3. CASE Fit(s) \/ Forward(s) \/ Eof(s)
      BY <2>3 DEF Fit, Forward, Eof, GoCopy
    <2>4. QED
      BY <1>4, <2>1, <2>2, <2>3 DEF Copy
  <1>5. ASSUME NEW p \in Processes, NEW s \in Streams, Emit(p, s)
        PROVE  Places'
    BY <1>5 DEF Emit
  <1>6. ASSUME NEW p \in Processes, Exit(p) \/ Detach(p)
        PROVE  Places'
    BY <1>6 DEF Exit, Detach
  <1>7. CASE Fork \/ CtxExpire
    BY <1>7 DEF Fork, CtxExpire
  <1>8. QED
    BY <1>1, <1>2, <1>3, <1>4, <1>5, <1>6, <1>7 DEF Next

LEMMA NumbersNext ==
  ASSUME Numbers, Next
  PROVE  Numbers'
  <1> USE DEF Numbers, kill, proc, out
  <1>1. CASE StartFail \/ Start \/ StorePid \/ MakeCgroup \/ Watch \/ Wait \/ Stop
    BY <1>1 DEF StartFail, Start, StorePid, MakeCgroup, Watch, Wait, Stop
  <1>2. CASE WatcherCancelled \/ WatcherKill \/ WatcherDone \/ Fork \/ CtxExpire
    BY <1>2 DEF WatcherCancelled, WatcherKill, WatcherDone, Fork, CtxExpire
  <1>3. ASSUME NEW s \in Streams, Copy(s)
        PROVE  Numbers'
    <2>1. CASE Count(s)
      <3>1. pipe[s] \in Nat /\ counter + pipe[s] \in Nat
        BY ChunkSize
      <3>2. QED
        BY <2>1, <3>1 DEF Count
    <2>2. CASE Fit(s)
      BY <2>2 DEF Fit
    <2>3. CASE OnLimit(s) \/ Forward(s) \/ Eof(s)
      BY <2>3 DEF OnLimit, Forward, Eof
    <2>4. QED
      BY <1>3, <2>1, <2>2, <2>3 DEF Copy
  <1>4. ASSUME NEW p \in Processes, NEW s \in Streams, Emit(p, s)
        PROVE  Numbers'
    BY <1>4 DEF Emit
  <1>5. ASSUME NEW p \in Processes, Exit(p) \/ Detach(p)
        PROVE  Numbers'
    BY <1>5 DEF Exit, Detach
  <1>6. QED
    BY <1>1, <1>2, <1>3, <1>4, <1>5 DEF Next

LEMMA ExecTypeNext ==
  ASSUME TypeOK, Next
  PROVE  TypeOK'
  <1>1. (TypeOK <=> Flags /\ Places /\ Numbers)'
    BY TypeParts, PTL
  <1>2. QED
    BY <1>1, TypeParts, FlagsNext, PlacesNext, NumbersNext

(* The counting is left alone by all but the copying goroutines. *)
CountVars == <<copier, size, after, counter, forwarded>>

LEMMA CountingKept ==
  ASSUME Counting, UNCHANGED CountVars
  PROVE  Counting'
  BY DEF Counting, ChunkPlaced, AllCounted, Pending, CountVars

LEMMA StartCounting ==
  ASSUME Places, Numbers, Counting, Start, \A s \in Streams : copier[s] = "none"
  PROVE  Counting'
  BY DEF Places, Numbers, Start, Counting, ChunkPlaced, AllCounted, Pending, Streams

LEMMA CountCounting ==
  ASSUME Places, Numbers, Counting, NEW s \in Streams, Count(s)
  PROVE  Counting'
  <1>1. pipe[s] \in Nat /\ copier[s] = "read"
    BY ChunkSize DEF Count
  <1>2. counter' = counter + pipe[s] /\ forwarded' = forwarded
    BY DEF Count
  <1>3. /\ size'[s] = pipe[s] /\ after'[s] = counter + pipe[s]
        /\ copier'[s] = IF Cap > 0 /\ counter + pipe[s] > Cap THEN "limit" ELSE "write"
    BY DEF Places, Numbers, Count, GoCopy
  <1>4. \A r \in Streams : r # s => size'[r] = size[r] /\ after'[r] = after[r] /\ copier'[r] = copier[r]
    BY DEF Places, Numbers, Count, GoCopy
  <1>5. \A r \in Streams : ChunkPlaced(r)'
    <2>1. ChunkPlaced(s)'
      BY <1>1, <1>2, <1>3 DEF Numbers, ChunkPlaced
    <2>2. ASSUME NEW r \in Streams, r # s
          PROVE  ChunkPlaced(r)'
      BY <1>1, <1>2, <1>4, <2>2 DEF Numbers, Counting, ChunkPlaced
    <2>3. QED
      BY <2>1, <2>2
  <1>6. /\ Pending(s) = 0
        /\ Cap > 0 => Pending(s)' = IF counter + pipe[s] <= Cap THEN pipe[s]
                                   ELSE IF counter < Cap THEN Cap - counter ELSE 0
    BY <1>1, <1>3 DEF Numbers, Pending
  <1>7. \A r \in Streams : r # s => Pending(r)' = Pending(r)
    BY <1>4 DEF Pending
  <1>8. \A r \in Streams : Pending(r) \in Nat
    BY DEF Numbers, Pending
  <1>9. AllCounted'
    BY <1>1, <1>2, <1>6, <1>7, <1>8 DEF Streams, Numbers, Counting, AllCounted
  <1>10. QED
    BY <1>5, <1>9 DEF Counting

LEMMA OnLimitCounting ==
  ASSUME Places, Numbers, Counting, NEW s \in Streams, OnLimit(s)
  PROVE  Counting'
  BY DEF Places, Numbers, OnLimit, GoCopy, Counting, ChunkPlaced, AllCounted, Pending, Streams

LEMMA FitCounting ==
  ASSUME Places, Numbers, Counting, NEW s \in Streams, Fit(s)
  PROVE  Counting'
  BY DEF Places, Numbers, Fit, GoCopy, Counting, ChunkPlaced, AllCounted, Pending, Streams

LEMMA ForwardCounting ==
  ASSUME Places, Numbers, Counting, NEW s \in Streams, Forward(s)
  PROVE  Counting'
  BY DEF Places, Numbers, Forward, GoCopy, Counting, ChunkPlaced, AllCounted, Pending, Streams

LEMMA EofCounting ==
  ASSUME Places, Numbers, Counting, NEW s \in Streams, Eof(s)
  PROVE  Counting'
  BY DEF Places, Numbers, Eof, GoCopy, Counting, ChunkPlaced, AllCounted, Pending, Streams

LEMMA CountingNext ==
  ASSUME TypeOK, Fresh, Counting, Next
  PROVE  Counting'
  <1> USE TypeParts
  <1>1. CASE Start
    BY <1>1, StartCounting DEF Start, Fresh
  <1>2. ASSUME NEW s \in Streams, Copy(s)
        PROVE  Counting'
    BY <1>2, CountCounting, OnLimitCounting, FitCounting, ForwardCounting, EofCounting DEF Copy
  <1>3. CASE StartFail \/ StorePid \/ MakeCgroup \/ Watch \/ Wait \/ Stop
    BY <1>3, CountingKept DEF StartFail, StorePid, MakeCgroup, Watch, Wait, Stop, CountVars, out
  <1>4. CASE WatcherCancelled \/ WatcherKill \/ WatcherDone \/ Fork \/ CtxExpire
    BY <1>4, CountingKept DEF WatcherCancelled, WatcherKill, WatcherDone, Fork, CtxExpire, CountVars, out
  <1>5. ASSUME NEW p \in Processes
        PROVE  /\ Exit(p) \/ Detach(p) => Counting'
               /\ \A s \in Streams : Emit(p, s) => Counting'
    BY CountingKept DEF Exit, Detach, Emit, CountVars, out
  <1>6. QED
    BY <1>1, <1>2, <1>3, <1>4, <1>5 DEF Next

(* The counter and the context only go one way. *)
LEMMA Monotone ==
  ASSUME TypeOK, Next
  PROVE  (counter > Cap => counter' > Cap) /\ (ctxDone => ctxDone')
  <1>1. ASSUME NEW s \in Streams, Count(s)
        PROVE  counter > Cap => counter' > Cap
    <2>1. pipe[s] \in Nat /\ counter \in Nat
      BY ChunkSize, TypeParts DEF Numbers
    <2>2. counter' = counter + pipe[s]
      BY <1>1 DEF Count
    <2>3. QED
      BY <2>1, <2>2
  <1>2. (\E s \in Streams : Count(s)) \/ UNCHANGED counter
    BY Zenon DEF Next, StartFail, Start, StorePid, MakeCgroup, Watch, Wait, Stop, WatcherCancelled,
       WatcherKill, WatcherDone, Copy, OnLimit, Fit, Forward, Eof, Emit, Exit, Detach, Fork, CtxExpire, out
  <1>3. ctxDone => ctxDone'
    BY Zenon DEF Next, StartFail, Start, StorePid, MakeCgroup, Watch, Wait, Stop, WatcherCancelled,
       WatcherKill, WatcherDone, Copy, Count, OnLimit, Fit, Forward, Eof, Emit, Exit, Detach, Fork, CtxExpire
  <1>4. QED
    BY <1>1, <1>2, <1>3

(* The pid, the watcher and the copying goroutines take their steps in the handler's order. *)
LEMMA OrderNext ==
  ASSUME TypeOK, Fresh, PidKnown, WatcherCause, Next
  PROVE  Fresh' /\ PidKnown' /\ WatcherCause'
  <1> USE DEF Fresh, PidKnown, WatcherCause, kill, proc, out
  <1>1. CASE StartFail \/ Start \/ StorePid
    BY <1>1 DEF StartFail, Start, StorePid
  <1>2. CASE MakeCgroup \/ Watch \/ Wait \/ Stop
    BY <1>2 DEF MakeCgroup, Watch, Wait, Stop
  <1>3. CASE WatcherCancelled \/ WatcherKill \/ WatcherDone
    BY <1>3 DEF WatcherCancelled, WatcherKill, WatcherDone, KillFn
  <1>4. ASSUME NEW s \in Streams, Copy(s)
        PROVE  Fresh' /\ PidKnown' /\ WatcherCause'
    <2>1. UNCHANGED <<handler, watcher, ctxDone, pidStored>>
      BY <1>4, Zenon DEF Copy, Count, OnLimit, KillFn, Fit, Forward, Eof
    <2>2. copier[s] # "none"
      BY <1>4 DEF Copy, Count, OnLimit, Fit, Forward, Eof
    <2>3. QED
      BY <2>1, <2>2
  <1>5. ASSUME NEW p \in Processes
        PROVE  /\ Exit(p) \/ Detach(p) => Fresh' /\ PidKnown' /\ WatcherCause'
               /\ \A s \in Streams : Emit(p, s) => Fresh' /\ PidKnown' /\ WatcherCause'
    BY DEF Exit, Detach, Emit
  <1>6. CASE Fork \/ CtxExpire
    BY <1>6 DEF Fork, CtxExpire
  <1>7. QED
    BY <1>1, <1>2, <1>3, <1>4, <1>5, <1>6 DEF Next

(* Who kills, and what is known by then. *)
LEMMA KillNext ==
  ASSUME TypeOK, Counting, PidKnown, WatcherCause, KilledForCause, LostOnlyByCap, Next
  PROVE  KilledForCause' /\ LostOnlyByCap'
  <1>1. CASE UNCHANGED killed
    BY <1>1, Monotone DEF KilledForCause, LostOnlyByCap
  <1>2. CASE WatcherKill
    <2>1. ctxDone /\ pidStored
      BY <1>2 DEF WatcherKill, WatcherCause, PidKnown
    <2>2. ctxDone' /\ UNCHANGED counter /\ killed' = IF killed # "no" THEN killed ELSE "sent"
      BY <1>2, <2>1 DEF WatcherKill, KillFn, out
    <2>3. QED
      BY <2>2 DEF KilledForCause, LostOnlyByCap
  <1>3. ASSUME NEW s \in Streams, OnLimit(s)
        PROVE  KilledForCause' /\ LostOnlyByCap'
    <2>1. Cap > 0 /\ counter > Cap
      <3>1. copier[s] = "limit" /\ ChunkPlaced(s)
        BY <1>3 DEF OnLimit, Counting
      <3>2. after[s] \in Nat /\ counter \in Nat
        BY TypeParts DEF Numbers
      <3>3. QED
        BY <3>1, <3>2 DEF ChunkPlaced
    <2>2. QED
      BY <2>1, Monotone DEF KilledForCause, LostOnlyByCap
  <1>4. UNCHANGED killed \/ WatcherKill \/ \E s \in Streams : OnLimit(s)
    BY Zenon DEF Next, StartFail, Start, StorePid, MakeCgroup, Watch, Wait, Stop, WatcherCancelled,
       WatcherDone, Copy, Count, Fit, Forward, Eof, Emit, Exit, Detach, Fork, CtxExpire, kill
  <1>5. QED
    BY <1>1, <1>2, <1>3, <1>4

LEMMA ExecInvInit == Init => ExecInv
  <1> SUFFICES ASSUME Init
               PROVE  ExecInv
    OBVIOUS
  <1>1. TypeOK
    BY ExecTypeInit
  <1>2. Fresh /\ PidKnown /\ WatcherCause /\ KilledForCause /\ LostOnlyByCap
    BY DEF Init, Fresh, PidKnown, WatcherCause, KilledForCause, LostOnlyByCap
  <1>3. Counting
    BY DEF Init, Counting, ChunkPlaced, AllCounted, Pending, Streams
  <1>4. QED
    BY <1>1, <1>2, <1>3 DEF ExecInv

LEMMA ExecInvNext == ExecInv /\ [Next]_execVars => ExecInv'
  <1> SUFFICES ASSUME ExecInv, [Next]_execVars
               PROVE  ExecInv'
    OBVIOUS
  <1>1. CASE Next
    BY <1>1, ExecTypeNext, CountingNext, OrderNext, KillNext DEF ExecInv
  <1>2. CASE UNCHANGED execVars
    <2>1. Fresh' /\ PidKnown' /\ WatcherCause' /\ KilledForCause' /\ LostOnlyByCap'
      BY <1>2 DEF ExecInv, execVars, kill, proc, out, Fresh, PidKnown, WatcherCause,
         KilledForCause, LostOnlyByCap
    <2>2. TypeOK'
      <3>1. UNCHANGED <<handler, pidStored, killed, limitHit, cgroup, ctxDone, watcher, alive, writers, pipe,
                        emitted, copier, size, after, counter, limitOnce, forwarded>>
        BY <1>2 DEF execVars, kill, proc, out
      <3>2. TypeOK
        BY DEF ExecInv
      <3>3. QED
        BY <3>1, <3>2 DEF TypeOK
    <2>3. Counting'
      BY <1>2, CountingKept DEF ExecInv, execVars, out, CountVars
    <2>4. QED
      BY <2>1, <2>2, <2>3 DEF ExecInv
  <1>3. QED
    BY <1>1, <1>2

LEMMA ExecAlways == Spec => []ExecInv
  BY ExecInvInit, ExecInvNext, PTL DEF Spec

(* Every variable of the handler keeps its type. *)
THEOREM ExecTypeCorrect == Spec => []TypeOK
  <1>1. ExecInv => TypeOK
    BY DEF ExecInv
  <1>2. QED
    BY <1>1, ExecAlways, PTL

(***************************************************************************)
(* The output cap is exact: however the copying goroutines interleave,     *)
(* what limitwriter has passed on is the smaller of the cap and what it    *)
(* has counted, up to the chunks still in a write.                         *)
(***************************************************************************)
THEOREM ExecOutputCapped == Spec => []OutputCapped
  <1>1. ExecInv => OutputCapped
    <2> SUFFICES ASSUME ExecInv, Cap > 0
                 PROVE  /\ forwarded <= Cap
                        /\ (\A s \in Streams : copier[s] \in {"none", "read"} \/ Ended(s))
                              => forwarded = IF counter <= Cap THEN counter ELSE Cap
      BY DEF OutputCapped
    <2>1. Numbers /\ AllCounted
      BY TypeParts DEF ExecInv, Counting
    <2>2. \A s \in Streams : Pending(s) \in Nat
      <3>1. \A s \in Streams : size[s] \in Nat /\ after[s] \in Nat
        BY <2>1 DEF Numbers
      <3>2. QED
        BY <3>1 DEF Pending
    <2>3. forwarded <= Cap
      BY <2>1, <2>2 DEF AllCounted, Numbers, Streams
    <2>4. ASSUME \A s \in Streams : copier[s] \in {"none", "read"} \/ Ended(s)
          PROVE  forwarded = IF counter <= Cap THEN counter ELSE Cap
      <3>1. Pending("out") = 0 /\ Pending("err") = 0
        BY <2>4 DEF Pending, Streams, Ended
      <3>2. QED
        BY <2>1, <3>1 DEF AllCounted, Numbers
    <2>5. QED
      BY <2>3, <2>4
  <1>2. QED
    BY <1>1, ExecAlways, PTL

(***************************************************************************)
(* killFn runs only when the output is over the cap or the context is      *)
(* done, whichever goroutine comes first.                                  *)
(***************************************************************************)
THEOREM ExecKilledForCause == Spec => []KilledForCause
  <1>1. ExecInv => KilledForCause
    BY DEF ExecInv
  <1>2. QED
    BY <1>1, ExecAlways, PTL

(***************************************************************************)
(* The watcher starts after the pid is stored, so a kill that finds no pid *)
(* is the output cap's.                                                    *)
(***************************************************************************)
THEOREM ExecLostOnlyByCap == Spec => []LostOnlyByCap
  <1>1. ExecInv => LostOnlyByCap
    BY DEF ExecInv
  <1>2. QED
    BY <1>1, ExecAlways, PTL

-----------------------------------------------------------------------------
(***************************************************************************)
(* What a kill achieves.  CancelReturns fails because a kill can come      *)
(* before the handler has stored the pid; the theorems say that this is    *)
(* the only way a kill fails, and when it can happen.                      *)
(***************************************************************************)

(* "Kills the entire process group": a kill that was sent leaves no process
   and no writer, and none comes after it; a watcher that has ended while the
   handler still waits has killed; and an output over the cap has killed as
   soon as no copying goroutine is on its way to do so. *)
KillReaches ==
    /\ killed = "sent" => alive = {} /\ writers = {}
    /\ watcher = "end" => handler = "done" \/ killed # "no"
    /\ Cap > 0 /\ counter > Cap /\ (\A s \in Streams : copier[s] # "limit") => killed # "no"

(* The kill is lost in one window: between cmd.Start and pidStore.Store. *)
LostWindow == killed # "lost" /\ killed' = "lost" => handler = "started"

(* The kill follows the pid, the pid follows the start, and the shared once
   stands for a kill. *)
KillOrder ==
    /\ killed = "sent" => pidStored
    /\ handler = "start" => ~pidStored
    /\ limitOnce => killed # "no"
    /\ handler = "done" /\ ~pidStored => \A s \in Streams : copier[s] = "none"

KillInv == KillReaches /\ KillOrder

KillVars == <<handler, pidStored, killed, alive, writers, watcher, copier, counter, limitOnce>>

LEMMA KillFnReaches ==
  ASSUME TypeOK, KillReaches, KillOrder, KillFn
  PROVE  /\ killed' # "no"
         /\ killed' = "sent" => alive' = {} /\ writers' = {} /\ pidStored'
         /\ killed' = "lost" => killed = "lost" \/ ~pidStored
  <1>1. killed \in {"no", "sent", "lost"}
    BY DEF TypeOK
  <1>2. QED
    BY <1>1 DEF KillFn, KillReaches, KillOrder

LEMMA KillInvNext ==
  ASSUME ExecInv, KillInv, Next
  PROVE  KillInv'
  <1>t. TypeOK /\ Fresh /\ PidKnown /\ Numbers /\ Places
    BY TypeParts DEF ExecInv
  <1> USE DEF KillInv, KillReaches, KillOrder, proc, out, kill
  <1>1. CASE StartFail
    BY <1>1, <1>t DEF StartFail, Fresh
  <1>2. CASE Start
    <2>1. killed # "sent" /\ killed' = killed /\ watcher' = watcher /\ counter' = counter
      BY <1>2 DEF Start
    <2>2. handler' = "started" /\ handler = "start" /\ limitOnce' = limitOnce
      BY <1>2 DEF Start
    <2>3. \A s \in Streams : copier[s] # "limit"
      BY <1>t, <2>2 DEF Fresh
    <2>4. QED
      BY <2>1, <2>2, <2>3
  <1>3. CASE StorePid
    BY <1>3 DEF StorePid
  <1>4. CASE MakeCgroup \/ Watch \/ Wait \/ Stop
    BY <1>4, <1>t DEF MakeCgroup, Watch, Wait, Stop, PidKnown
  <1>5. CASE WatcherCancelled \/ WatcherDone \/ CtxExpire
    BY <1>5 DEF WatcherCancelled, WatcherDone, CtxExpire
  <1>6. CASE WatcherKill
    <2>1. UNCHANGED <<handler, copier, counter, limitOnce, pidStored>> /\ KillFn
      BY <1>6 DEF WatcherKill, KillFn
    <2>2. QED
      BY <2>1, <1>t, KillFnReaches
  <1>7. ASSUME NEW s \in Streams, Copy(s)
        PROVE  KillInv'
    <2>1. CASE Count(s)
      <3>1. UNCHANGED <<handler, pidStored, killed, alive, writers, watcher, limitOnce>>
        BY <2>1 DEF Count
      <3>2. copier[s] = "read" /\ counter' = counter + pipe[s] /\ pipe[s] \in Nat
        BY <2>1, <1>t, ChunkSize DEF Count
      <3>3. copier' = [copier EXCEPT ![s] = IF Cap > 0 /\ counter + pipe[s] > Cap
                                            THEN "limit" ELSE "write"]
        BY <2>1 DEF Count, GoCopy
      <3>4. copier'[s] = IF Cap > 0 /\ counter + pipe[s] > Cap THEN "limit" ELSE "write"
        BY <1>t, <3>3 DEF Places
      <3>5. ~(handler = "done" /\ ~pidStored)
        BY <3>2
      <3>6. QED
        BY <3>1, <3>2, <3>4, <3>5
    <2>2. CASE OnLimit(s)
      <3>1. UNCHANGED <<handler, watcher, counter, pidStored>> /\ limitOnce' /\ copier[s] = "limit"
        BY <2>2 DEF OnLimit, KillFn
      <3>2. CASE limitOnce
        BY <2>2, <3>1, <3>2 DEF OnLimit
      <3>3. CASE ~limitOnce
        <4>1. KillFn
          BY <2>2, <3>3 DEF OnLimit
        <4>2. QED
          BY <3>1, <4>1, <1>t, KillFnReaches
      <3>4. QED
        BY <3>2, <3>3
    <2>3. CASE Fit(s) \/ Forward(s) \/ Eof(s)
      <3>1. UNCHANGED <<handler, pidStored, killed, alive, writers, watcher, limitOnce, counter>>
        BY <2>3 DEF Fit, Forward, Eof
      <3>2. copier[s] \in {"fit", "write", "read"}
        BY <2>3 DEF Fit, Forward, Eof
      <3>3. \A r \in Streams : copier[r] = "limit" => copier'[r] = "limit"
        BY <2>3, <3>2, <1>t DEF Fit, Forward, Eof, GoCopy, Places
      <3>4. ~(handler = "done" /\ ~pidStored)
        BY <3>2
      <3>5. QED
        BY <3>1, <3>3, <3>4
    <2>4. QED
      BY <1>7, <2>1, <2>2, <2>3 DEF Copy
  <1>8. ASSUME NEW p \in Processes
        PROVE  /\ Exit(p) \/ Detach(p) => KillInv'
               /\ \A s \in Streams : Emit(p, s) => KillInv'
    <2>1. ASSUME Exit(p) \/ Detach(p)
          PROVE  KillInv'
      BY <2>1 DEF Exit, Detach
    <2>2. ASSUME NEW s \in Streams, Emit(p, s)
          PROVE  KillInv'
      BY <2>2 DEF Emit
    <2>3. QED
      BY <2>1, <2>2
  <1>9. CASE Fork
    BY <1>9 DEF Fork
  <1>10. QED
    BY <1>1, <1>2, <1>3, <1>4, <1>5, <1>6, <1>7, <1>8, <1>9 DEF Next

LEMMA KillAlways == Spec => []KillInv
  <1>1. Init => KillInv
    BY DEF Init, KillInv, KillReaches, KillOrder
  <1>2. ExecInv /\ KillInv /\ [Next]_execVars => KillInv'
    <2> SUFFICES ASSUME ExecInv, KillInv, [Next]_execVars
                 PROVE  KillInv'
      OBVIOUS
    <2>1. CASE UNCHANGED execVars
      <3>1. UNCHANGED KillVars
        BY <2>1 DEF execVars, kill, proc, out, KillVars
      <3>2. QED
        BY <3>1 DEF KillVars, KillInv, KillReaches, KillOrder
    <2>2. QED
      BY <2>1, KillInvNext
  <1>3. QED
    BY <1>1, <1>2, ExecAlways, PTL DEF Spec

(* Whoever kills - the watcher or either copying goroutine, in any order with
   the command's forks, exits and writes - kills the whole group or, before
   the pid is stored, nobody; and a cancelled or over-long command has been
   killed by the time its goroutines have had their turn. *)
THEOREM ExecKillReaches == Spec => []KillReaches
  <1>1. KillInv => KillReaches
    BY DEF KillInv
  <1>2. QED
    BY <1>1, KillAlways, PTL

(* A kill signals nobody only while the handler is between cmd.Start and
   pidStore.Store: the exact window of what the run of CancelReturns finds. *)
THEOREM ExecLostWindow == Spec => [][LostWindow]_execVars
  <1>1. ExecInv /\ KillInv /\ [Next]_execVars => [LostWindow]_execVars
    <2> SUFFICES ASSUME ExecInv, KillInv, Next, killed # "lost", killed' = "lost"
                 PROVE  handler = "started"
      BY DEF LostWindow
    <2>t. TypeOK /\ Fresh /\ PidKnown /\ KillReaches /\ KillOrder
      BY DEF ExecInv, KillInv
    <2>1. WatcherKill \/ \E s \in Streams : OnLimit(s)
      BY Zenon DEF Next, StartFail, Start, StorePid, MakeCgroup, Watch, Wait, Stop,
         WatcherCancelled, WatcherDone, Copy, Count, Fit, Forward, Eof, Emit, Exit, Detach,
         Fork, CtxExpire, kill
    <2>2. CASE WatcherKill
      <3>1. pidStored /\ KillFn
        BY <2>2, <2>t DEF WatcherKill, PidKnown
      <3>2. QED
        BY <3>1, <2>t, KillFnReaches
    <2>3. ASSUME NEW s \in Streams, OnLimit(s)
          PROVE  handler = "started"
      <3>1. KillFn /\ copier[s] = "limit"
        BY <2>3 DEF OnLimit, kill
      <3>2. ~pidStored
        BY <3>1, <2>t, KillFnReaches
      <3>3. handler \notin {"start", "done"}
        BY <3>1, <3>2, <2>t DEF Fresh, KillOrder
      <3>4. QED
        BY <3>2, <3>3, <2>t DEF PidKnown, TypeOK
    <2>4. QED
      BY <2>1, <2>2, <2>3
  <1>2. QED
    BY <1>1, ExecAlways, KillAlways, PTL DEF Spec

-----------------------------------------------------------------------------
(* What outlives the handler. *)

(* A copying goroutine ends when no process writes any more, or at the cap,
   where it has called killFn, or because the writer behind it failed. *)
PipesDrained ==
    /\ \A s \in Streams : copier[s] = "end" => writers = {} \/ limitOnce
    /\ \A s \in Streams : copier[s] = "fit" => limitOnce
    /\ handler \in {"stop", "done"} =>
          (\A s \in Streams : Ended(s)) \/ writers = {}
    /\ handler = "start" => writers = {}

(* The handler waits for the leader and for the pipes, not for the group: a
   process that has redirected its output may outlive it.  None that still has
   the pipes open does, except after a kill that was lost, or after both the
   writers behind them failed. *)
SurvivorsQuiet ==
    handler \in {"stop", "done"} =>
        writers = {} \/ killed = "lost" \/ \A s \in Streams : copier[s] = "failed"

LEMMA PipesDrainedNext ==
  ASSUME ExecInv, KillInv, PipesDrained, Next
  PROVE  PipesDrained'
  <1>t. TypeOK /\ Fresh /\ Places
    BY TypeParts DEF ExecInv
  <1> USE DEF PipesDrained, proc, out, kill, Ended
  <1>1. CASE StartFail
    BY <1>1 DEF StartFail
  <1>2. CASE Start
    BY <1>2 DEF Start
  <1>3. CASE StorePid \/ MakeCgroup \/ Watch \/ Wait \/ Stop
    BY <1>3 DEF StorePid, MakeCgroup, Watch, Wait, Stop, Ended
  <1>4. CASE WatcherCancelled \/ WatcherDone \/ CtxExpire
    BY <1>4 DEF WatcherCancelled, WatcherDone, CtxExpire
  <1>5. CASE WatcherKill
    <2>1. UNCHANGED <<handler, copier, limitOnce>> /\ writers' \subseteq writers
      BY <1>5 DEF WatcherKill, KillFn
    <2>2. QED
      BY <2>1
  <1>6. ASSUME NEW s \in Streams, Copy(s)
        PROVE  PipesDrained'
    <2>r. \A r \in Streams : r # s => copier'[r] = copier[r]
      BY <1>6, <1>t DEF Copy, Count, OnLimit, Fit, Forward, Eof, GoCopy, Places
    <2>1. CASE Count(s)
      <3>1. UNCHANGED <<handler, writers, limitOnce>> /\ copier[s] = "read"
        BY <2>1 DEF Count
      <3>2. copier'[s] \in {"limit", "write"}
        BY <2>1, <1>t DEF Count, GoCopy, Places
      <3>3. QED
        BY <2>r, <3>1, <3>2
    <2>2. CASE OnLimit(s)
      <3>1. UNCHANGED handler /\ limitOnce' /\ copier[s] = "limit" /\ writers' \subseteq writers
        BY <2>2 DEF OnLimit, KillFn
      <3>2. copier'[s] = "fit"
        BY <2>2, <1>t DEF OnLimit, GoCopy, Places
      <3>3. QED
        BY <2>r, <3>1, <3>2
    <2>3. CASE Fit(s) \/ Forward(s) \/ Eof(s)
      <3>1. UNCHANGED <<handler, writers, limitOnce>>
        BY <2>3 DEF Fit, Forward, Eof
      <3>2. copier[s] \in {"fit", "write", "read"}
        BY <2>3 DEF Fit, Forward, Eof
      <3>3. copier'[s] \in {"end", "failed", "read"} /\ (copier'[s] = "end" => writers = {} \/ limitOnce)
        BY <2>3, <1>t DEF Fit, Forward, Eof, GoCopy, Places
      <3>4. QED
        BY <2>r, <3>1, <3>2, <3>3
    <2>4. QED
      BY <1>6, <2>1, <2>2, <2>3 DEF Copy
  <1>7. ASSUME NEW p \in Processes
        PROVE  /\ Exit(p) \/ Detach(p) => PipesDrained'
               /\ \A s \in Streams : Emit(p, s) => PipesDrained'
    <2>1. ASSUME Exit(p) \/ Detach(p)
          PROVE  PipesDrained'
      <3>1. UNCHANGED <<handler, copier, limitOnce>> /\ writers' \subseteq writers
        BY <2>1 DEF Exit, Detach
      <3>2. QED
        BY <3>1
    <2>2. ASSUME NEW s \in Streams, Emit(p, s)
          PROVE  PipesDrained'
      BY <2>2 DEF Emit
    <2>3. QED
      BY <2>1, <2>2
  <1>8. CASE Fork
    <2>1. UNCHANGED <<handler, copier, limitOnce>> /\ (writers = {} => writers' = {})
      BY <1>8 DEF Fork
    <2>2. QED
      BY <2>1
  <1>9. QED
    BY <1>1, <1>2, <1>3, <1>4, <1>5, <1>6, <1>7, <1>8 DEF Next

(* A background process with its output on the terminal keeps the handler in
   cmd.Wait; one that outlives it writes nowhere the handler reads. *)
THEOREM ExecSurvivorsQuiet == Spec => []SurvivorsQuiet
  <1>1. Init => PipesDrained
    BY DEF Init, PipesDrained
  <1>2. ExecInv /\ KillInv /\ PipesDrained /\ [Next]_execVars => PipesDrained'
    <2> SUFFICES ASSUME ExecInv, KillInv, PipesDrained, [Next]_execVars
                 PROVE  PipesDrained'
      OBVIOUS
    <2>1. CASE UNCHANGED execVars
      BY <2>1 DEF execVars, proc, out, PipesDrained, Ended
    <2>2. QED
      BY <2>1, PipesDrainedNext
  <1>3. ExecInv /\ KillInv /\ PipesDrained => SurvivorsQuiet
    <2> SUFFICES ASSUME ExecInv, KillInv, PipesDrained, handler \in {"stop", "done"}, writers # {},
                        NEW s \in Streams, copier[s] # "failed"
                 PROVE  killed = "lost"
      BY DEF SurvivorsQuiet
    <2>1. limitOnce
      BY DEF PipesDrained, Ended
    <2>2. killed \in {"sent", "lost"}
      BY <2>1 DEF ExecInv, TypeOK, KillInv, KillOrder
    <2>3. QED
      BY <2>2 DEF KillInv, KillReaches
  <1>4. QED
    BY <1>1, <1>2, <1>3, ExecAlways, KillAlways, PTL DEF Spec

=============================================================================

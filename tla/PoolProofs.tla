------------------------------ MODULE PoolProofs ------------------------------
(***************************************************************************)
(* Machine-checked proofs about Pool, for any clients, sandboxes and       *)
(* options.  The argument is layered: types and ownership of goroutine     *)
(* locals; then the accounting of p.size; then where each sandbox is; and  *)
(* from these the bound on live sandboxes and the refinement of            *)
(* SandboxLease.                                                           *)
(***************************************************************************)
EXTENDS Pool, TLAPS, FiniteSetTheorems, SequenceTheorems

(* The clamped options of NewPool are usable whatever the caller passed. *)
LEMMA ClampedOptions == MaxSize \in Nat \ {0} /\ MinSize \in 0 .. MaxSize
  BY ConstantsAssumption DEF MaxSize, MinSize

-----------------------------------------------------------------------------
(* Sequences as the channel and the evictor's list use them. *)

LEMMA AppendFacts ==
  ASSUME NEW S, NEW s \in Seq(S), NEW x \in S
  PROVE  /\ Append(s, x) \in Seq(S)
         /\ Len(Append(s, x)) = Len(s) + 1
         /\ Range(Append(s, x)) = Range(s) \cup {x}
         /\ IsInjective(s) /\ x \notin Range(s) => IsInjective(Append(s, x))
  <1>1. /\ Append(s, x) \in Seq(S)
        /\ Len(Append(s, x)) = Len(s) + 1
        /\ \A i \in 1 .. Len(s) : Append(s, x)[i] = s[i]
        /\ Append(s, x)[Len(s) + 1] = x
    BY AppendProperties
  <1>2. Len(s) \in Nat /\ DOMAIN s = 1 .. Len(s)
    BY LenProperties
  <1>3. DOMAIN Append(s, x) = 1 .. Len(s) + 1
    BY <1>1, LenProperties
  <1>4. Range(Append(s, x)) = Range(s) \cup {x}
    BY <1>1, <1>2, <1>3 DEF Range
  <1>5. IsInjective(s) /\ x \notin Range(s) => IsInjective(Append(s, x))
    BY <1>1, <1>2, <1>3 DEF Range, IsInjective
  <1>6. QED
    BY <1>1, <1>4, <1>5

LEMMA TailFacts ==
  ASSUME NEW S, NEW s \in Seq(S), s # <<>>
  PROVE  /\ Head(s) \in S
         /\ Head(s) \in Range(s)
         /\ Tail(s) \in Seq(S)
         /\ Len(s) >= 1
         /\ Len(Tail(s)) = Len(s) - 1
         /\ Range(s) = Range(Tail(s)) \cup {Head(s)}
         /\ IsInjective(s) => IsInjective(Tail(s)) /\ Head(s) \notin Range(Tail(s))
  <1>1. /\ Head(s) \in S
        /\ Tail(s) \in Seq(S)
        /\ Len(Tail(s)) = Len(s) - 1
        /\ \A i \in 1 .. Len(Tail(s)) : Tail(s)[i] = s[i + 1]
    BY HeadTailProperties
  <1>2. Len(s) \in Nat /\ Len(s) >= 1 /\ DOMAIN s = 1 .. Len(s) /\ Head(s) = s[1]
    BY LenProperties, EmptySeq
  <1>3. DOMAIN Tail(s) = 1 .. Len(s) - 1
    BY <1>1, LenProperties
  <1>4. Range(s) = Range(Tail(s)) \cup {Head(s)}
    <2>1. ASSUME NEW i \in DOMAIN s
          PROVE  s[i] \in Range(Tail(s)) \cup {Head(s)}
      <3>1. CASE i = 1
        BY <3>1, <1>2
      <3>2. CASE i # 1
        <4>1. i - 1 \in DOMAIN Tail(s) /\ Tail(s)[i - 1] = s[i]
          BY <3>2, <1>1, <1>2, <1>3
        <4>2. QED
          BY <4>1 DEF Range
      <3>3. QED
        BY <3>1, <3>2
    <2>2. ASSUME NEW i \in DOMAIN Tail(s)
          PROVE  Tail(s)[i] \in Range(s)
      BY <1>1, <1>2, <1>3 DEF Range
    <2>3. Head(s) \in Range(s)
      BY <1>2 DEF Range
    <2>4. QED
      BY <2>1, <2>2, <2>3 DEF Range
  <1>5. IsInjective(s) => IsInjective(Tail(s)) /\ Head(s) \notin Range(Tail(s))
    BY <1>1, <1>2, <1>3 DEF Range, IsInjective
  <1>6. QED
    BY <1>1, <1>2, <1>4, <1>5

LEMMA EmptyFacts ==
  ASSUME NEW S
  PROVE  /\ <<>> \in Seq(S)
         /\ Len(<<>>) = 0
         /\ Range(<<>>) = {}
         /\ IsInjective(<<>>)
  BY EmptySeq DEF Range, IsInjective

(* A sequence has no more elements than places. *)
LEMMA RangeBound ==
  ASSUME NEW S, NEW s \in Seq(S)
  PROVE  IsFiniteSet(Range(s)) /\ Cardinality(Range(s)) <= Len(s)
  <1>1. Len(s) \in Nat /\ DOMAIN s = 1 .. Len(s)
    BY LenProperties
  <1>2. IsFiniteSet(1 .. Len(s)) /\ Cardinality(1 .. Len(s)) = Len(s)
    BY <1>1, FS_Interval
  <1>3. s \in Surjection(1 .. Len(s), Range(s))
    BY <1>1 DEF Surjection, Range
  <1>4. QED
    BY <1>2, <1>3, FS_Surjection

-----------------------------------------------------------------------------
(***************************************************************************)
(* Types.  TypeOK needs to know that a goroutine at an owning point has a  *)
(* sandbox, or ReleasePush could send nothing into the channel.            *)
(***************************************************************************)
OwnersHaveSandbox == \A p \in Procs : pc[p] \in OwnPoints <=> sb[p] # NoSandbox

TypeInv == TypeOK /\ OwnersHaveSandbox

LEMMA ProcFacts ==
  /\ Evictor \in Procs /\ Closer \in Procs /\ Clients \subseteq Procs
  /\ Evictor \notin Clients /\ Closer \notin Clients /\ Evictor # Closer
  /\ NoSandbox \notin Sandboxes
  BY ConstantsAssumption DEF Procs

LEMMA TypeInvInit == Init => TypeInv
  <1> SUFFICES ASSUME Init
               PROVE  TypeInv
    OBVIOUS
  <1> USE ProcFacts DEF Init
  <1>1. pool \in Seq(Sandboxes) /\ keep \in Seq(Sandboxes)
    BY EmptyFacts
  <1>2. /\ pc \in [Procs -> ClientPoints \cup EvictorPoints \cup CloserPoints]
        /\ \A c \in Clients : pc[c] = "idle"
        /\ pc[Evictor] \in {"loop", "exit"}
        /\ pc[Closer] = "idle"
    BY DEF ClientPoints, EvictorPoints, CloserPoints
  <1>3. OwnersHaveSandbox
    BY DEF OwnersHaveSandbox, OwnPoints
  <1>4. closed \in BOOLEAN /\ done \in BOOLEAN /\ up \in BOOLEAN
    OBVIOUS
  <1>5. sb \in [Procs -> Sandboxes \cup {NoSandbox}]
    OBVIOUS
  <1>6. old \subseteq Range(pool) /\ size \in Int /\ open \subseteq Sandboxes
    OBVIOUS
  <1>7. QED
    BY <1>1, <1>2, <1>3, <1>4, <1>5, <1>6
    DEF TypeInv, TypeOK, ClientPoints, EvictorPoints, CloserPoints

LEMMA TypeInvNext == TypeInv /\ [Next]_vars => TypeInv'
  <1> SUFFICES ASSUME TypeInv, [Next]_vars
               PROVE  TypeInv'
    OBVIOUS
  <1> USE ProcFacts DEF TypeInv, TypeOK, OwnersHaveSandbox, OwnPoints, ClientPoints,
                        EvictorPoints, CloserPoints
  <1>a. pool # <<>> => /\ Head(pool) \in Sandboxes
                       /\ Tail(pool) \in Seq(Sandboxes)
                       /\ Range(pool) = Range(Tail(pool)) \cup {Head(pool)}
    BY TailFacts
  <1>k. keep # <<>> => /\ Head(keep) \in Sandboxes
                       /\ Tail(keep) \in Seq(Sandboxes)
    BY TailFacts
  <1>p. ASSUME NEW s \in Sandboxes
        PROVE  /\ Append(pool, s) \in Seq(Sandboxes)
               /\ Range(Append(pool, s)) = Range(pool) \cup {s}
               /\ Append(keep, s) \in Seq(Sandboxes)
    BY AppendFacts
  <1>1. CASE Prewarm
    BY <1>1, <1>p DEF Prewarm
  <1>2. CASE PrewarmEnd
    BY <1>2 DEF PrewarmEnd
  <1>3. ASSUME NEW c \in Clients, Acquire(c)
        PROVE  TypeInv'
    <2>1. CASE AcquireFast(c) \/ WaitReceive(c)
      <3>1. /\ Receive(c, "held")
            /\ UNCHANGED <<size, closed, done, up, open, keep>>
        BY <2>1 DEF AcquireFast, WaitReceive
      <3>2. QED
        BY <3>1, <1>a DEF Receive, Goto
    <2>2. CASE AcquireMiss(c)
      BY <2>2 DEF AcquireMiss, Goto
    <2>3. CASE Reserve(c)
      BY <2>3 DEF Reserve, Goto
    <2>4. CASE Create(c)
      BY <2>4 DEF Create, Goto
    <2>5. CASE CreateFail(c) \/ WaitDone(c) \/ WaitCancel(c)
      BY <2>5 DEF CreateFail, WaitDone, WaitCancel, Goto
    <2>6. QED
      BY <1>3, <2>1, <2>2, <2>3, <2>4, <2>5 DEF Acquire
  <1>4. ASSUME NEW c \in Clients, Lease(c)
        PROVE  TypeInv'
    <2>1. CASE CloseLease(c)
      BY <2>1 DEF CloseLease
    <2>2. CASE Release(c) \/ ReleaseCheck(c)
      BY <2>2 DEF Release, ReleaseCheck, Goto
    <2>3. CASE ReleasePush(c)
      <3>1. sb[c] \in Sandboxes
        BY <2>3 DEF ReleasePush
      <3>2. QED
        BY <2>3, <3>1, <1>p DEF ReleasePush, Forget, Goto
    <2>4. QED
      BY <1>4, <2>1, <2>2, <2>3 DEF Lease
  <1>5. ASSUME NEW p \in Procs, Discard(p) \/ DecSize(p)
        PROVE  TypeInv'
    <2>1. CASE Discard(p)
      BY <2>1 DEF Discard, Forget, Goto, Procs
    <2>2. CASE DecSize(p)
      <3>1. CASE p \in Clients
        BY <2>2, <3>1 DEF DecSize, AfterDec, Goto
      <3>2. CASE p = Evictor
        BY <2>2, <3>2 DEF DecSize, AfterDec, Goto
      <3>3. CASE p = Closer
        BY <2>2, <3>3 DEF DecSize, AfterDec, Goto
      <3>4. QED
        BY <3>1, <3>2, <3>3 DEF Procs
    <2>3. QED
      BY <1>5, <2>1, <2>2
  <1>6. CASE Evict
    <2>1. CASE Tick
      BY <2>1, EmptyFacts DEF Tick, Goto
    <2>2. CASE EvictStop \/ EvictDrained \/ EvictRefilled
      BY <2>2 DEF EvictStop, EvictDrained, EvictRefilled, Goto
    <2>3. CASE EvictReceive
      <3>1. CASE Head(pool) \in old
        BY <2>3, <3>1, <1>a DEF EvictReceive, Receive, Goto
      <3>2. CASE Head(pool) \notin old
        <4>1. /\ pool # <<>> /\ keep' = Append(keep, Head(pool)) /\ pool' = Tail(pool)
              /\ UNCHANGED <<old, size, closed, done, up, open, sb, pc>>
          BY <2>3, <3>2 DEF EvictReceive
        <4>2. keep' \in Seq(Sandboxes) /\ pool' \in Seq(Sandboxes) /\ old' \subseteq Range(pool')
          BY <3>2, <4>1, <1>a, <1>p
        <4>3. QED
          BY <4>1, <4>2
      <3>3. QED
        BY <3>1, <3>2
    <2>4. CASE EvictRefill
      BY <2>4, <1>k, <1>p DEF EvictRefill, Goto
    <2>5. QED
      BY <1>6, <2>1, <2>2, <2>3, <2>4 DEF Evict
  <1>7. CASE Close
    <2>1. CASE CloseReceive
      BY <2>1, <1>a DEF CloseReceive, Receive, Goto
    <2>2. CASE CloseBegin \/ CloseDone \/ CloseDrained
      BY <2>2 DEF CloseBegin, CloseDone, CloseDrained, Goto
    <2>3. QED
      BY <1>7, <2>1, <2>2 DEF Close
  <1>8. CASE UNCHANGED vars
    BY <1>8 DEF vars
  <1>9. QED
    BY <1>1, <1>2, <1>3, <1>4, <1>5, <1>6, <1>7, <1>8 DEF Next

(* Every variable keeps its type, and goroutines stay in their own code. *)
THEOREM PoolTypeCorrect == Spec => []TypeOK
  <1>1. Spec => []TypeInv
    BY TypeInvInit, TypeInvNext, PTL DEF Spec
  <1>2. TypeInv => TypeOK
    BY DEF TypeInv
  <1>3. QED
    BY <1>1, <1>2, PTL

-----------------------------------------------------------------------------
(***************************************************************************)
(* The accounting of p.size.  The induction needs two facts beside the     *)
(* equation: nothing runs before NewPool returns, so pre-warming fills an  *)
(* empty pool; and the evictor's list is empty outside evictIdle.          *)
(***************************************************************************)
QuietBeforeUp ==
    ~up => /\ \A p \in Procs : pc[p] \in {"idle", "loop", "exit"}
           /\ ~done
           /\ keep = <<>>

KeepOnlyInEviction == pc[Evictor] \in {"loop", "exit"} => keep = <<>>

CountInv == SizeAccounts /\ QuietBeforeUp /\ KeepOnlyInEviction

LEMMA FiniteProcs ==
  ASSUME NEW S \in SUBSET Procs
  PROVE  IsFiniteSet(S) /\ Cardinality(S) \in Nat
  <1>1. IsFiniteSet({Evictor, Closer})
    <2>1. IsFiniteSet({} \cup {Evictor})
      BY FS_EmptySet, FS_AddElement
    <2>2. IsFiniteSet(({} \cup {Evictor}) \cup {Closer})
      BY <2>1, FS_AddElement
    <2>3. ({} \cup {Evictor}) \cup {Closer} = {Evictor, Closer}
      OBVIOUS
    <2>4. QED
      BY <2>2, <2>3
  <1>2. IsFiniteSet(Procs)
    BY <1>1, ConstantsAssumption, FS_Union DEF Procs
  <1>3. IsFiniteSet(S)
    BY <1>2, FS_Subset
  <1>4. QED
    BY <1>3, FS_CardinalityType

(* How one goroutine's step changes the number of slots it accounts for. *)
LEMMA SlotsStep ==
  ASSUME TypeInv, NEW p \in Procs, NEW l, Goto(p, l)
  PROVE  /\ (pc[p] \in SlotPoints <=> l \in SlotPoints)
              => Cardinality(Slots') = Cardinality(Slots)
         /\ pc[p] \notin SlotPoints /\ l \in SlotPoints
              => Cardinality(Slots') = Cardinality(Slots) + 1
         /\ pc[p] \in SlotPoints /\ l \notin SlotPoints
              => Cardinality(Slots') = Cardinality(Slots) - 1
  <1> USE DEF TypeInv, TypeOK, Goto
  <1>0. IsFiniteSet(Slots)
    BY FiniteProcs DEF Slots
  <1>1. \A q \in Procs : pc'[q] = IF q = p THEN l ELSE pc[q]
    OBVIOUS
  <1>2. CASE pc[p] \in SlotPoints <=> l \in SlotPoints
    <2>1. Slots' = Slots
      BY <1>1, <1>2 DEF Slots
    <2>2. QED
      BY <1>2, <2>1
  <1>3. CASE pc[p] \notin SlotPoints /\ l \in SlotPoints
    <2>1. Slots' = Slots \cup {p} /\ p \notin Slots
      BY <1>1, <1>3 DEF Slots
    <2>2. Cardinality(Slots') = Cardinality(Slots) + 1
      BY <1>0, <2>1, FS_AddElement
    <2>3. QED
      BY <1>3, <2>2
  <1>4. CASE pc[p] \in SlotPoints /\ l \notin SlotPoints
    <2>1. Slots' = Slots \ {p} /\ p \in Slots
      BY <1>1, <1>4 DEF Slots
    <2>2. Cardinality(Slots') = Cardinality(Slots) - 1
      BY <1>0, <2>1, FS_RemoveElement
    <2>3. QED
      BY <1>4, <2>2
  <1>5. QED
    BY <1>2, <1>3, <1>4

LEMMA CountInvInit == Init => CountInv
  <1> SUFFICES ASSUME Init
               PROVE  CountInv
    OBVIOUS
  <1> USE ProcFacts DEF Init
  <1>1. Slots = {}
    BY DEF Slots, SlotPoints, OwnPoints
  <1>2. SizeAccounts
    BY <1>1, EmptyFacts, FS_EmptySet, ClampedOptions DEF SizeAccounts
  <1>3. QED
    BY <1>2 DEF CountInv, QuietBeforeUp, KeepOnlyInEviction

(* In an open or closing pool a slot in hand leaves room in the channel. *)
LEMMA RoomForOwner ==
  ASSUME TypeInv, CountInv, NEW p \in Procs, pc[p] \in SlotPoints
  PROVE  Len(pool) < MaxSize
  <1>1. IsFiniteSet(Slots) /\ Cardinality(Slots) \in Nat
    BY FiniteProcs DEF Slots
  <1>2. p \in Slots
    BY DEF Slots
  <1>3. Cardinality(Slots) # 0
    BY <1>1, <1>2, FS_EmptySet
  <1>4. Len(pool) \in Nat /\ Len(keep) \in Nat
    BY LenProperties DEF TypeInv, TypeOK
  <1>5. QED
    BY <1>1, <1>3, <1>4, ClampedOptions DEF CountInv, SizeAccounts, TypeInv, TypeOK

LEMMA RoomForKept ==
  ASSUME TypeInv, CountInv, keep # <<>>
  PROVE  Len(pool) < MaxSize
  <1>1. Cardinality(Slots) \in Nat
    BY FiniteProcs DEF Slots
  <1>2. Len(pool) \in Nat /\ Len(keep) >= 1
    BY LenProperties, TailFacts DEF TypeInv, TypeOK
  <1>3. QED
    BY <1>1, <1>2, ClampedOptions DEF CountInv, SizeAccounts, TypeInv, TypeOK

LEMMA CountInvNext == TypeInv /\ CountInv /\ [Next]_vars => CountInv'
  <1> SUFFICES ASSUME TypeInv, CountInv, [Next]_vars
               PROVE  CountInv'
    OBVIOUS
  <1> USE ProcFacts, ClampedOptions
  <1>t. /\ Len(pool) \in Nat /\ Len(keep) \in Nat /\ Cardinality(Slots) \in Nat
        /\ size = Len(pool) + Len(keep) + Cardinality(Slots) /\ size <= MaxSize
        /\ size \in Int /\ pool \in Seq(Sandboxes) /\ keep \in Seq(Sandboxes)
    BY LenProperties, FiniteProcs DEF TypeInv, TypeOK, CountInv, SizeAccounts, Slots
  <1>c. \A c \in Clients : pc[c] \in ClientPoints
    BY DEF TypeInv, TypeOK
  <1>q. (\E p \in Procs : pc[p] \notin {"idle", "loop", "exit"}) \/ done => up
    BY DEF CountInv, QuietBeforeUp
  <1>a. pool # <<>> => Len(Tail(pool)) = Len(pool) - 1
    BY <1>t, TailFacts
  <1>k. keep # <<>> => Len(Tail(keep)) = Len(keep) - 1
    BY <1>t, TailFacts
  <1>p. ASSUME NEW s \in Sandboxes
        PROVE  /\ Len(Append(pool, s)) = Len(pool) + 1
               /\ Len(Append(keep, s)) = Len(keep) + 1
    BY <1>t, AppendFacts
  (* A step of goroutine p to l, once the pool is up, that leaves keep alone. *)
  <1>s. ASSUME NEW p \in Procs, NEW l, Goto(p, l), up', keep' = keep,
               p = Evictor /\ l \in {"loop", "exit"} => keep = <<>>,
               size' = Len(pool') + Len(keep') + Cardinality(Slots'), size' <= MaxSize
        PROVE  CountInv'
    <2>1. pc'[Evictor] \in {"loop", "exit"} => keep' = <<>>
      BY <1>s DEF Goto, TypeInv, TypeOK, CountInv, KeepOnlyInEviction
    <2>2. QED
      BY <1>s, <2>1 DEF CountInv, SizeAccounts, QuietBeforeUp, KeepOnlyInEviction
  <1>1. CASE Prewarm
    <2>1. PICK s \in Sandboxes : size' = size + 1 /\ pool' = Append(pool, s)
      BY <1>1 DEF Prewarm
    <2>2. ~up /\ Len(pool) < MinSize /\ UNCHANGED <<done, up, pc, keep>>
      BY <1>1 DEF Prewarm
    <2>3. Slots = {} /\ keep = <<>>
      BY <2>2 DEF CountInv, QuietBeforeUp, Slots, SlotPoints, OwnPoints
    <2>4. Cardinality(Slots) = 0 /\ Len(keep) = 0 /\ Slots' = Slots
      BY <2>2, <2>3, FS_EmptySet, EmptyFacts DEF Slots
    <2>5. QED
      BY <2>1, <2>2, <2>4, <1>t, <1>p
      DEF CountInv, SizeAccounts, QuietBeforeUp, KeepOnlyInEviction
  <1>2. CASE PrewarmEnd
    <2>1. up' /\ UNCHANGED <<pool, keep, size, pc, done>>
      BY <1>2 DEF PrewarmEnd
    <2>2. Slots' = Slots
      BY <2>1 DEF Slots
    <2>3. QED
      BY <2>1, <2>2, <1>t DEF CountInv, SizeAccounts, QuietBeforeUp, KeepOnlyInEviction
  <1>3. ASSUME NEW c \in Clients, Acquire(c)
        PROVE  CountInv'
    <2>1. CASE AcquireFast(c) \/ WaitReceive(c)
      <3>1. /\ Goto(c, "held") /\ up' /\ keep' = keep /\ size' = size
            /\ pc[c] \in {"idle", "wait"} /\ pool # <<>> /\ pool' = Tail(pool)
        BY <2>1, <1>q DEF AcquireFast, WaitReceive, Receive
      <3>2. Cardinality(Slots') = Cardinality(Slots) + 1
        BY <3>1, SlotsStep DEF SlotPoints, OwnPoints
      <3>3. size' = Len(pool') + Len(keep') + Cardinality(Slots') /\ size' <= MaxSize
      BY <3>1, <3>2, <1>t, <1>a
    <3>4. QED
      BY <3>1, <3>3, <1>s
    <2>2. CASE AcquireMiss(c) \/ WaitDone(c) \/ WaitCancel(c)
      <3>1. PICK l \in {"lock", "idle"} : Goto(c, l)
        BY <2>2 DEF AcquireMiss, WaitDone, WaitCancel
      <3>2. up' /\ UNCHANGED <<pool, keep, size>> /\ pc[c] \in {"idle", "wait"}
        BY <2>2, <1>q DEF AcquireMiss, WaitDone, WaitCancel
      <3>3. Cardinality(Slots') = Cardinality(Slots)
        BY <3>1, <3>2, SlotsStep DEF SlotPoints, OwnPoints
      <3>4. QED
        BY <3>1, <3>2, <3>3, <1>t, <1>s
    <2>3. CASE Reserve(c)
      <3>1. up' /\ UNCHANGED <<pool, keep>> /\ pc[c] = "lock"
        BY <2>3, <1>q DEF Reserve
      <3>2. CASE Goto(c, "new") /\ size < MaxSize /\ size' = size + 1
        <4>1. Cardinality(Slots') = Cardinality(Slots) + 1
          BY <3>1, <3>2, SlotsStep DEF SlotPoints, OwnPoints
        <4>2. QED
          BY <3>1, <3>2, <4>1, <1>t, <1>s
      <3>3. CASE (Goto(c, "idle") \/ Goto(c, "wait")) /\ size' = size
        <4>1. PICK l \in {"idle", "wait"} : Goto(c, l)
          BY <3>3
        <4>2. Cardinality(Slots') = Cardinality(Slots)
          BY <3>1, <4>1, SlotsStep DEF SlotPoints, OwnPoints
        <4>3. QED
          BY <3>1, <3>3, <4>1, <4>2, <1>t, <1>s
      <3>4. QED
        BY <2>3, <3>2, <3>3 DEF Reserve
    <2>4. CASE Create(c) \/ CreateFail(c)
      <3>1. PICK l \in {"held", "dec"} : Goto(c, l)
        BY <2>4 DEF Create, CreateFail
      <3>2. up' /\ UNCHANGED <<pool, keep, size>> /\ pc[c] = "new"
        BY <2>4, <1>q DEF Create, CreateFail
      <3>3. Cardinality(Slots') = Cardinality(Slots)
        BY <3>1, <3>2, SlotsStep DEF SlotPoints, OwnPoints
      <3>4. QED
        BY <3>1, <3>2, <3>3, <1>t, <1>s
    <2>5. QED
      BY <1>3, <2>1, <2>2, <2>3, <2>4 DEF Acquire
  <1>4. ASSUME NEW c \in Clients, Lease(c)
        PROVE  CountInv'
    <2>1. CASE CloseLease(c)
      <3>1. UNCHANGED <<pool, keep, size, pc, up, done>>
        BY <2>1 DEF CloseLease
      <3>2. Slots' = Slots
        BY <3>1 DEF Slots
      <3>3. QED
        BY <3>1, <3>2 DEF CountInv, SizeAccounts, QuietBeforeUp, KeepOnlyInEviction
    <2>2. CASE Release(c) \/ ReleaseCheck(c)
      <3>1. PICK l \in {"check", "discard", "push"} : Goto(c, l)
        BY <2>2 DEF Release, ReleaseCheck
      <3>2. up' /\ UNCHANGED <<pool, keep, size>> /\ pc[c] \in {"held", "check"}
        BY <2>2, <1>q DEF Release, ReleaseCheck
      <3>3. Cardinality(Slots') = Cardinality(Slots)
        BY <3>1, <3>2, SlotsStep DEF SlotPoints, OwnPoints
      <3>4. QED
        BY <3>1, <3>2, <3>3, <1>t, <1>s
    <2>3. CASE ReleasePush(c)
      <3>1. up' /\ UNCHANGED <<keep, size>> /\ pc[c] = "push"
        BY <2>3, <1>q DEF ReleasePush
      <3>2. Len(pool) < MaxSize
        BY <3>1, RoomForOwner DEF SlotPoints, OwnPoints
      <3>3. Goto(c, "idle") /\ pool' = Append(pool, sb[c])
        BY <2>3, <3>2 DEF ReleasePush, Forget
      <3>4. sb[c] \in Sandboxes
        BY <3>1 DEF TypeInv, TypeOK, OwnersHaveSandbox, OwnPoints
      <3>5. Cardinality(Slots') = Cardinality(Slots) - 1
        BY <3>1, <3>3, SlotsStep DEF SlotPoints, OwnPoints
      <3>6. size' = Len(pool') + Len(keep') + Cardinality(Slots') /\ size' <= MaxSize
      BY <3>1, <3>3, <3>4, <3>5, <1>t, <1>p
    <3>7. QED
      BY <3>1, <3>3, <3>6, <1>s
    <2>4. QED
      BY <1>4, <2>1, <2>2, <2>3 DEF Lease
  <1>5. ASSUME NEW p \in Procs, Discard(p) \/ DecSize(p)
        PROVE  CountInv'
    <2>1. CASE Discard(p)
      <3>1. PICK l \in {"dec", "surplusDec"} : Goto(p, l)
        BY <2>1 DEF Discard, Forget
      <3>2. up' /\ UNCHANGED <<pool, keep, size>> /\ pc[p] \in {"discard", "surplus"}
        BY <2>1, <1>q DEF Discard
      <3>3. Cardinality(Slots') = Cardinality(Slots)
        BY <3>1, <3>2, SlotsStep DEF SlotPoints, OwnPoints
      <3>4. QED
        BY <3>1, <3>2, <3>3, <1>t, <1>s
    <2>2. CASE DecSize(p)
      <3>1. PICK l \in {"refill", "idle", "drain"} : Goto(p, l)
        BY <2>2 DEF DecSize, AfterDec
      <3>2. /\ up' /\ UNCHANGED <<pool, keep>> /\ size' = size - 1
            /\ pc[p] \in {"dec", "surplusDec"}
        BY <2>2, <1>q DEF DecSize
      <3>3. Cardinality(Slots') = Cardinality(Slots) - 1
        BY <3>1, <3>2, SlotsStep DEF SlotPoints, OwnPoints
      <3>4. size' = Len(pool') + Len(keep') + Cardinality(Slots') /\ size' <= MaxSize
        BY <3>2, <3>3, <1>t
      <3>5. QED
        BY <3>1, <3>2, <3>4, <1>s
    <2>3. QED
      BY <1>5, <2>1, <2>2
  <1>6. CASE Evict
    <2>1. CASE Tick
      <3>1. /\ Goto(Evictor, "drain") /\ up' /\ UNCHANGED <<pool, size>>
            /\ pc[Evictor] = "loop" /\ keep' = <<>>
        BY <2>1 DEF Tick
      <3>2. keep = <<>> /\ keep' = keep
        BY <3>1 DEF CountInv, KeepOnlyInEviction
      <3>3. Cardinality(Slots') = Cardinality(Slots)
        BY <3>1, SlotsStep DEF SlotPoints, OwnPoints
      <3>4. size' = Len(pool') + Len(keep') + Cardinality(Slots') /\ size' <= MaxSize
        BY <3>1, <3>2, <3>3, <1>t
      <3>5. QED
        BY <3>1, <3>2, <3>4, <1>s
    <2>2. CASE EvictStop \/ EvictDrained \/ EvictRefilled
      <3>1. PICK l \in {"exit", "refill", "loop"} : Goto(Evictor, l)
        BY <2>2 DEF EvictStop, EvictDrained, EvictRefilled
      <3>2. /\ up' /\ UNCHANGED <<pool, keep, size>>
            /\ pc[Evictor] \in {"loop", "drain", "refill"}
        BY <2>2, <1>q DEF EvictStop, EvictDrained, EvictRefilled
      <3>3. Cardinality(Slots') = Cardinality(Slots)
        BY <3>1, <3>2, SlotsStep DEF SlotPoints, OwnPoints
      <3>4. pc'[Evictor] \in {"loop", "exit"} => keep = <<>>
        BY <2>2 DEF EvictStop, EvictDrained, EvictRefilled, CountInv, KeepOnlyInEviction,
                    Goto, TypeInv, TypeOK
      <3>5. l \in {"loop", "exit"} => keep = <<>>
        BY <3>1, <3>4 DEF Goto, TypeInv, TypeOK
      <3>6. QED
        BY <3>1, <3>2, <3>3, <3>5, <1>t, <1>s
    <2>3. CASE EvictReceive
      <3>1. up' /\ UNCHANGED size /\ pc[Evictor] = "drain" /\ pool # <<>>
        BY <2>3, <1>q DEF EvictReceive
      <3>2. CASE Head(pool) \in old
        <4>1. Goto(Evictor, "discard") /\ pool' = Tail(pool) /\ keep' = keep
          BY <2>3, <3>2 DEF EvictReceive, Receive
        <4>2. Cardinality(Slots') = Cardinality(Slots) + 1
          BY <3>1, <4>1, SlotsStep DEF SlotPoints, OwnPoints
        <4>3. size' = Len(pool') + Len(keep') + Cardinality(Slots') /\ size' <= MaxSize
        BY <3>1, <4>1, <4>2, <1>t, <1>a
      <4>4. QED
        BY <3>1, <4>1, <4>3, <1>s
      <3>3. CASE Head(pool) \notin old
        <4>1. pool' = Tail(pool) /\ keep' = Append(keep, Head(pool)) /\ pc' = pc
          BY <2>3, <3>3 DEF EvictReceive
        <4>2. Slots' = Slots /\ Head(pool) \in Sandboxes
          BY <3>1, <4>1, <1>t, TailFacts DEF Slots
        <4>3. QED
          BY <3>1, <4>1, <4>2, <1>t, <1>a, <1>p
          DEF CountInv, SizeAccounts, QuietBeforeUp, KeepOnlyInEviction
      <3>4. QED
        BY <3>2, <3>3
    <2>4. CASE EvictRefill
      <3>1. /\ up' /\ UNCHANGED size /\ pc[Evictor] = "refill"
            /\ keep # <<>> /\ keep' = Tail(keep)
        BY <2>4, <1>q DEF EvictRefill
      <3>2. Len(pool) < MaxSize
        BY <3>1, RoomForKept
      <3>3. pool' = Append(pool, Head(keep)) /\ pc' = pc
        BY <2>4, <3>2 DEF EvictRefill
      <3>4. Slots' = Slots /\ Head(keep) \in Sandboxes
        BY <3>1, <3>3, <1>t, TailFacts DEF Slots
      <3>5. QED
        BY <3>1, <3>3, <3>4, <1>t, <1>k, <1>p
        DEF CountInv, SizeAccounts, QuietBeforeUp, KeepOnlyInEviction
    <2>5. QED
      BY <1>6, <2>1, <2>2, <2>3, <2>4 DEF Evict
  <1>7. CASE Close
    <2>1. CASE CloseReceive
      <3>1. /\ Goto(Closer, "discard") /\ up' /\ keep' = keep /\ size' = size
            /\ pc[Closer] = "drain" /\ pool # <<>> /\ pool' = Tail(pool)
        BY <2>1, <1>q DEF CloseReceive, Receive
      <3>2. Cardinality(Slots') = Cardinality(Slots) + 1
        BY <3>1, SlotsStep DEF SlotPoints, OwnPoints
      <3>3. size' = Len(pool') + Len(keep') + Cardinality(Slots') /\ size' <= MaxSize
      BY <3>1, <3>2, <1>t, <1>a
    <3>4. QED
      BY <3>1, <3>3, <1>s
    <2>2. CASE CloseBegin \/ CloseDone \/ CloseDrained
      <3>1. PICK l \in {"closing", "drain", "finished"} : Goto(Closer, l)
        BY <2>2 DEF CloseBegin, CloseDone, CloseDrained
      <3>2. /\ up' /\ UNCHANGED <<pool, keep, size>>
            /\ pc[Closer] \in {"idle", "closing", "drain"}
        BY <2>2, <1>q DEF CloseBegin, CloseDone, CloseDrained
      <3>3. Cardinality(Slots') = Cardinality(Slots)
        BY <3>1, <3>2, SlotsStep DEF SlotPoints, OwnPoints
      <3>4. QED
        BY <3>1, <3>2, <3>3, <1>t, <1>s
    <2>3. QED
      BY <1>7, <2>1, <2>2 DEF Close
  <1>8. CASE UNCHANGED vars
    <2>1. UNCHANGED <<pool, keep, size, pc, up, done>>
      BY <1>8 DEF vars
    <2>2. Slots' = Slots
      BY <2>1 DEF Slots
    <2>3. QED
      BY <2>1, <2>2 DEF CountInv, SizeAccounts, QuietBeforeUp, KeepOnlyInEviction
  <1>9. QED
    BY <1>1, <1>2, <1>3, <1>4, <1>5, <1>6, <1>7, <1>8 DEF Next

(* p.size counts exactly the sandboxes idle, set aside, held, being made or
   being closed, and never exceeds MaxSize. *)
THEOREM PoolSizeAccounts == Spec => []SizeAccounts
  <1>1. Spec => []TypeInv
    BY TypeInvInit, TypeInvNext, PTL DEF Spec
  <1>2. Spec => []CountInv
    BY <1>1, CountInvInit, CountInvNext, PTL DEF Spec
  <1>3. CountInv => SizeAccounts
    BY DEF CountInv
  <1>4. QED
    BY <1>2, <1>3, PTL

-----------------------------------------------------------------------------
(***************************************************************************)
(* The branches for a full channel are dead.  A sandbox about to be pushed *)
(* counts in p.size, so the channel holds fewer than MaxSize others.       *)
(***************************************************************************)
LEMMA NothingWastedNext ==
  TypeInv /\ CountInv /\ NothingWasted /\ [Next]_vars => NothingWasted'
  <1> SUFFICES ASSUME TypeInv, CountInv, NothingWasted, [Next]_vars
               PROVE  NothingWasted'
    OBVIOUS
  <1> USE ProcFacts DEF NothingWasted
  <1>t. /\ pc \in [Procs -> ClientPoints \cup EvictorPoints \cup CloserPoints]
        /\ \A c \in Clients : pc[c] \in ClientPoints
        /\ closed \in BOOLEAN
    BY DEF TypeInv, TypeOK
  (* A step to a point where nothing is discarded, by any goroutine. *)
  <1>s. ASSUME NEW p \in Procs, NEW l, Goto(p, l), closed => closed',
               l \notin {"discard", "surplus", "surplusDec"}
        PROVE  NothingWasted'
    BY <1>s, <1>t DEF Goto
  <1>1. CASE Prewarm \/ PrewarmEnd
    BY <1>1 DEF Prewarm, PrewarmEnd
  <1>2. ASSUME NEW c \in Clients, Acquire(c)
        PROVE  NothingWasted'
    <2>1. closed' = closed
      BY <1>2 DEF Acquire, AcquireFast, AcquireMiss, Reserve, Create, CreateFail,
                  WaitReceive, WaitDone, WaitCancel
    <2>2. PICK l \in {"held", "lock", "idle", "new", "wait", "dec"} : Goto(c, l)
      BY <1>2 DEF Acquire, AcquireFast, AcquireMiss, Reserve, Create, CreateFail,
                  WaitReceive, WaitDone, WaitCancel, Receive
    <2>3. QED
      BY <2>1, <2>2, <1>s
  <1>3. ASSUME NEW c \in Clients, Lease(c)
        PROVE  NothingWasted'
    <2>1. closed' = closed
      BY <1>3 DEF Lease, CloseLease, Release, ReleaseCheck, ReleasePush
    <2>2. CASE CloseLease(c)
      BY <2>2 DEF CloseLease
    <2>3. CASE Release(c)
      BY <2>1, <2>3, <1>s DEF Release
    <2>4. CASE ReleaseCheck(c)
      <3>1. Len(pool) < MaxSize
        BY <2>4, RoomForOwner DEF ReleaseCheck, SlotPoints, OwnPoints
      <3>2. ~(Len(pool) >= MaxSize)
        BY <3>1, ClampedOptions, LenProperties DEF TypeInv, TypeOK
      <3>3. Goto(c, "push") \/ (Goto(c, "discard") /\ closed)
        BY <2>4, <3>2 DEF ReleaseCheck
      <3>4. QED
        BY <2>1, <3>3, <1>s, <1>t DEF Goto
    <2>5. CASE ReleasePush(c)
      <3>1. Len(pool) < MaxSize
        BY <2>5, RoomForOwner DEF ReleasePush, SlotPoints, OwnPoints
      <3>2. Goto(c, "idle")
        BY <2>5, <3>1 DEF ReleasePush, Forget
      <3>3. QED
        BY <2>1, <3>2, <1>s
    <2>6. QED
      BY <1>3, <2>2, <2>3, <2>4, <2>5 DEF Lease
  <1>4. ASSUME NEW p \in Procs, Discard(p) \/ DecSize(p)
        PROVE  NothingWasted'
    <2>1. closed' = closed
      BY <1>4 DEF Discard, DecSize
    <2>2. CASE Discard(p)
      <3>1. pc[p] # "surplus"
        <4>1. p \in Clients \/ p = Evictor \/ p = Closer
          BY DEF Procs
        <4>2. QED
          BY <4>1, <1>t DEF ClientPoints, CloserPoints, TypeInv, TypeOK
      <3>2. Goto(p, "dec")
        BY <2>2, <3>1 DEF Discard, Forget
      <3>3. QED
        BY <2>1, <3>2, <1>s
    <2>3. CASE DecSize(p)
      <3>1. PICK l \in {"refill", "idle", "drain"} : Goto(p, l)
        BY <2>3 DEF DecSize, AfterDec
      <3>2. QED
        BY <2>1, <3>1, <1>s
    <2>4. QED
      BY <1>4, <2>2, <2>3
  <1>5. CASE Evict
    <2>1. closed' = closed
      BY <1>5 DEF Evict, Tick, EvictStop, EvictReceive, EvictDrained, EvictRefill,
                  EvictRefilled
    <2>2. CASE Tick \/ EvictStop \/ EvictDrained \/ EvictRefilled
      <3>1. PICK l \in {"drain", "exit", "refill", "loop"} : Goto(Evictor, l)
        BY <2>2 DEF Tick, EvictStop, EvictDrained, EvictRefilled
      <3>2. QED
        BY <2>1, <3>1, <1>s
    <2>3. CASE EvictReceive
      <3>1. Goto(Evictor, "discard") \/ pc' = pc
        BY <2>3 DEF EvictReceive, Receive
      <3>2. QED
        BY <2>1, <3>1, <1>t DEF Goto
    <2>4. CASE EvictRefill
      <3>1. keep # <<>>
        BY <2>4 DEF EvictRefill
      <3>2. Len(pool) < MaxSize
        BY <3>1, RoomForKept
      <3>3. pc' = pc
        BY <2>4, <3>2 DEF EvictRefill
      <3>4. QED
        BY <2>1, <3>3
    <2>5. QED
      BY <1>5, <2>2, <2>3, <2>4 DEF Evict
  <1>6. CASE Close
    <2>1. closed => closed'
      BY <1>6 DEF Close, CloseBegin, CloseDone, CloseReceive, CloseDrained
    <2>2. PICK l \in {"closing", "drain", "discard", "finished"} : Goto(Closer, l)
      BY <1>6 DEF Close, CloseBegin, CloseDone, CloseReceive, CloseDrained, Receive
    <2>3. QED
      BY <2>1, <2>2, <1>t DEF Goto
  <1>7. CASE UNCHANGED vars
    BY <1>7 DEF vars
  <1>8. QED
    BY <1>1, <1>2, <1>3, <1>4, <1>5, <1>6, <1>7 DEF Next

LEMMA NothingWastedInit == Init => NothingWasted
  BY ProcFacts DEF Init, NothingWasted

(* Release of an open pool, and the refill loop, never find the channel full. *)
THEOREM PoolNothingWasted == Spec => []NothingWasted
  <1>1. Spec => []TypeInv
    BY TypeInvInit, TypeInvNext, PTL DEF Spec
  <1>2. Spec => []CountInv
    BY <1>1, CountInvInit, CountInvNext, PTL DEF Spec
  <1>3. QED
    BY <1>1, <1>2, NothingWastedInit, NothingWastedNext, PTL DEF Spec

-----------------------------------------------------------------------------
(***************************************************************************)
(* Where each sandbox is.  ExclusiveLease is not inductive alone: a new    *)
(* sandbox must be distinct from every one in use, which holds because New *)
(* makes one that is not open, and every open one is in use somewhere.     *)
(***************************************************************************)
OpenPlaced ==
    /\ open \subseteq InUse
    /\ ~ClientsMayClose => InUse \subseteq open

PlaceInv == ExclusiveLease /\ OpenPlaced

LEMMA OwnersStep ==
  ASSUME TypeInv, NEW p \in Procs, NEW l, Goto(p, l)
  PROVE  Owners' = IF l \in OwnPoints THEN Owners \cup {p} ELSE Owners \ {p}
  <1>1. \A q \in Procs : pc'[q] = IF q = p THEN l ELSE pc[q]
    BY DEF TypeInv, TypeOK, Goto
  <1>2. QED
    BY <1>1 DEF Owners

LEMMA PlaceInvInit == Init => PlaceInv
  <1> SUFFICES ASSUME Init
               PROVE  PlaceInv
    OBVIOUS
  <1> USE ProcFacts DEF Init
  <1>1. Owners = {}
    BY DEF Owners, OwnPoints
  <1>2. Range(pool) = {} /\ Range(keep) = {} /\ IsInjective(pool) /\ IsInjective(keep)
    BY EmptyFacts
  <1>3. InUse = {}
    BY <1>1, <1>2 DEF InUse
  <1>4. QED
    BY <1>1, <1>2, <1>3 DEF PlaceInv, ExclusiveLease, OpenPlaced

(* Nothing moves: the step concerns none of the places. *)
LEMMA PlaceFrame ==
  ASSUME PlaceInv, UNCHANGED <<pool, keep, open, sb>>, Owners' = Owners
  PROVE  PlaceInv'
  BY DEF PlaceInv, ExclusiveLease, OpenPlaced, InUse

(* From the channel into the hands of a goroutine that had none. *)
LEMMA PlaceReceive ==
  ASSUME TypeInv, PlaceInv, NEW p \in Procs, NEW l \in OwnPoints, pc[p] \notin OwnPoints,
         Receive(p, l), UNCHANGED <<keep, open>>
  PROVE  PlaceInv'
  <1> DEFINE s == Head(pool)
  <1>1. /\ pool' = Tail(pool) /\ pool # <<>>
        /\ sb' = [sb EXCEPT ![p] = s]
        /\ Goto(p, l)
    BY DEF Receive
  <1>2. Owners' = Owners \cup {p} /\ p \notin Owners
    BY <1>1, OwnersStep DEF Owners
  <1>3. Range(pool) = Range(pool') \cup {s} /\ s \notin Range(pool') /\ IsInjective(pool')
    BY <1>1, TailFacts DEF TypeInv, TypeOK, PlaceInv, ExclusiveLease
  <1>4. sb'[p] = s /\ \A q \in Owners : sb'[q] = sb[q]
    BY <1>1, <1>2 DEF TypeInv, TypeOK, Owners
  <1> HIDE DEF s
  <1>5. ExclusiveLease'
    BY <1>2, <1>3, <1>4 DEF PlaceInv, ExclusiveLease
  <1>6. InUse' = InUse
    BY <1>2, <1>3, <1>4 DEF InUse
  <1>7. QED
    BY <1>5, <1>6 DEF PlaceInv, OpenPlaced

(* A new sandbox for the channel (pre-warming) is in no other place. *)
LEMMA PlacePrewarm ==
  ASSUME TypeInv, PlaceInv, Prewarm
  PROVE  PlaceInv'
  <1>1. PICK s \in Sandboxes \ (InUse \cup open) :
             open' = open \cup {s} /\ pool' = Append(pool, s)
    BY DEF Prewarm
  <1>2. UNCHANGED <<keep, sb, pc>>
    BY DEF Prewarm
  <1>3. Owners' = Owners
    BY <1>2 DEF Owners
  <1>4. Range(pool') = Range(pool) \cup {s} /\ IsInjective(pool')
    BY <1>1, AppendFacts DEF TypeInv, TypeOK, PlaceInv, ExclusiveLease, InUse
  <1>5. ExclusiveLease'
    BY <1>1, <1>2, <1>3, <1>4 DEF PlaceInv, ExclusiveLease, InUse
  <1>6. InUse' = InUse \cup {s}
    BY <1>2, <1>3, <1>4 DEF InUse
  <1>7. QED
    BY <1>1, <1>5, <1>6 DEF PlaceInv, OpenPlaced

(* A new sandbox for the goroutine that created it. *)
LEMMA PlaceCreate ==
  ASSUME TypeInv, PlaceInv, NEW c \in Clients, Create(c)
  PROVE  PlaceInv'
  <1>1. PICK s \in Sandboxes \ (InUse \cup open) :
             open' = open \cup {s} /\ sb' = [sb EXCEPT ![c] = s]
    BY DEF Create
  <1>2. UNCHANGED <<keep, pool>> /\ pc[c] = "new" /\ Goto(c, "held") /\ c \in Procs
    BY ProcFacts DEF Create
  <1>3. Owners' = Owners \cup {c} /\ c \notin Owners
    BY <1>2, OwnersStep DEF Owners, OwnPoints
  <1>4. sb'[c] = s /\ \A q \in Owners : sb'[q] = sb[q]
    BY <1>1, <1>2, <1>3 DEF TypeInv, TypeOK, Owners
  <1>5. ExclusiveLease'
    BY <1>1, <1>2, <1>3, <1>4 DEF PlaceInv, ExclusiveLease, InUse
  <1>6. InUse' = InUse \cup {s}
    BY <1>2, <1>3, <1>4 DEF InUse
  <1>7. QED
    BY <1>1, <1>5, <1>6 DEF PlaceInv, OpenPlaced

(* From the hands of a client back into the channel. *)
LEMMA PlacePush ==
  ASSUME TypeInv, CountInv, PlaceInv, NEW c \in Clients, ReleasePush(c)
  PROVE  PlaceInv'
  <1> DEFINE s == sb[c]
  <1>1. pc[c] = "push" /\ UNCHANGED <<keep, open>> /\ c \in Procs
    BY ProcFacts DEF ReleasePush
  <1>2. Len(pool) < MaxSize
    BY <1>1, RoomForOwner DEF SlotPoints, OwnPoints
  <1>3. /\ pool' = Append(pool, s) /\ Goto(c, "idle")
        /\ sb' = [sb EXCEPT ![c] = NoSandbox]
    BY <1>2 DEF ReleasePush, Forget
  <1>4. c \in Owners /\ s \in Sandboxes
    BY <1>1 DEF Owners, OwnPoints, TypeInv, TypeOK, OwnersHaveSandbox
  <1>5. Owners' = Owners \ {c} /\ \A q \in Owners \ {c} : sb'[q] = sb[q]
    BY <1>1, <1>3, OwnersStep DEF OwnPoints, TypeInv, TypeOK, Owners
  <1>6. Range(pool') = Range(pool) \cup {s} /\ IsInjective(pool')
    BY <1>3, <1>4, AppendFacts DEF TypeInv, TypeOK, PlaceInv, ExclusiveLease
  <1>7. \A q \in Owners \ {c} : sb[q] # s
    BY <1>4 DEF PlaceInv, ExclusiveLease
  <1>8. s \notin Range(keep)
    BY <1>4 DEF PlaceInv, ExclusiveLease
  <1> HIDE DEF s
  <1>9. ExclusiveLease'
    BY <1>1, <1>5, <1>6, <1>7, <1>8 DEF PlaceInv, ExclusiveLease
  <1>10. InUse' = InUse
    BY <1>1, <1>4, <1>5, <1>6 DEF InUse, s
  <1>11. QED
    BY <1>1, <1>9, <1>10 DEF PlaceInv, OpenPlaced

(* A goroutine closes the sandbox it has and forgets it. *)
LEMMA PlaceDiscard ==
  ASSUME TypeInv, PlaceInv, NEW p \in Procs, Discard(p)
  PROVE  PlaceInv'
  <1> DEFINE s == sb[p]
  <1>1. /\ pc[p] \in {"discard", "surplus"} /\ UNCHANGED <<pool, keep>>
        /\ open' = open \ {s} /\ sb' = [sb EXCEPT ![p] = NoSandbox]
    BY DEF Discard, Forget
  <1>2. PICK l \in {"dec", "surplusDec"} : Goto(p, l)
    BY DEF Discard, Forget
  <1>3. p \in Owners
    BY <1>1 DEF Owners, OwnPoints
  <1>4. Owners' = Owners \ {p} /\ \A q \in Owners \ {p} : sb'[q] = sb[q]
    BY <1>1, <1>2, OwnersStep DEF OwnPoints, TypeInv, TypeOK, Owners
  <1>5. /\ \A q \in Owners \ {p} : sb[q] # s
        /\ s \notin Range(pool) /\ s \notin Range(keep)
    BY <1>3 DEF PlaceInv, ExclusiveLease
  <1>6. ExclusiveLease'
    BY <1>1, <1>4 DEF PlaceInv, ExclusiveLease
  <1>7. InUse' = InUse \ {s}
    BY <1>1, <1>3, <1>4, <1>5 DEF InUse
  <1>8. QED
    BY <1>1, <1>6, <1>7 DEF PlaceInv, OpenPlaced

(* From the channel to the evictor's list, and back. *)
LEMMA PlaceSetAside ==
  ASSUME TypeInv, PlaceInv, EvictReceive
  PROVE  PlaceInv'
  <1>1. pc[Evictor] = "drain" /\ pool # <<>> /\ UNCHANGED open
    BY DEF EvictReceive
  <1>2. CASE Head(pool) \in old
    BY <1>1, <1>2, PlaceReceive, ProcFacts DEF EvictReceive, OwnPoints
  <1>3. CASE Head(pool) \notin old
    <2> DEFINE s == Head(pool)
    <2>1. keep' = Append(keep, s) /\ pool' = Tail(pool) /\ UNCHANGED <<sb, pc>>
      BY <1>3 DEF EvictReceive
    <2>2. /\ s \in Sandboxes /\ Range(pool) = Range(pool') \cup {s}
          /\ s \notin Range(pool') /\ IsInjective(pool')
      BY <1>1, <2>1, TailFacts DEF TypeInv, TypeOK, PlaceInv, ExclusiveLease
    <2>3. s \notin Range(keep)
      BY <2>2 DEF PlaceInv, ExclusiveLease
    <2>4. Range(keep') = Range(keep) \cup {s} /\ IsInjective(keep')
      BY <2>1, <2>2, <2>3, AppendFacts DEF TypeInv, TypeOK, PlaceInv, ExclusiveLease
    <2>5. Owners' = Owners
      BY <2>1 DEF Owners
    <2> HIDE DEF s
    <2>6. ExclusiveLease'
      BY <2>1, <2>2, <2>4, <2>5 DEF PlaceInv, ExclusiveLease
    <2>7. InUse' = InUse
      BY <2>1, <2>2, <2>4, <2>5 DEF InUse
    <2>8. QED
      BY <1>1, <2>6, <2>7 DEF PlaceInv, OpenPlaced
  <1>4. QED
    BY <1>2, <1>3

LEMMA PlaceRefill ==
  ASSUME TypeInv, CountInv, PlaceInv, EvictRefill
  PROVE  PlaceInv'
  <1> DEFINE s == Head(keep)
  <1>1. keep # <<>> /\ keep' = Tail(keep) /\ UNCHANGED open
    BY DEF EvictRefill
  <1>2. pool' = Append(pool, s) /\ UNCHANGED <<sb, pc>>
    BY <1>1, RoomForKept DEF EvictRefill
  <1>3. /\ s \in Sandboxes /\ Range(keep) = Range(keep') \cup {s}
        /\ s \notin Range(keep') /\ IsInjective(keep')
    BY <1>1, TailFacts DEF TypeInv, TypeOK, PlaceInv, ExclusiveLease
  <1>4. s \notin Range(pool)
    BY <1>3 DEF PlaceInv, ExclusiveLease
  <1>5. Range(pool') = Range(pool) \cup {s} /\ IsInjective(pool')
    BY <1>2, <1>3, <1>4, AppendFacts DEF TypeInv, TypeOK, PlaceInv, ExclusiveLease
  <1>6. Owners' = Owners
    BY <1>2 DEF Owners
  <1> HIDE DEF s
  <1>7. ExclusiveLease'
    BY <1>2, <1>3, <1>5, <1>6 DEF PlaceInv, ExclusiveLease
  <1>8. InUse' = InUse
    BY <1>2, <1>3, <1>5, <1>6 DEF InUse
  <1>9. QED
    BY <1>1, <1>7, <1>8 DEF PlaceInv, OpenPlaced

(* A step of goroutine p between points that both own, or both own nothing. *)
LEMMA PlaceStep ==
  ASSUME TypeInv, PlaceInv, NEW p \in Procs, NEW l, Goto(p, l),
         pc[p] \in OwnPoints <=> l \in OwnPoints, UNCHANGED <<pool, keep, open, sb>>
  PROVE  PlaceInv'
  <1>1. Owners' = Owners
    BY OwnersStep DEF Owners
  <1>2. QED
    BY <1>1, PlaceFrame

LEMMA PlaceInvNext == TypeInv /\ CountInv /\ PlaceInv /\ [Next]_vars => PlaceInv'
  <1> SUFFICES ASSUME TypeInv, CountInv, PlaceInv, [Next]_vars
               PROVE  PlaceInv'
    OBVIOUS
  <1> USE ProcFacts DEF OwnPoints
  <1>1. CASE Prewarm
    BY <1>1, PlacePrewarm
  <1>2. CASE PrewarmEnd
    BY <1>2, PlaceFrame DEF PrewarmEnd, Owners
  <1>3. ASSUME NEW c \in Clients, Acquire(c)
        PROVE  PlaceInv'
    <2>1. CASE AcquireFast(c)
      BY <2>1, PlaceReceive DEF AcquireFast
    <2>2. CASE WaitReceive(c)
      BY <2>2, PlaceReceive DEF WaitReceive
    <2>3. CASE Create(c)
      BY <2>3, PlaceCreate
    <2>4. CASE AcquireMiss(c) \/ Reserve(c) \/ CreateFail(c) \/ WaitDone(c) \/ WaitCancel(c)
      <3>1. PICK l \in {"lock", "idle", "new", "wait", "dec"} : Goto(c, l)
        BY <2>4 DEF AcquireMiss, Reserve, CreateFail, WaitDone, WaitCancel
      <3>2. /\ UNCHANGED <<pool, keep, open, sb>>
            /\ pc[c] \in {"idle", "lock", "new", "wait"}
        BY <2>4 DEF AcquireMiss, Reserve, CreateFail, WaitDone, WaitCancel
      <3>3. QED
        BY <3>1, <3>2, PlaceStep
    <2>5. QED
      BY <1>3, <2>1, <2>2, <2>3, <2>4 DEF Acquire
  <1>4. ASSUME NEW c \in Clients, Lease(c)
        PROVE  PlaceInv'
    <2>1. CASE CloseLease(c)
      <3>1. /\ ClientsMayClose /\ open' \subseteq open
            /\ UNCHANGED <<pool, keep, sb, pc>>
        BY <2>1 DEF CloseLease
      <3>2. Owners' = Owners
        BY <3>1 DEF Owners
      <3>3. InUse' = InUse
        BY <3>1, <3>2 DEF InUse
      <3>4. QED
        BY <3>1, <3>2, <3>3 DEF PlaceInv, ExclusiveLease, OpenPlaced
    <2>2. CASE Release(c) \/ ReleaseCheck(c)
      <3>1. PICK l \in {"check", "discard", "push"} : Goto(c, l)
        BY <2>2 DEF Release, ReleaseCheck
      <3>2. UNCHANGED <<pool, keep, open, sb>> /\ pc[c] \in {"held", "check"}
        BY <2>2 DEF Release, ReleaseCheck
      <3>3. QED
        BY <3>1, <3>2, PlaceStep
    <2>3. CASE ReleasePush(c)
      BY <2>3, PlacePush
    <2>4. QED
      BY <1>4, <2>1, <2>2, <2>3 DEF Lease
  <1>5. ASSUME NEW p \in Procs, Discard(p) \/ DecSize(p)
        PROVE  PlaceInv'
    <2>1. CASE Discard(p)
      BY <2>1, PlaceDiscard
    <2>2. CASE DecSize(p)
      <3>1. PICK l \in {"refill", "idle", "drain"} : Goto(p, l)
        BY <2>2 DEF DecSize, AfterDec
      <3>2. UNCHANGED <<pool, keep, open, sb>> /\ pc[p] \in {"dec", "surplusDec"}
        BY <2>2 DEF DecSize
      <3>3. QED
        BY <3>1, <3>2, PlaceStep
    <2>3. QED
      BY <1>5, <2>1, <2>2
  <1>6. CASE Evict
    <2>1. CASE Tick \/ EvictStop \/ EvictDrained \/ EvictRefilled
      <3>1. PICK l \in {"drain", "exit", "refill", "loop"} : Goto(Evictor, l)
        BY <2>1 DEF Tick, EvictStop, EvictDrained, EvictRefilled
      <3>2. UNCHANGED <<pool, open, sb>> /\ pc[Evictor] \in {"loop", "drain", "refill"}
        BY <2>1 DEF Tick, EvictStop, EvictDrained, EvictRefilled
      <3>3. keep' = keep
        BY <2>1 DEF Tick, EvictStop, EvictDrained, EvictRefilled, CountInv, KeepOnlyInEviction
      <3>4. QED
        BY <3>1, <3>2, <3>3, PlaceStep
    <2>2. CASE EvictReceive
      BY <2>2, PlaceSetAside
    <2>3. CASE EvictRefill
      BY <2>3, PlaceRefill
    <2>4. QED
      BY <1>6, <2>1, <2>2, <2>3 DEF Evict
  <1>7. CASE Close
    <2>1. CASE CloseReceive
      BY <2>1, PlaceReceive DEF CloseReceive
    <2>2. CASE CloseBegin \/ CloseDone \/ CloseDrained
      <3>1. PICK l \in {"closing", "drain", "finished"} : Goto(Closer, l)
        BY <2>2 DEF CloseBegin, CloseDone, CloseDrained
      <3>2. /\ UNCHANGED <<pool, keep, open, sb>>
            /\ pc[Closer] \in {"idle", "closing", "drain"}
        BY <2>2 DEF CloseBegin, CloseDone, CloseDrained
      <3>3. QED
        BY <3>1, <3>2, PlaceStep
    <2>3. QED
      BY <1>7, <2>1, <2>2 DEF Close
  <1>8. CASE UNCHANGED vars
    BY <1>8, PlaceFrame DEF vars, Owners
  <1>9. QED
    BY <1>1, <1>2, <1>3, <1>4, <1>5, <1>6, <1>7, <1>8 DEF Next

-----------------------------------------------------------------------------
(***************************************************************************)
(* The three layers together, and what follows from them.                  *)
(***************************************************************************)
PoolInv == TypeInv /\ CountInv /\ NothingWasted /\ PlaceInv

THEOREM PoolInvariant == Spec => []PoolInv
  <1>1. Spec => []TypeInv
    BY TypeInvInit, TypeInvNext, PTL DEF Spec
  <1>2. Spec => []CountInv
    BY <1>1, CountInvInit, CountInvNext, PTL DEF Spec
  <1>3. Spec => []NothingWasted
    BY PoolNothingWasted
  <1>4. Spec => []PlaceInv
    BY <1>1, <1>2, PlaceInvInit, PlaceInvNext, PTL DEF Spec
  <1>5. QED
    BY <1>1, <1>2, <1>3, <1>4, PTL DEF PoolInv

(* No sandbox is in two hands, or in a hand and the channel, at once. *)
THEOREM PoolExclusiveLease == Spec => []ExclusiveLease
  <1>1. PoolInv => ExclusiveLease
    BY DEF PoolInv, PlaceInv
  <1>2. QED
    BY <1>1, PoolInvariant, PTL

(* The sandbox a client holds has been closed by nobody but that client. *)
THEOREM PoolLeaseReady == Spec => []LeaseReady
  <1>1. PoolInv => LeaseReady
    BY ProcFacts DEF PoolInv, PlaceInv, OpenPlaced, InUse, Owners, OwnPoints, LeaseReady
  <1>2. QED
    BY <1>1, PoolInvariant, PTL

(* There are at most as many sandboxes in use as places that hold one. *)
LEMMA InUseBound ==
  ASSUME TypeInv
  PROVE  /\ IsFiniteSet(InUse)
         /\ Cardinality(InUse) \in Nat
         /\ Cardinality(InUse) <= Len(pool) + Len(keep) + Cardinality(Owners)
  <1> DEFINE P == Range(pool)
             K == Range(keep)
             H == {sb[p] : p \in Owners}
  <1>1. IsFiniteSet(P) /\ Cardinality(P) <= Len(pool)
    BY RangeBound DEF TypeInv, TypeOK
  <1>2. IsFiniteSet(K) /\ Cardinality(K) <= Len(keep)
    BY RangeBound DEF TypeInv, TypeOK
  <1>3. IsFiniteSet(Owners) /\ Cardinality(Owners) \in Nat
    BY FiniteProcs DEF Owners
  <1>4. IsFiniteSet(H) /\ Cardinality(H) <= Cardinality(Owners)
    <2> DEFINE f == [p \in Owners |-> sb[p]]
    <2>1. f \in Surjection(Owners, H)
      BY DEF Surjection
    <2> HIDE DEF f
    <2>2. QED
      BY <1>3, <2>1, FS_Surjection
  <1>5. InUse = (P \cup K) \cup H
    BY DEF InUse
  <1> HIDE DEF P, K, H
  <1>6. /\ IsFiniteSet(P \cup K)
        /\ Cardinality(P \cup K) <= Cardinality(P) + Cardinality(K)
        /\ Cardinality(P) \in Nat /\ Cardinality(K) \in Nat /\ Cardinality(P \cup K) \in Nat
    <2>1. IsFiniteSet(P \cup K) /\ IsFiniteSet(P \cap K)
      BY <1>1, <1>2, FS_Union, FS_Intersection
    <2>2. Cardinality(P \cup K) = Cardinality(P) + Cardinality(K) - Cardinality(P \cap K)
      BY <1>1, <1>2, FS_Union
    <2>3. QED
      BY <1>1, <1>2, <2>1, <2>2, FS_CardinalityType
  <1>7. /\ IsFiniteSet(InUse)
        /\ Cardinality(InUse) <= Cardinality(P \cup K) + Cardinality(H)
        /\ Cardinality(H) \in Nat /\ Cardinality(InUse) \in Nat
    <2>1. IsFiniteSet(InUse) /\ IsFiniteSet((P \cup K) \cap H)
      BY <1>4, <1>5, <1>6, FS_Union, FS_Intersection
    <2>2. Cardinality(InUse)
            = Cardinality(P \cup K) + Cardinality(H) - Cardinality((P \cup K) \cap H)
      BY <1>4, <1>5, <1>6, FS_Union
    <2>3. QED
      BY <1>4, <1>6, <2>1, <2>2, FS_CardinalityType
  <1>8. Len(pool) \in Nat /\ Len(keep) \in Nat
    BY LenProperties DEF TypeInv, TypeOK
  <1>9. QED
    BY <1>1, <1>2, <1>3, <1>4, <1>6, <1>7, <1>8

LEMMA OpenBound ==
  ASSUME PoolInv
  PROVE  /\ IsFiniteSet(open) /\ Cardinality(open) \in Nat
         /\ Cardinality(open) <= size /\ size <= MaxSize
         /\ (\E p \in Procs : pc[p] = "new") => Cardinality(open) < MaxSize
  <1> USE DEF PoolInv
  <1>1. /\ IsFiniteSet(open)
        /\ Cardinality(open) \in Nat
        /\ Cardinality(open) <= Len(pool) + Len(keep) + Cardinality(Owners)
    <2>1. open \subseteq InUse
      BY DEF PlaceInv, OpenPlaced
    <2>2. IsFiniteSet(open) /\ Cardinality(open) <= Cardinality(InUse)
      BY <2>1, InUseBound, FS_Subset
    <2>3. Cardinality(open) \in Nat
      BY <2>2, FS_CardinalityType
    <2>4. Len(pool) \in Nat /\ Len(keep) \in Nat /\ Cardinality(Owners) \in Nat
      BY LenProperties, FiniteProcs DEF TypeInv, TypeOK, Owners
    <2>5. QED
      BY <2>2, <2>3, <2>4, InUseBound
  <1>2. /\ IsFiniteSet(Slots) /\ Cardinality(Slots) \in Nat
        /\ IsFiniteSet(Owners) /\ Cardinality(Owners) \in Nat
    BY FiniteProcs DEF Slots, Owners
  <1>3. Owners \subseteq Slots
    BY DEF Owners, Slots, SlotPoints
  <1>4. Cardinality(Owners) <= Cardinality(Slots)
    BY <1>2, <1>3, FS_Subset
  <1>5. (\E p \in Procs : pc[p] = "new") => Cardinality(Owners) < Cardinality(Slots)
    <2>1. ASSUME NEW p \in Procs, pc[p] = "new"
          PROVE  Owners # Slots
      BY <2>1 DEF Owners, Slots, SlotPoints, OwnPoints
    <2>2. Owners # Slots => Cardinality(Owners) < Cardinality(Slots)
      BY <1>2, <1>3, FS_Subset
    <2>3. QED
      BY <2>1, <2>2
  <1>6. Len(pool) \in Nat /\ Len(keep) \in Nat
    BY LenProperties DEF TypeInv, TypeOK
  <1>7. size = Len(pool) + Len(keep) + Cardinality(Slots) /\ size <= MaxSize
    BY DEF CountInv, SizeAccounts
  <1>8. QED
    BY <1>1, <1>2, <1>4, <1>5, <1>6, <1>7, ClampedOptions

(* There are never more sandboxes alive than p.size says, nor than MaxSize. *)
THEOREM PoolLiveBounded == Spec => []LiveBounded
  <1>1. PoolInv => LiveBounded
    BY OpenBound DEF LiveBounded
  <1>2. QED
    BY <1>1, PoolInvariant, PTL

-----------------------------------------------------------------------------
(***************************************************************************)
(* The pool implements the lease manager.                                  *)
(***************************************************************************)
LeaseMap == [c \in Clients |-> IF pc[c] = "held" THEN sb[c] ELSE NoSandbox]

(* The cardinality SandboxLease speaks of is the one the pool's facts are about. *)
LEMMA SameCardinality == \A S : Leases!Cardinality(S) = Cardinality(S)
  BY DEF Leases!Cardinality, Cardinality

(* In the pool's terms: an idle sandbox is one no client at "held" has. *)
LEMMA NotLeased ==
  ASSUME TypeInv, NEW s, \A c \in Clients : pc[c] = "held" => sb[c] # s
  PROVE  s \notin {LeaseMap[c] : c \in Clients} \ {NoSandbox}
  BY DEF LeaseMap

(* A goroutine that neither gets nor gives up a lease leaves the map alone. *)
LEMMA LeaseFrame ==
  ASSUME TypeInv, NEW p \in Procs, NEW l, Goto(p, l), pc[p] # "held", l # "held",
         \A q \in Procs \ {p} : sb'[q] = sb[q]
  PROVE  LeaseMap' = LeaseMap
  BY ProcFacts DEF LeaseMap, Goto, TypeInv, TypeOK

LEMMA GrantStep ==
  ASSUME PoolInv, ~ClientsMayClose, NEW c \in Clients, pc[c] \in {"idle", "wait"},
         Receive(c, "held"), UNCHANGED open
  PROVE  \E s \in Sandboxes : Leases!Grant(c, s)
  <1> DEFINE s == Head(pool)
  <1> USE DEF PoolInv
  <1>1. /\ pool # <<>> /\ pc' = [pc EXCEPT ![c] = "held"]
        /\ sb' = [sb EXCEPT ![c] = s]
    BY DEF Receive, Goto
  <1>2. s \in Sandboxes /\ s \in Range(pool)
    BY <1>1, TailFacts DEF TypeInv, TypeOK
  <1>3. s \in open
    BY <1>2 DEF PlaceInv, OpenPlaced, InUse
  <1>4. \A d \in Clients : pc[d] = "held" => sb[d] # s
    BY <1>2, ProcFacts DEF PlaceInv, ExclusiveLease, Owners, OwnPoints
  <1>5. s \notin {LeaseMap[d] : d \in Clients} \ {NoSandbox}
    BY <1>4, NotLeased
  <1> HIDE DEF s
  <1>6. LeaseMap[c] = NoSandbox /\ LeaseMap' = [LeaseMap EXCEPT ![c] = s]
    BY <1>1, ProcFacts DEF LeaseMap, TypeInv, TypeOK
  <1>7. QED
    BY <1>2, <1>3, <1>5, <1>6 DEF Leases!Grant, Leases!Leased, LeaseMap

LEMMA GrantNewStep ==
  ASSUME PoolInv, NEW c \in Clients, Create(c)
  PROVE  \E s \in Sandboxes : Leases!GrantNew(c, s)
  <1> USE DEF PoolInv
  <1>1. PICK s \in Sandboxes \ (InUse \cup open) :
             open' = open \cup {s} /\ sb' = [sb EXCEPT ![c] = s]
    BY DEF Create
  <1>2. pc[c] = "new" /\ pc' = [pc EXCEPT ![c] = "held"]
    BY DEF Create, Goto
  <1>3. Cardinality(open) < MaxSize
    BY <1>2, OpenBound, ProcFacts
  <1>4. LeaseMap[c] = NoSandbox /\ LeaseMap' = [LeaseMap EXCEPT ![c] = s]
    BY <1>1, <1>2, ProcFacts DEF LeaseMap, TypeInv, TypeOK
  <1> HIDE DEF PoolInv
  <1>5. Leases!GrantNew(c, s)
    BY <1>1, <1>3, <1>4, SameCardinality DEF Leases!GrantNew, LeaseMap
  <1>6. QED
    BY <1>1, <1>5

LEMMA ReturnStep ==
  ASSUME PoolInv, NEW c \in Clients, Release(c)
  PROVE  Leases!Return(c)
  <1> USE DEF PoolInv
  <1>1. pc[c] = "held" /\ pc' = [pc EXCEPT ![c] = "check"] /\ UNCHANGED <<sb, open>>
    BY DEF Release, Goto
  <1>2. LeaseMap[c] # NoSandbox
    BY <1>1, ProcFacts DEF LeaseMap, TypeInv, OwnersHaveSandbox, OwnPoints
  <1>3. LeaseMap' = [LeaseMap EXCEPT ![c] = NoSandbox]
    BY <1>1, ProcFacts DEF LeaseMap, TypeInv, TypeOK
  <1>4. QED
    BY <1>1, <1>2, <1>3 DEF Leases!Return, LeaseMap

LEMMA DestroyStep ==
  ASSUME PoolInv, ~ClientsMayClose, NEW p \in Procs, Discard(p)
  PROVE  \E s \in Sandboxes : Leases!Destroy(s)
  <1> DEFINE s == sb[p]
  <1> USE DEF PoolInv
  <1>1. /\ pc[p] \in {"discard", "surplus"} /\ open' = open \ {s}
        /\ sb' = [sb EXCEPT ![p] = NoSandbox]
    BY DEF Discard, Forget
  <1>2. PICK l \in {"dec", "surplusDec"} : Goto(p, l)
    BY DEF Discard, Forget
  <1>3. p \in Owners /\ s \in Sandboxes /\ s \in open
    BY <1>1 DEF Owners, OwnPoints, TypeInv, TypeOK, OwnersHaveSandbox, PlaceInv, OpenPlaced,
                InUse
  <1>4. \A d \in Clients : pc[d] = "held" => sb[d] # s
    BY <1>1, <1>3, ProcFacts DEF PlaceInv, ExclusiveLease, Owners, OwnPoints
  <1>5. s \notin {LeaseMap[d] : d \in Clients} \ {NoSandbox}
    BY <1>4, NotLeased
  <1>6. LeaseMap' = LeaseMap
    BY <1>1, <1>2, LeaseFrame DEF TypeInv, TypeOK
  <1> HIDE DEF s
  <1>7. QED
    BY <1>1, <1>3, <1>5, <1>6 DEF Leases!Destroy, Leases!Leased, LeaseMap

LEMMA CreateIdleStep ==
  ASSUME PoolInv, Prewarm
  PROVE  \E s \in Sandboxes : Leases!CreateIdle(s)
  <1> USE DEF PoolInv
  <1>1. PICK s \in Sandboxes \ (InUse \cup open) : open' = open \cup {s}
    BY DEF Prewarm
  <1>2. ~up /\ Len(pool) < MinSize /\ UNCHANGED <<pc, sb>>
    BY DEF Prewarm
  <1>3. Slots = {} /\ keep = <<>>
    BY <1>2 DEF CountInv, QuietBeforeUp, Slots, SlotPoints, OwnPoints
  <1>4. size = Len(pool)
    BY <1>3, FS_EmptySet, EmptyFacts, LenProperties
    DEF CountInv, SizeAccounts, TypeInv, TypeOK
  <1>5. Cardinality(open) < MaxSize
    BY <1>2, <1>4, OpenBound, ClampedOptions DEF TypeInv, TypeOK
  <1>6. LeaseMap' = LeaseMap
    BY <1>2 DEF LeaseMap
  <1> HIDE DEF PoolInv
  <1>7. Leases!CreateIdle(s)
    BY <1>1, <1>5, <1>6, SameCardinality DEF Leases!CreateIdle, LeaseMap
  <1>8. QED
    BY <1>1, <1>7

LEMMA LeaseStep ==
  ASSUME PoolInv, ~ClientsMayClose, [Next]_vars
  PROVE  Leases!LNext \/ UNCHANGED <<LeaseMap, open>>
  <1> USE ProcFacts DEF PoolInv
  <1>1. CASE Prewarm
    BY <1>1, CreateIdleStep DEF Leases!LNext
  <1>2. CASE PrewarmEnd
    BY <1>2 DEF PrewarmEnd, LeaseMap
  <1>3. ASSUME NEW c \in Clients, Acquire(c)
        PROVE  Leases!LNext \/ UNCHANGED <<LeaseMap, open>>
    <2>1. CASE AcquireFast(c) \/ WaitReceive(c)
      <3>1. pc[c] \in {"idle", "wait"} /\ Receive(c, "held") /\ UNCHANGED open
        BY <2>1 DEF AcquireFast, WaitReceive
      <3>2. QED
        BY <3>1, GrantStep DEF Leases!LNext
    <2>2. CASE Create(c)
      BY <2>2, GrantNewStep DEF Leases!LNext
    <2>3. CASE AcquireMiss(c) \/ Reserve(c) \/ CreateFail(c) \/ WaitDone(c) \/ WaitCancel(c)
      <3>1. PICK l \in {"lock", "idle", "new", "wait", "dec"} : Goto(c, l)
        BY <2>3 DEF AcquireMiss, Reserve, CreateFail, WaitDone, WaitCancel
      <3>2. UNCHANGED <<open, sb>> /\ pc[c] \in {"idle", "lock", "new", "wait"}
        BY <2>3 DEF AcquireMiss, Reserve, CreateFail, WaitDone, WaitCancel
      <3>3. QED
        BY <3>1, <3>2, LeaseFrame
    <2>4. QED
      BY <1>3, <2>1, <2>2, <2>3 DEF Acquire
  <1>4. ASSUME NEW c \in Clients, Lease(c)
        PROVE  Leases!LNext \/ UNCHANGED <<LeaseMap, open>>
    <2>1. CASE Release(c)
      BY <2>1, ReturnStep DEF Leases!LNext
    <2>2. CASE ReleaseCheck(c) \/ ReleasePush(c)
      <3>1. PICK l \in {"discard", "push", "idle"} : Goto(c, l)
        BY <2>2 DEF ReleaseCheck, ReleasePush, Forget
      <3>2. UNCHANGED open /\ pc[c] \in {"check", "push"}
        BY <2>2 DEF ReleaseCheck, ReleasePush
      <3>3. \A q \in Procs \ {c} : sb'[q] = sb[q]
        BY <2>2 DEF ReleaseCheck, ReleasePush, Forget, TypeInv, TypeOK
      <3>4. QED
        BY <3>1, <3>2, <3>3, LeaseFrame
    <2>3. QED
      BY <1>4, <2>1, <2>2 DEF Lease, CloseLease
  <1>5. ASSUME NEW p \in Procs, Discard(p) \/ DecSize(p)
        PROVE  Leases!LNext \/ UNCHANGED <<LeaseMap, open>>
    <2>1. CASE Discard(p)
      BY <2>1, DestroyStep DEF Leases!LNext
    <2>2. CASE DecSize(p)
      <3>1. PICK l \in {"refill", "idle", "drain"} : Goto(p, l)
        BY <2>2 DEF DecSize, AfterDec
      <3>2. UNCHANGED <<open, sb>> /\ pc[p] \in {"dec", "surplusDec"}
        BY <2>2 DEF DecSize
      <3>3. QED
        BY <3>1, <3>2, LeaseFrame
    <2>3. QED
      BY <1>5, <2>1, <2>2
  <1>6. CASE Evict
    <2>1. UNCHANGED open /\ \A c \in Clients : pc'[c] = pc[c] /\ sb'[c] = sb[c]
      BY <1>6 DEF Evict, Tick, EvictStop, EvictReceive, EvictDrained, EvictRefill,
                  EvictRefilled, Receive, Goto, TypeInv, TypeOK
    <2>2. QED
      BY <2>1 DEF LeaseMap
  <1>7. CASE Close
    <2>1. UNCHANGED open /\ \A c \in Clients : pc'[c] = pc[c] /\ sb'[c] = sb[c]
      BY <1>7 DEF Close, CloseBegin, CloseDone, CloseReceive, CloseDrained, Receive, Goto,
                  TypeInv, TypeOK
    <2>2. QED
      BY <2>1 DEF LeaseMap
  <1>8. CASE UNCHANGED vars
    BY <1>8 DEF vars, LeaseMap
  <1>9. QED
    BY <1>1, <1>2, <1>3, <1>4, <1>5, <1>6, <1>7, <1>8 DEF Next

(* As long as clients leave closing to the pool, whatever Acquire, Release,
   eviction and Close do together, clients see a lease manager that keeps at
   most MaxSize sandboxes, leases each to one of them, and destroys none that
   is leased. *)
THEOREM PoolRefinesLease ==
  ASSUME ~ClientsMayClose
  PROVE  Spec => LeaseSpec
  <1>1. Init => Leases!LInit
    BY ProcFacts DEF Init, Leases!LInit
  <1>2. PoolInv /\ [Next]_vars => [Leases!LNext]_(Leases!leaseVars)
    BY LeaseStep DEF Leases!leaseVars, LeaseMap
  <1>3. QED
    BY <1>1, <1>2, PoolInvariant, PTL DEF Spec, LeaseSpec, Leases!LSpec

-----------------------------------------------------------------------------
(***************************************************************************)
(* When the pool's two gaps stay shut.  AcquireReturns fails because a     *)
(* unit of p.size can be given up while clients wait for the channel: by   *)
(* the evictor, which closes an old entry, and by a New that fails.        *)
(* ClosedPoolIsEmpty fails because a Release or an eviction that is under  *)
(* way sends into the channel Close has drained.  The theorems say that    *)
(* there is no other cause.                                                *)
(***************************************************************************)

(* Whoever waits can still be answered: the channel holds a sandbox, Close
   has closed p.done or is about to, or another client has a slot in hand
   and will bring a sandbox back.  With idle eviction off and a New that does
   not fail, no waiter is left behind. *)
NoWaiterStranded ==
    \A c \in Clients : pc[c] = "wait" =>
        \/ pool # <<>>
        \/ done \/ pc[Closer] = "closing"
        \/ \E p \in Clients : pc[p] \in SlotPoints

(* Close has begun exactly when p.closed is set, and closes p.done next. *)
CloserTells ==
    /\ closed <=> pc[Closer] # "idle"
    /\ closed => done \/ pc[Closer] = "closing"

(* Without those two causes an open pool gives no slot up, so p.size is
   still the MaxSize that made a client wait. *)
FullWhileWaiting ==
    /\ pc[Evictor] = "exit"
    /\ \A c \in Clients : pc[c] = "dec" => closed
    /\ ~closed => \A c \in Clients : pc[c] = "wait" => size = MaxSize

LEMMA CloserTellsNext == TypeInv /\ CloserTells /\ [Next]_vars => CloserTells'
  <1> SUFFICES ASSUME TypeInv, CloserTells, [Next]_vars
               PROVE  CloserTells'
    OBVIOUS
  <1> USE ProcFacts DEF CloserTells
  <1>t. /\ pc \in [Procs -> ClientPoints \cup EvictorPoints \cup CloserPoints]
        /\ closed \in BOOLEAN /\ done \in BOOLEAN
    BY DEF TypeInv, TypeOK
  (* Any step of another goroutine. *)
  <1>s. ASSUME NEW p \in Procs \ {Closer}, NEW l, Goto(p, l), UNCHANGED <<closed, done>>
        PROVE  CloserTells'
    BY <1>s, <1>t DEF Goto
  <1>1. CASE Prewarm \/ PrewarmEnd
    BY <1>1 DEF Prewarm, PrewarmEnd
  <1>2. ASSUME NEW c \in Clients, Acquire(c) \/ Lease(c)
        PROVE  CloserTells'
    <2>1. CASE CloseLease(c)
      BY <2>1 DEF CloseLease
    <2>2. CASE ~CloseLease(c)
      <3>1. UNCHANGED <<closed, done>> /\ \E l : Goto(c, l)
        BY <1>2, <2>2 DEF Acquire, AcquireFast, AcquireMiss, Reserve, Create, CreateFail,
             WaitReceive, WaitDone, WaitCancel, Receive, Lease, Release, ReleaseCheck,
             ReleasePush, Forget
      <3>2. QED
        BY <3>1, <1>s
    <2>3. QED
      BY <2>1, <2>2
  <1>3. ASSUME NEW p \in Procs, Discard(p) \/ DecSize(p)
        PROVE  CloserTells'
    <2>1. UNCHANGED <<closed, done>>
      BY <1>3 DEF Discard, DecSize
    <2>2. PICK l \in {"surplusDec", "dec", "refill", "idle", "drain"} :
             Goto(p, l) /\ (p = Closer => pc[p] \in {"discard", "dec"} /\ l # "idle")
      <3>1. pc[Closer] \in CloserPoints
        BY DEF TypeInv, TypeOK
      <3>2. QED
        BY <1>3, <3>1 DEF Discard, DecSize, AfterDec, Forget, CloserPoints
    <2>3. CASE p = Closer
      <3>1. done \/ pc[Closer] = "closing"
        BY <2>2, <2>3
      <3>2. QED
        BY <2>1, <2>2, <2>3, <3>1, <1>t DEF Goto
    <2>4. QED
      BY <2>1, <2>2, <2>3, <1>s
  <1>4. CASE Evict
    <2>1. UNCHANGED <<closed, done>>
      BY <1>4 DEF Evict, Tick, EvictStop, EvictReceive, EvictDrained, EvictRefill, EvictRefilled
    <2>2. pc' = pc \/ \E l : Goto(Evictor, l)
      BY <1>4 DEF Evict, Tick, EvictStop, EvictReceive, EvictDrained, EvictRefill,
                  EvictRefilled, Receive
    <2>3. QED
      BY <2>1, <2>2, <1>s
  <1>5. CASE Close
    BY <1>5, <1>t DEF Close, CloseBegin, CloseDone, CloseReceive, CloseDrained, Receive, Goto
  <1>6. CASE UNCHANGED vars
    BY <1>6 DEF vars
  <1>7. QED
    BY <1>1, <1>2, <1>3, <1>4, <1>5, <1>6 DEF Next

LEMMA FullWhileWaitingNext ==
  ASSUME ~IdleTTLSet, ~NewMayFail
  PROVE  PoolInv /\ CloserTells /\ FullWhileWaiting /\ [Next]_vars => FullWhileWaiting'
  <1> SUFFICES ASSUME PoolInv, CloserTells, FullWhileWaiting, [Next]_vars
               PROVE  FullWhileWaiting'
    OBVIOUS
  <1> USE ProcFacts, ClampedOptions DEF FullWhileWaiting
  <1>t. /\ pc \in [Procs -> ClientPoints \cup EvictorPoints \cup CloserPoints]
        /\ closed \in BOOLEAN
        /\ size \in Int /\ size <= MaxSize
        /\ TypeInv /\ CountInv /\ NothingWasted
    BY DEF PoolInv, TypeInv, TypeOK, CountInv, SizeAccounts
  (* A step to a point where nobody waits or gives a slot up. *)
  <1>s. ASSUME NEW p \in Procs \ {Evictor}, NEW l, Goto(p, l), l \notin {"wait", "dec"},
               closed => closed', closed' \/ size' = size
        PROVE  FullWhileWaiting'
    BY <1>s, <1>t DEF Goto
  <1>1. CASE Prewarm \/ PrewarmEnd
    <2>1. \A p \in Procs : pc[p] \in {"idle", "loop", "exit"}
      BY <1>1, <1>t DEF Prewarm, PrewarmEnd, CountInv, QuietBeforeUp
    <2>2. UNCHANGED <<pc, closed>>
      BY <1>1 DEF Prewarm, PrewarmEnd
    <2>3. QED
      BY <2>1, <2>2
  <1>2. ASSUME NEW c \in Clients, Acquire(c)
        PROVE  FullWhileWaiting'
    <2>1. closed' = closed
      BY <1>2 DEF Acquire, AcquireFast, AcquireMiss, Reserve, Create, CreateFail,
                  WaitReceive, WaitDone, WaitCancel
    <2>2. CASE Reserve(c)
      <3>1. CASE closed
        BY <2>1, <2>2, <3>1, <1>t DEF Reserve, Goto
      <3>2. CASE ~closed /\ size < MaxSize
        <4>1. \A d \in Clients : pc[d] # "wait"
          BY <3>2
        <4>2. Goto(c, "new") /\ pc[c] = "lock"
          BY <2>2, <3>2, <1>t DEF Reserve
        <4>3. QED
          BY <2>1, <4>1, <4>2, <1>t DEF Goto
      <3>3. CASE ~closed /\ size >= MaxSize
        <4>1. Goto(c, "wait") /\ size' = size /\ size = MaxSize
          BY <2>2, <3>3, <1>t DEF Reserve
        <4>2. QED
          BY <2>1, <4>1, <1>t DEF Goto
      <3>4. QED
        BY <3>1, <3>2, <3>3, <1>t
    <2>3. CASE ~Reserve(c)
      <3>1. size' = size
        BY <1>2, <2>3 DEF Acquire, AcquireFast, AcquireMiss, Create, CreateFail,
                    WaitReceive, WaitDone, WaitCancel
      <3>2. \E l \in {"held", "lock", "idle"} : Goto(c, l)
        BY <1>2, <2>3 DEF Acquire, AcquireFast, AcquireMiss, Create, CreateFail,
                    WaitReceive, WaitDone, WaitCancel, Receive
      <3>3. QED
        BY <2>1, <3>1, <3>2, <1>s
    <2>4. QED
      BY <2>2, <2>3
  <1>3. ASSUME NEW c \in Clients, Lease(c)
        PROVE  FullWhileWaiting'
    <2>1. UNCHANGED <<closed, size>>
      BY <1>3 DEF Lease, CloseLease, Release, ReleaseCheck, ReleasePush
    <2>2. pc' = pc \/ \E l \in {"check", "push", "discard", "idle"} : Goto(c, l)
      BY <1>3 DEF Lease, CloseLease, Release, ReleaseCheck, ReleasePush, Forget
    <2>3. QED
      BY <2>1, <2>2, <1>s
  <1>4. ASSUME NEW p \in Procs, Discard(p)
        PROVE  FullWhileWaiting'
    <2>1. UNCHANGED <<closed, size>> /\ pc[p] \in {"discard", "surplus"} /\ p # Evictor
      BY <1>4 DEF Discard
    <2>2. PICK l \in {"dec", "surplusDec"} : Goto(p, l)
      BY <1>4 DEF Discard, Forget
    <2>3. p \in Clients => closed
      <3>1. p \in Clients => pc[p] # "surplus"
        BY <1>t DEF TypeInv, TypeOK, ClientPoints
      <3>2. QED
        BY <2>1, <3>1, <1>t DEF NothingWasted
    <2>4. p = Closer => closed
      BY <2>1 DEF CloserTells
    <2>5. closed
      BY <2>1, <2>3, <2>4 DEF Procs
    <2>6. QED
      BY <2>1, <2>2, <2>5, <1>t DEF Goto
  <1>5. ASSUME NEW p \in Procs, DecSize(p)
        PROVE  FullWhileWaiting'
    <2>1. closed' = closed /\ pc[p] \in {"dec", "surplusDec"} /\ p # Evictor
      BY <1>5 DEF DecSize
    <2>2. \E l \in {"refill", "idle", "drain"} : Goto(p, l)
      BY <1>5 DEF DecSize, AfterDec
    <2>3. p \in Clients => closed
      <3>1. p \in Clients => pc[p] # "surplusDec"
        BY <1>t DEF TypeInv, TypeOK, ClientPoints
      <3>2. QED
        BY <2>1, <3>1
    <2>4. p = Closer => closed
      BY <2>1 DEF CloserTells
    <2>5. closed
      BY <2>1, <2>3, <2>4 DEF Procs
    <2>6. QED
      BY <2>1, <2>2, <2>5, <1>s
  <1>6. CASE Evict
    <2>1. FALSE
      BY <1>6, <1>t DEF Evict, Tick, EvictStop, EvictReceive, EvictDrained, EvictRefill,
                        EvictRefilled
    <2>2. QED
      BY <2>1
  <1>7. CASE Close
    <2>1. closed => closed'
      BY <1>7 DEF Close, CloseBegin, CloseDone, CloseReceive, CloseDrained
    <2>2. size' = size
      BY <1>7 DEF Close, CloseBegin, CloseDone, CloseReceive, CloseDrained
    <2>3. \E l \in {"closing", "drain", "discard", "finished"} : Goto(Closer, l)
      BY <1>7 DEF Close, CloseBegin, CloseDone, CloseReceive, CloseDrained, Receive
    <2>4. QED
      BY <2>1, <2>2, <2>3, <1>s
  <1>8. CASE UNCHANGED vars
    BY <1>8 DEF vars
  <1>9. QED
    BY <1>1, <1>2, <1>3, <1>4, <1>5, <1>6, <1>7, <1>8 DEF Next

LEMMA WaiterHasHope ==
  PoolInv /\ CloserTells /\ FullWhileWaiting => NoWaiterStranded
  <1> SUFFICES ASSUME PoolInv, CloserTells, FullWhileWaiting, ~closed, pool = <<>>,
                      NEW c \in Clients, pc[c] = "wait"
               PROVE  \E p \in Clients : pc[p] \in SlotPoints
    BY DEF NoWaiterStranded, CloserTells
  <1>1. TypeInv /\ CountInv
    BY DEF PoolInv
  <1>2. size = MaxSize /\ pc[Evictor] = "exit" /\ pc[Closer] = "idle"
    BY DEF FullWhileWaiting, CloserTells
  <1>3. Len(pool) = 0 /\ Len(keep) = 0
    BY <1>1, <1>2, EmptyFacts DEF CountInv, KeepOnlyInEviction
  <1>4. Cardinality(Slots) # 0
    BY <1>1, <1>2, <1>3, ClampedOptions, FiniteProcs DEF CountInv, SizeAccounts, Slots
  <1>5. PICK p \in Slots : TRUE
    BY <1>4, FS_EmptySet
  <1>6. p \in Clients
    BY <1>2, <1>5 DEF Slots, Procs, SlotPoints, OwnPoints
  <1>7. QED
    BY <1>5, <1>6 DEF Slots

(* With eviction off and New never failing, no client waits for a sandbox
   that nobody can bring any more: the complement of what the run of
   AcquireReturns finds. *)
THEOREM PoolNoWaiterStranded ==
  ASSUME ~IdleTTLSet, ~NewMayFail
  PROVE  Spec => []NoWaiterStranded
  <1>1. Init => CloserTells /\ FullWhileWaiting
    BY ProcFacts DEF Init, CloserTells, FullWhileWaiting
  <1>2. Spec => []CloserTells
    <2>1. Spec => []PoolInv
      BY PoolInvariant
    <2>2. PoolInv => TypeInv
      BY DEF PoolInv
    <2>3. Init => CloserTells
      BY <1>1
    <2>4. QED
      BY <2>1, <2>2, <2>3, CloserTellsNext, PTL DEF Spec
  <1>3. Init => FullWhileWaiting
    BY <1>1
  <1>4. PoolInv /\ CloserTells /\ FullWhileWaiting /\ [Next]_vars => FullWhileWaiting'
    BY FullWhileWaitingNext
  <1>5. QED
    BY <1>2, <1>3, <1>4, PoolInvariant, WaiterHasHope, PTL DEF Spec

(* Close has drained the channel and nobody has a sandbox on the way in. *)
Sealed ==
    /\ closed
    /\ pool = <<>> /\ keep = <<>>
    /\ \A c \in Clients : pc[c] # "push"

LEMMA SealedStep ==
  ASSUME TypeInv, CountInv, CloserTells, Sealed, [Next]_vars
  PROVE  Sealed'
  <1> USE ProcFacts DEF Sealed
  <1>t. pc \in [Procs -> ClientPoints \cup EvictorPoints \cup CloserPoints]
    BY DEF TypeInv, TypeOK
  <1>u. up
    BY DEF CountInv, QuietBeforeUp, CloserTells
  (* A step to a point from which nothing is sent. *)
  <1>s. ASSUME NEW p \in Procs, NEW l, Goto(p, l), p \in Clients => l # "push",
               closed', UNCHANGED <<pool, keep>>
        PROVE  Sealed'
    BY <1>s, <1>t DEF Goto
  <1>1. CASE Prewarm \/ PrewarmEnd
    BY <1>1, <1>u DEF Prewarm, PrewarmEnd
  <1>2. ASSUME NEW c \in Clients, Acquire(c)
        PROVE  Sealed'
    <2>1. UNCHANGED <<closed, pool, keep>>
      BY <1>2 DEF Acquire, AcquireFast, AcquireMiss, Reserve, Create, CreateFail,
                  WaitReceive, WaitDone, WaitCancel, Receive
    <2>2. \E l \in {"held", "lock", "idle", "new", "wait", "dec"} : Goto(c, l)
      BY <1>2 DEF Acquire, AcquireFast, AcquireMiss, Reserve, Create, CreateFail,
                  WaitReceive, WaitDone, WaitCancel, Receive
    <2>3. QED
      BY <2>1, <2>2, <1>s
  <1>3. ASSUME NEW c \in Clients, Lease(c)
        PROVE  Sealed'
    <2>1. UNCHANGED <<closed, pool, keep>>
      BY <1>3 DEF Lease, CloseLease, Release, ReleaseCheck, ReleasePush
    <2>2. pc' = pc \/ \E l \in {"check", "discard"} : Goto(c, l)
      BY <1>3 DEF Lease, CloseLease, Release, ReleaseCheck, ReleasePush
    <2>3. QED
      BY <2>1, <2>2, <1>s
  <1>4. ASSUME NEW p \in Procs, Discard(p) \/ DecSize(p)
        PROVE  Sealed'
    <2>1. UNCHANGED <<closed, pool, keep>>
      BY <1>4 DEF Discard, DecSize
    <2>2. \E l \in {"surplusDec", "dec", "refill", "idle", "drain"} : Goto(p, l)
      BY <1>4 DEF Discard, DecSize, AfterDec, Forget
    <2>3. QED
      BY <2>1, <2>2, <1>s
  <1>5. CASE Evict
    <2>1. UNCHANGED <<closed, pool, keep>>
      BY <1>5 DEF Evict, Tick, EvictStop, EvictReceive, EvictDrained, EvictRefill, EvictRefilled
    <2>2. \E l : Goto(Evictor, l)
      BY <1>5 DEF Evict, Tick, EvictStop, EvictReceive, EvictDrained, EvictRefill,
                  EvictRefilled, Receive
    <2>3. QED
      BY <2>1, <2>2, <1>s
  <1>6. CASE Close
    <2>1. closed' /\ UNCHANGED <<pool, keep>>
      BY <1>6 DEF Close, CloseBegin, CloseDone, CloseReceive, CloseDrained, Receive
    <2>2. \E l : Goto(Closer, l)
      BY <1>6 DEF Close, CloseBegin, CloseDone, CloseReceive, CloseDrained, Receive
    <2>3. QED
      BY <2>1, <2>2, <1>s
  <1>7. CASE UNCHANGED vars
    BY <1>7 DEF vars
  <1>8. QED
    BY <1>1, <1>2, <1>3, <1>4, <1>5, <1>6, <1>7 DEF Next

(* A sandbox enters a closed and drained channel only through a send that
   was under way when p.closed was set: once there is none, and the evictor
   has nothing set aside, the channel stays empty for ever, whatever is
   acquired, released or evicted afterwards.  The complement of what the run
   of ClosedPoolIsEmpty finds. *)
THEOREM PoolStaysSealed == Spec => [][Sealed => Sealed']_vars
  <1>1. Spec => []PoolInv
    BY PoolInvariant
  <1>2. PoolInv => TypeInv /\ CountInv
    BY DEF PoolInv
  <1>3. Init => CloserTells
    BY ProcFacts DEF Init, CloserTells
  <1>4. Spec => []CloserTells
    BY <1>1, <1>2, <1>3, CloserTellsNext, PTL DEF Spec
  <1>5. TypeInv /\ CountInv /\ CloserTells /\ [Next]_vars => [Sealed => Sealed']_vars
    BY SealedStep
  <1>6. QED
    BY <1>1, <1>2, <1>4, <1>5, PTL DEF Spec

(* What Close may still find in the channel: what is in it, what the evictor
   will put back, and what Releases are about to send. *)
Pushers == {c \in Clients : pc[c] = "push"}

Incoming == Len(pool) + Len(keep) + Cardinality(Pushers)

(* A closed pool accepts nothing new, and each round of Close's drain loop
   takes one away. *)
CloseDrains ==
    closed => /\ Incoming' <= Incoming
              /\ CloseReceive => Incoming' < Incoming

LEMMA PushersStep ==
  ASSUME TypeInv, NEW p \in Procs, NEW l, Goto(p, l), p \in Clients => l # "push"
  PROVE  /\ Cardinality(Pushers') <= Cardinality(Pushers)
         /\ p \in Clients /\ pc[p] = "push" => Cardinality(Pushers') = Cardinality(Pushers) - 1
         /\ Cardinality(Pushers') \in Nat
  <1> USE ProcFacts DEF TypeInv, TypeOK, Goto
  <1>0. IsFiniteSet(Pushers) /\ Cardinality(Pushers) \in Nat
    BY FiniteProcs DEF Pushers
  <1>1. \A q \in Procs : pc'[q] = IF q = p THEN l ELSE pc[q]
    OBVIOUS
  <1>2. CASE p \in Clients /\ pc[p] = "push"
    <2>1. Pushers' = Pushers \ {p} /\ p \in Pushers
      BY <1>1, <1>2 DEF Pushers
    <2>2. Cardinality(Pushers') = Cardinality(Pushers) - 1 /\ IsFiniteSet(Pushers')
      BY <1>0, <2>1, FS_RemoveElement
    <2>3. Cardinality(Pushers') \in Nat
      BY <2>2, FS_CardinalityType
    <2>4. QED
      BY <1>0, <2>2, <2>3
  <1>3. CASE ~(p \in Clients /\ pc[p] = "push")
    <2>1. Pushers' = Pushers
      BY <1>1, <1>3 DEF Pushers
    <2>2. QED
      BY <1>0, <1>3, <2>1
  <1>4. QED
    BY <1>2, <1>3

LEMMA DrainStep ==
  ASSUME PoolInv, CloserTells, closed, Next
  PROVE  CloseDrains
  <1>i. TypeInv /\ CountInv /\ NothingWasted
    BY DEF PoolInv
  <1> USE ProcFacts
  <1>t. /\ Len(pool) \in Nat /\ Len(keep) \in Nat /\ Cardinality(Pushers) \in Nat
        /\ pool \in Seq(Sandboxes) /\ keep \in Seq(Sandboxes)
    BY <1>i, LenProperties, FiniteProcs DEF TypeInv, TypeOK, Pushers
  <1>u. up
    BY <1>i DEF CountInv, QuietBeforeUp, CloserTells
  <1>a. pool # <<>> => Len(Tail(pool)) = Len(pool) - 1 /\ Head(pool) \in Sandboxes
    BY <1>t, TailFacts
  <1>k. keep # <<>> => Len(Tail(keep)) = Len(keep) - 1 /\ Head(keep) \in Sandboxes
    BY <1>t, TailFacts
  <1>p. ASSUME NEW s \in Sandboxes
        PROVE  /\ Len(Append(pool, s)) = Len(pool) + 1
               /\ Len(Append(keep, s)) = Len(keep) + 1
    BY <1>t, AppendFacts
  (* A step of a goroutine that sends nothing. *)
  <1>s. ASSUME NEW p \in Procs, NEW l, Goto(p, l), p \in Clients => l # "push",
               UNCHANGED <<pool, keep>>, ~CloseReceive
        PROVE  CloseDrains
    <2>1. Cardinality(Pushers') <= Cardinality(Pushers) /\ Cardinality(Pushers') \in Nat
      BY <1>s, <1>i, PushersStep
    <2>2. QED
      BY <1>s, <1>t, <2>1 DEF CloseDrains, Incoming
  (* A step that moves entries between the channel and the evictor's list. *)
  <1>m. ASSUME pc' = pc, Len(pool') + Len(keep') = Len(pool) + Len(keep), ~CloseReceive
        PROVE  CloseDrains
    <2>1. Pushers' = Pushers
      BY <1>m DEF Pushers
    <2>2. Incoming = Incoming'
      BY <1>m, <2>1 DEF Incoming
    <2>3. Incoming \in Nat
      BY <1>t DEF Incoming
    <2>4. QED
      BY <1>m, <2>2, <2>3 DEF CloseDrains
  (* A goroutine receives. *)
  <1>r. ASSUME NEW p \in Procs, NEW l, Receive(p, l), p \in Clients => l # "push", keep' = keep
        PROVE  CloseDrains
    <2>1. Cardinality(Pushers') <= Cardinality(Pushers) /\ Cardinality(Pushers') \in Nat
      BY <1>r, <1>i, PushersStep DEF Receive
    <2>2. Len(pool') = Len(pool) - 1
      BY <1>r, <1>a DEF Receive
    <2>3. QED
      BY <1>r, <1>t, <2>1, <2>2 DEF CloseDrains, Incoming
  <1>c. ASSUME CloseReceive
        PROVE  pc[Closer] = "drain" /\ pc'[Closer] = "discard"
    BY <1>c, <1>i DEF CloseReceive, Receive, Goto, TypeInv, TypeOK
  <1>1. CASE Prewarm \/ PrewarmEnd
    BY <1>1, <1>u DEF Prewarm, PrewarmEnd
  <1>2. ASSUME NEW c \in Clients, Acquire(c)
        PROVE  CloseDrains
    <2>1. CASE AcquireFast(c) \/ WaitReceive(c)
      <3>1. Receive(c, "held") /\ keep' = keep
        BY <2>1 DEF AcquireFast, WaitReceive
      <3>2. QED
        BY <3>1, <1>r
    <2>2. CASE ~(AcquireFast(c) \/ WaitReceive(c))
      <3>1. UNCHANGED <<pool, keep>> /\ \E l \in {"lock", "idle", "new", "wait", "held", "dec"} : Goto(c, l)
        BY <1>2, <2>2 DEF Acquire, AcquireMiss, Reserve, Create, CreateFail, WaitDone, WaitCancel
      <3>2. ~CloseReceive
        BY <3>1, <1>c, <1>i DEF Goto, TypeInv, TypeOK
      <3>3. QED
        BY <3>1, <3>2, <1>s
    <2>3. QED
      BY <2>1, <2>2
  <1>3. ASSUME NEW c \in Clients, Lease(c)
        PROVE  CloseDrains
    <2>0. ~CloseReceive
      <3>1. pc'[Closer] = pc[Closer]
        BY <1>3, <1>i DEF Lease, CloseLease, Release, ReleaseCheck, ReleasePush, Forget, Goto, TypeInv, TypeOK
      <3>2. QED
        BY <3>1, <1>c
    <2>1. CASE CloseLease(c)
      BY <2>1, <2>0, <1>m DEF CloseLease
    <2>2. CASE Release(c) \/ ReleaseCheck(c)
      <3>1. UNCHANGED <<pool, keep>> /\ \E l \in {"check", "discard"} : Goto(c, l)
        BY <2>2 DEF Release, ReleaseCheck
      <3>2. QED
        BY <3>1, <2>0, <1>s
    <2>3. CASE ReleasePush(c)
      <3>1. Len(pool) < MaxSize
        BY <2>3, <1>i, RoomForOwner DEF ReleasePush, SlotPoints, OwnPoints
      <3>2. Goto(c, "idle") /\ pool' = Append(pool, sb[c]) /\ keep' = keep /\ pc[c] = "push"
        BY <2>3, <3>1 DEF ReleasePush, Forget
      <3>3. sb[c] \in Sandboxes
        BY <3>2, <1>i DEF TypeInv, TypeOK, OwnersHaveSandbox, OwnPoints
      <3>4. Cardinality(Pushers') = Cardinality(Pushers) - 1
        BY <3>2, <1>i, PushersStep
      <3>5. Len(pool') = Len(pool) + 1
        BY <3>2, <3>3, <1>p
      <3>6. Incoming' = Incoming
        BY <3>2, <3>4, <3>5, <1>t DEF Incoming
      <3>7. Incoming \in Nat
        BY <1>t DEF Incoming
      <3>8. QED
        BY <2>0, <3>6, <3>7 DEF CloseDrains
    <2>4. QED
      BY <1>3, <2>1, <2>2, <2>3 DEF Lease
  <1>4. ASSUME NEW p \in Procs, Discard(p) \/ DecSize(p)
        PROVE  CloseDrains
    <2>1. UNCHANGED <<pool, keep>>
      BY <1>4 DEF Discard, DecSize
    <2>2. \E l \in {"surplusDec", "dec", "refill", "idle", "drain"} : Goto(p, l)
      BY <1>4 DEF Discard, DecSize, AfterDec, Forget
    <2>3. ~CloseReceive
      <3>1. CloseReceive => pool # <<>> /\ Len(pool) = Len(pool) - 1
        BY <2>1, <1>a DEF CloseReceive, Receive
      <3>2. QED
        BY <3>1, <1>t
    <2>4. QED
      BY <2>1, <2>2, <2>3, <1>s
  <1>5. CASE Evict
    <2>0. ~CloseReceive
      <3>1. pc'[Closer] = pc[Closer]
        BY <1>5, <1>i DEF Evict, Tick, EvictStop, EvictReceive, EvictDrained, EvictRefill,
           EvictRefilled, Receive, Goto, TypeInv, TypeOK
      <3>2. QED
        BY <3>1, <1>c
    <2>1. CASE Tick
      <3>1. keep = <<>> /\ keep' = <<>> /\ pool' = pool /\ Goto(Evictor, "drain")
        BY <2>1, <1>i DEF Tick, CountInv, KeepOnlyInEviction
      <3>2. QED
        BY <3>1, <2>0, <1>s
    <2>2. CASE EvictStop \/ EvictDrained \/ EvictRefilled
      <3>1. UNCHANGED <<pool, keep>> /\ \E l : Goto(Evictor, l)
        BY <2>2 DEF EvictStop, EvictDrained, EvictRefilled
      <3>2. QED
        BY <3>1, <2>0, <1>s
    <2>3. CASE EvictReceive
      <3>1. CASE Head(pool) \in old
        <4>1. Receive(Evictor, "discard") /\ keep' = keep
          BY <2>3, <3>1 DEF EvictReceive
        <4>2. QED
          BY <4>1, <1>r
      <3>2. CASE Head(pool) \notin old
        <4>1. pool # <<>> /\ pool' = Tail(pool) /\ keep' = Append(keep, Head(pool)) /\ pc' = pc
          BY <2>3, <3>2 DEF EvictReceive
        <4>2. Len(pool') = Len(pool) - 1 /\ Len(keep') = Len(keep) + 1
          BY <4>1, <1>a, <1>p
        <4>3. QED
          BY <4>1, <4>2, <2>0, <1>t, <1>m
      <3>3. QED
        BY <3>1, <3>2
    <2>4. CASE EvictRefill
      <3>1. keep # <<>> /\ keep' = Tail(keep)
        BY <2>4 DEF EvictRefill
      <3>2. Len(pool) < MaxSize
        BY <3>1, <1>i, RoomForKept
      <3>3. pool' = Append(pool, Head(keep)) /\ pc' = pc
        BY <2>4, <3>2 DEF EvictRefill
      <3>4. Len(pool') = Len(pool) + 1 /\ Len(keep') = Len(keep) - 1
        BY <3>1, <3>3, <1>k, <1>p
      <3>5. QED
        BY <3>3, <3>4, <2>0, <1>t, <1>m
    <2>5. QED
      BY <1>5, <2>1, <2>2, <2>3, <2>4 DEF Evict
  <1>6. CASE Close
    <2>1. CASE CloseReceive
      BY <2>1, <1>r DEF CloseReceive
    <2>2. CASE ~CloseReceive
      <3>1. UNCHANGED <<pool, keep>> /\ \E l : Goto(Closer, l)
        BY <1>6, <2>2 DEF Close, CloseBegin, CloseDone, CloseDrained
      <3>2. QED
        BY <2>2, <3>1, <1>s
    <2>3. QED
      BY <2>1, <2>2
  <1>7. QED
    BY <1>1, <1>2, <1>3, <1>4, <1>5, <1>6 DEF Next

(* What Close has still to drain never grows, though leases are released and
   entries put back meanwhile, and each round of its loop takes one away: the
   loop ends after as many rounds as there were entries, withheld entries and
   sends under way when p.closed was set. *)
THEOREM PoolCloseDrains == Spec => [][CloseDrains]_vars
  <1>1. Spec => []PoolInv
    BY PoolInvariant
  <1>2. PoolInv => TypeInv
    BY DEF PoolInv
  <1>3. Init => CloserTells
    BY ProcFacts DEF Init, CloserTells
  <1>4. Spec => []CloserTells
    BY <1>1, <1>2, <1>3, CloserTellsNext, PTL DEF Spec
  <1>5. PoolInv /\ CloserTells /\ [Next]_vars => [CloseDrains]_vars
    <2> SUFFICES ASSUME PoolInv, CloserTells, Next
                 PROVE  CloseDrains
      OBVIOUS
    <2>1. CASE closed
      BY <2>1, DrainStep
    <2>2. CASE ~closed
      BY <2>2 DEF CloseDrains
    <2>3. QED
      BY <2>1, <2>2
  <1>6. QED
    BY <1>1, <1>4, <1>5, PTL DEF Spec

=============================================================================

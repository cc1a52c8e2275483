--------------------------------- MODULE Pool ---------------------------------
(***************************************************************************)
(* The sandbox pool of sandbox/pool.go: the goroutines that call Acquire   *)
(* and Release, the eviction goroutine, and the goroutine that closes the  *)
(* pool.  They share the buffered channel p.pool, the counter p.size and   *)
(* the flag p.closed (both under p.mu) and the channel p.done.             *)
(*                                                                         *)
(* Every action is one indivisible step of the code: one channel           *)
(* operation, one critical section of p.mu, or one call of New or Close on *)
(* a sandbox only the calling goroutine knows.                             *)
(***************************************************************************)
EXTENDS Integers, Sequences, FiniteSets, Functions

CONSTANTS
    Clients,           \* goroutines that call Acquire and Release, one lease at a time
    Evictor,           \* the goroutine of evictLoop
    Closer,            \* the goroutine that calls Pool.Close
    Sandboxes,         \* sandbox identities
    NoSandbox,         \* "no sandbox"
    OptMaxSize,        \* PoolOptions.MaxSize as the caller wrote it
    OptMinSize,        \* PoolOptions.MinSize as the caller wrote it
    IdleTTLSet,        \* PoolOptions.IdleTTL > 0
    NewMayFail,        \* sandbox.New may return an error
    CtxMayCancel,      \* contexts given to Acquire may be cancelled
    ClientsMayClose    \* a client may Close the sandbox it holds before it Releases it

ASSUME ConstantsAssumption ==
    /\ IsFiniteSet(Clients)
    /\ Evictor \notin Clients
    /\ Closer \notin Clients
    /\ Evictor # Closer
    /\ NoSandbox \notin Sandboxes
    /\ OptMaxSize \in Int
    /\ OptMinSize \in Int
    /\ {IdleTTLSet, NewMayFail, CtxMayCancel, ClientsMayClose} \subseteq BOOLEAN

Procs == Clients \cup {Evictor, Closer}

(* NewPool replaces options that make no sense. *)
MaxSize == IF OptMaxSize <= 0 THEN 10 ELSE OptMaxSize
MinSize == IF OptMinSize < 0 THEN 0
           ELSE IF OptMinSize > MaxSize THEN MaxSize ELSE OptMinSize

VARIABLES
    pool,      \* p.pool: the sandboxes in the channel, oldest first
    old,       \* those of them whose idleSince is before the eviction cutoff
    size,      \* p.size
    closed,    \* p.closed
    done,      \* p.done is closed
    up,        \* NewPool has returned
    open,      \* sandboxes that New returned and nobody has closed
    pc,        \* where each goroutine is
    sb,        \* the sandbox each goroutine works on
    keep       \* evictIdle's local list of entries to put back

vars == <<pool, old, size, closed, done, up, open, pc, sb, keep>>

(***************************************************************************)
(* Control points.  A goroutine at a point of SlotPoints accounts for one  *)
(* unit of p.size; at a point of OwnPoints it also has a sandbox in hand.  *)
(***************************************************************************)
ClientPoints  == {"idle", "lock", "new", "wait", "held", "check", "push", "discard", "dec"}
EvictorPoints == {"loop", "drain", "discard", "dec", "refill", "surplus", "surplusDec", "exit"}
CloserPoints  == {"idle", "closing", "drain", "discard", "dec", "finished"}

OwnPoints  == {"held", "check", "push", "discard", "surplus"}
SlotPoints == OwnPoints \cup {"new", "dec", "surplusDec"}

Slots  == {p \in Procs : pc[p] \in SlotPoints}
Owners == {p \in Procs : pc[p] \in OwnPoints}

(* Every sandbox some goroutine or the channel can still reach. *)
InUse == Range(pool) \cup Range(keep) \cup {sb[p] : p \in Owners}

Init ==
    /\ pool = <<>>
    /\ old = {}
    /\ size = 0
    /\ closed = FALSE
    /\ done = FALSE
    /\ up = FALSE
    /\ open = {}
    /\ pc = [p \in Procs |-> IF p = Evictor
                             THEN IF IdleTTLSet THEN "loop" ELSE "exit"
                             ELSE "idle"]
    /\ sb = [p \in Procs |-> NoSandbox]
    /\ keep = <<>>

Goto(p, l) == pc' = [pc EXCEPT ![p] = l]

(* p leaves its control point for l and forgets the sandbox it had. *)
Forget(p, l) ==
    /\ Goto(p, l)
    /\ sb' = [sb EXCEPT ![p] = NoSandbox]

(* Mutation: the received entry keeps its idleSince in the books. *)
ReceiveKeepsAge(p, l) ==
    /\ pool # <<>>
    /\ pool' = Tail(pool)
    /\ old' = old
    /\ sb' = [sb EXCEPT ![p] = Head(pool)]
    /\ Goto(p, l)

(* p takes the sandbox at the head of the channel and goes on at l. *)
Receive(p, l) ==
    /\ pool # <<>>
    /\ pool' = Tail(pool)
    /\ old' = old \ {Head(pool)}
    /\ sb' = [sb EXCEPT ![p] = Head(pool)]
    /\ Goto(p, l)

-----------------------------------------------------------------------------
(* NewPool: pre-warm MinSize sandboxes, give up at the first error. *)

Prewarm ==
    /\ ~up
    /\ Len(pool) < MinSize
    /\ \E s \in Sandboxes \ (InUse \cup open) :
          /\ open' = open \cup {s}
          /\ size' = size + 1
          /\ pool' = Append(pool, s)
    /\ UNCHANGED <<old, closed, done, up, pc, sb, keep>>

PrewarmEnd ==
    /\ ~up
    /\ Len(pool) = MinSize \/ NewMayFail
    /\ up' = TRUE
    /\ UNCHANGED <<pool, old, size, closed, done, open, pc, sb, keep>>

-----------------------------------------------------------------------------
(* Acquire. *)

(* The fast path: the channel is tried before anything else is read. *)
AcquireFast(c) ==
    /\ up
    /\ pc[c] = "idle"
    /\ Receive(c, "held")
    /\ UNCHANGED <<size, closed, done, up, open, keep>>

AcquireMiss(c) ==
    /\ up
    /\ pc[c] = "idle"
    /\ pool = <<>>
    /\ Goto(c, "lock")
    /\ UNCHANGED <<pool, old, size, closed, done, up, open, sb, keep>>

(* Mutation: one slot too many. *)
ReserveOneMore(c) ==
    /\ pc[c] = "lock"
    /\ size' = IF ~closed /\ size <= MaxSize THEN size + 1 ELSE size
    /\ Goto(c, IF closed THEN "idle" ELSE IF size <= MaxSize THEN "new" ELSE "wait")
    /\ UNCHANGED <<pool, old, closed, done, up, open, sb, keep>>

(* The critical section: fail if closed, else reserve a slot or go to wait. *)
Reserve(c) ==
    /\ pc[c] = "lock"
    /\ \/ /\ closed
          /\ Goto(c, "idle")
          /\ size' = size
       \/ /\ ~closed
          /\ size < MaxSize
          /\ size' = size + 1
          /\ Goto(c, "new")
       \/ /\ ~closed
          /\ size >= MaxSize
          /\ size' = size
          /\ Goto(c, "wait")
    /\ UNCHANGED <<pool, old, closed, done, up, open, sb, keep>>

Create(c) ==
    /\ pc[c] = "new"
    /\ \E s \in Sandboxes \ (InUse \cup open) :
          /\ open' = open \cup {s}
          /\ sb' = [sb EXCEPT ![c] = s]
    /\ Goto(c, "held")
    /\ UNCHANGED <<pool, old, size, closed, done, up, keep>>

(* Mutation: the error path forgets p.size--. *)
CreateFailLeaks(c) ==
    /\ pc[c] = "new"
    /\ NewMayFail
    /\ Goto(c, "idle")
    /\ UNCHANGED <<pool, old, size, closed, done, up, open, sb, keep>>

(* New fails: the slot is given back at "dec", and Acquire returns the error. *)
CreateFail(c) ==
    /\ pc[c] = "new"
    /\ NewMayFail
    /\ Goto(c, "dec")
    /\ UNCHANGED <<pool, old, size, closed, done, up, open, sb, keep>>

(* The blocking select. *)
WaitReceive(c) ==
    /\ pc[c] = "wait"
    /\ Receive(c, "held")
    /\ UNCHANGED <<size, closed, done, up, open, keep>>

WaitDone(c) ==
    /\ pc[c] = "wait"
    /\ done
    /\ Goto(c, "idle")
    /\ UNCHANGED <<pool, old, size, closed, done, up, open, sb, keep>>

WaitCancel(c) ==
    /\ pc[c] = "wait"
    /\ CtxMayCancel
    /\ Goto(c, "idle")
    /\ UNCHANGED <<pool, old, size, closed, done, up, open, sb, keep>>

-----------------------------------------------------------------------------
(* The holder of a lease, and Release. *)

CloseLease(c) ==
    /\ ClientsMayClose
    /\ pc[c] = "held"
    /\ sb[c] \in open
    /\ open' = open \ {sb[c]}
    /\ UNCHANGED <<pool, old, size, closed, done, up, pc, sb, keep>>

(* Release begins: s.Reset(), which does not look at the pool. *)
Release(c) ==
    /\ pc[c] = "held"
    /\ Goto(c, "check")
    /\ UNCHANGED <<pool, old, size, closed, done, up, open, sb, keep>>

(* Mutation: the channel is taken for full one entry early. *)
ReleaseCheckEager(c) ==
    /\ pc[c] = "check"
    /\ Goto(c, IF closed \/ Len(pool) >= MaxSize - 1 THEN "discard" ELSE "push")
    /\ UNCHANGED <<pool, old, size, closed, done, up, open, sb, keep>>

(* The critical section that reads len(p.pool) and p.closed. *)
ReleaseCheck(c) ==
    /\ pc[c] = "check"
    /\ Goto(c, IF closed \/ Len(pool) >= MaxSize THEN "discard" ELSE "push")
    /\ UNCHANGED <<pool, old, size, closed, done, up, open, sb, keep>>

(* The non-blocking send, with what was read in ReleaseCheck. *)
ReleasePush(c) ==
    /\ pc[c] = "push"
    /\ IF Len(pool) < MaxSize
       THEN /\ pool' = Append(pool, sb[c])
            /\ Forget(c, "idle")
       ELSE /\ Goto(c, "discard")
            /\ UNCHANGED <<pool, sb>>
    /\ UNCHANGED <<old, size, closed, done, up, open, keep>>

-----------------------------------------------------------------------------
(* Close a sandbox, then decrement p.size: the same two steps in Release,  *)
(* in the drain loops of Close and evictIdle, and in the refill loop.      *)

Discard(p) ==
    /\ pc[p] \in {"discard", "surplus"}
    /\ open' = open \ {sb[p]}
    /\ Forget(p, IF pc[p] = "surplus" THEN "surplusDec" ELSE "dec")
    /\ UNCHANGED <<pool, old, size, closed, done, up, keep>>

AfterDec(p) ==
    IF pc[p] = "surplusDec" THEN "refill"
    ELSE IF p \in Clients THEN "idle" ELSE "drain"

DecSize(p) ==
    /\ pc[p] \in {"dec", "surplusDec"}
    /\ size' = size - 1
    /\ Goto(p, AfterDec(p))
    /\ UNCHANGED <<pool, old, closed, done, up, open, sb, keep>>

-----------------------------------------------------------------------------
(* evictLoop and evictIdle. *)

(* The ticker fires.  Any entries may have passed the cutoff by now. *)
Tick ==
    /\ up
    /\ pc[Evictor] = "loop"
    /\ old' \in SUBSET Range(pool)
    /\ keep' = <<>>
    /\ Goto(Evictor, "drain")
    /\ UNCHANGED <<pool, size, closed, done, up, open, sb>>

EvictStop ==
    /\ pc[Evictor] = "loop"
    /\ done
    /\ Goto(Evictor, "exit")
    /\ UNCHANGED <<pool, old, size, closed, done, up, open, sb, keep>>

(* One round of the drain loop: an old entry is closed, a fresh one kept. *)
EvictReceive ==
    /\ pc[Evictor] = "drain"
    /\ pool # <<>>
    /\ IF Head(pool) \in old
       THEN /\ Receive(Evictor, "discard")
            /\ keep' = keep
       ELSE /\ keep' = Append(keep, Head(pool))
            /\ pool' = Tail(pool)
            /\ UNCHANGED <<old, sb, pc>>
    /\ UNCHANGED <<size, closed, done, up, open>>

EvictDrained ==
    /\ pc[Evictor] = "drain"
    /\ pool = <<>>
    /\ Goto(Evictor, "refill")
    /\ UNCHANGED <<pool, old, size, closed, done, up, open, sb, keep>>

(* Mutation: the refill loop puts an entry back without leaving it behind. *)
EvictRefillTwice ==
    /\ pc[Evictor] = "refill"
    /\ keep # <<>>
    /\ Len(pool) < MaxSize
    /\ pool' = Append(pool, Head(keep))
    /\ UNCHANGED <<old, size, closed, done, up, open, pc, sb, keep>>

(* One round of the refill loop: a non-blocking send, whatever p.closed says. *)
EvictRefill ==
    /\ pc[Evictor] = "refill"
    /\ keep # <<>>
    /\ keep' = Tail(keep)
    /\ IF Len(pool) < MaxSize
       THEN /\ pool' = Append(pool, Head(keep))
            /\ UNCHANGED <<pc, sb>>
       ELSE /\ sb' = [sb EXCEPT ![Evictor] = Head(keep)]
            /\ Goto(Evictor, "surplus")
            /\ pool' = pool
    /\ UNCHANGED <<old, size, closed, done, up, open>>

EvictRefilled ==
    /\ pc[Evictor] = "refill"
    /\ keep = <<>>
    /\ Goto(Evictor, "loop")
    /\ UNCHANGED <<pool, old, size, closed, done, up, open, sb, keep>>

-----------------------------------------------------------------------------
(* Close.  sync.Once admits one goroutine; later callers wait for it. *)

CloseBegin ==
    /\ up
    /\ pc[Closer] = "idle"
    /\ closed' = TRUE
    /\ Goto(Closer, "closing")
    /\ UNCHANGED <<pool, old, size, done, up, open, sb, keep>>

(* Mutations: done is closed only when the evictor has ended; or never. *)
CloseDoneLate ==
    /\ pc[Closer] = "closing"
    /\ pc[Evictor] = "exit"
    /\ done' = TRUE
    /\ Goto(Closer, "drain")
    /\ UNCHANGED <<pool, old, size, closed, up, open, sb, keep>>
CloseDoneForgotten ==
    /\ pc[Closer] = "closing"
    /\ Goto(Closer, "drain")
    /\ UNCHANGED <<pool, old, size, closed, done, up, open, sb, keep>>

CloseDone ==
    /\ pc[Closer] = "closing"
    /\ done' = TRUE
    /\ Goto(Closer, "drain")
    /\ UNCHANGED <<pool, old, size, closed, up, open, sb, keep>>

(* Mutation: the drain loop closes the entry it sees and leaves it there. *)
CloseReceivePeeks ==
    /\ pc[Closer] = "drain"
    /\ pool # <<>>
    /\ sb' = [sb EXCEPT ![Closer] = Head(pool)]
    /\ Goto(Closer, "discard")
    /\ UNCHANGED <<pool, old, size, closed, done, up, open, keep>>

CloseReceive ==
    /\ pc[Closer] = "drain"
    /\ Receive(Closer, "discard")
    /\ UNCHANGED <<size, closed, done, up, open, keep>>

CloseDrained ==
    /\ pc[Closer] = "drain"
    /\ pool = <<>>
    /\ Goto(Closer, "finished")
    /\ UNCHANGED <<pool, old, size, closed, done, up, open, sb, keep>>

-----------------------------------------------------------------------------
Acquire(c) ==
    \/ AcquireFast(c) \/ AcquireMiss(c) \/ Reserve(c)
    \/ Create(c) \/ CreateFail(c)
    \/ WaitReceive(c) \/ WaitDone(c) \/ WaitCancel(c)

Lease(c) == CloseLease(c) \/ Release(c) \/ ReleaseCheck(c) \/ ReleasePush(c)

Evict == Tick \/ EvictStop \/ EvictReceive \/ EvictDrained \/ EvictRefill \/ EvictRefilled

Close == CloseBegin \/ CloseDone \/ CloseReceive \/ CloseDrained

Next ==
    \/ Prewarm \/ PrewarmEnd
    \/ \E c \in Clients : Acquire(c) \/ Lease(c)
    \/ \E p \in Procs : Discard(p) \/ DecSize(p)
    \/ Evict
    \/ Close

Spec == Init /\ [][Next]_vars

(***************************************************************************)
(* Fairness.  The Go scheduler runs every goroutine that can run: weak     *)
(* fairness of each step that is enabled until taken.  A waiter in         *)
(* Acquire's select gets strong fairness, because the runtime queues       *)
(* blocked receivers and hands a sent value to the first of them; so does  *)
(* evictLoop's select between done and the ticker, because Go picks among  *)
(* ready cases at random.  Nothing makes a client call Acquire, close the  *)
(* pool or cancel a context.  Release(c) is fair: every lease is returned. *)
(***************************************************************************)
Fairness ==
    /\ WF_vars(Prewarm) /\ WF_vars(PrewarmEnd)
    /\ \A c \in Clients :
          /\ WF_vars(Reserve(c)) /\ WF_vars(Create(c) \/ CreateFail(c))
          /\ SF_vars(WaitReceive(c)) /\ WF_vars(WaitDone(c))
          /\ WF_vars(Release(c)) /\ WF_vars(ReleaseCheck(c)) /\ WF_vars(ReleasePush(c))
    /\ \A p \in Procs : WF_vars(Discard(p)) /\ WF_vars(DecSize(p))
    /\ SF_vars(EvictStop)
    /\ WF_vars(EvictReceive \/ EvictDrained) /\ WF_vars(EvictRefill \/ EvictRefilled)
    /\ WF_vars(CloseDone) /\ WF_vars(CloseReceive \/ CloseDrained)

FairSpec == Spec /\ Fairness

-----------------------------------------------------------------------------
(* Properties. *)

(* Every variable has its type and each goroutine is at a point of its own code. *)
TypeOK ==
    /\ pool \in Seq(Sandboxes)
    /\ keep \in Seq(Sandboxes)
    /\ old \subseteq Range(pool)
    /\ size \in Int
    /\ closed \in BOOLEAN /\ done \in BOOLEAN /\ up \in BOOLEAN
    /\ open \subseteq Sandboxes
    /\ pc \in [Procs -> ClientPoints \cup EvictorPoints \cup CloserPoints]
    /\ \A c \in Clients : pc[c] \in ClientPoints
    /\ pc[Evictor] \in EvictorPoints
    /\ pc[Closer] \in CloserPoints
    /\ sb \in [Procs -> Sandboxes \cup {NoSandbox}]

(***************************************************************************)
(* p.size is "total live sandboxes: idle (in pool) + checked-out": at      *)
(* every step it counts the entries of the channel, those the evictor has  *)
(* taken out for the moment, and one for each goroutine that creates,      *)
(* holds or is about to close a sandbox.  No error path, discard or        *)
(* eviction loses or repeats a decrement, and MaxSize is never exceeded.   *)
(***************************************************************************)
SizeAccounts ==
    /\ size = Len(pool) + Len(keep) + Cardinality(Slots)
    /\ size <= MaxSize

(***************************************************************************)
(* PoolOptions.MaxSize is "the maximum number of live sandboxes": however  *)
(* Acquire, Release, eviction and Close interleave, there are never more   *)
(* sandboxes in existence than p.size says, so never more than MaxSize.    *)
(***************************************************************************)
LiveBounded == Cardinality(open) <= size /\ size <= MaxSize

(***************************************************************************)
(* A sandbox is in one place: no two goroutines have the same one, none is *)
(* also in the channel or in the evictor's list, and no entry is repeated. *)
(* Two clients sharing a sandbox would race on its unlocked state.         *)
(***************************************************************************)
ExclusiveLease ==
    /\ IsInjective(pool)
    /\ IsInjective(keep)
    /\ Range(pool) \cap Range(keep) = {}
    /\ \A p \in Owners : sb[p] \notin Range(pool) \cup Range(keep)
    /\ \A p, q \in Owners : p # q => sb[p] # sb[q]

(***************************************************************************)
(* "Acquire returns a ready-to-use sandbox": unless a client has closed a  *)
(* sandbox itself, the one a client holds has not been closed - not by the *)
(* evictor, not by Close, not by another client's Release.                 *)
(***************************************************************************)
LeaseReady ==
    ~ClientsMayClose => \A c \in Clients : pc[c] = "held" => sb[c] \in open

(***************************************************************************)
(* Release and the refill loop have branches for a full channel.  With     *)
(* every lease released once they are never taken: the sandbox in hand     *)
(* already counts in p.size, so the channel has room.  An open pool loses  *)
(* no sandbox that was not idle too long.                                  *)
(***************************************************************************)
NothingWasted ==
    /\ \A c \in Clients : pc[c] = "discard" => closed
    /\ pc[Evictor] \notin {"surplus", "surplusDec"}

(***************************************************************************)
(* Every step of the pool is a step of the lease manager, or none of its   *)
(* business: a client's lease is what it holds between the return of       *)
(* Acquire and the call of Release, and a sandbox lives until it is closed.*)
(***************************************************************************)
Leases == INSTANCE SandboxLease WITH
    MaxLive <- MaxSize,
    live    <- open,
    lease   <- [c \in Clients |-> IF pc[c] = "held" THEN sb[c] ELSE NoSandbox]

LeaseSpec == Leases!LSpec

(***************************************************************************)
(* "Acquire blocks until a sandbox is released or ctx is cancelled": a     *)
(* call that has begun ends, with a sandbox or an error, when every lease  *)
(* is eventually released.                                                 *)
(***************************************************************************)
InAcquire(c) == pc[c] \in {"lock", "new", "wait"}

AcquireReturns == \A c \in Clients : InAcquire(c) ~> ~InAcquire(c)

(* Close returns, even while leases are being released into the channel    *)
(* and the evictor puts entries back into it.                              *)
CloseReturns == (pc[Closer] = "closing") ~> (pc[Closer] = "finished")

(* Closing the pool ends the eviction goroutine: it is not leaked.         *)
EvictorEnds == closed ~> (pc[Evictor] = "exit")

(***************************************************************************)
(* "If the pool is full or closed, s is closed and discarded" and Close    *)
(* "closes all idle sandboxes": once Close has returned and neither a      *)
(* Release nor an eviction is under way, the channel holds no sandbox that *)
(* nobody will ever close.                                                 *)
(***************************************************************************)
ClosedPoolIsEmpty ==
    /\ pc[Closer] = "finished"
    /\ \A c \in Clients : pc[c] \notin {"check", "push", "discard"}
    /\ pc[Evictor] \in {"loop", "exit"}
    => pool = <<>>

=============================================================================

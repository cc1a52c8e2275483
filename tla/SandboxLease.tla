----------------------------- MODULE SandboxLease -----------------------------
(***************************************************************************)
(* What the pool of sandbox/pool.go promises its clients, with nothing     *)
(* said of channels, counters or eviction: at most MaxLive sandboxes are   *)
(* alive, a sandbox is leased to one client at a time, and no sandbox is   *)
(* destroyed under the client that holds it.                               *)
(***************************************************************************)
EXTENDS Integers, FiniteSets

CONSTANTS
    Clients,      \* who may hold a lease
    Sandboxes,    \* sandbox identities
    NoSandbox,    \* the lease of a client that has none
    MaxLive       \* how many sandboxes may be alive

VARIABLES
    lease,        \* the sandbox each client holds
    live          \* the sandboxes that exist

leaseVars == <<lease, live>>

Leased == {lease[c] : c \in Clients} \ {NoSandbox}

LInit ==
    /\ lease = [c \in Clients |-> NoSandbox]
    /\ live = {}

(* A sandbox comes to life, idle. *)
CreateIdle(s) ==
    /\ s \notin live
    /\ Cardinality(live) < MaxLive
    /\ live' = live \cup {s}
    /\ UNCHANGED lease

(* A client is handed an idle sandbox. *)
Grant(c, s) ==
    /\ lease[c] = NoSandbox
    /\ s \in live \ Leased
    /\ lease' = [lease EXCEPT ![c] = s]
    /\ UNCHANGED live

(* A client is handed a sandbox made for it. *)
GrantNew(c, s) ==
    /\ lease[c] = NoSandbox
    /\ s \notin live
    /\ Cardinality(live) < MaxLive
    /\ live' = live \cup {s}
    /\ lease' = [lease EXCEPT ![c] = s]

Return(c) ==
    /\ lease[c] # NoSandbox
    /\ lease' = [lease EXCEPT ![c] = NoSandbox]
    /\ UNCHANGED live

(* An idle sandbox is destroyed. *)
Destroy(s) ==
    /\ s \in live \ Leased
    /\ live' = live \ {s}
    /\ UNCHANGED lease

LNext ==
    \/ \E s \in Sandboxes : CreateIdle(s) \/ Destroy(s)
    \/ \E c \in Clients : Return(c)
    \/ \E c \in Clients, s \in Sandboxes : Grant(c, s) \/ GrantNew(c, s)

LSpec == LInit /\ [][LNext]_leaseVars

=============================================================================

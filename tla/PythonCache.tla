------------------------------ MODULE PythonCache ------------------------------
(***************************************************************************)
(* FetchPythonWASM (packages/python_fetch.go): a host program's callers,   *)
(* in this process or another one, share one cached file.  The file is     *)
(* written in place: a caller that finds it takes what is there.           *)
(***************************************************************************)
EXTENDS FiniteSets

CONSTANTS Callers, NoCaller

ASSUME CacheAssumption == NoCaller \notin Callers

VARIABLES
    cached,  \* the cache file: "none", "part" or "whole"
    cutter,  \* the caller that truncated it last
    fetch,   \* where each caller is
    got      \* what each caller was given: "nothing" (so far, or an error), "part" or "whole"

pvars == <<cached, cutter, fetch, got>>

CacheInit ==
    /\ cached = "none" /\ cutter = NoCaller
    /\ fetch = [c \in Callers |-> "read"]
    /\ got = [c \in Callers |-> "nothing"]

Fetch(c, from, to) == fetch[c] = from /\ fetch' = [fetch EXCEPT ![c] = to]

Hit(c) ==
    /\ cached # "none"
    /\ Fetch(c, "read", "returned")
    /\ got' = [got EXCEPT ![c] = cached]
    /\ UNCHANGED <<cached, cutter>>

Miss(c) ==
    /\ cached = "none"
    /\ Fetch(c, "read", "download")
    /\ UNCHANGED <<cached, cutter, got>>

(* Mutation: a body that ended early is written like a whole one. *)
TruncateShort(c) ==
    /\ Fetch(c, "download", "returned")
    /\ cached' = "part" /\ cutter' = c
    /\ UNCHANGED got

(* A request, a status or a body that ends in an error. *)
FetchFails(c) ==
    /\ Fetch(c, "download", "returned")
    /\ UNCHANGED <<cached, cutter, got>>

(* The body is here; WriteFile opens and truncates the file. *)
Truncate(c) ==
    /\ Fetch(c, "download", "write")
    /\ cached' = "part" /\ cutter' = c
    /\ UNCHANGED got

(* Behind somebody else's truncation the first part of what was written may be missing. *)
WriteDone(c) ==
    /\ Fetch(c, "write", "returned")
    /\ cached' \in IF cutter = c THEN {"whole"} ELSE {cached, "whole"}
    /\ got' = [got EXCEPT ![c] = "whole"]
    /\ UNCHANGED cutter

(* The caller is given the bytes, and an error. *)
WriteFails(c) ==
    /\ Fetch(c, "write", "failed")
    /\ got' = [got EXCEPT ![c] = "whole"]
    /\ UNCHANGED <<cached, cutter>>

(* Its process dies. *)
Dies(c) ==
    /\ \E at \in {"read", "download", "write"} : Fetch(c, at, "died")
    /\ UNCHANGED <<cached, cutter, got>>

FetchStep(c) ==
    Hit(c) \/ Miss(c) \/ FetchFails(c) \/ Truncate(c) \/ WriteDone(c) \/ WriteFails(c)

CacheNext == \E c \in Callers : FetchStep(c) \/ Dies(c)

CacheSpec == CacheInit /\ [][CacheNext]_pvars

-----------------------------------------------------------------------------
(* Every variable has its type. *)
CacheTypeOK ==
    /\ cached \in {"none", "part", "whole"}
    /\ cutter \in Callers \cup {NoCaller}
    /\ fetch \in [Callers -> {"read", "download", "write", "failed", "returned", "died"}]
    /\ got \in [Callers -> {"nothing", "part", "whole"}]

(***************************************************************************)
(* "Subsequent calls with the same cacheDir return the cached copy": a     *)
(* partial copy can be found only while the caller that truncated the file *)
(* last is still writing it, or when that write failed or its process      *)
(* died.                                                                   *)
(***************************************************************************)
PartOnlyIfCut ==
    cached = "part" => cutter \in Callers /\ fetch[cutter] \in {"write", "failed", "died"}

=============================================================================

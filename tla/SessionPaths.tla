------------------------------ MODULE SessionPaths ------------------------------
(***************************************************************************)
(* The places of a session with their paths: what a name means to the      *)
(* shell, to the commands it runs and to the host, from wherever the       *)
(* session has gone.                                                       *)
(***************************************************************************)
EXTENDS Session, PathMap

CONSTANT UserNames \* names given to the shell, to commands and to ReadFile and WriteFile

Inside == STRING \ {"..", Root[Len(Root)]}

(* The sandbox's directories are clean paths, and nothing in the sandbox has the name that MkdirTemp made *)
(* up for the sandbox itself.                                                               *)
ASSUME PathsAssumption ==
    /\ Root # <<>> /\ Root \in Seq(STRING \ {".."})
    /\ \A d \in Dirs \ Outside : Under(Root, d) /\ d \in Seq(STRING) /\ Below(Root, d) \in Seq(Inside)
    /\ \A d \in Outside : ~Under(Root, d)
    /\ Siblings \subseteq Inside
    /\ \A p \in OnHost : ~Under(Root, p)
    /\ \A n \in UserNames : /\ n.abs \in BOOLEAN
                            /\ n.names \in Seq(IF n.abs THEN STRING ELSE Inside \cup {".."})

(* The interpreter's directory, and the virtual path of it that the host is shown. *)
Here    == IF stage = "idle" THEN dir ELSE rdir
HostCwd == RealToVirtual(Root, stateCwd)

(* The absolute name is a real path of the sandbox, as written. *)
Real(n) == n.abs /\ Under(Root, n.names)

(* A name that does not climb above the root on its way, or, a real path, once it is there. *)
StaysInside(n) ==
    LET from  == IF Real(n) THEN <<>> ELSE IF n.abs THEN Root ELSE Here
        start == IF Real(n) THEN Len(Root) ELSE 0
    IN  \A i \in start..Len(n.names) : Under(Root, Walk(from, n.names)[i])

(* An absolute name that is also one of the host's. *)
HostHas(n) == n.abs /\ Join(<<>>, n.names) \in OnHost

(* A virtual name that the call hook takes for a real one and leaves alone. *)
Skipped(n) ==
    /\ n.abs /\ ~Under(Root, Join(<<>>, n.names))
    /\ RawUnder(Root, n.names) \/ HostHas(n)

(***************************************************************************)
(* "Agent sees clean paths": after any sequence of runs, cuts and resets a *)
(* name that stays inside the root is one place, for a redirection, a test *)
(* or a glob, for the commands the sandbox implements, and, between runs,  *)
(* for the host.  A child process is told the same place unless the call   *)
(* hook leaves the name alone, and cd finds it if the name is relative.    *)
(***************************************************************************)
NamesAgree ==
    \A n \in UserNames : StaysInside(n) =>
        LET place == OpenPath(Root, Here, n) IN
        /\ StatPath(Root, Here, n) = place
        /\ ResolveArg(Root, Here, n) = place
        /\ stage = "idle" => ResolvePath(Root, HostCwd, n) = place
        /\ ~Skipped(n) => ChildPath(Root, Here, n) = place
        /\ ~n.abs => CdPath(Root, Here, n) = place

(***************************************************************************)
(* "A cd() shim that makes `cd /virtual/path` work inside the sandbox":    *)
(* cd of a virtual absolute name goes to the directory that the name is to *)
(* every other part of the shell, when there is one.                       *)
(***************************************************************************)
CdFinds ==
    Executing => \A n \in UserNames :
        LET place == OpenPath(Root, Here, n) IN
        n.abs /\ ~Real(n) /\ StaysInside(n) /\ place \in Dirs \cap disk
            => CdPath(Root, Here, n) = place

=============================================================================

-------------------------------- MODULE PathMap --------------------------------
(***************************************************************************)
(* The paths of a sandbox (internal/pathmap and its callers).  A place has *)
(* a real path, under the temp directory root, and a virtual one, which    *)
(* the agent sees; each part of the program turns the names it is given    *)
(* into a real path in a way of its own.  A path is a sequence of names; a *)
(* name as a user gives it is absolute or not, and may hold "..".          *)
(***************************************************************************)
EXTENDS Integers, Sequences, SequencesExt

CONSTANTS
    Dotted,    \* names that begin with two dots, ".." itself left out
    Siblings,  \* names that begin with the root's own last name and are longer
    OnHost     \* real paths that exist outside of the sandbox

(* One step of filepath.Join, which cleans as it goes; nothing is above "/". *)
Enter(place, name) ==
    IF name # ".." THEN Append(place, name)
    ELSE IF place = <<>> THEN <<>> ELSE Front(place)

(* The places passed on the way from a place along the names. *)
Walk(place, names) ==
    LET walk[i \in 0..Len(names)] == IF i = 0 THEN place ELSE Enter(walk[i - 1], names[i]) IN walk

Join(place, names) == Walk(place, names)[Len(names)]

Under(root, path) == IsPrefix(root, path)

VirtualToReal(root, path) == IF Under(root, path) THEN path ELSE root \o path

Below(root, path) == SubSeq(path, Len(root) + 1, Len(path))

(* A name that only begins like ".." is taken for a way out of the root. *)
RealToVirtual(root, path) ==
    LET rel == Below(root, path) IN
    IF Under(root, path) /\ (rel # <<>> => Head(rel) \notin Dotted) THEN rel ELSE path

Absolute(here, n) == IF n.abs THEN Join(<<>>, n.names) ELSE Join(here, n.names)

(* Mutation: the host's relative names start at the root. *)
ResolvePathFromRoot(root, cwd, n) == VirtualToReal(root, Join(<<>>, n.names))

(* resolvePath: ReadFile, WriteFile and ListFiles, from the host's virtual directory. *)
ResolvePath(root, cwd, n) == VirtualToReal(root, Absolute(cwd, n))

(* A redirection, from the interpreter's real directory. *)
OpenPath(root, here, n) ==
    LET path == Absolute(here, n) IN IF Under(root, path) THEN path ELSE root \o path

(* [[ -f name ]] and the expansion of *; the interpreter makes the name absolute. *)
StatPath(root, here, n) == VirtualToReal(root, Absolute(here, n))

(* The call hook compares the two as strings, so a sibling of the root counts as well. *)
RawUnder(root, names) ==
    /\ Len(names) >= Len(root)
    /\ IsPrefix(Front(root), names)
    /\ names[Len(root)] \in {Last(root)} \cup Siblings

(* What the call hook makes of a command's argument. *)
CallArg(root, n) ==
    IF n.abs /\ ~RawUnder(root, n.names) /\ Join(<<>>, n.names) \notin OnHost
    THEN [n EXCEPT !.names = VirtualToReal(root, Join(<<>>, n.names))]
    ELSE n

(* What a child process opens for an argument. *)
ChildPath(root, here, n) == Absolute(here, CallArg(root, n))

(* What ls, cat, ln and their like open, which are no child processes. *)
ResolveArg(root, here, n) ==
    IF n.abs THEN VirtualToReal(root, ChildPath(root, here, n)) ELSE ChildPath(root, here, n)

(* The cd() shim puts the root before every absolute argument, whatever the call hook has *)
(* made of it.                                                                              *)
CdPath(root, here, n) ==
    LET a == CallArg(root, n) IN IF a.abs THEN Join(root, a.names) ELSE Join(here, a.names)

=============================================================================

-------------------------------- MODULE Overlay --------------------------------
(***************************************************************************)
(* The files under a sandbox's root, and what the package shims make of    *)
(* them (packages/pip.go, apt.go, cache.go, manifest.go): pip and apt are  *)
(* redirected into the root, a manifest records what was installed, and    *)
(* all sandboxes of the host share one archive of downloaded packages.     *)
(* The tasks of a command (the script itself, its subshells and background *)
(* jobs) call the shims concurrently, and a background job outlives both   *)
(* its command and the manifest it was started with.                       *)
(***************************************************************************)
EXTENDS Naturals, FiniteSets

CONSTANTS
    Tasks,      \* goroutines of the interpreter
    PipPkgs,    \* Python packages, by the name pip is asked for
    PipFiles,   \* what pip puts into its target: packages, modules and their dist-info directories
    Brings,     \* those an install of a package adds, its dependencies' among them
    Matches,    \* those uninstall takes for the package's, going by their names
    AptPkgs,    \* Debian packages asked for by name
    Debs,       \* .deb files
    Needs,      \* the .deb files apt-get downloads for a package
    UserFiles,  \* other files under the root
    NoPkg       \* no package

ASSUME OverlayAssumption ==
    /\ Brings \in [PipPkgs -> SUBSET PipFiles] /\ Matches \in [PipPkgs -> SUBSET PipFiles]
    /\ Needs \in [AptPkgs -> SUBSET Debs]
    /\ NoPkg \notin PipPkgs \cup AptPkgs

VARIABLES
    tree,      \* the entries that exist under the root
    kind,      \* what each user file is
    manifest,  \* s.manifest: pairs of manager and name
    archives,  \* the .deb files in the shared archive directory
    mutex,     \* dirLocks.m[archivesDir]: the number of its mutex, 0 when there is none
    locked,    \* the mutexes that are locked
    op,        \* the shim call each task is executing
    rough      \* history: entries not only changed by successful calls, one after the other

lockVars == <<archives, mutex, locked>>
ovars    == <<tree, kind, manifest, lockVars, op, rough>>

(* What a user file is to the code that walks, empties and fills the root: a link to a path   *)
(* under the root, or to one outside; a name at the root that begins with ".."; a fifo; a file *)
(* the process cannot open; one in a directory it cannot list, or cannot change.                *)
FileKinds == {"link", "wayout", "dotdot", "fifo", "shut", "hidden", "sealed"}

Pip(f)  == <<"pip", f>>
Deb(d)  == <<"deb", d>>
User(u) == <<"user", u>>

Pips     == {Pip(f) : f \in PipFiles}
DebFiles == {Deb(d) : d \in Debs}
Users    == {User(u) : u \in UserFiles}

Entries == Pips \cup DebFiles \cup Users

KindOf(e) == IF e[1] = "user" THEN kind[e[2]] ELSE "plain"

(* RemoveAll fails for it, unless the process is root's. *)
Stays(e) == KindOf(e) \in {"hidden", "sealed"}

Brought(p) == {Pip(f) : f \in Brings[p]}
Matched(p) == {Pip(f) : f \in Matches[p]}

PipEntries(p) == Brought(p) \cup Matched(p)

Recordable == ({"pip"} \X PipPkgs) \cup ({"apt"} \X AptPkgs)

PipSteps  == {"pipChild", "pipRecord", "pipRemove", "pipForget"}
AptSteps  == {"aptLock", "aptDownload", "aptGlob", "aptExtract", "aptUnlock"}
LockSteps == AptSteps \ {"aptLock"}

(* A call: its next step, its package, the entries or .deb files it still has to   *)
(* handle, the mutex lockDir gave it, and whether Reset replaced its manifest.      *)
NoCall == [next |-> "idle", pkg |-> NoPkg, todo |-> {}, mu |-> 0, old |-> FALSE]

Calls ==
    [next : PipSteps, pkg : PipPkgs, todo : SUBSET Pips, mu : {0}, old : BOOLEAN]
        \cup [next : AptSteps, pkg : AptPkgs, todo : SUBSET DebFiles, mu : Nat \ {0}, old : BOOLEAN]
        \cup [next : {"lnLink"}, pkg : {NoPkg}, todo : SUBSET Users, mu : {0}, old : BOOLEAN]

Idle(t) == op[t] = NoCall

(* The entries a call writes or removes. *)
About(t) ==
    IF op[t].next \in PipSteps THEN PipEntries(op[t].pkg)
    ELSE IF op[t].next \in {"aptExtract", "lnLink"} THEN op[t].todo
    ELSE {}

Busy == UNION {About(t) : t \in Tasks}

OverlayInit ==
    /\ tree = {} /\ manifest = {} /\ rough = {}
    /\ kind \in [UserFiles -> FileKinds]
    /\ archives \in {{}, Debs}
    /\ mutex = 0 /\ locked = {}
    /\ op = [t \in Tasks |-> NoCall]

Begins(t, step, p, todo) ==
    op' = [op EXCEPT ![t] = [NoCall EXCEPT !.next = step, !.pkg = p, !.todo = todo]]

GoesTo(t, step) == op' = [op EXCEPT ![t].next = step]

Returns(t) == op' = [op EXCEPT ![t] = NoCall]

-----------------------------------------------------------------------------
(* pip *)

(* PipShim.install: the child is started. *)
PipInstall(t, p) ==
    /\ Idle(t)
    /\ Begins(t, "pipChild", p, Brought(p))
    /\ rough' = rough \cup (PipEntries(p) \cap Busy)
    /\ UNCHANGED <<tree, kind, manifest, lockVars>>

(* pip puts what the package and its dependencies consist of into the target, one after the other. *)
PipChildWrites(t) ==
    /\ op[t].next = "pipChild"
    /\ \E e \in op[t].todo :
          /\ tree' = tree \cup {e}
          /\ op' = [op EXCEPT ![t].todo = @ \ {e}]
    /\ UNCHANGED <<kind, manifest, lockVars, rough>>

PipChildDone(t) ==
    /\ op[t].next = "pipChild" /\ op[t].todo = {}
    /\ GoesTo(t, "pipRecord")
    /\ UNCHANGED <<tree, kind, manifest, lockVars, rough>>

(* Mutation: the package is recorded whatever became of the child. *)
PipChildFailsRecorded(t) ==
    /\ op[t].next = "pipChild"
    /\ GoesTo(t, "pipRecord")
    /\ UNCHANGED <<tree, kind, manifest, lockVars, rough>>

(* The child fails, or is killed with the command's context: what it wrote stays. *)
PipChildFails(t) ==
    /\ op[t].next = "pipChild"
    /\ Returns(t)
    /\ rough' = rough \cup PipEntries(op[t].pkg)
    /\ UNCHANGED <<tree, kind, manifest, lockVars>>

PipRecord(t) ==
    /\ op[t].next = "pipRecord"
    /\ manifest' = IF op[t].old THEN manifest ELSE manifest \cup {<<"pip", op[t].pkg>>}
    /\ Returns(t)
    /\ UNCHANGED <<tree, kind, lockVars, rough>>

(* PipShim.uninstall: the target's entries that match the name.  "-" is replaced by "_"   *)
(* before the comparison, so that the package's own dist-info directory never does.       *)
PipUninstall(t, p) ==
    /\ Idle(t)
    /\ Begins(t, "pipRemove", p, Matched(p) \cap tree)
    /\ rough' = rough \cup (PipEntries(p) \cap Busy)
    /\ UNCHANGED <<tree, kind, manifest, lockVars>>

(* The error of RemoveAll is dropped. *)
PipRemoves(t) ==
    /\ op[t].next = "pipRemove"
    /\ \E e \in op[t].todo :
          /\ \/ tree' = tree \ {e} /\ UNCHANGED rough
             \/ rough' = rough \cup {e} /\ UNCHANGED tree
          /\ op' = [op EXCEPT ![t].todo = @ \ {e}]
    /\ UNCHANGED <<kind, manifest, lockVars>>

PipRemoveDone(t) ==
    /\ op[t].next = "pipRemove" /\ op[t].todo = {}
    /\ GoesTo(t, "pipForget")
    /\ UNCHANGED <<tree, kind, manifest, lockVars, rough>>

PipForget(t) ==
    /\ op[t].next = "pipForget"
    /\ manifest' = IF op[t].old THEN manifest ELSE manifest \ {<<"pip", op[t].pkg>>}
    /\ Returns(t)
    /\ UNCHANGED <<tree, kind, lockVars, rough>>

-----------------------------------------------------------------------------
(* apt *)

(* Mutation: lockDir makes a new mutex each time. *)
AptInstallFreshLock(t, a) ==
    /\ Idle(t)
    /\ mutex' = mutex + 1
    /\ op' = [op EXCEPT ![t] = [NoCall EXCEPT !.next = "aptLock", !.pkg = a, !.mu = mutex + 1]]
    /\ UNCHANGED <<tree, kind, manifest, archives, locked, rough>>

(* AptShim.install up to the look into dirLocks.m, under the lock of that map. *)
AptInstall(t, a) ==
    /\ Idle(t)
    /\ mutex' = IF mutex = 0 THEN 1 ELSE mutex
    /\ op' = [op EXCEPT ![t] = [NoCall EXCEPT !.next = "aptLock", !.pkg = a, !.mu = mutex']]
    /\ UNCHANGED <<tree, kind, manifest, archives, locked, rough>>

AptLock(t) ==
    /\ op[t].next = "aptLock" /\ op[t].mu \notin locked
    /\ locked' = locked \cup {op[t].mu}
    /\ op' = [op EXCEPT ![t].next = "aptDownload", ![t].todo = {Deb(d) : d \in Needs[op[t].pkg]}]
    /\ UNCHANGED <<tree, kind, manifest, archives, mutex, rough>>

(* apt-get downloads what is not yet in the archive. *)
AptDownload(t) ==
    /\ op[t].next = "aptDownload"
    /\ \E d \in Debs :
          /\ Deb(d) \in op[t].todo
          /\ archives' = archives \cup {d}
          /\ op' = [op EXCEPT ![t].todo = @ \ {Deb(d)}]
    /\ UNCHANGED <<tree, kind, manifest, mutex, locked, rough>>

AptDownloadDone(t) ==
    /\ op[t].next = "aptDownload" /\ op[t].todo = {}
    /\ GoesTo(t, "aptGlob")
    /\ UNCHANGED <<tree, kind, manifest, lockVars, rough>>

(* Mutation: a failed download returns without the deferred unlock. *)
AptDownloadFailsLocked(t) ==
    /\ op[t].next = "aptDownload"
    /\ Returns(t)
    /\ UNCHANGED <<tree, kind, manifest, lockVars, rough>>

(* apt-get fails or is killed: what it downloaded stays in the archive. *)
AptDownloadFails(t) ==
    /\ op[t].next = "aptDownload"
    /\ op' = [op EXCEPT ![t].next = "aptUnlock", ![t].todo = {}]
    /\ UNCHANGED <<tree, kind, manifest, lockVars, rough>>

(* Every .deb file of the shared archive, whoever downloaded it. *)
AptGlob(t) ==
    /\ op[t].next = "aptGlob"
    /\ op' = [op EXCEPT ![t].next = "aptExtract", ![t].todo = {Deb(d) : d \in archives}]
    /\ UNCHANGED <<tree, kind, manifest, lockVars, rough>>

AptExtract(t) ==
    /\ op[t].next = "aptExtract"
    /\ \E e \in op[t].todo :
          /\ tree' = tree \cup {e}
          /\ op' = [op EXCEPT ![t].todo = @ \ {e}]
    /\ UNCHANGED <<kind, manifest, lockVars, rough>>

(* Mutation: the loop ends at the first file that cannot be extracted. *)
AptExtractFailsBreaks(t) ==
    /\ op[t].next = "aptExtract"
    /\ \E e \in op[t].todo :
          /\ rough' = rough \cup {e}
          /\ op' = [op EXCEPT ![t].todo = {}]
    /\ UNCHANGED <<tree, kind, manifest, lockVars>>

(* A file that cannot be extracted is a warning, one cut off between two sections not even *)
(* that: the loop goes on, without what the file lacks.                                       *)
AptExtractFails(t) ==
    /\ op[t].next = "aptExtract"
    /\ \E e \in op[t].todo :
          /\ rough' = rough \cup {e}
          /\ op' = [op EXCEPT ![t].todo = @ \ {e}]
    /\ UNCHANGED <<tree, kind, manifest, lockVars>>

AptRecord(t) ==
    /\ op[t].next = "aptExtract" /\ op[t].todo = {}
    /\ manifest' = IF op[t].old THEN manifest ELSE manifest \cup {<<"apt", op[t].pkg>>}
    /\ GoesTo(t, "aptUnlock")
    /\ UNCHANGED <<tree, kind, lockVars, rough>>

AptUnlock(t) ==
    /\ op[t].next = "aptUnlock"
    /\ locked' = locked \ {op[t].mu}
    /\ Returns(t)
    /\ UNCHANGED <<tree, kind, manifest, archives, mutex, rough>>

(* AptShim.remove: only the record goes. *)
AptRemove(t, a) ==
    /\ Idle(t)
    /\ manifest' = manifest \ {<<"apt", a>>}
    /\ UNCHANGED <<tree, kind, lockVars, op, rough>>

(* Another process with a sandbox of its own: its lock is not ours. *)
OtherDownload ==
    /\ \E d \in Debs : archives' = archives \cup {d}
    /\ UNCHANGED <<tree, kind, manifest, mutex, locked, op, rough>>

-----------------------------------------------------------------------------
(* Everything else that changes the root. *)

(* The ln interceptor: -f removes first. *)
Ln(t) ==
    /\ Idle(t)
    /\ \E u \in UserFiles, force \in BOOLEAN :
          /\ kind[u] = "link"
          /\ tree' = IF force THEN tree \ {User(u)} ELSE tree
          /\ Begins(t, "lnLink", NoPkg, {User(u)})
    /\ UNCHANGED <<kind, manifest, lockVars, rough>>

(* SymlinkFunc: fails when the name is taken. *)
LnLink(t) ==
    /\ op[t].next = "lnLink"
    /\ tree' = tree \cup op[t].todo
    /\ Returns(t)
    /\ UNCHANGED <<kind, manifest, lockVars, rough>>

TreeBecomes(new) ==
    /\ tree' = new
    /\ rough' = rough \cup (tree \ new) \cup (new \ tree)
    /\ UNCHANGED <<kind, manifest, lockVars, op>>

(* An external command writes a file, or removes an entry. *)
ExternalChange ==
    \/ \E u \in UserFiles : TreeBecomes(tree \cup {User(u)})
    \/ \E e \in tree : TreeBecomes(tree \ {e})

(* Sandbox.Reset: Clear stops at the first entry it cannot remove, and its error is *)
(* dropped; the calls under way keep the manifest they were given.                   *)
ResetRoot ==
    /\ \E kept \in SUBSET tree :
          /\ Busy = {} /\ (\A e \in tree : ~Stays(e)) => kept = {}
          /\ tree' = kept
          /\ rough' = Busy \cup kept
    /\ manifest' = {}
    /\ op' = [t \in Tasks |-> IF Idle(t) THEN NoCall ELSE [op[t] EXCEPT !.old = TRUE]]
    /\ UNCHANGED <<kind, lockVars>>

(* The steps of a call that has begun. *)
Advance(t) ==
    \/ PipChildWrites(t) \/ PipChildDone(t) \/ PipChildFails(t) \/ PipRecord(t)
    \/ PipRemoves(t) \/ PipRemoveDone(t) \/ PipForget(t)
    \/ AptLock(t) \/ AptDownload(t) \/ AptDownloadDone(t) \/ AptDownloadFails(t)
    \/ AptGlob(t) \/ AptExtract(t) \/ AptExtractFails(t) \/ AptRecord(t) \/ AptUnlock(t)
    \/ LnLink(t)

Begin(t) ==
    \/ \E p \in PipPkgs : PipInstall(t, p) \/ PipUninstall(t, p)
    \/ \E a \in AptPkgs : AptInstall(t, a) \/ AptRemove(t, a)
    \/ Ln(t)

(* Whatever a snapshot is restored to, an archive uploaded, or a program writes. *)
AnyChange == \E new \in SUBSET Entries : TreeBecomes(new)

OverlayNext == OtherDownload \/ ResetRoot \/ AnyChange \/ \E t \in Tasks : Begin(t) \/ Advance(t)

OverlaySpec == OverlayInit /\ [][OverlayNext]_ovars

-----------------------------------------------------------------------------
(* Properties. *)

(* Every variable has its type. *)
OverlayTypeOK ==
    /\ tree \subseteq Entries /\ rough \subseteq Entries
    /\ kind \in [UserFiles -> FileKinds]
    /\ manifest \subseteq Recordable
    /\ archives \subseteq Debs
    /\ mutex \in Nat /\ locked \subseteq Nat
    /\ op \in [Tasks -> Calls \cup {NoCall}]

(***************************************************************************)
(* "Serialize per-cache-dir to avoid concurrent downloads of the same      *)
(* package": between the lock and the deferred unlock there is one apt     *)
(* install of this process, and its mutex is locked.                       *)
(***************************************************************************)
InSection(t) == op[t].next \in LockSteps

LockExclusive ==
    \A t \in Tasks : InSection(t) =>
        /\ op[t].mu \in locked
        /\ \A u \in Tasks : InSection(u) => u = t

(***************************************************************************)
(* What the manifest lists as installed by apt is under the root: every    *)
(* file the package needs was extracted, unless its extraction failed or   *)
(* something other than the shims changed the entry since.                 *)
(***************************************************************************)
RecordedExtracted ==
    \A a \in AptPkgs : <<"apt", a>> \in manifest =>
        \A d \in Needs[a] : Deb(d) \in tree \cup rough

(***************************************************************************)
(* The manifest of pip and the root, entry by entry, and whatever calls    *)
(* overlap, fail or outlive a reset: of a recorded package everything is   *)
(* under the root that no uninstall of another package takes for its own,  *)
(* and of one that is not recorded nothing is that its uninstall would     *)
(* remove and no install of another package brings.  Left out are entries  *)
(* a call is busy with, and entries not only changed by whole calls.       *)
(***************************************************************************)
Kept(p) == {e \in Brought(p) : \A q \in PipPkgs \ {p} : e \notin Matched(q)}
Sole(p) == {e \in Matched(p) : \A q \in PipPkgs \ {p} : e \notin Brought(q)}

ManifestAgrees ==
    \A p \in PipPkgs :
        IF <<"pip", p>> \in manifest
        THEN Kept(p) \subseteq tree \cup Busy \cup rough
        ELSE Sole(p) \cap tree \subseteq Busy \cup rough

=============================================================================

----------------------------- MODULE ChangeTracker -----------------------------
(***************************************************************************)
(* The change report of fs/tracker.go: which files were created, modified  *)
(* and deleted since the last Reset, that is, in the current run.  The     *)
(* tracker looks at the disk outside its lock, and its record and the      *)
(* change of the disk are two steps, so the tasks of a command (subshells, *)
(* pipeline stages, background jobs, another caller's command) interleave  *)
(* between them.  Other programs and the host change the disk as well,     *)
(* and the tracker does not see it.  A removal or a rename takes along     *)
(* whatever lies below its path, and records the path alone.               *)
(***************************************************************************)
EXTENDS FiniteSets

CONSTANTS
    Paths,             \* files (or links) and directories under the root
    Below,             \* the paths that lie below each: none, for a file
    Moved(_, _, _),    \* what a path below a directory becomes when that is renamed
    Tasks,             \* goroutines that use the tracker
    NoPath             \* no path

ASSUME TrackerAssumption == NoPath \notin Paths

ASSUME TreesAssumption ==
    /\ Below \in [Paths -> SUBSET Paths]
    /\ \A p \in Paths : p \notin Below[p] /\ \A x \in Below[p] : Below[x] \subseteq Below[p]

VARIABLES
    disk,      \* the files and directories that exist
    created,   \* c.created
    modified,  \* c.modified
    deleted,   \* c.deleted
    op,        \* the call each task is executing
    before,    \* history: what existed at the last Reset
    rough,     \* history: paths not only changed by this run's calls, one after the other,
               \* none of them failing half-way
    swept      \* history: paths that a removal or a rename of a directory above them changed

sets   == <<created, modified, deleted>>
ctvars == <<disk, sets, op, before, rough, swept>>

Files == {p \in Paths : Below[p] = {}}

Above(x) == {p \in Paths : x \in Below[p]}

Tree(p) == {p} \cup Below[p]

(* A call: what it does next, and the paths it is about. *)
Call == [next    : {"recordOpen", "recordLink", "open", "symlink", "recordDelete", "recordRename"},
         existed : BOOLEAN,
         path    : Paths,
         to      : Paths]

NoCall == [next |-> "idle", existed |-> FALSE, path |-> NoPath, to |-> NoPath]

Init ==
    /\ disk \in {D \in SUBSET Paths : \A x \in D : Above(x) \subseteq D}
    /\ created = {} /\ modified = {} /\ deleted = {}
    /\ op = [t \in Tasks |-> NoCall]
    /\ before = disk
    /\ rough = {} /\ swept = {}

Idle(t) == op[t] = NoCall

About(t) == {op[t].path, op[t].to}

(* The paths some call is about. *)
Busy == {p \in Paths : \E t \in Tasks : p \in About(t)}

(* Paths with a removal under way: gone from the disk and not yet recorded. *)
Removing ==
    {p \in Paths : \E t \in Tasks : op[t].next \in {"recordDelete", "recordRename"} /\ p \in About(t)}

Calls(t, step, p, q) ==
    op' = [op EXCEPT ![t] = [next |-> step, existed |-> p \in disk, path |-> p, to |-> q]]

Returns(t) == op' = [op EXCEPT ![t] = NoCall]

-----------------------------------------------------------------------------
(* OpenFile with a write flag, WriteFile and Symlink: recordWrite's Stat. *)
StatForWrite(t) ==
    /\ Idle(t)
    /\ \E p \in Paths, step \in {"recordOpen", "recordLink"} :
          /\ Calls(t, step, p, p)
          /\ rough' = rough \cup ({p} \cap Removing)
    /\ UNCHANGED <<disk, sets, before, swept>>

(* Mutation: a file is listed as modified although this run created it. *)
RecordWriteTwice(t) ==
    /\ op[t].next \in {"recordOpen", "recordLink"}
    /\ IF op[t].existed
       THEN modified' = modified \cup {op[t].path} /\ UNCHANGED created
       ELSE created' = created \cup {op[t].path} /\ UNCHANGED modified
    /\ op' = [op EXCEPT ![t].next = IF @ = "recordOpen" THEN "open" ELSE "symlink"]
    /\ UNCHANGED <<disk, deleted, before, rough, swept>>

(* recordWrite under the lock. *)
RecordWrite(t) ==
    /\ op[t].next \in {"recordOpen", "recordLink"}
    /\ IF op[t].existed
       THEN modified' = modified \cup ({op[t].path} \ created) /\ UNCHANGED created
       ELSE created' = created \cup {op[t].path} /\ UNCHANGED modified
    /\ op' = [op EXCEPT ![t].next = IF @ = "recordOpen" THEN "open" ELSE "symlink"]
    /\ UNCHANGED <<disk, deleted, before, rough, swept>>

(* The inner file system's part of a write, which may fail.  An open creates the directories *)
(* above its file first; a link does not, and never replaces a file.                          *)
Write(t) ==
    LET p == op[t].path IN
    /\ \/ op[t].next \in {"open", "symlink"} /\ UNCHANGED disk
       \/ op[t].next = "open" /\ disk' = disk \cup Above(p)
       \/ op[t].next = "open" /\ p \in Files /\ disk' = disk \cup Above(p) \cup {p}
       \/ op[t].next = "symlink" /\ p \in Files \ disk /\ Above(p) \subseteq disk /\ disk' = disk \cup {p}
    /\ Returns(t)
    /\ UNCHANGED <<sets, before, rough, swept>>

(* Directories are not reported. *)
MkdirAll(t) ==
    /\ Idle(t)
    /\ \E p \in Paths \ Files : disk' = disk \cup Above(p) \cup {p}
    /\ UNCHANGED <<sets, op, before, rough, swept>>

(* Remove fails when there is no such file or the directory is not empty, RemoveAll does not. *)
Remove(t) ==
    /\ Idle(t)
    /\ \E p \in Paths, all \in BOOLEAN :
          /\ all \/ (p \in disk /\ Below[p] \cap disk = {})
          /\ disk' = disk \ Tree(p)
          /\ Calls(t, "recordDelete", p, p)
          /\ rough' = rough \cup (Tree(p) \cap Busy)
          /\ swept' = swept \cup (Below[p] \cap disk)
    /\ UNCHANGED <<sets, before>>

(* RemoveAll returns the error of an entry it cannot remove, and records nothing. *)
RemoveFails(t) ==
    /\ Idle(t)
    /\ \E p \in Paths : \E gone \in SUBSET (Below[p] \cap disk) :
          /\ \A x \in gone : Below[x] \cap disk \subseteq gone
          /\ disk' = disk \ gone
          /\ rough' = rough \cup gone
    /\ UNCHANGED <<sets, op, before, swept>>

(* Mutation: what was created and deleted again in one run is not reported. *)
RecordDeleteNet(t) ==
    /\ op[t].next = "recordDelete"
    /\ created' = created \ {op[t].path}
    /\ modified' = modified \ {op[t].path}
    /\ deleted' = deleted \cup ({op[t].path} \ created)
    /\ Returns(t)
    /\ UNCHANGED <<disk, before, rough, swept>>

RecordDelete(t) ==
    /\ op[t].next = "recordDelete"
    /\ created' = created \ {op[t].path}
    /\ modified' = modified \ {op[t].path}
    /\ deleted' = deleted \cup {op[t].path}
    /\ Returns(t)
    /\ UNCHANGED <<disk, before, rough, swept>>

(* A file replaces a file, a directory only an empty one; that the paths of what moves are in *)
(* Paths is a bound of the model.                                                             *)
Rename(t) ==
    /\ Idle(t)
    /\ \E p \in disk, q \in Paths :
          LET moved == {Moved(x, p, q) : x \in Below[p] \cap disk} IN
          /\ p \in Files <=> q \in Files
          /\ q \notin Below[p] /\ Above(q) \subseteq disk
          /\ p # q => Below[q] \cap disk = {}
          /\ moved \subseteq Below[q]
          /\ disk' = (disk \ Tree(p)) \cup {q} \cup moved
          /\ Calls(t, "recordRename", p, q)
          /\ rough' = rough \cup ((Tree(p) \cup Tree(q)) \cap Busy)
          /\ swept' = swept \cup (Below[p] \cap disk) \cup moved
    /\ UNCHANGED <<sets, before>>

RecordRename(t) ==
    /\ op[t].next = "recordRename"
    /\ created' = (created \ {op[t].path}) \cup {op[t].to}
    /\ modified' = modified \ {op[t].path}
    /\ deleted' = deleted \cup {op[t].path}
    /\ Returns(t)
    /\ UNCHANGED <<disk, before, rough, swept>>

(* The start of a run, while calls of an earlier or a concurrent one may be under way. *)
Reset ==
    /\ created' = {} /\ modified' = {} /\ deleted' = {}
    /\ before' = disk
    /\ rough' = Busy /\ swept' = {}
    /\ UNCHANGED <<disk, op>>

(* A child process, a package manager, Sandbox.WriteFile, an upload or a restore. *)
Untracked ==
    /\ \E p \in Paths :
          /\ disk' = disk \ Tree(p) \/ disk' = disk \cup Above(p) \cup {p}
          /\ rough' = rough \cup Tree(p)
    /\ UNCHANGED <<sets, op, before, swept>>

Step(t) ==
    \/ StatForWrite(t) \/ RecordWrite(t) \/ Write(t) \/ MkdirAll(t)
    \/ Remove(t) \/ RemoveFails(t) \/ RecordDelete(t) \/ Rename(t) \/ RecordRename(t)

Next == Reset \/ Untracked \/ \E t \in Tasks : Step(t)

Spec == Init /\ [][Next]_ctvars

-----------------------------------------------------------------------------
(* Properties. *)

(* Every variable has its type. *)
TypeOK ==
    /\ disk \subseteq Paths /\ before \subseteq Paths /\ rough \subseteq Paths /\ swept \subseteq Paths
    /\ created \subseteq Paths /\ modified \subseteq Paths /\ deleted \subseteq Paths
    /\ op \in [Tasks -> Call \cup {NoCall}]

(* Files no call is busy with, and only this run's calls have changed. *)
Settled == Files \ (Busy \cup rough)

(* What is new is listed as created, and what is gone as deleted. *)
Listed(p) ==
    /\ p \in disk \ before => p \in created
    /\ p \in before \ disk => p \in deleted

(***************************************************************************)
(* The report against the disk, for settled files and however the writes   *)
(* of several tasks interleave: it lists what is new and what is gone, but *)
(* for the files that were removed or moved with a directory above them;   *)
(* and what is listed as modified existed before the run, exists now, and  *)
(* is not gone in between.  The converse is not promised: recordWrite      *)
(* comes before a write that may fail, and Rename lists its target as      *)
(* created also when it replaced a file.                                   *)
(***************************************************************************)
ReportExact ==
    \A p \in Settled \ swept : Listed(p) /\ (p \in modified => p \in before \cap disk)

(***************************************************************************)
(* "records which files were created, modified, or deleted": no write of a *)
(* file reaches the disk unless it is in the report (or the write belongs  *)
(* to a run whose report was already reset), and within a run a path in    *)
(* the report stays in it, in one list or another, whatever calls overlap. *)
(***************************************************************************)
Reported == created \cup modified \cup deleted

NothingForgotten ==
    [][ /\ \A t \in Tasks : Write(t) /\ op[t].path \in Files => op[t].path \in Reported \cup rough
        /\ Reset \/ Reported \subseteq Reported' ]_ctvars

=============================================================================

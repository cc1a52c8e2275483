------------------------------- MODULE Checkpoint -------------------------------
(***************************************************************************)
(* Archives of a sandbox's root: Snapshot and Restore of fs/snapshot.go    *)
(* with the file that main.go keeps the archive in, and DownloadTar and    *)
(* UploadTar of sandbox.go, which walk and fill the root the same way.     *)
(* None of them is one step, and none of them stops the jobs a command     *)
(* left behind, so the root changes while they work on it.                 *)
(***************************************************************************)
EXTENDS Overlay, Sequences

CONSTANT TarOrder \* the entries in the order of WalkDir

ASSUME CheckpointAssumption ==
    /\ TarOrder \in Seq(Entries)
    /\ \A e \in Entries : \E i \in 1..Len(TarOrder) : TarOrder[i] = e
    /\ \A i, j \in 1..Len(TarOrder) : TarOrder[i] = TarOrder[j] => i = j

VARIABLES
    cp,      \* the call under way, its phase, and the next place in TarOrder
    taken,   \* what the walk has put into the archive
    archive, \* the archive file: what it holds, whose root it was made of, whether it was cut off
    touched  \* history: entries others changed or were busy with during the call

cpvars == <<cp, taken, archive, touched>>

Saving    == {"snapshot", "download"}
Restoring == {"restore", "upload"}

NoCheckpoint == [call |-> "none", at |-> "idle", i |-> 1]
NoArchive    == [has |-> {}, own |-> FALSE, cut |-> TRUE]

Archives == [has : SUBSET Entries, own : BOOLEAN, cut : BOOLEAN]

Ended == Len(TarOrder) + 1

(* The entries of es that come before place i. *)
UpTo(es, i) == {TarOrder[j] : j \in {k \in 1..(i - 1) : TarOrder[k] \in es}}

(* What the walk leaves out without a word: links out of the root, what it cannot list. *)
Skipped(e) == KindOf(e) \in {"wayout", "hidden"}

(* What it can copy; opening a fifo blocks, and opening a shut file fails. *)
Copied(e) == ~Skipped(e) /\ KindOf(e) \notin {"fifo", "shut"}

(* Links under the root hold an absolute path, which is outside of every other root. *)
LeadsOut(e) == KindOf(e) = "wayout" \/ (KindOf(e) = "link" /\ ~archive.own)

(* Restore takes a name at the root that begins with ".." for a way out of it. *)
RestoreRejects(e) == LeadsOut(e) \/ KindOf(e) = "dotdot"

UploadRejects(e) == LeadsOut(e)

(* The file may have been made of another sandbox's root, by a process that may have died *)
(* while it wrote it, or by another program; what nobody can copy it does not hold.         *)
ForeignArchives ==
    {a \in Archives : ~a.own /\ \A e \in a.has : KindOf(e) \notin {"fifo", "shut", "hidden"}}

CheckpointInit ==
    /\ cp = NoCheckpoint
    /\ taken = {} /\ touched = {}
    /\ archive \in {NoArchive} \cup ForeignArchives

Phase(at) == cp' = [cp EXCEPT !.at = at, !.i = 1]
Onward    == cp' = [cp EXCEPT !.i = @ + 1]
Here      == TarOrder[cp.i]

(* Others' changes of the root are noted while a call is under way. *)
Note == touched' = IF cp.at = "idle" THEN touched
                   ELSE touched \cup Busy \cup (tree \ tree') \cup (tree' \ tree)

-----------------------------------------------------------------------------
(* Snapshot and DownloadTar. *)

SaveBegin(call) ==
    /\ cp.at = "idle" /\ call \in Saving
    /\ cp' = [call |-> call, at |-> "visit", i |-> 1]
    /\ taken' = {} /\ touched' = Busy
    /\ UNCHANGED <<ovars, archive>>

Walks(call) == cp.call = call /\ cp.at = "visit" /\ cp.i < Ended

(* One entry of the walk.  Gone since its directory was listed, or new since then, it is left *)
(* out like one that is skipped.                                                                *)
TakeHere ==
    /\ \/ Here \in tree /\ Copied(Here) /\ taken' = taken \cup {Here}
       \/ taken' = taken /\ (Here \notin tree \/ Skipped(Here) \/ Here \in touched)
    /\ Onward
    /\ UNCHANGED <<ovars, archive, touched>>

(* Mutation: every link is left out of the archive. *)
VisitNoLinks ==
    /\ Walks("snapshot")
    /\ IF KindOf(Here) = "link"
       THEN Onward /\ UNCHANGED <<ovars, taken, archive, touched>>
       ELSE TakeHere

Visit == Walks("snapshot") /\ TakeHere

DownloadVisit == Walks("download") /\ TakeHere

(* Opening a fifo waits for a writer, which never comes. *)
VisitBlocks ==
    /\ Walks("snapshot") \/ Walks("download")
    /\ Here \in tree /\ KindOf(Here) = "fifo"
    /\ cp' = [cp EXCEPT !.at = "stuck"]
    /\ UNCHANGED <<ovars, taken, archive, touched>>

(* A file cannot be opened, or grows or shrinks while it is copied and does not fit its header. *)
VisitFails ==
    /\ Walks("snapshot") /\ Here \in tree
    /\ Here \in touched \/ KindOf(Here) = "shut"
    /\ cp' = NoCheckpoint
    /\ UNCHANGED <<ovars, taken, archive, touched>>

(* The same, or the caller's writer fails; the caller has what was written so far. *)
DownloadFails ==
    /\ Walks("download")
    /\ archive' = [has |-> taken, own |-> TRUE, cut |-> TRUE]
    /\ cp' = NoCheckpoint
    /\ UNCHANGED <<ovars, taken, touched>>

(* The archive of a snapshot is complete in memory and still to be saved. *)
VisitsDone ==
    /\ cp.call = "snapshot" /\ cp.at = "visit" /\ cp.i = Ended
    /\ Phase("save")
    /\ UNCHANGED <<ovars, taken, archive, touched>>

DownloadDone ==
    /\ cp.call = "download" /\ cp.at = "visit" /\ cp.i = Ended
    /\ archive' = [has |-> taken, own |-> TRUE, cut |-> FALSE]
    /\ cp' = NoCheckpoint
    /\ UNCHANGED <<ovars, taken, touched>>

SaveFile ==
    /\ cp.at = "save"
    /\ archive' = [has |-> taken, own |-> TRUE, cut |-> FALSE]
    /\ cp' = NoCheckpoint
    /\ UNCHANGED <<ovars, taken, touched>>

(* WriteFile truncates the file first: a write that fails, or a process that dies in it, *)
(* leaves a part of the new archive and nothing of the old.                               *)
CutFile == \E i \in 1..Len(TarOrder) : archive' = [has |-> UpTo(taken, i), own |-> TRUE, cut |-> TRUE]

SaveFileFails ==
    /\ cp.at = "save"
    /\ CutFile
    /\ cp' = NoCheckpoint
    /\ UNCHANGED <<ovars, taken, touched>>

-----------------------------------------------------------------------------
(* Restore and UploadTar. *)

Uses(call, phase) ==
    /\ cp.at = "idle"
    /\ cp' = [call |-> call, at |-> phase, i |-> 1]
    /\ touched' = Busy
    /\ UNCHANGED <<ovars, taken, archive>>

(* Mutation: Restore does not wipe the root. *)
RestoreBeginUnwiped == Uses("restore", "fill")

RestoreBegin == Uses("restore", "wipe")

UploadBegin == Uses("upload", "fill")

(* What came after its directory was listed may stay; RemoveAll goes on after a failure. *)
Wipe ==
    /\ cp.at = "wipe" /\ cp.i < Ended
    /\ TreeBecomes(tree \ {Here}) \/ ((Here \in touched \/ Stays(Here)) /\ TreeBecomes(tree))
    /\ Onward
    /\ UNCHANGED <<taken, archive, touched>>

(* A job is in the way, or an entry cannot be removed. *)
WipeFails ==
    /\ cp.at = "wipe" /\ (touched # {} \/ \E e \in tree : Stays(e))
    /\ cp' = NoCheckpoint
    /\ UNCHANGED <<ovars, taken, archive, touched>>

WipeDone ==
    /\ cp.at = "wipe" /\ cp.i = Ended
    /\ \A e \in tree : Stays(e) => e \in touched
    /\ Phase("fill")
    /\ UNCHANGED <<ovars, taken, archive, touched>>

Fills(call) == cp.call = call /\ cp.at = "fill" /\ cp.i < Ended

PutHere ==
    /\ TreeBecomes(IF Here \in archive.has THEN tree \cup {Here} ELSE tree)
    /\ Onward
    /\ UNCHANGED <<taken, archive, touched>>

Fill == Fills("restore") /\ ~(Here \in archive.has /\ RestoreRejects(Here)) /\ PutHere

UploadFill == Fills("upload") /\ ~(Here \in archive.has /\ UploadRejects(Here)) /\ PutHere

(* The error is returned, and the root stays as it is. *)
GivesUp == cp' = NoCheckpoint /\ UNCHANGED <<ovars, taken, archive, touched>>

(* An entry is rejected, its directory was made with the mode it had, or a job is in the way. *)
FillFails ==
    /\ Fills("restore") /\ Here \in archive.has
    /\ RestoreRejects(Here) \/ Stays(Here) \/ Here \in touched
    /\ GivesUp

UploadFails ==
    /\ Fills("upload") /\ Here \in archive.has
    /\ UploadRejects(Here) \/ Stays(Here) \/ Here \in touched
    /\ GivesUp

(* The file ends in the middle of an entry. *)
ReadFails ==
    /\ cp.at = "fill" /\ cp.i = Ended /\ archive.cut
    /\ GivesUp

(* A file cut off between two entries reads like a complete one. *)
FillDone ==
    /\ cp.at = "fill" /\ cp.i = Ended
    /\ cp' = NoCheckpoint
    /\ UNCHANGED <<ovars, taken, archive, touched>>

CheckpointStep ==
    \/ Visit \/ VisitBlocks \/ VisitFails \/ VisitsDone \/ SaveFile \/ SaveFileFails
    \/ DownloadVisit \/ DownloadFails \/ DownloadDone
    \/ Wipe \/ WipeFails \/ WipeDone \/ Fill \/ FillFails
    \/ UploadFill \/ UploadFails \/ ReadFails \/ FillDone

CheckpointBegin == RestoreBegin \/ UploadBegin \/ \E call \in Saving : SaveBegin(call)

(* The rest of the process while the call is under way. *)
Others == OverlayNext /\ Note /\ UNCHANGED <<cp, taken, archive>>

CheckpointSpec ==
    OverlayInit /\ CheckpointInit /\ [][CheckpointBegin \/ CheckpointStep \/ Others]_<<ovars, cpvars>>

-----------------------------------------------------------------------------
(* Properties. *)

(* Every variable has its type. *)
CheckpointTypeOK ==
    /\ cp \in [call : Saving \cup Restoring, at : {"visit", "stuck", "save", "wipe", "fill"}, i : 1..Ended]
                  \cup {NoCheckpoint}
    /\ taken \subseteq Entries /\ touched \subseteq Entries
    /\ archive \in Archives

(***************************************************************************)
(* Snapshot "serialises the contents of lfs.Root()": a complete archive    *)
(* holds the entries under the root, links among them, but the links that  *)
(* lead out of it and what cannot be listed, up to entries somebody        *)
(* changed during the walk; what cannot be copied keeps it from completing.*)
(***************************************************************************)
Completes(at) == cp.at = at /\ cp'.at = "idle"

FaithfulSave ==
    cp.call \in Saving /\ Completes(cp.at) /\ ~archive'.cut /\ archive' # archive =>
        /\ archive'.has \ touched = {e \in tree : Copied(e)} \ touched
        /\ \A e \in tree \ touched : Copied(e) \/ Skipped(e)

SavedFaithful == [][FaithfulSave]_<<ovars, cpvars>>

(***************************************************************************)
(* Restore "wipes the contents of lfs.Root() and repopulates it": when it  *)
(* reports no error and the file was not cut off, the root holds exactly   *)
(* what the archive does, up to entries somebody else changed meanwhile;   *)
(* an upload adds what the archive holds.                                  *)
(***************************************************************************)
FaithfulRestore ==
    FillDone /\ ~archive.cut =>
        /\ archive.has \subseteq tree \cup touched
        /\ cp.call = "restore" => tree \subseteq archive.has \cup touched

RestoredFaithful == [][FaithfulRestore]_<<ovars, cpvars>>

=============================================================================

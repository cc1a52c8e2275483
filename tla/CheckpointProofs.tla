----------------------------- MODULE CheckpointProofs -----------------------------
(***************************************************************************)
(* Theorems about the archives of a root of any size, made and restored    *)
(* while jobs go on changing it: what is saved and what is restored is     *)
(* faithful up to the entries that somebody touched during the call.       *)
(***************************************************************************)
EXTENDS Checkpoint, OverlayProofs

LEMMA Order ==
  /\ Len(TarOrder) \in Nat /\ Ended = Len(TarOrder) + 1
  /\ \A i \in 1..Len(TarOrder) : TarOrder[i] \in Entries
  /\ \A e \in Entries : \E i \in 1..Len(TarOrder) : TarOrder[i] = e
  /\ \A i, j \in 1..Len(TarOrder) : TarOrder[i] = TarOrder[j] => i = j
  <1>1. TarOrder \in Seq(Entries)
    BY CheckpointAssumption DEF CheckpointAssumption
  <1>2. Len(TarOrder) \in Nat /\ \A i \in 1..Len(TarOrder) : TarOrder[i] \in Entries
    BY <1>1
  <1>3. QED
    BY <1>2, CheckpointAssumption DEF CheckpointAssumption, Ended

-----------------------------------------------------------------------------
(* Types. *)

Phases == {"visit", "stuck", "save", "wipe", "fill"}

CallTypeOK == cp \in [call : Saving \cup Restoring, at : Phases, i : 1..Ended] \cup {NoCheckpoint}

SetsTypeOK == taken \subseteq Entries /\ touched \subseteq Entries /\ archive \in Archives

LEMMA CheckpointParts == CheckpointTypeOK <=> CallTypeOK /\ SetsTypeOK
  BY Zenon DEF CheckpointTypeOK, CallTypeOK, SetsTypeOK, Phases

LEMMA CheckpointPartsNext == CallTypeOK' /\ SetsTypeOK' => CheckpointTypeOK'
  BY Zenon DEF CheckpointTypeOK, CallTypeOK, SetsTypeOK, Phases

LEMMA CheckpointTypeInit == CheckpointInit => CheckpointTypeOK
  <1>1. NoArchive \in Archives
    BY DEF NoArchive, Archives
  <1>2. QED
    BY <1>1 DEF CheckpointInit, CheckpointTypeOK, ForeignArchives

(* The call while it goes on. *)
LEMMA CallStep ==
  ASSUME CallTypeOK, cp.at # "idle"
  PROVE  /\ cp.call \in Saving \cup Restoring /\ cp.at \in Phases /\ cp.i \in 1..Ended /\ cp.i \in Nat
         /\ Onward => cp'.call = cp.call /\ cp'.at = cp.at /\ cp'.i = cp.i + 1
         /\ \A at : Phase(at) => cp'.call = cp.call /\ cp'.at = at /\ cp'.i = 1
         /\ Onward /\ cp.i < Ended => CallTypeOK'
         /\ \A at \in Phases : Phase(at) => CallTypeOK'
         /\ cp' = [cp EXCEPT !.at = "stuck"] => CallTypeOK' /\ cp'.call = cp.call /\ cp'.at = "stuck"
  <1>1. cp \in [call : Saving \cup Restoring, at : Phases, i : 1..Ended] /\ Ended \in Nat /\ Ended >= 1
    BY Order DEF CallTypeOK, NoCheckpoint
  <1>2. cp.i \in 1..Ended /\ cp.i \in Nat
    BY <1>1
  <1>3. ASSUME Onward
        PROVE  /\ cp'.call = cp.call /\ cp'.at = cp.at /\ cp'.i = cp.i + 1
               /\ cp.i < Ended => CallTypeOK'
    BY <1>1, <1>2, <1>3 DEF Onward, CallTypeOK
  <1>4. ASSUME NEW at, Phase(at)
        PROVE  cp'.call = cp.call /\ cp'.at = at /\ cp'.i = 1 /\ (at \in Phases => CallTypeOK')
    <2>1. cp'.call = cp.call /\ cp'.at = at /\ cp'.i = 1
      BY <1>1, <1>4 DEF Phase
    <2>2. ASSUME at \in Phases
          PROVE  CallTypeOK'
      <3>1. 1 \in 1..Ended
        BY <1>1
      <3>2. cp' \in [call : Saving \cup Restoring, at : Phases, i : 1..Ended]
        BY <1>1, <1>4, <2>2, <3>1 DEF Phase
      <3>3. QED
        BY <3>2 DEF CallTypeOK
    <2>3. QED
      BY <2>1, <2>2
  <1>5. ASSUME cp' = [cp EXCEPT !.at = "stuck"]
        PROVE  CallTypeOK' /\ cp'.call = cp.call /\ cp'.at = "stuck"
    BY <1>1, <1>5 DEF CallTypeOK, Phases
  <1>6. QED
    BY <1>1, <1>2, <1>3, <1>4, <1>5

(* What the files are does not change. *)
KindsStay ==
    \A e : (Copied(e)' <=> Copied(e)) /\ (Skipped(e)' <=> Skipped(e)) /\ (Stays(e)' <=> Stays(e))

LEMMA KindSame ==
  ASSUME UNCHANGED kind
  PROVE  KindsStay
  BY DEF KindsStay, Copied, Skipped, Stays, KindOf

LEMMA KindKept ==
  ASSUME OverlayNext \/ UNCHANGED ovars
  PROVE  UNCHANGED kind
  <1>1. CASE OtherDownload \/ ResetRoot \/ AnyChange \/ UNCHANGED ovars
    BY <1>1 DEF OtherDownload, ResetRoot, AnyChange, TreeBecomes, ovars
  <1>2. ASSUME NEW t \in Tasks, Begin(t)
        PROVE  UNCHANGED kind
    BY <1>2 DEF Begin, PipInstall, PipUninstall, AptInstall, AptRemove, Ln
  <1>3. ASSUME NEW t \in Tasks, Advance(t)
        PROVE  UNCHANGED kind
    BY <1>3 DEF Advance, PipChildWrites, PipChildDone, PipChildFails, PipRecord, PipRemoves, PipRemoveDone, PipForget,
       AptLock, AptDownload, AptDownloadDone, AptDownloadFails, AptGlob, AptExtract, AptExtractFails, AptRecord,
       AptUnlock, LnLink
  <1>4. QED
    BY <1>1, <1>2, <1>3 DEF OverlayNext

(* What a call has already visited, saved, wiped or filled. *)
Held(e) ==
    e \notin touched =>
        /\ e \in taken <=> e \in tree /\ Copied(e)
        /\ e \in tree => Copied(e) \/ Skipped(e)

Visited(j) == Held(TarOrder[j])

Walked ==
    cp.at = "visit" =>
        /\ cp.call \in Saving
        /\ \A j \in 1..(cp.i - 1) : Visited(j)
        /\ \A j \in cp.i..Len(TarOrder) : TarOrder[j] \notin taken

ToSave ==
    cp.at = "save" =>
        /\ cp.call = "snapshot"
        /\ \A e \in Entries : Held(e)

Wiped ==
    cp.at = "wipe" =>
        /\ cp.call = "restore"
        /\ \A j \in 1..(cp.i - 1) : TarOrder[j] \in tree => TarOrder[j] \in touched \/ Stays(TarOrder[j])

Filled ==
    cp.at = "fill" =>
        /\ cp.call \in Restoring
        /\ \A j \in 1..(cp.i - 1) : TarOrder[j] \in archive.has => TarOrder[j] \in tree \cup touched
        /\ cp.call = "restore" => tree \subseteq archive.has \cup touched
        /\ cp.call = "restore" => \A j \in cp.i..Len(TarOrder) : TarOrder[j] \in tree => TarOrder[j] \in touched

CpInv == Walked /\ ToSave /\ Wiped /\ Filled

LEMMA CpIdle ==
  ASSUME cp'.at \in {"idle", "stuck"}
  PROVE  CpInv'
  BY DEF CpInv, Walked, ToSave, Wiped, Filled

(* Others change the root under a call, and every change is noted. *)
LEMMA CpOthers ==
  ASSUME CheckpointTypeOK, OverlayTypeOK, OverlayTypeOK', CpInv, Note, UNCHANGED <<cp, taken, archive, kind>>
  PROVE  CheckpointTypeOK' /\ CpInv'
  <1>1. CASE cp.at = "idle"
    <2>1. UNCHANGED touched
      BY <1>1 DEF Note
    <2>2. CheckpointTypeOK'
      BY <2>1 DEF CheckpointTypeOK
    <2>3. QED
      BY <1>1, <2>2, CpIdle
  <1>2. CASE cp.at # "idle"
    <2>1. touched' = touched \cup Busy \cup (tree \ tree') \cup (tree' \ tree)
      BY <1>2 DEF Note
    <2>2. CheckpointTypeOK'
      <3>1. touched' \subseteq Entries
        BY <2>1, BusyIsEntries DEF OverlayTypeOK, CheckpointTypeOK
      <3>2. QED
        BY <3>1 DEF CheckpointTypeOK
    <2>3. /\ touched \subseteq touched'
          /\ \A e : e \notin touched' => (e \in tree' <=> e \in tree)
          /\ KindsStay
      BY <2>1, KindSame
    <2>4. \A e : Held(e) => Held(e)'
      BY <2>3 DEF Held, KindsStay
    <2>5. Walked' /\ ToSave' /\ Wiped'
      BY <2>3, <2>4 DEF CpInv, Walked, ToSave, Wiped, Visited, KindsStay
    <2>6. Filled'
      BY <2>3 DEF CpInv, Filled
    <2>7. QED
      BY <2>2, <2>5, <2>6 DEF CpInv
  <1>3. QED
    BY <1>1, <1>2

(* A call begins. *)
LEMMA CpBegin ==
  ASSUME CheckpointTypeOK, OverlayTypeOK, CheckpointBegin
  PROVE  CheckpointTypeOK' /\ CpInv'
  <1>1. Busy \subseteq Entries /\ Ended \in Nat /\ 1 \in 1..Ended
    BY BusyIsEntries, Order
  <1>2. ASSUME NEW call \in Saving, SaveBegin(call)
        PROVE  CheckpointTypeOK' /\ CpInv'
    <2>1. cp' = [call |-> call, at |-> "visit", i |-> 1] /\ taken' = {} /\ touched' = Busy /\ UNCHANGED archive
      BY <1>2 DEF SaveBegin
    <2>2. CheckpointTypeOK'
      BY <1>1, <2>1 DEF CheckpointTypeOK
    <2>3. CpInv'
      BY <1>1, <2>1 DEF CpInv, Walked, ToSave, Wiped, Filled
    <2>4. QED
      BY <2>2, <2>3
  <1>3. ASSUME NEW call \in Restoring, NEW phase \in {"wipe", "fill"}, Uses(call, phase),
               phase = "wipe" <=> call = "restore"
        PROVE  CheckpointTypeOK' /\ CpInv'
    <2>1. cp' = [call |-> call, at |-> phase, i |-> 1] /\ touched' = Busy /\ UNCHANGED <<ovars, taken, archive>>
      BY <1>3 DEF Uses
    <2>2. CheckpointTypeOK'
      BY <1>1, <2>1 DEF CheckpointTypeOK
    <2>3. CpInv'
      BY <1>1, <1>3, <2>1 DEF CpInv, Walked, ToSave, Wiped, Filled, Restoring
    <2>4. QED
      BY <2>2, <2>3
  <1>4. QED
    BY <1>2, <1>3 DEF CheckpointBegin, RestoreBegin, UploadBegin, Restoring

(* The walk takes an entry that is there, and may miss one that others touch. *)
LEMMA CpTake ==
  ASSUME CheckpointTypeOK, OverlayTypeOK, CpInv, Walks("snapshot") \/ Walks("download"), TakeHere
  PROVE  CheckpointTypeOK' /\ CpInv'
  <1>1. CallTypeOK /\ SetsTypeOK
    BY CheckpointParts
  <1>2. cp.at = "visit" /\ cp.i < Ended /\ cp.i \in 1..Len(TarOrder) /\ cp.i \in Nat
    BY <1>1, CallStep, Order DEF Walks
  <1>3. /\ CallTypeOK' /\ cp'.call = cp.call /\ cp'.at = "visit" /\ cp'.i = cp.i + 1
        /\ UNCHANGED <<tree, archive, touched>> /\ KindsStay
    BY <1>1, <1>2, CallStep, KindSame DEF TakeHere, ovars
  <1>4. Here \in Entries /\ Here = TarOrder[cp.i]
    BY <1>2, Order DEF Here
  <1>5. taken' = taken \/ taken' = taken \cup {Here}
    BY DEF TakeHere
  <1>6. SetsTypeOK'
    BY <1>1, <1>3, <1>4, <1>5 DEF SetsTypeOK
  <1>7. Here \notin taken
    BY <1>2, <1>4 DEF CpInv, Walked
  <1>8. Here \notin touched =>
           /\ Here \in taken' <=> Here \in tree /\ Copied(Here)
           /\ Here \in tree => Copied(Here) \/ Skipped(Here)
    BY <1>7 DEF TakeHere, Copied
  <1>9. \A j \in 1..Len(TarOrder) : j # cp.i => (TarOrder[j] \in taken' <=> TarOrder[j] \in taken)
    BY <1>2, <1>4, <1>5, Order
  <1>10. \A j \in 1..(cp'.i - 1) : Visited(j)'
    <2> SUFFICES ASSUME NEW j \in 1..(cp'.i - 1)
                 PROVE  Visited(j)'
      OBVIOUS
    <2>1. j \in 1..Len(TarOrder) /\ (j = cp.i \/ j \in 1..(cp.i - 1))
      BY <1>2, <1>3, Order
    <2>2. CASE j = cp.i
      BY <1>3, <1>4, <1>8, <2>2 DEF Visited, Held, KindsStay
    <2>3. CASE j # cp.i
      <3>1. Visited(j)
        BY <1>2, <2>1, <2>3 DEF CpInv, Walked
      <3>2. QED
        BY <1>3, <1>9, <2>1, <2>3, <3>1 DEF Visited, Held, KindsStay
    <2>4. QED
      BY <2>2, <2>3
  <1>11. \A j \in cp'.i..Len(TarOrder) : TarOrder[j] \notin taken'
    <2> SUFFICES ASSUME NEW j \in cp'.i..Len(TarOrder)
                 PROVE  TarOrder[j] \notin taken'
      OBVIOUS
    <2>1. j \in cp.i..Len(TarOrder) /\ j \in 1..Len(TarOrder) /\ j # cp.i
      BY <1>2, <1>3, Order
    <2>2. TarOrder[j] \notin taken
      BY <1>2, <2>1 DEF CpInv, Walked
    <2>3. QED
      BY <1>9, <2>1, <2>2
  <1>12. CpInv'
    BY <1>2, <1>3, <1>10, <1>11 DEF CpInv, Walked, ToSave, Wiped, Filled
  <1>13. QED
    BY <1>3, <1>6, <1>12, CheckpointPartsNext

(* At the end of a walk everything has been visited. *)
LEMMA WalkEnds ==
  ASSUME CpInv, cp.at = "visit", cp.i = Ended
  PROVE  \A e \in Entries : Held(e)
  <1>1. \A j \in 1..Len(TarOrder) : Visited(j)
    BY Order DEF CpInv, Walked
  <1>2. QED
    BY <1>1, Order DEF Visited

LEMMA CpSaves ==
  ASSUME CheckpointTypeOK, OverlayTypeOK, CpInv,
         VisitBlocks \/ VisitFails \/ DownloadFails \/ VisitsDone \/ DownloadDone \/ SaveFile
  PROVE  CheckpointTypeOK' /\ CpInv'
  <1>1. CallTypeOK /\ SetsTypeOK /\ NoCheckpoint.at = "idle"
    BY CheckpointParts DEF NoCheckpoint
  <1>2. CASE VisitBlocks
    <2>1. cp.at # "idle" /\ cp' = [cp EXCEPT !.at = "stuck"] /\ UNCHANGED <<taken, archive, touched>>
      BY <1>2 DEF VisitBlocks, Walks
    <2>2. CallTypeOK' /\ cp'.at = "stuck"
      BY <1>1, <2>1, CallStep
    <2>3. SetsTypeOK'
      BY <1>1, <2>1 DEF SetsTypeOK
    <2>4. QED
      BY <2>2, <2>3, CpIdle, CheckpointPartsNext
  <1>3. CASE VisitFails
    <2>1. cp' = NoCheckpoint /\ UNCHANGED <<taken, archive, touched>>
      BY <1>3 DEF VisitFails
    <2>2. CheckpointTypeOK'
      BY <1>1, <2>1, CheckpointPartsNext DEF CallTypeOK, SetsTypeOK
    <2>3. QED
      BY <1>1, <2>1, <2>2, CpIdle
  <1>4. CASE DownloadFails \/ DownloadDone \/ SaveFile
    <2>1. /\ cp' = NoCheckpoint /\ UNCHANGED <<taken, touched>>
          /\ \E c \in BOOLEAN : archive' = [has |-> taken, own |-> TRUE, cut |-> c]
      BY <1>4 DEF DownloadFails, DownloadDone, SaveFile
    <2>2. archive' \in Archives
      BY <1>1, <2>1 DEF SetsTypeOK, Archives
    <2>3. CheckpointTypeOK'
      BY <1>1, <2>1, <2>2, CheckpointPartsNext DEF CallTypeOK, SetsTypeOK
    <2>4. QED
      BY <1>1, <2>1, <2>3, CpIdle
  <1>5. CASE VisitsDone
    <2>1. cp.at = "visit" /\ cp.i = Ended /\ cp.call = "snapshot" /\ Phase("save")
          /\ UNCHANGED <<tree, taken, archive, touched>> /\ KindsStay
      BY <1>5, KindSame DEF VisitsDone, ovars
    <2>2. CallTypeOK' /\ cp'.call = "snapshot" /\ cp'.at = "save"
      BY <1>1, <2>1, CallStep DEF Phases
    <2>3. SetsTypeOK'
      BY <1>1, <2>1 DEF SetsTypeOK
    <2>4. CpInv'
      BY <2>1, <2>2, WalkEnds DEF CpInv, Walked, ToSave, Wiped, Filled, Held, KindsStay
    <2>5. QED
      BY <2>2, <2>3, <2>4, CheckpointPartsNext
  <1>6. QED
    BY <1>2, <1>3, <1>4, <1>5

(* The archive file is cut off: by a failed write, or with its process. *)
LEMMA CutTypes ==
  ASSUME SetsTypeOK, CutFile
  PROVE  archive' \in Archives /\ archive'.cut
  <1>1. PICK i \in 1..Len(TarOrder) : archive' = [has |-> UpTo(taken, i), own |-> TRUE, cut |-> TRUE]
    BY DEF CutFile
  <1>2. UpTo(taken, i) \subseteq taken
    BY DEF UpTo
  <1>3. archive' \in [has : SUBSET Entries, own : {TRUE}, cut : {TRUE}]
    BY <1>1, <1>2 DEF SetsTypeOK
  <1>4. QED
    BY <1>3 DEF Archives

LEMMA CpCut ==
  ASSUME CheckpointTypeOK, CpInv, cp.at = "save", CutFile, UNCHANGED <<tree, kind, taken, touched>>,
         cp' = NoCheckpoint \/ UNCHANGED cp
  PROVE  CheckpointTypeOK' /\ CpInv'
  <1>1. CallTypeOK /\ SetsTypeOK
    BY CheckpointParts
  <1>2. CallTypeOK' /\ SetsTypeOK'
    BY <1>1, CutTypes DEF CallTypeOK, SetsTypeOK
  <1>3. CpInv'
    <2>1. CASE UNCHANGED cp
      BY <2>1, KindSame DEF CpInv, Walked, ToSave, Wiped, Filled, Visited, Held, KindsStay
    <2>2. CASE cp' = NoCheckpoint
      BY <2>2, CpIdle DEF NoCheckpoint
    <2>3. QED
      BY <2>1, <2>2
  <1>4. QED
    BY <1>2, <1>3, CheckpointPartsNext
(* The root is emptied up to what others touch. *)
LEMMA CpWipe ==
  ASSUME CheckpointTypeOK, OverlayTypeOK, CpInv, Wipe \/ WipeDone
  PROVE  CheckpointTypeOK' /\ CpInv'
  <1>1. CallTypeOK /\ SetsTypeOK /\ cp.at = "wipe" /\ cp.call = "restore" /\ UNCHANGED <<taken, archive, touched>>
        /\ KindsStay
    BY CheckpointParts, KindSame DEF CpInv, Wiped, Wipe, WipeDone, TreeBecomes, ovars
  <1>2. SetsTypeOK'
    BY <1>1 DEF SetsTypeOK
  <1>3. CASE Wipe
    <2>1. cp.i \in 1..Len(TarOrder) /\ cp.i < Ended /\ cp.i \in Nat /\ Onward
      BY <1>1, <1>3, CallStep, Order DEF Wipe
    <2>2. CallTypeOK' /\ cp'.call = "restore" /\ cp'.at = "wipe" /\ cp'.i = cp.i + 1
      BY <1>1, <2>1, CallStep
    <2>3. tree' \subseteq tree /\ (Here \in tree' => Here \in touched \/ Stays(Here))
      BY <1>3 DEF Wipe, TreeBecomes
    <2>4. ASSUME NEW j \in 1..(cp'.i - 1), TarOrder[j] \in tree'
          PROVE  TarOrder[j] \in touched \/ Stays(TarOrder[j])
      <3>1. CASE j = cp.i
        BY <2>3, <2>4, <3>1 DEF Here
      <3>2. CASE j # cp.i
        <4>1. j \in 1..(cp.i - 1)
          BY <2>1, <2>2, <3>2
        <4>2. QED
          BY <1>1, <2>3, <2>4, <4>1 DEF CpInv, Wiped
      <3>3. QED
        BY <3>1, <3>2
    <2>5. CpInv'
      BY <1>1, <2>2, <2>4 DEF CpInv, Walked, ToSave, Wiped, Filled, KindsStay
    <2>6. QED
      BY <1>2, <2>2, <2>5, CheckpointPartsNext
  <1>4. CASE WipeDone
    <2>1. cp.i = Ended /\ Phase("fill") /\ UNCHANGED tree /\ \A e \in tree : Stays(e) => e \in touched
      BY <1>4 DEF WipeDone, ovars
    <2>2. CallTypeOK' /\ cp'.call = "restore" /\ cp'.at = "fill" /\ cp'.i = 1
      BY <1>1, <2>1, CallStep DEF Phases
    <2>3. \A e \in Entries : e \in tree => e \in touched
      BY <1>1, <2>1, Order DEF CpInv, Wiped
    <2>4. tree' \subseteq archive'.has \cup touched'
      BY <1>1, <2>1, <2>3 DEF OverlayTypeOK
    <2>5. \A j \in cp'.i..Len(TarOrder) : TarOrder[j] \in tree' => TarOrder[j] \in touched'
      BY <1>1, <2>1, <2>2, <2>3, Order
    <2>6. CpInv'
      BY <2>2, <2>4, <2>5 DEF CpInv, Walked, ToSave, Wiped, Filled, Restoring
    <2>7. QED
      BY <1>2, <2>2, <2>6, CheckpointPartsNext
  <1>5. QED
    BY <1>3, <1>4

(* The root is filled with what the archive holds. *)
LEMMA CpFill ==
  ASSUME CheckpointTypeOK, OverlayTypeOK, CpInv, Fill \/ UploadFill
  PROVE  CheckpointTypeOK' /\ CpInv'
  <1>1. CallTypeOK /\ SetsTypeOK /\ cp.at = "fill" /\ cp.i < Ended /\ Onward /\ UNCHANGED <<taken, archive, touched>>
    BY CheckpointParts DEF Fill, UploadFill, Fills, PutHere
  <1>2. SetsTypeOK'
    BY <1>1 DEF SetsTypeOK
  <1>3. cp.i \in 1..Len(TarOrder) /\ cp.i \in Nat
    BY <1>1, CallStep, Order
  <1>4. CallTypeOK' /\ cp'.call = cp.call /\ cp'.at = "fill" /\ cp'.i = cp.i + 1
    BY <1>1, CallStep
  <1>5. tree' = IF Here \in archive.has THEN tree \cup {Here} ELSE tree
    BY DEF Fill, UploadFill, PutHere, TreeBecomes
  <1>6. ASSUME NEW j \in 1..(cp'.i - 1), TarOrder[j] \in archive.has
        PROVE  TarOrder[j] \in tree' \cup touched
    <2>1. CASE j = cp.i
      BY <1>5, <1>6, <2>1 DEF Here
    <2>2. CASE j # cp.i
      <3>1. j \in 1..(cp.i - 1)
        BY <1>3, <1>4, <2>2
      <3>2. TarOrder[j] \in tree \cup touched
        BY <1>1, <1>6, <3>1 DEF CpInv, Filled
      <3>3. QED
        BY <1>5, <3>2
    <2>3. QED
      BY <2>1, <2>2
  <1>7. cp.call = "restore" => tree' \subseteq archive.has \cup touched
    BY <1>1, <1>5 DEF CpInv, Filled
  <1>8. ASSUME cp.call = "restore", NEW j \in cp'.i..Len(TarOrder), TarOrder[j] \in tree'
        PROVE  TarOrder[j] \in touched
    <2>1. j \in cp.i..Len(TarOrder) /\ j \in 1..Len(TarOrder) /\ j # cp.i
      BY <1>3, <1>4, <1>8, Order
    <2>2. TarOrder[j] # Here
      BY <1>3, <2>1, Order DEF Here
    <2>3. TarOrder[j] \in tree
      BY <1>5, <1>8, <2>2
    <2>4. QED
      BY <1>1, <1>8, <2>1, <2>3 DEF CpInv, Filled
  <1>9. CpInv'
    BY <1>1, <1>4, <1>6, <1>7, <1>8 DEF CpInv, Walked, ToSave, Wiped, Filled
  <1>10. QED
    BY <1>2, <1>4, <1>9, CheckpointPartsNext

LEMMA CpGivesUp ==
  ASSUME CheckpointTypeOK, WipeFails \/ FillFails \/ UploadFails \/ ReadFails \/ FillDone
  PROVE  CheckpointTypeOK' /\ CpInv'
  <1>1. cp' = NoCheckpoint /\ UNCHANGED <<taken, archive, touched>>
    BY DEF WipeFails, FillFails, UploadFails, ReadFails, FillDone, GivesUp
  <1>2. CheckpointTypeOK'
    BY <1>1 DEF CheckpointTypeOK
  <1>3. QED
    BY <1>1, <1>2, CpIdle DEF NoCheckpoint

LEMMA CpStep ==
  ASSUME CheckpointTypeOK, OverlayTypeOK, CpInv, CheckpointStep
  PROVE  CheckpointTypeOK' /\ CpInv'
  <1>1. CASE Visit \/ DownloadVisit
    BY <1>1, CpTake DEF Visit, DownloadVisit
  <1>2. CASE SaveFileFails
    BY <1>2, CpCut DEF SaveFileFails, ovars
  <1>3. QED
    BY <1>1, <1>2, CpSaves, CpWipe, CpFill, CpGivesUp DEF CheckpointStep

(* What the calls do to the root is a change of files like any other. *)
LEMMA CheckpointOverlay ==
  ASSUME OverlayTypeOK, SetsTypeOK, CallTypeOK, CheckpointBegin \/ CheckpointStep
  PROVE  OverlayNext \/ UNCHANGED ovars
  <1>1. \A new \in SUBSET Entries : TreeBecomes(new) => OverlayNext
    BY DEF OverlayNext, AnyChange
  <1>2. CASE Wipe
    <2>1. tree \subseteq Entries /\ (TreeBecomes(tree \ {Here}) \/ TreeBecomes(tree))
      BY <1>2 DEF Wipe, OverlayTypeOK
    <2>2. QED
      BY <1>1, <2>1
  <1>3. CASE Fill \/ UploadFill
    <2>1. tree \subseteq Entries /\ archive.has \subseteq Entries
      BY DEF OverlayTypeOK, SetsTypeOK, Archives
    <2>2. TreeBecomes(tree) \/ (Here \in archive.has /\ TreeBecomes(tree \cup {Here}))
      BY <1>3, Zenon DEF Fill, UploadFill, PutHere
    <2>3. QED
      BY <1>1, <2>1, <2>2
  <1>4. CASE CheckpointBegin
    BY <1>4 DEF CheckpointBegin, RestoreBegin, UploadBegin, SaveBegin, Uses
  <1>5. CASE CheckpointStep /\ ~Wipe /\ ~Fill /\ ~UploadFill
    BY <1>5 DEF CheckpointStep, Visit, VisitBlocks, VisitFails, VisitsDone, SaveFile, SaveFileFails,
       DownloadVisit, DownloadFails, DownloadDone, TakeHere, WipeFails, WipeDone, FillFails, UploadFails,
       ReadFails, FillDone, GivesUp
  <1>6. QED
    BY <1>2, <1>3, <1>4, <1>5
-----------------------------------------------------------------------------
(* What a call has done when it ends.  The process around it may do anything that leaves *)
(* the call alone.                                                                         *)

Around == CheckpointBegin \/ CheckpointStep \/ UNCHANGED cp

(* A call that ends is a step of its own. *)
LEMMA EndIsOwn ==
  ASSUME CallTypeOK, Around, cp'.at = "idle", cp.at # "idle"
  PROVE  CheckpointStep
  BY DEF Around, CheckpointBegin, RestoreBegin, UploadBegin, SaveBegin, Uses

LEMMA SaveEnds ==
  ASSUME CheckpointTypeOK, OverlayTypeOK, CpInv, Around
  PROVE  FaithfulSave
  <1> SUFFICES ASSUME cp.call \in Saving, cp'.at = "idle", ~archive'.cut, archive' # archive
               PROVE  /\ archive'.has \ touched = {e \in tree : Copied(e)} \ touched
                      /\ \A e \in tree \ touched : Copied(e) \/ Skipped(e)
    BY DEF FaithfulSave, Completes
  <1>1. CallTypeOK /\ SetsTypeOK
    BY CheckpointParts
  <1>2. cp.at # "idle"
    BY <1>1 DEF CallTypeOK, NoCheckpoint, Saving, Phases
  <1>3. CheckpointStep
    BY <1>1, <1>2, EndIsOwn
  <1>4. ~SaveFileFails
    BY <1>1, CutTypes DEF SaveFileFails
  <1>5. DownloadDone \/ SaveFile
    <2>1. ~DownloadFails
      BY DEF DownloadFails
    <2>2. QED
      BY <1>3, <1>4, <2>1 DEF CheckpointStep, Visit, VisitBlocks, VisitFails, VisitsDone, DownloadVisit, TakeHere,
         Wipe, WipeFails, WipeDone, Fill, FillFails, UploadFill, UploadFails, PutHere, ReadFails, FillDone, GivesUp
  <1>6. archive'.has = taken
    BY <1>5 DEF DownloadDone, SaveFile
  <1>7. \A e \in Entries : Held(e)
    BY <1>5, WalkEnds DEF DownloadDone, SaveFile, CpInv, ToSave
  <1>8. QED
    BY <1>1, <1>6, <1>7 DEF SetsTypeOK, OverlayTypeOK, Held

LEMMA RestoreEnds ==
  ASSUME CheckpointTypeOK, OverlayTypeOK, CpInv
  PROVE  FaithfulRestore
  <1> SUFFICES ASSUME FillDone
               PROVE  /\ archive.has \subseteq tree \cup touched
                      /\ cp.call = "restore" => tree \subseteq archive.has \cup touched
    BY DEF FaithfulRestore
  <1>1. cp.at = "fill" /\ cp.i = Ended
    BY DEF FillDone
  <1>2. archive.has \subseteq Entries
    BY DEF CheckpointTypeOK, Archives
  <1>3. \A j \in 1..Len(TarOrder) : TarOrder[j] \in archive.has => TarOrder[j] \in tree \cup touched
    BY <1>1, Order DEF CpInv, Filled
  <1>4. \A e \in Entries : e \in archive.has => e \in tree \cup touched
    BY <1>3, Order
  <1>5. QED
    BY <1>1, <1>2, <1>4 DEF CpInv, Filled

-----------------------------------------------------------------------------
(* A root with its archives, whatever goes on around the calls. *)

RootInv == OverlayTypeOK /\ CheckpointTypeOK /\ CpInv

LEMMA RootInit == OverlayInit /\ CheckpointInit => RootInv
  <1>1. CheckpointInit => CpInv
    BY DEF CheckpointInit, NoCheckpoint, CpInv, Walked, ToSave, Wiped, Filled
  <1>2. QED
    BY <1>1, OverlayTypeInit, CheckpointTypeInit DEF RootInv

LEMMA RootStay ==
  ASSUME RootInv, UNCHANGED <<ovars, cpvars>>
  PROVE  RootInv'
  <1>1. KindsStay
    BY KindSame DEF ovars
  <1>2. OverlayTypeOK' /\ CheckpointTypeOK'
    BY DEF RootInv, OverlayTypeOK, CheckpointTypeOK, ovars, lockVars, cpvars
  <1>3. CpInv'
    BY <1>1 DEF RootInv, CpInv, Walked, ToSave, Wiped, Filled, Visited, Held, KindsStay, ovars, cpvars
  <1>4. QED
    BY <1>2, <1>3 DEF RootInv

LEMMA RootCall ==
  ASSUME RootInv, CheckpointBegin \/ CheckpointStep
  PROVE  RootInv'
  <1>1. OverlayTypeOK'
    <2>1. CASE OverlayNext
      BY <2>1, OverlayTypeNext DEF RootInv
    <2>2. CASE UNCHANGED ovars
      BY <2>2 DEF RootInv, OverlayTypeOK, ovars, lockVars
    <2>3. QED
      BY <2>1, <2>2, CheckpointOverlay, CheckpointParts DEF RootInv
  <1>2. QED
    BY <1>1, CpBegin, CpStep DEF RootInv

LEMMA RootOthers ==
  ASSUME RootInv, Others
  PROVE  RootInv'
  BY OverlayTypeNext, CpOthers, KindKept DEF RootInv, Others

LEMMA CheckpointAlways == CheckpointSpec => []RootInv
  <1>1. RootInv /\ [CheckpointBegin \/ CheckpointStep \/ Others]_<<ovars, cpvars>> => RootInv'
    BY RootStay, RootCall, RootOthers
  <1>2. QED
    BY <1>1, RootInit, PTL DEF CheckpointSpec

LEMMA RootEnds ==
  ASSUME RootInv, Around
  PROVE  FaithfulSave /\ FaithfulRestore
  BY SaveEnds, RestoreEnds DEF RootInv

(* The archive a snapshot or a download completes holds what is under the root but links    *)
(* that lead out of it and what cannot be listed, up to what somebody changed during the     *)
(* walk, and there was nothing else it could not copy (Snapshot, DownloadTar).                *)
THEOREM CheckpointSavedFaithful == CheckpointSpec => SavedFaithful
  <1>1. RootInv /\ [CheckpointBegin \/ CheckpointStep \/ Others]_<<ovars, cpvars>> => [FaithfulSave]_<<ovars, cpvars>>
    BY RootEnds DEF Around, Others
  <1>2. QED
    BY <1>1, CheckpointAlways, PTL DEF CheckpointSpec, SavedFaithful

(* A restore without an error leaves what a whole archive holds and nothing else, up to what *)
(* somebody changed meanwhile, and an upload adds all it holds (Restore, UploadTar).          *)
THEOREM CheckpointRestoredFaithful == CheckpointSpec => RestoredFaithful
  <1>1. RootInv /\ [CheckpointBegin \/ CheckpointStep \/ Others]_<<ovars, cpvars>> => [FaithfulRestore]_<<ovars, cpvars>>
    BY RestoreEnds DEF RootInv
  <1>2. QED
    BY <1>1, CheckpointAlways, PTL DEF CheckpointSpec, RestoredFaithful

-----------------------------------------------------------------------------
(***************************************************************************)
(* What a restore leaves when it does not get to its end.                  *)
(***************************************************************************)

(* At each point of the refill the root holds exactly the part of the archive
   that has been read so far, up to what somebody changed meanwhile. *)
PartRestored ==
    cp.call = "restore" /\ cp.at = "fill" =>
        \A j \in 1..Len(TarOrder) : TarOrder[j] \notin touched =>
            (TarOrder[j] \in tree <=> j < cp.i /\ TarOrder[j] \in archive.has)

LEMMA PartFromInv == RootInv => PartRestored
  <1> SUFFICES ASSUME RootInv, cp.call = "restore", cp.at = "fill",
                      NEW j \in 1..Len(TarOrder), TarOrder[j] \notin touched
               PROVE  TarOrder[j] \in tree <=> j < cp.i /\ TarOrder[j] \in archive.has
    BY DEF PartRestored
  <1>1. CallTypeOK /\ Filled
    BY CheckpointParts DEF RootInv, CpInv
  <1>2. cp.i \in Nat /\ j \in Nat
    BY <1>1, CallStep
  <1>3. CASE j < cp.i
    <2>1. j \in 1..(cp.i - 1)
      BY <1>2, <1>3
    <2>2. QED
      BY <1>1, <1>3, <2>1 DEF Filled
  <1>4. CASE ~(j < cp.i)
    <2>1. j \in cp.i..Len(TarOrder)
      BY <1>2, <1>4, Order
    <2>2. QED
      BY <1>1, <1>4, <2>1 DEF Filled
  <1>5. QED
    BY <1>3, <1>4

(* "Wipes the contents of lfs.Root() and repopulates it" in two steps: an entry that is      *)
(* rejected, a file that ends too early and a signal all leave the root with the entries     *)
(* before that point and without any of its own (Restore).                                   *)
THEOREM CheckpointPartRestored == CheckpointSpec => []PartRestored
  BY PartFromInv, CheckpointAlways, PTL

=============================================================================

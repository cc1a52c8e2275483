-------------------------- MODULE ChangeTrackerProofs --------------------------
(***************************************************************************)
(* Theorems about the change report: it agrees with the disk on every file *)
(* that only the tracked calls of the run have changed, for any number of  *)
(* concurrent tasks.                                                       *)
(***************************************************************************)
EXTENDS ChangeTracker, TLAPS

USE TrackerAssumption

Records  == {"recordOpen", "recordLink"}
Writes   == {"open", "symlink"}
Removals == {"recordDelete", "recordRename"}

(* A removal of p is under way. *)
Leaving(p) == \E t \in Tasks : op[t].next \in Removals /\ op[t].path = p

(* A rename to p is under way. *)
Arriving(p) == \E t \in Tasks : op[t].next = "recordRename" /\ op[t].to = p

(* While a removal of a file is under way no other call is about the file. *)
Alone(p) ==
    \A t, u \in Tasks : t # u /\ op[t].next \in Removals /\ p \in About(t) => p \notin About(u)

(* The report and the disk, for a file no removal of a directory swept away, with the calls *)
(* that are between the two.                                                                 *)
FileReported(p) ==
    /\ p \in disk \ before => p \in created \/ Arriving(p)
    /\ p \in before \ disk => p \in deleted \/ Leaving(p)
    /\ p \in modified => p \in before /\ (p \in disk \/ Leaving(p))

(* What a call has seen or done holds until it records or writes. *)
CallCurrent(p, t) ==
    /\ op[t].next \in Records /\ op[t].path = p /\ op[t].existed => p \in disk
    /\ op[t].next \in Writes /\ op[t].path = p => p \in disk \cup created /\ p \in Reported
    /\ op[t].next = "recordDelete" /\ op[t].path = p => p \notin disk
    /\ op[t].next = "recordRename" /\ op[t].path = p /\ op[t].to # p => p \notin disk
    /\ op[t].next = "recordRename" /\ op[t].to = p => p \in disk

FileInv(p) ==
    /\ Alone(p)
    /\ p \notin swept => FileReported(p)
    /\ \A t \in Tasks : CallCurrent(p, t)

TrackerInv == TypeOK /\ \A p \in Files \ rough : FileInv(p)

(* A file has nothing below it, and is not above anything. *)
LEMMA FileAlone ==
  ASSUME NEW p \in Files
  PROVE  p \in Paths /\ Tree(p) = {p} /\ \A x : p \notin Above(x)
  BY TreesAssumption DEF Files, Tree, Above

LEMMA TreeType ==
  ASSUME NEW p \in Paths
  PROVE  Tree(p) \subseteq Paths /\ Above(p) \subseteq Paths
  BY TreesAssumption DEF Tree, Above

LEMMA TypeInit == Init => TypeOK
  BY DEF Init, TypeOK

LEMMA TypeNext ==
  ASSUME TypeOK, Next
  PROVE  TypeOK'
  <1> USE DEF TypeOK, sets
  <1>1. CASE Reset
    BY <1>1 DEF Reset, Busy
  <1>2. CASE Untracked
    BY <1>2, TreeType DEF Untracked
  <1>3. ASSUME NEW t \in Tasks, Step(t)
        PROVE  TypeOK'
    <2>1. CASE StatForWrite(t)
      BY <2>1 DEF StatForWrite, Calls, Call
    <2>2. CASE RecordWrite(t)
      BY <2>2 DEF RecordWrite, Call, NoCall
    <2>3. CASE Write(t)
      <3>1. op[t].path \in Paths
        BY <2>3 DEF Write, Call, NoCall, Files
      <3>2. QED
        BY <2>3, <3>1, TreeType DEF Write, Returns, Call, NoCall
    <2>4. CASE Remove(t)
      <3>1. disk' \subseteq Paths /\ rough' \subseteq Paths /\ swept' \subseteq Paths
        BY <2>4 DEF Remove, Busy
      <3>2. op' \in [Tasks -> Call \cup {NoCall}]
        BY <2>4 DEF Remove, Calls, Call
      <3>3. QED
        BY <2>4, <3>1, <3>2 DEF Remove
    <2>5. CASE RecordDelete(t)
      BY <2>5 DEF RecordDelete, Returns, Call, NoCall
    <2>6. CASE Rename(t)
      <3>1. PICK p \in disk, q \in Paths, moved \in SUBSET Paths :
              /\ moved \subseteq Below[q]
              /\ disk' = (disk \ Tree(p)) \cup {q} \cup moved
              /\ Calls(t, "recordRename", p, q)
              /\ rough' = rough \cup ((Tree(p) \cup Tree(q)) \cap Busy)
              /\ swept' = swept \cup (Below[p] \cap disk) \cup moved
        BY <2>6, TreesAssumption DEF Rename
      <3>2. Below[q] \subseteq Paths
        BY TreesAssumption
      <3>3. disk' \subseteq Paths /\ rough' \subseteq Paths /\ swept' \subseteq Paths
        BY <3>1, <3>2 DEF Busy
      <3>4. op' \in [Tasks -> Call \cup {NoCall}]
        BY <3>1 DEF Calls, Call
      <3>5. QED
        BY <2>6, <3>3, <3>4 DEF Rename
    <2>7. CASE RecordRename(t)
      BY <2>7 DEF RecordRename, Returns, Call, NoCall
    <2>8. CASE MkdirAll(t)
      BY <2>8, TreeType DEF MkdirAll
    <2>9. CASE RemoveFails(t)
      BY <2>9 DEF RemoveFails
    <2>10. QED
      BY <1>3, <2>1, <2>2, <2>3, <2>4, <2>5, <2>6, <2>7, <2>8, <2>9 DEF Step
  <1>4. QED
    BY <1>1, <1>2, <1>3 DEF Next

LEMMA StatForWriteInv ==
  ASSUME TypeOK, NEW p \in Files, p \notin rough', p \notin rough, FileInv(p),
         NEW t \in Tasks, StatForWrite(t)
  PROVE  FileInv(p)'
  <1> USE DEF TypeOK, sets, Records, Writes, Removals, About, Reported
  <1>1. Alone(p)'
    BY DEF FileInv, Alone, StatForWrite, Calls, Idle, NoCall, Removing
  <1>2. p \notin swept' => FileReported(p)'
    BY DEF FileInv, Alone, FileReported, CallCurrent, Leaving, Arriving, StatForWrite, Calls, Idle, NoCall, Removing
  <1>3. ASSUME NEW u \in Tasks
        PROVE  CallCurrent(p, u)'
    <2>1. PICK q \in Paths, step \in {"recordOpen", "recordLink"} : Calls(t, step, q, q)
      BY DEF StatForWrite
    <2>2. UNCHANGED <<disk, created, modified, deleted>>
      BY DEF StatForWrite
    <2>3. CASE u = t
      <3>1. op'[u] = [next |-> step, existed |-> q \in disk, path |-> q, to |-> q]
        BY <2>1, <2>3 DEF Calls
      <3>2. op'[u].next = step /\ op'[u].path = q /\ op'[u].existed = (q \in disk)
        BY <3>1
      <3>3. QED
        BY <2>2, <3>2 DEF CallCurrent
    <2>4. CASE u # t
      <3>1. op'[u] = op[u]
        BY <2>1, <2>4 DEF Calls
      <3>2. QED
        BY <2>2, <3>1 DEF FileInv, CallCurrent
    <2>5. QED
      BY <2>3, <2>4
  <1>4. QED
    BY <1>1, <1>2, <1>3 DEF FileInv

LEMMA RecordWriteInv ==
  ASSUME TypeOK, NEW p \in Files, p \notin rough', p \notin rough, FileInv(p),
         NEW t \in Tasks, RecordWrite(t)
  PROVE  FileInv(p)'
  <1> USE DEF TypeOK, sets, Records, Writes, Removals, About, Reported
  <1>1. Alone(p)'
    BY DEF FileInv, Alone, RecordWrite
  <1>2. p \notin swept' => FileReported(p)'
    BY DEF FileInv, Alone, FileReported, CallCurrent, Leaving, Arriving, RecordWrite
  <1>3. ASSUME NEW u \in Tasks
        PROVE  CallCurrent(p, u)'
    BY DEF FileInv, Alone, CallCurrent, RecordWrite
  <1>4. QED
    BY <1>1, <1>2, <1>3 DEF FileInv

LEMMA WriteInv ==
  ASSUME TypeOK, NEW p \in Files, p \notin rough', p \notin rough, FileInv(p),
         NEW t \in Tasks, Write(t)
  PROVE  FileInv(p)'
  <1> USE DEF TypeOK, sets, Records, Writes, Removals, About, Reported
  <1>a. /\ op[t].next \in {"open", "symlink"} /\ op' = [op EXCEPT ![t] = NoCall]
        /\ p \in disk => p \in disk'
        /\ p \in disk' => p \in disk \/ op[t].path = p
        /\ UNCHANGED <<created, modified, deleted, before, rough, swept>>
    BY FileAlone DEF Write, Returns
  <1>1. Alone(p)'
    BY <1>a DEF FileInv, Alone, NoCall, Files
  <1>2. p \notin swept' => FileReported(p)'
    BY <1>a DEF FileInv, Alone, FileReported, CallCurrent, Leaving, Arriving, NoCall
  <1>3. ASSUME NEW u \in Tasks
        PROVE  CallCurrent(p, u)'
    BY <1>a DEF FileInv, Alone, CallCurrent, NoCall
  <1>4. QED
    BY <1>1, <1>2, <1>3 DEF FileInv

LEMMA MkdirAllInv ==
  ASSUME NEW p \in Files, FileInv(p), NEW t \in Tasks, MkdirAll(t)
  PROVE  FileInv(p)'
  <1>1. /\ p \in disk' <=> p \in disk
        /\ UNCHANGED <<created, modified, deleted, op, before, swept>>
    BY FileAlone DEF MkdirAll, sets, Files
  <1>2. QED
    BY <1>1
    DEF FileInv, Alone, FileReported, CallCurrent, Leaving, Arriving, About, Reported

LEMMA RemoveFailsInv ==
  ASSUME NEW p \in Files, p \notin rough', FileInv(p), NEW t \in Tasks, RemoveFails(t)
  PROVE  FileInv(p)'
  <1>1. /\ p \in disk' <=> p \in disk
        /\ UNCHANGED <<created, modified, deleted, op, before, swept>>
    BY DEF RemoveFails, sets
  <1>2. QED
    BY <1>1
    DEF FileInv, Alone, FileReported, CallCurrent, Leaving, Arriving, About, Reported

LEMMA RemoveInv ==
  ASSUME TypeOK, NEW p \in Files, p \notin rough', p \notin rough, FileInv(p),
         NEW t \in Tasks, Remove(t)
  PROVE  FileInv(p)'
  <1> USE DEF TypeOK, sets, Records, Writes, Removals, About, Reported
  <1>a. PICK q \in Paths :
          /\ disk' = disk \ Tree(q)
          /\ Calls(t, "recordDelete", q, q)
          /\ rough' = rough \cup (Tree(q) \cap Busy)
          /\ swept' = swept \cup (Below[q] \cap disk)
    BY DEF Remove
  <1>b. /\ op[t] = NoCall
        /\ \E e \in BOOLEAN : op' = [op EXCEPT ![t] = [next |-> "recordDelete", existed |-> e, path |-> q, to |-> q]]
        /\ UNCHANGED <<created, modified, deleted, before>>
    <2>1. op[t] = NoCall /\ UNCHANGED <<created, modified, deleted, before>>
      BY DEF Remove, Idle
    <2>2. (q \in disk) \in BOOLEAN
      OBVIOUS
    <2>3. op' = [op EXCEPT ![t] = [next |-> "recordDelete", existed |-> q \in disk, path |-> q, to |-> q]]
      BY <1>a DEF Calls
    <2>4. QED
      BY <2>1, <2>2, <2>3
  <1>c. /\ p \in disk' <=> p \in disk /\ p # q /\ p \notin Below[q]
        /\ p = q \/ p \in Below[q] => p \notin Busy
        /\ p \notin swept' => p \notin swept /\ (p \in Below[q] => p \notin disk)
        /\ p \in Paths
    <2>1. p \in Paths
      BY DEF Files
    <2>2. p \in disk' <=> p \in disk /\ p \notin Tree(q)
      BY <1>a
    <2>3. p \in Tree(q) => p \notin Busy
      BY <1>a
    <2>4. p \notin swept' => p \notin swept /\ (p \in Below[q] => p \notin disk)
      BY <1>a
    <2>5. QED
      BY <2>1, <2>2, <2>3, <2>4 DEF Tree
  <1>1. Alone(p)'
    BY <1>b, <1>c DEF FileInv, Alone, NoCall, Busy
  <1>2. p \notin swept' => FileReported(p)'
    BY <1>b, <1>c DEF FileInv, Alone, FileReported, CallCurrent, Leaving, Arriving, NoCall, Busy
  <1>3. ASSUME NEW u \in Tasks
        PROVE  CallCurrent(p, u)'
    BY <1>b, <1>c DEF FileInv, Alone, CallCurrent, NoCall, Busy
  <1>4. QED
    BY <1>1, <1>2, <1>3 DEF FileInv

LEMMA RecordDeleteInv ==
  ASSUME TypeOK, NEW p \in Files, p \notin rough', p \notin rough, FileInv(p),
         NEW t \in Tasks, RecordDelete(t)
  PROVE  FileInv(p)'
  <1> USE DEF TypeOK, sets, Records, Writes, Removals, About, Reported
  <1>1. Alone(p)'
    BY DEF FileInv, Alone, RecordDelete, Returns, NoCall, Files
  <1>2. p \notin swept' => FileReported(p)'
    BY DEF FileInv, Alone, FileReported, CallCurrent, Leaving, Arriving, RecordDelete, Returns, NoCall
  <1>3. ASSUME NEW u \in Tasks
        PROVE  CallCurrent(p, u)'
    BY DEF FileInv, Alone, CallCurrent, RecordDelete, Returns, NoCall
  <1>4. QED
    BY <1>1, <1>2, <1>3 DEF FileInv

LEMMA RenameInv ==
  ASSUME TypeOK, NEW p \in Files, p \notin rough', p \notin rough, FileInv(p),
         NEW t \in Tasks, Rename(t)
  PROVE  FileInv(p)'
  <1> USE DEF TypeOK, sets, Records, Writes, Removals, About, Reported
  <1>a. PICK a \in disk, b \in Paths, moved \in SUBSET Paths :
          /\ moved \subseteq Below[b]
          /\ a \in Files <=> b \in Files
          /\ disk' = (disk \ Tree(a)) \cup {b} \cup moved
          /\ Calls(t, "recordRename", a, b)
          /\ rough' = rough \cup ((Tree(a) \cup Tree(b)) \cap Busy)
          /\ swept' = swept \cup (Below[a] \cap disk) \cup moved
    BY TreesAssumption DEF Rename
  <1>b. /\ op[t] = NoCall
        /\ \E e \in BOOLEAN : op' = [op EXCEPT ![t] = [next |-> "recordRename", existed |-> e, path |-> a, to |-> b]]
        /\ UNCHANGED <<created, modified, deleted, before>>
    BY <1>a DEF Rename, Idle, Calls
  <1>c. /\ p \in Paths
        /\ p \in {a, b} => a \in Files /\ b \in Files
        /\ a \in Files => Below[a] = {}
        /\ b \in Files => Below[b] = {}
    BY <1>a DEF Files
  <1>d. /\ p = a /\ p # b => p \notin disk'
        /\ p = b => p \in disk'
        /\ p \in {a, b} \cup Below[a] \cup moved => p \notin Busy
    BY <1>a, <1>c DEF Tree
  <1>e. ASSUME p \notin {a, b}
        PROVE  (p \in disk' <=> p \in disk) \/ p \in (Below[a] \cap disk) \cup moved
    BY <1>a, <1>e DEF Tree
  <1>f. p \notin swept' => p \notin swept /\ p \notin (Below[a] \cap disk) \cup moved
    BY <1>a
  <1> HIDE DEF Tree
  <1>1. Alone(p)'
    BY <1>b, <1>c, <1>d DEF FileInv, Alone, NoCall, Busy
  <1>2. p \notin swept' => FileReported(p)'
    BY <1>b, <1>c, <1>d, <1>e, <1>f DEF FileInv, Alone, FileReported, CallCurrent, Leaving, Arriving, NoCall, Busy
  <1>3. ASSUME NEW u \in Tasks
        PROVE  CallCurrent(p, u)'
    <2>1. CASE p \in {a, b}
      BY <1>b, <1>c, <1>d, <2>1 DEF FileInv, Alone, CallCurrent, NoCall, Busy
    <2>2. CASE p \notin {a, b}
      BY <1>b, <1>c, <1>d, <1>e, <2>2 DEF FileInv, Alone, CallCurrent, NoCall, Busy
    <2>3. QED
      BY <2>1, <2>2
  <1>4. QED
    BY <1>1, <1>2, <1>3 DEF FileInv

LEMMA RecordRenameInv ==
  ASSUME TypeOK, NEW p \in Files, p \notin rough', p \notin rough, FileInv(p),
         NEW t \in Tasks, RecordRename(t)
  PROVE  FileInv(p)'
  <1> USE DEF TypeOK, sets, Records, Writes, Removals, About, Reported
  <1>1. Alone(p)'
    BY DEF FileInv, Alone, RecordRename, Returns, NoCall, Files
  <1>2. p \notin swept' => FileReported(p)'
    BY DEF FileInv, Alone, FileReported, CallCurrent, Leaving, Arriving, RecordRename, Returns, NoCall
  <1>3. ASSUME NEW u \in Tasks
        PROVE  CallCurrent(p, u)'
    BY DEF FileInv, Alone, CallCurrent, RecordRename, Returns, NoCall
  <1>4. QED
    BY <1>1, <1>2, <1>3 DEF FileInv

LEMMA StepInv ==
  ASSUME TypeOK, NEW p \in Files, p \notin rough', p \notin rough, FileInv(p),
         NEW t \in Tasks, Step(t)
  PROVE  FileInv(p)'
  BY StatForWriteInv, RecordWriteInv, WriteInv, RemoveInv, RecordDeleteInv, RenameInv,
     RecordRenameInv, MkdirAllInv, RemoveFailsInv
  DEF Step

LEMMA TrackerInit == Init => TrackerInv
  <1> SUFFICES ASSUME Init, NEW p \in Files
               PROVE  FileInv(p)
    BY TypeInit DEF TrackerInv
  <1>1. \A t \in Tasks : op[t] = NoCall
    BY DEF Init
  <1>2. FileReported(p)
    BY DEF Init, FileReported
  <1>3. Alone(p) /\ \A t \in Tasks : CallCurrent(p, t)
    BY <1>1 DEF NoCall, Alone, CallCurrent, Records, Writes, Removals
  <1>4. QED
    BY <1>2, <1>3 DEF FileInv

(* A reset starts a report that is right about every file no call is about. *)
LEMMA ResetInv ==
  ASSUME TypeOK, Reset, NEW p \in Files, p \notin rough'
  PROVE  FileInv(p)'
  <1>1. \A t \in Tasks : p \notin About(t) /\ op'[t] = op[t]
    BY DEF Reset, Busy, Files
  <1>2. p \notin swept' => FileReported(p)'
    BY DEF Reset, FileReported
  <1>3. Alone(p)' /\ \A t \in Tasks : CallCurrent(p, t)'
    BY <1>1 DEF Alone, CallCurrent, About
  <1>4. QED
    BY <1>2, <1>3 DEF FileInv

LEMMA UntrackedInv ==
  ASSUME Untracked, NEW p \in Files, p \notin rough', FileInv(p)
  PROVE  FileInv(p)'
  <1>1. /\ p \in disk' <=> p \in disk
        /\ UNCHANGED <<created, modified, deleted, op, before, swept>>
    BY FileAlone DEF Untracked, sets, Tree
  <1>2. QED
    BY <1>1
    DEF FileInv, Alone, FileReported, CallCurrent, Leaving, Arriving, About, Reported

LEMMA TrackerNext == TrackerInv /\ [Next]_ctvars => TrackerInv'
  <1> SUFFICES ASSUME TrackerInv, [Next]_ctvars
               PROVE  TrackerInv'
    OBVIOUS
  <1>1. CASE UNCHANGED ctvars
    BY <1>1
    DEF TrackerInv, TypeOK, FileInv, Alone, FileReported, CallCurrent, Leaving, Arriving, About,
        Reported, ctvars, sets
  <1>2. CASE Next
    <2>1. TypeOK'
      BY <1>2, TypeNext DEF TrackerInv
    <2>2. ASSUME NEW p \in Files, p \notin rough'
          PROVE  FileInv(p)'
      <3>1. CASE Reset
        BY <2>2, <3>1, ResetInv DEF TrackerInv
      <3>2. CASE Untracked
        <4>1. p \notin rough
          BY <2>2, <3>2 DEF Untracked
        <4>2. QED
          BY <2>2, <3>2, <4>1, UntrackedInv DEF TrackerInv
      <3>3. ASSUME NEW t \in Tasks, Step(t)
            PROVE  FileInv(p)'
        <4>1. p \notin rough
          BY <2>2, <3>3
          DEF Step, StatForWrite, RecordWrite, Write, MkdirAll, Remove, RemoveFails, RecordDelete,
              Rename, RecordRename
        <4>2. QED
          BY <2>2, <3>3, <4>1, StepInv DEF TrackerInv
      <3>4. QED
        BY <1>2, <3>1, <3>2, <3>3 DEF Next
    <2>3. QED
      BY <2>1, <2>2 DEF TrackerInv
  <1>3. QED
    BY <1>1, <1>2

(* The invariant of the report, with the calls under way. *)
LEMMA TrackerAlways == Spec => []TrackerInv
  BY TrackerInit, TrackerNext, PTL DEF Spec

(* The report's sets hold paths, and every call keeps its shape. *)
THEOREM TrackerTypeCorrect == Spec => []TypeOK
  <1>1. TrackerInv => TypeOK
    BY DEF TrackerInv
  <1>2. QED
    BY <1>1, TrackerAlways, PTL

(***************************************************************************)
(* The report is exact on settled files: recordWrite's look at the disk    *)
(* outside the lock does no harm as long as no removal overlaps it.        *)
(***************************************************************************)
THEOREM TrackerReportExact == Spec => []ReportExact
  <1>1. TrackerInv => ReportExact
    <2> SUFFICES ASSUME TrackerInv, NEW p \in Settled \ swept
                 PROVE  Listed(p) /\ (p \in modified => p \in before \cap disk)
      BY DEF ReportExact
    <2>1. p \in Paths /\ FileReported(p)
      BY FileAlone DEF Settled, TrackerInv, FileInv
    <2>2. ~Arriving(p) /\ ~Leaving(p)
      BY <2>1 DEF Settled, Busy, About, Arriving, Leaving
    <2>3. QED
      BY <2>1, <2>2 DEF FileReported, Listed
  <1>2. QED
    BY <1>1, TrackerAlways, PTL

(***************************************************************************)
(* Nothing falls out of the report, and no write reaches the disk that is  *)
(* not in it, unless its run's report has been reset in the meantime.      *)
(***************************************************************************)
THEOREM TrackerNothingForgotten == Spec => NothingForgotten
  <1>1. ASSUME TrackerInv, Next
        PROVE  /\ \A t \in Tasks :
                      Write(t) /\ op[t].path \in Files => op[t].path \in Reported \cup rough
               /\ Reset \/ Reported \subseteq Reported'
    <2>1. ASSUME NEW t \in Tasks, Write(t), op[t].path \in Files, op[t].path \notin rough
          PROVE  op[t].path \in Reported
      <3>1. CallCurrent(op[t].path, t)
        BY <1>1, <2>1 DEF TrackerInv, FileInv
      <3>2. QED
        BY <2>1, <3>1 DEF CallCurrent, Write, Writes
    <2>2. Untracked => Reported \subseteq Reported'
      BY DEF Untracked, Reported, sets
    <2>3. ASSUME NEW t \in Tasks, Step(t)
          PROVE  Reported \subseteq Reported'
      BY <2>3
      DEF Step, StatForWrite, RecordWrite, Write, MkdirAll, Remove, RemoveFails, RecordDelete,
          Rename, RecordRename, Reported, sets
    <2>4. QED
      BY <1>1, <2>1, <2>2, <2>3 DEF Next
  <1>2. QED
    BY <1>1, TrackerAlways, PTL DEF Spec, NothingForgotten
=============================================================================

----------------------------- MODULE SessionProofs -----------------------------
(***************************************************************************)
(* Theorems about the sandbox session: its types, the host's view of the   *)
(* shell, and the refinement of PersistentShell.                           *)
(***************************************************************************)
EXTENDS SessionPaths, FiniteSetTheorems, SequenceTheorems, TLAPS

(* Walks along names: a place is left or entered, one name at a time. *)

LEMMA SetInduction ==
  ASSUME NEW S, 0 \in S, \A n \in Nat : n \in S => n + 1 \in S
  PROVE  Nat \subseteq S
  <1> SUFFICES ASSUME NEW k \in Nat, k \notin S PROVE FALSE
    OBVIOUS
  <1> DEFINE T == (0..k) \cap S
             f == [t \in T |-> t + 1]
  <1>1. IsFiniteSet(T) /\ 0 \in T
    <2>1. IsFiniteSet(0..k)
      BY FS_Interval
    <2>2. T \subseteq 0..k /\ 0 \in T
      OBVIOUS
    <2>3. QED
      BY <2>1, <2>2, FS_Subset
  <1>2. IsFiniteSet(T \ {0}) /\ Cardinality(T \ {0}) = Cardinality(T) - 1
    BY <1>1, FS_RemoveElement
  <1>3. Cardinality(T \ {0}) < Cardinality(T)
    BY <1>1, <1>2, FS_CardinalityType
  <1>4. f \in [T -> T \ {0}]
    OBVIOUS
  <1>5. \A x, y \in T : x # y => f[x] # f[y]
    OBVIOUS
  <1>6. QED
    <2> HIDE DEF T, f
    <2> QED BY <1>1, <1>2, <1>3, <1>4, <1>5, FS_PigeonHole

(* The equation of Walk, up to n. *)
Walks(g, n, place, names) ==
    g = [i \in 0..n |-> IF i = 0 THEN place ELSE Enter(g[i - 1], names[i])]

LEMMA WalkEquation ==
  ASSUME NEW place, NEW names, Len(names) \in Nat
  PROVE  Walks(Walk(place, names), Len(names), place, names)
  <1> DEFINE S == {n \in Nat : \E g : Walks(g, n, place, names)}
  <1>1. 0 \in S
    <2> DEFINE g == [i \in {0} |-> place]
    <2>1. Walks(g, 0, place, names)
      BY DEF Walks
    <2>2. QED
      BY <2>1
  <1>2. ASSUME NEW n \in Nat, n \in S
        PROVE  n + 1 \in S
    <2>1. PICK g : Walks(g, n, place, names)
      BY <1>2
    <2> DEFINE h == [i \in 0..(n + 1) |-> IF i = n + 1 THEN Enter(g[n], names[n + 1]) ELSE g[i]]
    <2>2. \A i \in 0..n : g[i] = IF i = 0 THEN place ELSE Enter(g[i - 1], names[i])
      BY <2>1 DEF Walks
    <2>3. \A i \in 0..(n + 1) : h[i] = IF i = 0 THEN place ELSE Enter(h[i - 1], names[i])
      <3> SUFFICES ASSUME NEW i \in 0..(n + 1)
                   PROVE  h[i] = IF i = 0 THEN place ELSE Enter(h[i - 1], names[i])
        OBVIOUS
      <3>1. CASE i = n + 1
        BY <3>1
      <3>2. CASE i \in 0..n
        <4>1. h[i] = g[i] /\ (i # 0 => h[i - 1] = g[i - 1])
          BY <3>2
        <4>2. QED
          BY <2>2, <3>2, <4>1
      <3>3. QED
        BY <3>1, <3>2
    <2>4. Walks(h, n + 1, place, names)
      <3>1. h = [i \in 0..(n + 1) |-> h[i]]
        OBVIOUS
      <3> HIDE DEF h
      <3>2. QED
        BY <2>3, <3>1 DEF Walks
    <2>5. QED
      BY <2>4
  <1>3. Len(names) \in S
    <2> HIDE DEF S
    <2> QED BY <1>1, <1>2, SetInduction
  <1>4. \E g : g = [i \in 0..Len(names) |-> IF i = 0 THEN place ELSE Enter(g[i - 1], names[i])]
    BY <1>3 DEF Walks
  <1>5. QED
    BY <1>4 DEF Walk, Walks

LEMMA WalkStep ==
  ASSUME NEW place, NEW names, Len(names) \in Nat
  PROVE  /\ Walk(place, names)[0] = place
         /\ \A i \in 0..(Len(names) - 1) :
               Walk(place, names)[i + 1] = Enter(Walk(place, names)[i], names[i + 1])
  <1> DEFINE w == Walk(place, names)
  <1>1. w = [i \in 0..Len(names) |-> IF i = 0 THEN place ELSE Enter(w[i - 1], names[i])]
    BY WalkEquation DEF Walks
  <1> HIDE DEF w
  <1>2. w[0] = place
    BY <1>1
  <1>3. ASSUME NEW i \in 0..(Len(names) - 1)
        PROVE  w[i + 1] = Enter(w[i], names[i + 1])
    <2>1. i + 1 \in 0..Len(names) /\ i + 1 # 0 /\ (i + 1) - 1 = i
      OBVIOUS
    <2>2. w[i + 1] = Enter(w[(i + 1) - 1], names[i + 1])
      BY <1>1, <2>1
    <2>3. QED
      BY <2>1, <2>2
  <1>4. QED
    BY <1>2, <1>3 DEF w

(* Sequences. *)
LEMMA FrontKept ==
  ASSUME NEW A, NEW s \in Seq(A), s # <<>>
  PROVE  Front(s) \in Seq(A) /\ Len(Front(s)) = Len(s) - 1
  <1>1. Len(s) \in Nat \ {0}
    BY EmptySeq
  <1>2. \A i \in 1..(Len(s) - 1) : s[i] \in A
    BY <1>1, ElementOfSeq
  <1>3. SubSeq(s, 1, Len(s) - 1) \in Seq(A) /\ Len(SubSeq(s, 1, Len(s) - 1)) = Len(s) - 1
    <2>1. PICK k \in Nat : k = Len(s) - 1
      BY <1>1
    <2>2. PICK u : u = SubSeq(s, 1, k)
      OBVIOUS
    <2>3. u \in Seq(A) /\ Len(u) = IF 1 <= k THEN k - 1 + 1 ELSE 0
      BY <1>2, <2>1, <2>2, SubSeqProperties
    <2>4. Len(u) = k
      BY <2>3
    <2>5. QED
      BY <2>1, <2>2, <2>3, <2>4
  <1>4. QED
    BY <1>3 DEF Front

LEMMA UnderIs ==
  ASSUME NEW A, NEW r \in Seq(A), NEW s \in Seq(A)
  PROVE  /\ Under(r, s) <=> Len(r) <= Len(s) /\ \A i \in 1..Len(r) : s[i] = r[i]
         /\ Under(r, s) => s = r \o SubSeq(s, Len(r) + 1, Len(s)) /\ SubSeq(s, Len(r) + 1, Len(s)) \in Seq(A)
  <1>1. Len(r) \in Nat /\ Len(s) \in Nat /\ SubSeq(r, 1, Len(r)) = r
    BY SubSeqFull
  <1>2. ASSUME Len(r) <= Len(s)
        PROVE  /\ SubSeq(s, 1, Len(r)) \in Seq(A) /\ Len(SubSeq(s, 1, Len(r))) = Len(r)
               /\ \A i \in 1..Len(r) : SubSeq(s, 1, Len(r))[i] = s[i]
    <2>1. \A i \in 1..Len(r) : s[i] \in A
      BY <1>1, <1>2, ElementOfSeq
    <2>2. QED
      BY <1>1, <2>1, SubSeqProperties
  <1>3. Under(r, s) <=> Len(r) <= Len(s) /\ SubSeq(s, 1, Len(r)) = r
    BY <1>1 DEF Under, IsPrefix
  <1>4. Under(r, s) <=> Len(r) <= Len(s) /\ \A i \in 1..Len(r) : s[i] = r[i]
    <2>1. ASSUME Len(r) <= Len(s), \A i \in 1..Len(r) : s[i] = r[i]
          PROVE  SubSeq(s, 1, Len(r)) = r
      BY <1>2, <2>1, SeqEqual
    <2>2. QED
      BY <1>2, <1>3, <2>1
  <1>5. ASSUME Under(r, s)
        PROVE  s = r \o SubSeq(s, Len(r) + 1, Len(s)) /\ SubSeq(s, Len(r) + 1, Len(s)) \in Seq(A)
    <2>1. Len(r) <= Len(s) /\ SubSeq(s, 1, Len(r)) = r
      BY <1>3, <1>5
    <2>2. SubSeq(s, 1, Len(r)) \o SubSeq(s, Len(r) + 1, Len(s)) = s
      <3>1. 1 \in 1..(Len(s) + 1) /\ Len(r) \in (1 - 1)..Len(s) /\ Len(s) \in Len(r)..Len(s)
        BY <1>1, <2>1
      <3>2. SubSeq(s, 1, Len(r)) \o SubSeq(s, Len(r) + 1, Len(s)) = SubSeq(s, 1, Len(s))
        BY <3>1, ConcatAdjacentSubSeq
      <3>3. QED
        BY <3>2, SubSeqFull
    <2>3. \A i \in (Len(r) + 1)..Len(s) : s[i] \in A
      BY <1>1, ElementOfSeq
    <2>4. SubSeq(s, Len(r) + 1, Len(s)) \in Seq(A)
      BY <1>1, <2>3, SubSeqProperties
    <2>5. QED
      BY <2>1, <2>2, <2>4
  <1>6. QED
    BY <1>4, <1>5

LEMMA ConcatUnder ==
  ASSUME NEW A, NEW r \in Seq(A), NEW s \in Seq(A)
  PROVE  Under(r, r \o s) /\ SubSeq(r \o s, Len(r) + 1, Len(r \o s)) = s
  <1>1. PICK t : t = r \o s
    OBVIOUS
  <1>2. t \in Seq(A) /\ Len(t) = Len(r) + Len(s) /\ Len(r) \in Nat /\ Len(s) \in Nat
        /\ \A i \in 1..(Len(r) + Len(s)) : t[i] = IF i <= Len(r) THEN r[i] ELSE s[i - Len(r)]
    BY <1>1, ConcatProperties
  <1>3. Len(r) <= Len(t) /\ \A i \in 1..Len(r) : t[i] = r[i]
    BY <1>2
  <1>4. Under(r, t)
    BY <1>2, <1>3, UnderIs
  <1>5. PICK u : u = SubSeq(t, Len(r) + 1, Len(t))
    OBVIOUS
  <1>6. u \in Seq(A) /\ t = r \o u
    <2>1. t = r \o SubSeq(t, Len(r) + 1, Len(t)) /\ SubSeq(t, Len(r) + 1, Len(t)) \in Seq(A)
      BY <1>2, <1>4, UnderIs
    <2>2. QED
      BY <1>5, <2>1
  <1>7. u = s
    BY <1>1, <1>6, ConcatSimplifications
  <1>8. QED
    BY <1>1, <1>4, <1>5, <1>7

CatLast(s, t, e) == Append(s \o t, e) = s \o Append(t, e)

LEMMA ConcatAppend ==
  ASSUME NEW A, NEW s \in Seq(A), NEW t \in Seq(A), NEW e \in A
  PROVE  CatLast(s, t, e)
  <1>1. PICK u : u = <<e>>
    OBVIOUS
  <1>2. u \in Seq(A)
    BY <1>1
  <1>3. (s \o t) \o u = s \o (t \o u)
    BY <1>2, ConcatAssociative
  <1>4. s \o t \in Seq(A)
    BY ConcatProperties
  <1>5. Append(s \o t, e) = (s \o t) \o <<e>> /\ Append(t, e) = t \o <<e>>
    BY <1>4, AppendIsConcat
  <1>6. QED
    BY <1>1, <1>3, <1>5 DEF CatLast

LEMMA FrontOfAppend ==
  ASSUME NEW A, NEW s \in Seq(A), NEW e \in A
  PROVE  Front(Append(s, e)) = s
  <1>1. PICK t : t = Append(s, e)
    OBVIOUS
  <1>2. t \in Seq(A) /\ Len(t) = Len(s) + 1 /\ Len(s) \in Nat /\ \A i \in 1..Len(s) : t[i] = s[i]
    BY <1>1, AppendProperties
  <1>3. \A i \in 1..Len(s) : t[i] \in A
    BY <1>2, ElementOfSeq
  <1>4. SubSeq(t, 1, Len(s)) \in Seq(A) /\ Len(SubSeq(t, 1, Len(s))) = Len(s)
        /\ \A i \in 1..Len(s) : SubSeq(t, 1, Len(s))[i] = t[i]
    BY <1>2, <1>3, SubSeqProperties
  <1>5. SubSeq(t, 1, Len(s)) = s
    BY <1>2, <1>4, SeqEqual
  <1>6. Front(t) = SubSeq(t, 1, Len(s))
    BY <1>2 DEF Front
  <1>7. QED
    BY <1>1, <1>5, <1>6

LEMMA FrontOfConcat ==
  ASSUME NEW A, NEW r \in Seq(A), NEW s \in Seq(A), s # <<>>
  PROVE  Front(r \o s) = r \o Front(s)
  <1>1. PICK t \in Seq(A), e \in A : s = Append(t, e)
    BY SequenceEmptyOrAppend
  <1>2. r \o s = Append(r \o t, e) /\ r \o t \in Seq(A)
    <2>1. CatLast(r, t, e)
      BY <1>1, ConcatAppend
    <2>2. r \o t \in Seq(A)
      BY <1>1, ConcatProperties
    <2>3. QED
      BY <1>1, <2>1, <2>2 DEF CatLast
  <1>3. Front(Append(t, e)) = t
    BY FrontOfAppend
  <1>4. Front(Append(r \o t, e)) = r \o t
    BY <1>2, FrontOfAppend
  <1>5. QED
    BY <1>1, <1>2, <1>3, <1>4

(* Entering a place below a root, and leaving it, is the same without the root. *)
EnterAlike(r, s, e) == Enter(r \o s, e) = r \o Enter(s, e)

LEMMA EnterBelow ==
  ASSUME NEW A, ".." \notin A, NEW r \in Seq(A), NEW s \in Seq(A), NEW e \in A \cup {".."},
         e # ".." \/ s # <<>>
  PROVE  EnterAlike(r, s, e)
  <1>1. CASE e # ".."
    <2>1. CatLast(r, s, e)
      BY <1>1, ConcatAppend
    <2>2. QED
      BY <1>1, <2>1 DEF Enter, EnterAlike, CatLast
  <1>2. CASE e = ".."
    <2>1. r \o s # <<>>
      BY <1>2, ConcatEqualIffEmpty
    <2>2. Front(r \o s) = r \o Front(s)
      BY <1>2, FrontOfConcat
    <2>3. QED
      BY <1>2, <2>1, <2>2 DEF Enter, EnterAlike
  <1>3. QED
    BY <1>1, <1>2

LEMMA WalkType ==
  ASSUME NEW A, ".." \notin A, NEW place \in Seq(A), NEW names \in Seq(A \cup {".."})
  PROVE  \A i \in 0..Len(names) : Walk(place, names)[i] \in Seq(A)
  <1> DEFINE w == Walk(place, names)
             S == {n \in Nat : n <= Len(names) => w[n] \in Seq(A)}
  <1>1. Len(names) \in Nat
    OBVIOUS
  <1>2. 0 \in S
    BY <1>1, WalkStep
  <1>3. ASSUME NEW n \in Nat, n \in S
        PROVE  n + 1 \in S
    <2> SUFFICES ASSUME n + 1 <= Len(names)
                 PROVE  w[n + 1] \in Seq(A)
      OBVIOUS
    <2>1. w[n] \in Seq(A) /\ names[n + 1] \in A \cup {".."}
      BY <1>1, <1>3, ElementOfSeq
    <2>2. w[n + 1] = Enter(w[n], names[n + 1])
      BY <1>1, WalkStep
    <2> HIDE DEF w
    <2>3. QED
      <3>1. CASE names[n + 1] # ".."
        BY <2>1, <2>2, <3>1, AppendProperties DEF Enter
      <3>2. CASE names[n + 1] = ".." /\ w[n] = <<>>
        BY <2>2, <3>2, EmptySeq DEF Enter
      <3>3. CASE names[n + 1] = ".." /\ w[n] # <<>>
        BY <2>1, <2>2, <3>3, FrontKept DEF Enter
      <3>4. QED
        BY <3>1, <3>2, <3>3
  <1>4. Nat \subseteq S
    <2> HIDE DEF S
    <2> QED BY <1>2, <1>3, SetInduction
  <1>5. QED
    BY <1>1, <1>4

LEMMA WalkClean ==
  ASSUME NEW A, ".." \notin A, NEW place \in Seq(A), NEW names \in Seq(A)
  PROVE  Join(place, names) = place \o names
  <1> DEFINE w == Walk(place, names)
             S == {n \in Nat : n <= Len(names) => w[n] = place \o SubSeq(names, 1, n)}
  <1>1. Len(names) \in Nat
    OBVIOUS
  <1>2. 0 \in S
    <2>1. w[0] = place /\ SubSeq(names, 1, 0) = <<>> /\ place \o <<>> = place
      BY <1>1, WalkStep, SubSeqEmpty, ConcatEmptySeq
    <2> HIDE DEF w
    <2>2. QED
      BY <2>1
  <1>3. ASSUME NEW n \in Nat, n \in S
        PROVE  n + 1 \in S
    <2> SUFFICES ASSUME n + 1 <= Len(names)
                 PROVE  w[n + 1] = place \o SubSeq(names, 1, n + 1)
      OBVIOUS
    <2> DEFINE front == SubSeq(names, 1, n)
               name == names[n + 1]
    <2>1. name \in A /\ name # ".."
      BY <1>1, ElementOfSeq
    <2>2. w[n + 1] = Enter(w[n], name)
      BY <1>1, WalkStep
    <2>3. w[n] = place \o front
      BY <1>3
    <2>4. front \in Seq(A)
      <3>1. \A i \in 1..n : names[i] \in A
        BY <1>1, ElementOfSeq
      <3>2. QED
        BY <3>1, SubSeqProperties
    <2>5. SubSeq(names, 1, n + 1) = front \o <<name>>
      <3>1. 1 \in 1..Len(names) /\ n + 1 \in 1..Len(names) /\ (n + 1) - 1 = n
        BY <1>1
      <3>2. SubSeq(names, 1, n + 1) = SubSeq(names, 1, (n + 1) - 1) \o <<names[n + 1]>>
        BY <3>1, SubSeqRecursiveSecond
      <3>3. QED
        BY <3>1, <3>2
    <2> HIDE DEF w, front, name
    <2>6. Enter(place \o front, name) = place \o Enter(front, name)
      <3>1. EnterAlike(place, front, name)
        BY <2>1, <2>4, EnterBelow
      <3>2. QED
        BY <3>1 DEF EnterAlike
    <2>7. Enter(front, name) = front \o <<name>>
      BY <2>1, <2>4, AppendIsConcat DEF Enter
    <2>8. QED
      BY <2>2, <2>3, <2>5, <2>6, <2>7
  <1>4. Nat \subseteq S
    <2> HIDE DEF S
    <2> QED BY <1>2, <1>3, SetInduction
  <1>5. w[Len(names)] = place \o SubSeq(names, 1, Len(names))
    BY <1>1, <1>4
  <1>6. QED
    BY <1>5, SubSeqFull DEF Join

(* Below a root the walk is the same without the root, unless it climbs above it. *)
WalksAlike(r, p, names, i) == Walk(r \o p, names)[i] = r \o Walk(p, names)[i]

LEMMA WalkTransport ==
  ASSUME NEW A, ".." \notin A, NEW r \in Seq(A), NEW p \in Seq(A), NEW names \in Seq(A \cup {".."}),
         \A i \in 1..Len(names) :
            Under(r, Walk(r \o p, names)[i]) \/ names[i] # ".." \/ Walk(p, names)[i - 1] # <<>>
  PROVE  \A i \in 0..Len(names) : WalksAlike(r, p, names, i)
  <1> DEFINE w == Walk(r \o p, names)
             v == Walk(p, names)
             S == {n \in Nat : n <= Len(names) => WalksAlike(r, p, names, n)}
  <1>1. Len(names) \in Nat
    OBVIOUS
  <1>2. 0 \in S
    BY <1>1, WalkStep DEF WalksAlike
  <1>3. ASSUME NEW n \in Nat, n \in S
        PROVE  n + 1 \in S
    <2> SUFFICES ASSUME n + 1 <= Len(names)
                 PROVE  w[n + 1] = r \o v[n + 1]
      BY DEF WalksAlike
    <2>1. w[n] = r \o v[n]
      BY <1>3 DEF WalksAlike
    <2>2. v[n] \in Seq(A) /\ names[n + 1] \in A \cup {".."}
      BY <1>1, ElementOfSeq, WalkType
    <2>3. w[n + 1] = Enter(w[n], names[n + 1]) /\ v[n + 1] = Enter(v[n], names[n + 1])
      BY <1>1, WalkStep
    <2>4. Under(r, w[n + 1]) \/ names[n + 1] # ".." \/ v[n] # <<>>
      <3>1. n + 1 \in 1..Len(names) /\ (n + 1) - 1 = n
        BY <1>1
      <3>2. QED
        BY <3>1
    <2> HIDE DEF w, v
    <2>5. CASE names[n + 1] # ".." \/ v[n] # <<>>
      <3>1. EnterAlike(r, v[n], names[n + 1])
        BY <2>2, <2>5, EnterBelow
      <3>2. QED
        BY <2>1, <2>3, <3>1 DEF EnterAlike
    <2>6. CASE names[n + 1] = ".." /\ v[n] = <<>>
      <3>1. w[n] = r
        BY <2>1, <2>6, ConcatEmptySeq
      <3>2. CASE r = <<>>
        BY <2>3, <2>6, <3>1, <3>2, ConcatEmptySeq DEF Enter
      <3>3. CASE r # <<>>
        <4>1. w[n + 1] \in Seq(A) /\ Len(w[n + 1]) = Len(r) - 1
          BY <2>3, <2>6, <3>1, <3>3, FrontKept DEF Enter
        <4>2. Len(r) <= Len(w[n + 1]) /\ Len(r) \in Nat
          BY <2>4, <2>6, <4>1, UnderIs
        <4>3. QED
          BY <4>1, <4>2
      <3>4. QED
        BY <3>2, <3>3
    <2>7. QED
      BY <2>5, <2>6
  <1>4. Nat \subseteq S
    <2> HIDE DEF S
    <2> QED BY <1>2, <1>3, SetInduction
  <1>5. QED
    BY <1>1, <1>4

-----------------------------------------------------------------------------
(***************************************************************************)
(* Types.  A run is counted when it ends, so its start must leave room.    *)
(***************************************************************************)
RoomInHistory == stage # "idle" => history < MaxHistory

TypeInv == TypeOK /\ RoomInHistory

USE ShellAssumption, EntryAssumption, SessionAssumption

LEMMA VarIsVar == \A entry \in Var : IsVar(entry)
  BY DEF IsVar

LEMMA ScalarType ==
  ASSUME NEW v \in Vals, NEW x \in BOOLEAN
  PROVE  Scalar(v, x) \in Var /\ IsVar(Scalar(v, x))
  <1>1. Scalar(v, x) \in Var
    BY DEF Scalar, Var
  <1>2. QED
    BY <1>1, VarIsVar

LEMMA AssignedType ==
  ASSUME NEW e \in Var \cup {NoVar, Unset}, NEW v \in Vals
  PROVE  Assigned(e, v) \in Var
  BY ScalarType DEF Assigned, IsVar, Var

LEMMA EffectiveEnvType ==
  ASSUME ShellTypeOK
  PROVE  EffectiveEnv \in [Names -> Vals \cup {NoVal}]
  BY DEF ShellTypeOK, EffectiveEnv, InEnviron, IsVar, Var

LEMMA ExtractEnvType ==
  ASSUME ShellTypeOK
  PROVE  ExtractEnv \in [Names -> Vals \cup {NoVal}]
  BY DEF ShellTypeOK, ExtractEnv, InEnviron, IsVar, Var

LEMMA FreshVarsType ==
  ASSUME ShellTypeOK
  PROVE  FreshVars \in [Names -> Var \cup {NoVar}]
  BY EffectiveEnvType, ScalarType DEF FreshVars

LEMMA PreambleDoneType ==
  ASSUME ShellTypeOK, NEW S \in SUBSET PreambleVars
  PROVE  PreambleDone(S) \in [Names -> Var \cup {NoVar}]
  <1>1. ASSUME NEW n \in S
        PROVE  n \in Names /\ vars[n] \in Var
    BY DEF PreambleVars, ShellTypeOK, IsVar
  <1>2. ASSUME NEW n \in S
        PROVE  vars[n].val \in Vals
    BY <1>1 DEF Var
  <1>3. ASSUME NEW n \in S
        PROVE  Assigned(FreshVars[n], vars[n].val) \in Var
    BY <1>1, <1>2, FreshVarsType, AssignedType
  <1>4. QED
    BY <1>1, <1>3, FreshVarsType DEF PreambleDone

LEMMA TypeInvInit == Init => TypeInv
  <1> SUFFICES ASSUME Init PROVE TypeInv
    OBVIOUS
  <1> USE DEF Init, ShellInit
  <1>a. WorkDir \in Dirs /\ InitEnv \in [Names -> Vals \cup {NoVal}] /\ MaxHistory \in Nat /\ MaxScript \in Nat
    BY SessionAssumption
  <1>1. ShellTypeOK
    BY <1>a DEF ShellTypeOK
  <1>2. disk \subseteq Inner
    BY SessionAssumption DEF InitialDisk
  <1>3. history \in 0 .. MaxHistory /\ script \in 0 .. MaxScript
    BY <1>a
  <1>4. QED
    BY <1>a, <1>1, <1>2, <1>3 DEF TypeInv, TypeOK, RoomInHistory

LEMMA SyncVarsType ==
  ASSUME ShellTypeOK
  PROVE  SyncVars \in [Names -> Var \cup {NoVar}]
  BY DEF ShellTypeOK, SyncVars

(* The functions the operators of ShellExecutor touch, one step each. *)
LEMMA SetVarType ==
  ASSUME ShellTypeOK, NEW n \in Names, NEW entry \in Var \cup {Unset}, SetVar(n, entry)
  PROVE  ShellTypeOK'
  BY DEF ShellTypeOK, SetVar, Executing, carried

LEMMA VarStatementType ==
  ASSUME ShellTypeOK, VarStatement
  PROVE  ShellTypeOK'
  <1>1. PICK n \in Names :
          \/ \E v \in Vals : Assign(n, v)
          \/ UnsetVar(n)
          \/ MakeArray(n)
          \/ Export(n)
          \/ MakeReadonly(n)
    BY DEF VarStatement
  <1>2. rvars[n] \in Var \cup {NoVar, Unset}
    BY DEF ShellTypeOK
  <1>3. CASE \E v \in Vals : Assign(n, v)
    BY <1>2, <1>3, AssignedType, SetVarType DEF Assign
  <1>4. CASE UnsetVar(n)
    BY <1>4, SetVarType DEF UnsetVar
  <1>5. CASE MakeArray(n)
    <2>1. rvars[n] \in Var /\ SetVar(n, [rvars[n] EXCEPT !.str = FALSE])
      BY <1>2, <1>5 DEF MakeArray, IsVar
    <2>2. [rvars[n] EXCEPT !.str = FALSE] \in Var
      BY <2>1 DEF Var
    <2>3. QED
      BY <2>1, <2>2, SetVarType
  <1>6. CASE Export(n)
    <2>1. rvars[n] \in Var /\ SetVar(n, [rvars[n] EXCEPT !.exported = TRUE])
      BY <1>2, <1>6 DEF Export, IsVar
    <2>2. [rvars[n] EXCEPT !.exported = TRUE] \in Var
      BY <2>1 DEF Var
    <2>3. QED
      BY <2>1, <2>2, SetVarType
  <1>7. CASE MakeReadonly(n)
    <2>1. rvars[n] \in Var /\ SetVar(n, [rvars[n] EXCEPT !.readonly = TRUE])
      BY <1>2, <1>7 DEF MakeReadonly, IsVar
    <2>2. [rvars[n] EXCEPT !.readonly = TRUE] \in Var
      BY <2>1 DEF Var
    <2>3. QED
      BY <2>1, <2>2, SetVarType
  <1>8. QED
    BY <1>1, <1>3, <1>4, <1>5, <1>6, <1>7

LEMMA SyncType ==
  ASSUME ShellTypeOK, Sync
  PROVE  ShellTypeOK'
  <1>1. vars' \in [Names -> Var \cup {NoVar}]
    BY SyncVarsType DEF Sync
  <1>2. QED
    BY <1>1 DEF Sync, ShellTypeOK

LEMMA RecordType ==
  ASSUME ShellTypeOK', history \in 0 .. MaxHistory, history < MaxHistory, Record
  PROVE  /\ stateEnv' \in [Names -> Vals \cup {NoVal}]
         /\ stateCwd' \in Dirs
         /\ history' \in 0 .. MaxHistory
  <1>1. stateEnv' \in [Names -> Vals \cup {NoVal}]
    BY DEF Record, ShellTypeOK, ExtractEnv, InEnviron, IsVar, Var
  <1>2. stateCwd' \in Dirs
    BY DEF Record, ShellTypeOK
  <1>3. history' \in 0 .. MaxHistory
    BY DEF Record
  <1>4. QED
    BY <1>1, <1>2, <1>3

LEMMA StatementType ==
  ASSUME TypeInv, Statement, ShellTypeOK', disk' \subseteq Inner, stage' = stage
  PROVE  TypeInv'
  <1>1. script' \in 0 .. MaxScript
    BY DEF TypeInv, TypeOK, Statement
  <1>2. QED
    BY <1>1 DEF TypeInv, TypeOK, RoomInHistory, Statement, sandbox, life

LEMMA TypeInvNext == TypeInv /\ [Next]_svars => TypeInv'
  <1> SUFFICES ASSUME TypeInv, [Next]_svars
               PROVE  TypeInv'
    OBVIOUS
  <1>a. ShellTypeOK /\ history \in 0 .. MaxHistory /\ RoomInHistory
    BY DEF TypeInv, TypeOK
  <1>1. CASE RunRefused
    <2>1. ShellTypeOK'
      BY <1>a, <1>1 DEF RunRefused, carried, runner, ShellTypeOK
    <2>2. /\ stage' = "idle" /\ history < MaxHistory /\ Record
          /\ UNCHANGED <<life, disk, script>>
      BY <1>1 DEF RunRefused, MayRun, runner
    <2>3. QED
      BY <1>a, <2>1, <2>2, RecordType DEF TypeInv, TypeOK, RoomInHistory, life
  <1>2. CASE RunBegin
    <2>1. PICK done \in BOOLEAN : NewRunner(ctxDone \/ done)
      BY <1>2 DEF RunBegin
    <2>2. stopped' \in BOOLEAN
      BY <2>1 DEF NewRunner
    <2>3. ShellTypeOK'
      BY <1>a, <2>1, <2>2, FreshVarsType DEF NewRunner, ShellTypeOK, carried
    <2>4. /\ history < MaxHistory /\ script' = 0
          /\ UNCHANGED <<stateEnv, stateCwd, history, closed, owned, ctxDone, disk>>
      BY <1>2 DEF RunBegin, MayRun, sandbox, life
    <2>5. script' \in 0 .. MaxScript
      BY <2>4
    <2>6. QED
      BY <2>3, <2>4, <2>5 DEF TypeInv, TypeOK, RoomInHistory
  <1>3. CASE RunPreamble
    <2>1. stage # "idle"
      BY <1>3 DEF RunPreamble, Preamble, CutPreamble
    <2>2. ShellTypeOK'
      <3>1. CASE Preamble
        <4>1. rvars' \in [Names -> Var \cup {NoVar, Unset}]
          BY <1>a, <3>1, PreambleDoneType DEF Preamble, Visible
        <4>2. QED
          BY <1>a, <3>1, <4>1 DEF Preamble, ShellTypeOK, carried
      <3>2. CASE CutPreamble
        <4>1. PICK S \in SUBSET PreambleVars, F \in SUBSET (funcs \cup {Cd}) :
                rvars' = PreambleDone(S) /\ rfuncs' = F
          BY <3>2 DEF CutPreamble
        <4>2. rvars' \in [Names -> Var \cup {NoVar, Unset}]
          BY <1>a, <4>1, PreambleDoneType
        <4>3. rfuncs' \subseteq FuncNames
          BY <1>a, <4>1 DEF ShellTypeOK
        <4>4. QED
          BY <1>a, <3>2, <4>2, <4>3 DEF CutPreamble, ShellTypeOK, carried
      <3>3. QED
        BY <1>3, <3>1, <3>2 DEF RunPreamble
    <2>3. QED
      BY <1>3, <2>1, <2>2 DEF RunPreamble, TypeInv, TypeOK, RoomInHistory, sandbox, life
  <1>4. CASE RunExpire
    <2>1. ShellTypeOK' /\ stage' = stage
      BY <1>a, <1>4 DEF RunExpire, Expire, ShellTypeOK, carried
    <2>2. QED
      BY <1>4, <2>1 DEF RunExpire, TypeInv, TypeOK, RoomInHistory, sandbox, life
  <1>5. CASE RunEnd
    <2>1. stage # "idle" /\ stage' = "idle" /\ Sync
      BY <1>5 DEF RunEnd, Sync
    <2>2. ShellTypeOK'
      BY <1>a, <2>1, SyncType
    <2>3. history < MaxHistory
      BY <1>a, <2>1 DEF RoomInHistory
    <2>4. /\ stateEnv' \in [Names -> Vals \cup {NoVal}]
          /\ stateCwd' \in Dirs
          /\ history' \in 0 .. MaxHistory
      BY <1>a, <1>5, <2>2, <2>3, RecordType DEF RunEnd
    <2>5. script' \in 0 .. MaxScript
      BY <1>5 DEF RunEnd
    <2>6. QED
      BY <1>5, <2>1, <2>2, <2>4, <2>5 DEF RunEnd, TypeInv, TypeOK, RoomInHistory, life
  <1>6. CASE VarStatement
    <2>1. stage' = stage
      BY <1>6 DEF VarStatement, Assign, UnsetVar, MakeArray, Export, MakeReadonly, SetVar
    <2>2. Statement /\ disk' = disk
      BY <1>6 DEF VarStatement
    <2>3. QED
      BY <1>a, <1>6, <2>1, <2>2, VarStatementType, StatementType DEF TypeInv, TypeOK
  <1>7. CASE FuncStatement
    <2>1. stage' = stage /\ ShellTypeOK'
      BY <1>a, <1>7 DEF FuncStatement, DefineFunc, UnsetFunc, ChangeFuncs, carried, ShellTypeOK
    <2>2. QED
      BY <1>7, <2>1, StatementType DEF FuncStatement, TypeInv, TypeOK
  <1>8. CASE CdStatement
    <2>1. stage' = stage /\ ShellTypeOK'
      BY <1>a, <1>8, SessionAssumption DEF CdStatement, ChangeDir, carried, ShellTypeOK
    <2>2. QED
      BY <1>8, <2>1, StatementType DEF CdStatement, TypeInv, TypeOK
  <1>9. CASE FileStatement
    <2>1. stage' = stage /\ ShellTypeOK'
      BY <1>a, <1>9 DEF FileStatement, carried, runner, ShellTypeOK
    <2>2. disk' \subseteq Inner
      BY <1>9, SessionAssumption DEF FileStatement, Put, TypeInv, TypeOK
    <2>3. QED
      BY <1>9, <2>1, <2>2, StatementType DEF FileStatement
  <1>10. CASE HostWrite
    <2>1. disk' \subseteq Inner
      BY <1>10, SessionAssumption DEF HostWrite, Put, TypeInv, TypeOK
    <2>2. UNCHANGED <<carried, runner, sandbox, life, script>>
      BY <1>10 DEF HostWrite
    <2>3. QED
      BY <2>1, <2>2
      DEF TypeInv, TypeOK, ShellTypeOK, RoomInHistory, carried, runner, sandbox, life
  <1>11. CASE SetContext
    BY <1>11 DEF SetContext, TypeInv, TypeOK, ShellTypeOK, RoomInHistory, carried, runner, sandbox
  <1>12. CASE CancelContext
    BY <1>12 DEF CancelContext, TypeInv, TypeOK, ShellTypeOK, RoomInHistory, carried, runner, sandbox
  <1>13. CASE Reset
    <2>1. ShellTypeOK'
      BY <1>a, <1>13 DEF Reset, ResetState, runner, ShellTypeOK
    <2>2. disk' \subseteq Inner
      BY <1>13, SessionAssumption DEF Reset
    <2>3. history' \in 0 .. MaxHistory /\ stage' = "idle"
      BY <1>13 DEF Reset, ResetState, runner
    <2>4. QED
      BY <1>13, <2>1, <2>2, <2>3 DEF Reset, TypeInv, TypeOK, RoomInHistory, life
  <1>14. CASE Close
    <2>1. UNCHANGED <<carried, runner, sandbox, owned, script>> /\ disk' = {}
      BY <1>14 DEF Close
    <2>2. closed' \in BOOLEAN /\ ctxDone' \in BOOLEAN
      BY <1>14 DEF Close
    <2>3. QED
      BY <2>1, <2>2 DEF TypeInv, TypeOK, ShellTypeOK, RoomInHistory, carried, runner, sandbox
  <1>15. CASE UNCHANGED svars
    BY <1>15
    DEF TypeInv, TypeOK, ShellTypeOK, RoomInHistory, svars, carried, runner, sandbox, life
  <1>16. QED
    BY <1>1, <1>2, <1>3, <1>4, <1>5, <1>6, <1>7, <1>8, <1>9, <1>10, <1>11, <1>12, <1>13,
       <1>14, <1>15
    DEF Next

(***************************************************************************)
(* The session is well-typed: in particular the merge after a run never    *)
(* stores the interpreter's entry of an unset variable in e.vars, the      *)
(* cd() shim is never kept as a function of the session, and everything    *)
(* on the disk is in the sandbox, wherever the working directory has gone. *)
(***************************************************************************)
THEOREM SessionTypeCorrect == Spec => []TypeOK
  <1>1. TypeInv => TypeOK
    BY DEF TypeInv
  <1>2. QED
    BY <1>1, TypeInvInit, TypeInvNext, PTL DEF Spec

(***************************************************************************)
(* What the next command finds of a name the session introduced is what    *)
(* can be kept of its entry in e.vars, however the entry came there.       *)
(***************************************************************************)
VisibleIsKept == \A n \in SessionNames : Visible[n] = Shell!Kept(vars[n])

LEMMA SameEntry ==
  ASSUME NEW a \in Var, NEW b \in Var,
         a.val = b.val, a.exported = b.exported, a.readonly = b.readonly, a.str = b.str
  PROVE  a = b
  BY DEF Var

LEMMA EntryParts ==
  ASSUME NEW e \in Var
  PROVE  /\ e.val \in Vals /\ e.exported \in BOOLEAN /\ e.readonly \in BOOLEAN
         /\ e.str \in BOOLEAN
         /\ e.str => [e EXCEPT !.readonly = FALSE] = Scalar(e.val, e.exported)
  <1>1. /\ e.val \in Vals /\ e.exported \in BOOLEAN /\ e.readonly \in BOOLEAN
        /\ e.str \in BOOLEAN
    BY DEF Var
  <1>2. ASSUME e.str
        PROVE  [e EXCEPT !.readonly = FALSE] = Scalar(e.val, e.exported)
    <2>1. e.str = TRUE
      BY <1>1, <1>2
    <2>2. [e EXCEPT !.readonly = FALSE] \in Var /\ Scalar(e.val, e.exported) \in Var
      BY <1>1, ScalarType DEF Var
    <2> DEFINE r == [e EXCEPT !.readonly = FALSE]
    <2>3. r.val = e.val /\ r.exported = e.exported /\ r.readonly = FALSE /\ r.str = e.str
      BY DEF Var
    <2>4. /\ Scalar(e.val, e.exported).val = e.val
          /\ Scalar(e.val, e.exported).exported = e.exported
          /\ Scalar(e.val, e.exported).readonly = FALSE
          /\ Scalar(e.val, e.exported).str = TRUE
      BY DEF Scalar
    <2> HIDE DEF r
    <2>5. r = Scalar(e.val, e.exported)
      BY <2>1, <2>2, <2>3, <2>4, SameEntry DEF r
    <2>6. QED
      BY <2>5 DEF r
  <1>3. QED
    BY <1>1, <1>2

LEMMA KeptEntry ==
  ASSUME NEW e \in Var
  PROVE  Shell!Kept(e) = IF e.str /\ ~(e.readonly /\ ~e.exported)
                         THEN Scalar(e.val, e.exported) ELSE NoVar
  <1>1. e # NoVar
    OBVIOUS
  <1>2. CASE e.str /\ ~(e.readonly /\ ~e.exported)
    BY <1>1, <1>2, EntryParts DEF Shell!Kept
  <1>3. CASE ~(e.str /\ ~(e.readonly /\ ~e.exported))
    BY <1>1, <1>3 DEF Shell!Kept
  <1>4. QED
    BY <1>2, <1>3

LEMMA KeptNone == Shell!Kept(NoVar) = NoVar
  BY DEF Shell!Kept

LEMMA KeptType == \A e \in Var \cup {NoVar} : Shell!Kept(e) \in Var \cup {NoVar}
  <1>1. ASSUME NEW e \in Var
        PROVE  Shell!Kept(e) \in Var \cup {NoVar}
    <2>1. Scalar(e.val, e.exported) \in Var
      BY EntryParts, ScalarType
    <2>2. QED
      BY <2>1, KeptEntry
  <1>2. QED
    BY <1>1, KeptNone

(* Keeping twice keeps the same: a variable does not wear off over the runs. *)
LEMMA KeptTwice == \A e \in Var \cup {NoVar} : Shell!Kept(Shell!Kept(e)) = Shell!Kept(e)
  <1>1. ASSUME NEW e \in Var
        PROVE  Shell!Kept(Shell!Kept(e)) = Shell!Kept(e)
    <2>1. CASE e.str /\ ~(e.readonly /\ ~e.exported)
      <3> DEFINE k == Scalar(e.val, e.exported)
      <3>1. Shell!Kept(e) = k /\ k \in Var
        BY <2>1, KeptEntry, EntryParts, ScalarType
      <3>2. k.str /\ ~k.readonly /\ k.val = e.val /\ k.exported = e.exported
        BY DEF Scalar
      <3>3. Shell!Kept(k) = Scalar(k.val, k.exported)
        BY <3>1, <3>2, KeptEntry
      <3>4. QED
        BY <3>1, <3>2, <3>3
    <2>2. CASE ~(e.str /\ ~(e.readonly /\ ~e.exported))
      BY <2>2, KeptEntry, KeptNone
    <2>3. QED
      BY <2>1, <2>2
  <1>2. QED
    BY <1>1, KeptNone

(* The entry of a session name in a fresh interpreter: only exported strings. *)
LEMMA FreshEntry ==
  ASSUME ShellTypeOK, base = InitEnv, NEW n \in SessionNames
  PROVE  FreshVars[n] = IF InEnviron(vars[n]) THEN Scalar(vars[n].val, TRUE) ELSE NoVar
  <1>1. n \in Names /\ base[n] = NoVal /\ vars[n] \in Var \cup {NoVar}
    BY DEF SessionNames, ShellTypeOK
  <1>2. vars[n] # Unset
    BY <1>1
  <1>3. EffectiveEnv[n] = IF InEnviron(vars[n]) THEN vars[n].val ELSE NoVal
    BY <1>1, <1>2 DEF EffectiveEnv
  <1>4. InEnviron(vars[n]) => vars[n].val \in Vals
    BY <1>1, EntryParts DEF InEnviron, IsVar
  <1>5. QED
    BY <1>1, <1>3, <1>4 DEF FreshVars

LEMMA VisibleKept == ShellTypeOK /\ base = InitEnv => VisibleIsKept
  <1> SUFFICES ASSUME ShellTypeOK, base = InitEnv, NEW n \in SessionNames
               PROVE  Visible[n] = Shell!Kept(vars[n])
    BY DEF VisibleIsKept
  <1>1. n \in Names /\ vars[n] \in Var \cup {NoVar}
    BY DEF SessionNames, ShellTypeOK
  <1>2. Visible[n] = IF n \in PreambleVars THEN Assigned(FreshVars[n], vars[n].val)
                     ELSE FreshVars[n]
    BY <1>1 DEF Visible, PreambleDone
  <1>3. CASE vars[n] = NoVar
    BY <1>1, <1>2, <1>3, FreshEntry, KeptNone DEF PreambleVars, InEnviron, IsVar
  <1>4. CASE vars[n] \in Var
    <2>1. IsVar(vars[n])
      BY <1>4, VarIsVar
    <2>2. CASE n \in PreambleVars
      <3>1. ~vars[n].exported /\ ~vars[n].readonly /\ vars[n].str
        BY <2>2 DEF PreambleVars
      <3>2. FreshVars[n] = NoVar
        BY <3>1, FreshEntry DEF InEnviron
      <3>3. Visible[n] = Scalar(vars[n].val, FALSE)
        BY <1>2, <2>2, <3>2 DEF Assigned, IsVar
      <3>4. vars[n].exported = FALSE
        BY <1>4, <3>1, EntryParts
      <3>5. QED
        BY <1>4, <3>1, <3>3, <3>4, KeptEntry
    <2>3. CASE n \notin PreambleVars
      <3>1. Visible[n] = FreshVars[n]
        BY <1>2, <2>3
      <3>2. ~(~vars[n].exported /\ ~vars[n].readonly /\ vars[n].str)
        BY <1>1, <2>1, <2>3 DEF PreambleVars
      <3>3. CASE vars[n].exported /\ vars[n].str
        <4>1. vars[n].exported = TRUE
          BY <1>4, <3>3, EntryParts
        <4>2. QED
          BY <1>4, <2>1, <3>1, <3>3, <4>1, FreshEntry, KeptEntry DEF InEnviron
      <3>4. CASE ~(vars[n].exported /\ vars[n].str)
        BY <1>4, <3>1, <3>2, <3>4, FreshEntry, KeptEntry DEF InEnviron
      <3>5. QED
        BY <3>3, <3>4
    <2>4. QED
      BY <2>2, <2>3
  <1>5. QED
    BY <1>1, <1>3, <1>4

(***************************************************************************)
(* The host's view: it is recomputed after every run, and Reset, the only  *)
(* other operation that changes the shell, rebuilds both.                  *)
(***************************************************************************)
HostView ==
    /\ base = InitEnv
    /\ stateEnv = ExtractEnv
    /\ stateCwd = dir

LEMMA EmptyExtract ==
  vars = [n \in Names |-> NoVar] /\ base = InitEnv => ExtractEnv = InitEnv
  BY DEF ExtractEnv, InEnviron, IsVar

LEMMA HostViewInit == Init => HostView
  BY EmptyExtract DEF Init, ShellInit, HostView

LEMMA VisibleKeptNext == (ShellTypeOK /\ base = InitEnv => VisibleIsKept)'
  BY VisibleKept, PTL

LEMMA EmptyExtractNext ==
  (vars = [n \in Names |-> NoVar] /\ base = InitEnv => ExtractEnv = InitEnv)'
  BY EmptyExtract, PTL

(* Between the start and the end of a run the carried state stands still. *)
Quiet == RunBegin \/ RunPreamble \/ RunExpire \/ VarStatement \/ FuncStatement \/ CdStatement
           \/ FileStatement \/ HostWrite \/ SetContext \/ CancelContext \/ Close

LEMMA QuietKeeps ==
  ASSUME Quiet \/ UNCHANGED svars
  PROVE  UNCHANGED <<base, vars, dir, funcs, stateEnv, stateCwd>>
  <1>1. CASE RunBegin
    BY <1>1 DEF RunBegin, NewRunner, carried, sandbox
  <1>2. CASE RunPreamble
    BY <1>2 DEF RunPreamble, Preamble, CutPreamble, carried, sandbox
  <1>3. CASE RunExpire
    BY <1>3 DEF RunExpire, Expire, carried, sandbox
  <1>4. CASE VarStatement
    BY <1>4
    DEF VarStatement, Statement, Assign, UnsetVar, MakeArray, Export, MakeReadonly, SetVar,
        carried, sandbox
  <1>5. CASE FuncStatement
    BY <1>5 DEF FuncStatement, Statement, DefineFunc, UnsetFunc, ChangeFuncs, carried, sandbox
  <1>6. CASE CdStatement
    BY <1>6 DEF CdStatement, Statement, ChangeDir, carried, sandbox
  <1>7. CASE FileStatement
    BY <1>7 DEF FileStatement, Statement, carried, sandbox
  <1>8. CASE HostWrite \/ SetContext \/ CancelContext \/ Close
    BY <1>8 DEF HostWrite, SetContext, CancelContext, Close, carried, sandbox
  <1>9. CASE UNCHANGED svars
    BY <1>9 DEF svars, carried, sandbox
  <1>10. QED
    BY <1>1, <1>2, <1>3, <1>4, <1>5, <1>6, <1>7, <1>8, <1>9 DEF Quiet

LEMMA HostViewNext == HostView /\ [Next]_svars => HostView'
  <1> SUFFICES ASSUME HostView, [Next]_svars
               PROVE  HostView'
    OBVIOUS
  <1>1. CASE RunRefused
    BY <1>1 DEF RunRefused, Record, carried, HostView
  <1>2. CASE RunEnd
    BY <1>2 DEF RunEnd, Sync, Record, HostView
  <1>3. CASE Reset
    BY <1>3, EmptyExtractNext DEF Reset, ResetState, HostView
  <1>4. CASE Quiet \/ UNCHANGED svars
    <2>1. UNCHANGED <<base, vars, dir, stateEnv, stateCwd>>
      BY <1>4, QuietKeeps
    <2>2. ExtractEnv' = ExtractEnv
      BY <2>1 DEF ExtractEnv
    <2>3. QED
      BY <2>1, <2>2 DEF HostView
  <1>5. QED
    BY <1>1, <1>2, <1>3, <1>4 DEF Next, Quiet

LEMMA HostViewMirrors ==
  ASSUME TypeInv, HostView
  PROVE  StateMirrorsShell
  <1>1. VisibleIsKept
    BY VisibleKept DEF TypeInv, TypeOK, HostView
  <1>2. ASSUME NEW n \in SessionNames
        PROVE  stateEnv[n] = IF IsVar(Visible[n]) /\ Visible[n].exported
                             THEN Visible[n].val ELSE NoVal
    <2>1. n \in Names /\ base[n] = NoVal /\ vars[n] \in Var \cup {NoVar}
      BY DEF SessionNames, HostView, TypeInv, TypeOK, ShellTypeOK
    <2>2. stateEnv[n] = IF InEnviron(vars[n]) THEN vars[n].val ELSE NoVal
      <3>1. vars[n] # Unset
        BY <2>1
      <3>2. stateEnv[n] = ExtractEnv[n]
        BY DEF HostView
      <3>3. ExtractEnv[n] = IF InEnviron(vars[n]) THEN vars[n].val ELSE NoVal
        <4>1. CASE InEnviron(vars[n])
          <5>1. vars[n].exported
            BY <4>1 DEF InEnviron
          <5>2. QED
            BY <2>1, <3>1, <4>1, <5>1 DEF ExtractEnv
        <4>2. CASE ~InEnviron(vars[n]) /\ IsVar(vars[n]) /\ ~vars[n].exported
          BY <2>1, <3>1, <4>2 DEF ExtractEnv
        <4>3. CASE ~InEnviron(vars[n]) /\ ~(IsVar(vars[n]) /\ ~vars[n].exported)
          BY <2>1, <3>1, <4>3 DEF ExtractEnv
        <4>4. QED
          BY <4>1, <4>2, <4>3
      <3>4. QED
        BY <3>2, <3>3
    <2>3. Visible[n] = Shell!Kept(vars[n])
      BY <1>1 DEF VisibleIsKept
    <2>4. CASE vars[n] = NoVar
      BY <2>2, <2>3, <2>4, KeptNone DEF InEnviron, IsVar
    <2>5. CASE vars[n] \in Var
      <3> DEFINE e == vars[n]
                 k == Scalar(e.val, e.exported)
      <3>1. IsVar(e) /\ e.val \in Vals /\ e.exported \in BOOLEAN
        BY <2>5, VarIsVar, EntryParts
      <3>2. IsVar(k) /\ k.exported = e.exported /\ k.val = e.val
        BY <3>1, ScalarType DEF Scalar
      <3>3. Visible[n] = IF e.str /\ ~(e.readonly /\ ~e.exported) THEN k ELSE NoVar
        BY <2>3, <2>5, KeptEntry
      <3>4. ~IsVar(NoVar)
        BY DEF IsVar
      <3>5. stateEnv[n] = IF e.exported /\ e.str THEN e.val ELSE NoVal
        BY <2>2, <3>1 DEF InEnviron
      <3> HIDE DEF k, e
      <3>6. CASE e.exported /\ e.str
        BY <3>2, <3>3, <3>5, <3>6
      <3>7. CASE ~(e.exported /\ e.str)
        BY <3>2, <3>3, <3>4, <3>5, <3>7
      <3>8. QED
        BY <3>6, <3>7
    <2>6. QED
      BY <2>1, <2>4, <2>5
  <1>3. QED
    BY <1>2 DEF StateMirrorsShell, HostView

(***************************************************************************)
(* State() shows the host what the next command finds: working directory   *)
(* and exported variables, after any sequence of runs, failed runs and     *)
(* Resets, for the names the session introduced.                           *)
(***************************************************************************)
THEOREM HostSeesShell == Spec => []StateMirrorsShell
  <1>1. TypeInv /\ HostView => StateMirrorsShell
    BY HostViewMirrors
  <1>2. QED
    BY <1>1, TypeInvInit, TypeInvNext, HostViewInit, HostViewNext, PTL DEF Spec

(***************************************************************************)
(* The refinement of PersistentShell.  Outside a command the shell's       *)
(* variables are what can be kept of e.vars; RunInv says what a run that   *)
(* is under way has to do with them.                                       *)
(***************************************************************************)
RunInv ==
    /\ stage \in {"preamble", "cut"} => rdir = dir
    /\ stage = "script" =>
          \A n \in SessionNames : rvars[n] = NoVar => Shell!Kept(vars[n]) = NoVar
    /\ stage = "cut" =>
          \A n \in SessionNames : rvars[n] = NoVar \/ rvars[n] = Shell!Kept(vars[n])

SessionInv == TypeInv /\ HostView /\ RunInv

LEMMA RunInvInit == Init => RunInv
  BY DEF Init, ShellInit, RunInv

(* A preamble that is cut off has assigned some variables and left others. *)
LEMMA CutEntry ==
  ASSUME ShellTypeOK, base = InitEnv, NEW S \in SUBSET PreambleVars, NEW n \in SessionNames
  PROVE  PreambleDone(S)[n] = NoVar \/ PreambleDone(S)[n] = Shell!Kept(vars[n])
  <1>1. n \in Names /\ Visible[n] = Shell!Kept(vars[n])
    BY VisibleKept DEF VisibleIsKept, SessionNames
  <1>2. CASE n \in S
    BY <1>1, <1>2 DEF Visible, PreambleDone
  <1>3. CASE n \notin S /\ n \notin PreambleVars
    BY <1>1, <1>3 DEF Visible, PreambleDone
  <1>4. CASE n \notin S /\ n \in PreambleVars
    <2>1. ~InEnviron(vars[n])
      BY <1>4 DEF PreambleVars, InEnviron
    <2>2. PreambleDone(S)[n] = FreshVars[n]
      BY <1>1, <1>4 DEF PreambleDone
    <2>3. QED
      BY <2>1, <2>2, FreshEntry
  <1>5. QED
    BY <1>2, <1>3, <1>4

LEMMA SetVarRunInv ==
  ASSUME ShellTypeOK, RunInv, NEW m \in Names, NEW entry \in Var \cup {Unset}, SetVar(m, entry)
  PROVE  RunInv'
  <1>1. stage = "script" /\ stage' = "script" /\ vars' = vars
    BY DEF SetVar, Executing, carried
  <1>2. rvars' = [rvars EXCEPT ![m] = entry] /\ rvars \in [Names -> Var \cup {NoVar, Unset}]
    BY DEF SetVar, ShellTypeOK
  <1>3. ASSUME NEW n \in SessionNames, rvars'[n] = NoVar
        PROVE  Shell!Kept(vars'[n]) = NoVar
    <2>1. n # m
      BY <1>2, <1>3
    <2>2. rvars[n] = NoVar
      BY <1>2, <1>3, <2>1 DEF SessionNames
    <2>3. QED
      BY <1>1, <2>2 DEF RunInv
  <1>4. QED
    BY <1>1, <1>3 DEF RunInv

(* A statement that changes a variable leaves an entry for it. *)
LEMMA VarStatementSets ==
  ASSUME ShellTypeOK, VarStatement
  PROVE  \E n \in Names, entry \in Var \cup {Unset} : SetVar(n, entry)
  <1>1. PICK n \in Names :
          \/ \E v \in Vals : Assign(n, v)
          \/ UnsetVar(n)
          \/ MakeArray(n)
          \/ Export(n)
          \/ MakeReadonly(n)
    BY DEF VarStatement
  <1>2. rvars[n] \in Var \cup {NoVar, Unset}
    BY DEF ShellTypeOK
  <1>3. CASE \E v \in Vals : Assign(n, v)
    BY <1>2, <1>3, AssignedType DEF Assign
  <1>4. CASE UnsetVar(n)
    BY <1>4 DEF UnsetVar
  <1>5. CASE MakeArray(n) \/ Export(n) \/ MakeReadonly(n)
    <2>1. rvars[n] \in Var
      BY <1>2, <1>5 DEF MakeArray, Export, MakeReadonly, IsVar
    <2>2. /\ [rvars[n] EXCEPT !.str = FALSE] \in Var
          /\ [rvars[n] EXCEPT !.exported = TRUE] \in Var
          /\ [rvars[n] EXCEPT !.readonly = TRUE] \in Var
      BY <2>1 DEF Var
    <2>3. QED
      BY <1>5, <2>2 DEF MakeArray, Export, MakeReadonly
  <1>6. QED
    BY <1>1, <1>3, <1>4, <1>5

LEMMA RunInvNext == SessionInv /\ [Next]_svars => RunInv'
  <1> SUFFICES ASSUME SessionInv, [Next]_svars
               PROVE  RunInv'
    OBVIOUS
  <1>a. ShellTypeOK /\ base = InitEnv /\ RunInv
    BY DEF SessionInv, TypeInv, TypeOK, HostView
  <1>1. CASE RunRefused
    BY <1>a, <1>1 DEF RunRefused, carried, runner, RunInv
  <1>2. CASE RunBegin
    BY <1>2 DEF RunBegin, NewRunner, carried, RunInv
  <1>3. CASE RunPreamble
    <2>1. CASE Preamble
      <3>1. ASSUME NEW n \in SessionNames, rvars'[n] = NoVar
            PROVE  Shell!Kept(vars'[n]) = NoVar
        BY <1>a, <2>1, <3>1, VisibleKept DEF Preamble, VisibleIsKept, carried
      <3>2. QED
        BY <2>1, <3>1 DEF Preamble, RunInv
    <2>2. CASE CutPreamble
      <3>1. PICK S \in SUBSET PreambleVars : rvars' = PreambleDone(S)
        BY <2>2 DEF CutPreamble
      <3>2. stage = "preamble" /\ stage' = "cut" /\ rdir' = rdir /\ vars' = vars /\ dir' = dir
        BY <2>2 DEF CutPreamble, carried
      <3>3. \A n \in SessionNames : rvars'[n] = NoVar \/ rvars'[n] = Shell!Kept(vars'[n])
        BY <1>a, <3>1, <3>2, CutEntry
      <3>4. QED
        BY <1>a, <3>2, <3>3 DEF RunInv
    <2>3. QED
      BY <1>3, <2>1, <2>2 DEF RunPreamble
  <1>4. CASE RunExpire
    BY <1>a, <1>4 DEF RunExpire, Expire, carried, RunInv
  <1>5. CASE RunEnd
    BY <1>5 DEF RunEnd, Sync, RunInv
  <1>6. CASE VarStatement
    BY <1>a, <1>6, VarStatementSets, SetVarRunInv
  <1>7. CASE FuncStatement
    BY <1>a, <1>7 DEF FuncStatement, DefineFunc, UnsetFunc, ChangeFuncs, carried, RunInv
  <1>8. CASE CdStatement
    BY <1>a, <1>8 DEF CdStatement, ChangeDir, Executing, carried, RunInv
  <1>9. CASE FileStatement
    BY <1>a, <1>9 DEF FileStatement, carried, runner, RunInv
  <1>10. CASE Reset
    BY <1>10 DEF Reset, ResetState, runner, RunInv
  <1>11. CASE HostWrite \/ SetContext \/ CancelContext \/ Close
    BY <1>a, <1>11 DEF HostWrite, SetContext, CancelContext, Close, carried, runner, RunInv
  <1>12. CASE UNCHANGED svars
    BY <1>a, <1>12 DEF svars, carried, runner, RunInv
  <1>13. QED
    BY <1>1, <1>2, <1>3, <1>4, <1>5, <1>6, <1>7, <1>8, <1>9, <1>10, <1>11, <1>12 DEF Next

(* The variables of the one shell, outside a command and inside one. *)
LEMMA EnvOutside ==
  ShellTypeOK /\ base = InitEnv /\ stage # "script" =>
     /\ ShellEnv = [n \in SessionNames |-> Shell!Kept(vars[n])]
     /\ ShellCwd = dir
  <1> SUFFICES ASSUME ShellTypeOK, base = InitEnv, stage # "script"
               PROVE  /\ ShellEnv = [n \in SessionNames |-> Shell!Kept(vars[n])]
                      /\ ShellCwd = dir
    OBVIOUS
  <1>1. ASSUME NEW n \in SessionNames
        PROVE  ShellVars[n] = Shell!Kept(vars[n])
    BY VisibleKept DEF VisibleIsKept, ShellVars
  <1>2. ASSUME NEW n \in SessionNames
        PROVE  Shell!Kept(vars[n]) \in Var \cup {NoVar}
    BY KeptType DEF ShellTypeOK, SessionNames
  <1>3. ASSUME NEW n \in SessionNames
        PROVE  (IF IsVar(ShellVars[n]) THEN ShellVars[n] ELSE NoVar) = Shell!Kept(vars[n])
    BY <1>1, <1>2, VarIsVar DEF IsVar
  <1>4. QED
    BY <1>3 DEF ShellEnv, ShellCwd

LEMMA EnvInside ==
  stage = "script" =>
     /\ ShellEnv = [n \in SessionNames |-> IF IsVar(rvars[n]) THEN rvars[n] ELSE NoVar]
     /\ ShellCwd = rdir
  BY DEF ShellEnv, ShellCwd, ShellVars

LEMMA EnvOutsideNext ==
  (ShellTypeOK /\ base = InitEnv /\ stage # "script" =>
     /\ ShellEnv = [n \in SessionNames |-> Shell!Kept(vars[n])]
     /\ ShellCwd = dir)'
  BY EnvOutside, PTL

LEMMA EnvInsideNext ==
  (stage = "script" =>
     /\ ShellEnv = [n \in SessionNames |-> IF IsVar(rvars[n]) THEN rvars[n] ELSE NoVar]
     /\ ShellCwd = rdir)'
  BY EnvInside, PTL

LEMMA ShellInits == Init => Shell!PInit
  <1> SUFFICES ASSUME Init PROVE Shell!PInit
    OBVIOUS
  <1>1. ShellTypeOK /\ base = InitEnv /\ stage = "idle"
    BY TypeInvInit DEF TypeInv, TypeOK, Init, ShellInit
  <1>2. \A n \in SessionNames : vars[n] = NoVar
    BY DEF Init, ShellInit, SessionNames
  <1>3. ShellEnv = [n \in SessionNames |-> NoVar] /\ ShellCwd = WorkDir
    BY <1>1, <1>2, EnvOutside, KeptNone DEF Init, ShellInit
  <1>4. QED
    BY <1>1, <1>3 DEF Shell!PInit

(* The interpreter's entries, and what the session makes of them at the end of a run. *)
LEMMA Merged ==
  ASSUME ShellTypeOK, NEW n \in SessionNames
  PROVE  /\ vars[n] \in Var \cup {NoVar} /\ rvars[n] \in Var \cup {NoVar, Unset}
         /\ SyncVars[n] = IF rvars[n] = NoVar THEN vars[n]
                          ELSE IF rvars[n] = Unset THEN NoVar ELSE rvars[n]
  BY DEF ShellTypeOK, SessionNames, SyncVars

LEMMA RunEndViews ==
  ASSUME SessionInv, ShellTypeOK', RunEnd
  PROVE  /\ stage \in {"script", "cut"} /\ stage' = "idle"
         /\ ShellEnv' = [n \in SessionNames |-> Shell!Kept(SyncVars[n])]
         /\ ShellCwd' = rdir
  <1>1. ShellTypeOK /\ base = InitEnv
    BY DEF SessionInv, TypeInv, TypeOK, HostView
  <1>2. /\ stage \in {"script", "cut"} /\ stage' = "idle" /\ base' = base
        /\ vars' = SyncVars /\ dir' = rdir
    BY DEF RunEnd, Sync
  <1>3. QED
    BY <1>1, <1>2, EnvOutsideNext

(* A variable outlives the command that left it, whether it is exported or not, without the *)
(* attributes that no new interpreter can be given.                                         *)
KeepsVariables ==
    stage = "script" /\ stage' = "idle"
        => ShellEnv' = [n \in SessionNames |-> Shell!Kept(ShellEnv[n])]

LEMMA CommandKept ==
  ASSUME SessionInv, ShellTypeOK', RunEnd, stage = "script"
  PROVE  /\ ShellEnv' = [n \in SessionNames |-> Shell!Kept(ShellEnv[n])]
         /\ ShellCwd' = ShellCwd
  <1>1. ShellTypeOK /\ RunInv
    BY DEF SessionInv, TypeInv, TypeOK
  <1>2. /\ ShellEnv = [n \in SessionNames |-> IF IsVar(rvars[n]) THEN rvars[n] ELSE NoVar]
        /\ ShellCwd = rdir
    BY EnvInside
  <1>3. ASSUME NEW n \in SessionNames
        PROVE  Shell!Kept(SyncVars[n]) = Shell!Kept(ShellEnv[n])
    <2>1. CASE rvars[n] = NoVar
      BY <1>1, <1>2, <2>1, Merged, KeptNone DEF RunInv, IsVar
    <2>2. CASE rvars[n] = Unset
      BY <1>1, <1>2, <2>2, Merged, KeptNone DEF IsVar
    <2>3. CASE rvars[n] \in Var
      BY <1>1, <1>2, <2>3, Merged, VarIsVar
    <2>4. QED
      BY <1>1, <2>1, <2>2, <2>3, Merged
  <1>4. QED
    BY <1>2, <1>3, RunEndViews

(* The end of a command, and of a run that never reached it. *)
LEMMA RunEndImplements ==
  ASSUME SessionInv, ShellTypeOK', RunEnd
  PROVE  [Shell!PNext]_Shell!pvars
  <1>a. ShellTypeOK /\ base = InitEnv /\ RunInv
    BY DEF SessionInv, TypeInv, TypeOK, HostView
  <1>1. /\ stage \in {"script", "cut"} /\ stage' = "idle"
        /\ ShellEnv' = [n \in SessionNames |-> Shell!Kept(SyncVars[n])]
        /\ ShellCwd' = rdir
    BY RunEndViews
  <1>2. CASE stage = "script"
    <2>1. {} \in SUBSET {n \in SessionNames : ShellEnv[n] # NoVar /\ ~ShellEnv[n].exported}
      OBVIOUS
    <2>2. /\ ShellEnv' = [n \in SessionNames |-> IF n \in {} THEN NoVar ELSE Shell!Kept(ShellEnv[n])]
          /\ ShellCwd' = ShellCwd
      BY <1>2, CommandKept
    <2>3. \E lost \in SUBSET {n \in SessionNames : ShellEnv[n] # NoVar /\ ~ShellEnv[n].exported} :
             ShellEnv' = [n \in SessionNames |-> IF n \in lost THEN NoVar ELSE Shell!Kept(ShellEnv[n])]
      BY Zenon, <2>1, <2>2
    <2>4. Shell!Finish
      BY <1>1, <1>2, <2>2, <2>3 DEF Shell!Finish
    <2>5. QED
      BY <2>4 DEF Shell!PNext
  <1>3. CASE stage = "cut"
    <2>1. /\ ShellEnv = [n \in SessionNames |-> Shell!Kept(vars[n])]
          /\ ShellCwd = dir /\ rdir = dir
      BY <1>a, <1>3, EnvOutside DEF RunInv
    <2>2. ASSUME NEW n \in SessionNames
          PROVE  Shell!Kept(SyncVars[n]) = Shell!Kept(vars[n])
      <3>1. CASE rvars[n] = NoVar
        BY <1>a, <3>1, Merged
      <3>2. CASE rvars[n] # NoVar
        <4>1. rvars[n] = Shell!Kept(vars[n])
          BY <1>a, <1>3, <3>2 DEF RunInv
        <4>2. rvars[n] # Unset
          BY <1>a, <4>1, Merged, KeptType
        <4>3. SyncVars[n] = Shell!Kept(vars[n])
          BY <1>a, <3>2, <4>1, <4>2, Merged
        <4>4. QED
          BY <1>a, <4>3, Merged, KeptTwice
      <3>3. QED
        BY <3>1, <3>2
    <2>3. ShellEnv' = ShellEnv /\ ShellCwd' = ShellCwd
      BY <1>1, <2>1, <2>2
    <2>4. (stage = "script")' = (stage = "script")
      BY <1>1, <1>3
    <2>5. QED
      BY <2>3, <2>4 DEF Shell!pvars
  <1>4. QED
    BY <1>1, <1>2, <1>3

LEMMA StandingStill ==
  ASSUME UNCHANGED <<base, vars, dir, stage, rvars, rdir>>
  PROVE  UNCHANGED Shell!pvars
  <1>1. Visible' = Visible
    BY DEF Visible, PreambleDone, FreshVars, EffectiveEnv, PreambleVars
  <1>2. ShellVars' = ShellVars /\ ShellCwd' = ShellCwd
    BY <1>1 DEF ShellVars, ShellCwd
  <1>3. ShellEnv' = ShellEnv
    BY <1>2 DEF ShellEnv
  <1>4. (stage = "script")' = (stage = "script")
    OBVIOUS
  <1>5. QED
    BY <1>2, <1>3, <1>4 DEF Shell!pvars

(* Whatever the run does before its command, the shell does nothing. *)
LEMMA OutsideStill ==
  ASSUME ShellTypeOK, ShellTypeOK', base = InitEnv, stage # "script", stage' # "script",
         UNCHANGED <<base, vars, dir>>
  PROVE  UNCHANGED Shell!pvars
  <1>1. /\ ShellEnv = [n \in SessionNames |-> Shell!Kept(vars[n])]
        /\ ShellCwd = dir
    BY EnvOutside
  <1>2. /\ ShellEnv' = [n \in SessionNames |-> Shell!Kept(vars[n])]
        /\ ShellCwd' = dir
    BY EnvOutsideNext
  <1>3. (stage = "script")' = (stage = "script")
    OBVIOUS
  <1>4. QED
    BY <1>1, <1>2, <1>3 DEF Shell!pvars

LEMMA PreambleImplements ==
  ASSUME SessionInv, Preamble
  PROVE  Shell!PNext
  <1>1. rdir = dir
    BY DEF SessionInv, RunInv, Preamble
  <1>2. ShellVars' = ShellVars /\ ShellCwd' = ShellCwd
    BY <1>1 DEF Preamble, ShellVars, ShellCwd
  <1>3. ShellEnv' = ShellEnv
    BY <1>2 DEF ShellEnv
  <1>4. Shell!Start
    BY <1>2, <1>3 DEF Preamble, Shell!Start
  <1>5. QED
    BY <1>4 DEF Shell!PNext

LEMMA SetVarImplements ==
  ASSUME ShellTypeOK, NEW m \in Names, NEW entry \in Var \cup {Unset}, SetVar(m, entry)
  PROVE  [Shell!PNext]_Shell!pvars
  <1>1. /\ stage = "script" /\ stage' = "script" /\ rdir' = rdir
        /\ rvars' = [rvars EXCEPT ![m] = entry] /\ rvars \in [Names -> Var \cup {NoVar, Unset}]
    BY DEF SetVar, Executing, ShellTypeOK
  <1>2. /\ ShellEnv = [n \in SessionNames |-> IF IsVar(rvars[n]) THEN rvars[n] ELSE NoVar]
        /\ ShellEnv' = [n \in SessionNames |-> IF IsVar(rvars'[n]) THEN rvars'[n] ELSE NoVar]
        /\ ShellCwd' = ShellCwd
    BY <1>1, EnvInside, EnvInsideNext
  <1>3. ASSUME NEW n \in SessionNames \ {m}
        PROVE  ShellEnv'[n] = ShellEnv[n]
    BY <1>1, <1>2 DEF SessionNames
  <1>4. (stage = "script")' = (stage = "script")
    BY <1>1
  <1>5. CASE m \in SessionNames
    <2>1. Shell!ChangeVar(m)
      BY <1>1, <1>2, <1>3, <1>4 DEF Shell!ChangeVar
    <2>2. QED
      BY <1>5, <2>1 DEF Shell!PNext
  <1>6. CASE m \notin SessionNames
    <2>1. ShellEnv' = ShellEnv
      BY <1>2, <1>3, <1>6
    <2>2. QED
      BY <1>2, <1>4, <2>1 DEF Shell!pvars
  <1>7. QED
    BY <1>5, <1>6

LEMMA CdImplements ==
  ASSUME CdStatement
  PROVE  Shell!PNext
  <1>1. PICK d \in Dirs : ChangeDir(d)
    BY SessionAssumption DEF CdStatement
  <1>2. stage = "script" /\ stage' = "script" /\ rvars' = rvars /\ rdir' = d
    BY <1>1 DEF ChangeDir, Executing
  <1>3. ShellEnv' = ShellEnv /\ ShellCwd' \in Dirs
    BY <1>2, EnvInside, EnvInsideNext
  <1>4. Shell!Move
    BY <1>2, <1>3 DEF Shell!Move
  <1>5. QED
    BY <1>4 DEF Shell!PNext

LEMMA ResetImplements ==
  ASSUME ShellTypeOK', Reset
  PROVE  Shell!PNext
  <1>1. /\ stage = "idle" /\ stage' = "idle" /\ base' = InitEnv /\ dir' = WorkDir
        /\ vars' = [n \in Names |-> NoVar]
    BY DEF Reset, ResetState, runner
  <1>2. /\ ShellEnv' = [n \in SessionNames |-> Shell!Kept(vars'[n])]
        /\ ShellCwd' = WorkDir
    BY <1>1, EnvOutsideNext
  <1>3. ShellEnv' = [n \in SessionNames |-> NoVar]
    BY <1>1, <1>2, KeptNone DEF SessionNames
  <1>4. Shell!StartOver
    BY <1>1, <1>2, <1>3 DEF Shell!StartOver
  <1>5. QED
    BY <1>4 DEF Shell!PNext

LEMMA StepImplements ==
  SessionInv /\ TypeInv' /\ [Next]_svars => [Shell!PNext]_Shell!pvars
  <1> SUFFICES ASSUME SessionInv, TypeInv', [Next]_svars
               PROVE  [Shell!PNext]_Shell!pvars
    OBVIOUS
  <1>a. ShellTypeOK /\ ShellTypeOK' /\ base = InitEnv
    BY DEF SessionInv, TypeInv, TypeOK, HostView
  <1>1. CASE RunRefused \/ HostWrite \/ SetContext \/ CancelContext \/ Close
    <2>1. UNCHANGED <<base, vars, dir, stage, rvars, rdir>>
      BY <1>1 DEF RunRefused, HostWrite, SetContext, CancelContext, Close, carried, runner
    <2>2. QED
      BY <2>1, StandingStill
  <1>2. CASE RunBegin
    <2>1. stage # "script" /\ stage' # "script" /\ UNCHANGED <<base, vars, dir>>
      BY <1>2 DEF RunBegin, NewRunner, carried
    <2>2. QED
      BY <1>a, <2>1, OutsideStill
  <1>3. CASE RunPreamble
    <2>1. CASE Preamble
      BY <2>1, PreambleImplements
    <2>2. CASE CutPreamble
      <3>1. stage # "script" /\ stage' # "script" /\ UNCHANGED <<base, vars, dir>>
        BY <2>2 DEF CutPreamble, carried
      <3>2. QED
        BY <1>a, <3>1, OutsideStill
    <2>3. QED
      BY <1>3, <2>1, <2>2 DEF RunPreamble
  <1>4. CASE RunExpire
    <2>1. UNCHANGED <<base, vars, dir, stage, rvars, rdir>>
      BY <1>4 DEF RunExpire, Expire, carried
    <2>2. QED
      BY <2>1, StandingStill
  <1>5. CASE RunEnd
    BY <1>a, <1>5, RunEndImplements
  <1>6. CASE VarStatement
    BY <1>a, <1>6, VarStatementSets, SetVarImplements
  <1>7. CASE FuncStatement \/ FileStatement
    <2>1. UNCHANGED <<base, vars, dir, stage, rvars, rdir>>
      BY <1>7
      DEF FuncStatement, DefineFunc, UnsetFunc, ChangeFuncs, FileStatement, carried, runner
    <2>2. QED
      BY <2>1, StandingStill
  <1>8. CASE CdStatement
    BY <1>8, CdImplements
  <1>9. CASE Reset
    BY <1>a, <1>9, ResetImplements
  <1>10. CASE UNCHANGED svars
    <2>1. UNCHANGED <<base, vars, dir, stage, rvars, rdir>>
      BY <1>10 DEF svars, carried, runner
    <2>2. QED
      BY <2>1, StandingStill
  <1>11. QED
    BY <1>1, <1>2, <1>3, <1>4, <1>5, <1>6, <1>7, <1>8, <1>9, <1>10 DEF Next

(***************************************************************************)
(* The sandbox implements one persistent shell: whatever runs are refused, *)
(* time out or are cancelled, before, in or after the preamble, and        *)
(* whenever the sandbox is closed, a command finds the variables and the   *)
(* working directory that the previous command left, after what cannot be  *)
(* kept is forgotten once.                                                 *)
(***************************************************************************)
THEOREM SessionImplementsShell == Spec => PersistentShellSpec
  <1>1. Init => SessionInv
    BY TypeInvInit, HostViewInit, RunInvInit DEF SessionInv
  <1>2. SessionInv /\ [Next]_svars => SessionInv'
    BY TypeInvNext, HostViewNext, RunInvNext DEF SessionInv
  <1>3. SessionInv => TypeInv
    BY DEF SessionInv
  <1>4. QED
    BY <1>1, <1>2, <1>3, ShellInits, StepImplements, PTL
    DEF Spec, PersistentShellSpec, Shell!PSpec

-----------------------------------------------------------------------------
(* Reset. *)

(* New creates nothing that Reset does not create again. *)
SkeletonIsAll == {WorkDir} \cup BaseImage \subseteq {Root} \cup Skeleton

(* Reset, its files apart, and its files exactly as far as the constants allow. *)
ResetExactly ==
    Reset =>
        /\ base' = InitEnv /\ stateEnv' = InitEnv
        /\ Visible' = [n \in Names |-> IF InitEnv[n] = NoVal THEN NoVar
                                       ELSE Scalar(InitEnv[n], TRUE)]
        /\ funcs' = {}
        /\ dir' = WorkDir /\ stateCwd' = WorkDir
        /\ disk' = InitialDisk <=> SkeletonIsAll

LEMMA ResetStep == ResetExactly
  <1> SUFFICES ASSUME Reset
               PROVE  /\ base' = InitEnv /\ stateEnv' = InitEnv
                      /\ Visible' = [n \in Names |-> IF InitEnv[n] = NoVal THEN NoVar
                                                     ELSE Scalar(InitEnv[n], TRUE)]
                      /\ funcs' = {}
                      /\ dir' = WorkDir /\ stateCwd' = WorkDir
                      /\ disk' = InitialDisk <=> SkeletonIsAll
    BY DEF ResetExactly
  <1>1. /\ base' = InitEnv /\ vars' = [n \in Names |-> NoVar] /\ funcs' = {} /\ dir' = WorkDir
        /\ stateEnv' = InitEnv /\ stateCwd' = WorkDir /\ disk' = {Root} \cup Skeleton
    BY DEF Reset, ResetState
  <1>2. EffectiveEnv' = [n \in Names |-> InitEnv[n]]
    BY <1>1 DEF EffectiveEnv, InEnviron, IsVar
  <1>3. PreambleVars' = {}
    BY <1>1 DEF PreambleVars, IsVar
  <1>4. FreshVars' = [n \in Names |-> IF InitEnv[n] = NoVal THEN NoVar ELSE Scalar(InitEnv[n], TRUE)]
    BY <1>2 DEF FreshVars
  <1>5. Visible' = [n \in Names |-> FreshVars'[n]]
    BY <1>3 DEF Visible, PreambleDone
  <1>6. Visible' = [n \in Names |-> IF InitEnv[n] = NoVal THEN NoVar ELSE Scalar(InitEnv[n], TRUE)]
    BY <1>4, <1>5
  <1>7. {Root} \cup Skeleton = InitialDisk <=> SkeletonIsAll
    BY Zenon DEF InitialDisk, SkeletonIsAll
  <1>8. QED
    BY Zenon, <1>1, <1>6, <1>7

(***************************************************************************)
(* Reset restores the shell of New, and its files exactly when New creates *)
(* nothing that is not in the skeleton.                                    *)
(***************************************************************************)
THEOREM ResetRestoresExactly == Spec => [][ResetExactly]_svars
  BY ResetStep, PTL

(***************************************************************************)
(* "Reset restores the sandbox to its initial Options state" if there is   *)
(* no base image and the working directory is in the skeleton, as by       *)
(* default; session_reset shows what happens otherwise.                    *)
(***************************************************************************)
THEOREM SessionResetRestores ==
  ASSUME SkeletonIsAll
  PROVE  Spec => ResetRestores
  <1>1. Reset =>
            /\ base' = InitEnv /\ stateEnv' = InitEnv
            /\ Visible' = [n \in Names |-> IF InitEnv[n] = NoVal THEN NoVar
                                           ELSE Scalar(InitEnv[n], TRUE)]
            /\ funcs' = {}
            /\ dir' = WorkDir /\ stateCwd' = WorkDir
            /\ disk' = InitialDisk
    BY SkeletonIsAll, ResetStep DEF ResetExactly
  <1>2. QED
    BY <1>1, PTL DEF ResetRestores

-----------------------------------------------------------------------------
(***************************************************************************)
(* The ends of runs.  Comments of the code say that what is unset stays    *)
(* unset, that what is not exported does not outlive its run and that      *)
(* functions persist: these say how far each is from what the code does.   *)
(***************************************************************************)

(* What the next command finds of a name without an entry in e.vars. *)
FromEnvironment(n) == IF InitEnv[n] = NoVal THEN NoVar ELSE Scalar(InitEnv[n], TRUE)

(* A variable the command unset is found unset by the next one if the initial
   environment has no value for it, and as it first was if it has. *)
UnsetExactly ==
    \A n \in Names : stage = "script" /\ stage' = "idle" /\ rvars[n] = Unset
                        => Visible'[n] = FromEnvironment(n)

(* The functions of the session change by Reset, by the end of a command that
   was executed, and by a run cut off in its preamble, which only loses some. *)
FunctionsOnlyLost ==
    funcs' # funcs => \/ Reset
                      \/ RunEnd /\ stage = "script"
                      \/ RunEnd /\ stage = "cut" /\ funcs' \subseteq funcs

CutFuncs == stage = "cut" => rfuncs \subseteq funcs \cup {Cd}

LEMMA NoEntryFound ==
  base = InitEnv => \A n \in Names : vars[n] = NoVar => Visible[n] = FromEnvironment(n)
  <1> SUFFICES ASSUME base = InitEnv, NEW n \in Names, vars[n] = NoVar
               PROVE  Visible[n] = FromEnvironment(n)
    OBVIOUS
  <1>1. ~InEnviron(vars[n]) /\ n \notin PreambleVars
    BY DEF InEnviron, IsVar, PreambleVars
  <1>2. EffectiveEnv[n] = InitEnv[n]
    BY <1>1, EntryAssumption DEF EffectiveEnv
  <1>3. Visible[n] = FreshVars[n]
    BY <1>1 DEF Visible, PreambleDone
  <1>4. QED
    BY <1>2, <1>3 DEF FreshVars, FromEnvironment

LEMMA NoEntryFoundNext ==
  (base = InitEnv => \A n \in Names : vars[n] = NoVar => Visible[n] = FromEnvironment(n))'
  BY NoEntryFound, PTL

(* Only the end of a run takes the interpreter away from a command. *)
LEMMA CommandEnds ==
  ASSUME Next, stage = "script", stage' = "idle"
  PROVE  RunEnd
  BY Zenon DEF Next, RunRefused, RunBegin, MayRun, RunPreamble, Preamble, CutPreamble, RunExpire,
     Expire, VarStatement, Assign, UnsetVar, MakeArray, Export, MakeReadonly, SetVar,
     FuncStatement, DefineFunc, UnsetFunc, ChangeFuncs, CdStatement, ChangeDir, FileStatement,
     HostWrite, SetContext, CancelContext, Reset, Close, runner

LEMMA KeepsStep ==
  ASSUME SessionInv, Next, ShellTypeOK'
  PROVE  KeepsVariables
  BY CommandEnds, CommandKept DEF KeepsVariables

(* Every variable of the session outlives the command that set it, also one that is not *)
(* exported, although the comment at shell.go:42-43 says otherwise.                      *)
THEOREM SessionKeepsVariables == Spec => [][KeepsVariables]_svars
  <1>1. Init => SessionInv
    BY TypeInvInit, HostViewInit, RunInvInit DEF SessionInv
  <1>2. SessionInv /\ [Next]_svars => SessionInv'
    BY TypeInvNext, HostViewNext, RunInvNext DEF SessionInv
  <1>3. SessionInv => ShellTypeOK
    BY DEF SessionInv, TypeInv, TypeOK
  <1>4. SessionInv /\ ShellTypeOK' /\ [Next]_svars => [KeepsVariables]_svars
    BY KeepsStep
  <1>5. QED
    BY <1>1, <1>2, <1>3, <1>4, PTL DEF Spec

LEMMA UnsetStep ==
  ASSUME HostView, Next
  PROVE  UnsetExactly
  <1> SUFFICES ASSUME NEW n \in Names, stage = "script", stage' = "idle", rvars[n] = Unset
               PROVE  Visible'[n] = FromEnvironment(n)
    BY DEF UnsetExactly
  <1>1. vars' = SyncVars /\ base' = InitEnv
    BY CommandEnds DEF RunEnd, Sync, HostView
  <1>2. vars'[n] = NoVar
    BY <1>1, EntryAssumption DEF SyncVars
  <1>3. QED
    BY <1>1, <1>2, NoEntryFoundNext

LEMMA CutFuncsNext == CutFuncs /\ [Next]_svars => CutFuncs'
  <1> SUFFICES ASSUME CutFuncs, [Next]_svars
               PROVE  CutFuncs'
    OBVIOUS
  <1> USE DEF CutFuncs
  <1>1. CASE RunRefused
    BY <1>1 DEF RunRefused, MayRun, runner
  <1>2. CASE RunBegin
    BY <1>2 DEF RunBegin, NewRunner
  <1>3. CASE RunPreamble
    <2>1. CASE Preamble
      BY <2>1 DEF Preamble
    <2>2. CASE CutPreamble
      BY <2>2 DEF CutPreamble, carried
    <2>3. QED
      BY <1>3, <2>1, <2>2 DEF RunPreamble
  <1>4. CASE RunExpire
    BY <1>4 DEF RunExpire, Expire, carried
  <1>5. CASE RunEnd
    BY <1>5 DEF RunEnd, Sync
  <1>6. CASE VarStatement
    BY <1>6 DEF VarStatement, Assign, UnsetVar, MakeArray, Export, MakeReadonly, SetVar, carried
  <1>7. CASE FuncStatement
    BY <1>7 DEF FuncStatement, DefineFunc, UnsetFunc, ChangeFuncs, Executing
  <1>8. CASE CdStatement
    BY <1>8 DEF CdStatement, ChangeDir, carried
  <1>9. CASE Reset
    BY <1>9 DEF Reset, ResetState, runner
  <1>10. CASE FileStatement \/ HostWrite \/ SetContext \/ CancelContext \/ Close
    BY <1>10 DEF FileStatement, HostWrite, SetContext, CancelContext, Close, carried, runner
  <1>11. CASE UNCHANGED svars
    BY <1>11 DEF svars, carried, runner
  <1>12. QED
    BY <1>1, <1>2, <1>3, <1>4, <1>5, <1>6, <1>7, <1>8, <1>9, <1>10, <1>11 DEF Next

LEMMA FunctionsStep ==
  ASSUME ShellTypeOK, CutFuncs, Next
  PROVE  FunctionsOnlyLost
  <1>1. CASE RunEnd
    <2>1. stage \in {"script", "cut"} /\ funcs' = rfuncs \ {Cd}
      BY <1>1 DEF RunEnd, Sync
    <2>2. stage = "cut" => funcs' \subseteq funcs
      BY <2>1 DEF CutFuncs
    <2>3. QED
      BY <1>1, <2>1, <2>2 DEF FunctionsOnlyLost
  <1>2. CASE Reset
    BY <1>2 DEF FunctionsOnlyLost
  <1>3. CASE RunRefused
    BY <1>3 DEF RunRefused, carried, FunctionsOnlyLost
  <1>4. CASE Quiet
    BY <1>4, QuietKeeps DEF FunctionsOnlyLost
  <1>5. QED
    BY <1>1, <1>2, <1>3, <1>4 DEF Next, Quiet

(* An unset lasts for the names the session introduced, and for no name of
   the initial environment: how far the comment at shell.go:252-253 holds. *)
THEOREM SessionUnsetExactly == Spec => [][UnsetExactly]_svars
  <1>1. Spec => []HostView
    BY HostViewInit, HostViewNext, PTL DEF Spec
  <1>2. HostView /\ [Next]_svars => [UnsetExactly]_svars
    BY UnsetStep
  <1>3. QED
    BY <1>1, <1>2, PTL DEF Spec

(* A run that is cut off before its command adds no function, and nothing but
   commands, such runs and Reset changes one: how far FunctionsPersist holds. *)
THEOREM SessionFunctionsOnlyLost == Spec => [][FunctionsOnlyLost]_svars
  <1>1. Spec => []ShellTypeOK
    <2>1. TypeOK => ShellTypeOK
      BY DEF TypeOK
    <2>2. QED
      BY <2>1, SessionTypeCorrect, PTL
  <1>2. Init => CutFuncs
    BY DEF Init, ShellInit, CutFuncs
  <1>3. Spec => []CutFuncs
    BY <1>2, CutFuncsNext, PTL DEF Spec
  <1>4. ShellTypeOK /\ CutFuncs /\ [Next]_svars => [FunctionsOnlyLost]_svars
    BY FunctionsStep
  <1>5. QED
    BY <1>1, <1>3, <1>4, PTL DEF Spec

-----------------------------------------------------------------------------
(* Names: what each part of the program makes of one. *)

Clean == STRING \ {".."}

LEMMA RootPath ==
  /\ Root \in Seq(Clean) /\ Root # <<>> /\ Len(Root) \in Nat \ {0}
  /\ ".." \notin Clean /\ STRING \subseteq Clean \cup {".."}
  /\ Inside \subseteq Clean
  <1>1. Root \in Seq(Clean) /\ Root # <<>>
    BY PathsAssumption DEF Clean
  <1>2. Len(Root) \in Nat \ {0}
    BY <1>1, EmptySeq
  <1>3. ".." \notin Clean /\ STRING \subseteq Clean \cup {".."} /\ Inside \subseteq Clean
    BY Zenon DEF Clean, Inside
  <1>4. QED
    BY <1>1, <1>2, <1>3

LEMMA DirPath ==
  ASSUME NEW d \in Dirs \ Outside
  PROVE  /\ Under(Root, d) /\ d \in Seq(Clean)
         /\ Below(Root, d) \in Seq(Inside) /\ Below(Root, d) \in Seq(Clean)
         /\ d = Root \o Below(Root, d)
  <1>1. Under(Root, d) /\ d \in Seq(STRING) /\ Below(Root, d) \in Seq(Inside)
    BY PathsAssumption
  <1>2. Root \in Seq(STRING)
    BY RootPath, SeqMonotonic DEF Clean
  <1>3. d = Root \o Below(Root, d)
    BY <1>1, <1>2, UnderIs DEF Below
  <1>4. Below(Root, d) \in Seq(Clean)
    BY <1>1, RootPath, SeqMonotonic
  <1>5. Root \o Below(Root, d) \in Seq(Clean)
    BY <1>4, RootPath, ConcatProperties
  <1>6. QED
    BY <1>1, <1>3, <1>4, <1>5

(* A path without the name of the sandbox's temp directory is not in the sandbox. *)
LEMMA ApartFromRoot ==
  ASSUME NEW path \in Seq(Inside)
  PROVE  ~Under(Root, path)
  <1> SUFFICES ASSUME Under(Root, path)
               PROVE  FALSE
    OBVIOUS
  <1>1. path \in Seq(Clean)
    BY RootPath, SeqMonotonic
  <1>2. Len(Root) <= Len(path) /\ path[Len(Root)] = Root[Len(Root)]
    BY <1>1, RootPath, UnderIs
  <1>3. path[Len(Root)] \in Inside
    <2>1. Len(path) \in Nat
      OBVIOUS
    <2>2. Len(Root) \in 1..Len(path)
      BY <1>2, <2>1, RootPath
    <2>3. QED
      BY <2>2, ElementOfSeq
  <1>4. QED
    BY <1>2, <1>3 DEF Inside

LEMMA RootOfNames ==
  ASSUME NEW n \in UserNames
  PROVE  /\ n.abs \in BOOLEAN /\ n.names \in Seq(Clean \cup {".."})
         /\ ~n.abs => n.names \in Seq(Inside \cup {".."})
  <1>1. n.abs \in BOOLEAN /\ n.names \in Seq(IF n.abs THEN STRING ELSE Inside \cup {".."})
    BY PathsAssumption
  <1>2. Inside \cup {".."} \subseteq Clean \cup {".."} /\ STRING \subseteq Clean \cup {".."}
    BY RootPath
  <1>3. CASE n.abs
    BY <1>1, <1>2, <1>3, SeqMonotonic
  <1>4. CASE ~n.abs
    <2>1. n.names \in Seq(Inside \cup {".."})
      BY <1>1, <1>4
    <2>2. n.names \in Seq(Clean \cup {".."})
      BY <1>2, <2>1, SeqMonotonic
    <2>3. QED
      BY <1>1, <1>4, <2>1, <2>2
  <1>5. QED
    BY <1>1, <1>3, <1>4

(***************************************************************************)
(* pathmap's two directions are inverse on the sandbox's directories, also *)
(* on those whose name begins with two dots and keeps its real path.       *)
(***************************************************************************)
THEOREM PlacesRoundTrip == \A d \in Dirs \ Outside : VirtualToReal(Root, RealToVirtual(Root, d)) = d
  <1> SUFFICES ASSUME NEW d \in Dirs \ Outside
               PROVE  VirtualToReal(Root, RealToVirtual(Root, d)) = d
    OBVIOUS
  <1>1. Under(Root, d) /\ d = Root \o Below(Root, d) /\ ~Under(Root, Below(Root, d))
    BY DirPath, ApartFromRoot
  <1>2. RealToVirtual(Root, d) \in {Below(Root, d), d}
    BY DEF RealToVirtual
  <1>3. QED
    BY <1>1, <1>2 DEF VirtualToReal

(* A relative name that stays inside, from a directory, its virtual path, or the real one *)
(* in its place.                                                                          *)
LEMMA RelativePlace ==
  ASSUME NEW d \in Dirs \ Outside, NEW names \in Seq(Inside \cup {".."}),
         \A i \in 0..Len(names) : Under(Root, Walk(d, names)[i])
  PROVE  /\ Under(Root, Join(d, names))
         /\ VirtualToReal(Root, Join(d, names)) = Join(d, names)
         /\ VirtualToReal(Root, Join(Below(Root, d), names)) = Join(d, names)
  <1> DEFINE rel == Below(Root, d)
  <1>1. Len(names) \in 0..Len(names) /\ names \in Seq(Clean \cup {".."})
    <2>1. Inside \cup {".."} \subseteq Clean \cup {".."}
      BY RootPath
    <2>2. QED
      BY <2>1, SeqMonotonic
  <1>2. Under(Root, Join(d, names))
    BY <1>1 DEF Join
  <1>3. Join(rel, names) \in Seq(Inside)
    <2>1. rel \in Seq(Inside) /\ ".." \notin Inside
      BY DirPath DEF Inside
    <2> HIDE DEF rel
    <2>2. Walk(rel, names)[Len(names)] \in Seq(Inside)
      BY <1>1, <2>1, WalkType
    <2>3. QED
      BY <2>2 DEF Join
  <1>4. Join(d, names) = Root \o Join(rel, names)
    <2>1. d = Root \o rel /\ rel \in Seq(Clean) /\ Root \in Seq(Clean) /\ ".." \notin Clean
      BY DirPath, RootPath
    <2> HIDE DEF rel
    <2>2. \A i \in 1..Len(names) : Under(Root, Walk(Root \o rel, names)[i])
      <3>1. \A i \in 1..Len(names) : Under(Root, Walk(d, names)[i])
        OBVIOUS
      <3>2. QED
        BY Zenon, <2>1, <3>1
    <2>3. WalksAlike(Root, rel, names, Len(names))
      BY <1>1, <2>1, <2>2, WalkTransport
    <2>4. QED
      BY <2>1, <2>3 DEF WalksAlike, Join
  <1>5. ~Under(Root, Join(rel, names))
    BY <1>3, ApartFromRoot
  <1>6. QED
    BY <1>2, <1>4, <1>5 DEF VirtualToReal

(* Nothing is at the root's path within the root. *)
LEMMA RootTwice ==
  ASSUME NEW path \in Seq(Clean)
  PROVE  Root \o path # path
  BY RootPath, ConcatEqualIffEmpty

(* The real path of an absolute name. *)
LEMMA AbsolutePath ==
  ASSUME NEW names \in Seq(Clean \cup {".."})
  PROVE  /\ Join(<<>>, names) \in Seq(Clean)
         /\ VirtualToReal(Root, Join(<<>>, names)) \in Seq(Clean)
         /\ Under(Root, VirtualToReal(Root, Join(<<>>, names)))
  <1> DEFINE path == Join(<<>>, names)
  <1>1. path \in Seq(Clean)
    <2>1. <<>> \in Seq(Clean) /\ Len(names) \in 0..Len(names)
      BY EmptySeq
    <2>2. Walk(<<>>, names)[Len(names)] \in Seq(Clean)
      BY <2>1, RootPath, WalkType
    <2>3. QED
      BY <2>2 DEF Join
  <1> HIDE DEF path
  <1>2. Root \o path \in Seq(Clean) /\ Under(Root, Root \o path)
    BY <1>1, RootPath, ConcatProperties, ConcatUnder
  <1>3. QED
    BY <1>1, <1>2 DEF VirtualToReal, path

(* Below the root, an absolute name that does not climb above it is what it is below "/". *)
LEMMA FromRoot ==
  ASSUME NEW names \in Seq(Clean \cup {".."}),
         \A i \in 1..Len(names) :
            Under(Root, Walk(Root, names)[i]) \/ names[i] # ".." \/ Walk(<<>>, names)[i - 1] # <<>>
  PROVE  Join(Root, names) = Root \o Join(<<>>, names)
  <1>1. PICK none : none = <<>>
    OBVIOUS
  <1>2. none \in Seq(Clean) /\ Root \o none = Root
    BY <1>1, EmptySeq, RootPath, ConcatEmptySeq
  <1>3. Len(names) \in 0..Len(names)
    OBVIOUS
  <1>4. WalksAlike(Root, none, names, Len(names))
    BY <1>1, <1>2, <1>3, RootPath, WalkTransport
  <1>5. QED
    BY <1>1, <1>2, <1>4 DEF WalksAlike, Join


-----------------------------------------------------------------------------

(* A clean path, from "/" and from the root. *)
LEMMA CleanPath ==
  ASSUME NEW path \in Seq(Clean)
  PROVE  Join(<<>>, path) = path /\ Join(Root, path) # path
  <1>1. PICK none : none = <<>>
    OBVIOUS
  <1>2. none \in Seq(Clean) /\ none \o path = path
    BY <1>1, EmptySeq, ConcatEmptySeq
  <1>3. Join(none, path) = none \o path
    BY <1>2, RootPath, WalkClean
  <1>4. Join(Root, path) = Root \o path
    BY RootPath, WalkClean
  <1>5. QED
    BY <1>1, <1>2, <1>3, <1>4, RootTwice

(* A real path of the sandbox that does not climb above the root once it is there. *)
LEMMA RealName ==
  ASSUME NEW n \in UserNames, Real(n), StaysInside(n)
  PROVE  Under(Root, Join(<<>>, n.names)) /\ Join(Root, n.names) = Root \o Join(<<>>, n.names)
  <1>1. n.names \in Seq(Clean \cup {".."}) /\ Root \in Seq(Clean \cup {".."})
    BY RootOfNames, RootPath, SeqMonotonic
  <1>2. Len(n.names) \in Nat /\ Len(Root) <= Len(n.names) /\ \A i \in 1..Len(Root) : n.names[i] = Root[i]
    BY <1>1, UnderIs DEF Real
  <1>3. \A i \in Len(Root)..Len(n.names) : Under(Root, Walk(<<>>, n.names)[i])
    BY DEF StaysInside
  <1>4. ~Under(Root, <<>>)
    <2>1. PICK none : none = <<>>
      OBVIOUS
    <2>2. none \in Seq(Clean) /\ Len(none) = 0
      BY <2>1, EmptySeq
    <2>3. Under(Root, none) => Len(Root) <= Len(none)
      BY <2>2, RootPath, UnderIs
    <2>4. QED
      BY <2>1, <2>2, <2>3, RootPath
  <1>5. ASSUME NEW i \in 1..Len(n.names)
        PROVE  n.names[i] # ".." \/ Walk(<<>>, n.names)[i - 1] # <<>>
    <2>1. CASE i <= Len(Root)
      <3>1. i \in 1..Len(Root)
        BY <1>2, <2>1, RootPath
      <3>2. n.names[i] = Root[i] /\ Root[i] \in Clean
        BY <1>2, <3>1, RootPath, ElementOfSeq
      <3>3. QED
        BY <3>2, RootPath
    <2>2. CASE i > Len(Root)
      <3>1. i - 1 \in Len(Root)..Len(n.names)
        BY <1>2, <2>2, RootPath
      <3>2. QED
        BY <1>3, <1>4, <3>1
    <2>3. QED
      BY <1>2, <2>1, <2>2, RootPath
  <1>6. Under(Root, Join(<<>>, n.names))
    <2>1. Len(n.names) \in Len(Root)..Len(n.names)
      BY <1>2, RootPath
    <2>2. QED
      BY <1>3, <2>1 DEF Join
  <1>7. QED
    BY <1>1, <1>5, <1>6, FromRoot

(* Below the root, an absolute name that stays inside is what it is below "/". *)
LEMMA NameFromRoot ==
  ASSUME NEW n \in UserNames, n.abs, StaysInside(n)
  PROVE  /\ Join(Root, n.names) = Root \o Join(<<>>, n.names)
         /\ Real(n) => Under(Root, Join(<<>>, n.names))
  <1>1. n.names \in Seq(Clean \cup {".."})
    BY RootOfNames
  <1>2. CASE Real(n)
    BY <1>2, RealName
  <1>3. CASE ~Real(n)
    <2>1. \A i \in 1..Len(n.names) : Under(Root, Walk(Root, n.names)[i])
      BY <1>3 DEF StaysInside
    <2>2. QED
      BY <1>1, <1>3, <2>1, FromRoot
  <1>4. QED
    BY <1>2, <1>3

(* An absolute name that stays inside. *)
LEMMA AbsoluteAgree ==
  ASSUME NEW n \in UserNames, n.abs, StaysInside(n)
  PROVE  LET place == OpenPath(Root, Here, n) IN
         /\ ResolveArg(Root, Here, n) = place
         /\ ChildPath(Root, Here, n) = place <=> ~Skipped(n)
         /\ CdPath(Root, Here, n) = place <=> Skipped(n)
  <1> DEFINE path == Join(<<>>, n.names)
             real == VirtualToReal(Root, path)
             arg  == CallArg(Root, n)
  <1>1. n.names \in Seq(Clean \cup {".."})
    BY RootOfNames
  <1>2. path \in Seq(Clean) /\ real \in Seq(Clean) /\ Under(Root, real)
    BY <1>1, AbsolutePath
  <1>3. OpenPath(Root, Here, n) = real /\ VirtualToReal(Root, real) = real
    BY <1>2 DEF OpenPath, Absolute, VirtualToReal
  <1>4. /\ arg.abs
        /\ arg.names = IF ~RawUnder(Root, n.names) /\ ~HostHas(n) THEN real ELSE n.names
    BY DEF CallArg, HostHas
  <1>5. ChildPath(Root, Here, n) = Join(<<>>, arg.names)
    BY <1>4 DEF ChildPath, Absolute
  <1>6. CdPath(Root, Here, n) = Join(Root, arg.names)
    BY <1>4 DEF CdPath
  <1>7. Join(<<>>, real) = real /\ Join(Root, real) # real
    BY <1>2, CleanPath
  <1>8. Join(Root, n.names) = Root \o path /\ Root \o path # path
    BY <1>2, NameFromRoot, RootTwice
  <1>9. CASE arg.names = real /\ ~Skipped(n)
    <2> HIDE DEF path, real, arg
    <2>1. ChildPath(Root, Here, n) = real /\ CdPath(Root, Here, n) # real
      BY <1>5, <1>6, <1>7, <1>9
    <2>2. ResolveArg(Root, Here, n) = real
      BY <1>3, <2>1 DEF ResolveArg
    <2>3. QED
      BY <1>3, <1>9, <2>1, <2>2
  <1>10. CASE arg.names = n.names /\ Under(Root, path)
    <2>1. real = path /\ ~Skipped(n)
      BY <1>10 DEF VirtualToReal, Skipped
    <2>2. ChildPath(Root, Here, n) = path
      BY <1>5, <1>10
    <2> HIDE DEF path, real, arg
    <2>3. CdPath(Root, Here, n) # real
      BY <1>6, <1>8, <1>10, <2>1
    <2>4. ResolveArg(Root, Here, n) = real
      BY <1>3, <2>1, <2>2 DEF ResolveArg
    <2>5. QED
      BY <1>3, <2>1, <2>2, <2>3, <2>4
  <1>11. CASE arg.names = n.names /\ Skipped(n)
    <2>1. real = Root \o path
      BY <1>11 DEF VirtualToReal, Skipped
    <2>2. ChildPath(Root, Here, n) = path
      BY <1>5, <1>11
    <2>3. ResolveArg(Root, Here, n) = real
      BY <2>2 DEF ResolveArg
    <2> HIDE DEF path, real, arg
    <2>4. CdPath(Root, Here, n) = real
      BY <1>6, <1>8, <1>11, <2>1
    <2>5. QED
      BY <1>3, <1>8, <1>11, <2>1, <2>2, <2>3, <2>4
  <1>12. \/ arg.names = real /\ ~Skipped(n)
         \/ arg.names = n.names /\ Under(Root, path)
         \/ arg.names = n.names /\ Skipped(n)
    BY <1>4 DEF Skipped
  <1>13. QED
    BY <1>9, <1>10, <1>11, <1>12

(* A relative name that stays inside. *)
LEMMA RelativeAgree ==
  ASSUME TypeOK, StateMirrorsShell, NEW n \in UserNames, ~n.abs, StaysInside(n)
  PROVE  LET place == OpenPath(Root, Here, n) IN
         /\ ResolveArg(Root, Here, n) = place
         /\ stage = "idle" => ResolvePath(Root, HostCwd, n) = place
         /\ ChildPath(Root, Here, n) = place
         /\ CdPath(Root, Here, n) = place
  <1> DEFINE path == Join(Here, n.names)
  <1>1. n.names \in Seq(Inside \cup {".."})
    BY RootOfNames
  <1>3. \A i \in 0..Len(n.names) : Under(Root, Walk(Here, n.names)[i])
    BY DEF StaysInside, Real
  <1>2. Here \in Dirs \ Outside
    <2>1. Here \in Dirs
      BY DEF TypeOK, ShellTypeOK, Here
    <2>2. 0 \in 0..Len(n.names) /\ Walk(Here, n.names)[0] = Here
      BY <1>1, WalkStep
    <2>3. Under(Root, Here)
      BY <1>3, <2>2
    <2>4. QED
      BY <2>1, <2>3, PathsAssumption
  <1>4. /\ Under(Root, path)
        /\ VirtualToReal(Root, path) = path
        /\ VirtualToReal(Root, Join(Below(Root, Here), n.names)) = path
    BY <1>1, <1>2, <1>3, RelativePlace
  <1>5. OpenPath(Root, Here, n) = path
    BY <1>4 DEF OpenPath, Absolute
  <1>6. CallArg(Root, n) = n
    BY DEF CallArg
  <1>7. ChildPath(Root, Here, n) = path /\ ResolveArg(Root, Here, n) = path /\ CdPath(Root, Here, n) = path
    BY <1>6 DEF ChildPath, ResolveArg, CdPath, Absolute
  <1>8. ASSUME stage = "idle"
        PROVE  ResolvePath(Root, HostCwd, n) = path
    <2>1. stateCwd = Here
      BY <1>8 DEF StateMirrorsShell, Here
    <2>2. HostCwd = Below(Root, Here) \/ HostCwd = Here
      BY <2>1 DEF HostCwd, RealToVirtual
    <2>3. ResolvePath(Root, HostCwd, n) = VirtualToReal(Root, Join(HostCwd, n.names))
      BY DEF ResolvePath, Absolute
    <2>4. QED
      BY <1>4, <2>2, <2>3
  <1>9. QED
    BY <1>5, <1>7, <1>8

(* Every use of a name that stays inside finds its place, but for children and cd, which do *)
(* so exactly as far as this says.                                                            *)
NamesExactly ==
    \A n \in UserNames : StaysInside(n) =>
        LET place == OpenPath(Root, Here, n) IN
        /\ StatPath(Root, Here, n) = place
        /\ ResolveArg(Root, Here, n) = place
        /\ stage = "idle" => ResolvePath(Root, HostCwd, n) = place
        /\ ChildPath(Root, Here, n) = place <=> ~Skipped(n)
        /\ CdPath(Root, Here, n) = place <=> ~n.abs \/ Skipped(n)

LEMMA Agreement == TypeOK /\ StateMirrorsShell => NamesExactly
  <1> SUFFICES ASSUME TypeOK, StateMirrorsShell, NEW n \in UserNames, StaysInside(n)
               PROVE  LET place == OpenPath(Root, Here, n) IN
                      /\ StatPath(Root, Here, n) = place
                      /\ ResolveArg(Root, Here, n) = place
                      /\ stage = "idle" => ResolvePath(Root, HostCwd, n) = place
                      /\ ChildPath(Root, Here, n) = place <=> ~Skipped(n)
                      /\ CdPath(Root, Here, n) = place <=> ~n.abs \/ Skipped(n)
    BY DEF NamesExactly
  <1>1. n.abs \in BOOLEAN
    BY RootOfNames
  <1>2. StatPath(Root, Here, n) = OpenPath(Root, Here, n)
    BY DEF StatPath, OpenPath, VirtualToReal
  <1>3. CASE n.abs
    <2>1. ResolvePath(Root, HostCwd, n) = OpenPath(Root, Here, n)
      BY <1>3 DEF ResolvePath, OpenPath, VirtualToReal, Absolute
    <2>2. QED
      BY <1>2, <1>3, <2>1, AbsoluteAgree
  <1>4. CASE ~n.abs
    BY <1>2, <1>4, RelativeAgree DEF Skipped
  <1>5. QED
    BY <1>1, <1>3, <1>4

(***************************************************************************)
(* "Agent sees clean paths", for any directories, any names and however    *)
(* many: the shell, the tests, the commands and the host's operations take *)
(* a name that stays inside the sandbox for the same place, and so does a  *)
(* child process unless the call hook leaves the name alone.               *)
(***************************************************************************)
THEOREM SessionNamesAgree == Spec => []NamesAgree
  <1>1. NamesExactly => NamesAgree
    BY DEF NamesExactly, NamesAgree
  <1>2. QED
    BY <1>1, SessionTypeCorrect, HostSeesShell, Agreement, PTL

(* A child misses the place of a name exactly where the call hook leaves a virtual name   *)
(* alone, and there alone cd finds an absolute name: how far CdFinds fails.                *)
THEOREM SessionNamesExactly == Spec => []NamesExactly
  BY SessionTypeCorrect, HostSeesShell, Agreement, PTL

=============================================================================

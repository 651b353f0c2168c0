----------------------- MODULE RawFileWriterProofs -----------------------
(***************************************************************************)
(* What RawFileWriter promises, proved for every size limit, header, set   *)
(* of block sizes, stream buffer and directory: no file of another run is  *)
(* touched (NeverOverwrites), the parts hold the run in order              *)
(* (PartsHoldTheRun), what was flushed survives (FlushedSurvives), and the *)
(* parts keep to the limit (PartsRespectLimit).                            *)
(*                                                                         *)
(* The first part is about FlattenSeq, which is a recursive function: what *)
(* it does to an appended sequence follows from the least length for which *)
(* it would not.  The second says what one operation of the stream does to *)
(* the file and to what is held back, the third what a step does to the    *)
(* parts, and the fourth has the inductive invariant.                      *)
(***************************************************************************)
EXTENDS RawFileWriter, SequenceTheorems, WellFoundedInduction, TLAPS

-----------------------------------------------------------------------------
(* Sequences and their concatenation *)

(* A set of numbers has a least one. *)
LEMMA Smallest ==
    ASSUME NEW T \in SUBSET Nat, T # {}
    PROVE  \E n \in T : \A m \in T : n <= m
<1> DEFINE R == OpToRel(<, Nat)
<1>1. T \subseteq Nat
  OBVIOUS
<1>2. \A m, n \in Nat : m < n => <<m, n>> \in R
  BY DEF OpToRel
<1>3. IsWellFoundedOn(R, Nat)
  BY NatLessThanWellFounded
<1> HIDE DEF R
<1>4. PICK n \in T : \A m \in T : <<m, n>> \notin R
  BY <1>1, <1>3, WFMin
<1>5. ASSUME NEW m \in T PROVE n <= m
  <2>1. m \in Nat /\ n \in Nat
    BY <1>1
  <2>2. ~ (m < n)
    BY <1>2, <1>4, <2>1, Zenon
  <2> QED BY <2>1, <2>2
<1> QED BY <1>4, <1>5

(* Bytes written twice and bytes written at once. *)
LEMMA Associative ==
    ASSUME NEW a \in Seq(Nat), NEW b \in Seq(Nat), NEW c \in Seq(Nat)
    PROVE  (a \o b) \o c = a \o (b \o c)
BY ConcatAssociative

(* f[i] is the concatenation of the first i of n sequences: the function     *)
(* FlattenSeq chooses.                                                       *)
Joined(s, n, f) == f = [i \in 1 .. n |-> IF i = 1 THEN s[i] ELSE f[i - 1] \o s[i]]

(* Two sequences have the same first n elements. *)
Agree(s, t, n) == \A i \in 1 .. n : s[i] = t[i]

(* Such a function exists, for every length. *)
LEMMA JoinedExists ==
    ASSUME NEW s, NEW n \in Nat
    PROVE  \E f : Joined(s, n, f)
<1> DEFINE T == {m \in Nat : ~ \E f : Joined(s, m, f)}
<1>1. SUFFICES ASSUME T # {} PROVE FALSE
  BY <1>1
<1>2. PICK m \in T : \A k \in T : m <= k
  <2>1. T \subseteq Nat
    OBVIOUS
  <2> HIDE DEF T
  <2> QED BY <1>1, <2>1, Smallest
<1>3. m # 0
  <2>1. Joined(s, 0, [i \in 1 .. 0 |-> <<>>])
    BY DEF Joined
  <2> QED BY <2>1
<1>4. m \in Nat /\ m - 1 \in Nat /\ m - 1 \notin T
  BY <1>2, <1>3
<1>5. PICK f : Joined(s, m - 1, f)
  BY <1>4
<1> DEFINE g == [i \in 1 .. m |-> IF i < m THEN f[i]
                                  ELSE IF m = 1 THEN s[m] ELSE f[m - 1] \o s[m]]
<1>6. \A i \in 1 .. m : g[i] = IF i = 1 THEN s[i] ELSE g[i - 1] \o s[i]
  <2>1. \A i \in 1 .. m - 1 : f[i] = IF i = 1 THEN s[i] ELSE f[i - 1] \o s[i]
    <3> HIDE DEF T
    <3> QED BY <1>5 DEF Joined
  <2> HIDE DEF T
  <2> QED BY <1>4, <2>1
<1>7. g = [i \in 1 .. m |-> g[i]]
  OBVIOUS
<1>8. Joined(s, m, g)
  <2> HIDE DEF g, T
  <2> QED BY <1>6, <1>7 DEF Joined
<1> QED BY <1>2, <1>8

(* What it is at each place. *)
LEMMA JoinedAt ==
    ASSUME NEW s, NEW n \in Nat, NEW f, Joined(s, n, f), NEW k \in 1 .. n
    PROVE  f[k] = IF k = 1 THEN s[k] ELSE f[k - 1] \o s[k]
<1>1. \A i \in 1 .. n : f[i] = IF i = 1 THEN s[i] ELSE f[i - 1] \o s[i]
  BY DEF Joined
<1> QED BY <1>1

(* Two such functions agree where their sequences do. *)
LEMMA JoinedAgree ==
    ASSUME NEW s, NEW t, NEW n \in Nat, NEW m \in Nat, n <= m, NEW f, NEW g,
           Joined(s, n, f), Joined(t, m, g), Agree(s, t, n)
    PROVE  Agree(f, g, n)
<1> DEFINE T == {i \in 1 .. n : f[i] # g[i]}
<1>1. SUFFICES ASSUME T # {} PROVE FALSE
  BY <1>1 DEF Agree
<1>2. T \subseteq 1 .. n /\ T \subseteq Nat
  OBVIOUS
<1>3. PICK k \in T : \A j \in T : k <= j
  <2> HIDE DEF T
  <2> QED BY <1>1, <1>2, Smallest
<1>4. /\ f[k] = IF k = 1 THEN s[k] ELSE f[k - 1] \o s[k]
      /\ g[k] = IF k = 1 THEN t[k] ELSE g[k - 1] \o t[k]
  BY <1>2, <1>3, JoinedAt
<1>5. k # 1 => f[k - 1] = g[k - 1]
  BY <1>3
<1>6. s[k] = t[k]
  BY <1>3 DEF Agree
<1> QED BY <1>3, <1>4, <1>5, <1>6

(* What FlattenSeq chooses. *)
LEMMA FlattenJoined ==
    ASSUME NEW S, NEW s \in Seq(S), s # <<>>
    PROVE  \E f : Joined(s, Len(s), f) /\ FlattenSeq(s) = f[Len(s)]
<1> DEFINE f == CHOOSE g : g = [i \in 1 .. Len(s) |-> IF i = 1 THEN s[i] ELSE g[i - 1] \o s[i]]
<1>1. Len(s) \in Nat /\ Len(s) # 0
  OBVIOUS
<1>2. FlattenSeq(s) = f[Len(s)]
  BY <1>1 DEF FlattenSeq
<1>3. Joined(s, Len(s), f)
  BY <1>1, JoinedExists DEF Joined
<1> QED BY <1>2, <1>3

(* No sequences, no bytes. *)
LEMMA FlattenEmpty == FlattenSeq(<<>>) = <<>>
BY DEF FlattenSeq

(* The parts are sequences of bytes, and so is what they make together. *)
LEMMA FlattenType ==
    ASSUME NEW s \in Seq(Seq(Nat))
    PROVE  FlattenSeq(s) \in Seq(Nat)
<1>1. CASE s = <<>>
  <2>1. FlattenSeq(s) = <<>>
    BY <1>1, FlattenEmpty, Zenon
  <2> QED BY <2>1
<1>2. CASE s # <<>>
  <2>1. PICK f : Joined(s, Len(s), f) /\ FlattenSeq(s) = f[Len(s)]
    BY <1>2, FlattenJoined
  <2> DEFINE T == {i \in 1 .. Len(s) : f[i] \notin Seq(Nat)}
  <2>2. SUFFICES ASSUME T # {} PROVE FALSE
    BY <1>2, <2>1
  <2>3. T \subseteq Nat
    OBVIOUS
  <2>4. PICK k \in T : \A j \in T : k <= j
    <3> HIDE DEF T
    <3> QED BY <2>2, <2>3, Smallest
  <2>5. f[k] = IF k = 1 THEN s[k] ELSE f[k - 1] \o s[k]
    BY <2>1, <2>4, JoinedAt
  <2>6. k # 1 => f[k - 1] \in Seq(Nat)
    BY <2>4
  <2>7. s[k] \in Seq(Nat)
    BY <2>4
  <2>8. f[k] \notin Seq(Nat)
    BY <2>4
  <2> HIDE DEF T
  <2> QED BY <2>5, <2>6, <2>7, <2>8, ConcatProperties
<1> QED BY <1>1, <1>2

(* A part more. *)
LEMMA FlattenAppend ==
    ASSUME NEW s \in Seq(Seq(Nat)), NEW x \in Seq(Nat)
    PROVE  FlattenSeq(Append(s, x)) = FlattenSeq(s) \o x
<1> DEFINE t == Append(s, x)
<1>1. /\ t \in Seq(Seq(Nat)) /\ t # <<>> /\ Len(t) = Len(s) + 1 /\ Len(s) \in Nat
      /\ t[Len(s) + 1] = x /\ \A i \in 1 .. Len(s) : s[i] = t[i]
  BY AppendProperties
<1> HIDE DEF t
<1>2. PICK g : Joined(t, Len(t), g) /\ FlattenSeq(t) = g[Len(t)]
  BY <1>1, FlattenJoined
<1>3. g[Len(t)] = IF Len(t) = 1 THEN x ELSE g[Len(s)] \o x
  <2>1. Len(t) \in Nat /\ Len(t) \in 1 .. Len(t)
    BY <1>1
  <2>2. g[Len(t)] = IF Len(t) = 1 THEN t[Len(t)] ELSE g[Len(t) - 1] \o t[Len(t)]
    BY <1>2, <2>1, JoinedAt
  <2> QED BY <1>1, <2>2
<1>4. CASE s = <<>>
  BY <1>1, <1>2, <1>3, <1>4, FlattenEmpty, ConcatEmptySeq DEF t
<1>5. CASE s # <<>>
  <2>1. PICK f : Joined(s, Len(s), f) /\ FlattenSeq(s) = f[Len(s)]
    BY <1>5, FlattenJoined
  <2>2. f[Len(s)] = g[Len(s)]
    <3>1. Len(s) \in Nat /\ Len(t) \in Nat /\ Len(s) <= Len(t)
      BY <1>1
    <3>2. Joined(s, Len(s), f) /\ Joined(t, Len(t), g)
      BY <1>2, <2>1
    <3>3. Agree(s, t, Len(s))
      BY <1>1 DEF Agree
    <3>4. Agree(f, g, Len(s))
      BY <3>1, <3>2, <3>3, JoinedAgree, Zenon
    <3>5. Len(s) \in 1 .. Len(s)
      BY <1>5
    <3> QED BY <3>4, <3>5 DEF Agree
  <2> QED BY <1>1, <1>2, <1>3, <1>5, <2>1, <2>2 DEF t
<1> QED BY <1>4, <1>5

(* The last part grows. *)
LEMMA FlattenLast ==
    ASSUME NEW s \in Seq(Seq(Nat)), NEW x \in Seq(Nat), s # <<>>
    PROVE  FlattenSeq([s EXCEPT ![Len(s)] = s[Len(s)] \o x]) = FlattenSeq(s) \o x
<1> DEFINE n == Len(s)
           front == SubSeq(s, 1, n - 1)
<1>1. /\ n \in Nat \ {0} /\ s[n] \in Seq(Nat) /\ s[n] \o x \in Seq(Nat)
      /\ n = Len(s)
  BY ConcatProperties
<1> HIDE DEF n
<1>2. front \in Seq(Seq(Nat)) /\ Len(front) = n - 1 /\ \A i \in 1 .. n - 1 : front[i] = s[i]
  <2>1. \A i \in 1 .. n - 1 : s[i] \in Seq(Nat)
    BY <1>1
  <2>2. /\ SubSeq(s, 1, n - 1) \in Seq(Seq(Nat))
        /\ Len(SubSeq(s, 1, n - 1)) = IF 1 <= n - 1 THEN n - 1 - 1 + 1 ELSE 0
        /\ \A i \in 1 .. n - 1 - 1 + 1 : SubSeq(s, 1, n - 1)[i] = s[1 + i - 1]
    BY <1>1, <2>1, SubSeqProperties
  <2>3. Len(SubSeq(s, 1, n - 1)) = n - 1
    BY <1>1, <2>2
  <2>4. \A i \in 1 .. n - 1 : SubSeq(s, 1, n - 1)[i] = s[i]
    BY <1>1, <2>2
  <2> QED BY <2>2, <2>3, <2>4
<1> HIDE DEF front
<1>3. s = Append(front, s[n])
  <2>1. Append(front, s[n]) \in Seq(Seq(Nat)) /\ Len(Append(front, s[n])) = n
    BY <1>1, <1>2
  <2>2. \A i \in 1 .. n : Append(front, s[n])[i] = s[i]
    BY <1>1, <1>2
  <2> DEFINE a == Append(front, s[n])
  <2>3. Len(s) = n /\ a \in Seq(Seq(Nat)) /\ Len(a) = n /\ \A i \in 1 .. n : a[i] = s[i]
    BY <1>1, <2>1, <2>2
  <2> HIDE DEF a
  <2>4. a = s
    BY <2>3, SeqEqual
  <2> QED BY <2>4 DEF a
<1>4. [s EXCEPT ![n] = s[n] \o x] = Append(front, s[n] \o x)
  <2> DEFINE y == s[n] \o x
  <2> HIDE DEF y
  <2>1. Append(front, y) \in Seq(Seq(Nat)) /\ Len(Append(front, y)) = n
    BY <1>1, <1>2 DEF y
  <2>2. [s EXCEPT ![n] = y] \in Seq(Seq(Nat)) /\ Len([s EXCEPT ![n] = y]) = n
    BY <1>1, ExceptSeq DEF y
  <2>3. \A i \in 1 .. n : Append(front, y)[i] = [s EXCEPT ![n] = y][i]
    <3>1. \A i \in 1 .. n : [s EXCEPT ![n] = y][i] = IF i = n THEN y ELSE s[i]
      BY <1>1
    <3>2. \A i \in 1 .. n : Append(front, y)[i] = IF i = n THEN y ELSE front[i]
      BY <1>1, <1>2
    <3> QED BY <1>1, <1>2, <3>1, <3>2
  <2>4. Append(front, y) = [s EXCEPT ![n] = y]
    <3> DEFINE a == Append(front, y)
               e == [s EXCEPT ![n] = y]
    <3> HIDE DEF a, e
    <3>1. a \in Seq(Seq(Nat)) /\ e \in Seq(Seq(Nat)) /\ Len(a) = n /\ Len(e) = n
      BY <2>1, <2>2 DEF a, e
    <3>2. \A i \in 1 .. n : a[i] = e[i]
      BY <2>3 DEF a, e
    <3>3. a = e
      BY <3>1, <3>2, SeqEqual
    <3> QED BY <3>3 DEF a, e
  <2> QED BY <2>4 DEF y
<1>5. FlattenSeq(front) \in Seq(Nat)
  BY <1>2, FlattenType
<1>6. FlattenSeq(s) = FlattenSeq(front) \o s[n]
  BY <1>1, <1>2, <1>3, FlattenAppend
<1>7. FlattenSeq(Append(front, s[n] \o x)) = FlattenSeq(front) \o (s[n] \o x)
  BY <1>1, <1>2, FlattenAppend
<1>8. (FlattenSeq(front) \o s[n]) \o x = FlattenSeq(front) \o (s[n] \o x)
  BY <1>1, <1>5, Associative, Zenon
<1> QED BY <1>1, <1>4, <1>6, <1>7, <1>8

-----------------------------------------------------------------------------
(* The stream and the names *)

(* The constants are numbers. *)
LEMMA Constants ==
    /\ maxFileBytes \in Nat /\ HeaderBytes \in Nat /\ LastSuffix \in Nat /\ BufferSize \in Nat
    /\ MaxBlocks \in Nat /\ MaxFaults \in Nat
    /\ \A len \in Sizes : len \in Nat /\ len > 0
BY WriterAssumption

(* uniquePath() finds a free name if the cycle has one, else the plain name. *)
LEMMA FreeName ==
    ASSUME NEW c \in Nat
    PROVE  /\ uniquePath(c) \in Nat \X Nat
           /\ uniquePath(c)[1] = c
           /\ uniquePath(c) \in DOMAIN disk => uniquePath(c)[2] = 0 /\ Taken(c)
<1>1. CASE Taken(c)
  BY <1>1 DEF uniquePath
<1>2. CASE ~ Taken(c)
  <2> DEFINE T == {n \in 0 .. LastSuffix : <<c, n>> \notin DOMAIN disk}
             least(n) == /\ <<c, n>> \notin DOMAIN disk
                         /\ \A m \in 0 .. n - 1 : <<c, m>> \in DOMAIN disk
  <2>1. T # {} /\ T \subseteq Nat
    BY <1>2, Constants DEF Taken
  <2>2. PICK k \in T : \A m \in T : k <= m
    <3> HIDE DEF T
    <3> QED BY <2>1, Smallest
  <2>3. k \in 0 .. LastSuffix /\ least(k)
    BY <2>1, <2>2, Constants
  <2>4. uniquePath(c) = <<c, CHOOSE n \in 0 .. LastSuffix : least(n)>>
    BY <1>2 DEF uniquePath
  <2> HIDE DEF least
  <2>5. PICK n \in 0 .. LastSuffix : least(n) /\ uniquePath(c) = <<c, n>>
    BY <2>3, <2>4
  <2> QED BY <2>5, Constants DEF least
<1> QED BY <1>1, <1>2

(* Bytes of one block. *)
LEMMA BytesType ==
    ASSUME NEW b \in Nat, NEW len \in Nat
    PROVE  /\ Bytes(b, len) \in Seq(Nat) /\ Len(Bytes(b, len)) = len
           /\ \A i \in 1 .. len : Bytes(b, len)[i] = b
BY DEF Bytes

(* The header is a sequence of HeaderBytes zeros. *)
LEMMA HeaderType ==
    /\ Header \in Seq(Nat) /\ Len(Header) = HeaderBytes
    /\ \A i \in 1 .. HeaderBytes : Header[i] = 0
BY BytesType, Constants DEF Header

(* What an operation of the stream leaves of the bytes it was given: the     *)
(* file has at most grown, and a good stream holds back the rest.            *)
Outcome(o, file, given) ==
    /\ o.file \in Seq(Nat) /\ o.held \in Seq(Nat) /\ o.good \in BOOLEAN
    /\ \E x \in Seq(Nat) : o.file = file \o x /\ (o.good => x \o o.held = given)

(* A sequence is the two pieces it is cut into. *)
LEMMA Cut ==
    ASSUME NEW data \in Seq(Nat), NEW k \in 0 .. Len(data)
    PROVE  /\ SubSeq(data, 1, k) \in Seq(Nat) /\ SubSeq(data, k + 1, Len(data)) \in Seq(Nat)
           /\ SubSeq(data, 1, k) \o SubSeq(data, k + 1, Len(data)) = data
           /\ k = Len(data) => /\ SubSeq(data, 1, k) = data
                               /\ SubSeq(data, k + 1, Len(data)) = <<>>
<1>1. Len(data) \in Nat /\ k \in Nat /\ k <= Len(data)
  OBVIOUS
<1>2. SubSeq(data, 1, k) \in Seq(Nat) /\ SubSeq(data, k + 1, Len(data)) \in Seq(Nat)
  BY <1>1
<1>3. SubSeq(data, 1, k) \o SubSeq(data, k + 1, Len(data)) = SubSeq(data, 1, Len(data))
  <2>1. 1 \in 1 .. Len(data) + 1 /\ k \in 1 - 1 .. Len(data) /\ Len(data) \in k .. Len(data)
    BY <1>1
  <2> QED BY <2>1, ConcatAdjacentSubSeq
<1>4. SubSeq(data, 1, Len(data)) = data
  BY SubSeqFull
<1>5. k = Len(data) => SubSeq(data, k + 1, Len(data)) = <<>>
  BY <1>1, SubSeqEmpty
<1> QED BY <1>2, <1>3, <1>4, <1>5

(* On a full disk a part of the bytes is stored. *)
StoredPart(o, file, held, data, k) ==
    \E j \in 0 .. k - 1, h \in {held, <<>>} :
        o = [file |-> file \o SubSeq(data, 1, j), held |-> h, good |-> FALSE]

(* That is what the hand-over does then. *)
LEMMA HandFull ==
    ASSUME NEW file, NEW held, NEW data, NEW k, k > 0 /\ full,
           NEW o \in Hand(file, held, data, k)
    PROVE  StoredPart(o, file, held, data, k)
BY DEF Hand, StoredPart

(* A hand-over of the first k bytes of data. *)
Handing(o, file, held, data, k) ==
    /\ file \in Seq(Nat) /\ held \in Seq(Nat) /\ data \in Seq(Nat)
    /\ k \in 0 .. Len(data)
    /\ o \in Hand(file, held, data, k)

(* It stores them, or the stream is bad afterwards. *)
LEMMA HandOutcome ==
    ASSUME NEW o, NEW file, NEW held, NEW data, NEW k, Handing(o, file, held, data, k)
    PROVE  Outcome(o, file, data) /\ (k = Len(data) /\ o.good => o.held = <<>>)
<1>0. /\ file \in Seq(Nat) /\ held \in Seq(Nat) /\ data \in Seq(Nat)
      /\ k \in 0 .. Len(data) /\ k \in Nat /\ Len(data) \in Nat
      /\ o \in Hand(file, held, data, k)
  BY DEF Handing
<1>1. CASE k > 0 /\ full
  <2>1. PICK j \in 0 .. k - 1, h \in {held, <<>>} :
            o = [file |-> file \o SubSeq(data, 1, j), held |-> h, good |-> FALSE]
    <3>1. StoredPart(o, file, held, data, k)
      BY <1>0, <1>1, HandFull, Zenon
    <3> QED BY <3>1, Zenon DEF StoredPart
  <2>2. j \in 0 .. Len(data)
    BY <1>0
  <2>3. SubSeq(data, 1, j) \in Seq(Nat)
    BY <1>0, <2>2, Cut
  <2>4. file \o SubSeq(data, 1, j) \in Seq(Nat)
    BY <1>0, <2>3, ConcatProperties
  <2>5. h \in Seq(Nat)
    BY <1>0, EmptySeq
  <2> QED BY <2>1, <2>3, <2>4, <2>5 DEF Outcome
<1>2. CASE ~ (k > 0 /\ full)
  <2> DEFINE x == SubSeq(data, 1, k)
             y == SubSeq(data, k + 1, Len(data))
  <2>1. o = [file |-> file \o x, held |-> y, good |-> TRUE]
    BY <1>0, <1>2 DEF Hand
  <2>2. x \in Seq(Nat) /\ y \in Seq(Nat) /\ x \o y = data
    BY <1>0, Cut
  <2>3. k = Len(data) => x = data /\ y = <<>>
    BY <1>0, Cut
  <2> HIDE DEF x, y
  <2>4. file \o x \in Seq(Nat)
    BY <1>0, <2>2, ConcatProperties
  <2> QED BY <2>1, <2>2, <2>3, <2>4 DEF Outcome
<1> QED BY <1>1, <1>2

(* An outcome is a record of three fields. *)
LEMMA HandFields ==
    ASSUME NEW file, NEW held, NEW data, NEW k, NEW p \in Hand(file, held, data, k), NEW g
    PROVE  LET q == [p EXCEPT !.good = g]
               r == [p EXCEPT !.held = <<>>, !.good = g]
           IN  /\ q.file = p.file /\ q.held = p.held /\ q.good = g
               /\ r.file = p.file /\ r.held = <<>> /\ r.good = g
<1>1. PICK f, h, b : p = [file |-> f, held |-> h, good |-> b]
  BY DEF Hand
<1> QED BY <1>1

(* The state of a stream: what it holds back and whether it is good. *)
Stream(s) == s.held \in Seq(Nat) /\ s.good \in BOOLEAN

(* write() *)
LEMMA PutOutcome ==
    ASSUME NEW file \in Seq(Nat), NEW s, Stream(s), NEW data \in Seq(Nat),
           NEW o \in Put(file, s, data)
    PROVE  Outcome(o, file, s.held \o data) /\ (o.good => s.good)
<1> DEFINE all == s.held \o data
<1>1. all \in Seq(Nat) /\ s.held \in Seq(Nat)
  BY ConcatProperties DEF Stream
<1> SUFFICES Outcome(o, file, all) /\ (o.good => s.good)
  OBVIOUS
<1>2. CASE s.good
  <2>1. PICK k \in 0 .. Len(all) : o \in Hand(file, s.held, all, k)
    <3> HIDE DEF all
    <3>1. o \in UNION {Hand(file, s.held, all, k) :
                           k \in {i \in 0 .. Len(all) : Len(all) - i <= BufferSize}}
      BY <1>2 DEF Put, all
    <3> QED BY <3>1
  <2> HIDE DEF all
  <2>2. Handing(o, file, s.held, all, k)
    BY <1>1, <2>1 DEF Handing
  <2> QED BY <1>2, <2>2, HandOutcome, Zenon
<1>3. CASE ~ s.good
  <2> HIDE DEF all
  <2>1. o = [file |-> file, held |-> s.held, good |-> FALSE]
    BY <1>3 DEF Put
  <2>2. file \o <<>> = file /\ <<>> \in Seq(Nat)
    OBVIOUS
  <2> QED BY <1>1, <2>1, <2>2 DEF Outcome
<1> QED BY <1>2, <1>3 DEF Stream

(* The end of flush() and close(): everything that was held is handed over. *)
LEMMA AllOutcome ==
    ASSUME NEW file \in Seq(Nat), NEW s, Stream(s),
           NEW o \in Hand(file, s.held, s.held, Len(s.held))
    PROVE  Outcome(o, file, s.held) /\ (o.good => o.held = <<>>)
<1> DEFINE len == Len(s.held)
<1>1. s.held \in Seq(Nat) /\ Len(s.held) \in 0 .. Len(s.held)
  BY DEF Stream
<1>2. Handing(o, file, s.held, s.held, len)
  BY <1>1 DEF Handing
<1>3. len = Len(s.held)
  OBVIOUS
<1> HIDE DEF len
<1> QED BY <1>2, <1>3, HandOutcome, Zenon

(* flush() *)
LEMMA FlushOutcome ==
    ASSUME NEW file \in Seq(Nat), NEW s, Stream(s), NEW o \in Flushed(file, s)
    PROVE  Outcome(o, file, s.held) /\ (o.good => s.good /\ o.held = <<>>)
<1>1. CASE s.good
  <2>1. o \in Hand(file, s.held, s.held, Len(s.held))
    BY <1>1 DEF Flushed
  <2> QED BY <1>1, <2>1, AllOutcome
<1>2. CASE ~ s.good
  <2>1. PICK p \in Hand(file, s.held, s.held, Len(s.held))
                   \cup {[file |-> file, held |-> s.held, good |-> FALSE]} :
            o = [p EXCEPT !.good = FALSE]
    BY <1>2 DEF Flushed
  <2>2. CASE p = [file |-> file, held |-> s.held, good |-> FALSE]
    <3>1. file \o <<>> = file /\ <<>> \in Seq(Nat)
      OBVIOUS
    <3>2. o.file = file /\ o.held = s.held /\ o.good = FALSE
      BY <2>1, <2>2
    <3> QED BY <3>1, <3>2 DEF Outcome, Stream
  <2>3. CASE p \in Hand(file, s.held, s.held, Len(s.held))
    <3>1. Outcome(p, file, s.held)
      BY <2>3, AllOutcome
    <3>2. o.file = p.file /\ o.held = p.held /\ o.good = FALSE
      BY <2>1, <2>3, HandFields
    <3> QED BY <3>1, <3>2 DEF Outcome
  <2> QED BY <2>1, <2>2, <2>3
<1> QED BY <1>1, <1>2 DEF Stream

(* close() *)
LEMMA CloseOutcome ==
    ASSUME NEW file \in Seq(Nat), NEW s, Stream(s), NEW o \in Closed(file, s)
    PROVE  Outcome(o, file, s.held) /\ o.held = <<>> /\ (o.good => s.good)
<1>1. PICK p \in Hand(file, s.held, s.held, Len(s.held)) :
          o = [p EXCEPT !.held = <<>>, !.good = p.good /\ s.good]
  BY DEF Closed
<1>2. Outcome(p, file, s.held) /\ (p.good => p.held = <<>>)
  BY AllOutcome
<1>3. o.file = p.file /\ o.held = <<>> /\ o.good = (p.good /\ s.good)
  BY <1>1, HandFields
<1>4. /\ p.file \in Seq(Nat) /\ p.good \in BOOLEAN
      /\ \E x \in Seq(Nat) : p.file = file \o x /\ (p.good => x \o p.held = s.held)
  BY <1>2 DEF Outcome
<1>5. Outcome(o, file, s.held)
  <2>1. o.good \in BOOLEAN
    BY <1>3, <1>4, Zenon DEF Stream
  <2>2. o.held \in Seq(Nat)
    BY <1>3, EmptySeq
  <2>3. PICK x \in Seq(Nat) : p.file = file \o x /\ (p.good => x \o p.held = s.held)
    BY <1>4
  <2>4. o.file \in Seq(Nat) /\ o.file = file \o x
    BY <1>3, <1>4, <2>3, Zenon
  <2>5. o.good => x \o o.held = s.held
    BY <1>2, <1>3, <2>3, Zenon
  <2> QED BY <2>1, <2>2, <2>4, <2>5 DEF Outcome
<1> QED BY <1>3, <1>5, Zenon

-----------------------------------------------------------------------------
(* The parts of a run *)

Names == Nat \X Nat

(* The parts p of a run are files on the disk d, one for each cycle. *)
Sound(d, p) == /\ d \in [DOMAIN d -> Seq(Nat)] /\ p \in Seq(Names)
               /\ \A i \in 1 .. Len(p) : p[i] \in DOMAIN d /\ p[i][1] + 1 = i

(* What the parts hold on disk, and with the bytes h still in the stream. *)
Contents(d, p) == [i \in 1 .. Len(p) |-> d[p[i]]]
Files(d, p, h) == [i \in 1 .. Len(p) |-> IF i = Len(p) THEN d[p[i]] \o h ELSE d[p[i]]]

(* The run on disk d. *)
Run(d, p) == FlattenSeq(Contents(d, p))

(* The bytes x are added to the last of the parts p of disk d. *)
Grown(d, p, x) == [d EXCEPT ![p[Len(p)]] = d[p[Len(p)]] \o x]

(* A new file. *)
Added(d, name, y) == [f \in DOMAIN d \cup {name} |-> IF f = name THEN y ELSE d[f]]

(* The contents of the parts are sequences. *)
LEMMA RunType ==
    ASSUME NEW d, NEW p, Sound(d, p)
    PROVE  /\ Contents(d, p) \in Seq(Seq(Nat)) /\ Len(Contents(d, p)) = Len(p)
           /\ \A i \in 1 .. Len(p) : Contents(d, p)[i] = d[p[i]] /\ d[p[i]] \in Seq(Nat)
           /\ Run(d, p) \in Seq(Nat)
<1>1. Len(p) \in Nat /\ \A i \in 1 .. Len(p) : d[p[i]] \in Seq(Nat)
  BY DEF Sound
<1>2. Contents(d, p) \in Seq(Seq(Nat)) /\ Len(Contents(d, p)) = Len(p)
  BY <1>1 DEF Contents
<1>3. \A i \in 1 .. Len(p) : Contents(d, p)[i] = d[p[i]]
  BY DEF Contents
<1>4. Run(d, p) \in Seq(Nat)
  BY <1>2, FlattenType DEF Run
<1> QED BY <1>1, <1>2, <1>3, <1>4

(* Before the first part there is no run. *)
LEMMA RunEmpty == \A d : Run(d, <<>>) = <<>>
<1>1. \A d : Contents(d, <<>>) = <<>>
  BY DEF Contents
<1> QED BY <1>1, FlattenEmpty DEF Run

(* The disk d has become e: only the last of the parts has grown. *)
CanGrow(d, p, x) == Sound(d, p) /\ p # <<>> /\ x \in Seq(Nat)
HasGrown(d, p, x, e) ==
    /\ Sound(e, p) /\ DOMAIN e = DOMAIN d
    /\ e[p[Len(p)]] = d[p[Len(p)]] \o x
    /\ \A f \in DOMAIN d : f # p[Len(p)] => e[f] = d[f]
    /\ Run(e, p) = Run(d, p) \o x

(* The last part grows. *)
LEMMA RunGrows ==
    ASSUME NEW d, NEW p, NEW x, CanGrow(d, p, x)
    PROVE  HasGrown(d, p, x, Grown(d, p, x))
<1> DEFINE n == Len(p)
           e == Grown(d, p, x)
           s == Contents(d, p)
<1>0. Sound(d, p) /\ p # <<>> /\ x \in Seq(Nat)
  BY DEF CanGrow
<1>1. n \in Nat \ {0} /\ p[n] \in DOMAIN d /\ d[p[n]] \in Seq(Nat)
  BY <1>0 DEF Sound
<1>2. d[p[n]] \o x \in Seq(Nat)
  BY <1>0, <1>1, ConcatProperties
<1>3. /\ DOMAIN e = DOMAIN d /\ e[p[n]] = d[p[n]] \o x
      /\ \A f \in DOMAIN d : f # p[n] => e[f] = d[f]
      /\ e \in [DOMAIN d -> Seq(Nat)]
  BY <1>0, <1>1, <1>2 DEF Grown, Sound
<1> HIDE DEF e
<1>4. Sound(e, p)
  BY <1>0, <1>3 DEF Sound
<1>5. Contents(e, p) = [s EXCEPT ![n] = s[n] \o x]
  <2>1. \A i \in 1 .. n : e[p[i]] = IF i = n THEN d[p[n]] \o x ELSE d[p[i]]
    <3> SUFFICES ASSUME NEW i \in 1 .. n
                 PROVE  e[p[i]] = IF i = n THEN d[p[n]] \o x ELSE d[p[i]]
      OBVIOUS
    <3>1. p[i] \in DOMAIN d /\ p[i][1] + 1 = i /\ p[n][1] + 1 = n /\ i \in Nat
      <4>1. \A k \in 1 .. n : p[k] \in DOMAIN d /\ p[k][1] + 1 = k
        BY <1>0 DEF Sound
      <4>2. n \in 1 .. n /\ i \in Nat
        BY <1>1
      <4> HIDE DEF n
      <4> QED BY <4>1, <4>2
    <3>2. i # n => p[i] # p[n]
      BY <3>1
    <3> QED BY <1>3, <3>1, <3>2
  <2>2. s[n] = d[p[n]]
    BY <1>1 DEF Contents
  <2> QED BY <1>1, <2>1, <2>2 DEF Contents
<1>6. s \in Seq(Seq(Nat)) /\ Len(s) = n /\ s # <<>>
  BY <1>0, <1>1, RunType
<1> HIDE DEF s
<1>7. Run(e, p) = Run(d, p) \o x
  BY <1>0, <1>5, <1>6, FlattenLast DEF Run, s
<1>8. HasGrown(d, p, x, e)
  BY <1>3, <1>4, <1>7 DEF HasGrown
<1> QED BY <1>8 DEF e

(* The disk d has become e: a file was added. *)
CanSplit(d, p, name, y) == Sound(d, p) /\ name \in Names /\ name[1] = Len(p) /\ y \in Seq(Nat)
HasSplit(d, p, name, y, e) ==
    /\ Sound(e, Append(p, name)) /\ DOMAIN e = DOMAIN d \cup {name}
    /\ e[name] = y
    /\ \A f \in DOMAIN d : f # name => e[f] = d[f]
    /\ \A i \in 1 .. Len(p) : p[i] # name /\ e[p[i]] = d[p[i]]
    /\ Run(e, Append(p, name)) = Run(d, p) \o y

(* A part more. *)
LEMMA RunSplits ==
    ASSUME NEW d, NEW p, NEW name, NEW y, CanSplit(d, p, name, y)
    PROVE  HasSplit(d, p, name, y, Added(d, name, y))
<1> DEFINE n == Len(p)
           e == Added(d, name, y)
           q == Append(p, name)
           s == Contents(d, p)
<1>0. Sound(d, p) /\ name \in Names /\ name[1] = Len(p) /\ y \in Seq(Nat)
  BY DEF CanSplit
<1>1. n \in Nat /\ p \in Seq(Names)
  BY <1>0 DEF Sound
<1>2. /\ q \in Seq(Names) /\ Len(q) = n + 1 /\ q[n + 1] = name
      /\ \A i \in 1 .. n : q[i] = p[i]
  BY <1>0, <1>1, AppendProperties
<1>3. /\ DOMAIN e = DOMAIN d \cup {name} /\ e[name] = y
      /\ \A f \in DOMAIN d : f # name => e[f] = d[f]
      /\ e \in [DOMAIN d \cup {name} -> Seq(Nat)]
  BY <1>0 DEF Added, Sound
<1>4. \A i \in 1 .. n : p[i] # name /\ p[i] \in DOMAIN d /\ e[p[i]] = d[p[i]]
  BY <1>0, <1>1, <1>3 DEF Sound
<1> HIDE DEF e, q
<1>5. Sound(e, q)
  <2> SUFFICES ASSUME NEW i \in 1 .. n + 1 PROVE q[i] \in DOMAIN e /\ q[i][1] + 1 = i
    BY <1>2, <1>3 DEF Sound
  <2>1. CASE i \in 1 .. n
    BY <1>0, <1>2, <1>3, <2>1 DEF Sound
  <2>2. CASE i = n + 1
    BY <1>0, <1>2, <1>3, <2>2
  <2> QED BY <1>1, <2>1, <2>2
<1>6. Contents(e, q) = Append(s, y)
  <2> DEFINE c == Contents(e, q)
             a == Append(s, y)
  <2>1. s \in Seq(Seq(Nat)) /\ Len(s) = n /\ \A i \in 1 .. n : s[i] = d[p[i]]
    BY <1>0, RunType
  <2>2. c \in Seq(Seq(Nat)) /\ Len(c) = n + 1
    BY <1>2, <1>5, RunType
  <2>3. \A i \in 1 .. n + 1 : c[i] = IF i = n + 1 THEN y ELSE d[p[i]]
    BY <1>1, <1>2, <1>3, <1>4 DEF Contents
  <2> HIDE DEF s
  <2>4. /\ a \in Seq(Seq(Nat)) /\ Len(a) = n + 1
        /\ \A i \in 1 .. n + 1 : a[i] = IF i = n + 1 THEN y ELSE d[p[i]]
    <3>1. /\ a \in Seq(Seq(Nat)) /\ Len(a) = n + 1 /\ a[n + 1] = y
          /\ \A i \in 1 .. n : a[i] = s[i]
      BY <1>0, <2>1, AppendProperties
    <3> HIDE DEF a
    <3> QED BY <1>1, <2>1, <3>1
  <2> HIDE DEF a, c
  <2>5. a = c
    <3>1. \A i \in 1 .. n + 1 : a[i] = c[i]
      BY <2>3, <2>4
    <3> QED BY <2>2, <2>4, <3>1, SeqEqual
  <2> QED BY <2>5 DEF a, c
<1>7. Run(e, q) = Run(d, p) \o y
  <2>1. s \in Seq(Seq(Nat))
    BY <1>0, RunType
  <2> HIDE DEF s
  <2>2. FlattenSeq(Append(s, y)) = FlattenSeq(s) \o y
    BY <1>0, <2>1, FlattenAppend
  <2> QED BY <1>6, <2>2 DEF Run, s
<1>8. HasSplit(d, p, name, y, e)
  BY <1>3, <1>4, <1>5, <1>7 DEF HasSplit, q
<1> QED BY <1>8 DEF e

-----------------------------------------------------------------------------
(* The inductive invariant *)

(* Every variable is in its type, and the parts are files on the disk. *)
Typed == /\ Sound(disk, parts)
         /\ DOMAIN disk \subseteq Names
         /\ stream \in [name : {None} \cup Names, held : Seq(Nat), good : BOOLEAN]
         /\ cycle \in Nat /\ fileBytes \in Nat /\ faults \in Nat /\ blocks \in Nat
         /\ flushed \in Nat
         /\ at \in {"new", "writing", "failed", "closed", "dead"}
         /\ dirty \in BOOLEAN /\ full \in BOOLEAN
         /\ accepted \in Seq(Nat)
         /\ errors \subseteq {"reported", "unheard"}

(* The stream is that of the last part while it is open, and a run without   *)
(* errors has a good one.                                                    *)
Opened ==
    /\ at = "new" => /\ parts = <<>> /\ cycle = 0 /\ flushed = 0 /\ blocks = 0
                     /\ errors = {}
    /\ parts = <<>> => accepted = <<>>
    /\ at = "writing" => stream.name # None /\ cycle + 1 = Len(parts)
    /\ at \in {"new", "closed", "dead"} => stream.name = None
    /\ stream.name # None => parts # <<>> /\ stream.name = parts[Len(parts)]
    /\ stream.name = None => stream.held = <<>>
    /\ errors = {} => at # "failed" /\ stream.good

(* A run without errors: what is on disk and what the stream holds are what  *)
(* was given, unless the process has died with the latter.                   *)
Whole ==
    errors = {} => \E x \in Seq(Nat) : /\ OnDisk \o x = Given
                                       /\ at # "dead" => x = stream.held

(* What a flush() has put on disk is there. *)
Kept == /\ flushed <= Len(OnDisk) /\ flushed <= Len(Given)
        /\ \A i \in 1 .. flushed : OnDisk[i] = Given[i]

(* The parts with what the stream holds of the last one. *)
Parts == Files(disk, parts, stream.held)

(* A part keeps to the limit, and the blocks in it are known. *)
Fits(f, last) ==
    /\ maxFileBytes # 0 => Len(f) <= maxFileBytes \/ \A k \in 1 .. Len(f) : f[k] = f[1]
    /\ \A k \in 1 .. Len(f) : f[k] <= last

(* A block ends before g begins. *)
Apart(f, g) == f # <<>> /\ g # <<>> /\ f[Len(f)] # g[1]

(* The parts of a run without errors.  fileBytes is the length of the part   *)
(* that is written, the bytes that the stream holds included.                *)
Sized ==
    errors = {} =>
        /\ \A i \in 1 .. Len(parts) : Fits(Parts[i], blocks)
        /\ at = "writing" => /\ fileBytes = Len(Parts[Len(parts)])
                             /\ \A i \in 1 .. Len(parts) - 1 : Apart(Parts[i], Parts[i + 1])

WriterInv == Typed /\ Opened /\ Whole /\ Kept /\ Sized

-----------------------------------------------------------------------------
(* What every action does to the run *)

(* The last part grows by x, or by nothing. *)
Grew(x) == parts # <<>> /\ parts' = parts /\ disk' = Grown(disk, parts, x)

(* The last part grows by x, and a new one begins with y. *)
Splits(x, name, y) == /\ parts # <<>> /\ parts' = Append(parts, name)
                      /\ disk' = Added(Grown(disk, parts, x), name, y)

(* The state a stream can have. *)
StreamType == [name : {None} \cup Names, held : Seq(Nat), good : BOOLEAN]

(* The stream is what it should be. *)
LEMMA StreamSound ==
    ASSUME Typed
    PROVE  /\ Stream(stream) /\ stream \in StreamType /\ stream.held \in Seq(Nat)
           /\ stream.good \in BOOLEAN /\ stream.name \in {None} \cup Names
BY DEF Typed, StreamType, Stream

(* An open stream is that of the last part. *)
LEMMA LastPart ==
    ASSUME Typed, Opened, stream.name # None
    PROVE  /\ parts # <<>> /\ stream.name = parts[Len(parts)]
           /\ Len(parts) \in Nat \ {0} /\ Len(parts) \in 1 .. Len(parts)
           /\ parts[Len(parts)] \in DOMAIN disk /\ stream.name \in DOMAIN disk
           /\ disk[stream.name] \in Seq(Nat)
<1>1. parts # <<>> /\ stream.name = parts[Len(parts)]
  BY DEF Opened
<1>2. Len(parts) \in Nat \ {0} /\ Len(parts) \in 1 .. Len(parts)
  BY <1>1 DEF Typed, Sound
<1>3. parts[Len(parts)] \in DOMAIN disk
  BY <1>2 DEF Typed, Sound
<1> QED BY <1>1, <1>2, <1>3 DEF Typed, Sound

(* The operation of the stream on the last part that had the outcome o. *)
LEMMA OutcomeGrows ==
    ASSUME Typed, Opened, stream.name # None, NEW given, NEW o,
           Outcome(o, disk[stream.name], given)
    PROVE  \E x \in Seq(Nat) : /\ [disk EXCEPT ![stream.name] = o.file] = Grown(disk, parts, x)
                               /\ o.good => x \o o.held = given
<1>1. PICK x \in Seq(Nat) : o.file = disk[stream.name] \o x /\ (o.good => x \o o.held = given)
  BY DEF Outcome
<1>2. stream.name = parts[Len(parts)]
  BY LastPart
<1>3. [disk EXCEPT ![stream.name] = o.file] = Grown(disk, parts, x)
  BY <1>1, <1>2 DEF Grown
<1> QED BY <1>1, <1>3

(* open() that fails, *)
OpenFails == /\ UNCHANGED <<disk, parts, stream, fileBytes>>
             /\ at' = "closed" /\ errors' = {"reported"} /\ faults' = faults + 1

(* and open() that creates the first part. *)
OpenCreates(name, y) ==
    /\ name = uniquePath(0)
    /\ parts' = Append(parts, name) /\ disk' = Added(disk, name, y)
    /\ stream' \in StreamType /\ stream'.name = name
    /\ stream'.good => y \o stream'.held = Header
    /\ at' = IF stream'.good THEN "writing" ELSE "failed"
    /\ errors' = IF stream'.good THEN {} ELSE {"reported"}
    /\ fileBytes' = HeaderBytes /\ faults' = faults

(* open() *)
LEMMA OpenEffect ==
    ASSUME Typed, Opened, Open
    PROVE  /\ at = "new" /\ UNCHANGED <<cycle, dirty, full, blocks, accepted, flushed>>
           /\ OpenFails \/ \E name \in Names, y \in Seq(Nat) : OpenCreates(name, y)
<1>1. at = "new" /\ UNCHANGED <<cycle, dirty, full, blocks, accepted, flushed>>
  BY DEF Open
<1>2. CASE /\ CannotCreate /\ at' = "closed" /\ errors' = {"reported"}
           /\ UNCHANGED <<disk, stream, parts, fileBytes>>
  BY <1>1, <1>2 DEF OpenFails, CannotCreate
<1>3. CASE /\ \E o \in Put(<<>>, NewStream, Header) :
                  /\ OpenPart(0, disk, o)
                  /\ at' = IF o.good THEN "writing" ELSE "failed"
                  /\ errors' = IF o.good THEN {} ELSE {"reported"}
           /\ fileBytes' = HeaderBytes
           /\ UNCHANGED faults
  <2>1. PICK o \in Put(<<>>, NewStream, Header) :
            /\ OpenPart(0, disk, o)
            /\ at' = IF o.good THEN "writing" ELSE "failed"
            /\ errors' = IF o.good THEN {} ELSE {"reported"}
    BY <1>3
  <2> DEFINE name == uniquePath(0)
  <2>2. Stream(NewStream) /\ NewStream.held \o Header = Header /\ <<>> \in Seq(Nat)
    BY HeaderType, ConcatEmptySeq, EmptySeq DEF Stream, NewStream
  <2>3. Outcome(o, <<>>, Header)
    BY <2>1, <2>2, PutOutcome, HeaderType
  <2>4. PICK y \in Seq(Nat) : o.file = <<>> \o y /\ (o.good => y \o o.held = Header)
    BY <2>3 DEF Outcome
  <2>5. o.file = y /\ o.held \in Seq(Nat) /\ o.good \in BOOLEAN
    BY <2>3, <2>4, ConcatEmptySeq DEF Outcome
  <2>6. name \in Names
    BY FreeName DEF Names
  <2>7. /\ disk' = Added(disk, name, y) /\ parts' = Append(parts, name)
        /\ stream' = [name |-> name, held |-> o.held, good |-> o.good]
    BY <2>1, <2>5 DEF OpenPart, Added
  <2> HIDE DEF name
  <2>8. /\ stream' \in StreamType /\ stream'.name = name /\ stream'.held = o.held
        /\ stream'.good = o.good
    BY <2>5, <2>6, <2>7 DEF StreamType
  <2>9. OpenCreates(name, y)
    BY <1>3, <2>1, <2>4, <2>7, <2>8 DEF OpenCreates, name
  <2> QED BY <1>1, <2>4, <2>6, <2>9
<1> QED BY <1>1, <1>2, <1>3, Zenon DEF Open

(* How write() ends. *)
Accounted(b, len, before, known) ==
    /\ errors' = IF stream'.good THEN known ELSE known \cup {"reported"}
    /\ at' = IF stream'.good THEN "writing" ELSE "failed"
    /\ fileBytes' = IF stream'.good THEN before + len ELSE before
    /\ accepted' = IF stream'.good THEN accepted \o Bytes(b, len) ELSE accepted

(* write() into the current part. *)
Writes(x, b, len) ==
    /\ ~MustRotate(len)
    /\ Grew(x) /\ UNCHANGED <<cycle, faults>>
    /\ stream' \in StreamType /\ stream'.name = stream.name
    /\ stream'.good => stream.good /\ x \o stream'.held = stream.held \o Bytes(b, len)
    /\ Accounted(b, len, fileBytes, errors)

(* WriteHere is that. *)
LEMMA WriteHereEffect ==
    ASSUME Typed, Opened, at = "writing", NEW b \in Nat, NEW len \in Nat, WriteHere(b, len)
    PROVE  \E x \in Seq(Nat) : Writes(x, b, len)
<1>1. PICK o \in Put(disk[stream.name], stream, Bytes(b, len)) :
          /\ disk' = [disk EXCEPT ![stream.name] = o.file]
          /\ stream' = [stream EXCEPT !.held = o.held, !.good = o.good]
          /\ Account(o, b, len, fileBytes, errors)
  BY DEF WriteHere
<1>2. stream.name # None
  BY DEF Opened
<1>3. Outcome(o, disk[stream.name], stream.held \o Bytes(b, len)) /\ (o.good => stream.good)
  BY <1>1, <1>2, LastPart, StreamSound, BytesType, PutOutcome
<1>4. PICK x \in Seq(Nat) : /\ [disk EXCEPT ![stream.name] = o.file] = Grown(disk, parts, x)
                            /\ o.good => x \o o.held = stream.held \o Bytes(b, len)
  BY <1>2, <1>3, OutcomeGrows
<1>5. o.held \in Seq(Nat) /\ o.good \in BOOLEAN
  BY <1>3 DEF Outcome
<1>6. /\ stream' \in StreamType /\ stream'.name = stream.name /\ stream'.held = o.held
      /\ stream'.good = o.good
  BY <1>1, <1>5, StreamSound DEF StreamType
<1>7. Accounted(b, len, fileBytes, errors)
  BY <1>1, <1>6, Zenon DEF Account, Accounted
<1>8. ~MustRotate(len) /\ UNCHANGED <<cycle, faults, parts>> /\ parts # <<>>
  BY <1>2, LastPart DEF WriteHere
<1>9. Writes(x, b, len)
  BY <1>1, <1>3, <1>4, <1>6, <1>7, <1>8 DEF Writes, Grew
<1> QED BY <1>4, <1>9

(* write() that cannot leave the current part, *)
Stays == /\ UNCHANGED <<disk, stream, parts, fileBytes, accepted>>
         /\ at' = "failed" /\ errors' = errors \cup {"reported"} /\ faults' = faults + 1

(* that cannot create the next one, *)
Abandons(x) == /\ Grew(x)
               /\ stream' = [name |-> None, held |-> <<>>, good |-> FALSE]
               /\ at' = "failed"
               /\ errors' \subseteq {"reported", "unheard"} /\ "reported" \in errors'
               /\ UNCHANGED <<fileBytes, accepted>>
               /\ faults' = faults + 1

(* or that begins it.  The error of closing the old part is not heard. *)
Rotates(x, name, y, b, len) ==
    /\ Splits(x, name, y) /\ name = uniquePath(cycle + 1) /\ faults' = faults
    /\ stream' \in StreamType /\ stream'.name = name
    /\ stream'.good => y \o stream'.held = Bytes(b, len)
    /\ \/ Accounted(b, len, 0, errors) /\ stream.good /\ x = stream.held
       \/ Accounted(b, len, 0, errors \cup {"unheard"})

(* WriteRotating is one of these. *)
LEMMA WriteRotatingEffect ==
    ASSUME Typed, Opened, at = "writing", NEW b \in Nat, NEW len \in Nat, WriteRotating(b, len)
    PROVE  /\ MustRotate(len) /\ cycle' = cycle + 1
           /\ \/ Stays
              \/ \E x \in Seq(Nat) : Abandons(x)
              \/ \E x, y \in Seq(Nat), name \in Names : Rotates(x, name, y, b, len)
<1>1. MustRotate(len) /\ cycle' = cycle + 1 /\ stream.name # None
  BY DEF WriteRotating, Opened
<1>2. CASE /\ CannotCreate
           /\ at' = "failed"
           /\ errors' = errors \cup {"reported"}
           /\ UNCHANGED <<disk, stream, parts, fileBytes, accepted>>
  BY <1>1, <1>2 DEF Stays, CannotCreate
<1>3. ASSUME NEW c \in Closed(disk[stream.name], stream),
             LET rest == [disk EXCEPT ![stream.name] = c.file]
                 known == IF c.good THEN errors ELSE errors \cup {"unheard"}
             IN  \/ /\ CannotCreate
                    /\ disk' = rest
                    /\ stream' = [name |-> None, held |-> <<>>, good |-> FALSE]
                    /\ at' = "failed"
                    /\ errors' = known \cup {"reported"}
                    /\ UNCHANGED <<parts, fileBytes, accepted>>
                 \/ /\ \E o \in Put(<<>>, NewStream, Bytes(b, len)) :
                           OpenPart(cycle + 1, rest, o) /\ Account(o, b, len, 0, known)
                    /\ UNCHANGED faults
      PROVE  \/ \E x \in Seq(Nat) : Abandons(x)
             \/ \E x, y \in Seq(Nat), name \in Names : Rotates(x, name, y, b, len)
  <2> DEFINE rest == [disk EXCEPT ![stream.name] = c.file]
             known == IF c.good THEN errors ELSE errors \cup {"unheard"}
  <2>1. /\ Outcome(c, disk[stream.name], stream.held) /\ c.held = <<>>
        /\ c.good => stream.good
    BY <1>1, LastPart, StreamSound, CloseOutcome
  <2>2. PICK x \in Seq(Nat) : rest = Grown(disk, parts, x) /\ (c.good => x \o c.held = stream.held)
    BY <1>1, <2>1, OutcomeGrows
  <2>3. c.good => stream.good /\ x = stream.held
    BY <2>1, <2>2, ConcatEmptySeq
  <2>4. c.good \in BOOLEAN
    BY <2>1 DEF Outcome
  <2>5. parts # <<>> /\ errors \subseteq {"reported", "unheard"}
    BY <1>1, LastPart DEF Typed
  <2>6. CASE /\ CannotCreate
             /\ disk' = rest
             /\ stream' = [name |-> None, held |-> <<>>, good |-> FALSE]
             /\ at' = "failed"
             /\ errors' = known \cup {"reported"}
             /\ UNCHANGED <<parts, fileBytes, accepted>>
    <3>1. errors' \subseteq {"reported", "unheard"} /\ "reported" \in errors'
      BY <2>5, <2>6
    <3> HIDE DEF rest, known
    <3>2. Abandons(x)
      BY <2>2, <2>5, <2>6, <3>1 DEF Abandons, Grew, CannotCreate
    <3> QED BY <3>2
  <2>7. ASSUME NEW o \in Put(<<>>, NewStream, Bytes(b, len)),
               OpenPart(cycle + 1, rest, o), Account(o, b, len, 0, known), UNCHANGED faults
        PROVE  \E z, y \in Seq(Nat), name \in Names : Rotates(z, name, y, b, len)
    <3> DEFINE name == uniquePath(cycle + 1)
    <3> HIDE DEF rest, known
    <3>1. Stream(NewStream) /\ NewStream.held = <<>> /\ <<>> \in Seq(Nat)
      BY EmptySeq DEF Stream, NewStream
    <3>2. Bytes(b, len) \in Seq(Nat) /\ NewStream.held \o Bytes(b, len) = Bytes(b, len)
      BY <3>1, BytesType, ConcatEmptySeq
    <3>3. Outcome(o, <<>>, NewStream.held \o Bytes(b, len))
      BY <2>7, <3>1, <3>2, PutOutcome
    <3>4. PICK y \in Seq(Nat) : o.file = <<>> \o y /\ (o.good => y \o o.held = Bytes(b, len))
      BY <3>2, <3>3 DEF Outcome
    <3>5. o.file = y /\ o.held \in Seq(Nat) /\ o.good \in BOOLEAN
      BY <3>3, <3>4, ConcatEmptySeq DEF Outcome
    <3>6. name \in Names
      <4>1. cycle + 1 \in Nat
        BY DEF Typed
      <4> QED BY <4>1, FreeName DEF Names
    <3>7. /\ disk' = Added(rest, name, y) /\ parts' = Append(parts, name)
          /\ stream' = [name |-> name, held |-> o.held, good |-> o.good]
      BY <2>7, <3>5 DEF OpenPart, Added
    <3>8. name = uniquePath(cycle + 1)
      OBVIOUS
    <3> HIDE DEF name
    <3>9. /\ stream' \in StreamType /\ stream'.name = name /\ stream'.held = o.held
          /\ stream'.good = o.good
      BY <3>5, <3>6, <3>7 DEF StreamType
    <3>10. Accounted(b, len, 0, known)
      BY <2>7, <3>9, Zenon DEF Account, Accounted
    <3>11. \/ Accounted(b, len, 0, errors) /\ stream.good /\ x = stream.held
           \/ Accounted(b, len, 0, errors \cup {"unheard"})
      <4>1. CASE c.good
        <5>1. known = errors
          BY <4>1 DEF known
        <5> QED BY <2>3, <3>10, <4>1, <5>1, Zenon
      <4>2. CASE ~c.good
        <5>1. known = errors \cup {"unheard"}
          BY <4>2 DEF known
        <5> QED BY <3>10, <5>1, Zenon
      <4> QED BY <4>1, <4>2
    <3>12. Splits(x, name, y)
      BY <2>2, <2>5, <3>7, Zenon DEF Splits
    <3>13. stream'.good => y \o stream'.held = Bytes(b, len)
      BY <3>4, <3>9, Zenon
    <3>14. faults' = faults
      BY <2>7
    <3>15. Rotates(x, name, y, b, len)
      BY <3>8, <3>9, <3>11, <3>12, <3>13, <3>14, Zenon DEF Rotates
    <3> QED BY <2>2, <3>4, <3>6, <3>15, Zenon
  <2> QED BY <1>3, <2>2, <2>6, <2>7, Zenon
<1> QED BY <1>1, <1>2, <1>3, Zenon DEF WriteRotating

(* flush() by the writer thread. *)
Flushes(x) ==
    /\ Grew(x) /\ dirty' = FALSE
    /\ stream' \in StreamType /\ stream'.name = stream.name
    /\ stream'.good => stream.good /\ x = stream.held /\ stream'.held = <<>>
    /\ flushed' = IF stream'.good /\ errors = {} THEN HeaderBytes + Len(accepted) ELSE flushed
    /\ errors' = IF stream'.good THEN errors ELSE errors \cup {"unheard"}
    /\ UNCHANGED <<cycle, fileBytes, at, full, faults, blocks, accepted>>

(* Flush is that. *)
LEMMA FlushEffect ==
    ASSUME Typed, Opened, Flush
    PROVE  at = "writing" /\ \E x \in Seq(Nat) : Flushes(x)
<1>1. PICK o \in Flushed(disk[stream.name], stream) :
          /\ disk' = [disk EXCEPT ![stream.name] = o.file]
          /\ stream' = [stream EXCEPT !.held = o.held, !.good = o.good]
          /\ flushed' = IF o.good /\ errors = {} THEN HeaderBytes + Len(accepted) ELSE flushed
          /\ errors' = IF o.good THEN errors ELSE errors \cup {"unheard"}
  BY DEF Flush
<1>2. at = "writing" /\ stream.name # None
  BY DEF Opened, Flush
<1>3. Outcome(o, disk[stream.name], stream.held) /\ (o.good => stream.good /\ o.held = <<>>)
  BY <1>1, <1>2, LastPart, StreamSound, FlushOutcome
<1>4. PICK x \in Seq(Nat) : /\ [disk EXCEPT ![stream.name] = o.file] = Grown(disk, parts, x)
                            /\ o.good => x \o o.held = stream.held
  BY <1>2, <1>3, OutcomeGrows
<1>5. o.held \in Seq(Nat) /\ o.good \in BOOLEAN
  BY <1>3 DEF Outcome
<1>6. /\ stream' \in StreamType /\ stream'.name = stream.name /\ stream'.held = o.held
      /\ stream'.good = o.good
  BY <1>1, <1>5, StreamSound DEF StreamType
<1>7. o.good => x = stream.held
  BY <1>3, <1>4, ConcatEmptySeq
<1>8. /\ UNCHANGED <<cycle, fileBytes, at, full, faults, blocks, accepted>>
      /\ parts' = parts /\ parts # <<>> /\ dirty' = FALSE
  BY <1>2, LastPart DEF Flush
<1>9. /\ flushed' = IF stream'.good /\ errors = {} THEN HeaderBytes + Len(accepted) ELSE flushed
      /\ errors' = IF stream'.good THEN errors ELSE errors \cup {"unheard"}
  BY <1>1, <1>6, Zenon
<1>10. Flushes(x)
  BY <1>1, <1>3, <1>4, <1>6, <1>7, <1>8, <1>9, Zenon DEF Flushes, Grew
<1> QED BY <1>2, <1>4, <1>10

(* close() of an open file, and of none. *)
Closes(x) == /\ Grew(x)
             /\ errors' \in {errors, errors \cup {"unheard"}}
             /\ errors' = {} => errors = {} /\ x = stream.held
ClosesNothing == stream.name = None /\ UNCHANGED <<disk, parts, errors>>

(* Close is one of these. *)
LEMMA CloseEffect ==
    ASSUME Typed, Opened, Close
    PROVE  /\ at \in {"writing", "failed"} /\ at' = "closed"
           /\ stream' = [name |-> None, held |-> <<>>, good |-> TRUE]
           /\ UNCHANGED <<cycle, fileBytes, dirty, full, faults, blocks, accepted, flushed>>
           /\ ClosesNothing \/ \E x \in Seq(Nat) : Closes(x)
<1>1. /\ at \in {"writing", "failed"} /\ at' = "closed" /\ parts' = parts
      /\ stream' = [name |-> None, held |-> <<>>, good |-> TRUE]
      /\ UNCHANGED <<cycle, fileBytes, dirty, full, faults, blocks, accepted, flushed>>
  BY DEF Close
<1>2. CASE stream.name = None
  BY <1>1, <1>2 DEF Close, ClosesNothing
<1>3. CASE stream.name # None
  <2> DEFINE file == disk[stream.name]
  <2>0. PICK first \in Flushed(file, stream) :
            \E o \in Closed(first.file, first) :
                /\ disk' = [disk EXCEPT ![stream.name] = o.file]
                /\ errors' = IF o.good THEN errors ELSE errors \cup {"unheard"}
    BY <1>3 DEF Close
  <2>1. PICK o \in Closed(first.file, first) :
            /\ disk' = [disk EXCEPT ![stream.name] = o.file]
            /\ errors' = IF o.good THEN errors ELSE errors \cup {"unheard"}
    BY <2>0
  <2>2. file \in Seq(Nat) /\ parts # <<>>
    BY <1>3, LastPart
  <2>3. /\ Outcome(first, file, stream.held)
        /\ first.good => stream.good /\ first.held = <<>>
    BY <2>1, <2>2, StreamSound, FlushOutcome
  <2>4. Stream(first) /\ first.file \in Seq(Nat)
    BY <2>3 DEF Outcome, Stream
  <2>5. /\ Outcome(o, first.file, first.held) /\ o.held = <<>>
        /\ o.good => first.good
    BY <2>1, <2>4, CloseOutcome
  <2>6. PICK x \in Seq(Nat) : first.file = file \o x /\ (first.good => x \o first.held = stream.held)
    BY <2>3 DEF Outcome
  <2>7. PICK y \in Seq(Nat) : o.file = first.file \o y /\ (o.good => y \o o.held = first.held)
    BY <2>5 DEF Outcome
  <2> DEFINE z == x \o y
  <2>8. z \in Seq(Nat) /\ o.file = file \o z
    <3> HIDE DEF file
    <3> QED BY <2>2, <2>6, <2>7, ConcatProperties, Associative
  <2>9. o.good => z = stream.held
    <3>1. o.good => y = <<>>
      BY <2>3, <2>5, <2>7, ConcatEmptySeq
    <3>2. first.good => x = stream.held
      BY <2>3, <2>6, ConcatEmptySeq
    <3>3. x \o <<>> = x
      BY <2>6, ConcatEmptySeq
    <3> QED BY <2>5, <3>1, <3>2, <3>3, Zenon
  <2>10. o.good \in BOOLEAN
    BY <2>5 DEF Outcome
  <2> HIDE DEF z
  <2>11. disk' = Grown(disk, parts, z)
    BY <1>3, <2>1, <2>8, LastPart DEF Grown
  <2>12. Closes(z)
    <3>1. CASE o.good
      BY <1>1, <2>1, <2>2, <2>9, <2>11, <3>1 DEF Closes, Grew
    <3>2. CASE ~o.good
      BY <1>1, <2>1, <2>2, <2>11, <3>2 DEF Closes, Grew
    <3> QED BY <3>1, <3>2
  <2> QED BY <1>1, <2>8, <2>12
<1> QED BY <1>1, <1>2, <1>3

-----------------------------------------------------------------------------
(* The types and the stream *)

(* The two names of what is on disk. *)
LEMMA RunOnDisk == OnDisk = Run(disk, parts) /\ OnDisk' = Run(disk', parts')
BY DEF OnDisk, Run, Contents

(* The last part grows. *)
LEMMA GrewKeeps ==
    ASSUME Typed, NEW x \in Seq(Nat), Grew(x)
    PROVE  /\ Sound(disk', parts') /\ DOMAIN disk' = DOMAIN disk
           /\ OnDisk \in Seq(Nat) /\ OnDisk' = OnDisk \o x
<1>1. Sound(disk, parts) /\ parts # <<>> /\ parts' = parts /\ disk' = Grown(disk, parts, x)
  BY DEF Typed, Grew
<1>2. /\ Sound(Grown(disk, parts, x), parts)
      /\ DOMAIN Grown(disk, parts, x) = DOMAIN disk
      /\ Run(Grown(disk, parts, x), parts) = Run(disk, parts) \o x
  <2>1. CanGrow(disk, parts, x)
    BY <1>1 DEF CanGrow
  <2>2. HasGrown(disk, parts, x, Grown(disk, parts, x))
    BY <2>1, RunGrows, Zenon
  <2> QED BY <2>2, Zenon DEF HasGrown
<1>3. Run(disk, parts) \in Seq(Nat)
  BY <1>1, RunType
<1> QED BY <1>1, <1>2, <1>3, RunOnDisk, Zenon

(* The last part grows and another one begins. *)
LEMMA SplitsKeeps ==
    ASSUME Typed, NEW x \in Seq(Nat), NEW y \in Seq(Nat), NEW name \in Names,
           Splits(x, name, y), name[1] = Len(parts)
    PROVE  /\ Sound(disk', parts') /\ DOMAIN disk' = DOMAIN disk \cup {name}
           /\ OnDisk \in Seq(Nat) /\ OnDisk' = (OnDisk \o x) \o y
<1> DEFINE e == Grown(disk, parts, x)
<1>1. /\ Sound(disk, parts) /\ parts # <<>> /\ parts' = Append(parts, name)
      /\ disk' = Added(e, name, y)
  BY DEF Typed, Splits
<1>2. /\ Sound(e, parts) /\ DOMAIN e = DOMAIN disk /\ Run(e, parts) = Run(disk, parts) \o x
  <2>1. CanGrow(disk, parts, x)
    BY <1>1 DEF CanGrow
  <2>2. HasGrown(disk, parts, x, e)
    BY <2>1, RunGrows, Zenon
  <2> HIDE DEF e
  <2> QED BY <2>2, Zenon DEF HasGrown
<1>3. Run(disk, parts) \in Seq(Nat)
  BY <1>1, RunType
<1> HIDE DEF e
<1>4. /\ Sound(Added(e, name, y), Append(parts, name))
      /\ DOMAIN Added(e, name, y) = DOMAIN e \cup {name}
      /\ Run(Added(e, name, y), Append(parts, name)) = Run(e, parts) \o y
  <2>1. CanSplit(e, parts, name, y)
    BY <1>2 DEF CanSplit
  <2>2. HasSplit(e, parts, name, y, Added(e, name, y))
    BY <2>1, RunSplits, Zenon
  <2> QED BY <2>2, Zenon DEF HasSplit
<1> QED BY <1>1, <1>2, <1>3, <1>4, RunOnDisk, Zenon

(* The first part begins. *)
LEMMA CreatesKeeps ==
    ASSUME Typed, Opened, at = "new", NEW y \in Seq(Nat), NEW name \in Names,
           OpenCreates(name, y)
    PROVE  /\ Sound(disk', parts') /\ DOMAIN disk' = DOMAIN disk \cup {name}
           /\ parts' # <<>> /\ Len(parts') = 1 /\ name = parts'[Len(parts')]
           /\ OnDisk = <<>> /\ OnDisk' = y
<1>1. Sound(disk, <<>>) /\ parts = <<>> /\ disk' = Added(disk, name, y) /\ parts' = Append(<<>>, name)
  BY DEF Typed, Opened, OpenCreates
<1>2. name[1] = Len(<<>>)
  BY FreeName DEF OpenCreates
<1>3. /\ Sound(Added(disk, name, y), Append(<<>>, name))
      /\ DOMAIN Added(disk, name, y) = DOMAIN disk \cup {name}
      /\ Run(Added(disk, name, y), Append(<<>>, name)) = Run(disk, <<>>) \o y
  <2>1. CanSplit(disk, <<>>, name, y)
    BY <1>1, <1>2 DEF CanSplit
  <2>2. HasSplit(disk, <<>>, name, y, Added(disk, name, y))
    BY <2>1, RunSplits, Zenon
  <2> QED BY <2>2, Zenon DEF HasSplit
<1>4. Run(disk, <<>>) = <<>> /\ <<>> \o y = y
  BY RunEmpty, ConcatEmptySeq
<1>5. parts' # <<>> /\ Len(parts') = 1 /\ name = parts'[Len(parts')]
  BY <1>1
<1> QED BY <1>1, <1>3, <1>4, <1>5, RunOnDisk, Zenon

(* The new part is that of the next cycle. *)
LEMMA NextName ==
    ASSUME Typed, Opened, at = "writing"
    PROVE  LET name == uniquePath(cycle + 1)
           IN  name \in Names /\ name[1] = Len(parts) /\ cycle + 1 = Len(parts)
<1>1. cycle + 1 = Len(parts) /\ cycle + 1 \in Nat
  BY DEF Opened, Typed
<1> QED BY <1>1, FreeName DEF Names

(* How write() ends, in types. *)
LEMMA AccountedTyped ==
    ASSUME Typed, NEW b \in Nat, NEW len \in Nat, NEW before \in Nat,
           NEW known, known \subseteq {"reported", "unheard"},
           Accounted(b, len, before, known)
    PROVE  /\ errors' \subseteq {"reported", "unheard"}
           /\ at' \in {"writing", "failed"} /\ fileBytes' \in Nat /\ accepted' \in Seq(Nat)
           /\ at' = "writing" <=> stream'.good
           /\ errors' = {} => stream'.good /\ known = {}
<1>1. accepted \o Bytes(b, len) \in Seq(Nat) /\ accepted \in Seq(Nat)
  BY BytesType, ConcatProperties DEF Typed
<1>2. before + len \in Nat
  OBVIOUS
<1>3. CASE stream'.good
  BY <1>1, <1>2, <1>3 DEF Accounted
<1>4. CASE ~ stream'.good
  BY <1>1, <1>2, <1>4 DEF Accounted
<1> QED BY <1>3, <1>4

(* What a step of write() is. *)
Writing(b, len) == /\ at = "writing" /\ b = blocks + 1 /\ b \in Nat /\ len \in Nat /\ len > 0
                   /\ blocks' = b /\ dirty' = TRUE /\ UNCHANGED <<full, flushed>>

(* Write is that, into the current part or the next one. *)
LEMMA WriteEffect ==
    ASSUME Typed, Opened, Write
    PROVE  \E b, len \in Nat :
               /\ Writing(b, len)
               /\ \/ \E x \in Seq(Nat) : Writes(x, b, len)
                  \/ /\ MustRotate(len) /\ cycle' = cycle + 1
                     /\ \/ Stays
                        \/ \E x \in Seq(Nat) : Abandons(x)
                        \/ \E x, y \in Seq(Nat), name \in Names : Rotates(x, name, y, b, len)
<1>1. PICK len \in Sizes : WriteHere(blocks + 1, len) \/ WriteRotating(blocks + 1, len)
  BY DEF Write
<1>2. len \in Nat /\ len > 0 /\ blocks + 1 \in Nat /\ at = "writing"
  BY Constants DEF Typed, Write
<1>3. Writing(blocks + 1, len)
  BY <1>2 DEF Writing, Write
<1>4. CASE WriteHere(blocks + 1, len)
  <2>1. \E x \in Seq(Nat) : Writes(x, blocks + 1, len)
    BY <1>2, <1>4, WriteHereEffect
  <2> QED BY <1>2, <1>3, <2>1
<1>5. CASE WriteRotating(blocks + 1, len)
  <2>1. /\ MustRotate(len) /\ cycle' = cycle + 1
        /\ \/ Stays
           \/ \E x \in Seq(Nat) : Abandons(x)
           \/ \E x, y \in Seq(Nat), name \in Names : Rotates(x, name, y, blocks + 1, len)
    BY <1>2, <1>5, WriteRotatingEffect
  <2> QED BY <1>2, <1>3, <2>1
<1> QED BY <1>1, <1>4, <1>5

(* A file name is not the absence of one. *)
LEMMA NotNone == \A name \in Names : name # None
BY DEF Names, None

(* What the variables that no list of parts depends on are. *)
Scalars == /\ DOMAIN disk \subseteq Names
           /\ stream \in StreamType
           /\ cycle \in Nat /\ fileBytes \in Nat /\ faults \in Nat /\ blocks \in Nat
           /\ flushed \in Nat
           /\ at \in {"new", "writing", "failed", "closed", "dead"}
           /\ dirty \in BOOLEAN /\ full \in BOOLEAN
           /\ accepted \in Seq(Nat)
           /\ errors \subseteq {"reported", "unheard"}

(* Typed in two parts. *)
LEMMA TypedParts == /\ Typed <=> Sound(disk, parts) /\ Scalars
                    /\ Typed' <=> Sound(disk', parts') /\ Scalars'
BY DEF Typed, Scalars, StreamType

(* The beginning. *)
LEMMA TypedInit == Init => Typed /\ Opened
<1> SUFFICES ASSUME Init PROVE Typed /\ Opened
  OBVIOUS
<1>1. PICK names \in SUBSET Earlier : disk = [f \in names |-> Append(Header, MaxBlocks + 1)]
  BY DEF Init
<1>2. Append(Header, MaxBlocks + 1) \in Seq(Nat)
  BY HeaderType, Constants, AppendProperties
<1>3. Sound(disk, parts) /\ DOMAIN disk \subseteq Names
  BY <1>1, <1>2, WriterAssumption DEF Init, Sound, Names
<1>4. Scalars
  <2>1. stream \in StreamType /\ accepted \in Seq(Nat)
    BY EmptySeq DEF Init, StreamType
  <2> QED BY <1>3, <2>1 DEF Init, Scalars
<1>5. Opened
  BY DEF Init, Opened
<1> QED BY <1>3, <1>4, <1>5, TypedParts

(* open() keeps the types and the stream. *)
LEMMA TypedOpen ==
    ASSUME Typed, Opened, Open
    PROVE  Typed' /\ Opened'
<1>0. Sound(disk, parts) /\ Scalars
  BY TypedParts
<1>1. at = "new" /\ UNCHANGED <<cycle, dirty, full, blocks, accepted, flushed>>
  BY OpenEffect
<1>2. parts = <<>> /\ cycle = 0 /\ stream.name = None
  BY <1>1 DEF Opened
<1>3. CASE OpenFails
  <2>1. Sound(disk', parts') /\ Scalars'
    BY <1>0, <1>1, <1>3 DEF OpenFails, Scalars
  <2>2. Opened'
    BY <1>1, <1>2, <1>3 DEF OpenFails, Opened
  <2> QED BY <2>1, <2>2, TypedParts
<1>4. ASSUME NEW name \in Names, NEW y \in Seq(Nat), OpenCreates(name, y)
      PROVE  Typed' /\ Opened'
  <2>1. /\ Sound(disk', parts') /\ DOMAIN disk' = DOMAIN disk \cup {name}
        /\ parts' # <<>> /\ Len(parts') = 1 /\ name = parts'[Len(parts')]
    BY <1>1, <1>4, CreatesKeeps
  <2>2. /\ stream' \in StreamType /\ stream'.name = name /\ name # None
        /\ stream'.good \in BOOLEAN
    BY <1>4, NotNone DEF OpenCreates, StreamType
  <2>3. Scalars'
    BY <1>0, <1>1, <1>4, <2>1, <2>2, Constants DEF OpenCreates, Scalars
  <2>4. Opened'
    BY <1>1, <1>2, <1>4, <2>1, <2>2 DEF OpenCreates, Opened
  <2> QED BY <2>1, <2>3, <2>4, TypedParts
<1> QED BY <1>3, <1>4, OpenEffect

(* write() keeps the types and the stream. *)
LEMMA TypedWrite ==
    ASSUME Typed, Opened, Write
    PROVE  Typed' /\ Opened'
<1>0. Sound(disk, parts) /\ Scalars
  BY TypedParts
<1>1. PICK b \in Nat, len \in Nat :
          /\ Writing(b, len)
          /\ \/ \E x \in Seq(Nat) : Writes(x, b, len)
             \/ /\ MustRotate(len) /\ cycle' = cycle + 1
                /\ \/ Stays
                   \/ \E x \in Seq(Nat) : Abandons(x)
                   \/ \E x, y \in Seq(Nat), name \in Names : Rotates(x, name, y, b, len)
  BY WriteEffect
<1>2. /\ at = "writing" /\ blocks' \in Nat /\ dirty' \in BOOLEAN
      /\ full' = full /\ flushed' = flushed
  BY <1>1 DEF Writing
<1>3. /\ stream.name # None /\ cycle + 1 = Len(parts) /\ parts # <<>>
      /\ stream.name = parts[Len(parts)]
  BY <1>2 DEF Opened
<1>4. CASE \E x \in Seq(Nat) : Writes(x, b, len)
  <2>1. PICK x \in Seq(Nat) : Writes(x, b, len)
    BY <1>4
  <2>2. /\ Grew(x) /\ parts' = parts /\ cycle' = cycle /\ faults' = faults
        /\ stream' \in StreamType /\ stream'.name = stream.name
        /\ stream'.good \in BOOLEAN
        /\ Accounted(b, len, fileBytes, errors)
    BY <2>1 DEF Writes, Grew, StreamType
  <2>3. Sound(disk', parts') /\ DOMAIN disk' = DOMAIN disk
    BY <2>2, GrewKeeps
  <2>4. /\ errors' \subseteq {"reported", "unheard"}
        /\ at' \in {"writing", "failed"} /\ fileBytes' \in Nat /\ accepted' \in Seq(Nat)
        /\ at' = "writing" <=> stream'.good
        /\ errors' = {} => stream'.good /\ errors = {}
    BY <1>0, <2>2, AccountedTyped DEF Scalars
  <2>5. Scalars'
    BY <1>0, <1>2, <2>2, <2>3, <2>4 DEF Scalars
  <2>6. Opened'
    BY <1>3, <2>2, <2>4 DEF Opened
  <2> QED BY <2>3, <2>5, <2>6, TypedParts
<1>5. CASE Stays /\ cycle' = cycle + 1
  <2>1. Sound(disk', parts') /\ Scalars'
    BY <1>0, <1>2, <1>5 DEF Stays, Scalars
  <2>2. Opened'
    BY <1>2, <1>3, <1>5 DEF Stays, Opened
  <2> QED BY <2>1, <2>2, TypedParts
<1>6. ASSUME NEW x \in Seq(Nat), Abandons(x), cycle' = cycle + 1
      PROVE  Typed' /\ Opened'
  <2>1. Sound(disk', parts') /\ DOMAIN disk' = DOMAIN disk /\ parts' = parts
    BY <1>6, GrewKeeps DEF Abandons, Grew
  <2>2. stream' \in StreamType /\ stream'.name = None /\ stream'.held = <<>>
    BY <1>6, EmptySeq DEF Abandons, StreamType
  <2>3. Scalars'
    BY <1>0, <1>2, <1>6, <2>1, <2>2 DEF Abandons, Scalars
  <2>4. Opened'
    BY <1>3, <1>6, <2>1, <2>2 DEF Abandons, Opened
  <2> QED BY <2>1, <2>3, <2>4, TypedParts
<1>7. ASSUME NEW x \in Seq(Nat), NEW y \in Seq(Nat), NEW name \in Names,
             Rotates(x, name, y, b, len), cycle' = cycle + 1
      PROVE  Typed' /\ Opened'
  <2>1. name[1] = Len(parts) /\ Splits(x, name, y)
    BY <1>2, <1>7, NextName DEF Rotates
  <2>2. Sound(disk', parts') /\ DOMAIN disk' = DOMAIN disk \cup {name}
    BY <2>1, SplitsKeeps
  <2>3. /\ parts' # <<>> /\ Len(parts') = Len(parts) + 1 /\ name = parts'[Len(parts')]
    <3>1. parts' = Append(parts, name) /\ parts \in Seq(Names)
      BY <1>0, <2>1 DEF Splits, Sound
    <3> QED BY <3>1
  <2>4. /\ stream' \in StreamType /\ stream'.name = name /\ name # None
        /\ stream'.good \in BOOLEAN /\ faults' = faults
    BY <1>7, NotNone DEF Rotates, StreamType
  <2>5. PICK known \in {errors, errors \cup {"unheard"}} : Accounted(b, len, 0, known)
    BY <1>7 DEF Rotates
  <2>6. /\ errors' \subseteq {"reported", "unheard"}
        /\ at' \in {"writing", "failed"} /\ fileBytes' \in Nat /\ accepted' \in Seq(Nat)
        /\ at' = "writing" <=> stream'.good
        /\ errors' = {} => stream'.good /\ known = {}
    <3>1. known \subseteq {"reported", "unheard"}
      BY <1>0, <2>5 DEF Scalars
    <3> QED BY <2>5, <3>1, AccountedTyped
  <2>7. Scalars'
    BY <1>0, <1>2, <1>7, <2>2, <2>4, <2>6 DEF Scalars
  <2>8. Opened'
    BY <1>3, <1>7, <2>3, <2>4, <2>6 DEF Opened
  <2> QED BY <2>2, <2>7, <2>8, TypedParts
<1> QED BY <1>1, <1>4, <1>5, <1>6, <1>7

(* flush() keeps the types and the stream. *)
LEMMA TypedFlush ==
    ASSUME Typed, Opened, Flush
    PROVE  Typed' /\ Opened'
<1>0. Sound(disk, parts) /\ Scalars
  BY TypedParts
<1>1. PICK x \in Seq(Nat) : at = "writing" /\ Flushes(x)
  BY FlushEffect
<1>2. /\ Grew(x) /\ parts' = parts /\ dirty' = FALSE
      /\ stream' \in StreamType /\ stream'.name = stream.name /\ stream'.good \in BOOLEAN
      /\ UNCHANGED <<cycle, fileBytes, at, full, faults, blocks, accepted>>
      /\ errors' = IF stream'.good THEN errors ELSE errors \cup {"unheard"}
  BY <1>1 DEF Flushes, Grew, StreamType
<1>3. Sound(disk', parts') /\ DOMAIN disk' = DOMAIN disk
  BY <1>2, GrewKeeps
<1>4. flushed' \in Nat
  <2>1. HeaderBytes + Len(accepted) \in Nat /\ flushed \in Nat
    BY <1>0, Constants DEF Scalars
  <2>2. flushed' = IF stream'.good /\ errors = {} THEN HeaderBytes + Len(accepted) ELSE flushed
    BY <1>1 DEF Flushes
  <2> QED BY <2>1, <2>2
<1>5. Scalars'
  BY <1>0, <1>2, <1>3, <1>4 DEF Scalars
<1>6. Opened'
  BY <1>1, <1>2 DEF Opened
<1> QED BY <1>3, <1>5, <1>6, TypedParts

(* close() keeps the types and the stream. *)
LEMMA TypedClose ==
    ASSUME Typed, Opened, Close
    PROVE  Typed' /\ Opened'
<1>0. Sound(disk, parts) /\ Scalars
  BY TypedParts
<1>1. /\ at \in {"writing", "failed"} /\ at' = "closed"
      /\ stream' = [name |-> None, held |-> <<>>, good |-> TRUE]
      /\ UNCHANGED <<cycle, fileBytes, dirty, full, faults, blocks, accepted, flushed>>
      /\ ClosesNothing \/ \E x \in Seq(Nat) : Closes(x)
  BY CloseEffect
<1>2. stream' \in StreamType /\ stream'.name = None /\ stream'.held = <<>> /\ stream'.good
  BY <1>1, EmptySeq DEF StreamType
<1>3. Sound(disk', parts') /\ DOMAIN disk' = DOMAIN disk /\ parts' = parts
  <2>1. CASE ClosesNothing
    BY <1>0, <2>1 DEF ClosesNothing
  <2>2. CASE \E x \in Seq(Nat) : Closes(x)
    <3>1. PICK x \in Seq(Nat) : Grew(x)
      BY <2>2 DEF Closes
    <3> QED BY <3>1, GrewKeeps DEF Grew
  <2> QED BY <1>1, <2>1, <2>2
<1>4. errors' \in {errors, errors \cup {"unheard"}}
  BY <1>1 DEF ClosesNothing, Closes
<1>5. Scalars'
  BY <1>0, <1>1, <1>2, <1>3, <1>4 DEF Scalars
<1>6. Opened'
  BY <1>1, <1>2, <1>3, <1>4 DEF Opened
<1> QED BY <1>3, <1>5, <1>6, TypedParts

(* What does not touch the files at all. *)
Idles == /\ UNCHANGED <<disk, parts, accepted, flushed, errors, cycle, fileBytes, blocks, dirty>>
         /\ \/ UNCHANGED <<at, stream>>
            \/ /\ at' = "dead" /\ at \in {"writing", "failed"}
               /\ stream' = [name |-> None, held |-> <<>>, good |-> TRUE]

(* Death, the disk filling up and being freed, and stuttering. *)
LEMMA IdleEffect ==
    ASSUME Typed, Die \/ DiskFull \/ DiskFreed \/ UNCHANGED vars
    PROVE  Idles /\ full' \in BOOLEAN /\ faults' \in Nat
<1>1. full \in BOOLEAN /\ faults \in Nat /\ faults + 1 \in Nat
  BY DEF Typed
<1>2. CASE Die
  BY <1>1, <1>2, Zenon DEF Die, Idles
<1>3. CASE DiskFull
  BY <1>1, <1>3 DEF DiskFull, Idles
<1>4. CASE DiskFreed
  BY <1>1, <1>4 DEF DiskFreed, Idles
<1>5. CASE UNCHANGED vars
  BY <1>1, <1>5 DEF vars, Idles
<1> QED BY <1>2, <1>3, <1>4, <1>5

(* They keep the types and the stream. *)
LEMMA TypedIdle ==
    ASSUME Typed, Opened, Die \/ DiskFull \/ DiskFreed \/ UNCHANGED vars
    PROVE  Typed' /\ Opened'
<1>0. Sound(disk, parts) /\ Scalars
  BY TypedParts
<1>1. Idles /\ full' \in BOOLEAN /\ faults' \in Nat
  BY IdleEffect
<1>2. CASE UNCHANGED <<at, stream>>
  <2>1. Sound(disk', parts') /\ Scalars'
    BY <1>0, <1>1, <1>2 DEF Idles, Scalars
  <2>2. Opened'
    BY <1>1, <1>2 DEF Idles, Opened
  <2> QED BY <2>1, <2>2, TypedParts
<1>3. CASE /\ at' = "dead" /\ at \in {"writing", "failed"}
           /\ stream' = [name |-> None, held |-> <<>>, good |-> TRUE]
  <2>0. stream' \in StreamType /\ stream'.name = None /\ stream'.held = <<>> /\ stream'.good
    BY <1>3, EmptySeq DEF StreamType
  <2>1. Sound(disk', parts') /\ Scalars'
    BY <1>0, <1>1, <1>3, <2>0 DEF Idles, Scalars
  <2>2. Opened'
    BY <1>1, <1>3, <2>0 DEF Idles, Opened
  <2> QED BY <2>1, <2>2, TypedParts
<1> QED BY <1>1, <1>2, <1>3 DEF Idles

(* Every step keeps the types and the stream. *)
LEMMA TypedStep ==
    ASSUME Typed, Opened, [Next]_vars
    PROVE  Typed' /\ Opened'
BY TypedOpen, TypedWrite, TypedFlush, TypedClose, TypedIdle DEF Next

-----------------------------------------------------------------------------
(* The bytes of the run *)

(* What is on disk and what was given are sequences of bytes. *)
LEMMA BytesOfRun ==
    ASSUME Typed
    PROVE  OnDisk \in Seq(Nat) /\ Given \in Seq(Nat)
<1>1. Sound(disk, parts) /\ accepted \in Seq(Nat)
  BY DEF Typed
<1>2. Run(disk, parts) \in Seq(Nat)
  BY <1>1, RunType
<1>3. Header \o accepted \in Seq(Nat)
  BY <1>1, HeaderType, ConcatProperties
<1> QED BY <1>2, <1>3, RunOnDisk, EmptySeq, Zenon DEF Given

(* Two sequences begin with the same n bytes. *)
Agreed(n, s, t) == n <= Len(s) /\ n <= Len(t) /\ \A i \in 1 .. n : s[i] = t[i]

(* They still do when both have grown. *)
LEMMA AgreedGrows ==
    ASSUME NEW n \in Nat, NEW s \in Seq(Nat), NEW t \in Seq(Nat), Agreed(n, s, t),
           NEW z \in Seq(Nat), NEW w \in Seq(Nat)
    PROVE  Agreed(n, s \o z, t \o w)
<1>1. /\ Len(s \o z) = Len(s) + Len(z) /\ \A i \in 1 .. Len(s) : (s \o z)[i] = s[i]
      /\ Len(s) \in Nat /\ Len(z) \in Nat
  OBVIOUS
<1>2. /\ Len(t \o w) = Len(t) + Len(w) /\ \A i \in 1 .. Len(t) : (t \o w)[i] = t[i]
      /\ Len(t) \in Nat /\ Len(w) \in Nat
  OBVIOUS
<1> DEFINE u == s \o z
           v == t \o w
<1> HIDE DEF u, v
<1>3. Agreed(n, u, v)
  BY <1>1, <1>2 DEF Agreed, u, v
<1> QED BY <1>3 DEF u, v

(* What a step does to the run: it only adds bytes. *)
Adds(z, w) == OnDisk' = OnDisk \o z /\ Given' = Given \o w

(* Kept in one word. *)
LEMMA KeptAgreed == /\ Kept <=> Agreed(flushed, OnDisk, Given)
                    /\ Kept' <=> Agreed(flushed', OnDisk', Given')
BY DEF Kept, Agreed

(* What was flushed stays, unless there is another flush. *)
LEMMA KeptStays ==
    ASSUME Typed, Kept, flushed' = flushed, NEW z \in Seq(Nat), NEW w \in Seq(Nat), Adds(z, w)
    PROVE  Kept'
<1>1. Agreed(flushed, OnDisk, Given) /\ flushed \in Nat
  BY KeptAgreed DEF Typed
<1>2. Agreed(flushed, OnDisk \o z, Given \o w)
  BY <1>1, BytesOfRun, AgreedGrows
<1> QED BY <1>2, KeptAgreed DEF Adds

(* A run without errors that is being written. *)
LEMMA WholeNow ==
    ASSUME Whole, errors = {}, at # "dead"
    PROVE  OnDisk \o stream.held = Given
BY DEF Whole

(* The other way round. *)
LEMMA WholeThen ==
    ASSUME Typed', errors' = {} => OnDisk' \o stream'.held = Given'
    PROVE  Whole'
<1>1. stream'.held \in Seq(Nat)
  BY DEF Typed
<1> QED BY <1>1, Zenon DEF Whole

(* The payload that write() adds to what was given. *)
LEMMA GivenAdds ==
    ASSUME Typed, parts # <<>>, parts' # <<>>, NEW w \in Seq(Nat), accepted' = accepted \o w
    PROVE  Given' = Given \o w
<1>1. accepted \in Seq(Nat)
  BY DEF Typed
<1>2. Header \o (accepted \o w) = (Header \o accepted) \o w
  BY <1>1, HeaderType, Associative
<1>3. Given' = Header \o accepted' /\ Given = Header \o accepted
  BY DEF Given
<1> QED BY <1>2, <1>3, Zenon

(* Nothing is added to what was given. *)
LEMMA GivenStays ==
    ASSUME Typed, parts' = <<>> <=> parts = <<>>, accepted' = accepted
    PROVE  Given' = Given /\ Given' = Given \o <<>>
<1>1. Given' = Given
  BY DEF Given
<1>2. Given \o <<>> = Given
  BY BytesOfRun, ConcatEmptySeq
<1> QED BY <1>1, <1>2

(* How write() ends, in bytes given. *)
LEMMA GivenWrite ==
    ASSUME Typed, NEW b \in Nat, NEW len \in Nat, NEW before, NEW known,
           Accounted(b, len, before, known), parts # <<>>, parts' # <<>>
    PROVE  \E w \in Seq(Nat) : Given' = Given \o w /\ (stream'.good => w = Bytes(b, len))
<1>1. CASE stream'.good
  <2>1. accepted' = accepted \o Bytes(b, len)
    BY <1>1 DEF Accounted
  <2>2. Given' = Given \o Bytes(b, len)
    BY <2>1, BytesType, GivenAdds
  <2> QED BY <2>2, BytesType
<1>2. CASE ~ stream'.good
  <2>1. accepted' = accepted
    BY <1>2 DEF Accounted
  <2>2. Given' = Given \o <<>>
    BY <2>1, GivenStays
  <2> QED BY <1>2, <2>2, EmptySeq
<1> QED BY <1>1, <1>2

(* open() keeps the bytes of the run. *)
LEMMA BytesOpen ==
    ASSUME Typed, Opened, Typed', Opened', Whole, Kept, Open
    PROVE  Whole' /\ Kept'
<1>1. at = "new" /\ flushed' = flushed /\ accepted' = accepted
  BY OpenEffect
<1>2. parts = <<>> /\ accepted = <<>> /\ flushed = 0
  BY <1>1 DEF Opened
<1>3. CASE OpenFails
  <2>1. errors' # {} /\ parts' = parts /\ disk' = disk
    BY <1>3 DEF OpenFails
  <2>2. OnDisk' = OnDisk \o <<>> /\ Given' = Given \o <<>>
    BY <1>1, <2>1, GivenStays, RunOnDisk, BytesOfRun, ConcatEmptySeq
  <2> QED BY <1>1, <2>1, <2>2, WholeThen, KeptStays, EmptySeq DEF Adds
<1>4. ASSUME NEW name \in Names, NEW y \in Seq(Nat), OpenCreates(name, y)
      PROVE  Whole' /\ Kept'
  <2>1. parts' # <<>> /\ OnDisk' = y
    BY <1>1, <1>4, CreatesKeeps
  <2>2. Given' = Header
    <3>1. Header \o <<>> = Header
      BY HeaderType, ConcatEmptySeq
    <3> QED BY <1>1, <1>2, <2>1, <3>1 DEF Given
  <2>3. errors' = {} => OnDisk' \o stream'.held = Given'
    BY <1>4, <2>1, <2>2 DEF OpenCreates
  <2>4. Kept'
    <3>1. OnDisk' \in Seq(Nat) /\ Given' \in Seq(Nat)
      BY <2>1, <2>2, HeaderType
    <3>2. Len(OnDisk') \in Nat /\ Len(Given') \in Nat /\ flushed' = 0
      BY <1>1, <1>2, <3>1
    <3>3. Agreed(flushed', OnDisk', Given')
      BY <3>2 DEF Agreed
    <3> QED BY <3>3, KeptAgreed
  <2> QED BY <2>3, <2>4, WholeThen
<1> QED BY <1>3, <1>4, OpenEffect

(* write() keeps the bytes of the run. *)
LEMMA BytesWrite ==
    ASSUME Typed, Opened, Typed', Opened', Whole, Kept, Write
    PROVE  Whole' /\ Kept'
<1>1. PICK b \in Nat, len \in Nat :
          /\ Writing(b, len)
          /\ \/ \E x \in Seq(Nat) : Writes(x, b, len)
             \/ /\ MustRotate(len) /\ cycle' = cycle + 1
                /\ \/ Stays
                   \/ \E x \in Seq(Nat) : Abandons(x)
                   \/ \E x, y \in Seq(Nat), name \in Names : Rotates(x, name, y, b, len)
  BY WriteEffect
<1>2. at = "writing" /\ flushed' = flushed /\ parts # <<>>
  BY <1>1 DEF Writing, Opened
<1>3. /\ OnDisk \in Seq(Nat) /\ Given \in Seq(Nat) /\ stream.held \in Seq(Nat)
      /\ stream'.held \in Seq(Nat) /\ Bytes(b, len) \in Seq(Nat)
  BY BytesOfRun, BytesType DEF Typed
<1>4. CASE \E x \in Seq(Nat) : Writes(x, b, len)
  <2>1. PICK x \in Seq(Nat) : Writes(x, b, len)
    BY <1>4
  <2>2. Grew(x) /\ parts' = parts /\ Accounted(b, len, fileBytes, errors)
    BY <2>1 DEF Writes, Grew
  <2>3. PICK w \in Seq(Nat) : Given' = Given \o w /\ (stream'.good => w = Bytes(b, len))
    BY <1>2, <2>2, GivenWrite
  <2>4. OnDisk' = OnDisk \o x
    BY <2>2, GrewKeeps
  <2>5. ASSUME errors' = {} PROVE OnDisk' \o stream'.held = Given'
    <3>1. stream'.good /\ errors = {}
      BY <2>2, <2>5 DEF Accounted
    <3>2. x \o stream'.held = stream.held \o w
      BY <2>1, <2>3, <3>1 DEF Writes
    <3>3. OnDisk \o stream.held = Given
      BY <1>2, <3>1, WholeNow
    <3>4. PICK a \in Seq(Nat), h \in Seq(Nat), k \in Seq(Nat) :
              a = OnDisk /\ h = stream'.held /\ k = stream.held
      BY <1>3
    <3>5. (a \o x) \o h = (a \o k) \o w
      <4>1. x \o h = k \o w
        BY <3>2, <3>4
      <4>2. (a \o x) \o h = a \o (x \o h) /\ (a \o k) \o w = a \o (k \o w)
        BY Associative
      <4> QED BY <4>1, <4>2
    <3> QED BY <2>3, <2>4, <3>3, <3>4, <3>5
  <2>6. Kept'
    BY <1>2, <2>3, <2>4, KeptStays DEF Adds
  <2> QED BY <2>5, <2>6, WholeThen
<1>5. CASE Stays
  <2>1. errors' # {} /\ parts' = parts /\ disk' = disk /\ accepted' = accepted
    BY <1>5 DEF Stays
  <2>2. OnDisk' = OnDisk \o <<>> /\ Given' = Given \o <<>>
    BY <2>1, GivenStays, RunOnDisk, BytesOfRun, ConcatEmptySeq
  <2> QED BY <1>2, <2>1, <2>2, WholeThen, KeptStays, EmptySeq DEF Adds
<1>6. ASSUME NEW x \in Seq(Nat), Abandons(x)
      PROVE  Whole' /\ Kept'
  <2>1. errors' # {} /\ Grew(x) /\ accepted' = accepted /\ parts' = parts
    BY <1>6 DEF Abandons, Grew
  <2>2. OnDisk' = OnDisk \o x /\ Given' = Given \o <<>>
    BY <2>1, GivenStays, GrewKeeps
  <2> QED BY <1>2, <2>1, <2>2, WholeThen, KeptStays, EmptySeq DEF Adds
<1>7. ASSUME NEW x \in Seq(Nat), NEW y \in Seq(Nat), NEW name \in Names,
             Rotates(x, name, y, b, len)
      PROVE  Whole' /\ Kept'
  <2>1. name[1] = Len(parts) /\ Splits(x, name, y)
    BY <1>2, <1>7, NextName DEF Rotates
  <2>2. OnDisk' = (OnDisk \o x) \o y
    BY <2>1, SplitsKeeps
  <2>3. parts' # <<>>
    <3>1. parts' = Append(parts, name) /\ parts \in Seq(Names)
      BY <2>1 DEF Splits, Typed, Sound
    <3> QED BY <3>1
  <2>4. PICK known : Accounted(b, len, 0, known)
    BY <1>7 DEF Rotates
  <2>5. PICK w \in Seq(Nat) : Given' = Given \o w /\ (stream'.good => w = Bytes(b, len))
    BY <1>2, <2>3, <2>4, GivenWrite
  <2>6. ASSUME errors' = {} PROVE OnDisk' \o stream'.held = Given'
    <3>1. stream'.good /\ errors = {} /\ x = stream.held
      BY <1>7, <2>6 DEF Rotates, Accounted
    <3>2. y \o stream'.held = w
      BY <1>7, <2>5, <3>1 DEF Rotates
    <3>3. OnDisk \o x = Given
      BY <1>2, <3>1, WholeNow
    <3>4. PICK a \in Seq(Nat), h \in Seq(Nat) : a = Given /\ h = stream'.held
      BY <1>3
    <3>5. (a \o y) \o h = a \o (y \o h)
      BY Associative
    <3> QED BY <2>2, <2>5, <3>2, <3>3, <3>4, <3>5
  <2>7. Kept'
    <3>1. (OnDisk \o x) \o y = OnDisk \o (x \o y)
      <4>1. PICK a \in Seq(Nat) : a = OnDisk
        BY <1>3
      <4>2. (a \o x) \o y = a \o (x \o y)
        BY Associative
      <4> QED BY <4>1, <4>2
    <3>2. x \o y \in Seq(Nat)
      BY ConcatProperties
    <3>3. Adds(x \o y, w)
      BY <2>2, <2>5, <3>1, Zenon DEF Adds
    <3> QED BY <1>2, <3>2, <3>3, KeptStays
  <2> QED BY <2>6, <2>7, WholeThen
<1> QED BY <1>1, <1>4, <1>5, <1>6, <1>7

(* flush() keeps the bytes of the run: all that was given is on disk if it   *)
(* works and nothing was lost before.                                        *)
LEMMA BytesFlush ==
    ASSUME Typed, Opened, Typed', Opened', Whole, Kept, Flush
    PROVE  Whole' /\ Kept'
<1>1. PICK x \in Seq(Nat) : at = "writing" /\ Flushes(x)
  BY FlushEffect
<1>2. /\ Grew(x) /\ parts' = parts /\ parts # <<>> /\ accepted' = accepted
      /\ stream'.good => x = stream.held /\ stream'.held = <<>>
      /\ errors' = IF stream'.good THEN errors ELSE errors \cup {"unheard"}
  BY <1>1 DEF Flushes, Grew
<1>3. OnDisk' = OnDisk \o x /\ Given' = Given /\ Given' = Given \o <<>>
  BY <1>2, GivenStays, GrewKeeps
<1>4. ASSUME stream'.good, errors = {}
      PROVE  OnDisk' = Given' /\ OnDisk' \o stream'.held = Given'
  <2>1. OnDisk' = Given'
    BY <1>1, <1>2, <1>3, <1>4, WholeNow
  <2>2. Given' \o <<>> = Given'
    BY <1>3, BytesOfRun, ConcatEmptySeq
  <2> QED BY <1>2, <1>4, <2>1, <2>2
<1>5. errors' = {} => stream'.good /\ errors = {}
  BY <1>2
<1>6. Kept'
  <2>1. CASE stream'.good /\ errors = {}
    <3>1. flushed' = HeaderBytes + Len(accepted)
      BY <1>1, <2>1 DEF Flushes
    <3>2. Given = Header \o accepted /\ accepted \in Seq(Nat)
      BY <1>2 DEF Given, Typed
    <3>3. Len(Given) = flushed'
      BY <3>1, <3>2, HeaderType, ConcatProperties
    <3>4. Given \in Seq(Nat) /\ Len(Given) \in Nat
      BY BytesOfRun
    <3>5. Agreed(flushed', Given, Given)
      BY <3>3, <3>4 DEF Agreed
    <3> QED BY <1>3, <1>4, <2>1, <3>5, KeptAgreed
  <2>2. CASE ~(stream'.good /\ errors = {})
    <3>1. flushed' = flushed
      BY <1>1, <2>2, Zenon DEF Flushes
    <3> QED BY <1>3, <3>1, KeptStays, EmptySeq DEF Adds
  <2> QED BY <2>1, <2>2
<1> QED BY <1>4, <1>5, <1>6, WholeThen

(* close() keeps the bytes of the run. *)
LEMMA BytesClose ==
    ASSUME Typed, Opened, Typed', Opened', Whole, Kept, Close
    PROVE  Whole' /\ Kept'
<1>1. /\ at \in {"writing", "failed"} /\ stream'.held = <<>>
      /\ accepted' = accepted /\ flushed' = flushed
      /\ ClosesNothing \/ \E x \in Seq(Nat) : Closes(x)
  BY CloseEffect
<1>2. CASE ClosesNothing
  <2>1. OnDisk' = OnDisk /\ Given' = Given /\ errors' = errors /\ stream.held = <<>>
    BY <1>1, <1>2, GivenStays, RunOnDisk DEF ClosesNothing, Opened
  <2>2. OnDisk \o <<>> = OnDisk /\ Given \o <<>> = Given
    BY BytesOfRun, ConcatEmptySeq
  <2>3. errors' = {} => OnDisk' \o stream'.held = Given'
    BY <1>1, <2>1, WholeNow
  <2>4. Adds(<<>>, <<>>)
    BY <2>1, <2>2, Zenon DEF Adds
  <2> QED BY <1>1, <2>3, <2>4, WholeThen, KeptStays, EmptySeq
<1>3. ASSUME NEW x \in Seq(Nat), Closes(x)
      PROVE  Whole' /\ Kept'
  <2>1. /\ Grew(x) /\ parts' = parts
        /\ errors' = {} => errors = {} /\ x = stream.held
    BY <1>3 DEF Closes, Grew
  <2>2. OnDisk' = OnDisk \o x /\ Given' = Given /\ Given' = Given \o <<>>
    BY <1>1, <2>1, GivenStays, GrewKeeps
  <2>3. errors' = {} => OnDisk' \o stream'.held = Given'
    BY <1>1, <2>1, <2>2, WholeNow
  <2> QED BY <1>1, <2>2, <2>3, WholeThen, KeptStays, EmptySeq DEF Adds
<1> QED BY <1>1, <1>2, <1>3

(* The other steps keep the bytes of the run. *)
LEMMA BytesIdle ==
    ASSUME Typed, Whole, Kept, Die \/ DiskFull \/ DiskFreed \/ UNCHANGED vars
    PROVE  Whole' /\ Kept'
<1>1. Idles
  BY IdleEffect
<1>2. OnDisk' = OnDisk /\ Given' = Given /\ errors' = errors /\ flushed' = flushed
  BY <1>1, RunOnDisk DEF Idles, Given
<1>3. Whole'
  <2>1. CASE UNCHANGED <<at, stream>>
    BY <1>2, <2>1 DEF Whole
  <2>2. CASE at' = "dead"
    BY <1>2, <2>2 DEF Whole
  <2> QED BY <1>1, <2>1, <2>2 DEF Idles
<1> QED BY <1>2, <1>3 DEF Kept

(* Every step keeps the bytes of the run. *)
LEMMA BytesStep ==
    ASSUME Typed, Opened, Whole, Kept, [Next]_vars
    PROVE  Whole' /\ Kept'
<1>1. Typed' /\ Opened'
  BY TypedStep
<1> QED BY <1>1, BytesOpen, BytesWrite, BytesFlush, BytesClose, BytesIdle DEF Next

-----------------------------------------------------------------------------
(* The sizes of the parts *)

(* The parts with what the stream holds are sequences. *)
LEMMA FilesType ==
    ASSUME Typed
    PROVE  /\ Len(parts) \in Nat
           /\ \A i \in 1 .. Len(parts) : Parts[i] \in Seq(Nat)
           /\ \A i \in 1 .. Len(parts) - 1 : Parts[i] = disk[parts[i]]
           /\ parts # <<>> => /\ Len(parts) \in 1 .. Len(parts)
                              /\ Parts[Len(parts)] = disk[parts[Len(parts)]] \o stream.held
<1> DEFINE n == Len(parts)
<1>1. /\ n \in Nat /\ (parts # <<>> => n \in 1 .. n)
      /\ \A i \in 1 .. n : disk[parts[i]] \in Seq(Nat)
  BY DEF Typed, Sound
<1>2. stream.held \in Seq(Nat)
  BY DEF Typed
<1>3. \A i \in 1 .. n : disk[parts[i]] \o stream.held \in Seq(Nat)
  BY <1>1, <1>2, ConcatProperties
<1>4. \A i \in 1 .. n : Parts[i] = IF i = n THEN disk[parts[i]] \o stream.held ELSE disk[parts[i]]
  BY DEF Parts, Files
<1> HIDE DEF n
<1>5. /\ \A i \in 1 .. n : Parts[i] \in Seq(Nat)
      /\ \A i \in 1 .. n - 1 : Parts[i] = disk[parts[i]]
      /\ parts # <<>> => Parts[n] = disk[parts[n]] \o stream.held
  <2>1. ASSUME NEW i \in 1 .. n PROVE Parts[i] \in Seq(Nat)
    BY <1>1, <1>3, <1>4
  <2>2. ASSUME NEW i \in 1 .. n - 1 PROVE Parts[i] = disk[parts[i]]
    <3>1. i \in 1 .. n /\ i # n
      BY <1>1
    <3> QED BY <1>4, <3>1
  <2>3. ASSUME parts # <<>> PROVE Parts[n] = disk[parts[n]] \o stream.held
    <3>1. n \in 1 .. n
      BY <1>1, <2>3
    <3> QED BY <1>4, <3>1
  <2> QED BY <2>1, <2>2, <2>3
<1> QED BY <1>1, <1>5 DEF n

(* The last part grows by bytes that were held or are new. *)
LEMMA GrewFiles ==
    ASSUME Typed, Typed', NEW x \in Seq(Nat), Grew(x), NEW w \in Seq(Nat),
           x \o stream'.held = stream.held \o w
    PROVE  /\ parts' = parts
           /\ \A i \in 1 .. Len(parts) - 1 : Parts'[i] = Parts[i]
           /\ Parts'[Len(parts)] = Parts[Len(parts)] \o w
<1> DEFINE n == Len(parts)
           d == disk[parts[n]]
<1>1. parts' = parts /\ parts # <<>>
  BY DEF Grew
<1>2. /\ n \in Nat \ {0} /\ n \in 1 .. n /\ Parts[n] = d \o stream.held
      /\ \A i \in 1 .. n - 1 : Parts[i] = disk[parts[i]]
  <2>1. /\ n \in Nat /\ n \in 1 .. n /\ Parts[n] = d \o stream.held
        /\ \A i \in 1 .. n - 1 : Parts[i] = disk[parts[i]]
    BY <1>1, FilesType, Zenon
  <2> HIDE DEF n
  <2> QED BY <2>1
<1>3. /\ Parts'[n] = disk'[parts[n]] \o stream'.held
      /\ \A i \in 1 .. n - 1 : Parts'[i] = disk'[parts[i]]
  <2>1. Len(parts') = n
    BY <1>1
  <2>2. \A i \in 1 .. n : Parts'[i] = IF i = n THEN disk'[parts'[i]] \o stream'.held ELSE disk'[parts'[i]]
    BY <2>1 DEF Parts, Files
  <2>3. Parts'[n] = disk'[parts[n]] \o stream'.held
    <3> HIDE DEF n
    <3> QED BY <1>1, <1>2, <2>2
  <2>4. ASSUME NEW i \in 1 .. n - 1 PROVE Parts'[i] = disk'[parts[i]]
    <3> HIDE DEF n
    <3>1. i \in 1 .. n /\ i # n
      BY <1>2
    <3> QED BY <1>1, <2>2, <3>1
  <2> QED BY <2>3, <2>4
<1>4. Sound(disk, parts) /\ d \in Seq(Nat) /\ stream.held \in Seq(Nat) /\ stream'.held \in Seq(Nat)
  BY <1>2 DEF Typed, Sound
<1>5. HasGrown(disk, parts, x, disk')
  <2>1. CanGrow(disk, parts, x)
    BY <1>1, <1>4 DEF CanGrow
  <2>2. HasGrown(disk, parts, x, Grown(disk, parts, x))
    BY <2>1, RunGrows, Zenon
  <2> QED BY <2>2 DEF Grew
<1>6. /\ disk'[parts[n]] = d \o x
      /\ \A f \in DOMAIN disk : f # parts[n] => disk'[f] = disk[f]
  BY <1>5 DEF HasGrown
<1>7. \A i \in 1 .. n - 1 : parts[i] \in DOMAIN disk /\ parts[i] # parts[n]
  <2>1. \A i \in 1 .. n : parts[i] \in DOMAIN disk /\ parts[i][1] + 1 = i
    BY <1>4 DEF Sound
  <2> HIDE DEF n, d
  <2>2. ASSUME NEW i \in 1 .. n - 1 PROVE parts[i] \in DOMAIN disk /\ parts[i] # parts[n]
    <3>1. i \in 1 .. n /\ i # n
      BY <1>2
    <3> QED BY <1>2, <2>1, <3>1
  <2> QED BY <2>2
<1>8. (d \o x) \o stream'.held = (d \o stream.held) \o w
  <2>1. PICK g \in Seq(Nat), h \in Seq(Nat), k \in Seq(Nat) :
            g = d /\ h = stream'.held /\ k = stream.held
    BY <1>4
  <2>2. x \o h = k \o w
    BY <2>1
  <2>3. (g \o x) \o h = g \o (x \o h) /\ (g \o k) \o w = g \o (k \o w)
    BY Associative
  <2> HIDE DEF d
  <2> QED BY <2>1, <2>2, <2>3
<1> HIDE DEF n, d
<1>9. /\ \A i \in 1 .. n - 1 : Parts'[i] = Parts[i]
      /\ Parts'[n] = Parts[n] \o w
  BY <1>2, <1>3, <1>6, <1>7, <1>8
<1> QED BY <1>1, <1>9 DEF n

(* A part that was finished and one that begins. *)
LEMMA SplitsFiles ==
    ASSUME Typed, Typed', NEW x \in Seq(Nat), NEW y \in Seq(Nat), NEW name \in Names,
           Splits(x, name, y), name[1] = Len(parts), x = stream.held
    PROVE  /\ Len(parts') = Len(parts) + 1
           /\ \A i \in 1 .. Len(parts) : Parts'[i] = Parts[i]
           /\ Parts'[Len(parts) + 1] = y \o stream'.held
<1> DEFINE n == Len(parts)
           e == Grown(disk, parts, x)
<1>1. parts' = Append(parts, name) /\ parts # <<>> /\ disk' = Added(e, name, y)
  BY DEF Splits
<1>2. /\ n \in Nat \ {0} /\ n \in 1 .. n /\ Parts[n] = disk[parts[n]] \o stream.held
      /\ \A i \in 1 .. n - 1 : Parts[i] = disk[parts[i]]
  <2>1. /\ n \in Nat /\ n \in 1 .. n /\ Parts[n] = disk[parts[n]] \o stream.held
        /\ \A i \in 1 .. n - 1 : Parts[i] = disk[parts[i]]
    BY <1>1, FilesType, Zenon
  <2> HIDE DEF n
  <2> QED BY <2>1
<1>3. Sound(disk, parts) /\ parts \in Seq(Names)
  BY DEF Typed, Sound
<1>4. Len(parts') = n + 1 /\ parts'[n + 1] = name /\ \A i \in 1 .. n : parts'[i] = parts[i]
  BY <1>1, <1>3
<1>5. HasGrown(disk, parts, x, e)
  <2>1. CanGrow(disk, parts, x)
    BY <1>1, <1>3 DEF CanGrow
  <2> QED BY <2>1, RunGrows, Zenon
<1> HIDE DEF e
<1>6. HasSplit(e, parts, name, y, disk')
  <2>1. CanSplit(e, parts, name, y)
    BY <1>5 DEF CanSplit, HasGrown
  <2>2. HasSplit(e, parts, name, y, Added(e, name, y))
    BY <2>1, RunSplits, Zenon
  <2> QED BY <1>1, <2>2
<1>7. /\ e[parts[n]] = disk[parts[n]] \o x
      /\ \A f \in DOMAIN disk : f # parts[n] => e[f] = disk[f]
      /\ \A i \in 1 .. n : disk'[parts[i]] = e[parts[i]]
      /\ disk'[name] = y
  BY <1>5, <1>6 DEF HasGrown, HasSplit
<1>8. \A i \in 1 .. n - 1 : parts[i] \in DOMAIN disk /\ parts[i] # parts[n]
  <2>1. \A i \in 1 .. n : parts[i] \in DOMAIN disk /\ parts[i][1] + 1 = i
    BY <1>3 DEF Sound
  <2> HIDE DEF n
  <2>2. ASSUME NEW i \in 1 .. n - 1 PROVE parts[i] \in DOMAIN disk /\ parts[i] # parts[n]
    <3>1. i \in 1 .. n /\ i # n
      BY <1>2
    <3> QED BY <1>2, <2>1, <3>1
  <2> QED BY <2>2
<1>9. \A i \in 1 .. n + 1 : Parts'[i] = IF i = n + 1 THEN disk'[parts'[i]] \o stream'.held
                                         ELSE disk'[parts'[i]]
  BY <1>4 DEF Parts, Files
<1> HIDE DEF n
<1>10. Parts'[n + 1] = y \o stream'.held
  <2>1. n + 1 \in 1 .. n + 1
    BY <1>2
  <2>2. disk'[parts'[n + 1]] = y
    BY <1>4, <1>7
  <2> QED BY <1>9, <2>1, <2>2
<1>11. ASSUME NEW i \in 1 .. n PROVE Parts'[i] = Parts[i]
  <2>1. Parts'[i] = e[parts[i]]
    BY <1>2, <1>4, <1>7, <1>9
  <2>2. CASE i = n
    BY <1>2, <1>7, <2>1, <2>2
  <2>3. CASE i # n
    <3>1. i \in 1 .. n - 1
      BY <1>2, <2>3
    <3> QED BY <1>2, <1>7, <1>8, <2>1, <3>1
  <2> QED BY <2>2, <2>3
<1> QED BY <1>4, <1>10, <1>11 DEF n

(* A part keeps to the limit when later blocks are known. *)
LEMMA FitsLater ==
    ASSUME NEW f \in Seq(Nat), NEW k \in Nat, NEW m \in Nat, k <= m, Fits(f, k)
    PROVE  Fits(f, m)
BY DEF Fits

(* A beginning of it keeps to the limit. *)
LEMMA FitsPrefix ==
    ASSUME NEW f \in Seq(Nat), NEW h \in Seq(Nat), NEW k \in Nat, Fits(f \o h, k)
    PROVE  Fits(f, k)
<1> DEFINE g == f \o h
<1>1. /\ Len(g) = Len(f) + Len(h) /\ \A i \in 1 .. Len(f) : g[i] = f[i]
      /\ Len(f) \in Nat /\ Len(h) \in Nat
  OBVIOUS
<1>2. Fits(g, k)
  OBVIOUS
<1> HIDE DEF g
<1> QED BY <1>1, <1>2, Constants DEF Fits

(* The bytes of one block keep to the limit. *)
LEMMA FitsBlock ==
    ASSUME NEW b \in Nat, NEW len \in Nat
    PROVE  Fits(Bytes(b, len), b)
<1> DEFINE w == Bytes(b, len)
<1>1. w \in Seq(Nat) /\ Len(w) = len /\ \A i \in 1 .. len : w[i] = b
  BY BytesType
<1> HIDE DEF w
<1>2. Fits(w, b)
  BY <1>1 DEF Fits
<1> QED BY <1>2 DEF w

(* A block is added to a part that has room for it, or is empty. *)
LEMMA FitsMore ==
    ASSUME NEW f \in Seq(Nat), NEW b \in Nat, NEW len \in Nat, NEW k \in Nat, k <= b,
           Fits(f, k), maxFileBytes = 0 \/ Len(f) + len <= maxFileBytes \/ Len(f) = 0
    PROVE  Fits(f \o Bytes(b, len), b)
<1> DEFINE w == Bytes(b, len)
           g == f \o w
<1>1. w \in Seq(Nat) /\ Len(w) = len /\ \A i \in 1 .. len : w[i] = b
  BY BytesType
<1> HIDE DEF w
<1>2. /\ Len(g) = Len(f) + len
      /\ \A i \in 1 .. Len(f) + len : g[i] = IF i <= Len(f) THEN f[i] ELSE w[i - Len(f)]
      /\ Len(f) \in Nat
  BY <1>1
<1> HIDE DEF g
<1>3. \A i \in 1 .. Len(g) : g[i] <= b
  <2>1. \A i \in 1 .. Len(f) : f[i] <= b /\ f[i] \in Nat
    BY DEF Fits
  <2> QED BY <1>1, <1>2, <2>1
<1>4. maxFileBytes # 0 => Len(g) <= maxFileBytes \/ \A i \in 1 .. Len(g) : g[i] = g[1]
  <2>1. CASE Len(f) = 0
    BY <1>1, <1>2, <2>1
  <2>2. CASE Len(f) # 0
    BY <1>2, <2>2
  <2> QED BY <2>1, <2>2
<1>5. Fits(g, b)
  BY <1>3, <1>4 DEF Fits
<1> QED BY <1>5 DEF g, w

(* A part that has a beginning keeps it. *)
LEMMA ApartMore ==
    ASSUME NEW f \in Seq(Nat), NEW g \in Seq(Nat), NEW w \in Seq(Nat), Apart(f, g)
    PROVE  Apart(f, g \o w)
<1>1. g # <<>> /\ Len(g) \in Nat \ {0}
  BY DEF Apart
<1>2. (g \o w)[1] = g[1] /\ Len(g \o w) = Len(g) + Len(w)
  BY <1>1
<1>3. g \o w # <<>>
  BY <1>1, <1>2
<1> QED BY <1>2, <1>3 DEF Apart

(* The parts keep to the limit if nothing happened to them. *)
LEMMA SizedStays ==
    ASSUME Typed, Sized,
           errors' = {} => /\ errors = {} /\ parts' = parts /\ blocks' = blocks
                           /\ fileBytes' = fileBytes
                           /\ at' = "writing" => at = "writing" /\ parts # <<>>
                           /\ \A i \in 1 .. Len(parts) : Parts'[i] = Parts[i]
    PROVE  Sized'
<1> SUFFICES ASSUME errors' = {}
             PROVE  /\ \A i \in 1 .. Len(parts') : Fits(Parts'[i], blocks')
                    /\ at' = "writing" =>
                          /\ fileBytes' = Len(Parts'[Len(parts')])
                          /\ \A i \in 1 .. Len(parts') - 1 : Apart(Parts'[i], Parts'[i + 1])
  BY DEF Sized, Fits
<1>1. /\ errors = {} /\ parts' = parts /\ blocks' = blocks /\ fileBytes' = fileBytes
      /\ \A i \in 1 .. Len(parts) : Parts'[i] = Parts[i]
  OBVIOUS
<1>2. \A i \in 1 .. Len(parts') : Fits(Parts'[i], blocks')
  BY <1>1 DEF Sized
<1>3. ASSUME at' = "writing"
      PROVE  /\ fileBytes' = Len(Parts'[Len(parts')])
             /\ \A i \in 1 .. Len(parts') - 1 : Apart(Parts'[i], Parts'[i + 1])
  <2> DEFINE n == Len(parts)
  <2>1. n \in 1 .. n /\ n \in Nat
    BY <1>3, FilesType
  <2>2. /\ fileBytes = Len(Parts[n])
        /\ \A i \in 1 .. n - 1 : Apart(Parts[i], Parts[i + 1])
    BY <1>1, <1>3 DEF Sized
  <2>3. /\ fileBytes' = fileBytes /\ Len(parts') = n
        /\ \A i \in 1 .. n : Parts'[i] = Parts[i]
    BY <1>1
  <2> HIDE DEF n
  <2> QED BY <2>1, <2>2, <2>3
<1> QED BY <1>2, <1>3

(* The parts keep to the limit in what follows. *)
LEMMA SizedThen ==
    ASSUME errors' = {} =>
               /\ \A i \in 1 .. Len(parts') : Fits(Parts'[i], blocks')
               /\ fileBytes' = Len(Parts'[Len(parts')])
               /\ \A i \in 1 .. Len(parts') - 1 : Apart(Parts'[i], Parts'[i + 1])
    PROVE  Sized'
BY DEF Sized, Fits

(* open() begins a part that fits: the header. *)
LEMMA SizedOpen ==
    ASSUME Typed, Opened, Typed', Opened', Sized, Open
    PROVE  Sized'
<1>1. at = "new" /\ blocks' = blocks
  BY OpenEffect
<1>2. CASE OpenFails
  <2>1. errors' # {}
    BY <1>2 DEF OpenFails
  <2> QED BY <2>1, SizedThen
<1>3. ASSUME NEW name \in Names, NEW y \in Seq(Nat), OpenCreates(name, y), errors' = {}
      PROVE  /\ \A i \in 1 .. Len(parts') : Fits(Parts'[i], blocks')
             /\ fileBytes' = Len(Parts'[Len(parts')])
             /\ \A i \in 1 .. Len(parts') - 1 : Apart(Parts'[i], Parts'[i + 1])
  <2>1. Len(parts') = 1 /\ name = parts'[1] /\ parts' # <<>>
    BY <1>1, <1>3, CreatesKeeps
  <2>2. disk'[name] = y
    BY <1>3 DEF OpenCreates, Added
  <2>3. Parts'[1] = disk'[parts'[1]] \o stream'.held
    <3>1. \A i \in 1 .. Len(parts') : Parts'[i] = IF i = Len(parts')
                                                   THEN disk'[parts'[i]] \o stream'.held
                                                   ELSE disk'[parts'[i]]
      BY DEF Parts, Files
    <3>2. 1 \in 1 .. Len(parts') /\ 1 = Len(parts')
      BY <2>1
    <3> QED BY <3>1, <3>2, Zenon
  <2>4. Parts'[1] = Header /\ fileBytes' = HeaderBytes
    BY <1>3, <2>1, <2>2, <2>3 DEF OpenCreates
  <2>5. Fits(Header, 0)
    BY FitsBlock, Constants DEF Header
  <2>6. Fits(Header, blocks') /\ Len(Header) = HeaderBytes
    <3>1. blocks' \in Nat /\ 0 <= blocks'
      BY DEF Typed
    <3> QED BY <2>5, <3>1, HeaderType, FitsLater
  <2> QED BY <2>1, <2>4, <2>6
<1> QED BY <1>2, <1>3, OpenEffect, SizedThen

(* write() keeps the parts within the limit. *)
LEMMA SizedWrite ==
    ASSUME Typed, Opened, Typed', Opened', Sized, Write
    PROVE  Sized'
<1>1. PICK b \in Nat, len \in Nat :
          /\ Writing(b, len)
          /\ \/ \E x \in Seq(Nat) : Writes(x, b, len)
             \/ /\ MustRotate(len) /\ cycle' = cycle + 1
                /\ \/ Stays
                   \/ \E x \in Seq(Nat) : Abandons(x)
                   \/ \E x, y \in Seq(Nat), name \in Names : Rotates(x, name, y, b, len)
  BY WriteEffect
<1> DEFINE n == Len(parts)
           w == Bytes(b, len)
<1>2. /\ at = "writing" /\ parts # <<>> /\ len > 0 /\ b = blocks + 1 /\ blocks' = b
      /\ blocks \in Nat
  BY <1>1 DEF Writing, Opened, Typed
<1>3. /\ n \in Nat \ {0} /\ n \in 1 .. n
      /\ \A i \in 1 .. n : Parts[i] \in Seq(Nat)
  <2>1. n \in Nat /\ n \in 1 .. n /\ \A i \in 1 .. n : Parts[i] \in Seq(Nat)
    BY <1>2, FilesType, Zenon
  <2> HIDE DEF n
  <2> QED BY <2>1
<1>4. w \in Seq(Nat) /\ Len(w) = len /\ \A i \in 1 .. len : w[i] = b
  BY BytesType
<1>5. errors = {} => /\ \A i \in 1 .. n : Fits(Parts[i], blocks)
                     /\ fileBytes = Len(Parts[n])
                     /\ \A i \in 1 .. n - 1 : Apart(Parts[i], Parts[i + 1])
  BY <1>2, Zenon DEF Sized
<1> HIDE DEF n, w
<1>6. ASSUME NEW x \in Seq(Nat), Writes(x, b, len), errors' = {}
      PROVE  /\ \A i \in 1 .. Len(parts') : Fits(Parts'[i], blocks')
             /\ fileBytes' = Len(Parts'[Len(parts')])
             /\ \A i \in 1 .. Len(parts') - 1 : Apart(Parts'[i], Parts'[i + 1])
  <2>1. /\ Grew(x) /\ stream'.good /\ errors = {} /\ fileBytes' = fileBytes + len
        /\ ~MustRotate(len) /\ x \o stream'.held = stream.held \o w
    BY <1>6 DEF Writes, Accounted, w
  <2>2. /\ parts' = parts
        /\ \A i \in 1 .. n - 1 : Parts'[i] = Parts[i]
        /\ Parts'[n] = Parts[n] \o w
    BY <1>4, <2>1, GrewFiles DEF n
  <2> DEFINE f == Parts[n]
  <2>3. f \in Seq(Nat) /\ Fits(f, blocks) /\ fileBytes = Len(f)
    BY <1>3, <1>5, <2>1
  <2>4. maxFileBytes = 0 \/ Len(f) + len <= maxFileBytes \/ Len(f) = 0
    <3>1. Len(f) \in Nat
      BY <2>3
    <3> HIDE DEF f
    <3> QED BY <2>1, <2>3, <3>1, Constants DEF MustRotate
  <2>5. Fits(f \o w, b)
    <3>1. blocks <= b
      BY <1>2
    <3> HIDE DEF f
    <3> QED BY <1>2, <2>3, <2>4, <3>1, FitsMore DEF w
  <2>6. ASSUME NEW i \in 1 .. n PROVE Fits(Parts'[i], blocks')
    <3>1. CASE i = n
      BY <1>2, <2>2, <2>5, <3>1
    <3>2. CASE i # n
      <4>1. i \in 1 .. n - 1 /\ i \in 1 .. n
        BY <1>3, <3>2
      <4>2. Parts[i] \in Seq(Nat) /\ Fits(Parts[i], blocks) /\ blocks <= b
        BY <1>2, <1>3, <1>5, <2>1, <4>1
      <4>3. Fits(Parts[i], b)
        BY <1>2, <4>2, FitsLater
      <4> QED BY <1>2, <2>2, <4>1, <4>3
    <3> QED BY <3>1, <3>2
  <2>7. fileBytes' = Len(Parts'[n])
    <3>1. Len(f \o w) = Len(f) + Len(w)
      <4>1. f \in Seq(Nat) /\ w \in Seq(Nat)
        BY <1>4, <2>3
      <4> HIDE DEF f
      <4> QED BY <4>1, ConcatProperties
    <3> QED BY <1>4, <2>1, <2>2, <2>3, <3>1
  <2>8. ASSUME NEW i \in 1 .. n - 1 PROVE Apart(Parts'[i], Parts'[i + 1])
    <3>1. i \in 1 .. n /\ i + 1 \in 1 .. n /\ Parts'[i] = Parts[i]
      BY <1>3, <2>2
    <3>2. Apart(Parts[i], Parts[i + 1])
      BY <1>5, <2>1
    <3>3. CASE i + 1 = n
      <4>1. Parts[i] \in Seq(Nat) /\ Apart(Parts[i], f)
        BY <1>3, <3>1, <3>2, <3>3
      <4>2. Apart(Parts[i], f \o w)
        BY <1>4, <2>3, <4>1, ApartMore
      <4> QED BY <2>2, <3>1, <3>3, <4>2
    <3>4. CASE i + 1 # n
      <4>1. i + 1 \in 1 .. n - 1
        BY <1>3, <3>1, <3>4
      <4> QED BY <2>2, <3>1, <3>2, <4>1
    <3> QED BY <3>3, <3>4
  <2>9. Len(parts') = n
    BY <2>2 DEF n
  <2> QED BY <2>6, <2>7, <2>8, <2>9
<1>7. Stays => errors' # {}
  BY DEF Stays
<1>8. ASSUME NEW x \in Seq(Nat), Abandons(x) PROVE errors' # {}
  BY <1>8 DEF Abandons
<1>9. ASSUME NEW x \in Seq(Nat), NEW y \in Seq(Nat), NEW name \in Names,
             Rotates(x, name, y, b, len), MustRotate(len), errors' = {}
      PROVE  /\ \A i \in 1 .. Len(parts') : Fits(Parts'[i], blocks')
             /\ fileBytes' = Len(Parts'[Len(parts')])
             /\ \A i \in 1 .. Len(parts') - 1 : Apart(Parts'[i], Parts'[i + 1])
  <2>1. /\ Splits(x, name, y) /\ stream'.good /\ errors = {} /\ fileBytes' = 0 + len
        /\ x = stream.held /\ y \o stream'.held = w
    BY <1>9 DEF Rotates, Accounted, w
  <2>2. name[1] = Len(parts)
    BY <1>2, <1>9, NextName DEF Rotates
  <2>3. /\ Len(parts') = n + 1
        /\ \A i \in 1 .. n : Parts'[i] = Parts[i]
        /\ Parts'[n + 1] = w
    <3>1. /\ Len(parts') = Len(parts) + 1
          /\ \A i \in 1 .. Len(parts) : Parts'[i] = Parts[i]
          /\ Parts'[Len(parts) + 1] = y \o stream'.held
      BY <2>1, <2>2, SplitsFiles
    <3> QED BY <2>1, <3>1 DEF n
  <2> DEFINE f == Parts[n]
  <2>4. f \in Seq(Nat) /\ Fits(f, blocks) /\ fileBytes = Len(f) /\ fileBytes > 0
    BY <1>3, <1>5, <1>9, <2>1 DEF MustRotate
  <2>5. Apart(f, w)
    <3> HIDE DEF f
    <3>1. Len(f) \in 1 .. Len(f) /\ f # <<>>
      BY <2>4
    <3>2. f[Len(f)] <= blocks
      BY <2>4, <3>1 DEF Fits
    <3>3. f[Len(f)] \in Nat
      BY <2>4, <3>1
    <3>4. w # <<>> /\ w[1] = b
      BY <1>2, <1>4
    <3> QED BY <1>2, <3>1, <3>2, <3>3, <3>4 DEF Apart
  <2>6. ASSUME NEW i \in 1 .. n + 1 PROVE Fits(Parts'[i], blocks')
    <3>1. CASE i = n + 1
      BY <1>2, <2>3, <3>1, FitsBlock DEF w
    <3>2. CASE i # n + 1
      <4>1. i \in 1 .. n
        BY <1>3, <3>2
      <4>2. Parts[i] \in Seq(Nat) /\ Fits(Parts[i], blocks) /\ blocks <= b
        BY <1>2, <1>3, <1>5, <2>1, <4>1
      <4>3. Fits(Parts[i], b)
        BY <1>2, <4>2, FitsLater
      <4> QED BY <1>2, <2>3, <4>1, <4>3
    <3> QED BY <3>1, <3>2
  <2>7. fileBytes' = Len(Parts'[n + 1])
    BY <1>4, <2>1, <2>3
  <2>8. ASSUME NEW i \in 1 .. n PROVE Apart(Parts'[i], Parts'[i + 1])
    <3>1. CASE i = n
      BY <1>3, <2>3, <2>5, <3>1
    <3>2. CASE i # n
      <4>1. i \in 1 .. n - 1 /\ i + 1 \in 1 .. n
        BY <1>3, <3>2
      <4> QED BY <1>5, <2>1, <2>3, <4>1
    <3> QED BY <3>1, <3>2
  <2>9. Len(parts') - 1 = n
    BY <1>3, <2>3
  <2> QED BY <2>3, <2>6, <2>7, <2>8, <2>9
<1>10. CASE \E x \in Seq(Nat) : Writes(x, b, len)
  BY <1>6, <1>10, SizedThen
<1>11. CASE Stays \/ \E x \in Seq(Nat) : Abandons(x)
  BY <1>7, <1>8, <1>11, SizedThen
<1>12. CASE MustRotate(len) /\ \E x, y \in Seq(Nat), name \in Names : Rotates(x, name, y, b, len)
  BY <1>9, <1>12, SizedThen
<1> QED BY <1>1, <1>10, <1>11, <1>12

(* The last part has handed over what was held and is otherwise as it was. *)
LEMMA SizedHanded ==
    ASSUME Typed, Typed', Sized, NEW x \in Seq(Nat), Grew(x), stream'.held = <<>>,
           errors' = {} => errors = {} /\ x = stream.held,
           blocks' = blocks, fileBytes' = fileBytes, at' = "writing" => at = "writing"
    PROVE  Sized'
<1>1. parts' = parts /\ parts # <<>>
  BY DEF Grew
<1>2. ASSUME errors' = {} PROVE \A i \in 1 .. Len(parts) : Parts'[i] = Parts[i]
  <2>1. x \o stream'.held = stream.held \o <<>>
    BY <1>2
  <2>2. /\ \A i \in 1 .. Len(parts) - 1 : Parts'[i] = Parts[i]
        /\ Parts'[Len(parts)] = Parts[Len(parts)] \o <<>>
    BY <2>1, GrewFiles, EmptySeq
  <2>3. /\ Len(parts) \in Nat /\ Len(parts) \in 1 .. Len(parts)
        /\ \A i \in 1 .. Len(parts) : Parts[i] \in Seq(Nat)
    BY <1>1, FilesType, Zenon
  <2>4. Parts[Len(parts)] \o <<>> = Parts[Len(parts)]
    BY <2>3, ConcatEmptySeq
  <2>5. ASSUME NEW i \in 1 .. Len(parts) PROVE Parts'[i] = Parts[i]
    <3> DEFINE n == Len(parts)
    <3>1. n \in Nat /\ i \in 1 .. n
      BY <2>3
    <3>2. i \in 1 .. n - 1 \/ i = n
      <4> HIDE DEF n
      <4> QED BY <3>1
    <3> QED BY <2>2, <2>4, <3>2, Zenon
  <2> QED BY <2>5
<1> QED BY <1>1, <1>2, SizedStays

(* flush() and close() keep the parts within the limit. *)
LEMMA SizedFlushClose ==
    ASSUME Typed, Opened, Typed', Sized, Flush \/ Close
    PROVE  Sized'
<1>1. CASE Flush
  <2>1. PICK x \in Seq(Nat) : at = "writing" /\ Flushes(x)
    BY <1>1, FlushEffect
  <2>2. /\ Grew(x) /\ blocks' = blocks /\ fileBytes' = fileBytes
        /\ errors' = {} => stream'.good /\ errors = {}
        /\ stream'.good => x = stream.held /\ stream'.held = <<>>
    BY <2>1 DEF Flushes
  <2>3. CASE errors' = {}
    BY <2>1, <2>2, <2>3, SizedHanded
  <2>4. CASE errors' # {}
    BY <2>4, SizedThen
  <2> QED BY <2>3, <2>4
<1>2. CASE Close
  <2>1. /\ at' = "closed" /\ stream'.held = <<>> /\ blocks' = blocks /\ fileBytes' = fileBytes
        /\ ClosesNothing \/ \E x \in Seq(Nat) : Closes(x)
    BY <1>2, CloseEffect
  <2>2. CASE ClosesNothing
    <3>1. stream.held = <<>> /\ disk' = disk /\ parts' = parts /\ errors' = errors
      BY <2>2 DEF ClosesNothing, Opened
    <3>2. Parts' = Parts
      BY <2>1, <3>1 DEF Parts, Files
    <3> QED BY <2>1, <3>1, <3>2, SizedStays
  <2>3. ASSUME NEW x \in Seq(Nat), Closes(x) PROVE Sized'
    <3>1. Grew(x) /\ (errors' = {} => errors = {} /\ x = stream.held)
      BY <2>3 DEF Closes
    <3> QED BY <2>1, <3>1, SizedHanded
  <2> QED BY <2>1, <2>2, <2>3
<1> QED BY <1>1, <1>2

(* Death cuts the last part short; the other steps leave it alone. *)
LEMMA SizedIdle ==
    ASSUME Typed, Opened, Sized, Die \/ DiskFull \/ DiskFreed \/ UNCHANGED vars
    PROVE  Sized'
<1>1. Idles
  BY IdleEffect
<1>2. CASE UNCHANGED <<at, stream>>
  <2>1. Parts' = Parts /\ UNCHANGED <<errors, parts, blocks, fileBytes, at>>
    BY <1>1, <1>2 DEF Idles, Parts, Files
  <2>2. at' = "writing" => at = "writing" /\ parts # <<>>
    BY <2>1 DEF Opened
  <2> QED BY <2>1, <2>2, SizedStays
<1>3. CASE at' = "dead" /\ stream' = [name |-> None, held |-> <<>>, good |-> TRUE]
  <2>1. /\ stream'.held = <<>> /\ at' # "writing"
        /\ UNCHANGED <<disk, parts, errors, blocks>>
    BY <1>1, <1>3 DEF Idles
  <2>2. ASSUME errors = {}, NEW i \in 1 .. Len(parts) PROVE Fits(Parts'[i], blocks)
    <3> DEFINE n == Len(parts)
               d == disk[parts[i]]
    <3>1. d \in Seq(Nat) /\ stream.held \in Seq(Nat) /\ blocks \in Nat
      BY DEF Typed, Sound
    <3>2. Fits(Parts[i], blocks)
      BY <2>2 DEF Sized
    <3>3. /\ Parts[i] = IF i = n THEN d \o stream.held ELSE d
          /\ Parts'[i] = IF i = n THEN d \o <<>> ELSE d
      BY <2>1 DEF Parts, Files
    <3> HIDE DEF d, n
    <3>4. d \o <<>> = d
      BY <3>1, ConcatEmptySeq
    <3>5. CASE i = n
      BY <3>1, <3>2, <3>3, <3>4, <3>5, FitsPrefix
    <3>6. CASE i # n
      BY <3>2, <3>3, <3>6
    <3> QED BY <3>5, <3>6
  <2>3. \A i \in 1 .. Len(parts) : errors = {} => Fits(Parts'[i], blocks)
    BY <2>2
  <2> QED BY <2>1, <2>3, Zenon DEF Sized, Fits
<1> QED BY <1>1, <1>2, <1>3 DEF Idles

(* Every step keeps the parts within the limit. *)
LEMMA SizedStep ==
    ASSUME Typed, Opened, Sized, [Next]_vars
    PROVE  Sized'
<1>1. Typed' /\ Opened'
  BY TypedStep
<1> QED BY <1>1, SizedOpen, SizedWrite, SizedFlushClose, SizedIdle DEF Next

-----------------------------------------------------------------------------
(* Beginnings *)

(* What grows is a beginning of what it becomes. *)
LEMMA GrownPrefix ==
    ASSUME NEW s \in Seq(Nat), NEW z \in Seq(Nat)
    PROVE  IsPrefix(s, s \o z)
<1> DEFINE u == s \o z
<1>1. /\ u \in Seq(Nat) /\ Len(s) \in Nat /\ Len(z) \in Nat
      /\ Len(u) = Len(s) + Len(z) /\ \A i \in 1 .. Len(s) : u[i] = s[i]
  OBVIOUS
<1> HIDE DEF u
<1>2. SubSeq(s, 1, Len(s)) = SubSeq(u, 1, Len(s))
  <2> DEFINE a == SubSeq(s, 1, Len(s))
             b == SubSeq(u, 1, Len(s))
  <2>1. a \in Seq(Nat) /\ b \in Seq(Nat) /\ Len(a) = Len(s) /\ Len(b) = Len(s)
    BY <1>1, SubSeqProperties
  <2>2. \A i \in 1 .. Len(s) : a[i] = s[i] /\ b[i] = u[i]
    BY <1>1
  <2> HIDE DEF a, b
  <2>3. \A i \in 1 .. Len(a) : a[i] = b[i]
    BY <1>1, <2>1, <2>2
  <2>4. a = b
    BY <2>1, <2>3, SeqEqual
  <2> QED BY <2>4 DEF a, b
<1>3. IsPrefix(s, u)
  BY <1>1, <1>2 DEF IsPrefix
<1> QED BY <1>3 DEF u

(* The bytes that agree are a beginning. *)
LEMMA AgreedPrefix ==
    ASSUME NEW n \in Nat, NEW a \in Seq(Nat), NEW g \in Seq(Nat), Agreed(n, a, g)
    PROVE  n <= Len(a) /\ IsPrefix(SubSeq(g, 1, n), a)
<1> DEFINE s == SubSeq(g, 1, n)
<1>1. n <= Len(a) /\ n <= Len(g) /\ Len(a) \in Nat /\ Len(g) \in Nat
  BY DEF Agreed
<1>2. s \in Seq(Nat) /\ Len(s) = n /\ \A i \in 1 .. n : s[i] = a[i]
  BY <1>1 DEF Agreed
<1> HIDE DEF s
<1>3. SubSeq(s, 1, n) = SubSeq(a, 1, n)
  <2> DEFINE c == SubSeq(a, 1, n)
  <2>1. s \in Seq(Nat) /\ Len(s) = n
    BY <1>2
  <2>2. SubSeq(s, 1, n) = s
    BY <2>1, SubSeqFull
  <2>3. c \in Seq(Nat) /\ Len(c) = n /\ \A i \in 1 .. n : c[i] = a[i]
    BY <1>1
  <2> HIDE DEF c
  <2>4. \A i \in 1 .. Len(s) : s[i] = c[i]
    BY <1>2, <2>3
  <2>5. s = c
    BY <2>1, <2>3, <2>4, SeqEqual
  <2> QED BY <2>2, <2>5 DEF c
<1>4. IsPrefix(s, a)
  BY <1>1, <1>2, <1>3 DEF IsPrefix
<1> QED BY <1>1, <1>4 DEF s

-----------------------------------------------------------------------------
(* The theorems *)

(* The invariant holds at the beginning. *)
LEMMA InvInit == Init => WriterInv
<1> SUFFICES ASSUME Init PROVE WriterInv
  OBVIOUS
<1>1. Typed /\ Opened
  BY TypedInit
<1>2. /\ parts = <<>> /\ accepted = <<>> /\ stream.held = <<>> /\ flushed = 0
      /\ errors = {} /\ at = "new"
  BY DEF Init
<1>3. OnDisk = <<>> /\ Given = <<>>
  <2>1. Run(disk, <<>>) = <<>>
    BY RunEmpty
  <2> QED BY <1>2, <2>1, RunOnDisk, Zenon DEF Given
<1>4. Whole
  <2>1. <<>> \o <<>> = <<>> /\ <<>> \in Seq(Nat)
    BY EmptySeq, ConcatEmptySeq
  <2>2. OnDisk \o stream.held = Given /\ stream.held \in Seq(Nat)
    BY <1>2, <1>3, <2>1
  <2> QED BY <2>2, Zenon DEF Whole
<1>5. Kept
  <2>1. Agreed(flushed, OnDisk, Given)
    BY <1>2, <1>3 DEF Agreed
  <2> QED BY <2>1, KeptAgreed
<1>6. Sized
  BY <1>2 DEF Sized
<1> QED BY <1>1, <1>4, <1>5, <1>6 DEF WriterInv

(* Every step keeps the invariant. *)
LEMMA InvStep == WriterInv /\ [Next]_vars => WriterInv'
<1> SUFFICES ASSUME WriterInv, [Next]_vars PROVE WriterInv'
  OBVIOUS
<1> QED BY TypedStep, BytesStep, SizedStep DEF WriterInv

(* The invariant of the writer: the types, the stream is that of the last    *)
(* part, the bytes of a run without errors are on disk and in the stream,    *)
(* the flushed ones are on disk, fileBytes_ counts the open part.            *)
THEOREM InvariantHolds == Spec => []WriterInv
<1>1. Init => WriterInv
  BY InvInit
<1>2. WriterInv /\ [Next]_vars => WriterInv'
  BY InvStep
<1> QED BY <1>1, <1>2, PTL DEF Spec

(* The parts hold the run: every accepted block, once and in order, through  *)
(* all rotations of write(), for blocks and limits of any size.              *)
THEOREM PartsHold == Spec => []PartsHoldTheRun
<1>1. WriterInv => PartsHoldTheRun
  <2> SUFFICES ASSUME WriterInv, errors = {}
               PROVE  IF at = "dead" THEN IsPrefix(OnDisk, Given) ELSE OnDisk \o stream.held = Given
    BY DEF PartsHoldTheRun
  <2>1. PICK x \in Seq(Nat) : OnDisk \o x = Given /\ (at # "dead" => x = stream.held)
    BY DEF WriterInv, Whole
  <2>2. OnDisk \in Seq(Nat) /\ Given \in Seq(Nat)
    BY BytesOfRun DEF WriterInv
  <2>3. IsPrefix(OnDisk, Given)
    <3>1. PICK a \in Seq(Nat) : a = OnDisk
      BY <2>2
    <3>2. IsPrefix(a, a \o x)
      BY GrownPrefix
    <3> QED BY <2>1, <3>1, <3>2
  <2> QED BY <2>1, <2>3
<1> QED BY <1>1, InvariantHolds, PTL

(* What flush() has put on disk before any error is there from then on.      *)
THEOREM FlushedStays == Spec => []FlushedSurvives
<1>1. WriterInv => FlushedSurvives
  <2> SUFFICES ASSUME WriterInv PROVE FlushedSurvives
    OBVIOUS
  <2>1. OnDisk \in Seq(Nat) /\ Given \in Seq(Nat) /\ flushed \in Nat
    BY BytesOfRun DEF WriterInv, Typed
  <2>2. Agreed(flushed, OnDisk, Given)
    BY KeptAgreed DEF WriterInv
  <2>3. PICK a \in Seq(Nat), g \in Seq(Nat) : a = OnDisk /\ g = Given
    BY <2>1
  <2>4. flushed <= Len(a) /\ IsPrefix(SubSeq(g, 1, flushed), a)
    BY <2>1, <2>2, <2>3, AgreedPrefix
  <2> QED BY <2>3, <2>4 DEF FlushedSurvives
<1> QED BY <1>1, InvariantHolds, PTL

(* A part keeps to maxFileBytes unless it is one block, or the header, and   *)
(* no block is split between two parts.                                      *)
THEOREM PartsFit == Spec => []PartsRespectLimit
<1>1. WriterInv => PartsRespectLimit
  <2> SUFFICES ASSUME WriterInv, maxFileBytes # 0, errors = {}, NEW i \in 1 .. Len(parts)
               PROVE  LET file(k) == IF k = Len(parts) THEN disk[parts[k]] \o stream.held
                                     ELSE disk[parts[k]]
                      IN  /\ \/ Len(file(i)) <= maxFileBytes
                             \/ \A k \in 1 .. Len(file(i)) : file(i)[k] = file(i)[1]
                          /\ (i < Len(parts) /\ at = "writing") => Last(file(i)) # Head(file(i + 1))
    BY DEF PartsRespectLimit
  <2> DEFINE file(k) == IF k = Len(parts) THEN disk[parts[k]] \o stream.held ELSE disk[parts[k]]
  <2>1. \A k \in 1 .. Len(parts) : file(k) = Parts[k]
    BY DEF Parts, Files
  <2>2. Fits(Parts[i], blocks)
    BY DEF WriterInv, Sized
  <2> DEFINE f == Parts[i]
             g == Parts[i + 1]
  <2>3. ASSUME i < Len(parts), at = "writing" PROVE Last(file(i)) # Head(file(i + 1))
    <3>1. /\ Len(parts) \in Nat /\ i \in 1 .. Len(parts) - 1 /\ i + 1 \in 1 .. Len(parts)
          /\ \A k \in 1 .. Len(parts) : Parts[k] \in Seq(Nat)
      <4>1. Len(parts) \in Nat /\ \A k \in 1 .. Len(parts) : Parts[k] \in Seq(Nat)
        BY FilesType DEF WriterInv
      <4> QED BY <2>3, <4>1
    <3>2. Apart(f, g)
      BY <2>3, <3>1 DEF WriterInv, Sized
    <3>3. file(i) = f /\ file(i + 1) = g /\ f \in Seq(Nat) /\ g \in Seq(Nat)
      BY <2>1, <3>1
    <3> HIDE DEF file, f, g
    <3>4. Last(f) # Head(g)
      BY <3>2, <3>3 DEF Apart, Last
    <3> QED BY <3>3, <3>4
  <2>4. file(i) = f
    BY <2>1
  <2> HIDE DEF file, f, g
  <2>5. Len(f) <= maxFileBytes \/ \A k \in 1 .. Len(f) : f[k] = f[1]
    BY <2>2 DEF Fits, f
  <2>6. \/ Len(file(i)) <= maxFileBytes
        \/ \A k \in 1 .. Len(file(i)) : file(i)[k] = file(i)[1]
    BY <2>4, <2>5
  <2> QED BY <2>3, <2>6 DEF file
<1> QED BY <1>1, InvariantHolds, PTL

(* The file f of the disk is there after the step and has at most grown. *)
Remains(f) == f \in DOMAIN disk' /\ IsPrefix(disk[f], disk'[f])

(* A file that is not touched remains. *)
LEMMA UntouchedRemains ==
    ASSUME Typed, NEW f \in DOMAIN disk, f \in DOMAIN disk', disk'[f] = disk[f]
    PROVE  Remains(f)
<1>1. PICK s \in Seq(Nat) : s = disk[f]
  BY DEF Typed, Sound
<1>2. s \o <<>> = s /\ IsPrefix(s, s \o <<>>)
  BY GrownPrefix, EmptySeq, ConcatEmptySeq
<1> QED BY <1>1, <1>2 DEF Remains

(* All of them remain when the last part grows. *)
LEMMA GrewRemains ==
    ASSUME Typed, NEW x \in Seq(Nat), Grew(x), NEW f \in DOMAIN disk
    PROVE  Remains(f)
<1>1. HasGrown(disk, parts, x, disk')
  <2>1. CanGrow(disk, parts, x)
    BY DEF CanGrow, Grew, Typed
  <2>2. HasGrown(disk, parts, x, Grown(disk, parts, x))
    BY <2>1, RunGrows, Zenon
  <2> QED BY <2>2 DEF Grew
<1>2. /\ DOMAIN disk' = DOMAIN disk
      /\ disk'[parts[Len(parts)]] = disk[parts[Len(parts)]] \o x
      /\ f # parts[Len(parts)] => disk'[f] = disk[f]
  BY <1>1 DEF HasGrown
<1>3. CASE f = parts[Len(parts)]
  <2>1. PICK s \in Seq(Nat) : s = disk[f]
    BY DEF Typed, Sound
  <2>2. IsPrefix(s, s \o x)
    BY GrownPrefix
  <2> QED BY <1>2, <1>3, <2>1, <2>2 DEF Remains
<1>4. CASE f # parts[Len(parts)]
  BY <1>2, <1>4, UntouchedRemains
<1> QED BY <1>3, <1>4

(* They remain when another part begins, except one that bears its name. *)
LEMMA SplitsRemains ==
    ASSUME Typed, NEW x \in Seq(Nat), NEW y \in Seq(Nat), NEW name \in Names,
           Splits(x, name, y), NEW f \in DOMAIN disk, f # name
    PROVE  Remains(f)
<1> DEFINE e == Grown(disk, parts, x)
<1>1. HasGrown(disk, parts, x, e)
  <2>1. CanGrow(disk, parts, x)
    BY DEF CanGrow, Splits, Typed
  <2> QED BY <2>1, RunGrows, Zenon
<1>2. disk' = Added(e, name, y)
  BY DEF Splits
<1> HIDE DEF e
<1>3. /\ DOMAIN e = DOMAIN disk
      /\ e[parts[Len(parts)]] = disk[parts[Len(parts)]] \o x
      /\ f # parts[Len(parts)] => e[f] = disk[f]
  BY <1>1 DEF HasGrown
<1>4. f \in DOMAIN disk' /\ disk'[f] = e[f]
  BY <1>2, <1>3 DEF Added
<1>5. CASE f = parts[Len(parts)]
  <2>1. PICK s \in Seq(Nat) : s = disk[f]
    BY DEF Typed, Sound
  <2>2. IsPrefix(s, s \o x)
    BY GrownPrefix
  <2> QED BY <1>3, <1>4, <1>5, <2>1, <2>2 DEF Remains
<1>6. CASE f # parts[Len(parts)]
  BY <1>3, <1>4, <1>6, UntouchedRemains
<1> QED BY <1>5, <1>6

(* What a step of the writer may do to a file of its disk. *)
LEMMA StepRemains ==
    ASSUME Typed, Opened, Next, NEW f \in DOMAIN disk
    PROVE  Remains(f) \/ (f[2] = 0 /\ Taken(f[1]))
<1>1. disk' = disk => Remains(f)
  BY UntouchedRemains
<1>2. CASE Open
  <2>1. ASSUME NEW name \in Names, NEW y \in Seq(Nat), OpenCreates(name, y), at = "new"
        PROVE  Remains(f) \/ (f[2] = 0 /\ Taken(f[1]))
    <3>1. name = uniquePath(0) /\ disk' = Added(disk, name, y)
      BY <2>1 DEF OpenCreates
    <3>2. CASE f = name
      BY <3>1, <3>2, FreeName
    <3>3. CASE f # name
      <4>1. f \in DOMAIN disk' /\ disk'[f] = disk[f]
        BY <3>1, <3>3 DEF Added
      <4> QED BY <4>1, UntouchedRemains
    <3> QED BY <3>2, <3>3
  <2>2. OpenFails => disk' = disk
    BY DEF OpenFails
  <2> QED BY <1>1, <1>2, <2>1, <2>2, OpenEffect
<1>3. CASE Write
  <2>1. PICK b \in Nat, len \in Nat :
            /\ Writing(b, len)
            /\ \/ \E x \in Seq(Nat) : Writes(x, b, len)
               \/ /\ MustRotate(len) /\ cycle' = cycle + 1
                  /\ \/ Stays
                     \/ \E x \in Seq(Nat) : Abandons(x)
                     \/ \E x, y \in Seq(Nat), name \in Names : Rotates(x, name, y, b, len)
    BY <1>3, WriteEffect
  <2>2. ASSUME NEW x \in Seq(Nat), Writes(x, b, len) \/ Abandons(x) PROVE Remains(f)
    BY <2>2, GrewRemains DEF Writes, Abandons
  <2>3. Stays => disk' = disk
    BY DEF Stays
  <2>4. ASSUME NEW x \in Seq(Nat), NEW y \in Seq(Nat), NEW name \in Names,
               Rotates(x, name, y, b, len)
        PROVE  Remains(f) \/ (f[2] = 0 /\ Taken(f[1]))
    <3>1. name = uniquePath(cycle + 1) /\ Splits(x, name, y) /\ cycle + 1 \in Nat
      BY <2>4 DEF Rotates, Typed
    <3>2. CASE f = name
      BY <3>1, <3>2, FreeName
    <3>3. CASE f # name
      BY <3>1, <3>3, SplitsRemains
    <3> QED BY <3>2, <3>3
  <2> QED BY <1>1, <2>1, <2>2, <2>3, <2>4
<1>4. CASE Flush
  <2>1. PICK x \in Seq(Nat) : Flushes(x)
    BY <1>4, FlushEffect
  <2> QED BY <2>1, GrewRemains DEF Flushes
<1>5. CASE Close
  <2>1. CASE ClosesNothing
    BY <1>1, <2>1 DEF ClosesNothing
  <2>2. ASSUME NEW x \in Seq(Nat), Closes(x) PROVE Remains(f)
    BY <2>2, GrewRemains DEF Closes
  <2> QED BY <1>5, <2>1, <2>2, CloseEffect
<1>6. CASE Die \/ DiskFull \/ DiskFreed
  BY <1>1, <1>6, IdleEffect DEF Idles
<1> QED BY <1>2, <1>3, <1>4, <1>5, <1>6 DEF Next

(* Neither open() nor write(), flush() or close() overwrites a file, unless  *)
(* uniquePath() has run out of names.                                        *)
THEOREM NothingOverwritten == Spec => NeverOverwrites
<1>1. WriterInv /\ [Next]_vars =>
        [\A f \in DOMAIN disk : \/ f \in DOMAIN disk' /\ IsPrefix(disk[f], disk'[f])
                                \/ f[2] = 0 /\ Taken(f[1])]_vars
  <2> SUFFICES ASSUME WriterInv, Next, NEW f \in DOMAIN disk
               PROVE  \/ f \in DOMAIN disk' /\ IsPrefix(disk[f], disk'[f])
                      \/ f[2] = 0 /\ Taken(f[1])
    OBVIOUS
  <2> QED BY StepRemains DEF Remains, WriterInv
<1> QED BY <1>1, InvariantHolds, PTL DEF Spec, NeverOverwrites

(* The type invariant, and the stream of the writer. *)
THEOREM TypeCorrect == Spec => [](Typed /\ Opened)
<1>1. WriterInv => Typed /\ Opened
  BY DEF WriterInv
<1> QED BY <1>1, InvariantHolds, PTL

=============================================================================

--------------------------- MODULE SyncChainProofs ---------------------------
(***************************************************************************)
(* What SyncChain promises, proved for any number of boards, any wiring    *)
(* that Init allows and any bounds.                                        *)
(*                                                                         *)
(* The chain the two walks follow is computed once more at every step, so  *)
(* the first part says what it is: every board once, the master first, and *)
(* no board behind a later one on the cable (Chained).  The invariant then *)
(* relates the place of the walk to what the boards before it must look    *)
(* like: SyncedPassed for the first walk, Aligned for the phase of a board *)
(* that lost its lock in or out of its window, Healthy for a start() in    *)
(* which nothing fails, Starting for the boards that are armed.            *)
(***************************************************************************)
EXTENDS SyncChain, FiniteSetTheorems, SequenceTheorems, TLAPS

-----------------------------------------------------------------------------
(* The chain *)

(* The boards from the lowest to the highest, each once. *)
LEMMA InOrderRight ==
    ASSUME NEW S \in SUBSET Boards
    PROVE  /\ Cardinality(S) \in Nat
           /\ InOrder(S) \in [1 .. Cardinality(S) -> S]
           /\ \A b \in S : \E k \in 1 .. Cardinality(S) : InOrder(S)[k] = b
           /\ \A j, k \in 1 .. Cardinality(S) : j < k => InOrder(S)[j] < InOrder(S)[k]
<1> DEFINE n == Cardinality(S)
           Below(b) == {c \in S : c < b}
           rank == [b \in S |-> Cardinality(Below(b)) + 1]
<1>1. IsFiniteSet(S) /\ n \in Nat
  <2>1. IsFiniteSet(Boards)
    BY ChainAssumption, FS_Interval DEF Boards
  <2>2. IsFiniteSet(S)
    BY <2>1, FS_Subset
  <2> QED BY <2>2, FS_CardinalityType
<1>2. S \subseteq Int
  BY DEF Boards
<1>3. ASSUME NEW b \in S
      PROVE  /\ IsFiniteSet(Below(b)) /\ Cardinality(Below(b)) \in Nat
             /\ Cardinality(Below(b)) < n
  <2>1. Below(b) \in SUBSET S /\ Below(b) # S
    BY <1>2
  <2>2. IsFiniteSet(Below(b))
    BY <1>1, <2>1, FS_Subset
  <2>3. Cardinality(Below(b)) \in Nat
    BY <2>2, FS_CardinalityType
  <2>4. Cardinality(Below(b)) <= n /\ (Cardinality(Below(b)) = n => Below(b) = S)
    <3> HIDE DEF Below
    <3> QED BY <1>1, <2>1, FS_Subset
  <2> QED BY <1>1, <2>1, <2>2, <2>3, <2>4
<1>4. ASSUME NEW b \in S, NEW c \in S, b < c
      PROVE  Cardinality(Below(b)) < Cardinality(Below(c))
  <2>1. Below(b) \in SUBSET Below(c) /\ b \in Below(c) /\ b \notin Below(b)
    <3>1. b \in Below(c) /\ b \notin Below(b)
      BY <1>2, <1>4
    <3>2. \A x \in S : x < b => x < c
      BY <1>2, <1>4
    <3> QED BY <3>1, <3>2
  <2> HIDE DEF Below
  <2>2. /\ Cardinality(Below(b)) <= Cardinality(Below(c))
        /\ Cardinality(Below(b)) = Cardinality(Below(c)) => Below(b) = Below(c)
    BY <1>3, <2>1, FS_Subset
  <2> QED BY <1>3, <2>1, <2>2
<1>5. rank \in Injection(S, 1 .. n)
  <2>1. rank \in [S -> 1 .. n]
    <3> HIDE DEF Below, n
    <3>1. \A b \in S : Cardinality(Below(b)) + 1 \in 1 .. n
      BY <1>1, <1>3 DEF n
    <3> QED BY <3>1
  <2>2. ASSUME NEW b \in S, NEW c \in S, rank[b] = rank[c] PROVE b = c
    <3>1. Cardinality(Below(b)) = Cardinality(Below(c))
      <4> HIDE DEF Below
      <4> QED BY <1>3, <2>2
    <3> HIDE DEF Below
    <3> QED BY <1>2, <1>3, <1>4, <3>1
  <2> HIDE DEF rank
  <2> QED BY <2>1, <2>2 DEF Injection, IsInjective
<1>6. rank \in Surjection(S, 1 .. n)
  <2>1. IsFiniteSet(1 .. n) /\ Cardinality(1 .. n) = n
    BY <1>1, FS_Interval
  <2> HIDE DEF rank
  <2> QED BY <1>5, <2>1, FS_Injection
<1>7. ASSUME NEW k \in 1 .. n
      PROVE  InOrder(S)[k] \in S /\ rank[InOrder(S)[k]] = k
  <2>1. \E b \in S : rank[b] = k
    <3> HIDE DEF rank
    <3> QED BY <1>6 DEF Surjection
  <2>2. \E b \in S : Cardinality(Below(b)) = k - 1
    <3> HIDE DEF Below
    <3> QED BY <1>3, <2>1
  <2>3. InOrder(S)[k] = CHOOSE b \in S : Cardinality(Below(b)) = k - 1
    BY DEF InOrder
  <2>4. InOrder(S)[k] \in S /\ Cardinality(Below(InOrder(S)[k])) = k - 1
    <3> HIDE DEF Below
    <3> QED BY <2>2, <2>3, Zenon
  <2> HIDE DEF Below
  <2> QED BY <1>3, <2>4
<1>8. InOrder(S) \in [1 .. n -> S]
  <2> DEFINE f(k) == CHOOSE b \in S : Cardinality({c \in S : c < b}) = k - 1
  <2>1. InOrder(S) = [k \in 1 .. n |-> f(k)]
    BY Zenon DEF InOrder
  <2>2. \A k \in 1 .. n : InOrder(S)[k] = f(k)
    <3> HIDE DEF f, n
    <3> QED BY <2>1
  <2>3. \A k \in 1 .. n : f(k) \in S
    <3> HIDE DEF f, n, rank
    <3> QED BY <1>7, <2>2
  <2> HIDE DEF f, n
  <2> QED BY <2>1, <2>3
<1>9. ASSUME NEW b \in S PROVE \E k \in 1 .. n : InOrder(S)[k] = b
  <2>1. rank[b] \in 1 .. n
    <3> HIDE DEF rank
    <3> QED BY <1>5 DEF Injection
  <2>2. /\ InOrder(S)[rank[b]] \in S
        /\ rank[InOrder(S)[rank[b]]] = rank[b]
    <3> HIDE DEF rank
    <3> QED BY <1>7, <2>1
  <2>3. InOrder(S)[rank[b]] = b
    <3> HIDE DEF rank
    <3> QED BY <1>5, <2>2 DEF Injection, IsInjective
  <2> HIDE DEF rank
  <2> QED BY <2>1, <2>3
<1>10. ASSUME NEW j \in 1 .. n, NEW k \in 1 .. n, j < k PROVE InOrder(S)[j] < InOrder(S)[k]
  <2> DEFINE b == InOrder(S)[j]
             c == InOrder(S)[k]
  <2>1. b \in S /\ c \in S /\ rank[b] = j /\ rank[c] = k
    <3> HIDE DEF rank
    <3> QED BY <1>7
  <2> HIDE DEF b, c
  <2>2. Cardinality(Below(b)) < Cardinality(Below(c))
    <3> HIDE DEF Below
    <3> QED BY <1>3, <1>10, <2>1
  <2>3. ~(c < b) /\ c # b
    <3> HIDE DEF Below
    <3> QED BY <1>3, <1>4, <2>1, <2>2
  <2>4. b < c
    BY <1>2, <2>1, <2>3
  <2> QED BY <2>4 DEF b, c
<1> QED BY <1>1, <1>8, <1>9, <1>10

(* The wiring that Init allows. *)
Wired ==
    /\ wired \in [first : Boards, zeroIds : SUBSET Boards, sync : SUBSET Boards,
                  external : SUBSET Boards, unread : {{}} \cup {{b} : b \in Boards}]
    /\ \/ wired.zeroIds \cap wired.sync = {wired.first}
       \/ wired.zeroIds \cap wired.sync = {} /\ \A b \in wired.sync : wired.first <= b
    /\ IF wired.sync = {} THEN wired.first = 1 ELSE wired.first \in wired.sync

LEMMA WiredType ==
    ASSUME Wired
    PROVE  /\ wired.first \in Boards /\ wired.sync \subseteq Boards
           /\ wired.external \subseteq Boards /\ wired.unread \subseteq Boards
BY DEF Wired

(* A set of boards that is not empty has a lowest one, and only one. *)
LEMMA LowestRight ==
    ASSUME NEW S \in SUBSET Boards, S # {}
    PROVE  /\ Lowest(S) \in S
           /\ \A b \in S : (\A c \in S : b <= c) => Lowest(S) = b
<1>1. S \subseteq Int
  BY DEF Boards
<1> DEFINE n == Cardinality(S)
           s == InOrder(S)
<1>2. /\ n \in Nat /\ s \in [1 .. n -> S] /\ \A b \in S : \E k \in 1 .. n : s[k] = b
      /\ \A j, k \in 1 .. n : j < k => s[j] < s[k]
  BY InOrderRight, Zenon
<1> HIDE DEF n, s
<1>3. 1 \in 1 .. n /\ s[1] \in S
  BY <1>2
<1>4. ASSUME NEW c \in S PROVE s[1] <= c
  <2>1. PICK k \in 1 .. n : s[k] = c
    BY <1>2
  <2>2. k = 1 \/ 1 < k
    BY <1>2
  <2>3. s[1] \in Int /\ s[k] \in Int
    BY <1>1, <1>2, <1>3
  <2>4. 1 < k => s[1] < s[k]
    BY <1>2, <1>3
  <2> QED BY <2>1, <2>2, <2>3, <2>4
<1>5. Lowest(S) \in S /\ \A c \in S : Lowest(S) <= c
  BY <1>3, <1>4, Zenon DEF Lowest
<1>6. ASSUME NEW b \in S, \A c \in S : b <= c PROVE Lowest(S) = b
  <2>1. b <= Lowest(S) /\ Lowest(S) <= b
    BY <1>5, <1>6
  <2>2. b \in Int /\ Lowest(S) \in Int
    BY <1>1, <1>5
  <2> QED BY <2>1, <2>2
<1> QED BY <1>5, <1>6

(* The master is a board, or there is no synchronised one. *)
LEMMA MasterType ==
    ASSUME Wired
    PROVE  /\ synced = wired.sync \ wired.unread
           /\ masterIndex \in synced \/ (masterIndex = 0 /\ synced = {})
<1>1. synced = wired.sync \ wired.unread
  BY WiredType DEF synced, synchronised
<1>2. synced \subseteq Boards
  BY <1>1, WiredType
<1>3. synced # {} => Lowest(synced) \in synced
  BY <1>2, LowestRight
<1>4. synced \cap wired.zeroIds # {} => Lowest(synced \cap wired.zeroIds) \in synced
  <2>1. synced \cap wired.zeroIds \in SUBSET Boards
    BY <1>2
  <2> QED BY <2>1, LowestRight
<1> QED BY <1>1, <1>3, <1>4, Zenon DEF masterIndex

(* Unless its register could not be read, the first board is the master.     *)
LEMMA MasterIsFirst ==
    ASSUME Wired, wired.first \notin wired.unread, wired.sync # {}
    PROVE  masterIndex = wired.first
<1>1. wired.first \in synced /\ synced \subseteq wired.sync /\ wired.sync \subseteq Boards
  <2>1. wired.first \in wired.sync
    BY DEF Wired
  <2> QED BY <2>1, MasterType, WiredType
<1>2. CASE wired.zeroIds \cap wired.sync = {wired.first}
  <2>1. synced \cap wired.zeroIds = {wired.first}
    BY <1>1, <1>2
  <2>2. Lowest({wired.first}) = wired.first
    <3>1. {wired.first} \in SUBSET Boards
      BY <1>1
    <3> QED BY <3>1, LowestRight
  <2> QED BY <1>1, <2>1, <2>2, Zenon DEF masterIndex
<1>3. CASE wired.zeroIds \cap wired.sync = {} /\ \A b \in wired.sync : wired.first <= b
  <2>1. synced \in SUBSET Boards /\ \A c \in synced : wired.first <= c
    BY <1>1, <1>3
  <2>2. Lowest(synced) = wired.first
    BY <1>1, <2>1, LowestRight
  <2>3. synced # {} /\ synced \cap wired.zeroIds = {}
    BY <1>1, <1>3
  <2> QED BY <2>2, <2>3, Zenon DEF masterIndex
<1> QED BY <1>2, <1>3 DEF Wired

(* Without a synchronised board whose register was read there is no master,  *)
(* and the first board is the lowest.                                        *)
LEMMA NoMaster ==
    ASSUME Wired, wired.first \notin wired.unread, masterIndex = 0
    PROVE  wired.first = 1
<1>1. wired.first # 0
  BY WiredType DEF Boards
<1>2. wired.sync = {}
  BY <1>1, MasterIsFirst
<1> QED BY <1>2 DEF Wired

(* The parts of the chain: the master, then the other boards in order. *)
Slaves == {b \in Boards : takesClock(b)} \ {masterIndex}

LEMMA ChainParts ==
    ASSUME Wired
    PROVE  \/ clockChainOrder = <<>> /\ {b \in Boards : takesClock(b)} = {}
           \/ masterIndex = 0 /\ clockChainOrder = InOrder(Slaves)
           \/ masterIndex \in Boards /\ clockChainOrder = <<masterIndex>> \o InOrder(Slaves)
<1>1. masterIndex = 0 \/ masterIndex \in Boards
  BY MasterType, WiredType
<1>2. InOrder(Slaves) \in Seq(Boards)
  <2>1. Slaves \in SUBSET Boards
    BY DEF Slaves
  <2>2. Cardinality(Slaves) \in Nat /\ InOrder(Slaves) \in [1 .. Cardinality(Slaves) -> Slaves]
    BY <2>1, InOrderRight
  <2> QED BY <2>1, <2>2, SeqDef
<1>3. <<>> \o InOrder(Slaves) = InOrder(Slaves)
  BY <1>2, ConcatEmptySeq
<1> QED BY <1>1, <1>3, Zenon DEF clockChainOrder, Slaves

(* What the walks along the chain need of it: every board comes once, no     *)
(* board is behind a later one on the cable, and a board on the clock of     *)
(* another one is in the chain if every register was read - unless it is the *)
(* only one on an external clock and no board is synchronised.               *)
Chained ==
    /\ clockChainOrder \in Seq(Boards)
    /\ \A j, k \in 1 .. Len(clockChainOrder) :
           j < k => clockChainOrder[j] # clockChainOrder[k]
    /\ wired.first \notin wired.unread =>
           \A j, k \in 1 .. Len(clockChainOrder) :
               j < k => clockChainOrder[j] \notin Behind(clockChainOrder[k])
    /\ wired.unread = {} =>
           \A b \in wired.external \ {wired.first} :
               (wired.sync # {} \/ wired.external # {b}) =>
                   /\ Len(clockChainOrder) >= 2
                   /\ \E k \in 1 .. Len(clockChainOrder) : clockChainOrder[k] = b

LEMMA ChainRight == Wired => Chained
<1> SUFFICES ASSUME Wired PROVE Chained
  OBVIOUS
<1> DEFINE s == InOrder(Slaves)
           n == Cardinality(Slaves)
           takers == {b \in Boards : takesClock(b)}
<1>1. Slaves \in SUBSET Boards /\ Boards \subseteq Int /\ masterIndex \notin Slaves
  BY DEF Slaves, Boards
<1>2. /\ n \in Nat /\ s \in [1 .. n -> Slaves] /\ \A b \in Slaves : \E k \in 1 .. n : s[k] = b
      /\ \A j, k \in 1 .. n : j < k => s[j] < s[k]
  BY <1>1, InOrderRight, Zenon
<1>3. wired.unread = {} =>
          /\ takers = wired.external
          /\ wired.sync # {} =>
                 masterIndex = wired.first /\ wired.external \ {wired.first} = Slaves
  BY MasterIsFirst, WiredType DEF Slaves, takesClock
<1>4. \A b, c : c \in Behind(b) => c # b /\ c # wired.first /\ (b = wired.first \/ c > b)
  BY DEF Behind
<1>5. CASE clockChainOrder = <<>> /\ takers = {}
  <2>1. Slaves = {}
    BY <1>5 DEF Slaves
  <2> HIDE DEF s, n, takers
  <2> QED BY <1>3, <1>5, <2>1 DEF Chained
<1>6. CASE masterIndex = 0 /\ clockChainOrder = s
  <2>1. s \in Seq(Boards) /\ Len(s) = n
    <3> HIDE DEF s, n
    <3>1. s \in [1 .. n -> Boards]
      BY <1>1, <1>2
    <3> QED BY <1>2, <3>1, LenProperties, SeqDef
  <2>2. wired.unread = {} => wired.sync = {} /\ Slaves = wired.external
    <3>1. 0 \notin Boards
      BY DEF Boards
    <3> QED BY <1>3, <1>6, <3>1, WiredType DEF Slaves
  <2>3. wired.first \notin wired.unread => wired.first = 1
    BY <1>6, NoMaster
  <2> HIDE DEF s, n, takers
  <2>4. ASSUME NEW j \in 1 .. n, NEW k \in 1 .. n, j < k
        PROVE  s[j] # s[k] /\ (wired.first = 1 => s[j] \notin Behind(s[k]))
    <3>1. s[j] < s[k] /\ s[j] \in Boards /\ s[k] \in Boards
      BY <1>1, <1>2, <2>4
    <3> QED BY <1>4, <3>1 DEF Boards
  <2>5. ASSUME wired.unread = {}, NEW b \in wired.external \ {wired.first},
               wired.sync # {} \/ wired.external # {b}
        PROVE  n >= 2 /\ \E k \in 1 .. n : s[k] = b
    <3>1. PICK c \in wired.external : c # b
      BY <2>2, <2>5
    <3>2. b \in Slaves /\ c \in Slaves
      BY <2>2, <2>5
    <3>3. PICK k \in 1 .. n : s[k] = b
      BY <1>2, <3>2
    <3>4. PICK j \in 1 .. n : s[j] = c
      BY <1>2, <3>2
    <3>5. j # k
      BY <3>1, <3>3, <3>4
    <3> QED BY <1>2, <3>3, <3>5
  <2> QED BY <1>6, <2>1, <2>3, <2>4, <2>5 DEF Chained
<1>7. CASE masterIndex \in Boards /\ clockChainOrder = <<masterIndex>> \o s
  <2>1. s \in Seq(Boards) /\ Len(s) = n
    <3> HIDE DEF s, n
    <3>1. s \in [1 .. n -> Boards]
      BY <1>1, <1>2
    <3> QED BY <1>2, <3>1, LenProperties, SeqDef
  <2>2. /\ <<masterIndex>> \in Seq(Boards) /\ Len(<<masterIndex>>) = 1
        /\ <<masterIndex>>[1] = masterIndex
    BY <1>7
  <2> HIDE DEF s, n, takers
  <2>3. /\ clockChainOrder \in Seq(Boards) /\ Len(clockChainOrder) = 1 + n
        /\ \A k \in 1 .. 1 + n : clockChainOrder[k] = IF k <= 1 THEN masterIndex ELSE s[k - 1]
    BY <1>7, <2>1, <2>2, ConcatProperties
  <2>4. wired.first \notin wired.unread => masterIndex = wired.first
    <3>1. wired.sync # {}
      <4>1. masterIndex # 0
        BY <1>7 DEF Boards
      <4> QED BY <4>1, MasterType
    <3> QED BY <3>1, MasterIsFirst
  <2>5. ASSUME NEW j \in 1 .. 1 + n, NEW k \in 1 .. 1 + n, j < k
        PROVE  /\ clockChainOrder[j] # clockChainOrder[k]
               /\ wired.first \notin wired.unread =>
                      clockChainOrder[j] \notin Behind(clockChainOrder[k])
    <3>1. k - 1 \in 1 .. n /\ clockChainOrder[k] = s[k - 1] /\ s[k - 1] \in Slaves
      BY <1>2, <2>3, <2>5
    <3>2. CASE j = 1
      <4>1. clockChainOrder[j] = masterIndex
        BY <2>3, <3>2
      <4> QED BY <1>1, <1>4, <2>4, <3>1, <4>1
    <3>3. CASE j > 1
      <4>1. j - 1 \in 1 .. n /\ clockChainOrder[j] = s[j - 1] /\ s[j - 1] \in Slaves
            /\ j - 1 < k - 1
        BY <1>2, <2>3, <2>5, <3>3
      <4>2. s[j - 1] < s[k - 1] /\ s[j - 1] \in Int /\ s[k - 1] \in Int
        BY <1>1, <1>2, <3>1, <4>1
      <4> QED BY <1>1, <1>4, <2>4, <3>1, <4>1, <4>2
    <3> QED BY <3>2, <3>3
  <2>6. ASSUME NEW b \in Slaves
        PROVE  n >= 1 /\ \E k \in 1 .. 1 + n : clockChainOrder[k] = b
    <3>1. PICK k \in 1 .. n : s[k] = b
      BY <1>2
    <3>2. k + 1 \in 1 .. 1 + n /\ clockChainOrder[k + 1] = b
      BY <1>2, <2>3, <3>1
    <3> QED BY <1>2, <3>1, <3>2
  <2>7. ASSUME wired.unread = {}, NEW b \in wired.external \ {wired.first}
        PROVE  /\ Len(clockChainOrder) >= 2
               /\ \E k \in 1 .. Len(clockChainOrder) : clockChainOrder[k] = b
    <3>1. b \in Slaves
      <4>1. wired.sync # {}
        <5>1. masterIndex # 0
          BY <1>7 DEF Boards
        <5> QED BY <5>1, MasterType
      <4> QED BY <1>3, <2>7, <4>1
    <3>2. n >= 1 /\ \E k \in 1 .. 1 + n : clockChainOrder[k] = b
      BY <2>6, <3>1
    <3> QED BY <1>2, <2>3, <3>2
  <2>8. \A j, k \in 1 .. Len(clockChainOrder) :
            j < k => clockChainOrder[j] # clockChainOrder[k]
    BY <2>3, <2>5
  <2>9. wired.first \notin wired.unread =>
            \A j, k \in 1 .. Len(clockChainOrder) :
                j < k => clockChainOrder[j] \notin Behind(clockChainOrder[k])
    BY <2>3, <2>5
  <2> QED BY <2>3, <2>7, <2>8, <2>9, Zenon DEF Chained
<1> QED BY <1>5, <1>6, <1>7, ChainParts
-----------------------------------------------------------------------------
(* The inductive invariant *)

LockStates == [synced : BOOLEAN, statusRead : BOOLEAN, ready : BOOLEAN, stable : BOOLEAN,
               external : BOOLEAN]

(* Type correctness; a board is not polled beyond its timeout. *)
TypeOK ==
    /\ Wired
    /\ at \in {"align", "write", "settle", "poll", "rearm", "check", "arm", "trigger", "up"}
    /\ polls \in 0 .. MaxPolls
    /\ state \in [Boards -> LockStates]
    /\ moving \in Boards \cup {0}
    /\ locked \in SUBSET Boards
    /\ latch \in SUBSET Boards
    /\ phase \in SUBSET Boards
    /\ acq \in [Boards -> {"stopped", "armed", "running"}]
    /\ faults \in Nat
    /\ unlocks \in Nat
    /\ outside \in SUBSET Boards

Walking == at \in {"write", "settle", "poll", "rearm", "check"}

(* The walks stay on the chain and arming on the list of boards; no clock    *)
(* output moves outside of the settling time.                                *)
Positions ==
    /\ Walking => i \in 1 .. Len(clockChainOrder)
    /\ at = "arm" => i \in Boards
    /\ at \in {"align", "trigger", "up"} => i = 1
    /\ at # "settle" => moving = 0

(* b is before the board the walk is at. *)
Passed(b) == \E k \in 1 .. Len(clockChainOrder) : k < i /\ clockChainOrder[k] = b

(* The first walk has written the boards it has passed, and no other. *)
SyncedPassed ==
    \A b \in Boards : state[b].synced =>
        /\ at # "align"
        /\ at = "write" => Passed(b)
        /\ at = "settle" => Passed(b) \/ b = board

(* The check of b is over. *)
Checked(b) == /\ at \notin {"align", "write", "settle"}
              /\ at \in {"poll", "rearm", "check"} => Passed(b)

(* A re-aligned board that lost its phase inside its window has its latch    *)
(* cleared until the last read, and is not reported as stable after it.      *)
Aligned ==
    wired.first \notin wired.unread =>
        \A b \in Boards : (state[b].synced /\ b \notin outside /\ b \notin phase) =>
            \/ at = "check" /\ b = board /\ b \notin latch
            \/ Checked(b) /\ ~(state[b].statusRead /\ state[b].stable)

(* The last read found b as it is. *)
Found(b) == /\ state[b].statusRead /\ state[b].ready /\ state[b].stable
            /\ state[b].external <=> b \in wired.external

(* Without a failed access and a lost lock both walks do all of their work.  *)
Healthy ==
    /\ faults = 0 => wired.unread = {}
    /\ unlocks = 0 => locked = Boards /\ outside = {}
    /\ faults = 0 /\ unlocks = 0 =>
        /\ at = "write" => \A b \in Boards : Passed(b) => state[b].synced
        /\ at = "settle" => \A b \in Boards : Passed(b) \/ b = board => state[b].synced
        /\ at \in {"poll", "rearm", "check"} =>
               /\ \A k \in 1 .. Len(clockChainOrder) : state[clockChainOrder[k]].synced
               /\ \A b \in Boards : Passed(b) => Found(b)
        /\ at \in {"rearm", "check"} => state[board].statusRead
        /\ at = "check" => board \in latch
        /\ ~Aligning => \/ Len(clockChainOrder) < 2
                        \/ \A k \in 1 .. Len(clockChainOrder) :
                               /\ state[clockChainOrder[k]].synced
                               /\ Found(clockChainOrder[k])

(* A board that has been armed waits if it is synchronised, and runs if not. *)
Armed(b) == acq[b] = IF b \in wired.sync THEN "armed" ELSE "running"

Starting ==
    /\ at = "arm" => \A b \in Boards : b < i => Armed(b)
    /\ at = "trigger" => \A b \in Boards : Armed(b)
    /\ (at = "up" /\ wired.first \notin wired.unread) => \A b \in Boards : acq[b] = "running"

ChainInv == TypeOK /\ Positions /\ SyncedPassed /\ Aligned /\ Healthy /\ Starting
-----------------------------------------------------------------------------
(* Actions *)

(* No step changes the wiring, and with it the chain. *)
LEMMA SameWiring ==
    ASSUME wired' = wired
    PROVE  /\ clockChainOrder' = clockChainOrder /\ masterIndex' = masterIndex
           /\ Wired => Wired'
           /\ \A b : Behind(b)' = Behind(b)
BY Zenon DEF clockChainOrder, masterIndex, takesClock, synced, synchronised, Wired, Behind

LEMMA WiredStays == ASSUME Next PROVE wired' = wired
BY DEF Next, Align, AlignBegin, WriteSync, Settle, Poll, Rearm, Check, Unlock, Relock, Arm, Trigger

(* The board of a walk is a board. *)
LEMMA BoardType ==
    ASSUME Wired, NEW k \in 1 .. Len(clockChainOrder)
    PROVE  clockChainOrder[k] \in Boards /\ Len(clockChainOrder) \in Nat
BY ChainRight, ElementOfSeq, LenProperties DEF Chained

(* Changing fields of one board's record. *)
LEMMA FieldUpdates ==
    ASSUME NEW r \in LockStates, NEW x \in BOOLEAN, NEW y \in BOOLEAN, NEW z \in BOOLEAN
    PROVE  /\ [r EXCEPT !.synced = x] \in LockStates
           /\ [r EXCEPT !.statusRead = x] \in LockStates
           /\ [r EXCEPT !.ready = x, !.stable = y, !.external = z] \in LockStates
BY Zenon DEF LockStates

LEMMA FieldValues ==
    ASSUME NEW r \in LockStates, NEW x \in BOOLEAN, NEW y \in BOOLEAN, NEW z \in BOOLEAN
    PROVE  /\ [r EXCEPT !.synced = x].synced = x
           /\ [r EXCEPT !.synced = x].statusRead = r.statusRead
           /\ [r EXCEPT !.synced = x].stable = r.stable
           /\ [r EXCEPT !.statusRead = x].synced = r.synced
           /\ [r EXCEPT !.statusRead = x].statusRead = x
           /\ [r EXCEPT !.ready = x, !.stable = y, !.external = z].synced = r.synced
           /\ [r EXCEPT !.ready = x, !.stable = y, !.external = z].statusRead = r.statusRead
           /\ [r EXCEPT !.ready = x, !.stable = y, !.external = z].ready = x
           /\ [r EXCEPT !.ready = x, !.stable = y, !.external = z].stable = y
           /\ [r EXCEPT !.ready = x, !.stable = y, !.external = z].external = z
BY DEF LockStates

(* Replacing the record of one board. *)
LEMMA Replaced ==
    ASSUME NEW f \in [Boards -> LockStates], NEW b \in Boards, NEW r \in LockStates
    PROVE  /\ [f EXCEPT ![b] = r] \in [Boards -> LockStates]
           /\ [f EXCEPT ![b] = r][b] = r
           /\ \A c \in Boards \ {b} : [f EXCEPT ![b] = r][c] = f[c]
OBVIOUS

(* Where the next board of a walk is. *)
Onward(again, then) ==
    \/ i < Len(clockChainOrder) /\ at' = again /\ i' = i + 1
    \/ i = Len(clockChainOrder) /\ at' = then /\ i' = 1

(* The facts a step of a walk is looked at by. *)
LEMMA WalkFacts ==
    ASSUME TypeOK, Positions, Walking, Next
    PROVE  /\ i \in 1 .. Len(clockChainOrder) /\ Len(clockChainOrder) \in Nat
           /\ board \in Boards
           /\ clockChainOrder' = clockChainOrder
           /\ state \in [Boards -> LockStates] /\ state[board] \in LockStates
<1>1. i \in 1 .. Len(clockChainOrder) /\ Wired
  BY DEF Positions, TypeOK
<1>2. board \in Boards /\ Len(clockChainOrder) \in Nat
  BY <1>1, BoardType DEF board
<1>3. clockChainOrder' = clockChainOrder
  BY WiredStays, SameWiring
<1>4. state \in [Boards -> LockStates]
  BY DEF TypeOK
<1> QED BY <1>1, <1>2, <1>3, <1>4

(* WriteSync writes the board's register, or its access fails. *)
LEMMA WriteEffect ==
    ASSUME TypeOK, Positions, WriteSync
    PROVE  /\ at = "write" /\ at' = "settle" /\ i' = i /\ polls' = polls
           /\ UNCHANGED <<wired, locked, acq, unlocks>>
           /\ state' \in [Boards -> LockStates]
           /\ \A c \in Boards \ {board} : state'[c] = state[c]
           /\ \/ /\ state'[board].synced
                 /\ moving' = board /\ faults' = faults
                 /\ latch' = latch \ Behind(board)
                 /\ phase' = (phase \ Behind(board))
                             \cup (IF board \in locked THEN {board} ELSE {})
                 /\ outside' = outside \cup ({board} \ locked)
              \/ /\ state' = state /\ faults' = faults + 1
                 /\ UNCHANGED <<moving, latch, phase, outside>>
<1>1. at = "write" /\ Walking /\ Next
  BY DEF WriteSync, Walking, Next, Align
<1>2. moving = 0
  BY <1>1 DEF Positions
<1> DEFINE r == [state[board] EXCEPT !.synced = TRUE]
           new == [state EXCEPT ![board].synced = TRUE]
<1>3. /\ new \in [Boards -> LockStates] /\ new[board].synced
      /\ \A c \in Boards \ {board} : new[c] = state[c]
  <2>1. r \in LockStates /\ r.synced
    BY <1>1, WalkFacts, FieldUpdates, FieldValues
  <2>2. new = [state EXCEPT ![board] = r]
    OBVIOUS
  <2> HIDE DEF r, new
  <2> QED BY <1>1, <2>1, <2>2, WalkFacts, Replaced
<1>4. \/ /\ state' = new
         /\ moving' = board /\ faults' = faults
         /\ latch' = latch \ Behind(board)
         /\ phase' = (phase \ Behind(board)) \cup (IF board \in locked THEN {board} ELSE {})
         /\ outside' = outside \cup ({board} \ locked)
      \/ /\ state' = state /\ faults' = faults + 1
         /\ UNCHANGED <<moving, latch, phase, outside>>
  BY <1>2, Zenon DEF WriteSync, Fault
<1>5. state \in [Boards -> LockStates]
  BY DEF TypeOK
<1>6. at' = "settle" /\ i' = i /\ polls' = polls /\ UNCHANGED <<wired, locked, acq, unlocks>>
  BY DEF WriteSync
<1> HIDE DEF new
<1> QED BY <1>1, <1>3, <1>4, <1>5, <1>6

(* Settle waits for the clock output to settle. *)
LEMMA SettleEffect ==
    ASSUME TypeOK, Positions, Settle
    PROVE  /\ at = "settle" /\ Onward("write", "poll") /\ moving' = 0
           /\ UNCHANGED <<wired, polls, state, locked, latch, phase, acq, faults, unlocks, outside>>
<1>1. at = "settle" /\ Walking /\ Next
  BY DEF Settle, Walking, Next, Align
<1>2. i \in 1 .. Len(clockChainOrder) /\ Len(clockChainOrder) \in Nat
  BY <1>1, WalkFacts
<1> QED BY <1>1, <1>2 DEF Settle, NextInChain, Onward

(* Poll reads the status or fails to; it ends with the board ready, stays, or  *)
(* ends with the time, which leaves a board whose status was never read.       *)
LEMMA PollEffect ==
    ASSUME TypeOK, Positions, Poll
    PROVE  /\ at = "poll" /\ UNCHANGED <<wired, hwVars, acq, unlocks, outside>>
           /\ polls' \in 0 .. MaxPolls
           /\ state' \in [Boards -> LockStates]
           /\ \A c \in Boards \ {board} : state'[c] = state[c]
           /\ state'[board].synced = state[board].synced
           /\ \/ faults' = faults /\ state'[board].statusRead
              \/ faults' = faults + 1 /\ state' = state
           /\ \/ at' = "rearm" /\ i' = i /\ state'[board].statusRead
              \/ /\ at' = "poll" /\ i' = i
                 /\ ~(board \in locked /\ faults' = faults)
              \/ /\ Onward("poll", "arm")
                 /\ ~(board \in locked /\ faults' = faults)
<1>1. at = "poll" /\ Walking /\ Next
  BY DEF Poll, Walking, Next, Align
<1>2. i \in 1 .. Len(clockChainOrder) /\ Len(clockChainOrder) \in Nat
  BY <1>1, WalkFacts
<1>3. UNCHANGED <<wired, hwVars, acq, unlocks, outside>>
  BY DEF Poll
<1> DEFINE new(read) == [state EXCEPT ![board].statusRead = @ \/ read]
<1>4. PICK read \in BOOLEAN :
          /\ IF read THEN UNCHANGED faults ELSE Fault
          /\ state' = new(read)
          /\ \/ read /\ board \in locked /\ at' = "rearm" /\ polls' = 0 /\ UNCHANGED i
             \/ /\ ~(read /\ board \in locked)
                /\ polls < MaxPolls
                /\ polls' = polls + 1
                /\ UNCHANGED <<at, i>>
             \/ /\ ~(read /\ board \in locked)
                /\ polls = MaxPolls
                /\ polls' = 0
                /\ IF state'[board].statusRead THEN at' = "rearm" /\ UNCHANGED i
                   ELSE NextInChain("poll", "arm")
  BY Zenon DEF Poll
<1> DEFINE was == state[board].statusRead
           seen == was \/ read
           r == [state[board] EXCEPT !.statusRead = seen]
<1>5. was \in BOOLEAN /\ seen \in BOOLEAN
  <2>1. state[board] \in LockStates
    BY <1>1, WalkFacts
  <2>2. was \in BOOLEAN
    BY <2>1 DEF LockStates
  <2> QED BY <2>2
<1>6. /\ state' = [state EXCEPT ![board] = r]
      /\ r \in LockStates /\ r.synced = state[board].synced /\ r.statusRead = seen
  <2>1. state' = [state EXCEPT ![board] = r]
    BY <1>4
  <2>2. state[board] \in LockStates
    BY <1>1, WalkFacts
  <2> HIDE DEF seen
  <2>3. r \in LockStates
    BY <1>5, <2>2, FieldUpdates, Zenon
  <2>4. r.synced = state[board].synced /\ r.statusRead = seen
    BY <1>5, <2>2, FieldValues
  <2> QED BY <2>1, <2>3, <2>4
<1>7. ~read => r = state[board]
  <2>1. state[board] \in LockStates
    BY <1>1, WalkFacts
  <2>2. ~read => r = [state[board] EXCEPT !.statusRead = state[board].statusRead]
    <3>1. ~read => (was \/ read) = was
      BY <1>5
    <3> QED BY <3>1
  <2>3. \A q \in LockStates : [q EXCEPT !.statusRead = q.statusRead] = q
    BY DEF LockStates
  <2> QED BY <2>1, <2>2, <2>3
<1> HIDE DEF r
<1>8. /\ state' \in [Boards -> LockStates] /\ state'[board] = r
      /\ \A c \in Boards \ {board} : state'[c] = state[c]
  BY <1>1, <1>6, WalkFacts, Replaced
<1>9. ~read => state' = state
  <2>1. state \in [Boards -> LockStates]
    BY DEF TypeOK
  <2> QED BY <1>6, <1>7, <2>1
<1>10. /\ polls' \in 0 .. MaxPolls
       /\ \/ read /\ faults' = faults
          \/ ~read /\ faults' = faults + 1
       /\ faults \in Nat
  <2>1. polls \in 0 .. MaxPolls /\ MaxPolls \in Nat /\ faults \in Nat
    BY ChainAssumption DEF TypeOK
  <2> QED BY <1>4, <2>1 DEF Fault
<1>11. read => state'[board].statusRead
  BY <1>6, <1>8
<1>12. \/ at' = "rearm" /\ i' = i /\ state'[board].statusRead
       \/ at' = "poll" /\ i' = i /\ ~(board \in locked /\ faults' = faults)
       \/ Onward("poll", "arm") /\ ~(board \in locked /\ faults' = faults)
  <2>1. CASE read /\ board \in locked /\ at' = "rearm" /\ UNCHANGED i
    BY <1>11, <2>1
  <2>2. ~(read /\ board \in locked) => ~(board \in locked /\ faults' = faults)
    BY <1>10
  <2>3. CASE ~(read /\ board \in locked) /\ UNCHANGED <<at, i>>
    BY <1>1, <2>2, <2>3
  <2>4. CASE ~(read /\ board \in locked) /\ state'[board].statusRead
             /\ at' = "rearm" /\ UNCHANGED i
    BY <2>4
  <2>5. CASE ~(read /\ board \in locked) /\ NextInChain("poll", "arm")
    BY <1>2, <2>2, <2>5 DEF NextInChain, Onward
  <2> QED BY <1>4, <2>1, <2>3, <2>4, <2>5, Zenon
<1> QED BY <1>1, <1>3, <1>6, <1>8, <1>9, <1>10, <1>11, <1>12

(* Rearm begins the board's window. *)
LEMMA RearmEffect ==
    ASSUME TypeOK, Positions, Rearm
    PROVE  /\ at = "rearm" /\ at' = "check" /\ i' = i
           /\ UNCHANGED <<wired, polls, state, moving, locked, phase, acq, unlocks, outside>>
           /\ \/ latch' = latch \cup ({board} \cap locked) /\ faults' = faults
              \/ latch' = latch /\ faults' = faults + 1
BY DEF Rearm, Fault

(* Check takes the last read, or drops the one before. *)
LEMMA CheckEffect ==
    ASSUME TypeOK, Positions, Check
    PROVE  /\ at = "check" /\ Onward("poll", "arm")
           /\ UNCHANGED <<wired, polls, hwVars, acq, unlocks, outside>>
           /\ state' \in [Boards -> LockStates]
           /\ \A c \in Boards \ {board} : state'[c] = state[c]
           /\ state'[board].synced = state[board].synced
           /\ \/ /\ faults' = faults
                 /\ state'[board].statusRead = state[board].statusRead
                 /\ state'[board].ready = (board \in locked)
                 /\ state'[board].stable = (board \in latch)
                 /\ state'[board].external = (board \in wired.external)
              \/ faults' = faults + 1 /\ ~state'[board].statusRead
<1>1. at = "check" /\ Walking /\ Next
  BY DEF Check, Walking, Next, Align
<1>2. i \in 1 .. Len(clockChainOrder) /\ Len(clockChainOrder) \in Nat
  BY <1>1, WalkFacts
<1>3. Onward("poll", "arm") /\ UNCHANGED <<wired, polls, hwVars, acq, unlocks, outside>>
  BY <1>2 DEF Check, NextInChain, Onward
<1> DEFINE q == [state[board] EXCEPT !.ready = board \in locked, !.stable = board \in latch,
                                     !.external = board \in wired.external]
           r == [state[board] EXCEPT !.statusRead = FALSE]
           new == [state EXCEPT ![board] = [@ EXCEPT !.ready = board \in locked,
                                                     !.stable = board \in latch,
                                                     !.external = board \in wired.external]]
           old == [state EXCEPT ![board].statusRead = FALSE]
<1>4. /\ q \in LockStates
      /\ q.synced = state[board].synced /\ q.statusRead = state[board].statusRead
      /\ q.ready = (board \in locked) /\ q.stable = (board \in latch)
      /\ q.external = (board \in wired.external)
  <2> DEFINE x == board \in locked
             y == board \in latch
             z == board \in wired.external
  <2>1. x \in BOOLEAN /\ y \in BOOLEAN /\ z \in BOOLEAN
    OBVIOUS
  <2>2. state[board] \in LockStates
    BY <1>1, WalkFacts
  <2>3. q = [state[board] EXCEPT !.ready = x, !.stable = y, !.external = z]
    OBVIOUS
  <2> HIDE DEF x, y, z, q
  <2>4. q \in LockStates
    BY <2>1, <2>2, <2>3, FieldUpdates, Zenon
  <2>5. q.synced = state[board].synced /\ q.statusRead = state[board].statusRead
    BY <2>1, <2>2, <2>3, FieldValues
  <2>6. q.ready = x /\ q.stable = y /\ q.external = z
    BY <2>1, <2>2, <2>3, FieldValues
  <2> QED BY <2>4, <2>5, <2>6 DEF x, y, z
<1>5. r \in LockStates /\ r.synced = state[board].synced /\ ~r.statusRead
  BY <1>1, WalkFacts, FieldUpdates, FieldValues
<1>6. new = [state EXCEPT ![board] = q] /\ old = [state EXCEPT ![board] = r]
  OBVIOUS
<1>7. \/ state' = new /\ faults' = faults
      \/ state' = old /\ faults' = faults + 1
  <2>1. \/ state' = new /\ UNCHANGED faults
        \/ Fault /\ state' = old
    BY DEF Check
  <2> HIDE DEF new, old
  <2> QED BY <2>1 DEF Fault
<1> HIDE DEF q, r, new, old
<1>8. CASE state' = new /\ faults' = faults
  <2>1. /\ state' \in [Boards -> LockStates] /\ state'[board] = q
        /\ \A c \in Boards \ {board} : state'[c] = state[c]
    BY <1>1, <1>4, <1>6, <1>8, WalkFacts, Replaced
  <2> QED BY <1>1, <1>3, <1>4, <1>8, <2>1, Zenon
<1>9. CASE state' = old /\ faults' = faults + 1
  <2>1. /\ state' \in [Boards -> LockStates] /\ state'[board] = r
        /\ \A c \in Boards \ {board} : state'[c] = state[c]
    BY <1>1, <1>5, <1>6, <1>9, WalkFacts, Replaced
  <2> QED BY <1>1, <1>3, <1>5, <1>9, <2>1, Zenon
<1> QED BY <1>7, <1>8, <1>9
(* What passing a board of the chain means to the ones before it. *)
LEMMA PassedFacts ==
    ASSUME TypeOK, Positions, Walking, Next
    PROVE  /\ i' = i => \A b : Passed(b)' <=> Passed(b)
           /\ i' = i + 1 /\ i < Len(clockChainOrder) =>
                  \A b : Passed(b)' <=> (Passed(b) \/ b = board)
           /\ \A b : Passed(b) => /\ b # board
                                  /\ wired.first \notin wired.unread => b \notin Behind(board)
           /\ i = Len(clockChainOrder) =>
                  \A k \in 1 .. Len(clockChainOrder) :
                      clockChainOrder[k] = board \/ Passed(clockChainOrder[k])
<1> DEFINE n == Len(clockChainOrder)
           c == clockChainOrder
<1>1. /\ i \in 1 .. n /\ n \in Nat
      /\ clockChainOrder' = clockChainOrder
  BY WalkFacts
<1>2. \A b : Passed(b)' <=> \E k \in 1 .. n : k < i' /\ c[k] = b
  BY <1>1 DEF Passed
<1>3. /\ \A j, k \in 1 .. n : j < k => c[j] # c[k]
      /\ wired.first \notin wired.unread =>
             \A j, k \in 1 .. n : j < k => c[j] \notin Behind(c[k])
  BY ChainRight, Zenon DEF Chained, TypeOK
<1>4. \A b : Passed(b) <=> \E k \in 1 .. n : k < i /\ c[k] = b
  BY DEF Passed
<1> HIDE DEF n, c
<1>5. board = c[i]
  BY DEF board, c
<1>6. i' = i => \A b : Passed(b)' <=> Passed(b)
  BY <1>2, <1>4
<1>7. i' = i + 1 /\ i < n => \A b : Passed(b)' <=> (Passed(b) \/ b = board)
  <2> SUFFICES ASSUME i' = i + 1, i < n, NEW b
               PROVE  Passed(b)' <=> (Passed(b) \/ b = board)
    OBVIOUS
  <2>1. \A k \in 1 .. n : k < i' <=> (k < i \/ k = i)
    BY <1>1
  <2> QED BY <1>1, <1>2, <1>4, <1>5, <2>1
<1>8. ASSUME NEW b, Passed(b)
      PROVE  b # board /\ (wired.first \notin wired.unread => b \notin Behind(board))
  BY <1>1, <1>3, <1>4, <1>5, <1>8
<1>9. i = n => \A k \in 1 .. n : c[k] = board \/ Passed(c[k])
  <2> SUFFICES ASSUME i = n, NEW k \in 1 .. n PROVE c[k] = board \/ Passed(c[k])
    OBVIOUS
  <2>1. k = i \/ k < i
    BY <1>1
  <2> QED BY <1>4, <1>5, <2>1
<1> QED BY <1>6, <1>7, <1>8, <1>9 DEF n, c

-----------------------------------------------------------------------------
(* Type correctness *)

LEMMA TypeStep == ASSUME TypeOK, Positions, Next PROVE TypeOK'
<1>1. wired' = wired /\ Wired'
  BY WiredStays, SameWiring DEF TypeOK
<1>2. CASE AlignBegin
  BY <1>1, <1>2, Zenon DEF AlignBegin, TypeOK, hwVars
<1>3. CASE WriteSync
  <2>1. board \in Boards
    <3>1. Walking
      BY <1>3, WriteEffect DEF Walking
    <3> QED BY <3>1, WalkFacts
  <2>2. /\ at' = "settle" /\ UNCHANGED <<locked, acq, unlocks, polls>>
        /\ state' \in [Boards -> LockStates]
        /\ moving' \in Boards \cup {0} /\ faults' \in Nat
        /\ latch' \in SUBSET Boards /\ phase' \in SUBSET Boards /\ outside' \in SUBSET Boards
    BY <1>3, <2>1, WriteEffect DEF TypeOK
  <2> QED BY <1>1, <2>2, Zenon DEF TypeOK
<1>4. CASE Settle
  <2>1. /\ at' \in {"write", "poll"} /\ moving' = 0
        /\ UNCHANGED <<wired, polls, state, locked, latch, phase, acq, faults, unlocks, outside>>
    BY <1>4, SettleEffect DEF Onward
  <2> QED BY <1>1, <2>1, Zenon DEF TypeOK
<1>5. CASE Poll
  <2>1. /\ at' \in {"rearm", "poll", "arm"} /\ polls' \in 0 .. MaxPolls /\ faults' \in Nat
        /\ state' \in [Boards -> LockStates] /\ UNCHANGED <<hwVars, acq, unlocks, outside>>
    BY <1>5, PollEffect DEF Onward, TypeOK
  <2> QED BY <1>1, <2>1, Zenon DEF TypeOK, hwVars
<1>6. CASE Rearm
  <2>1. /\ at' = "check" /\ faults' \in Nat /\ latch' \in SUBSET Boards
        /\ UNCHANGED <<polls, state, moving, locked, phase, acq, unlocks, outside>>
    BY <1>6, RearmEffect DEF TypeOK
  <2> QED BY <1>1, <2>1, Zenon DEF TypeOK
<1>7. CASE Check
  <2>1. /\ at' \in {"poll", "arm"} /\ faults' \in Nat
        /\ state' \in [Boards -> LockStates] /\ UNCHANGED <<polls, hwVars, acq, unlocks, outside>>
    BY <1>7, CheckEffect DEF Onward, TypeOK
  <2> QED BY <1>1, <2>1, Zenon DEF TypeOK, hwVars
<1>8. CASE Unlock
  <2>1. PICK b \in locked :
            /\ locked' = locked \ {b}
            /\ Disturb({b} \cup Behind(b))
            /\ outside' = outside \cup {c \in {b} \cup Behind(b) :
                                           state[c].synced /\ ~(at = "check" /\ c = board)}
    BY <1>8, Zenon DEF Unlock
  <2>2. /\ UNCHANGED <<wired, at, i, polls, state, moving, acq, faults>>
        /\ unlocks' \in Nat
    BY <1>8 DEF Unlock, TypeOK
  <2>3. Behind(b) \subseteq Boards /\ b \in Boards
    BY WiredType DEF Behind, TypeOK
  <2>4. /\ locked' \in SUBSET Boards /\ latch' \in SUBSET Boards /\ phase' \in SUBSET Boards
        /\ outside' \in SUBSET Boards
    BY <2>1, <2>3 DEF Disturb, TypeOK
  <2> QED BY <1>1, <2>2, <2>4, Zenon DEF TypeOK
<1>9. CASE Relock
  <2>1. /\ locked' = Boards
        /\ UNCHANGED <<at, i, polls, state, moving, latch, phase, acq, faults, unlocks, outside>>
    BY <1>9 DEF Relock
  <2> QED BY <1>1, <2>1 DEF TypeOK
<1>10. CASE Arm
  <2>1. acq' \in [Boards -> {"stopped", "armed", "running"}]
    BY <1>10 DEF Arm, TypeOK
  <2>2. at' \in {"arm", "trigger"} /\ UNCHANGED <<polls, state, hwVars, faults, unlocks, outside>>
    BY <1>10 DEF Arm
  <2> QED BY <1>1, <2>1, <2>2, Zenon DEF TypeOK, hwVars
<1>11. CASE Trigger
  <2>1. acq' \in [Boards -> {"stopped", "armed", "running"}]
    BY <1>11 DEF Trigger, TypeOK
  <2>2. at' = "up" /\ UNCHANGED <<polls, state, hwVars, faults, unlocks, outside>>
    BY <1>11 DEF Trigger
  <2> QED BY <1>1, <2>1, <2>2, Zenon DEF TypeOK, hwVars
<1> QED
  BY <1>2, <1>3, <1>4, <1>5, <1>6, <1>7, <1>8, <1>9, <1>10, <1>11, Zenon DEF Next, Align

LEMMA PositionsStep == ASSUME TypeOK, Positions, Next PROVE Positions'
<1>1. /\ clockChainOrder' = clockChainOrder
      /\ Len(clockChainOrder) \in Nat
  <2>1. Len(clockChainOrder) \in Nat
    BY ChainRight, LenProperties DEF Chained, TypeOK
  <2> QED BY <2>1, WiredStays, SameWiring
<1>2. Walking => i \in 1 .. Len(clockChainOrder)
  BY DEF Positions
<1>3. 1 \in Boards /\ N \in Nat
  BY ChainAssumption DEF Boards
<1>4. CASE AlignBegin
  BY <1>1, <1>3, <1>4 DEF AlignBegin, Positions, Walking, hwVars
<1>5. CASE WriteSync
  <2>1. at = "write" /\ at' = "settle" /\ i' = i
    BY <1>5, WriteEffect
  <2> QED BY <1>1, <1>2, <2>1 DEF Positions, Walking
<1>6. CASE Settle
  <2>1. at = "settle" /\ Onward("write", "poll") /\ moving' = 0
    BY <1>6, SettleEffect
  <2> QED BY <1>1, <1>2, <2>1 DEF Positions, Walking, Onward
<1>7. CASE Poll
  <2>1. /\ at = "poll" /\ moving' = moving
        /\ \/ at' \in {"rearm", "poll"} /\ i' = i
           \/ Onward("poll", "arm")
    BY <1>7, PollEffect DEF hwVars
  <2> QED BY <1>1, <1>2, <1>3, <2>1 DEF Positions, Walking, Onward
<1>8. CASE Rearm
  <2>1. at = "rearm" /\ at' = "check" /\ i' = i /\ moving' = moving
    BY <1>8, RearmEffect
  <2> QED BY <1>1, <1>2, <2>1 DEF Positions, Walking
<1>9. CASE Check
  <2>1. at = "check" /\ moving' = moving /\ Onward("poll", "arm")
    BY <1>9, CheckEffect DEF hwVars
  <2> QED BY <1>1, <1>2, <1>3, <2>1 DEF Positions, Walking, Onward
<1>10. CASE Unlock
  BY <1>1, <1>10 DEF Unlock, Positions, Walking
<1>11. CASE Relock
  BY <1>1, <1>11 DEF Relock, Positions, Walking
<1>12. CASE Arm
  <2>1. at = "arm" /\ i \in Boards /\ moving' = moving
    BY <1>12 DEF Arm, Positions, hwVars
  <2> QED BY <1>1, <1>3, <1>12, <2>1 DEF Arm, Positions, Walking, Boards
<1>13. CASE Trigger
  BY <1>1, <1>13 DEF Trigger, Positions, Walking, hwVars
<1> QED
  BY <1>4, <1>5, <1>6, <1>7, <1>8, <1>9, <1>10, <1>11, <1>12, <1>13, Zenon DEF Next, Align

-----------------------------------------------------------------------------
(* What the walks have done *)

LEMMA SyncedStep == ASSUME TypeOK, Positions, SyncedPassed, Next PROVE SyncedPassed'
<1> SUFFICES ASSUME NEW b \in Boards, state'[b].synced
             PROVE  /\ at' # "align"
                    /\ at' = "write" => Passed(b)'
                    /\ at' = "settle" => Passed(b)' \/ b = board'
  BY DEF SyncedPassed
<1>1. clockChainOrder' = clockChainOrder
  BY WiredStays, SameWiring
<1>2. i' = i => board' = board /\ (Passed(b)' <=> Passed(b))
  BY <1>1 DEF board, Passed
<1>3. CASE AlignBegin
  BY <1>2, <1>3 DEF AlignBegin, SyncedPassed
<1>4. CASE WriteSync
  <2>1. at = "write" /\ at' = "settle" /\ i' = i /\ (b # board => state'[b] = state[b])
    BY <1>4, WriteEffect
  <2> QED BY <1>2, <2>1 DEF SyncedPassed
<1>5. CASE Settle
  <2>1. at = "settle" /\ Onward("write", "poll") /\ state' = state
    BY <1>5, SettleEffect
  <2>2. Passed(b) \/ b = board
    BY <2>1 DEF SyncedPassed
  <2>3. at' = "write" => i' = i + 1 /\ i < Len(clockChainOrder)
    BY <2>1 DEF Onward
  <2>4. at' = "write" => Passed(b)'
    <3>1. Walking
      BY <2>1 DEF Walking
    <3> QED BY <2>2, <2>3, <3>1, PassedFacts
  <2> QED BY <2>1, <2>4 DEF Onward
<1>6. CASE Poll
  <2>1. at' \in {"rearm", "poll", "arm"}
    BY <1>6, PollEffect DEF Onward
  <2> QED BY <2>1
<1>7. CASE Rearm
  BY <1>7 DEF Rearm
<1>8. CASE Check
  <2>1. at' \in {"poll", "arm"}
    BY <1>8, CheckEffect DEF Onward
  <2> QED BY <2>1
<1>9. CASE Unlock
  BY <1>2, <1>9 DEF Unlock, SyncedPassed
<1>10. CASE Relock
  BY <1>2, <1>10 DEF Relock, SyncedPassed
<1>11. CASE Arm
  <2>1. at' \in {"arm", "trigger"}
    BY <1>11 DEF Arm
  <2> QED BY <2>1
<1>12. CASE Trigger
  BY <1>12 DEF Trigger
<1> QED
  BY <1>3, <1>4, <1>5, <1>6, <1>7, <1>8, <1>9, <1>10, <1>11, <1>12, Zenon DEF Next, Align
LEMMA AlignedStep ==
    ASSUME TypeOK, Positions, SyncedPassed, Aligned, Next PROVE Aligned'
<1>1. wired' = wired /\ clockChainOrder' = clockChainOrder
  BY WiredStays, SameWiring
<1> SUFFICES ASSUME wired.first \notin wired.unread, NEW b \in Boards, state'[b].synced,
                    b \notin outside', b \notin phase'
             PROVE  \/ at' = "check" /\ b = board' /\ b \notin latch'
                    \/ Checked(b)' /\ ~(state'[b].statusRead /\ state'[b].stable)
  BY <1>1, Zenon DEF Aligned
<1>2. (state[b].synced /\ b \notin outside /\ b \notin phase) =>
          \/ at = "check" /\ b = board /\ b \notin latch
          \/ Checked(b) /\ ~(state[b].statusRead /\ state[b].stable)
  BY DEF Aligned
<1>3. i' = i => board' = board /\ (Passed(b)' <=> Passed(b))
  BY <1>1 DEF board, Passed
<1>4. Walking => (Passed(b) => b # board)
  BY PassedFacts
<1>5. Checked(b)' <=> /\ at' \notin {"align", "write", "settle"}
                      /\ at' \in {"poll", "rearm", "check"} => Passed(b)'
  BY DEF Checked
<1>6. CASE AlignBegin
  BY <1>6 DEF AlignBegin, SyncedPassed
<1>7. CASE WriteSync
  <2>1. at = "write" /\ ~Checked(b) /\ Walking
    BY <1>7, WriteEffect DEF Checked, Walking
  <2>2. b # board => state'[b] = state[b]
    BY <1>7, WriteEffect
  <2>3. CASE /\ phase' = (phase \ Behind(board)) \cup (IF board \in locked THEN {board} ELSE {})
             /\ outside' = outside \cup ({board} \ locked)
    <3>1. b # board
      BY <2>3
    <3>2. Passed(b)
      BY <2>1, <2>2, <3>1 DEF SyncedPassed
    <3>3. b \notin Behind(board)
      BY <2>1, <3>2, PassedFacts
    <3>4. b \notin phase /\ b \notin outside
      BY <2>3, <3>3
    <3> QED BY <1>2, <2>1, <2>2, <3>1, <3>4
  <2>4. CASE state' = state /\ UNCHANGED <<phase, outside>>
    BY <1>2, <2>1, <2>4
  <2> QED BY <1>7, <2>3, <2>4, WriteEffect
<1>8. CASE Settle
  <2>1. at = "settle" /\ UNCHANGED <<state, phase, outside>>
    BY <1>8, SettleEffect
  <2> QED BY <1>2, <2>1 DEF Checked
<1>9. CASE Poll
  <2>1. /\ at = "poll" /\ Walking /\ UNCHANGED <<phase, outside>>
        /\ (at' \in {"rearm", "poll"} /\ i' = i) \/ Onward("poll", "arm")
    BY <1>9, PollEffect DEF Walking, hwVars
  <2>2. state'[board].synced = state[board].synced /\ (b # board => state'[b] = state[b])
    BY <1>9, PollEffect
  <2>3. Passed(b) /\ ~(state[b].statusRead /\ state[b].stable)
    BY <1>2, <2>1, <2>2 DEF Checked
  <2>4. b # board
    BY <1>4, <2>1, <2>3
  <2>5. (at' \in {"rearm", "poll"} /\ Passed(b)') \/ at' = "arm"
    BY <1>3, <2>1, <2>3, PassedFacts DEF Onward
  <2> QED BY <1>5, <2>2, <2>3, <2>4, <2>5
<1>10. CASE Rearm
  <2>1. at = "rearm" /\ at' = "check" /\ i' = i /\ UNCHANGED <<state, phase, outside>>
    BY <1>10, RearmEffect
  <2> QED BY <1>2, <1>3, <2>1 DEF Checked
<1>11. CASE Check
  <2>1. at = "check" /\ Walking /\ UNCHANGED <<phase, outside>> /\ Onward("poll", "arm")
    BY <1>11, CheckEffect DEF Walking, hwVars
  <2>2. state'[board].synced = state[board].synced /\ (b # board => state'[b] = state[b])
    BY <1>11, CheckEffect
  <2>3. \/ at' = "poll" /\ (Passed(b)' <=> (Passed(b) \/ b = board))
        \/ at' = "arm"
    BY <2>1, PassedFacts DEF Onward
  <2>4. CASE b = board /\ b \notin latch
    <3>1. ~(state'[b].statusRead /\ state'[b].stable)
      BY <1>11, <2>4, CheckEffect
    <3> QED BY <1>5, <2>3, <2>4, <3>1
  <2>5. CASE Checked(b) /\ ~(state[b].statusRead /\ state[b].stable)
    <3>1. Passed(b) /\ b # board
      BY <1>4, <2>1, <2>5 DEF Checked
    <3> QED BY <1>5, <2>2, <2>3, <2>5, <3>1
  <2> QED BY <1>2, <2>1, <2>2, <2>4, <2>5
<1>12. CASE Unlock
  <2>1. PICK b0 \in locked :
            /\ Disturb({b0} \cup Behind(b0))
            /\ outside' = outside \cup {c \in {b0} \cup Behind(b0) :
                                           state[c].synced /\ ~(at = "check" /\ c = board)}
    BY <1>12, Zenon DEF Unlock
  <2> DEFINE hit == {b0} \cup Behind(b0)
  <2>2. at' = at /\ i' = i /\ state' = state
    BY <1>12 DEF Unlock
  <2>3. Checked(b)' <=> Checked(b)
    BY <1>3, <2>2 DEF Checked
  <2> HIDE DEF hit
  <2>4. /\ latch' = latch \ hit /\ phase' = phase \ hit /\ b \notin outside
        /\ b \in hit => at = "check" /\ b = board
    BY <2>1, <2>2 DEF Disturb, hit
  <2> QED BY <1>2, <1>3, <2>2, <2>3, <2>4
<1>13. CASE Relock
  <2>1. at' = at /\ i' = i /\ UNCHANGED <<state, latch, phase, outside>>
    BY <1>13 DEF Relock
  <2>2. Checked(b)' <=> Checked(b)
    BY <1>3, <2>1 DEF Checked
  <2> QED BY <1>2, <1>3, <2>1, <2>2
<1>14. CASE Arm
  <2>1. at = "arm" /\ at' \in {"arm", "trigger"} /\ UNCHANGED <<state, phase, outside>>
    BY <1>14 DEF Arm, hwVars
  <2> QED BY <1>2, <1>5, <2>1
<1>15. CASE Trigger
  <2>1. at = "trigger" /\ at' = "up" /\ UNCHANGED <<state, phase, outside>>
    BY <1>15 DEF Trigger, hwVars
  <2> QED BY <1>2, <1>5, <2>1
<1> QED
  BY <1>6, <1>7, <1>8, <1>9, <1>10, <1>11, <1>12, <1>13, <1>14, <1>15, Zenon DEF Next, Align

LEMMA StartingStep ==
    ASSUME TypeOK, Positions, Starting, Next PROVE Starting'
<1>1. wired' = wired /\ clockChainOrder' = clockChainOrder /\ masterIndex' = masterIndex
  BY WiredStays, SameWiring
<1>2. N \in Nat /\ Boards = 1 .. N
  BY ChainAssumption DEF Boards
<1>3. CASE Align
  <2>1. /\ at \notin {"arm", "trigger", "up"} /\ at' \notin {"trigger", "up"}
        /\ at' = "arm" => i' = 1
    <3>1. CASE AlignBegin
      BY <3>1 DEF AlignBegin, Positions
    <3>2. CASE WriteSync
      BY <3>2, WriteEffect, WalkFacts DEF Walking, Next, Align
    <3>3. CASE Settle
      BY <3>3, SettleEffect, WalkFacts DEF Walking, Next, Align, Onward
    <3>4. CASE Poll
      <4>1. at = "poll" /\ (at' = "rearm" \/ at' = "poll" \/ Onward("poll", "arm"))
        BY <3>4, PollEffect
      <4>2. i \in 1 .. Len(clockChainOrder)
        BY <4>1 DEF Positions, Walking
      <4> QED BY <4>1, <4>2 DEF Onward
    <3>5. CASE Rearm
      BY <3>5, RearmEffect, WalkFacts DEF Walking, Next, Align
    <3>6. CASE Check
      BY <3>6, CheckEffect, WalkFacts DEF Walking, Next, Align, Onward
    <3> QED BY <1>3, <3>1, <3>2, <3>3, <3>4, <3>5, <3>6, Zenon DEF Align
  <2>2. at' = "arm" => \A b \in Boards : ~(b < i')
    BY <1>2, <2>1
  <2> QED BY <2>1, <2>2 DEF Starting
<1>4. CASE Unlock \/ Relock
  <2>1. UNCHANGED <<wired, at, i, acq>>
    BY <1>4 DEF Unlock, Relock
  <2> QED BY <2>1 DEF Starting, Armed
<1>5. CASE Arm
  <2>1. at = "arm" /\ i \in 1 .. N /\ (\A b \in Boards : b < i => Armed(b))
        /\ acq \in [Boards -> {"stopped", "armed", "running"}]
    BY <1>2, <1>5 DEF Arm, Positions, Starting, TypeOK
  <2>2. acq' = [acq EXCEPT ![i] = IF i \in wired.sync THEN "armed" ELSE "running"]
    BY <1>5 DEF Arm
  <2>3. \A b \in Boards : b <= i => Armed(b)'
    BY <1>1, <1>2, <2>1, <2>2 DEF Armed
  <2>4. \/ i < N /\ i' = i + 1 /\ at' = "arm"
        \/ i = N /\ at' = "trigger"
    <3>1. IF i < N THEN i' = i + 1 /\ UNCHANGED at ELSE i' = 1 /\ at' = "trigger"
      BY <1>5, Zenon DEF Arm
    <3>2. i < N \/ i = N
      BY <1>2, <2>1
    <3> QED BY <1>2, <2>1, <3>1, <3>2
  <2> QED BY <1>2, <2>1, <2>3, <2>4 DEF Starting
<1>6. CASE Trigger
  <2>1. at = "trigger" /\ at' = "up" /\ (\A b \in Boards : Armed(b))
    BY <1>6 DEF Trigger, Starting
  <2>2. ASSUME wired.first \notin wired.unread, NEW b \in Boards PROVE acq'[b] = "running"
    <3>1. acq'[b] = IF /\ acq[b] = "armed" /\ masterIndex # 0
                       /\ \/ masterIndex \in {b, wired.first}
                          \/ b # wired.first /\ b > masterIndex
                    THEN "running" ELSE acq[b]
      BY <1>6, Zenon DEF Trigger
    <3>2. acq[b] = "armed" => masterIndex = wired.first /\ masterIndex # 0
      <4>1. acq[b] = "armed" => wired.sync # {}
        BY <2>1 DEF Armed
      <4>2. wired.sync # {} => masterIndex = wired.first
        BY <2>2, MasterIsFirst DEF TypeOK
      <4>3. wired.first # 0
        BY WiredType DEF TypeOK, Boards
      <4> QED BY <4>1, <4>2, <4>3
    <3>3. acq[b] \in {"armed", "running"}
      BY <2>1 DEF Armed
    <3> QED BY <3>1, <3>2, <3>3
  <2> QED BY <1>1, <2>1, <2>2 DEF Starting
<1> QED BY <1>3, <1>4, <1>5, <1>6, Zenon DEF Next
LEMMA HealthyStep ==
    ASSUME TypeOK, Positions, Healthy, Next PROVE Healthy'
<1>1. wired' = wired /\ clockChainOrder' = clockChainOrder
  BY WiredStays, SameWiring
<1> DEFINE n == Len(clockChainOrder)
           c == clockChainOrder
           Good == faults = 0 /\ unlocks = 0
           Writing == at = "write" => \A b \in Boards : Passed(b) => state[b].synced
           Settling == at = "settle" => \A b \in Boards : Passed(b) \/ b = board => state[b].synced
           Polling == at \in {"poll", "rearm", "check"} =>
                          /\ \A k \in 1 .. n : state[c[k]].synced
                          /\ \A b \in Boards : Passed(b) => Found(b)
           Window == /\ at \in {"rearm", "check"} => state[board].statusRead
                     /\ at = "check" => board \in latch
           Over == ~Aligning => \/ n < 2
                                \/ \A k \in 1 .. n : state[c[k]].synced /\ Found(c[k])
<1>2. /\ faults = 0 => wired.unread = {}
      /\ unlocks = 0 => locked = Boards /\ outside = {}
      /\ Good => Writing /\ Settling /\ Polling /\ Window /\ Over
  BY Zenon DEF Healthy
<1>3. faults \in Nat /\ unlocks \in Nat /\ state \in [Boards -> LockStates] /\ n \in Nat
      /\ \A k \in 1 .. n : c[k] \in Boards
  <2>1. Wired
    BY DEF TypeOK
  <2> QED BY <2>1, BoardType, ChainRight, LenProperties DEF TypeOK, Chained
<1> HIDE DEF n, Writing, Settling, Polling, Window, Over
<1>4. ASSUME /\ faults' = 0 => faults = 0
             /\ unlocks' = 0 => unlocks = 0 /\ locked' = Boards /\ outside' = {}
             /\ Good /\ Good' => (Writing /\ Settling /\ Polling /\ Window /\ Over)'
      PROVE  Healthy'
  <2>1. faults' = 0 => wired'.unread = {}
    BY <1>1, <1>2, <1>4
  <2>2. Good' => Good /\ (Writing /\ Settling /\ Polling /\ Window /\ Over)'
    BY <1>4
  <2> QED BY <1>4, <2>1, <2>2, Zenon DEF Healthy, n, Writing, Settling, Polling, Window, Over
<1>5. /\ i' = i => board' = board /\ \A b : Passed(b)' <=> Passed(b)
      /\ i' = 1 => \A b : ~Passed(b)'
  <2>1. i' = 1 => \A b : ~Passed(b)'
    BY <1>1, <1>3 DEF Passed, n
  <2> QED BY <1>1, <2>1 DEF board, Passed
<1>6. CASE AlignBegin
  <2>1. /\ at = "align" /\ i = 1
        /\ UNCHANGED <<i, state, faults, unlocks, locked, outside>>
        /\ at' = IF n < 2 THEN "arm" ELSE "write"
    BY <1>6 DEF AlignBegin, Positions, hwVars, n
  <2>2. (Writing /\ Settling /\ Polling /\ Window /\ Over)'
    <3>1. CASE n < 2 /\ at' = "arm"
      <4>1. Over'
        BY <1>1, <3>1 DEF Over, n
      <4> QED BY <3>1, <4>1 DEF Writing, Settling, Polling, Window
    <3>2. CASE at' = "write"
      <4>1. Writing'
        BY <1>5, <2>1 DEF Writing
      <4> QED BY <3>2, <4>1 DEF Settling, Polling, Window, Over, Aligning
    <3> QED BY <2>1, <3>1, <3>2
  <2> QED BY <1>2, <1>4, <2>1, <2>2
<1>7. CASE WriteSync
  <2>1. /\ at = "write" /\ at' = "settle" /\ i' = i /\ board \in Boards
        /\ UNCHANGED <<unlocks, locked>> /\ (\A b \in Boards \ {board} : state'[b] = state[b])
    <3>1. Walking
      BY <1>7, WriteEffect DEF Walking
    <3> QED BY <1>7, <3>1, WriteEffect, WalkFacts
  <2>2. \/ /\ state'[board].synced /\ faults' = faults
           /\ outside' = outside \cup ({board} \ locked)
        \/ faults' = faults + 1 /\ outside' = outside
    BY <1>7, WriteEffect
  <2>3. /\ faults' = 0 => faults = 0
        /\ unlocks' = 0 => unlocks = 0 /\ locked' = Boards /\ outside' = {}
    BY <1>2, <1>3, <2>1, <2>2
  <2>4. ASSUME Good, Good' PROVE Settling'
    <3>1. state'[board].synced
      BY <1>3, <2>2, <2>4
    <3>2. \A b \in Boards : Passed(b) => state[b].synced
      BY <1>2, <2>1, <2>4 DEF Writing
    <3> QED BY <1>5, <2>1, <3>1, <3>2 DEF Settling
  <2>5. (Writing /\ Polling /\ Window /\ Over)'
    BY <2>1 DEF Writing, Polling, Window, Over, Aligning
  <2> QED BY <1>4, <2>3, <2>4, <2>5
<1>8. CASE Settle
  <2>1. /\ at = "settle" /\ Onward("write", "poll") /\ Walking
        /\ UNCHANGED <<state, faults, unlocks, locked, outside>>
    BY <1>8, SettleEffect DEF Walking
  <2>2. ASSUME Good PROVE (Writing /\ Settling /\ Polling /\ Window /\ Over)'
    <3>1. \A b \in Boards : Passed(b) \/ b = board => state[b].synced
      BY <1>2, <2>1, <2>2 DEF Settling
    <3>2. CASE i < n /\ at' = "write" /\ i' = i + 1
      <4>1. \A b : Passed(b)' <=> (Passed(b) \/ b = board)
        BY <2>1, <3>2, PassedFacts DEF n
      <4>2. Writing'
        BY <2>1, <3>1, <4>1 DEF Writing
      <4> QED BY <3>2, <4>2 DEF Settling, Polling, Window, Over, Aligning
    <3>3. CASE i = n /\ at' = "poll" /\ i' = 1
      <4>1. \A k \in 1 .. n : c[k] = board \/ Passed(c[k])
        BY <2>1, <3>3, PassedFacts DEF n
      <4>2. \A k \in 1 .. n : state'[c[k]].synced
        BY <1>3, <2>1, <3>1, <4>1
      <4>3. Polling'
        BY <1>1, <1>5, <3>3, <4>2 DEF Polling, n
      <4> QED BY <3>3, <4>3 DEF Writing, Settling, Window, Over, Aligning
    <3> QED BY <2>1, <3>2, <3>3 DEF Onward, n
  <2> QED BY <1>2, <1>4, <2>1, <2>2
<1>9. CASE Poll
  <2>1. /\ at = "poll" /\ Walking /\ UNCHANGED <<wired, unlocks, locked, outside>>
        /\ \A b \in Boards \ {board} : state'[b] = state[b]
        /\ state'[board].synced = state[board].synced
        /\ faults' = 0 => faults = 0
    <3>1. faults' = faults \/ faults' = faults + 1
      BY <1>9, PollEffect
    <3> QED BY <1>3, <1>9, <3>1, PollEffect DEF Walking, hwVars
  <2>2. ASSUME Good, Good' PROVE (Writing /\ Settling /\ Polling /\ Window /\ Over)'
    <3>1. faults' = faults /\ board \in locked
      <4>1. board \in Boards /\ locked = Boards
        BY <1>2, <2>1, <2>2, WalkFacts
      <4> QED BY <2>2, <4>1
    <3>2. at' = "rearm" /\ i' = i /\ state'[board].statusRead
      BY <1>9, <3>1, PollEffect
    <3>3. /\ \A k \in 1 .. n : state[c[k]].synced
          /\ \A b \in Boards : Passed(b) => Found(b)
      BY <1>2, <2>1, <2>2 DEF Polling
    <3>4. \A k \in 1 .. n : state'[c[k]].synced
      <4>1. \A k \in 1 .. n : c[k] = board \/ state'[c[k]] = state[c[k]]
        BY <1>3, <2>1
      <4> QED BY <2>1, <3>3, <4>1
    <3>5. \A b \in Boards : Passed(b)' => Found(b)'
      <4>1. \A b \in Boards : Passed(b)' => b # board /\ Found(b)
        BY <1>5, <2>1, <3>2, <3>3, PassedFacts
      <4>2. \A b \in Boards : Passed(b)' => Found(b) /\ state'[b] = state[b]
        BY <2>1, <4>1
      <4> QED BY <2>1, <4>2 DEF Found
    <3>6. Polling'
      BY <1>1, <3>4, <3>5 DEF Polling, n
    <3>7. Window'
      BY <1>5, <3>2 DEF Window
    <3> QED BY <3>2, <3>6, <3>7 DEF Writing, Settling, Over, Aligning
  <2> QED BY <1>2, <1>4, <2>1, <2>2
<1>10. CASE Rearm
  <2>1. /\ at = "rearm" /\ at' = "check" /\ i' = i /\ Walking
        /\ UNCHANGED <<wired, state, unlocks, locked, outside>>
        /\ \/ latch' = latch \cup ({board} \cap locked) /\ faults' = faults
           \/ latch' = latch /\ faults' = faults + 1
    BY <1>10, RearmEffect DEF Walking
  <2>2. faults' = 0 => faults = 0
    BY <1>3, <2>1
  <2>3. ASSUME Good, Good' PROVE (Writing /\ Settling /\ Polling /\ Window /\ Over)'
    <3>1. board \in Boards /\ locked = Boards
      BY <1>2, <2>1, <2>3, WalkFacts
    <3>2. board \in latch'
      BY <1>3, <2>1, <2>3, <3>1
    <3>3. state[board].statusRead
      BY <1>2, <2>1, <2>3 DEF Window
    <3>4. Window'
      BY <1>5, <2>1, <3>2, <3>3 DEF Window
    <3>5. /\ \A k \in 1 .. n : state[c[k]].synced
          /\ \A b \in Boards : Passed(b) => Found(b)
      BY <1>2, <2>1, <2>3 DEF Polling
    <3>6. /\ \A k \in 1 .. n : state'[c[k]].synced
          /\ \A b \in Boards : Passed(b)' => Found(b)'
      BY <1>5, <2>1, <3>5 DEF Found
    <3>7. Polling'
      BY <1>1, <3>6 DEF Polling, n
    <3> QED BY <2>1, <3>4, <3>7 DEF Writing, Settling, Over, Aligning
  <2> QED BY <1>2, <1>4, <2>1, <2>2, <2>3
<1>11. CASE Check
  <2>1. /\ at = "check" /\ Walking /\ Onward("poll", "arm")
        /\ UNCHANGED <<wired, latch, unlocks, locked, outside>>
        /\ \A b \in Boards \ {board} : state'[b] = state[b]
        /\ state'[board].synced = state[board].synced
        /\ faults' = 0 => faults = 0
    <3>1. faults' = faults \/ faults' = faults + 1
      BY <1>11, CheckEffect
    <3> QED BY <1>3, <1>11, <3>1, CheckEffect DEF Walking, hwVars
  <2>2. ASSUME Good, Good' PROVE (Writing /\ Settling /\ Polling /\ Window /\ Over)'
    <3>1. /\ board \in Boards /\ board \in latch /\ state[board].statusRead
          /\ locked = Boards
      BY <1>2, <2>1, <2>2, WalkFacts DEF Window
    <3>2. /\ state'[board].statusRead = state[board].statusRead
          /\ state'[board].ready = (board \in locked)
          /\ state'[board].stable = (board \in latch)
          /\ state'[board].external = (board \in wired.external)
      BY <1>3, <1>11, <2>2, CheckEffect
    <3>3. \A b : b = board => Found(b)'
      <4>1. /\ state'[board].statusRead /\ state'[board].ready /\ state'[board].stable
            /\ state'[board].external <=> board \in wired'.external
        BY <2>1, <3>1, <3>2
      <4>2. \A b : Found(b)' <=> /\ state'[b].statusRead /\ state'[b].ready
                                 /\ state'[b].stable
                                 /\ state'[b].external <=> b \in wired'.external
        BY DEF Found
      <4> QED BY <4>1, <4>2
    <3>4. /\ \A k \in 1 .. n : state[c[k]].synced
          /\ \A b \in Boards : Passed(b) => Found(b)
      BY <1>2, <2>1, <2>2 DEF Polling
    <3>5. \A k \in 1 .. n : state'[c[k]].synced
      <4>1. \A k \in 1 .. n : c[k] = board \/ state'[c[k]] = state[c[k]]
        BY <1>3, <2>1
      <4> QED BY <2>1, <3>4, <4>1
    <3>6. \A b \in Boards : Passed(b) \/ b = board => Found(b)'
      <4>1. \A b \in Boards : Passed(b) => Found(b) /\ state'[b] = state[b]
        BY <2>1, <3>4, PassedFacts
      <4>2. \A b \in Boards : Passed(b) => Found(b)'
        BY <2>1, <4>1 DEF Found
      <4> QED BY <3>3, <4>2
    <3>7. CASE i < n /\ at' = "poll" /\ i' = i + 1
      <4>1. \A b : Passed(b)' <=> (Passed(b) \/ b = board)
        BY <2>1, <3>7, PassedFacts DEF n
      <4>2. \A b \in Boards : Passed(b)' => Found(b)'
        BY <3>6, <4>1
      <4>3. Polling'
        BY <1>1, <3>5, <4>2 DEF Polling, n
      <4> QED BY <3>7, <4>3 DEF Writing, Settling, Window, Over, Aligning
    <3>8. CASE i = n /\ at' = "arm" /\ i' = 1
      <4>1. \A k \in 1 .. n : c[k] = board \/ Passed(c[k])
        BY <2>1, <3>8, PassedFacts DEF n
      <4>2. \A k \in 1 .. n : Found(c[k])'
        BY <1>1, <1>3, <3>6, <4>1
      <4>3. Over'
        BY <1>1, <3>5, <4>2 DEF Over, n
      <4> QED BY <3>8, <4>3 DEF Writing, Settling, Polling, Window
    <3> QED BY <2>1, <3>7, <3>8 DEF Onward, n
  <2> QED BY <1>2, <1>4, <2>1, <2>2
<1>12. CASE Unlock
  <2>1. unlocks' = unlocks + 1 /\ faults' = faults
    BY <1>12 DEF Unlock
  <2> QED BY <1>3, <1>4, <2>1
<1>13. CASE Relock
  <2>1. UNCHANGED <<wired, at, i, state, latch, faults, unlocks, outside>> /\ locked' = Boards
    BY <1>13 DEF Relock
  <2>2. \A b : Found(b)' <=> Found(b)
    BY <2>1 DEF Found
  <2>3. (Writing' <=> Writing) /\ (Settling' <=> Settling) /\ (Window' <=> Window)
    BY <1>5, <2>1 DEF Writing, Settling, Window
  <2>4. Polling' <=> Polling
    BY <1>1, <1>5, <2>1, <2>2 DEF Polling, n
  <2>5. Over => Over'
    <3>1. n' = n /\ c' = c /\ (Aligning' <=> Aligning)
      BY <1>1, <2>1 DEF n, Aligning
    <3>2. \A k : state'[c[k]] = state[c[k]] /\ (Found(c[k])' <=> Found(c[k]))
      BY <1>1, <2>1, <2>2
    <3> QED BY <1>1, <2>1, <3>1, <3>2 DEF Over, n
  <2> QED BY <1>2, <1>4, <2>1, <2>3, <2>4, <2>5
<1>14. CASE Arm \/ Trigger
  <2>1. /\ UNCHANGED <<wired, state, latch, faults, unlocks, outside, locked>>
        /\ ~Aligning /\ at' \in {"arm", "trigger", "up"}
    BY <1>14 DEF Arm, Trigger, hwVars, Aligning
  <2>2. Over => Over'
    <3>1. \A k : Found(c[k])' <=> Found(c[k])
      BY <1>1, <2>1 DEF Found
    <3> QED BY <1>1, <2>1, <3>1 DEF Over, n
  <2>3. (Writing /\ Settling /\ Polling /\ Window)'
    BY <2>1 DEF Writing, Settling, Polling, Window
  <2> QED BY <1>2, <1>4, <2>1, <2>2, <2>3
<1> QED
  BY <1>6, <1>7, <1>8, <1>9, <1>10, <1>11, <1>12, <1>13, <1>14, Zenon DEF Next, Align

-----------------------------------------------------------------------------
(* Theorems *)

LEMMA InvInit == Init => ChainInv
<1> SUFFICES ASSUME Init PROVE ChainInv
  OBVIOUS
<1>1. Wired
  BY DEF Init, Wired
<1>2. wired.unread \in {{}} \cup {{b} : b \in Boards}
  BY DEF Init
<1>3. /\ Cardinality(wired.unread) \in Nat
      /\ Cardinality(wired.unread) = 0 => wired.unread = {}
  <2>1. IsFiniteSet(wired.unread)
    BY <1>2, FS_EmptySet, FS_Singleton
  <2> QED BY <2>1, FS_CardinalityType, FS_EmptySet
<1>4. NoState \in LockStates /\ ~NoState.synced
  BY DEF NoState, LockStates
<1>5. state = [b \in Boards |-> NoState] /\ at = "align" /\ i = 1 /\ polls = 0 /\ moving = 0
  BY DEF Init
<1>6. state \in [Boards -> LockStates] /\ \A b \in Boards : ~state[b].synced
  BY <1>4, <1>5
<1>7. acq \in [Boards -> {"stopped", "armed", "running"}]
  BY DEF Init
<1>8. 0 \in 0 .. MaxPolls
  BY ChainAssumption
<1>9. TypeOK
  BY <1>1, <1>3, <1>5, <1>6, <1>7, <1>8 DEF Init, TypeOK
<1>10. Positions /\ Starting
  BY <1>5 DEF Positions, Starting, Walking
<1>11. SyncedPassed /\ Aligned
  BY <1>6 DEF SyncedPassed, Aligned
<1>12. Healthy
  BY <1>3, <1>5 DEF Init, Healthy, Aligning
<1> QED BY <1>9, <1>10, <1>11, <1>12 DEF ChainInv

LEMMA InvStutter == ChainInv /\ UNCHANGED vars => ChainInv'
<1> SUFFICES ASSUME ChainInv, UNCHANGED vars PROVE ChainInv'
  OBVIOUS
<1>1. /\ UNCHANGED <<wired, at, i, polls, state, moving, locked, latch, phase, acq, faults,
                      unlocks, outside>>
      /\ clockChainOrder' = clockChainOrder
  BY SameWiring DEF vars, hwVars
<1>2. TypeOK'
  BY <1>1 DEF ChainInv, TypeOK, Wired
<1>3. board' = board /\ (\A b : Passed(b)' <=> Passed(b)) /\ (\A b : Found(b)' <=> Found(b))
      /\ (Aligning' <=> Aligning)
  BY <1>1 DEF board, Passed, Found, Aligning
<1>4. Positions' /\ Starting'
  BY <1>1 DEF ChainInv, Positions, Walking, Starting, Armed
<1>5. SyncedPassed' /\ Aligned'
  BY <1>1, <1>3 DEF ChainInv, SyncedPassed, Aligned, Checked
<1>6. Healthy'
  BY <1>1, <1>3 DEF ChainInv, Healthy
<1> QED BY <1>2, <1>4, <1>5, <1>6 DEF ChainInv

(* The invariant holds in every reachable state. *)
THEOREM InvariantHolds == Spec => []ChainInv
<1>1. ChainInv /\ Next => ChainInv'
  BY TypeStep, PositionsStep, SyncedStep, AlignedStep, HealthyStep, StartingStep DEF ChainInv
<1> QED BY <1>1, InvInit, InvStutter, PTL DEF Spec

(* The registers, the boards and the walks along the chain keep their types. *)
THEOREM TypeCorrect == Spec => [](TypeOK /\ Positions)
BY InvariantHolds, PTL DEF ChainInv

(* "every board is checked for a PLL that is ready and has stayed locked":   *)
(* no board is reported as locked whose clock lost its known phase unnoticed *)
(* while start() looked at it (Daq::start(), synchroniseClockChain()).       *)
THEOREM LockedIsAligned == Spec => []LockedMeansAligned
<1>1. ChainInv => LockedMeansAligned
  <2> SUFFICES ASSUME ChainInv, ~Aligning, wired.first \notin wired.unread,
                      NEW b \in Boards, ok(b), b \notin outside
               PROVE  b \in phase
    BY DEF LockedMeansAligned
  <2> QED BY DEF ChainInv, Aligned, Aligning, ok
<1> QED BY <1>1, InvariantHolds, PTL

(* In a system with nothing wrong, every board on another one's clock is in  *)
(* phase and reported as locked before the first board is armed, unless it   *)
(* is alone on an external clock and no board is synchronised (Daq.cpp:101). *)
THEOREM HealthyIsAligned == Spec => []HealthyChainIsAligned
<1>1. ChainInv => HealthyChainIsAligned
  <2> SUFFICES ASSUME ChainInv, ~Aligning, faults = 0, unlocks = 0,
                      NEW b \in wired.external \ {wired.first},
                      wired.sync # {} \/ wired.external # {b}
               PROVE  b \in phase /\ ok(b)
    BY DEF HealthyChainIsAligned
  <2>1. wired.unread = {} /\ outside = {} /\ b \in Boards
    BY WiredType DEF ChainInv, Healthy, TypeOK
  <2>2. PICK k \in 1 .. Len(clockChainOrder) : clockChainOrder[k] = b
    BY <2>1, ChainRight DEF ChainInv, TypeOK, Chained
  <2>3. Len(clockChainOrder) >= 2 /\ Len(clockChainOrder) \in Nat
    BY <2>1, ChainRight, LenProperties DEF ChainInv, TypeOK, Chained
  <2>4. state[b].synced /\ Found(b)
    <3>1. ~(Len(clockChainOrder) < 2)
      BY <2>3
    <3> QED BY <2>2, <3>1, Zenon DEF ChainInv, Healthy
  <2>5. ok(b)
    BY <2>4 DEF ok, Found
  <2>6. b \in phase
    BY <2>1, <2>4 DEF ChainInv, Aligned, Found, Aligning
  <2> QED BY <2>5, <2>6
<1> QED BY <1>1, InvariantHolds, PTL

(* "all boards ... start on the same edge" (README.md:224): when start() has *)
(* returned, no board waits for a start signal.                              *)
THEOREM EveryBoardIsStarted == Spec => []EveryBoardStarts
<1>1. ChainInv => EveryBoardStarts
  BY DEF ChainInv, Starting, EveryBoardStarts
<1> QED BY <1>1, InvariantHolds, PTL
=============================================================================

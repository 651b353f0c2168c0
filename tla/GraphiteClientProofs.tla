------------------------ MODULE GraphiteClientProofs ------------------------
(***************************************************************************)
(* GraphiteClient.tla for every time-out, back-off, batch and buffer: lines*)
(* reach the server whole, every call is time-bounded and attempts keep the*)
(* doubling distance.                                                      *)
(***************************************************************************)
EXTENDS GraphiteClient, FunctionTheorems, FiniteSetTheorems, TLAPS

(* Every variable stays in its type. *)
TypeOK ==
    /\ at \in {"idle", "connect", "sending"}
    /\ fd \in BOOLEAN
    /\ remaining \in 0 .. Batch
    /\ {retryDelay, due, since, fails} \subseteq 0 .. kRetryMax
    /\ last \in {"none", "ok", "failed", "skipped"}
    /\ spent \in Nat
    /\ server \in Servers
    /\ alive \in BOOLEAN
    /\ room \in 0 .. Room
    /\ wire \in Nat

(* A batch that is under way has a socket, and the pieces the kernel took of *)
(* it are on the wire; between two calls there is no open batch on a socket. *)
Framed ==
    /\ at = "connect" => ~fd /\ remaining = Batch
    /\ at = "sending" => fd /\ wire = IF remaining = 0 THEN 0 ELSE Batch - remaining
    /\ (at = "idle" /\ fd) => wire = 0

(* The time a call has spent by the piece it is at. *)
OnTime ==
    /\ at = "connect" => spent = 0
    /\ at = "sending" => spent <= connectTimeout + (Batch - remaining) * sendTimeout
    /\ at = "idle" => spent <= connectTimeout + Batch * sendTimeout

(* The delay is the one the failures in a row ask for, and what is left of   *)
(* it is at least what has not passed since the last failure.                *)
Spaced ==
    /\ retryDelay = Delay(fails)
    /\ due <= retryDelay
    /\ since + due >= retryDelay

-----------------------------------------------------------------------------
(* Arithmetic *)

(* The smaller of two numbers. *)
LEMMA MinOfTwo == \A a, b \in Nat : Min({a, b}) = IF a <= b THEN a ELSE b
BY DEF Min

(* Multiplication is linear and monotonic: one more piece, one more time-out. *)
LEMMA OneMorePiece ==
    \A a, b \in Nat : a * b \in Nat /\ (a + 1) * b = a * b + b /\ (\A c \in Nat : a <= c => a * b <= c * b)
BY SMT

(* Powers of two, which the provers do not know: 2^n counts the subsets of   *)
(* 1 .. n.  Those of 1 .. n+1 are a subset of 1 .. n each, with or without   *)
(* n+1.                                                                      *)
LEMMA PowerDoubles ==
    ASSUME NEW n \in Nat
    PROVE  2 ^ n \in Nat /\ 2 ^ (n + 1) = 2 * 2 ^ n
<1> DEFINE small == SUBSET (1 .. n)
           large == SUBSET (1 .. n + 1)
           f == [B \in large |-> <<B \cap (1 .. n), IF n + 1 \in B THEN 1 ELSE 0>>]
<1>1. /\ IsFiniteSet(small) /\ Cardinality(small) = 2 ^ n
      /\ IsFiniteSet(large) /\ Cardinality(large) = 2 ^ (n + 1)
  <2>1. /\ IsFiniteSet(1 .. n) /\ Cardinality(1 .. n) = n
        /\ IsFiniteSet(1 .. n + 1) /\ Cardinality(1 .. n + 1) = n + 1
      BY FS_Interval
  <2> QED BY <2>1, FS_SUBSET
<1>2. IsFiniteSet(0 .. 1) /\ Cardinality(0 .. 1) = 2
  <2>1. Cardinality(0 .. 1) = 1 - 0 + 1 /\ IsFiniteSet(0 .. 1)
      BY FS_Interval, 0 \in Int, 1 \in Int, ~(0 > 1)
  <2> QED BY <2>1
<1>3. f \in Bijection(large, small \X (0 .. 1))
  <2>1. f \in [large -> small \X (0 .. 1)]
      OBVIOUS
  <2>2. ASSUME NEW B \in large, NEW C \in large, f[B] = f[C] PROVE B = C
    <3>1. B \cap (1 .. n) = C \cap (1 .. n) /\ ((n + 1 \in B) <=> (n + 1 \in C))
        BY <2>2
    <3>2. \A i \in 1 .. n + 1 : i \in 1 .. n \/ i = n + 1
        OBVIOUS
    <3>3. \A i \in 1 .. n + 1 : i \in B <=> i \in C
        BY <3>1, <3>2, Zenon
    <3> QED BY <3>3
  <2>3. ASSUME NEW p \in small \X (0 .. 1) PROVE \E B \in large : f[B] = p
    <3> DEFINE B == p[1] \cup IF p[2] = 1 THEN {n + 1} ELSE {}
    <3>1. p[1] \in small /\ p[2] \in 0 .. 1 /\ p = <<p[1], p[2]>>
        OBVIOUS
    <3>2. B \in large
        BY <3>1
    <3>3. B \cap (1 .. n) = p[1]
        BY <3>1
    <3>4. (n + 1 \in B) <=> p[2] = 1
        BY <3>1
    <3>5. f[B] = <<B \cap (1 .. n), IF n + 1 \in B THEN 1 ELSE 0>>
        BY <3>2
    <3> HIDE DEF B, f
    <3>6. f[B] = <<p[1], p[2]>>
        BY <3>1, <3>3, <3>4, <3>5
    <3> QED BY <3>1, <3>2, <3>6
  <2> QED BY <2>1, <2>2, <2>3, Fun_IsBij
<1>4. Cardinality(small \X (0 .. 1)) = Cardinality(large)
  <2>1. ExistsBijection(large, small \X (0 .. 1))
      BY <1>3, Zenon DEF ExistsBijection
  <2> QED BY <1>1, <2>1, FS_Bijection
<1>5. Cardinality(small \X (0 .. 1)) = 2 ^ n * 2
    BY <1>1, <1>2, FS_Product
<1>6. 2 ^ n \in Nat
    BY <1>1, FS_CardinalityType
<1> QED BY <1>1, <1>4, <1>5, <1>6

(* 1 .. n has the n+1 subsets 1 .. i among others. *)
LEMMA PowerExceeds ==
    ASSUME NEW n \in Nat
    PROVE  n + 1 <= 2 ^ n
<1> DEFINE f == [i \in 0 .. n |-> 1 .. i]
<1>1. f \in Injection(0 .. n, SUBSET (1 .. n))
  <2>1. f \in [0 .. n -> SUBSET (1 .. n)]
      OBVIOUS
  <2>2. ASSUME NEW i \in 0 .. n, NEW j \in 0 .. n, f[i] = f[j] PROVE i = j
    <3>1. 1 .. i = 1 .. j
        BY <2>2
    <3>2. \A k \in Nat \ {0} : k <= i <=> k <= j
        BY <3>1
    <3> QED BY <3>2
  <2> QED BY <2>1, <2>2, Fun_IsInj
<1>2. IsFiniteSet(1 .. n) /\ Cardinality(1 .. n) = n /\ Cardinality(0 .. n) = n + 1
    BY FS_Interval
<1>3. IsFiniteSet(SUBSET (1 .. n)) /\ Cardinality(SUBSET (1 .. n)) = 2 ^ n
    BY <1>2, FS_SUBSET
<1> QED BY <1>1, <1>2, <1>3, FS_Injection

(* The delay is within the cap, and none is owed without a failure. *)
LEMMA DelayType ==
    ASSUME NEW n \in Nat
    PROVE  Delay(n) \in 0 .. kRetryMax /\ (Delay(n) = 0 <=> n = 0)
<1>1. CASE n = 0
    BY <1>1, GraphiteAssumption DEF Delay
<1>2. CASE n # 0
  <2>1. 2 ^ (n - 1) \in Nat /\ n - 1 + 1 <= 2 ^ (n - 1)
      BY <1>2, PowerDoubles, PowerExceeds, n - 1 \in Nat
  <2>2. kRetryInitial * 2 ^ (n - 1) \in Nat \ {0}
      BY <1>2, <2>1, GraphiteAssumption
  <2> QED BY <1>2, <2>2, MinOfTwo, GraphiteAssumption DEF Delay
<1> QED BY <1>1, <1>2

(* One more failure doubles the delay up to the cap, also where the count of *)
(* failures has stopped at its own.                                          *)
LEMMA DelayGrows ==
    ASSUME NEW n \in 0 .. kRetryMax
    PROVE  Delay(Min({n + 1, kRetryMax})) =
               IF Delay(n) = 0 THEN kRetryInitial ELSE Min({Delay(n) * 2, kRetryMax})
<1> USE GraphiteAssumption
<1>1. CASE n = 0
  <2>1. Min({n + 1, kRetryMax}) = 1
      BY <1>1, MinOfTwo
  <2>2. kRetryInitial * 2 ^ (1 - 1) = kRetryInitial
      OBVIOUS
  <2>3. Delay(1) = kRetryInitial
      BY <2>2, MinOfTwo DEF Delay
  <2>4. Delay(n) = 0
      BY <1>1 DEF Delay
  <2> QED BY <2>1, <2>3, <2>4
<1>2. CASE n > 0 /\ n < kRetryMax
  <2> DEFINE p == 2 ^ (n - 1)
             q == kRetryInitial * p
  <2>1. Min({n + 1, kRetryMax}) = n + 1
      BY <1>2, MinOfTwo
  <2>2. p \in Nat /\ 2 ^ n = 2 * p
      BY <1>2, PowerDoubles, n - 1 \in Nat, n - 1 + 1 = n
  <2>3. Delay(n + 1) = Min({kRetryInitial * 2 ^ n, kRetryMax})
      BY n + 1 # 0, n + 1 - 1 = n DEF Delay
  <2>4. Delay(n) = Min({q, kRetryMax}) /\ Delay(n) # 0
      BY <1>2, DelayType DEF Delay
  <2> HIDE DEF p
  <2>5. q \in Nat /\ kRetryInitial * 2 ^ n = 2 * q
      BY <2>2
  <2> HIDE DEF q
  <2>6. Min({2 * q, kRetryMax}) = Min({Min({q, kRetryMax}) * 2, kRetryMax})
      BY <2>5, MinOfTwo
  <2> QED BY <2>1, <2>3, <2>4, <2>5, <2>6
<1>3. CASE n = kRetryMax
  <2>1. 2 ^ (n - 1) \in Nat /\ n <= 2 ^ (n - 1)
      BY <1>3, PowerDoubles, PowerExceeds, n - 1 \in Nat, n - 1 + 1 = n
  <2>2. kRetryInitial * 2 ^ (n - 1) \in Nat /\ n <= kRetryInitial * 2 ^ (n - 1)
      BY <2>1
  <2>3. Delay(n) = kRetryMax
      BY <1>3, <2>2, MinOfTwo DEF Delay
  <2> QED BY <1>3, <2>3, MinOfTwo
<1> QED BY <1>1, <1>2, <1>3

-----------------------------------------------------------------------------
(* Types *)

(* A client that has not been called yet is well-typed. *)
LEMMA TypeInit == Init => TypeOK
<1> SUFFICES ASSUME Init PROVE TypeOK
    OBVIOUS
<1>1. fd \in BOOLEAN /\ alive \in BOOLEAN
    BY Zenon DEF Init
<1> QED BY <1>1, GraphiteAssumption DEF Init, TypeOK

(* Time that passes keeps the back-off within its cap. *)
LEMMA PassType ==
    ASSUME NEW d \in Nat, TypeOK, Pass(d)
    PROVE  /\ due' \in 0 .. kRetryMax /\ since' \in 0 .. kRetryMax
           /\ due' <= due /\ due' >= due - d
           /\ since' = since + d \/ (since' = kRetryMax /\ since + d > kRetryMax)
BY MinOfTwo, GraphiteAssumption DEF TypeOK, Pass, Ago

(* A failure keeps it there too. *)
LEMMA FailureType ==
    ASSUME TypeOK, noteFailure
    PROVE  /\ {retryDelay', due', since', fails'} \subseteq 0 .. kRetryMax
           /\ at' = "idle" /\ last' = "failed" /\ fd' = FALSE
BY MinOfTwo, GraphiteAssumption DEF TypeOK, noteFailure

(* Every step of the client, of the clock and of the server keeps the types. *)
LEMMA TypeStep == ASSUME TypeOK, [Next]_vars PROVE TypeOK'
<1> USE GraphiteAssumption DEF TypeOK, backoffVars, netVars
<1>1. CASE Skip
    BY <1>1 DEF Skip
<1>2. CASE Begin
    BY <1>2 DEF Begin
<1>3. CASE NoSocket
    BY <1>3, FailureType DEF NoSocket
<1>4. CASE Connected
  <2>1. PICK d \in 0 .. connectTimeout : Pass(d) /\ spent' = spent + d
      BY <1>4 DEF Connected
  <2>2. {due', since'} \subseteq 0 .. kRetryMax
      BY <2>1, PassType
  <2> QED BY <1>4, <2>1, <2>2 DEF Connected
<1>5. CASE Refused
  <2>1. spent' \in Nat
      BY <1>5 DEF Refused
  <2>2. noteFailure /\ UNCHANGED <<remaining, netVars>>
      BY <1>5 DEF Refused
  <2> QED BY <2>1, <2>2, FailureType
<1>6. CASE Sent
  <2>1. PICK d \in 0 .. sendTimeout : Pass(d) /\ spent' = spent + d
      BY <1>6 DEF Sent
  <2>2. {due', since'} \subseteq 0 .. kRetryMax
      BY <2>1, PassType
  <2>3. (wire + 1) % Batch \in Nat
      OBVIOUS
  <2> QED BY <1>6, <2>1, <2>2, <2>3 DEF Sent
<1>7. CASE NotSent
  <2>1. spent' \in Nat
      BY <1>7 DEF NotSent
  <2>2. noteFailure /\ UNCHANGED <<remaining, netVars>>
      BY <1>7 DEF NotSent
  <2> QED BY <2>1, <2>2, FailureType
<1>8. CASE Done
    BY <1>8 DEF Done, noteSuccess
<1>9. CASE Tick
    BY <1>9, PassType DEF Tick
<1>10. CASE Reads
    BY <1>10 DEF Reads
<1>11. CASE ServerChanges
    BY <1>11 DEF ServerChanges
<1>12. CASE UNCHANGED vars
    BY <1>12 DEF vars
<1> QED BY ONLY [Next]_vars, <1>1, <1>2, <1>3, <1>4, <1>5, <1>6, <1>7, <1>8, <1>9, <1>10,
    <1>11, <1>12 DEF Next, Call

(* The client's variables keep their types for every choice of the time-outs, *)
(* the back-off, the batch and the buffer.                                    *)
THEOREM TypeCorrect == Spec => []TypeOK
BY TypeInit, TypeStep, PTL DEF Spec

-----------------------------------------------------------------------------
(* Whole lines *)

(* A client that has not been called has no batch under way. *)
LEMMA FramedInit == Init => Framed
BY DEF Init, Framed

(* Every step keeps the batches framed: a failed batch takes its socket with *)
(* it, and a batch that is done leaves the wire at a boundary.               *)
LEMMA FramedStep == ASSUME TypeOK, Framed, [Next]_vars PROVE Framed'
<1> USE GraphiteAssumption DEF TypeOK, Framed, backoffVars, netVars
<1>1. CASE Skip \/ Begin
    BY <1>1 DEF Skip, Begin
<1>2. CASE NoSocket \/ Refused \/ NotSent
    BY <1>2 DEF NoSocket, Refused, NotSent, noteFailure
<1>3. CASE Connected
    BY <1>3 DEF Connected
<1>4. CASE Sent
  <2>1. wire = Batch - remaining /\ remaining' = remaining - 1 /\ wire' = (wire + 1) % Batch
      BY <1>4 DEF Sent
  <2>2. wire + 1 = Batch - remaining' /\ remaining' \in 0 .. Batch - 1
      BY <1>4, <2>1 DEF Sent
  <2>3. CASE remaining' = 0
    <3>1. wire' = 0
        BY <2>1, <2>2, <2>3
    <3> QED BY <1>4, <2>3, <3>1 DEF Sent
  <2>4. CASE remaining' # 0
    <3>1. wire' = Batch - remaining'
        BY <2>1, <2>2, <2>4
    <3> QED BY <1>4, <2>4, <3>1 DEF Sent
  <2> QED BY <2>3, <2>4
<1>5. CASE Done
    BY <1>5 DEF Done, noteSuccess
<1>6. CASE Tick \/ Reads \/ ServerChanges
  <2>1. UNCHANGED <<at, fd, remaining, wire>>
      BY <1>6 DEF Tick, Reads, ServerChanges
  <2> QED BY <2>1
<1>7. CASE UNCHANGED vars
    BY <1>7 DEF vars
<1> QED BY ONLY [Next]_vars, <1>1, <1>2, <1>3, <1>4, <1>5, <1>6, <1>7 DEF Next, Call

(* For any batch and buffer size and whatever the server does: on one        *)
(* connection batches follow each other whole.                               *)
THEOREM WholeLines == Spec => []LinesAreWhole
<1>1. ASSUME TypeOK, Framed PROVE LinesAreWhole
  <2> SUFFICES ASSUME at = "sending" PROVE wire = (Batch - remaining) % Batch
      BY DEF LinesAreWhole
  <2>1. CASE remaining = 0
    <3>1. wire = 0 /\ Batch - remaining = Batch
        BY <1>1, <2>1, GraphiteAssumption DEF Framed
    <3> QED BY <3>1, GraphiteAssumption
  <2>2. CASE remaining # 0
    <3>1. wire = Batch - remaining /\ Batch - remaining \in 0 .. Batch - 1
        BY <1>1, <2>2, GraphiteAssumption DEF Framed, TypeOK
    <3> QED BY <3>1, GraphiteAssumption
  <2> QED BY <2>1, <2>2
<1> QED BY <1>1, FramedInit, FramedStep, TypeCorrect, PTL DEF Spec

-----------------------------------------------------------------------------
(* Bounded calls *)

(* No time is spent yet. *)
LEMMA OnTimeInit == Init => OnTime
BY OneMorePiece, GraphiteAssumption DEF Init, OnTime

(* Every step keeps a call within its time: the connect takes its time-out,  *)
(* each piece at most one more.                                              *)
LEMMA OnTimeStep == ASSUME TypeOK, Framed, OnTime, [Next]_vars PROVE OnTime'
<1> USE GraphiteAssumption DEF TypeOK, OnTime, backoffVars, netVars
<1>1. CASE Skip \/ Tick \/ Reads \/ ServerChanges \/ UNCHANGED vars
    BY <1>1 DEF Skip, Tick, Reads, ServerChanges, vars
<1>2. CASE Begin
  <2>1. spent' = 0 /\ remaining' = Batch /\ at' \in {"sending", "connect"}
      BY <1>2 DEF Begin
  <2>2. (Batch - remaining') * sendTimeout = 0
      BY <2>1
  <2> QED BY <2>1, <2>2
<1>3. CASE NoSocket \/ Refused
  <2>1. spent' <= connectTimeout /\ at' = "idle"
      BY <1>3 DEF NoSocket, Refused, noteFailure
  <2>2. Batch * sendTimeout \in Nat /\ spent' \in Nat
      BY <1>3, OneMorePiece DEF NoSocket, Refused
  <2> QED BY <2>1, <2>2
<1>4. CASE Connected
  <2>1. spent' <= connectTimeout /\ at' = "sending" /\ remaining' = Batch
      BY <1>4 DEF Connected, Framed
  <2>2. (Batch - remaining') * sendTimeout = 0 /\ spent' \in Nat
      BY <1>4, <2>1 DEF Connected
  <2> QED BY <2>1, <2>2
<1>5. CASE Sent
  <2> DEFINE n == Batch - remaining
  <2>1. /\ at = "sending" /\ at' = "sending" /\ n \in Nat
        /\ spent' <= spent + sendTimeout /\ spent' \in Nat /\ Batch - remaining' = n + 1
      BY <1>5 DEF Sent
  <2>2. (n + 1) * sendTimeout = n * sendTimeout + sendTimeout /\ n * sendTimeout \in Nat
      BY <2>1, OneMorePiece
  <2>3. spent <= connectTimeout + n * sendTimeout
      BY <2>1
  <2>4. spent' <= connectTimeout + (Batch - remaining') * sendTimeout
      BY <2>1, <2>2, <2>3
  <2> QED BY <2>1, <2>4
<1>6. CASE NotSent
  <2> DEFINE n == Batch - remaining
  <2>1. /\ at = "sending" /\ at' = "idle" /\ n \in Nat /\ n + 1 <= Batch
        /\ spent' <= spent + sendTimeout /\ spent' \in Nat
      BY <1>6 DEF NotSent, noteFailure
  <2>2. /\ (n + 1) * sendTimeout = n * sendTimeout + sendTimeout /\ n * sendTimeout \in Nat
        /\ (n + 1) * sendTimeout <= Batch * sendTimeout /\ Batch * sendTimeout \in Nat
      BY <2>1, OneMorePiece, n + 1 \in Nat
  <2>3. spent <= connectTimeout + n * sendTimeout
      BY <2>1
  <2> QED BY <2>1, <2>2, <2>3
<1>7. CASE Done
  <2>1. at = "sending" /\ at' = "idle" /\ spent' = spent /\ Batch - remaining = Batch
      BY <1>7 DEF Done, noteSuccess
  <2> QED BY <2>1
<1> QED BY ONLY [Next]_vars, <1>1, <1>2, <1>3, <1>4, <1>5, <1>6, <1>7 DEF Next, Call

(* For any time-outs and any number of pieces: a call is over after the      *)
(* connect time-out and one send time-out a piece.                           *)
THEOREM BoundedCalls == Spec => []CallsAreBounded
<1>1. ASSUME TypeOK, OnTime PROVE CallsAreBounded
  <2> DEFINE n == Batch - remaining
  <2>1. n \in Nat /\ n <= Batch /\ {spent, Batch, connectTimeout, sendTimeout} \subseteq Nat
      BY <1>1, GraphiteAssumption DEF TypeOK
  <2>2. n * sendTimeout <= Batch * sendTimeout /\ {n * sendTimeout, Batch * sendTimeout} \subseteq Nat
      BY <2>1, OneMorePiece
  <2>3. \/ spent = 0
        \/ spent <= connectTimeout + n * sendTimeout
        \/ spent <= connectTimeout + Batch * sendTimeout
      BY <1>1 DEF TypeOK, OnTime
  <2> QED BY <2>1, <2>2, <2>3 DEF CallsAreBounded
<1> QED BY <1>1, OnTimeInit, OnTimeStep, FramedInit, FramedStep, TypeCorrect, PTL DEF Spec

-----------------------------------------------------------------------------
(* The back-off *)

(* Without a failure nothing is owed. *)
LEMMA SpacedInit == Init => Spaced
BY DEF Init, Spaced, Delay

(* Time that passes moves the next attempt nearer by no more than itself. *)
LEMMA PassKeepsSpaced ==
    ASSUME NEW d \in Nat, TypeOK, Spaced, Pass(d), UNCHANGED <<retryDelay, fails>>
    PROVE  Spaced'
<1>1. Delay(fails)' = Delay(fails)
    BY DEF Delay
<1> QED BY <1>1, PassType, GraphiteAssumption DEF TypeOK, Spaced

(* A failure doubles the delay and starts it anew. *)
LEMMA FailureKeepsSpaced ==
    ASSUME TypeOK, Spaced, noteFailure
    PROVE  Spaced'
<1>1. fails \in 0 .. kRetryMax
    BY DEF TypeOK
<1>2. retryDelay' = Delay(Min({fails + 1, kRetryMax}))
    BY <1>1, DelayGrows DEF noteFailure, Spaced
<1>3. retryDelay' = Delay(fails')
    BY <1>2 DEF noteFailure
<1>4. due' = retryDelay' /\ since' = 0 /\ retryDelay' \in 0 .. kRetryMax
    BY FailureType DEF noteFailure
<1> QED BY <1>3, <1>4, GraphiteAssumption DEF Spaced, Delay

(* Every step keeps the distance: what is left of the delay and what has     *)
(* passed since the failure make up the delay.                               *)
LEMMA SpacedStep == ASSUME TypeOK, Spaced, [Next]_vars PROVE Spaced'
<1> USE GraphiteAssumption
<1>1. CASE Skip \/ Begin \/ Reads \/ ServerChanges \/ UNCHANGED vars
  <2>1. UNCHANGED backoffVars
      BY <1>1 DEF Skip, Begin, Reads, ServerChanges, vars
  <2> QED BY <2>1 DEF backoffVars, Spaced, Delay
<1>2. CASE NoSocket \/ Refused \/ NotSent
    BY <1>2, FailureKeepsSpaced DEF NoSocket, Refused, NotSent
<1>3. CASE Connected \/ Sent \/ Tick
  <2>1. PICK d \in Nat : Pass(d)
      BY <1>3 DEF Connected, Sent, Tick
  <2>2. UNCHANGED <<retryDelay, fails>>
      BY <1>3 DEF Connected, Sent, Tick
  <2> QED BY <2>1, <2>2, PassKeepsSpaced
<1>4. CASE Done
    BY <1>4 DEF Done, noteSuccess, TypeOK, Spaced, Delay
<1> QED BY ONLY [Next]_vars, <1>1, <1>2, <1>3, <1>4 DEF Next, Call

(* For any first delay and any cap: the attempt after n failures in a row    *)
(* comes no sooner than Delay(n) after the last of them.                     *)
THEOREM SpacedAttempts == Spec => AttemptsSpaced
<1>1. ASSUME TypeOK, Spaced, [Next]_vars
      PROVE  [at = "idle" /\ at' = "connect" => since >= Delay(fails)]_vars
  <2> SUFFICES ASSUME at = "idle", at' = "connect" PROVE since >= Delay(fails)
      OBVIOUS
  <2>1. Begin /\ ~fd
      BY <1>1 DEF Next, Call, Skip, Begin, NoSocket, noteFailure, Connected, Refused, Sent, NotSent,
                  Done, noteSuccess, Tick, Reads, ServerChanges, vars
  <2>2. retryDelay = 0 \/ due = 0
      BY <1>1, <2>1 DEF Begin, backingOff, TypeOK
  <2> QED BY <1>1, <2>2 DEF TypeOK, Spaced
<1> QED BY <1>1, SpacedInit, SpacedStep, TypeCorrect, PTL DEF Spec, AttemptsSpaced
=============================================================================

-------------------------- MODULE UploadPlanProofs --------------------------
(***************************************************************************)
(* UploadPlan cuts a file of any size into parts that fit, for any         *)
(* threshold, chunk, limit of parts and unit, so no upload session is      *)
(* written whose file cannot be sent by its plan.                          *)
(***************************************************************************)
EXTENDS UploadSessionMC, TLAPS

\* The rounded-up quotient, with no division in it.
LEMMA CeilDivBounds ==
  ASSUME NEW a \in Nat \ {0}, NEW b \in Nat \ {0}
  PROVE  /\ CeilDiv(a, b) \in Nat \ {0}
         /\ (CeilDiv(a, b) - 1) * b < a
         /\ a <= CeilDiv(a, b) * b
<1> DEFINE n == a + b - 1
           q == n \div b
<1>1. n \in Nat /\ n >= b
  OBVIOUS
<1>2. q \in Int /\ q * b <= n /\ n < q * b + b
  BY <1>1, Z3
<1>3. q >= 1
  BY <1>1, <1>2, Z3
<1>4. (q - 1) * b = q * b - b
  BY <1>2, Z3
<1> QED BY <1>1, <1>2, <1>3, <1>4 DEF CeilDiv

LEMMA ProductsAreOrdered ==
  ASSUME NEW i \in Int, NEW j \in Int, NEW c \in Nat, i <= j
  PROVE  i * c <= j * c
BY Z3

\* A larger chunk holds a MaxParts-th of the file.
LEMMA LargeChunkHolds ==
  ASSUME NEW size \in Nat \ {0}
  PROVE  LargeChunk(size) \in Nat \ {0} /\ size <= MaxParts * LargeChunk(size)
<1> DEFINE share == CeilDiv(size, MaxParts)
<1>1. share \in Nat \ {0} /\ size <= share * MaxParts
  BY CeilDivBounds, PlanAssumption
<1>2. /\ CeilDiv(share, MiB) \in Nat \ {0}
      /\ share <= CeilDiv(share, MiB) * MiB
  BY <1>1, CeilDivBounds, PlanAssumption
<1> HIDE DEF share
<1>3. LargeChunk(size) = CeilDiv(share, MiB) * MiB
  BY DEF LargeChunk, share
<1>4. LargeChunk(size) \in Nat /\ LargeChunk(size) >= share
  BY <1>2, <1>3, PlanAssumption, Z3
<1>5. share * MaxParts <= LargeChunk(size) * MaxParts
  BY <1>1, <1>4, ProductsAreOrdered, PlanAssumption
<1>6. LargeChunk(size) * MaxParts = MaxParts * LargeChunk(size)
  BY <1>4, PlanAssumption, Z3
<1> QED BY <1>1, <1>4, <1>5, <1>6, PlanAssumption

\* Whatever the mode, count chunks hold the file, count - 1 do not, and S3
\* takes count parts.
LEMMA ChunksCover ==
  ASSUME NEW size \in Nat \ {0}
  PROVE  /\ ChunkSize(size) \in Nat \ {0}
         /\ ChunkCount(size) \in 1..MaxParts
         /\ (ChunkCount(size) - 1) * ChunkSize(size) < size
         /\ size <= ChunkCount(size) * ChunkSize(size)
<1>1. CASE ~IsMultipart(size)
  BY <1>1, PlanAssumption DEF ChunkSize, ChunkCount
<1>2. CASE IsMultipart(size)
  <2> DEFINE c == ChunkSize(size)
             k == CeilDiv(size, c)
  <2>1. ChunkCount(size) = k
    BY <1>2 DEF ChunkCount
  <2>2. c \in Nat \ {0}
    BY <1>2, LargeChunkHolds, PlanAssumption DEF ChunkSize
  <2> HIDE DEF c
  <2>3. k \in Nat \ {0} /\ (k - 1) * c < size /\ size <= k * c
    BY <2>2, CeilDivBounds
  <2>4. k <= MaxParts
    <3>1. CASE c = DefaultChunk /\ CeilDiv(size, DefaultChunk) <= MaxParts
      BY <3>1
    <3>2. CASE c = LargeChunk(size)
      <4>1. size <= MaxParts * c
        BY <3>2, LargeChunkHolds
      <4>2. (k - 1) * c < MaxParts * c
        BY <2>2, <2>3, <4>1, PlanAssumption, Z3
      <4>3. ~(MaxParts <= k - 1)
        BY <2>2, <2>3, <4>2, ProductsAreOrdered, PlanAssumption, Z3
      <4> QED BY <2>3, <4>3, PlanAssumption
    <3>3. CeilDiv(size, DefaultChunk) \in Nat
      BY CeilDivBounds, PlanAssumption
    <3> QED BY <1>2, <3>1, <3>2, <3>3, PlanAssumption DEF ChunkSize, c
  <2> QED BY <2>1, <2>2, <2>3, <2>4, PlanAssumption DEF c
<1> QED BY <1>1, <1>2

\* A part starts where the one before it ends, and only the last is short.
LEMMA SliceBounds ==
  ASSUME NEW size \in Nat \ {0}, NEW p \in 1..ChunkCount(size)
  PROVE  /\ SliceStart(size, p) < size
         /\ SliceEnd(size, p) \in Int
         /\ SliceEnd(size, p) > SliceStart(size, p)
         /\ SliceEnd(size, p) - SliceStart(size, p) <= ChunkSize(size)
         /\ p < ChunkCount(size) => SliceEnd(size, p) = SliceStart(size, p + 1)
         /\ p < ChunkCount(size) =>
              SliceEnd(size, p) - SliceStart(size, p) = ChunkSize(size)
         /\ p = ChunkCount(size) => SliceEnd(size, p) = size
<1> DEFINE c == ChunkSize(size)
           k == ChunkCount(size)
<1>1. c \in Nat \ {0} /\ k \in Nat /\ (k - 1) * c < size /\ size <= k * c
  BY ChunksCover, PlanAssumption
<1> HIDE DEF c, k
<1>2. p \in 1..k
  BY DEF k
<1>3. (p - 1) * c <= (k - 1) * c
  BY <1>1, <1>2, ProductsAreOrdered
<1>4. (p - 1) * c \in Int /\ p * c \in Int /\ p * c = (p - 1) * c + c
      /\ (k - 1) * c \in Int /\ k * c \in Int
  BY <1>1, <1>2, Z3
<1>5. p < k => p * c <= (k - 1) * c
  BY <1>1, <1>2, ProductsAreOrdered
<1>6. SliceStart(size, p) = (p - 1) * c /\ SliceStart(size, p + 1) = p * c
  BY <1>2 DEF SliceStart, c
<1>7. SliceEnd(size, p) = IF p * c <= size THEN p * c ELSE size
  BY <1>4, <1>6 DEF SliceEnd, c
<1>8. p = k => SliceEnd(size, p) = size /\ size <= SliceStart(size, p) + c
  <2>1. CASE p = k
    <3>1. p * c = k * c
      BY <2>1
    <3> QED BY <1>1, <1>4, <1>6, <1>7, <3>1
  <2> QED BY <2>1
<1>9. p < k => SliceEnd(size, p) = SliceStart(size, p + 1)
  BY <1>1, <1>4, <1>5, <1>6, <1>7
<1>10. SliceStart(size, p) \in Int /\ SliceStart(size, p) < size
  BY <1>1, <1>3, <1>4, <1>6
<1>11. p < k => SliceStart(size, p + 1) = SliceStart(size, p) + c
  BY <1>4, <1>6
<1> QED BY <1>1, <1>2, <1>8, <1>9, <1>10, <1>11 DEF c, k

\* UploadPlan, the browser's slices and AuthorizePart agree for a file of any
\* size: S3 takes the number of parts, each slice is accepted as its part, and
\* the slices make up the file.
THEOREM PlanAlwaysFits == \A size \in Nat \ {0} : PlanFits(size)
<1> SUFFICES ASSUME NEW size \in Nat \ {0} PROVE PlanFits(size)
  OBVIOUS
<1> DEFINE k == ChunkCount(size)
<1>1. k \in 1..MaxParts /\ k \in Nat /\ ChunkSize(size) \in Nat
  BY ChunksCover, PlanAssumption
<1> HIDE DEF k
<1>2. ASSUME NEW p \in 1..k
      PROVE  Accepts(size, p, SliceEnd(size, p) - SliceStart(size, p))
  <2>1. p \in 1..ChunkCount(size) /\ SliceStart(size, p) \in Int
    BY <1>1, <1>2, Z3 DEF k, SliceStart
  <2> QED BY <2>1, SliceBounds DEF Accepts
<1>3. SliceStart(size, 1) = 0
  BY <1>1 DEF SliceStart
<1>4. SliceEnd(size, k) = size
  BY <1>1, SliceBounds DEF k
<1>5. \A p \in 1..(k - 1) : SliceEnd(size, p) = SliceStart(size, p + 1)
  BY <1>1, SliceBounds DEF k
<1> QED BY <1>1, <1>2, <1>3, <1>4, <1>5 DEF PlanFits, k

\* No session is ever written whose file has no plan by which it can be sent.
THEOREM EveryPlanFitsAlways == Spec => []EveryPlanFits
<1>1. EveryPlanFits
  <2> SUFFICES ASSUME NEW size \in 1..LargestSize PROVE PlanFits(size)
    BY DEF EveryPlanFits
  <2>1. size \in Nat \ {0}
    OBVIOUS
  <2> QED BY <2>1, PlanAlwaysFits
<1> QED BY <1>1, PTL
=============================================================================

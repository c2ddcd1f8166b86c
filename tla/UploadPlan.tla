----------------------------- MODULE UploadPlan -----------------------------
(***************************************************************************)
(* How a file is cut into parts: UploadPlan of file_srv/utils/upload.go,   *)
(* the slices the browser sends by it and the sizes AuthorizePart takes.   *)
(* A size is below 2^53, so the plan's floating-point quotients round up   *)
(* to what integer division gives.                                         *)
(***************************************************************************)
EXTENDS Integers

CONSTANTS
  SingleThreshold, DefaultChunk,   \* 64 MiB and 16 MiB
  MaxParts,                        \* 9500, of the 10 000 S3 allows
  MiB                              \* a larger chunk is a multiple of it

ASSUME PlanAssumption ==
  /\ SingleThreshold \in Nat \ {0} /\ DefaultChunk \in Nat \ {0}
  /\ MaxParts \in Nat \ {0} /\ MiB \in Nat \ {0}

\* Mutant: the quotient is cut off.
FloorDiv(a, b) == a \div b

CeilDiv(a, b) == (a + b - 1) \div b

IsMultipart(size) == size > SingleThreshold

LargeChunk(size) == CeilDiv(CeilDiv(size, MaxParts), MiB) * MiB

ChunkSize(size) ==
  IF ~IsMultipart(size) THEN size
  ELSE IF CeilDiv(size, DefaultChunk) > MaxParts THEN LargeChunk(size)
  ELSE DefaultChunk

ChunkCount(size) ==
  IF IsMultipart(size) THEN CeilDiv(size, ChunkSize(size)) ELSE 1

\* The bytes from SliceStart up to, and without, SliceEnd are part p.
SliceStart(size, p) == (p - 1) * ChunkSize(size)

SliceEnd(size, p) ==
  IF SliceStart(size, p) + ChunkSize(size) <= size
  THEN SliceStart(size, p) + ChunkSize(size) ELSE size

\* AuthorizePart takes n bytes as part p.
Accepts(size, p, n) ==
  /\ p \in 1..ChunkCount(size)
  /\ n > 0 /\ n <= ChunkSize(size)
  /\ p < ChunkCount(size) => n = ChunkSize(size)

\* There are no more parts than S3 takes, the server accepts each slice the
\* browser sends, and the slices are the whole file, one after the other.
PlanFits(size) ==
  LET count == ChunkCount(size) IN
  /\ count \in 1..MaxParts
  /\ \A p \in 1..count : Accepts(size, p, SliceEnd(size, p) - SliceStart(size, p))
  /\ SliceStart(size, 1) = 0 /\ SliceEnd(size, count) = size
  /\ \A p \in 1..(count - 1) : SliceEnd(size, p) = SliceStart(size, p + 1)
=============================================================================

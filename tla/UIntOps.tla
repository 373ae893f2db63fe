------------------------------- MODULE UIntOps -------------------------------
(***************************************************************************)
(* UInt of src/uint: N bits, low bit first, beside a machine value that    *)
(* the operations keep up on their own.  As in BooleanOps an operation is  *)
(* the set of results that its constraints admit, empty for a panic.       *)
(***************************************************************************)
EXTENDS FpOps

LOCAL INSTANCE SequencesExt

CONSTANT N  \* the number of bits, at least one

UInt(w, v) == [bits |-> w, value |-> v]

UIntMax == Pow2[N] - 1

UConstant(v) == UInt([i \in 1 .. N |-> Const(BitsOf(v, N)[i])], v)

FromBitsLe(w) == UInt(w, WordValue(w))

IsConstant(ops) == \A i \in DOMAIN ops : AllConstant(ops[i].bits)

-----------------------------------------------------------------------------
(* Bits move, and the value by an operation of the machine.                *)

ByBits(op(_, _), a, b, v) ==
  {UInt(w, v) : w \in Products([i \in 1 .. N |-> op(a.bits[i], b.bits[i])])}

(* The operators of the machine integers.                                  *)
Machine(op(_, _), u, v) ==
  LET r[i \in 0 .. N] ==
        IF i = 0 THEN 0 ELSE r[i - 1] + op(BitsOf(u, N)[i], BitsOf(v, N)[i]) * Pow2[i - 1]
  IN r[N]

MachineAnd(u, v) == Machine(LAMBDA p, q : p * q, u, v)

MachineOr(u, v) == Machine(LAMBDA p, q : p + q - p * q, u, v)

MachineXor(u, v) == Machine(LAMBDA p, q : (p + q) % 2, u, v)

UAnd(a, b) == ByBits(And, a, b, MachineAnd(a.value, b.value))

UOr(a, b) == ByBits(Or, a, b, MachineOr(a.value, b.value))

UXor(a, b) == ByBits(Xor, a, b, MachineXor(a.value, b.value))

UNot(a) == UInt([i \in 1 .. N |-> Not(a.bits[i])], UIntMax - a.value)

(* Mutant: the machine value turns the way the slice of bits does.         *)
RotatedLeft(v, by) == ((v * Pow2[by]) % Pow2[N]) + (v \div Pow2[N - by])

RotatedRight(v, by) == (v \div Pow2[by]) + (v % Pow2[by]) * Pow2[N - by]

RotateRight(a, by) ==
  LET k == by % N
  IN UInt([i \in 1 .. N |-> a.bits[1 + ((i - 1 + k) % N)]], RotatedRight(a.value, k))

RotateLeft(a, by) ==
  LET k == by % N
  IN UInt([i \in 1 .. N |-> a.bits[1 + ((i - 1 + N - k) % N)]],
          RotatedRight(a.value, (N - k) % N))

Shl(a, by) ==
  IF by < N THEN {UInt([i \in 1 .. N |-> IF i > by THEN a.bits[i - by] ELSE FALSEBit],
                       (a.value * Pow2[by]) % Pow2[N])}
  ELSE {}

Shr(a, by) ==
  IF by < N THEN {UInt([i \in 1 .. N |-> IF i + by > N THEN FALSEBit ELSE a.bits[i + by]],
                       a.value \div Pow2[by])}
  ELSE {}

(* The value is that of the bits of the side selected.                     *)
USelect(cond, t, f) ==
  ByBits(LAMBDA x, y : Select(cond, x, y), t, f,
         WordValue(IF cond.value = 1 THEN t.bits ELSE f.bits))

-----------------------------------------------------------------------------
(* Sums: of field elements, cut into as many bits as the largest has.      *)

MaxValueSize(count) == N + Log2Ceil(count)

FieldSum(ops) == SumOf([i \in DOMAIN ops |-> CHOOSE e \in LeBitsToFp(ops[i].bits) : TRUE])

(* Mutant: the sum is cut into the bits of one operand.                    *)
SumBitsCut(ops) == ToBitsWithTopBitsZero(FieldSum(ops), N)

SumBits(ops) == ToBitsWithTopBitsZero(FieldSum(ops), MaxValueSize(Len(ops)))

AddManyHelper(ops) ==
  IF MaxValueSize(Len(ops)) > ModulusBits THEN {}
  ELSE IF Len(ops) = 1 THEN {ops[1].bits}
  ELSE IF IsConstant(ops) THEN {<< >>}
  ELSE IF MaxValueSize(Len(ops)) = ModulusBits THEN {}  \* an assertion of the conversion
  ELSE SumBits(ops)

Folded(ops, adder(_, _)) == FoldLeft(LAMBDA v, a : adder(v, a.value), 0, ops)

WrappingAddMany(ops) ==
  LET value == Folded(ops, LAMBDA v, a : (v + a) % Pow2[N])
  IN {IF IsConstant(ops) THEN UConstant(value) ELSE UInt(SubSeq(w, 1, N), value) :
      w \in AddManyHelper(ops)}

Saturating(v, a) == IF v + a > UIntMax THEN UIntMax ELSE v + a

SaturatingAddMany(ops) ==
  LET value == Folded(ops, Saturating)
      max   == UInt([i \in 1 .. N |-> TRUEBit], UIntMax)
      Result(w) ==
        IF IsConstant(ops) THEN {UConstant(value)}
        ELSE IF Len(w) = N THEN {FromBitsLe(w)}
        ELSE UNION {USelect(overflow, max, UInt(SubSeq(w, 1, N), value)) :
                    overflow \in KaryOr(SubSeq(w, N + 1, Len(w)))}
  IN UNION {Result(w) : w \in AddManyHelper(ops)}

-----------------------------------------------------------------------------
(* Comparison, in chunks that fit a field element.                         *)

ChunkSize == ModulusBits - 1

ChunkCount == (N + ChunkSize - 1) \div ChunkSize

(* Mutant: only the first chunk is compared.                               *)
ChunksFirst(a) == <<SubSeq(a.bits, 1, IF ChunkSize < N THEN ChunkSize ELSE N)>>

Chunks(a) ==
  [k \in 1 .. ChunkCount |->
     SubSeq(a.bits, (k - 1) * ChunkSize + 1, IF k * ChunkSize < N THEN k * ChunkSize ELSE N)]

ChunkValues(a) == [k \in DOMAIN Chunks(a) |-> CHOOSE e \in LeBitsToFp(Chunks(a)[k]) : TRUE]

UIsEq(a, b) ==
  Then(Products([k \in DOMAIN Chunks(a) |-> FpIsEq(ChunkValues(a)[k], ChunkValues(b)[k])]),
       KaryAnd)

UConditionalEnforceEqual(a, b, cond) ==
  \A k \in DOMAIN Chunks(a) :
    FpConditionalEnforceEqual(ChunkValues(a)[k], ChunkValues(b)[k], cond)

UConditionalEnforceNotEqual(a, b, cond) ==
  \A k \in DOMAIN Chunks(a) :
    FpConditionalEnforceNotEqual(ChunkValues(a)[k], ChunkValues(b)[k], cond)

ToFp(a) == IF N < ModulusBits THEN LeBitsToFp(a.bits) ELSE {}

FromFp(e) == IF N < ModulusBits THEN {FromBitsLe(w) : w \in ToBitsWithTopBitsZero(e, N)} ELSE {}

(* Mutant: the bit below the carry.                                        *)
CarryBelow(w) == w[N]

Carry(w) == w[N + 1]

(* The carry of a - b + 2^N.                                               *)
UIsGe(a, b) ==
  IF N + 1 < ModulusBits - 1
  THEN {Carry(w) : w \in UNION {ToBitsWithTopBitsZero(Add(Sub(x, y), Const(Red(Pow2[N]))), N + 1) :
                                x \in ToFp(a), y \in ToFp(b)}}
  ELSE {}
=============================================================================

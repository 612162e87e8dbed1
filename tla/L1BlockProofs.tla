---------------------------- MODULE L1BlockProofs ----------------------------
(***************************************************************************)
(* Proofs about the loader and its use by the context (L1Block), for every *)
(* word size, precision, estimator and set of attributes the assumptions   *)
(* allow.                                                                  *)
(***************************************************************************)
EXTENDS L1Block, L1FeeProofs, TLAPS

-----------------------------------------------------------------------------
(***************************************************************************)
(* Decoding the packed scalars slot.                                       *)
(***************************************************************************)
\* Each byte to_be_bytes yields of a natural is a byte.
LEMMA ByteOfType ==
  ASSUME NEW v \in Nat, NEW k \in 0..3
  PROVE  ByteOf(v, k) \in Byte
BY DEF ByteOf, Byte

\* The 32 bytes of slot 3 are bytes.
LEMMA ScalarsSlotBytesType ==
  ASSUME NEW a \in Attributes
  PROVE  ScalarsSlotBytes(a) \in [0..31 -> Byte]
<1>1. /\ a.baseFeeScalar \in Nat /\ a.blobBaseFeeScalar \in Nat
      /\ a.sequenceNumber.hi \in Nat /\ a.sequenceNumber.lo \in Nat
  BY AttributesAssumption DEF Attributes, IsUint32
<1>2. \A i \in 0..31 : ScalarsSlotBytes(a)[i] \in Byte
  BY <1>1, ByteOfType DEF ScalarsSlotBytes, Byte
<1>. QED  BY <1>2 DEF ScalarsSlotBytes

\* Floor division and remainder by a positive divisor, in the bound form
\* the SMT backend handles.
LEMMA DivBounds ==
  ASSUME NEW v \in Nat, NEW d \in Nat \ {0}
  PROVE  /\ v \div d \in Nat
         /\ (v \div d) * d <= v /\ v < (v \div d) * d + d
         /\ v % d = v - (v \div d) * d
BY Z3

\* from_be_slice of the four big-endian bytes of a uint32 gives it back.
LEMMA FromBeBytesOfUint32 ==
  ASSUME NEW v \in Nat, IsUint32(v)
  PROVE  ByteOf(v, 3) * 16777216 + ByteOf(v, 2) * 65536
           + ByteOf(v, 1) * 256 + ByteOf(v, 0) = v
<1>. DEFINE q1 == v \div 256
            q2 == v \div 65536
            q3 == v \div 16777216
<1>1. /\ ByteOf(v, 0) = v % 256 /\ ByteOf(v, 1) = q1 % 256
      /\ ByteOf(v, 2) = q2 % 256 /\ ByteOf(v, 3) = q3 % 256
  BY DEF ByteOf
<1>2. /\ q1 \in Nat /\ q1 * 256 <= v /\ v < q1 * 256 + 256 /\ v % 256 = v - q1 * 256
  BY DivBounds
<1>3. /\ q2 \in Nat /\ q2 * 65536 <= v /\ v < q2 * 65536 + 65536
  BY DivBounds
<1>4. /\ q3 \in Nat /\ q3 * 16777216 <= v /\ v < q3 * 16777216 + 16777216 /\ q3 < 256
  BY DivBounds DEF IsUint32
\* Dividing the quotient by 256 is dividing by the next power of 256.
<1>5. q1 % 256 = q1 - q2 * 256
  <2>1. /\ q1 \div 256 \in Nat /\ (q1 \div 256) * 256 <= q1
        /\ q1 < (q1 \div 256) * 256 + 256 /\ q1 % 256 = q1 - (q1 \div 256) * 256
    BY <1>2, DivBounds
  <2>2. q1 \div 256 = q2
    BY <1>2, <1>3, <2>1, Z3
  <2>. QED  BY <2>1, <2>2
<1>6. q2 % 256 = q2 - q3 * 256
  <2>1. /\ q2 \div 256 \in Nat /\ (q2 \div 256) * 256 <= q2
        /\ q2 < (q2 \div 256) * 256 + 256 /\ q2 % 256 = q2 - (q2 \div 256) * 256
    BY <1>3, DivBounds
  <2>2. q2 \div 256 = q3
    BY <1>3, <1>4, <2>1, Z3
  <2>. QED  BY <2>1, <2>2
<1>7. q3 % 256 = q3
  <2>1. /\ q3 \div 256 \in Nat /\ (q3 \div 256) * 256 <= q3
        /\ q3 % 256 = q3 - (q3 \div 256) * 256
    BY <1>4, DivBounds
  <2>2. q3 \div 256 = 0
    BY <1>4, <2>1, Z3
  <2>. QED  BY <2>1, <2>2
<1>8. (q3 % 256) * 16777216 + (q2 % 256) * 65536 + (q1 % 256) * 256 + (v % 256) = v
  BY <1>2, <1>5, <1>6, <1>7, Z3
<1>. QED  BY <1>1, <1>8

\* The window at a scalar's offset decodes to the bytes placed there.
LEMMA DecodeWindow ==
  ASSUME NEW a \in Attributes
  PROVE  /\ DecodeScalar(ScalarsSlotBytes(a), BASE_FEE_SCALAR_OFFSET) = a.baseFeeScalar
         /\ DecodeScalar(ScalarsSlotBytes(a), BLOB_BASE_FEE_SCALAR_OFFSET) = a.blobBaseFeeScalar
<1>1. /\ a.baseFeeScalar \in Nat /\ IsUint32(a.baseFeeScalar)
      /\ a.blobBaseFeeScalar \in Nat /\ IsUint32(a.blobBaseFeeScalar)
  BY AttributesAssumption DEF Attributes, IsUint32
<1>2. DecodeScalar(ScalarsSlotBytes(a), BASE_FEE_SCALAR_OFFSET)
        = ByteOf(a.baseFeeScalar, 3) * 16777216 + ByteOf(a.baseFeeScalar, 2) * 65536
            + ByteOf(a.baseFeeScalar, 1) * 256 + ByteOf(a.baseFeeScalar, 0)
  BY DEF DecodeScalar, FromBeSlice, Slice, ScalarsSlotBytes, BASE_FEE_SCALAR_OFFSET
<1>3. DecodeScalar(ScalarsSlotBytes(a), BLOB_BASE_FEE_SCALAR_OFFSET)
        = ByteOf(a.blobBaseFeeScalar, 3) * 16777216 + ByteOf(a.blobBaseFeeScalar, 2) * 65536
            + ByteOf(a.blobBaseFeeScalar, 1) * 256 + ByteOf(a.blobBaseFeeScalar, 0)
  BY DEF DecodeScalar, FromBeSlice, Slice, ScalarsSlotBytes, BLOB_BASE_FEE_SCALAR_OFFSET
<1>. QED  BY <1>1, <1>2, <1>3, FromBeBytesOfUint32

\* The byte range [16..24) is all zero exactly when both scalars are zero.
LEMMA EmptyWindowIffZeroScalars ==
  ASSUME NEW a \in Attributes
  PROVE  (Slice(ScalarsSlotBytes(a), BASE_FEE_SCALAR_OFFSET, BLOB_BASE_FEE_SCALAR_OFFSET + 4)
            = EMPTY_SCALARS)
         <=> (a.baseFeeScalar = 0 /\ a.blobBaseFeeScalar = 0)
<1>. DEFINE w == Slice(ScalarsSlotBytes(a), BASE_FEE_SCALAR_OFFSET,
                       BLOB_BASE_FEE_SCALAR_OFFSET + 4)
            b == a.baseFeeScalar
            c == a.blobBaseFeeScalar
<1>1. b \in Nat /\ IsUint32(b) /\ c \in Nat /\ IsUint32(c)
  BY AttributesAssumption DEF Attributes, IsUint32
<1>2. w = [i \in 0..7 |-> IF i < 4 THEN ByteOf(b, 3 - i) ELSE ByteOf(c, 7 - i)]
  BY DEF Slice, ScalarsSlotBytes, BASE_FEE_SCALAR_OFFSET, BLOB_BASE_FEE_SCALAR_OFFSET
<1>3. ASSUME w = EMPTY_SCALARS PROVE b = 0 /\ c = 0
  <2>1. /\ ByteOf(b, 3) = 0 /\ ByteOf(b, 2) = 0 /\ ByteOf(b, 1) = 0 /\ ByteOf(b, 0) = 0
        /\ ByteOf(c, 3) = 0 /\ ByteOf(c, 2) = 0 /\ ByteOf(c, 1) = 0 /\ ByteOf(c, 0) = 0
    BY <1>2, <1>3 DEF EMPTY_SCALARS
  <2>. QED  BY <1>1, <2>1, FromBeBytesOfUint32
<1>4. ASSUME b = 0 /\ c = 0 PROVE w = EMPTY_SCALARS
  BY <1>2, <1>4 DEF EMPTY_SCALARS, ByteOf
<1>. QED  BY <1>3, <1>4

-----------------------------------------------------------------------------
(***************************************************************************)
(* try_fetch builds the record the era's layout prescribes.                *)
(***************************************************************************)
\* try_fetch's record is ExpectedInfo, for every upgrade and attributes.
LEMMA FetchedInfoIsExpected ==
  ASSUME NEW s \in OpSpecIds, NEW a \in Attributes
  PROVE  FetchedInfo(s, a) = ExpectedInfo(s, a)
<1>0. s \in Nat
  BY DEF OpSpecIds, BEDROCK, REGOLITH, ECOTONE, FJORD
<1>1. CASE s < ECOTONE
  <2>1. FetchedInfo(s, a) = FetchedInfoLegacy(a)
    BY <1>0, <1>1 DEF FetchedInfo, IsEnabledIn, ECOTONE
  <2>2. /\ Sload(a, L1_BASE_FEE_SLOT) = a.l1BaseFee
        /\ Sload(a, L1_OVERHEAD_SLOT) = a.l1FeeOverhead
        /\ Sload(a, L1_SCALAR_SLOT) = a.l1FeeScalar
    BY DEF Sload, L1_BASE_FEE_SLOT, L1_OVERHEAD_SLOT, L1_SCALAR_SLOT,
           ECOTONE_L1_BLOB_BASE_FEE_SLOT, ECOTONE_L1_FEE_SCALARS_SLOT
  <2>3. ExpectedInfo(s, a)
          = [l1_base_fee |-> a.l1BaseFee, l1_fee_overhead |-> a.l1FeeOverhead,
             l1_base_fee_scalar |-> a.l1FeeScalar, l1_blob_base_fee |-> None,
             l1_blob_base_fee_scalar |-> None, empty_scalars |-> FALSE]
    BY <1>1 DEF ExpectedInfo
  <2>. QED  BY <2>1, <2>2, <2>3 DEF FetchedInfoLegacy, DefaultL1BlockInfo
<1>2. CASE ~(s < ECOTONE)
  <2>1. FetchEmptyScalars(a)
          <=> (a.blobBaseFee = 0 /\ a.baseFeeScalar = 0 /\ a.blobBaseFeeScalar = 0)
    BY EmptyWindowIffZeroScalars DEF FetchEmptyScalars, Sload, L1_BASE_FEE_SLOT,
         L1_OVERHEAD_SLOT, L1_SCALAR_SLOT, ECOTONE_L1_BLOB_BASE_FEE_SLOT,
         ECOTONE_L1_FEE_SCALARS_SLOT
  <2>2. Sload(a, ECOTONE_L1_FEE_SCALARS_SLOT) = ScalarsSlotBytes(a)
    BY DEF Sload, L1_BASE_FEE_SLOT, L1_OVERHEAD_SLOT, L1_SCALAR_SLOT,
           ECOTONE_L1_BLOB_BASE_FEE_SLOT, ECOTONE_L1_FEE_SCALARS_SLOT
  <2>3. FetchedInfo(s, a) = FetchedInfoEcotone(a)
    BY <1>0, <1>2 DEF FetchedInfo, IsEnabledIn, ECOTONE
  <2>4. /\ Sload(a, L1_BASE_FEE_SLOT) = a.l1BaseFee
        /\ Sload(a, L1_OVERHEAD_SLOT) = a.l1FeeOverhead
        /\ Sload(a, ECOTONE_L1_BLOB_BASE_FEE_SLOT) = a.blobBaseFee
    BY DEF Sload, L1_BASE_FEE_SLOT, L1_OVERHEAD_SLOT, L1_SCALAR_SLOT,
           ECOTONE_L1_BLOB_BASE_FEE_SLOT, ECOTONE_L1_FEE_SCALARS_SLOT
  <2>5. ExpectedInfo(s, a)
          = LET empty == a.blobBaseFee = 0 /\ a.baseFeeScalar = 0 /\ a.blobBaseFeeScalar = 0
            IN [l1_base_fee |-> a.l1BaseFee,
                l1_fee_overhead |-> IF empty THEN a.l1FeeOverhead ELSE None,
                l1_base_fee_scalar |-> a.baseFeeScalar, l1_blob_base_fee |-> a.blobBaseFee,
                l1_blob_base_fee_scalar |-> a.blobBaseFeeScalar, empty_scalars |-> empty]
    BY <1>2 DEF ExpectedInfo
  <2>. DEFINE emptyF == FetchEmptyScalars(a)
              emptyE == a.blobBaseFee = 0 /\ a.baseFeeScalar = 0 /\ a.blobBaseFeeScalar = 0
  <2>6. FetchedInfoEcotone(a)
          = [l1_base_fee |-> a.l1BaseFee,
             l1_fee_overhead |-> IF emptyF THEN a.l1FeeOverhead ELSE None,
             l1_base_fee_scalar |-> a.baseFeeScalar, l1_blob_base_fee |-> a.blobBaseFee,
             l1_blob_base_fee_scalar |-> a.blobBaseFeeScalar, empty_scalars |-> emptyF]
    BY <2>2, <2>4, DecodeWindow DEF FetchedInfoEcotone
  <2>7. emptyF = emptyE
    BY <2>1, Zenon DEF FetchEmptyScalars
  <2>. QED  BY <2>3, <2>5, <2>6, <2>7
<1>. QED  BY <1>1, <1>2

\* ExpectedInfo is a well-formed L1BlockInfo.
LEMMA ExpectedInfoType ==
  ASSUME NEW s \in OpSpecIds, NEW a \in Attributes
  PROVE  ExpectedInfo(s, a) \in L1BlockInfoType
<1>1. /\ a.l1BaseFee \in U256 /\ a.l1FeeOverhead \in U256 /\ a.l1FeeScalar \in U256
      /\ a.blobBaseFee \in U256 /\ a.baseFeeScalar \in Nat /\ a.blobBaseFeeScalar \in Nat
  BY AttributesAssumption DEF Attributes, IsUint32
<1>2. U256 \subseteq Nat
  BY DEF U256
<1>. QED  BY <1>1, <1>2 DEF ExpectedInfo, L1BlockInfoType, Option

-----------------------------------------------------------------------------
(***************************************************************************)
(* The invariants.                                                         *)
(***************************************************************************)
\* TypeOK together with InfoMatchesOracle is inductive: the oracle fixes
\* the record try_fetch stores, and its type follows from it.
IInv == TypeOK /\ InfoMatchesOracle

LEMMA InitIInv == Init => IInv
<1>. SUFFICES ASSUME Init PROVE IInv
  OBVIOUS
<1>1. DefaultL1BlockInfo \in L1BlockInfoType
  BY MaxU256Assumption DEF DefaultL1BlockInfo, L1BlockInfoType, Option, U256
<1>. QED  BY <1>1 DEF Init, IInv, TypeOK, InfoMatchesOracle

LEMMA NextIInv == IInv /\ [Next]_vars => IInv'
<1>. SUFFICES ASSUME IInv, [Next]_vars PROVE IInv'
  OBVIOUS
<1>. USE DEF IInv, TypeOK, InfoMatchesOracle
<1>1. CASE NewBlock
  BY <1>1 DEF NewBlock
<1>2. CASE TryFetchOk
  <2>1. chain' = ExpectedInfo(spec, attrs)
    BY <1>2, FetchedInfoIsExpected DEF TryFetchOk
  <2>. QED  BY <1>2, <2>1, ExpectedInfoType DEF TryFetchOk
<1>3. CASE \E call \in 1..Len(FetchCalls(spec, attrs)) : TryFetchErr(call)
  BY <1>3 DEF TryFetchErr
<1>4. CASE \E input \in TxInputs : ChargeTx(input)
  <2>1. PICK input \in TxInputs : ChargeTx(input)
    BY <1>4
  <2>2. CalculateTxL1Cost(chain, input, spec) \in U256
    BY CalculateTxL1CostType
  <2>. QED  BY <2>1, <2>2 DEF ChargeTx
<1>5. CASE UNCHANGED vars
  BY <1>5 DEF vars
<1>. QED  BY <1>1, <1>2, <1>3, <1>4, <1>5 DEF Next

(***************************************************************************)
(* Whenever try_fetch has loaded a block's record, the context holds       *)
(* exactly the attributes the L1Block contract holds, in the era's layout  *)
(* (l1block.rs 77-128): the uint32 scalars decoded from their windows of   *)
(* the packed slot, empty_scalars exactly when the blob base fee and both  *)
(* scalars are zero, whatever the sequence number beside them.             *)
(***************************************************************************)
THEOREM LoaderCorrect == Spec => []InfoMatchesOracle
<1>1. IInv => InfoMatchesOracle
  BY DEF IInv
<1>. QED  BY InitIInv, NextIInv, <1>1, PTL DEF Spec

=============================================================================

------------------------- MODULE L1EmptyScalarsProofs ------------------------
(***************************************************************************)
(* From Ecotone on, while the packed scalars slot is still empty, every    *)
(* fee calculate_tx_l1_cost charges is 0, for every word size, precision,  *)
(* estimator and set of attributes whose word holds the pre-Regolith gas   *)
(* of the payloads: the finding FirstEcotoneBlockIsBedrock in general.     *)
(***************************************************************************)
EXTENDS L1FeeExactProofs, TLAPS

-----------------------------------------------------------------------------
(***************************************************************************)
(* The exact fee of the record try_fetch builds from empty scalars.       *)
(***************************************************************************)
\* The gas of the pre-Fjord formulas, and the scaled fee of Ecotone and
\* Fjord, of the attributes a.
GasOf(input, s) ==
  RollupDataGas(input) + (IF s < REGOLITH THEN NON_ZERO_BYTE_COST * 68 ELSE 0)
ScaledOf(a) ==
  a.l1BaseFee * NON_ZERO_BYTE_COST * a.baseFeeScalar + a.blobBaseFee * a.blobBaseFeeScalar
ScalarsZero(a) == a.blobBaseFee = 0 /\ a.baseFeeScalar = 0 /\ a.blobBaseFeeScalar = 0

\* The attributes, the gas and the scaled fee are naturals.
LEMMA OperandsType ==
  ASSUME NEW a \in Attributes, NEW input \in TxInputs, NEW s \in OpSpecIds
  PROVE  /\ a.l1BaseFee \in Nat /\ a.l1FeeOverhead \in Nat /\ a.l1FeeScalar \in Nat
         /\ a.blobBaseFee \in Nat /\ a.baseFeeScalar \in Nat /\ a.blobBaseFeeScalar \in Nat
         /\ GasOf(input, s) \in Nat /\ ScaledOf(a) \in Nat
         /\ EstimateTxCompressedSize(input) \in Nat
<1>1. /\ a.l1BaseFee \in U256 /\ a.l1FeeOverhead \in U256 /\ a.l1FeeScalar \in U256
      /\ a.blobBaseFee \in U256 /\ a.baseFeeScalar \in Nat /\ a.blobBaseFeeScalar \in Nat
  BY AttributesAssumption DEF Attributes, IsUint32
<1>2. U256 \subseteq Nat
  BY DEF U256
<1>3. input \in Seq(Byte) /\ EstimateTxCompressedSize(input) \in Nat
  BY TxInputsAssumption
<1>4. RollupDataGas(input) \in Nat
  BY <1>3, RollupDataGasType
<1>5. /\ a.l1BaseFee \in Nat /\ a.l1FeeOverhead \in Nat /\ a.l1FeeScalar \in Nat
      /\ a.blobBaseFee \in Nat
  BY <1>1, <1>2
<1>6. GasOf(input, s) \in Nat
  BY <1>4 DEF GasOf, NON_ZERO_BYTE_COST
<1>7. ScaledOf(a) \in Nat
  BY <1>1, <1>5 DEF ScaledOf, NON_ZERO_BYTE_COST
<1>. QED  BY <1>1, <1>3, <1>5, <1>6, <1>7

\* Ecotone with empty scalars: the fallback multiplies by the base-fee
\* scalar, which is zero.
LEMMA ExpectedFeeFallback ==
  ASSUME NEW a \in Attributes, NEW input \in TxInputs,
         ~(input = <<>> \/ input[1] = DEPOSIT_TX_TYPE), ScalarsZero(a)
  PROVE  ExactFee(ExpectedInfo(ECOTONE, a), input, ECOTONE) = 0
<1>1. a.l1FeeOverhead \in Nat /\ a.l1BaseFee \in Nat /\ GasOf(input, ECOTONE) \in Nat
  BY OperandsType DEF OpSpecIds
<1>2. UnwrapOrDefault(a.l1FeeOverhead) = a.l1FeeOverhead
  BY <1>1, NoneAssumption DEF UnwrapOrDefault
<1>3. ~(ECOTONE >= FJORD) /\ ~(ECOTONE < ECOTONE)
  BY DEF ECOTONE, FJORD
<1>4. ExactFee(ExpectedInfo(ECOTONE, a), input, ECOTONE)
        = Clamp((GasOf(input, ECOTONE) + a.l1FeeOverhead) * a.l1BaseFee * 0) \div Precision
  BY <1>2, <1>3 DEF ExactFee, ExpectedInfo, ScalarsZero, GasOf
<1>5. Clamp((GasOf(input, ECOTONE) + a.l1FeeOverhead) * a.l1BaseFee * 0) = 0
  BY <1>1, MaxU256Assumption DEF Clamp
<1>. QED  BY <1>4, <1>5, PrecisionAssumption

\* Fjord: the estimated size times the scaled fee.
LEMMA ExpectedFeeFjord ==
  ASSUME NEW a \in Attributes, NEW input \in TxInputs,
         ~(input = <<>> \/ input[1] = DEPOSIT_TX_TYPE)
  PROVE  ExactFee(ExpectedInfo(FJORD, a), input, FJORD)
           = Clamp(EstimateTxCompressedSize(input) * ScaledOf(a)) \div FjordPrecision
<1>1. a.blobBaseFee \in Nat /\ a.blobBaseFeeScalar \in Nat
  BY OperandsType DEF OpSpecIds
<1>2. UnwrapOrDefault(a.blobBaseFee) = a.blobBaseFee
      /\ UnwrapOrDefault(a.blobBaseFeeScalar) = a.blobBaseFeeScalar
  BY <1>1, NoneAssumption DEF UnwrapOrDefault
<1>3. FJORD >= FJORD /\ ~(FJORD < ECOTONE)
  BY DEF ECOTONE, FJORD
<1>. QED  BY <1>2, <1>3 DEF ExactFee, ExpectedInfo, ScaledOf

-----------------------------------------------------------------------------
(***************************************************************************)
(* The invariant.  FInv ties each charged fee to the exact formula on the  *)
(* block's record; a fee is charged only in a block whose record is        *)
(* loaded, so that record is the oracle's.                                 *)
(***************************************************************************)
MInv == FInv /\ (charged # None => phase = "ready")

LEMMA InitMInv == Init => MInv
<1>. SUFFICES ASSUME Init PROVE MInv
  OBVIOUS
<1>. QED  BY InitFInv DEF Init, MInv

LEMMA NextMInv == GasFitsWord /\ MInv /\ [Next]_vars => MInv'
<1>. SUFFICES ASSUME GasFitsWord, MInv, [Next]_vars PROVE MInv'
  OBVIOUS
<1>1. FInv'
  BY NextFInv DEF MInv
<1>2. CASE NewBlock
  BY <1>1, <1>2 DEF NewBlock, MInv
<1>3. CASE TryFetchOk
  BY <1>1, <1>3 DEF TryFetchOk, MInv
<1>4. CASE \E call \in 1..Len(FetchCalls(spec, attrs)) : TryFetchErr(call)
  \* try_fetch fails only while the load is pending, when nothing is charged.
  <2>1. phase = "start" /\ charged' = charged
    BY <1>4 DEF TryFetchErr
  <2>2. charged = None
    BY <2>1 DEF MInv, FInv
  <2>. QED  BY <1>1, <2>1, <2>2 DEF MInv
<1>5. CASE \E input \in TxInputs : ChargeTx(input)
  BY <1>1, <1>5 DEF ChargeTx, MInv
<1>6. CASE UNCHANGED vars
  BY <1>1, <1>6 DEF vars, MInv
<1>. QED  BY <1>2, <1>3, <1>4, <1>5, <1>6 DEF Next
-----------------------------------------------------------------------------
(***************************************************************************)
(* The empty-scalars blocks.  From Ecotone on, while the packed scalars    *)
(* slot is still zero, try_fetch sets empty_scalars and loads the          *)
(* base-fee scalar 0; the Bedrock fallback of calculate_tx_l1_cost_ecotone *)
(* (l1block.rs 206-211) and, once Fjord is active, the Fjord formula that  *)
(* calculate_tx_l1_cost dispatches to first (l1block.rs 176) both multiply *)
(* by it.  This is the finding FirstEcotoneBlockIsBedrock shows on one     *)
(* instance, for every word size, precision, estimator and attributes.     *)
(***************************************************************************)
EmptyScalarsChargeNothing ==
  (charged # None /\ spec >= ECOTONE /\ chain.empty_scalars) => charged.fee = 0

\* With empty scalars the Fjord formula charges nothing either.
LEMMA ExpectedFeeFjordEmpty ==
  ASSUME NEW a \in Attributes, NEW input \in TxInputs, ScalarsZero(a)
  PROVE  ExactFee(ExpectedInfo(FJORD, a), input, FJORD) = 0
<1>1. CASE input = <<>> \/ input[1] = DEPOSIT_TX_TYPE
  BY <1>1 DEF ExactFee
<1>2. CASE ~(input = <<>> \/ input[1] = DEPOSIT_TX_TYPE)
  <2>1. ScaledOf(a) = 0 /\ EstimateTxCompressedSize(input) \in Nat
    BY OperandsType DEF ScaledOf, ScalarsZero, OpSpecIds, NON_ZERO_BYTE_COST
  <2>2. Clamp(EstimateTxCompressedSize(input) * 0) = 0
    BY <2>1, MaxU256Assumption DEF Clamp
  <2>. QED  BY <1>2, <2>1, <2>2, ExpectedFeeFjord, PrecisionAssumption
<1>. QED  BY <1>1, <1>2

LEMMA MInvEmptyScalars == GasFitsWord /\ MInv => EmptyScalarsChargeNothing
<1>. SUFFICES ASSUME GasFitsWord, MInv, charged # None, spec >= ECOTONE, chain.empty_scalars
              PROVE  charged.fee = 0
  BY DEF EmptyScalarsChargeNothing
<1>1. /\ chain = ExpectedInfo(spec, attrs)
      /\ spec \in OpSpecIds /\ attrs \in Attributes /\ charged.input \in TxInputs
  BY DEF MInv, FInv, IInv, TypeOK, InfoMatchesOracle
<1>2. charged.fee = ExactFee(ExpectedInfo(spec, attrs), charged.input, spec)
  BY <1>1 DEF MInv, FInv, FeeIsClampedExact
<1>3. spec \in {ECOTONE, FJORD}
  BY <1>1 DEF OpSpecIds, BEDROCK, REGOLITH, ECOTONE, FJORD
<1>4. ScalarsZero(attrs)
  BY <1>1, <1>3 DEF ExpectedInfo, ScalarsZero, ECOTONE, FJORD
<1>5. CASE spec = ECOTONE
  <2>1. CASE charged.input = <<>> \/ charged.input[1] = DEPOSIT_TX_TYPE
    BY <1>2, <2>1 DEF ExactFee
  <2>. QED  BY <1>1, <1>2, <1>4, <1>5, <2>1, ExpectedFeeFallback
<1>6. CASE spec = FJORD
  BY <1>1, <1>2, <1>4, <1>6, ExpectedFeeFjordEmpty
<1>. QED  BY <1>3, <1>5, <1>6

(***************************************************************************)
(* From Ecotone on, in every block whose packed scalars slot is empty,     *)
(* calculate_tx_l1_cost charges every transaction 0, whether the Ecotone   *)
(* fallback to the Bedrock formula or the Fjord formula applies.           *)
(***************************************************************************)
THEOREM EmptyScalarsFree ==
  ASSUME GasFitsWord
  PROVE  Spec => []EmptyScalarsChargeNothing
<1>1. MInv /\ [Next]_vars => MInv'
  BY NextMInv
<1>2. MInv => EmptyScalarsChargeNothing
  BY MInvEmptyScalars
<1>. QED  BY InitMInv, <1>1, <1>2, PTL DEF Spec

=============================================================================

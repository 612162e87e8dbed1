----------------------------- MODULE L1FeeProofs -----------------------------
(***************************************************************************)
(* Facts about the fee calculator of L1Fee, for every value of MaxU256,    *)
(* Precision, FjordPrecision and the estimator: every U256 operation the   *)
(* code chains stays a word, and so does every fee calculate_tx_l1_cost    *)
(* returns for a well-formed L1BlockInfo.                                  *)
(***************************************************************************)
EXTENDS L1Fee, FiniteSetTheorems, TLAPS

\* saturating_mul and saturating_add of naturals return a word.
LEMMA SaturatingMulType ==
  ASSUME NEW a \in Nat, NEW b \in Nat
  PROVE  SaturatingMul(a, b) \in U256
BY MaxU256Assumption DEF SaturatingMul, U256

LEMMA SaturatingAddType ==
  ASSUME NEW a \in Nat, NEW b \in Nat
  PROVE  SaturatingAdd(a, b) \in U256
BY MaxU256Assumption DEF SaturatingAdd, U256

\* The `+=` of data_gas wraps into a word.
LEMMA WrappingAddType ==
  ASSUME NEW a \in Nat, NEW b \in Nat
  PROVE  WrappingAdd(a, b) \in U256
BY MaxU256Assumption DEF WrappingAdd, U256

\* wrapping_div of a word by a positive divisor is a word no larger.
LEMMA WrappingDivType ==
  ASSUME NEW x \in U256, NEW p \in Nat \ {0}
  PROVE  WrappingDiv(x, p) \in U256
<1>1. x \div p \in 0..x
  BY DEF U256
<1>. QED  BY <1>1, MaxU256Assumption DEF WrappingDiv, U256

\* unwrap_or_default of an optional natural is a natural.
LEMMA UnwrapOrDefaultType ==
  ASSUME NEW S \in SUBSET Nat, NEW o \in Option(S)
  PROVE  UnwrapOrDefault(o) \in Nat
BY NoneAssumption DEF UnwrapOrDefault, Option

\* The byte-weighted fold of data_gas is a natural number.
LEMMA RollupDataGasType ==
  ASSUME NEW input \in Seq(Byte)
  PROVE  RollupDataGas(input) \in Nat
<1>1. IsFiniteSet(1..Len(input))
  BY FS_Interval
<1>2. /\ Cardinality(ZeroBytes(input)) \in Nat
      /\ Cardinality(NonZeroBytes(input)) \in Nat
  BY <1>1, FS_Subset, FS_CardinalityType DEF ZeroBytes, NonZeroBytes
<1>. QED  BY <1>2 DEF RollupDataGas, ZERO_BYTE_COST, NON_ZERO_BYTE_COST

\* data_gas is a natural number in every upgrade.
LEMMA DataGasType ==
  ASSUME NEW info, NEW input \in TxInputs, NEW s \in OpSpecIds
  PROVE  DataGas(info, input, s) \in Nat
<1>1. input \in Seq(Byte) /\ EstimateTxCompressedSize(input) \in Nat
  BY TxInputsAssumption
<1>2. RollupDataGas(input) \in Nat
  BY <1>1, RollupDataGasType
<1>3. SaturatingMul(TxEstimatedSizeFjord(input), NON_ZERO_BYTE_COST) \in U256
  BY <1>1, SaturatingMulType DEF TxEstimatedSizeFjord, NON_ZERO_BYTE_COST
<1>4. WrappingDiv(SaturatingMul(TxEstimatedSizeFjord(input), NON_ZERO_BYTE_COST),
                  Precision) \in U256
  BY <1>3, PrecisionAssumption, WrappingDivType
<1>5. WrappingAdd(RollupDataGas(input), NON_ZERO_BYTE_COST * 68) \in U256
  BY <1>2, WrappingAddType DEF NON_ZERO_BYTE_COST
<1>. QED  BY <1>2, <1>4, <1>5, MaxU256Assumption DEF DataGas, U256

\* calculate_l1_fee_scaled_ecotone is a word.
LEMMA L1FeeScaledEcotoneType ==
  ASSUME NEW info \in L1BlockInfoType
  PROVE  L1FeeScaledEcotone(info) \in U256
<1>1. /\ info.l1_base_fee \in Nat /\ info.l1_base_fee_scalar \in Nat
      /\ UnwrapOrDefault(info.l1_blob_base_fee) \in Nat
      /\ UnwrapOrDefault(info.l1_blob_base_fee_scalar) \in Nat
  <2>1. info.l1_blob_base_fee \in Option(U256) /\ info.l1_blob_base_fee_scalar \in Option(Nat)
    BY DEF L1BlockInfoType
  <2>2. U256 \in SUBSET Nat
    BY DEF U256
  <2>. QED  BY <2>1, <2>2, UnwrapOrDefaultType DEF L1BlockInfoType, U256
<1>2. SaturatingMul(SaturatingMul(info.l1_base_fee, NON_ZERO_BYTE_COST),
                    info.l1_base_fee_scalar) \in U256
  <2>1. SaturatingMul(info.l1_base_fee, NON_ZERO_BYTE_COST) \in Nat
    <3>1. SaturatingMul(info.l1_base_fee, NON_ZERO_BYTE_COST) \in U256
      BY <1>1, SaturatingMulType DEF NON_ZERO_BYTE_COST
    <3>. QED  BY <3>1 DEF U256
  <2>. QED  BY <1>1, <2>1, SaturatingMulType
<1>3. SaturatingMul(UnwrapOrDefault(info.l1_blob_base_fee),
                    UnwrapOrDefault(info.l1_blob_base_fee_scalar)) \in U256
  BY <1>1, SaturatingMulType
<1>. QED  BY <1>2, <1>3, SaturatingAddType DEF L1FeeScaledEcotone, U256

\* calculate_tx_l1_cost_bedrock is a word.
LEMMA BedrockCostType ==
  ASSUME NEW info \in L1BlockInfoType, NEW input \in TxInputs, NEW s \in OpSpecIds
  PROVE  CalculateTxL1CostBedrock(info, input, s) \in U256
<1>1. /\ DataGas(info, input, s) \in Nat
      /\ UnwrapOrDefault(info.l1_fee_overhead) \in Nat
      /\ info.l1_base_fee \in Nat /\ info.l1_base_fee_scalar \in Nat
  <2>1. info.l1_fee_overhead \in Option(U256) /\ U256 \in SUBSET Nat
    BY DEF L1BlockInfoType, U256
  <2>. QED  BY <2>1, DataGasType, UnwrapOrDefaultType DEF L1BlockInfoType, U256
<1>2. SaturatingAdd(DataGas(info, input, s), UnwrapOrDefault(info.l1_fee_overhead)) \in U256
  BY <1>1, SaturatingAddType
<1>. DEFINE sum  == SaturatingAdd(DataGas(info, input, s), UnwrapOrDefault(info.l1_fee_overhead))
            prod == SaturatingMul(sum, info.l1_base_fee)
<1>3. sum \in Nat
  BY <1>2 DEF U256
<1>4. prod \in U256
  BY <1>1, <1>3, SaturatingMulType
<1>5. prod \in Nat
  BY <1>4 DEF U256
<1>6. SaturatingMul(prod, info.l1_base_fee_scalar) \in U256
  BY <1>1, <1>5, SaturatingMulType
<1>. QED  BY <1>6, PrecisionAssumption, WrappingDivType DEF CalculateTxL1CostBedrock

\* calculate_tx_l1_cost returns a word in every upgrade.
LEMMA CalculateTxL1CostType ==
  ASSUME NEW info \in L1BlockInfoType, NEW input \in TxInputs, NEW s \in OpSpecIds
  PROVE  CalculateTxL1Cost(info, input, s) \in U256
<1>1. CalculateTxL1CostBedrock(info, input, s) \in U256
  BY BedrockCostType
<1>2. L1FeeScaledEcotone(info) \in U256 /\ DataGas(info, input, s) \in Nat
  BY L1FeeScaledEcotoneType, DataGasType
<1>3. WrappingDiv(SaturatingMul(L1FeeScaledEcotone(info), DataGas(info, input, s)),
                  Precision * NON_ZERO_BYTE_COST) \in U256
  <2>1. SaturatingMul(L1FeeScaledEcotone(info), DataGas(info, input, s)) \in U256
    BY <1>2, SaturatingMulType DEF U256
  <2>2. Precision * NON_ZERO_BYTE_COST \in Nat \ {0}
    BY PrecisionAssumption DEF NON_ZERO_BYTE_COST
  <2>. QED  BY <2>1, <2>2, WrappingDivType
<1>4. CalculateTxL1CostEcotone(info, input, s) \in U256
  BY <1>1, <1>3 DEF CalculateTxL1CostEcotone
<1>5. CalculateTxL1CostFjord(info, input) \in U256
  <2>1. TxEstimatedSizeFjord(input) \in Nat
    BY TxInputsAssumption DEF TxEstimatedSizeFjord
  <2>2. SaturatingMul(TxEstimatedSizeFjord(input), L1FeeScaledEcotone(info)) \in U256
    BY <2>1, <1>2, SaturatingMulType DEF U256
  <2>. QED  BY <2>2, PrecisionAssumption, WrappingDivType DEF CalculateTxL1CostFjord
<1>6. 0 \in U256
  BY MaxU256Assumption DEF U256
<1>. QED  BY <1>1, <1>4, <1>5, <1>6 DEF CalculateTxL1Cost

=============================================================================

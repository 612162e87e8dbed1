---------------------------- MODULE L1VariantProofs ----------------------------
(***************************************************************************)
(* L1Block implements L1FeeVariant under the refinement mapping paramsBar, *)
(* for every word size, precision, estimator and set of attributes: the    *)
(* record try_fetch stores is read as the variant the era calls for, and   *)
(* every fee calculate_tx_l1_cost charges is the variant's formula.        *)
(***************************************************************************)
EXTENDS L1FeeExactProofs, TLAPS

\* The operators L1FeeVariant takes from L1Fee are those of L1Fee itself.
LEMMA InstanceOps ==
  /\ V!OpSpecIds = OpSpecIds
  /\ V!BEDROCK = BEDROCK /\ V!REGOLITH = REGOLITH
  /\ V!ECOTONE = ECOTONE /\ V!FJORD = FJORD
  /\ V!NON_ZERO_BYTE_COST = NON_ZERO_BYTE_COST /\ V!DEPOSIT_TX_TYPE = DEPOSIT_TX_TYPE
  /\ \A x : V!Clamp(x) = Clamp(x)
  /\ \A input : V!RollupDataGas(input) = RollupDataGas(input)
BY DEF V!OpSpecIds, OpSpecIds, V!BEDROCK, BEDROCK, V!REGOLITH, REGOLITH, V!ECOTONE, ECOTONE, V!FJORD, FJORD,
       V!NON_ZERO_BYTE_COST, NON_ZERO_BYTE_COST, V!DEPOSIT_TX_TYPE, DEPOSIT_TX_TYPE,
       V!Clamp, Clamp, V!RollupDataGas, RollupDataGas, V!ZeroBytes, ZeroBytes,
       V!NonZeroBytes, NonZeroBytes, V!ZERO_BYTE_COST, ZERO_BYTE_COST,
       V!Cardinality, Cardinality

\* The record try_fetch is expected to store, read as a variant, is the
\* variant the abstract loader builds from the same attributes.
LEMMA VariantOfExpected ==
  ASSUME NEW s \in OpSpecIds, NEW a \in Attributes
  PROVE  VariantOf(ExpectedInfo(s, a), s) = V!Params(s, a)
<1>. USE InstanceOps
<1>1. CASE s < ECOTONE
  BY <1>1 DEF VariantOf, ExpectedInfo, V!Params
<1>2. CASE ~(s < ECOTONE) /\ V!ScalarsEmpty(a)
  BY <1>2 DEF VariantOf, ExpectedInfo, V!Params, V!ScalarsEmpty
<1>3. CASE ~(s < ECOTONE) /\ ~V!ScalarsEmpty(a)
  BY <1>3 DEF VariantOf, ExpectedInfo, V!Params, V!ScalarsEmpty
<1>. QED  BY <1>1, <1>2, <1>3

\* On the expected record, the exact era formula of the flat record and the
\* variant's formula agree: the dispatch on empty_scalars is the dispatch on
\* the tag, and the unset optional fields read as zero are exactly the ones
\* the variant does not carry.
LEMMA ExactFeeIsVariantFee ==
  ASSUME NEW s \in OpSpecIds, NEW a \in Attributes, NEW input \in TxInputs
  PROVE  ExactFee(ExpectedInfo(s, a), input, s) = V!Fee(V!Params(s, a), input, s)
<1>. DEFINE info == ExpectedInfo(s, a)
            p    == V!Params(s, a)
<1>1. /\ a.l1BaseFee \in Nat /\ a.l1FeeOverhead \in Nat /\ a.l1FeeScalar \in Nat
      /\ a.blobBaseFee \in Nat /\ a.baseFeeScalar \in Nat /\ a.blobBaseFeeScalar \in Nat
  <2>1. /\ a.l1BaseFee \in U256 /\ a.l1FeeOverhead \in U256 /\ a.l1FeeScalar \in U256
        /\ a.blobBaseFee \in U256 /\ a.baseFeeScalar \in Nat /\ a.blobBaseFeeScalar \in Nat
    BY AttributesAssumption DEF Attributes, IsUint32
  <2>2. U256 \subseteq Nat
    BY DEF U256
  <2>. QED  BY <2>1, <2>2
<1>. USE InstanceOps
<1>2. UnwrapOrDefault(a.l1FeeOverhead) = a.l1FeeOverhead
      /\ UnwrapOrDefault(a.blobBaseFee) = a.blobBaseFee
      /\ UnwrapOrDefault(a.blobBaseFeeScalar) = a.blobBaseFeeScalar
      /\ UnwrapOrDefault(None) = 0
  BY <1>1, NoneAssumption DEF UnwrapOrDefault
<1>3. CASE s < ECOTONE
  <2>1. /\ info.l1_base_fee = a.l1BaseFee /\ info.l1_base_fee_scalar = a.l1FeeScalar
        /\ info.l1_fee_overhead = a.l1FeeOverhead /\ ~info.empty_scalars
        /\ info.l1_blob_base_fee = None /\ info.l1_blob_base_fee_scalar = None
    BY <1>3 DEF ExpectedInfo
  <2>2. /\ p.tag = "Legacy" /\ p.l1_base_fee = a.l1BaseFee
        /\ p.l1_base_fee_scalar = a.l1FeeScalar /\ p.l1_fee_overhead = a.l1FeeOverhead
    BY <1>3 DEF V!Params
  <2>3. ~(s >= FJORD) /\ ~(s >= ECOTONE)
    BY <1>3 DEF OpSpecIds, BEDROCK, REGOLITH, ECOTONE, FJORD
  <2>. QED  BY <2>1, <2>2, <2>3, <1>2, SMT DEF ExactFee, V!Fee
<1>4. CASE ~(s < ECOTONE) /\ V!ScalarsEmpty(a)
  <2>1. /\ info.l1_base_fee = a.l1BaseFee /\ info.l1_base_fee_scalar = a.baseFeeScalar
        /\ info.l1_fee_overhead = a.l1FeeOverhead /\ info.empty_scalars
        /\ info.l1_blob_base_fee = a.blobBaseFee
        /\ info.l1_blob_base_fee_scalar = a.blobBaseFeeScalar
    BY <1>4 DEF ExpectedInfo, V!ScalarsEmpty
  <2>2. /\ p.tag = "EcotoneFallback" /\ p.l1_base_fee = a.l1BaseFee
        /\ p.l1_base_fee_scalar = a.baseFeeScalar /\ p.l1_fee_overhead = a.l1FeeOverhead
    BY <1>4 DEF V!Params
  <2>3. a.blobBaseFee * a.blobBaseFeeScalar = 0
    BY <1>4, <1>1 DEF V!ScalarsEmpty
  <2>4. s >= ECOTONE
    BY <1>4 DEF OpSpecIds, BEDROCK, REGOLITH, ECOTONE, FJORD
  <2>. QED  BY <2>1, <2>2, <2>3, <2>4, <1>2, SMT DEF ExactFee, V!Fee
<1>5. CASE ~(s < ECOTONE) /\ ~V!ScalarsEmpty(a)
  <2>1. /\ info.l1_base_fee = a.l1BaseFee /\ info.l1_base_fee_scalar = a.baseFeeScalar
        /\ ~info.empty_scalars
        /\ info.l1_blob_base_fee = a.blobBaseFee
        /\ info.l1_blob_base_fee_scalar = a.blobBaseFeeScalar
    BY <1>5 DEF ExpectedInfo, V!ScalarsEmpty
  <2>2. /\ p.tag = "Ecotone" /\ p.l1_base_fee = a.l1BaseFee
        /\ p.l1_base_fee_scalar = a.baseFeeScalar /\ p.l1_blob_base_fee = a.blobBaseFee
        /\ p.l1_blob_base_fee_scalar = a.blobBaseFeeScalar
    BY <1>5 DEF V!Params
  <2>3. s >= ECOTONE
    BY <1>5 DEF OpSpecIds, BEDROCK, REGOLITH, ECOTONE, FJORD
  <2>. QED  BY <2>1, <2>2, <2>3, <1>2, SMT DEF ExactFee, V!Fee
<1>. QED  BY <1>3, <1>4, <1>5

(***************************************************************************)
(* Refinement: Spec implements L1FeeVariant's Spec.  The step argument     *)
(* needs IInv: a charge is checked against the oracle's record, and the    *)
(* record of a successful try_fetch against the oracle.  GasFitsWord is    *)
(* the hypothesis of FeeExact: without it the pre-Regolith `+=` of         *)
(* data_gas wraps and the code's fee departs from the exact formula.       *)
(***************************************************************************)
THEOREM Refinement ==
  ASSUME GasFitsWord
  PROVE  Spec => ImplementsVariant
<1>1. Init => V!Init
  BY InstanceOps DEF Init, V!Init, paramsBar
<1>2. IInv /\ [Next]_vars => [V!Next]_V!vars
  <2>. SUFFICES ASSUME IInv, [Next]_vars PROVE [V!Next]_V!vars
    OBVIOUS
  <2>1. CASE NewBlock
    <3>1. paramsBar' = None
      BY <2>1 DEF NewBlock, paramsBar
    <3>. QED  BY <2>1, <3>1, InstanceOps DEF NewBlock, V!NewBlock, V!Next
  <2>2. CASE TryFetchOk
    <3>1. spec \in OpSpecIds /\ attrs \in Attributes
      BY DEF IInv, TypeOK
    <3>2. paramsBar' = VariantOf(ExpectedInfo(spec, attrs), spec)
      BY <2>2, <3>1, FetchedInfoIsExpected DEF TryFetchOk, paramsBar
    <3>3. paramsBar' = V!Params(spec, attrs)
      BY <3>1, <3>2, VariantOfExpected
    <3>. QED  BY <2>2, <3>3 DEF TryFetchOk, V!Load, V!Next
  <2>3. CASE \E call \in 1..Len(FetchCalls(spec, attrs)) : TryFetchErr(call)
    <3>1. paramsBar = None /\ paramsBar' = None
      BY <2>3 DEF TryFetchErr, paramsBar
    <3>. QED  BY <2>3, <3>1 DEF TryFetchErr, V!LoadFails, V!Next
  <2>4. CASE \E input \in TxInputs : ChargeTx(input)
    <3>1. PICK input \in TxInputs : ChargeTx(input)
      BY <2>4
    <3>2. /\ spec \in OpSpecIds /\ attrs \in Attributes /\ chain \in L1BlockInfoType
          /\ phase = "ready" /\ chain = ExpectedInfo(spec, attrs)
      BY <3>1 DEF IInv, TypeOK, InfoMatchesOracle, ChargeTx
    <3>3. CalculateTxL1Cost(chain, input, spec) = ExactFee(chain, input, spec)
      BY <3>2, FeeIsExact
    <3>4. ExactFee(chain, input, spec) = V!Fee(paramsBar, input, spec)
      <4>1. paramsBar = V!Params(spec, attrs)
        BY <3>2, VariantOfExpected DEF paramsBar
      <4>. QED  BY <3>2, <4>1, ExactFeeIsVariantFee
    <3>5. paramsBar' = paramsBar
      BY <3>1 DEF ChargeTx, paramsBar
    <3>. QED  BY <3>1, <3>2, <3>3, <3>4, <3>5 DEF ChargeTx, V!Charge, V!Next
  <2>5. CASE UNCHANGED vars
    BY <2>5 DEF vars, V!vars, paramsBar
  <2>. QED  BY <2>1, <2>2, <2>3, <2>4, <2>5 DEF Next
<1>3. Spec => []IInv
  BY InitIInv, NextIInv, PTL DEF Spec
<1>. QED  BY <1>1, <1>2, <1>3, PTL DEF Spec, ImplementsVariant, V!Spec

=============================================================================

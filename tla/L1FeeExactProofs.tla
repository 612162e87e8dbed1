--------------------------- MODULE L1FeeExactProofs ---------------------------
(***************************************************************************)
(* The fees calculate_tx_l1_cost charges are the era formulas computed     *)
(* exactly and clamped once (FeeIsClampedExact), for every word size,      *)
(* precision and estimator, provided the word holds the pre-Regolith gas   *)
(* of every payload (at 2^256 it holds every payload's).                   *)
(***************************************************************************)
EXTENDS L1BlockProofs, TLAPS

\* The `+=` of data_gas (l1block.rs 156) never wraps on the payloads.
GasFitsWord ==
  \A input \in TxInputs : RollupDataGas(input) + NON_ZERO_BYTE_COST * 68 <= MaxU256

-----------------------------------------------------------------------------
(***************************************************************************)
(* Saturating operations are the clamp of the exact ones, and clamping an  *)
(* operand first changes nothing.                                          *)
(***************************************************************************)
LEMMA SaturatingIsClamp ==
  ASSUME NEW a \in Nat, NEW b \in Nat
  PROVE  /\ SaturatingMul(a, b) = Clamp(a * b)
         /\ SaturatingAdd(a, b) = Clamp(a + b)
BY DEF SaturatingMul, SaturatingAdd, Clamp

LEMMA ClampType ==
  ASSUME NEW v \in Nat
  PROVE  Clamp(v) \in Nat
BY MaxU256Assumption DEF Clamp

\* Multiplying a clamped value and clamping again is clamping the product.
LEMMA ClampMul ==
  ASSUME NEW v \in Nat, NEW k \in Nat
  PROVE  Clamp(Clamp(v) * k) = Clamp(v * k)
<1>1. CASE v <= MaxU256
  <2>1. Clamp(v) = v
    BY <1>1, MaxU256Assumption DEF Clamp
  <2>. QED  BY <2>1
<1>2. CASE v > MaxU256 /\ k = 0
  <2>1. Clamp(v) * k = 0 /\ v * k = 0
    BY <1>2, MaxU256Assumption DEF Clamp
  <2>2. Clamp(0) = 0
    BY MaxU256Assumption DEF Clamp
  <2>. QED  BY <2>1, <2>2
<1>3. CASE v > MaxU256 /\ k >= 1
  <2>1. v * (k - 1) \in Nat /\ MaxU256 * (k - 1) \in Nat
    BY <1>3, MaxU256Assumption
  <2>2. v * k = v * (k - 1) + v /\ MaxU256 * k = MaxU256 * (k - 1) + MaxU256
    BY <1>3, MaxU256Assumption
  <2>3. Clamp(v) = MaxU256
    BY <1>3 DEF Clamp
  <2>4. Clamp(v * k) = MaxU256 /\ Clamp(MaxU256 * k) = MaxU256
    BY <1>3, <2>1, <2>2, MaxU256Assumption DEF Clamp
  <2>. QED  BY <2>3, <2>4
<1>. QED  BY <1>1, <1>2, <1>3, MaxU256Assumption

\* Adding two clamped values and clamping again is clamping the sum.
LEMMA ClampAdd ==
  ASSUME NEW v \in Nat, NEW w \in Nat
  PROVE  Clamp(Clamp(v) + Clamp(w)) = Clamp(v + w)
BY MaxU256Assumption DEF Clamp

-----------------------------------------------------------------------------
(***************************************************************************)
(* The era formulas.                                                       *)
(***************************************************************************)
\* calculate_l1_fee_scaled_ecotone is the clamped exact scaled fee.
LEMMA ScaledIsClamp ==
  ASSUME NEW info \in L1BlockInfoType
  PROVE  L1FeeScaledEcotone(info)
           = Clamp(info.l1_base_fee * NON_ZERO_BYTE_COST * info.l1_base_fee_scalar
                     + UnwrapOrDefault(info.l1_blob_base_fee)
                       * UnwrapOrDefault(info.l1_blob_base_fee_scalar))
<1>. DEFINE bf == info.l1_base_fee
            bs == info.l1_base_fee_scalar
            bb == UnwrapOrDefault(info.l1_blob_base_fee)
            bbs == UnwrapOrDefault(info.l1_blob_base_fee_scalar)
<1>1. bf \in Nat /\ bs \in Nat /\ bb \in Nat /\ bbs \in Nat
  <2>1. info.l1_blob_base_fee \in Option(U256) /\ info.l1_blob_base_fee_scalar \in Option(Nat)
        /\ U256 \in SUBSET Nat
    BY DEF L1BlockInfoType, U256
  <2>. QED  BY <2>1, UnwrapOrDefaultType DEF L1BlockInfoType, U256
<1>2. SaturatingMul(SaturatingMul(bf, NON_ZERO_BYTE_COST), bs) = Clamp(bf * NON_ZERO_BYTE_COST * bs)
  <2>1. SaturatingMul(bf, NON_ZERO_BYTE_COST) = Clamp(bf * NON_ZERO_BYTE_COST)
    BY <1>1, SaturatingIsClamp DEF NON_ZERO_BYTE_COST
  <2>2. Clamp(bf * NON_ZERO_BYTE_COST) \in Nat /\ bf * NON_ZERO_BYTE_COST \in Nat
    BY <1>1, ClampType DEF NON_ZERO_BYTE_COST
  <2>3. SaturatingMul(Clamp(bf * NON_ZERO_BYTE_COST), bs) = Clamp(Clamp(bf * NON_ZERO_BYTE_COST) * bs)
    BY <1>1, <2>2, SaturatingIsClamp
  <2>. QED  BY <1>1, <2>1, <2>2, <2>3, ClampMul
<1>3. SaturatingMul(bb, bbs) = Clamp(bb * bbs)
  BY <1>1, SaturatingIsClamp
<1>4. /\ Clamp(bf * NON_ZERO_BYTE_COST * bs) \in Nat /\ Clamp(bb * bbs) \in Nat
      /\ bf * NON_ZERO_BYTE_COST * bs \in Nat /\ bb * bbs \in Nat
  BY <1>1, ClampType DEF NON_ZERO_BYTE_COST
<1>5. SaturatingAdd(Clamp(bf * NON_ZERO_BYTE_COST * bs), Clamp(bb * bbs))
        = Clamp(Clamp(bf * NON_ZERO_BYTE_COST * bs) + Clamp(bb * bbs))
  BY <1>4, SaturatingIsClamp
<1>. QED  BY <1>2, <1>3, <1>4, <1>5, ClampAdd DEF L1FeeScaledEcotone

\* calculate_tx_l1_cost_bedrock on gas g is the clamped exact product.
LEMMA BedrockIsClamp ==
  ASSUME NEW info \in L1BlockInfoType, NEW input, NEW s, NEW g \in Nat,
         DataGas(info, input, s) = g
  PROVE  CalculateTxL1CostBedrock(info, input, s)
           = Clamp((g + UnwrapOrDefault(info.l1_fee_overhead))
                     * info.l1_base_fee * info.l1_base_fee_scalar) \div Precision
<1>. DEFINE o == UnwrapOrDefault(info.l1_fee_overhead)
            bf == info.l1_base_fee
            bs == info.l1_base_fee_scalar
<1>1. o \in Nat /\ bf \in Nat /\ bs \in Nat
  <2>1. info.l1_fee_overhead \in Option(U256) /\ U256 \in SUBSET Nat
    BY DEF L1BlockInfoType, U256
  <2>. QED  BY <2>1, UnwrapOrDefaultType DEF L1BlockInfoType, U256
<1>2. SaturatingAdd(g, o) = Clamp(g + o) /\ Clamp(g + o) \in Nat /\ g + o \in Nat
  <2>1. g + o \in Nat
    BY <1>1
  <2>2. SaturatingAdd(g, o) = Clamp(g + o)
    BY <1>1, SaturatingIsClamp
  <2>. QED  BY <2>1, <2>2, ClampType
<1>3. SaturatingMul(Clamp(g + o), bf) = Clamp((g + o) * bf)
  <2>1. SaturatingMul(Clamp(g + o), bf) = Clamp(Clamp(g + o) * bf)
    BY <1>1, <1>2, SaturatingIsClamp
  <2>. QED  BY <1>1, <1>2, <2>1, ClampMul
<1>4. SaturatingMul(Clamp((g + o) * bf), bs) = Clamp((g + o) * bf * bs)
  <2>1. Clamp((g + o) * bf) \in Nat /\ (g + o) * bf \in Nat
    BY <1>1, <1>2, ClampType
  <2>2. SaturatingMul(Clamp((g + o) * bf), bs) = Clamp(Clamp((g + o) * bf) * bs)
    BY <1>1, <2>1, SaturatingIsClamp
  <2>. QED  BY <1>1, <2>1, <2>2, ClampMul
<1>. QED  BY <1>2, <1>3, <1>4 DEF CalculateTxL1CostBedrock, WrappingDiv

\* A remainder of a value below the modulus is the value.
LEMMA ModSmall ==
  ASSUME NEW v \in Nat, NEW d \in Nat, v < d
  PROVE  v % d = v
BY Z3

\* calculate_tx_l1_cost is ExactFee in every upgrade, on every payload.
LEMMA FeeIsExact ==
  ASSUME GasFitsWord, NEW info \in L1BlockInfoType, NEW input \in TxInputs,
         NEW s \in OpSpecIds
  PROVE  CalculateTxL1Cost(info, input, s) = ExactFee(info, input, s)
<1>. DEFINE R   == RollupDataGas(input)
            est == EstimateTxCompressedSize(input)
            S   == info.l1_base_fee * NON_ZERO_BYTE_COST * info.l1_base_fee_scalar
                     + UnwrapOrDefault(info.l1_blob_base_fee)
                       * UnwrapOrDefault(info.l1_blob_base_fee_scalar)
            dep == input = <<>> \/ input[1] = DEPOSIT_TX_TYPE
<1>0. /\ s \in 0..3 /\ R \in Nat /\ est \in Nat
      /\ R + NON_ZERO_BYTE_COST * 68 <= MaxU256
  <2>1. input \in Seq(Byte) /\ est \in Nat
    BY TxInputsAssumption
  <2>2. R \in Nat
    BY <2>1, RollupDataGasType
  <2>. QED  BY <2>1, <2>2 DEF OpSpecIds, BEDROCK, REGOLITH, ECOTONE, FJORD, GasFitsWord
<1>1. S \in Nat /\ L1FeeScaledEcotone(info) = Clamp(S)
  <2>1. /\ info.l1_base_fee \in Nat /\ info.l1_base_fee_scalar \in Nat
        /\ UnwrapOrDefault(info.l1_blob_base_fee) \in Nat
        /\ UnwrapOrDefault(info.l1_blob_base_fee_scalar) \in Nat
    <3>1. info.l1_blob_base_fee \in Option(U256) /\ info.l1_blob_base_fee_scalar \in Option(Nat)
          /\ U256 \in SUBSET Nat
      BY DEF L1BlockInfoType, U256
    <3>. QED  BY <3>1, UnwrapOrDefaultType DEF L1BlockInfoType, U256
  <2>. QED  BY <2>1, ScaledIsClamp DEF NON_ZERO_BYTE_COST
<1>2. CASE dep
  BY <1>2 DEF CalculateTxL1Cost, ExactFee
<1>3. CASE ~dep /\ s = FJORD
  <2>1. CalculateTxL1Cost(info, input, s) = WrappingDiv(SaturatingMul(est, Clamp(S)), FjordPrecision)
    BY <1>1, <1>3 DEF CalculateTxL1Cost, CalculateTxL1CostFjord, TxEstimatedSizeFjord,
                      IsEnabledIn, FJORD
  <2>2. SaturatingMul(est, Clamp(S)) = Clamp(est * S)
    <3>1. Clamp(S) \in Nat
      BY <1>1, ClampType
    <3>2. SaturatingMul(est, Clamp(S)) = Clamp(Clamp(S) * est)
      BY <1>0, <3>1, SaturatingIsClamp
    <3>3. Clamp(Clamp(S) * est) = Clamp(S * est)
      BY <1>0, <1>1, ClampMul
    <3>. QED  BY <1>0, <1>1, <3>2, <3>3
  <2>3. ExactFee(info, input, s) = Clamp(est * S) \div FjordPrecision
    BY <1>3 DEF ExactFee, FJORD
  <2>. QED  BY <2>1, <2>2, <2>3 DEF WrappingDiv
<1>4. CASE ~dep /\ s = ECOTONE /\ ~info.empty_scalars
  <2>1. DataGas(info, input, s) = R
    BY <1>4 DEF DataGas, IsEnabledIn, ECOTONE, FJORD, REGOLITH
  <2>2. CalculateTxL1Cost(info, input, s)
          = WrappingDiv(SaturatingMul(Clamp(S), R), Precision * NON_ZERO_BYTE_COST)
    BY <1>1, <1>4, <2>1 DEF CalculateTxL1Cost, CalculateTxL1CostEcotone, IsEnabledIn,
                            ECOTONE, FJORD
  <2>3. SaturatingMul(Clamp(S), R) = Clamp(S * R)
    <3>1. Clamp(S) \in Nat
      BY <1>1, ClampType
    <3>. QED  BY <1>0, <1>1, <3>1, SaturatingIsClamp, ClampMul
  <2>4. ExactFee(info, input, s) = Clamp(S * R) \div (Precision * NON_ZERO_BYTE_COST)
    BY <1>0, <1>4 DEF ExactFee, ECOTONE, FJORD, REGOLITH
  <2>. QED  BY <2>2, <2>3, <2>4 DEF WrappingDiv
<1>5. CASE ~dep /\ s \in {REGOLITH, ECOTONE} /\ (s = ECOTONE => info.empty_scalars)
  <2>1. DataGas(info, input, s) = R
    BY <1>5 DEF DataGas, IsEnabledIn, ECOTONE, FJORD, REGOLITH
  <2>2. CalculateTxL1Cost(info, input, s) = CalculateTxL1CostBedrock(info, input, s)
    BY <1>5 DEF CalculateTxL1Cost, CalculateTxL1CostEcotone, IsEnabledIn,
                REGOLITH, ECOTONE, FJORD
  <2>3. ExactFee(info, input, s)
          = Clamp((R + UnwrapOrDefault(info.l1_fee_overhead))
                    * info.l1_base_fee * info.l1_base_fee_scalar) \div Precision
    BY <1>0, <1>5 DEF ExactFee, REGOLITH, ECOTONE, FJORD
  <2>. QED  BY <1>0, <2>1, <2>2, <2>3, BedrockIsClamp
<1>6. CASE ~dep /\ s = BEDROCK
  <2>1. DataGas(info, input, s) = R + NON_ZERO_BYTE_COST * 68
    <3>1. WrappingAdd(R, NON_ZERO_BYTE_COST * 68) = R + NON_ZERO_BYTE_COST * 68
      <4>1. R + NON_ZERO_BYTE_COST * 68 \in Nat /\ MaxU256 + 1 \in Nat
            /\ R + NON_ZERO_BYTE_COST * 68 < MaxU256 + 1
        BY <1>0, MaxU256Assumption DEF NON_ZERO_BYTE_COST
      <4>. QED  BY <4>1, ModSmall DEF WrappingAdd
    <3>. QED  BY <1>6, <3>1 DEF DataGas, IsEnabledIn, BEDROCK, REGOLITH, FJORD
  <2>2. CalculateTxL1Cost(info, input, s) = CalculateTxL1CostBedrock(info, input, s)
    BY <1>6 DEF CalculateTxL1Cost, IsEnabledIn, BEDROCK, ECOTONE, FJORD
  <2>3. ExactFee(info, input, s)
          = Clamp((R + NON_ZERO_BYTE_COST * 68 + UnwrapOrDefault(info.l1_fee_overhead))
                    * info.l1_base_fee * info.l1_base_fee_scalar) \div Precision
    BY <1>6 DEF ExactFee, BEDROCK, REGOLITH, ECOTONE, FJORD
  <2>4. R + NON_ZERO_BYTE_COST * 68 \in Nat
    BY <1>0 DEF NON_ZERO_BYTE_COST
  <2>. QED  BY <2>1, <2>2, <2>3, <2>4, BedrockIsClamp
<1>. QED  BY <1>0, <1>2, <1>3, <1>4, <1>5, <1>6 DEF BEDROCK, REGOLITH, ECOTONE, FJORD

-----------------------------------------------------------------------------
(***************************************************************************)
(* The invariant.  A fee stays recorded only within the block whose record *)
(* it was charged on: a pending load has no charged transaction.           *)
(***************************************************************************)
FInv == IInv /\ (phase = "start" => charged = None) /\ FeeIsClampedExact

LEMMA InitFInv == Init => FInv
<1>. SUFFICES ASSUME Init PROVE FInv
  OBVIOUS
<1>. QED  BY InitIInv DEF Init, FInv, FeeIsClampedExact

LEMMA NextFInv == GasFitsWord /\ FInv /\ [Next]_vars => FInv'
<1>. SUFFICES ASSUME GasFitsWord, FInv, [Next]_vars PROVE FInv'
  OBVIOUS
<1>1. IInv'
  BY NextIInv DEF FInv
<1>. USE DEF FInv, FeeIsClampedExact
<1>2. CASE NewBlock
  BY <1>1, <1>2 DEF NewBlock
<1>3. CASE TryFetchOk
  BY <1>1, <1>3 DEF TryFetchOk
<1>4. CASE \E call \in 1..Len(FetchCalls(spec, attrs)) : TryFetchErr(call)
  BY <1>1, <1>4 DEF TryFetchErr
<1>5. CASE \E input \in TxInputs : ChargeTx(input)
  <2>1. PICK input \in TxInputs : ChargeTx(input)
    BY <1>5
  <2>2. chain \in L1BlockInfoType /\ spec \in OpSpecIds
    BY DEF IInv, TypeOK
  <2>3. CalculateTxL1Cost(chain, input, spec) = ExactFee(chain, input, spec)
    BY <2>2, FeeIsExact
  <2>. QED  BY <1>1, <2>1, <2>3 DEF ChargeTx
<1>6. CASE UNCHANGED vars
  BY <1>1, <1>6 DEF vars
<1>. QED  BY <1>2, <1>3, <1>4, <1>5, <1>6 DEF Next

(***************************************************************************)
(* Every fee calculate_tx_l1_cost charges (l1block.rs 170-246) is the era  *)
(* formula over unbounded integers, clamped at the word's maximum before   *)
(* the final division: the chains of saturating_mul and saturating_add     *)
(* never wrap, never overcharge and are exact when nothing overflows, for  *)
(* every word size, precision and estimator whose word holds the           *)
(* pre-Regolith gas of the payloads.                                       *)
(***************************************************************************)
THEOREM FeeExact ==
  ASSUME GasFitsWord
  PROVE  Spec => []FeeIsClampedExact
<1>1. FInv => FeeIsClampedExact
  BY DEF FInv
<1>2. FInv /\ [Next]_vars => FInv'
  BY NextFInv
<1>. QED  BY InitFInv, <1>1, <1>2, PTL DEF Spec

=============================================================================

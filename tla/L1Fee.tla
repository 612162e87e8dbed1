-------------------------------- MODULE L1Fee --------------------------------
(***************************************************************************)
(* The fee calculator of crates/optimism/src/l1block.rs: the L1BlockInfo   *)
(* record and the pure functions data_gas, calculate_tx_l1_cost and the    *)
(* three era formulas it dispatches to.                                    *)
(*                                                                         *)
(* The code's literals 1_000_000 and 1_000_000_000_000 are the constants   *)
(* Precision and FjordPrecision, so that a model-checking instance can     *)
(* scale them down with MaxU256; the theorems hold for all their values.   *)
(* EstimateTxCompressedSize is the external compressed-size estimator      *)
(* (transaction module, spec.md 6): opaque, total, natural-valued.         *)
(***************************************************************************)
EXTENDS Naturals, Sequences, FiniteSets, OpSpec, U256Arith

CONSTANTS
  None,                          \* Option::None of the optional fields
  Precision,                     \* 1_000_000 in the code
  FjordPrecision,                \* 1_000_000_000_000 in the code
  TxInputs,                      \* the transaction payloads considered
  EstimateTxCompressedSize(_)    \* estimate_tx_compressed_size (scaled by Precision)

Byte == 0..255

ASSUME NoneAssumption == None \notin Nat

ASSUME PrecisionAssumption ==
  /\ Precision \in Nat \ {0}
  /\ FjordPrecision \in Nat \ {0}

ASSUME TxInputsAssumption ==
  /\ TxInputs \subseteq Seq(Byte)
  /\ \A input \in TxInputs : EstimateTxCompressedSize(input) \in Nat

ZERO_BYTE_COST     == 4
NON_ZERO_BYTE_COST == 16

\* The EIP-2718 type byte of a deposit transaction.
DEPOSIT_TX_TYPE == 127

Option(S) == S \cup {None}

UnwrapOrDefault(o) == IF o = None THEN 0 ELSE o

(***************************************************************************)
(* struct L1BlockInfo.  The scalars decoded from 4-byte windows are below  *)
(* 2^32, which is below the code's MaxU256 but not necessarily below a     *)
(* model instance's: their type is Nat.                                    *)
(***************************************************************************)
L1BlockInfoType ==
  [l1_base_fee: U256, l1_fee_overhead: Option(U256), l1_base_fee_scalar: Nat,
   l1_blob_base_fee: Option(U256), l1_blob_base_fee_scalar: Option(Nat),
   empty_scalars: BOOLEAN]

\* #[derive(Default)] of L1BlockInfo.
DefaultL1BlockInfo ==
  [l1_base_fee |-> 0, l1_fee_overhead |-> None, l1_base_fee_scalar |-> 0,
   l1_blob_base_fee |-> None, l1_blob_base_fee_scalar |-> None,
   empty_scalars |-> FALSE]

-----------------------------------------------------------------------------
(***************************************************************************)
(* data_gas.  The fold over the input adds ZERO_BYTE_COST per zero byte    *)
(* and NON_ZERO_BYTE_COST per other byte: its value is the weighted count  *)
(* below (MC_L1Block checks it against the fold itself).                   *)
(***************************************************************************)
ZeroBytes(input)    == {i \in 1..Len(input) : input[i] = 0}
NonZeroBytes(input) == {i \in 1..Len(input) : input[i] # 0}

RollupDataGas(input) ==
  ZERO_BYTE_COST * Cardinality(ZeroBytes(input))
    + NON_ZERO_BYTE_COST * Cardinality(NonZeroBytes(input))

TxEstimatedSizeFjord(input) == EstimateTxCompressedSize(input)

DataGas(info, input, spec) ==
  IF IsEnabledIn(spec, FJORD)
  THEN WrappingDiv(SaturatingMul(TxEstimatedSizeFjord(input), NON_ZERO_BYTE_COST),
                   Precision)
  ELSE IF IsEnabledIn(spec, REGOLITH)
       THEN RollupDataGas(input)
       ELSE WrappingAdd(RollupDataGas(input), NON_ZERO_BYTE_COST * 68)

\* A variant of calculate_l1_fee_scaled_ecotone with the wrapping `*` of
\* Uint in place of saturating_mul for the calldata term.
L1FeeScaledEcotoneWrapping(info) ==
  SaturatingAdd(
    (info.l1_base_fee * NON_ZERO_BYTE_COST * info.l1_base_fee_scalar) % (MaxU256 + 1),
    SaturatingMul(UnwrapOrDefault(info.l1_blob_base_fee),
                  UnwrapOrDefault(info.l1_blob_base_fee_scalar)))

\* calculate_l1_fee_scaled_ecotone:
\* l1BaseFee*16*l1BaseFeeScalar + l1BlobBaseFee*l1BlobBaseFeeScalar, saturating.
L1FeeScaledEcotone(info) ==
  SaturatingAdd(
    SaturatingMul(SaturatingMul(info.l1_base_fee, NON_ZERO_BYTE_COST),
                  info.l1_base_fee_scalar),
    SaturatingMul(UnwrapOrDefault(info.l1_blob_base_fee),
                  UnwrapOrDefault(info.l1_blob_base_fee_scalar)))

CalculateTxL1CostBedrock(info, input, spec) ==
  WrappingDiv(
    SaturatingMul(
      SaturatingMul(SaturatingAdd(DataGas(info, input, spec),
                                  UnwrapOrDefault(info.l1_fee_overhead)),
                    info.l1_base_fee),
      info.l1_base_fee_scalar),
    Precision)

\* The first Ecotone block (empty scalars) falls back to the Bedrock formula.
CalculateTxL1CostEcotone(info, input, spec) ==
  IF info.empty_scalars
  THEN CalculateTxL1CostBedrock(info, input, spec)
  ELSE WrappingDiv(SaturatingMul(L1FeeScaledEcotone(info), DataGas(info, input, spec)),
                   Precision * NON_ZERO_BYTE_COST)

CalculateTxL1CostFjord(info, input) ==
  WrappingDiv(SaturatingMul(TxEstimatedSizeFjord(input), L1FeeScaledEcotone(info)),
              FjordPrecision)

\* Empty and deposit payloads cost nothing; otherwise the newest active
\* formula applies.
CalculateTxL1Cost(info, input, spec) ==
  IF input = <<>> \/ input[1] = DEPOSIT_TX_TYPE THEN 0
  ELSE IF IsEnabledIn(spec, FJORD) THEN CalculateTxL1CostFjord(info, input)
  ELSE IF IsEnabledIn(spec, ECOTONE) THEN CalculateTxL1CostEcotone(info, input, spec)
  ELSE CalculateTxL1CostBedrock(info, input, spec)

=============================================================================

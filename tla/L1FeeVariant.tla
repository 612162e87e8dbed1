----------------------------- MODULE L1FeeVariant -----------------------------
(***************************************************************************)
(* What the loader and the fee calculator promise, with the per-block      *)
(* record written as the tagged variant of spec.md 9 instead of the flat   *)
(* L1BlockInfo with independently optional fields:                         *)
(*                                                                         *)
(*   Legacy           before Ecotone: base fee, overhead, scalar;          *)
(*   Ecotone          from Ecotone: base fee, the two scalars, blob fee;   *)
(*   EcotoneFallback  from Ecotone while the blob base fee and both        *)
(*                    scalars are zero: base fee, overhead, scalar.        *)
(*                                                                         *)
(* Each variant is built straight from the L1 attributes, with no storage  *)
(* layout and no byte decoding, and a fee is the era's formula over        *)
(* unbounded integers, clamped to the word once before the final division  *)
(* (spec.md 4.3, 7).  The fallback's scalar is the Ecotone base-fee        *)
(* scalar, which is what the code charges with (see FirstEcotoneBlockIs-   *)
(* Bedrock in L1Block for how this departs from the legacy scalar).        *)
(***************************************************************************)
EXTENDS L1Fee

CONSTANT Attributes   \* the values the attributes deposit may write

VARIABLES spec, attrs, phase, params, charged

vars == <<spec, attrs, phase, params, charged>>

ScalarsEmpty(a) == a.blobBaseFee = 0 /\ a.baseFeeScalar = 0 /\ a.blobBaseFeeScalar = 0

Params(s, a) ==
  IF s < ECOTONE
  THEN [tag |-> "Legacy", l1_base_fee |-> a.l1BaseFee,
        l1_fee_overhead |-> a.l1FeeOverhead, l1_base_fee_scalar |-> a.l1FeeScalar]
  ELSE IF ScalarsEmpty(a)
  THEN [tag |-> "EcotoneFallback", l1_base_fee |-> a.l1BaseFee,
        l1_fee_overhead |-> a.l1FeeOverhead, l1_base_fee_scalar |-> a.baseFeeScalar]
  ELSE [tag |-> "Ecotone", l1_base_fee |-> a.l1BaseFee,
        l1_base_fee_scalar |-> a.baseFeeScalar, l1_blob_base_fee |-> a.blobBaseFee,
        l1_blob_base_fee_scalar |-> a.blobBaseFeeScalar]

\* The fee of a payload, dispatched on the upgrade and on the variant's tag.
Fee(p, input, s) ==
  LET gas    == RollupDataGas(input) + (IF s < REGOLITH THEN NON_ZERO_BYTE_COST * 68 ELSE 0)
      blob   == IF p.tag = "Ecotone" THEN p.l1_blob_base_fee * p.l1_blob_base_fee_scalar ELSE 0
      scaled == p.l1_base_fee * NON_ZERO_BYTE_COST * p.l1_base_fee_scalar + blob
  IN IF input = <<>> \/ input[1] = DEPOSIT_TX_TYPE THEN 0
     ELSE IF s >= FJORD
     THEN Clamp(EstimateTxCompressedSize(input) * scaled) \div FjordPrecision
     ELSE IF p.tag = "Ecotone"
     THEN Clamp(scaled * gas) \div (Precision * NON_ZERO_BYTE_COST)
     ELSE Clamp((gas + p.l1_fee_overhead) * p.l1_base_fee * p.l1_base_fee_scalar)
            \div Precision

Init ==
  /\ spec \in OpSpecIds
  /\ attrs \in Attributes
  /\ phase = "start"
  /\ params = None
  /\ charged = None

\* A block boundary: the upgrade may advance, the attributes change, and the
\* new block has no parameters yet.
NewBlock ==
  /\ phase \in {"ready", "failed"}
  /\ \E s \in OpSpecIds : s >= spec /\ spec' = s
  /\ attrs' \in Attributes
  /\ phase' = "start"
  /\ params' = None
  /\ charged' = None

\* The block's parameters are read off the attributes in one step.
Load ==
  /\ phase = "start"
  /\ params' = Params(spec, attrs)
  /\ phase' = "ready"
  /\ UNCHANGED <<spec, attrs, charged>>

\* Reading the parameters fails; the block has none.
LoadFails ==
  /\ phase = "start"
  /\ phase' = "failed"
  /\ UNCHANGED <<spec, attrs, params, charged>>

\* A transaction is charged on the block's parameters.
Charge(input) ==
  /\ phase = "ready"
  /\ charged' = [input |-> input, fee |-> Fee(params, input, spec)]
  /\ UNCHANGED <<spec, attrs, phase, params>>

Next ==
  \/ NewBlock
  \/ Load
  \/ LoadFails
  \/ \E input \in TxInputs : Charge(input)

Spec == Init /\ [][Next]_vars

=============================================================================

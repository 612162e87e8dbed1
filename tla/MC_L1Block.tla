----------------------------- MODULE MC_L1Block -----------------------------
(***************************************************************************)
(* A model-checking instance of L1Block: a 12-bit word, Precision 10 and   *)
(* FjordPrecision 100 (the code's 1e6 and 1e12 = 1e6 * 1e6 scaled alike), *)
(* two values per attribute, chosen so that the empty-scalars case, a zero *)
(* base-fee scalar beside a non-zero blob scalar, multi-byte scalars and   *)
(* saturating products all occur.                                          *)
(***************************************************************************)
EXTENDS L1Block, L1FeeUnitTests

MCMaxU256        == 4095
MCPrecision      == 10
MCFjordPrecision == 100

\* One uint64 sequence number, 2^56 + 2^24 + 258, with non-zero bytes 24, 27,
\* 30 and 31 of slot 3, so that a window reaching into the sequence number
\* is seen.
MCSequenceNumbers == {[hi |-> 16777217, lo |-> 258]}

MCTxInputs == {<<>>, <<127, 250>>, <<250>>, <<0, 250, 0>>, FACADE}

\* Stand-in for the FastLZ-based estimator: max(floor, coefficient * size),
\* in units of 1 / Precision bytes, with the floor of 100 bytes.
MCEstimate(input) == IF 400 * Len(input) > 1000 THEN 400 * Len(input) ELSE 1000

(***************************************************************************)
(* The fold of data_gas (l1block.rs 146-152), byte by byte, agrees with    *)
(* RollupDataGas on every payload of up to four bytes.                     *)
(***************************************************************************)
FoldDataGas(input) ==
  LET f[i \in 0..Len(input)] ==
        IF i = 0 THEN 0
        ELSE f[i - 1] + (IF input[i] = 0 THEN ZERO_BYTE_COST ELSE NON_ZERO_BYTE_COST)
  IN f[Len(input)]

ShortPayloads == UNION {[1..n -> {0, 1, 127, 255}] : n \in 0..4}

ASSUME FoldAgreesWithRollupDataGas ==
  \A input \in ShortPayloads : FoldDataGas(input) = RollupDataGas(input)

=============================================================================

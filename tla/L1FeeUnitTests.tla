---------------------------- MODULE L1FeeUnitTests ----------------------------
(***************************************************************************)
(* The unit tests of l1block.rs (the `tests` module), one definition per   *)
(* test, each the conjunction of the test's assertions.                    *)
(*                                                                         *)
(* TLC evaluates the assertions whose numbers fit its 32-bit integers,     *)
(* through Vec, the fee calculator with the code's precision 1e6 and a     *)
(* 31-bit word (saturation is never reached by these inputs; the 1e12 of  *)
(* Fjord is beyond TLC and is only used by FjordTestFees); estimator       *)
(* calls return the 100-byte floor 1e8, as the tests' comments work out    *)
(* for their short payloads.  The assertions whose numbers do not fit are  *)
(* theorems of L1FeeUnitTestsProofs, for the code's 256-bit word.          *)
(***************************************************************************)
EXTENDS L1Fee

Vec == INSTANCE L1Fee WITH MaxU256 <- 2147483646, Precision <- 1000000,
         FjordPrecision <- 1000000, TxInputs <- {},
         EstimateTxCompressedSize <- LAMBDA input : 100000000

\* bytes!("FACADE") and bytes!("7FFACADE").
FACADE  == <<250, 202, 222>>
DEPOSIT_FACADE == <<127>> \o FACADE

\* An L1BlockInfo with the three legacy fields at v, the rest Default.
LegacyInfo(v) == [DefaultL1BlockInfo EXCEPT !.l1_base_fee = v,
                    !.l1_fee_overhead = v, !.l1_base_fee_scalar = v]

test_data_gas_non_zero_bytes ==
  LET info == LegacyInfo(1000000)
  IN /\ Vec!DataGas(info, FACADE, BEDROCK) = 1136
     /\ Vec!DataGas(info, FACADE, REGOLITH) = 48
     /\ Vec!DataGas(info, FACADE, FJORD) = 1600

test_data_gas_zero_bytes ==
  LET info  == LegacyInfo(1000000)
      input == <<250, 0, 202, 0, 222>>
  IN /\ Vec!DataGas(info, input, BEDROCK) = 1144
     /\ Vec!DataGas(info, input, REGOLITH) = 56
     /\ Vec!DataGas(info, input, FJORD) = 1600

test_calculate_tx_l1_cost ==
  LET info == LegacyInfo(1000)
  IN /\ Vec!CalculateTxL1Cost(info, FACADE, REGOLITH) = 1048
     /\ Vec!CalculateTxL1Cost(info, <<>>, REGOLITH) = 0
     /\ Vec!CalculateTxL1Cost(info, DEPOSIT_FACADE, REGOLITH) = 0

test_calculate_tx_l1_cost_ecotone ==
  LET info == [LegacyInfo(1000) EXCEPT !.l1_blob_base_fee = 1000,
                 !.l1_blob_base_fee_scalar = 1000]
  IN /\ Vec!CalculateTxL1Cost(info, FACADE, ECOTONE) = 51
     /\ Vec!CalculateTxL1Cost(info, <<>>, ECOTONE) = 0
     /\ Vec!CalculateTxL1Cost(info, DEPOSIT_FACADE, ECOTONE) = 0
     /\ Vec!CalculateTxL1Cost([info EXCEPT !.empty_scalars = TRUE], FACADE, ECOTONE)
          = 1048

\* The record of test_calculate_tx_l1_cost_fjord.
FjordTestInfo ==
  [DefaultL1BlockInfo EXCEPT !.l1_base_fee = 1000, !.l1_base_fee_scalar = 1000,
     !.l1_blob_base_fee = 1000, !.l1_blob_base_fee_scalar = 1000]

\* The assertions of test_calculate_tx_l1_cost_fjord on payloads that cost
\* nothing (the others are FjordTestFees of L1FeeUnitTestsProofs).
test_calculate_tx_l1_cost_fjord ==
  /\ Vec!CalculateTxL1Cost(FjordTestInfo, <<>>, FJORD) = 0
  /\ Vec!CalculateTxL1Cost(FjordTestInfo, DEPOSIT_FACADE, FJORD) = 0

\* The second transaction of OP mainnet Ecotone block 118024092.
ECOTONE_TX ==
  <<2, 248, 179, 10, 131, 34, 83, 252, 132, 2, 209, 31, 57, 132, 44, 138,
    70, 57, 131, 1, 56, 128, 148, 220, 111, 244, 77, 93, 147, 44, 189,
    119, 181, 46, 86, 18, 186, 5, 41, 220, 98, 38, 241, 128, 184, 68, 169,
    5, 156, 187, 0, 0, 0, 0, 0, 0, 0, 0, 0, 0, 0, 0, 212, 62, 2, 219, 129,
    244, 212, 108, 223, 133, 33, 246, 35, 210, 30, 160, 236, 117, 98, 165,
    0, 0, 0, 0, 0, 0, 0, 0, 0, 0, 0, 0, 0, 0, 0, 0, 0, 0, 0, 0, 0, 0, 0,
    0, 138, 199, 35, 4, 137, 232, 0, 0, 192, 1, 160, 41, 71, 226, 71, 80,
    114, 59, 72, 248, 134, 147, 21, 98, 197, 93, 158, 7, 248, 86, 216,
    224, 100, 104, 231, 25, 117, 94, 24, 187, 195, 165, 112, 160, 120, 77,
    169, 206, 89, 253, 119, 84, 234, 91, 230, 225, 122, 134, 179, 72, 228,
    65, 52, 140, 212, 138, 206, 89, 209, 116, 119, 36, 101, 234, 219, 209>>

\* The data-gas assertion of calculate_tx_l1_cost_ecotone (its fee assertion
\* is MainnetEcotoneFee of L1FeeUnitTestsProofs).  data_gas reads none of
\* the record's fields, so the Default record stands for the block's.
calculate_tx_l1_cost_ecotone == DataGas(DefaultL1BlockInfo, ECOTONE_TX, ECOTONE) = 2456

ASSUME UnitTests ==
  /\ test_data_gas_non_zero_bytes
  /\ test_data_gas_zero_bytes
  /\ test_calculate_tx_l1_cost
  /\ test_calculate_tx_l1_cost_ecotone
  /\ test_calculate_tx_l1_cost_fjord

ASSUME MainnetEcotoneDataGas == calculate_tx_l1_cost_ecotone

=============================================================================

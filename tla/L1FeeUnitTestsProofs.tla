------------------------- MODULE L1FeeUnitTestsProofs -------------------------
(***************************************************************************)
(* The assertions of the unit tests of l1block.rs whose numbers are beyond *)
(* TLC's integers, proved for the code's 256-bit word and precisions.      *)
(***************************************************************************)
EXTENDS L1FeeUnitTests, TLAPS

\* Floor division is determined by its bounds.
LEMMA DivByBounds ==
  ASSUME NEW v \in Nat, NEW d \in Nat \ {0}, NEW q \in Nat, q * d <= v, v < q * d + d
  PROVE  v \div d = q
BY Z3

\* The L1 attributes of OP mainnet Ecotone block 118024092, as the test
\* calculate_tx_l1_cost_ecotone sets them.
MainnetEcotoneInfo ==
  [DefaultL1BlockInfo EXCEPT !.l1_base_fee = 47036678951, !.l1_base_fee_scalar = 1368,
     !.l1_blob_base_fee = 57422457042, !.l1_blob_base_fee_scalar = 810949]

\* U256::MAX.
U256_MAX == 115792089237316195423570985008687907853269984665640564039457584007913129639935

(***************************************************************************)
(* MainnetEcotoneFee: with the code's 256-bit word and precision,          *)
(* calculate_tx_l1_cost_ecotone charges the second transaction of OP       *)
(* mainnet Ecotone block 118024092 the 7306020222001 wei the block         *)
(* explorer shows, from the data gas 2456 TLC evaluates (the test          *)
(* calculate_tx_l1_cost_ecotone).  No saturating step saturates.           *)
(***************************************************************************)
THEOREM MainnetEcotoneFee ==
  ASSUME MaxU256 = U256_MAX, Precision = 1000000
  PROVE  CalculateTxL1CostEcotone(MainnetEcotoneInfo, ECOTONE_TX, ECOTONE) = 7306020222001
<1>. DEFINE info == MainnetEcotoneInfo
<1>1. /\ ~info.empty_scalars
      /\ info.l1_base_fee = 47036678951 /\ info.l1_base_fee_scalar = 1368
      /\ info.l1_blob_base_fee = 57422457042 /\ info.l1_blob_base_fee_scalar = 810949
  BY DEF MainnetEcotoneInfo, DefaultL1BlockInfo
<1>2. DataGas(info, ECOTONE_TX, ECOTONE) = 2456
  <2>1. DataGas(info, ECOTONE_TX, ECOTONE) = DataGas(DefaultL1BlockInfo, ECOTONE_TX, ECOTONE)
    BY DEF DataGas
  <2>. QED  BY <2>1, MainnetEcotoneDataGas DEF calculate_tx_l1_cost_ecotone
<1>3. UnwrapOrDefault(57422457042) = 57422457042 /\ UnwrapOrDefault(810949) = 810949
  BY NoneAssumption DEF UnwrapOrDefault
<1>4. L1FeeScaledEcotone(info) = 47596222944632346
  BY <1>1, <1>3 DEF L1FeeScaledEcotone, SaturatingMul, SaturatingAdd, NON_ZERO_BYTE_COST, U256_MAX
<1>5. PICK sc \in Nat : sc = 47596222944632346
  OBVIOUS
<1>6. PICK g \in Nat : g = 2456
  OBVIOUS
<1>7. PICK q \in Nat : q = 7306020222001
  OBVIOUS
<1>8. PICK d \in Nat \ {0} : d = 16000000
  OBVIOUS
<1>9. SaturatingMul(sc, g) = sc * g
  BY <1>5, <1>6, SMT DEF SaturatingMul, U256_MAX
<1>10. (sc * g) \div d = q
  <2>1. q * d <= sc * g /\ sc * g < q * d + d
    BY <1>5, <1>6, <1>7, <1>8, SMT
  <2>. QED  BY <2>1, <1>5, <1>6, DivByBounds
<1>11. CalculateTxL1CostEcotone(info, ECOTONE_TX, ECOTONE)
         = SaturatingMul(L1FeeScaledEcotone(info), DataGas(info, ECOTONE_TX, ECOTONE))
             \div (Precision * NON_ZERO_BYTE_COST)
  BY <1>1 DEF CalculateTxL1CostEcotone, WrappingDiv
<1>12. Precision * NON_ZERO_BYTE_COST = d
  BY <1>8 DEF NON_ZERO_BYTE_COST
<1>. QED  BY <1>2, <1>4, <1>5, <1>6, <1>7, <1>9, <1>10, <1>11, <1>12

(***************************************************************************)
(* FjordTestFees: with the code's 256-bit word and precision 1e12,         *)
(* calculate_tx_l1_cost under Fjord charges the payloads of                *)
(* test_calculate_tx_l1_cost_fjord 1700 and 2148, given the compressed     *)
(* sizes the test's comments work out for them (the 100-byte floor for     *)
(* 0xFACADE, 126387400 for the 0x02-typed transaction).                    *)
(***************************************************************************)
THEOREM FjordTestFees ==
  ASSUME MaxU256 = U256_MAX, FjordPrecision = 1000000000000,
         EstimateTxCompressedSize(FACADE) = 100000000,
         NEW tx, tx # <<>>, tx[1] = 2, EstimateTxCompressedSize(tx) = 126387400
  PROVE  /\ CalculateTxL1Cost(FjordTestInfo, FACADE, FJORD) = 1700
         /\ CalculateTxL1Cost(FjordTestInfo, tx, FJORD) = 2148
<1>1. L1FeeScaledEcotone(FjordTestInfo) = 17000000
  <2>1. /\ FjordTestInfo.l1_base_fee = 1000 /\ FjordTestInfo.l1_base_fee_scalar = 1000
        /\ FjordTestInfo.l1_blob_base_fee = 1000 /\ FjordTestInfo.l1_blob_base_fee_scalar = 1000
    BY DEF FjordTestInfo, DefaultL1BlockInfo
  <2>2. UnwrapOrDefault(1000) = 1000
    BY NoneAssumption DEF UnwrapOrDefault
  <2>. QED  BY <2>1, <2>2 DEF L1FeeScaledEcotone, SaturatingMul, SaturatingAdd,
                              NON_ZERO_BYTE_COST, U256_MAX
<1>2. ASSUME NEW in, in # <<>>, in[1] # DEPOSIT_TX_TYPE
      PROVE  CalculateTxL1Cost(FjordTestInfo, in, FJORD)
               = SaturatingMul(EstimateTxCompressedSize(in), 17000000) \div FjordPrecision
  BY <1>1, <1>2 DEF CalculateTxL1Cost, CalculateTxL1CostFjord, TxEstimatedSizeFjord,
                    WrappingDiv, IsEnabledIn, FJORD
<1>3. SaturatingMul(100000000, 17000000) \div 1000000000000 = 1700
  <2>1. SaturatingMul(100000000, 17000000) = 1700000000000000
    BY DEF SaturatingMul, U256_MAX
  <2>. QED  BY <2>1, DivByBounds
<1>4. SaturatingMul(126387400, 17000000) \div 1000000000000 = 2148
  <2>1. SaturatingMul(126387400, 17000000) = 2148585800000000
    BY DEF SaturatingMul, U256_MAX
  <2>. QED  BY <2>1, DivByBounds
<1>5. FACADE # <<>> /\ FACADE[1] # DEPOSIT_TX_TYPE /\ tx[1] # DEPOSIT_TX_TYPE
  BY DEF FACADE, DEPOSIT_TX_TYPE
<1>. QED  BY <1>2, <1>3, <1>4, <1>5

=============================================================================

# Verification of the OP-stack L1 data fee (crates/optimism/src/l1block.rs)

This directory holds TLA+ models of the code that works out the L1 data fee of
an OP-stack transaction, together with TLC configurations and TLAPS proofs.
The code has four parts: the loader that reads the L1 attributes from the
L1Block contract's storage, the fee calculator that charges transactions from
those attributes, the accessor that keeps the record in the execution context,
and the hardfork gate that decides which formula applies.

## The system and its parts

| Part (spec.md) | Source | Module | Status |
|---|---|---|---|
| Hardfork Gate (4.1) | `OpSpecId`, `OpSpec::is_enabled_in` (spec module, not among the sources) | `OpSpec` | modelled from spec.md |
| L1BlockInfo Loader (4.2) | `L1BlockInfo::try_fetch`, l1block.rs 77-128 | `L1Block`, abstractly `L1FeeVariant` | modelled |
| Fee Calculator (4.3) | `data_gas` … `calculate_l1_fee_scaled_ecotone`, 137-246 | `L1Fee`, abstractly `L1FeeVariant` | modelled |
| Context Accessor (4.4) | `L1BlockInfoGetter`, 249-277 | `L1Block` (`chain`) | modelled |
| U256 arithmetic | ruint `saturating_*`, `+`, `wrapping_div` | `U256Arith` | modelled (dependency) |
| Unit tests | `mod tests`, 279-528 | `L1FeeUnitTests`, `L1FeeUnitTestsProofs` | partly: the mainnet Fjord test needs FastLZ |
| Chain-State Accessor (6) | the `Database` trait | `Sload` in `L1Block` | not modelled: external |
| Compressed-size estimator (6) | `estimate_tx_compressed_size` | the constant `EstimateTxCompressedSize` | not modelled: external |
| Crate roots | the two `lib.rs` | — | not modelled: declarations only |

Here is how the parts interact. At each block the handler calls
`try_fetch(db, spec)`. That call reads storage slots 1, 5, 6, 7 and 3 of the
L1Block contract (which slots depends on the upgrade), and each read may fail.
The handler stores the resulting `L1BlockInfo` through `l1_block_info_mut`.
Every transaction of the block is then charged
`calculate_tx_l1_cost(input, spec)` on the record that `l1_block_info` reads
back. The fee formulas are:

- Bedrock and Regolith: overhead plus scalar.
- Ecotone: the two packed uint32 scalars and the blob base fee, with a fallback
  to the Bedrock formula while the scalars are still empty.
- Fjord: the compressed-size estimate.

## Modules

- `OpSpec`: the upgrades as the numbers 0..3 and `IsEnabledIn` as `>=`. Cancun
  counts as enabled from Ecotone on.
- `U256Arith`: the constant `MaxU256` (2^256-1 in the code).
  - `saturating_mul` and `saturating_add` clamp at `MaxU256`; `Clamp` is the
    same cut applied to an unbounded natural.
  - The `+=` of `data_gas` wraps modulo `MaxU256+1`.
  - `wrapping_div` is floor division.
- `L1Fee`: the record type and its `Default`, plus one operator per function
  of the fee calculator.
  - The byte fold of `data_gas` is written as a weighted count of zero and
    non-zero bytes. The provers can handle that form. `MC_L1Block` checks it
    against the fold itself, byte by byte, on every payload of up to four bytes.
  - The literals 1e6 and 1e12 are the constants `Precision` and
    `FjordPrecision`. This lets a model instance scale them down together with
    the word size.
- `L1Block`: the loader and the context across blocks.
  - The state is:
    - `spec`: the active upgrade;
    - `attrs`: what the attributes deposit wrote into the contract;
    - `phase`: the record is pending, loaded, or failed to load;
    - `chain`: the context's record;
    - `charged`: the last transaction charged and its fee.
  - Slot 3 is its 32 big-endian bytes. Each uint32 scalar lies at its offset
    and the sequence number sits at the end.
  - `try_fetch` keeps all of its control flow:
    - the list `FetchCalls` of database calls, in the code's order;
    - the pre-Ecotone and Ecotone branches;
    - the byte-range test for empty scalars;
    - the overhead read that happens only when the scalars are empty.
  - The actions are:
    - `NewBlock`: a block boundary. Upgrades only move forward and the
      attributes change.
    - `TryFetchOk`: `try_fetch` returns Ok and the record is stored.
    - `TryFetchErr(call)`: the call-th database call fails, `?` returns at
      once, and nothing is stored.
    - `ChargeTx(input)`: `calculate_tx_l1_cost` on the stored record.
  - The handler is not among the sources. Its block loop (`NewBlock`, `Init`)
    follows spec.md 3, 4.2 and 7: an error aborts the block.
- `L1FeeVariant`: the abstract specification. The block's parameters are the
  tagged variant of spec.md 9 (`Legacy`, `Ecotone`, `EcotoneFallback`), built
  in one step straight from the attributes (`Load`, or `LoadFails`), and a
  fee (`Charge`) is the variant's formula over unbounded integers, clamped
  once. It has no storage slots, no byte decoding, no saturating chains.
  `L1Block` maps onto it by `paramsBar`: before a successful load there are no
  parameters; after it, the flat record read as a variant by the upgrade and
  `empty_scalars` (`VariantOf`).
- `L1FeeUnitTests`: the unit tests of l1block.rs, one definition per test,
  evaluated at the code's precision 1e6 through an `INSTANCE` of `L1Fee` with a
  31-bit word (1136, 48, 1600, 1144, 56, 1048, 0, 51, …), and the data gas of
  the 182-byte mainnet Ecotone transaction (2456) byte by byte. They are
  ASSUMEs, so every run of `MC_L1Block` evaluates them. The fees that need the
  256-bit word and the 1e12 Fjord precision are beyond TLC's integers; they are
  the theorems of `L1FeeUnitTestsProofs`.
- `MC_L1Block`: the model-checking instance. It extends `L1FeeUnitTests` and
  holds the fold check as an ASSUME.
- `L1FeeProofs`, `L1BlockProofs`, `L1FeeExactProofs`, `L1EmptyScalarsProofs`,
  `L1VariantProofs` and `L1FeeUnitTestsProofs`: the TLAPS proofs.

## Runs

| Run | Config | Expect | Checks |
|---|---|---|---|
| `loader_fees` | `MC_L1Block.cfg` | pass | `InfoMatchesOracle`, `FeeIsClampedExact` |
| `variant_refinement` | `MC_L1Block_refine.cfg` | pass | `ImplementsVariant` |
| `first_ecotone_fallback` | `MC_L1Block_fallback.cfg` | violation | `FirstEcotoneBlockIsBedrock` |

- `InfoMatchesOracle`: once `try_fetch` has succeeded in a block, the context
  holds exactly the attributes the contract holds, in the layout of spec.md 3.
  - The scalars are decoded back out of the packed slot, whatever the
    sequence number beside them.
  - `empty_scalars` holds exactly when the blob base fee and both scalars are
    zero.
  - The record is never one loaded under an earlier upgrade.
- `FeeIsClampedExact`: every fee charged equals the era's formula computed
  over unbounded integers, clamped at `MaxU256` before the final division. The
  saturating chains therefore never wrap and never overcharge, and they are
  exact when nothing overflows.
- `ImplementsVariant` (`V!Spec` under `paramsBar`): the loader never stores
  a combination of fields that is none of the three variants, the record it
  stores is the variant of the block's attributes, and every fee charged is
  the variant's fee. It also says that nothing is charged in a block whose
  load failed, which `InfoMatchesOracle` cannot see.
- `FirstEcotoneBlockIsBedrock` is expected to fail; this is the finding below.

Each property of the passing run has a mutant in PROJECT.json, and TLC finds it
violated:

- an empty-scalars test over only the base-fee window breaks
  `InfoMatchesOracle`;
- a wrapping `*` in `calculate_l1_fee_scaled_ecotone` breaks
  `FeeIsClampedExact`;
- a handler that charges transactions after `try_fetch` failed, on the previous
  block's record, breaks `ImplementsVariant` (and neither of the other two).

### Bounds and why they suffice

- The word is 12 bits (`MaxU256` = 4095), with `Precision` 10 and
  `FjordPrecision` 100 (1e6 and 1e6·1e6, scaled alike).
- Each attribute takes two values. The values are chosen so that each of these
  happens:
  - the empty-scalars case, and its near misses: a zero blob base fee with
    non-zero scalars, and a zero base-fee scalar beside a non-zero blob scalar;
  - a multi-byte scalar (300) and a non-zero uint64 sequence number,
    2^56 + 2^24 + 258, whose bytes 24, 27, 30 and 31 of slot 3 are non-zero:
    an empty-scalars window that reached one byte too far, or a scalar
    decoded from a shifted window, would see them. TLC's integers are 32
    bits wide, so `Attributes` holds the sequence number as its high and low
    32-bit halves (`[hi, lo]`), written to bytes 24..27 and 28..31;
  - saturation in every formula. A base fee of 256 makes 256·16·300 a
    multiple of 4096, so a wrapping product would be 0 where the saturating
    one is 4095.
- The payloads are:
  - empty;
  - a deposit (type byte 0x7F);
  - one non-zero byte;
  - zeros around a non-zero byte;
  - the unit tests' 0xFACADE.
- Upgrades advance arbitrarily between blocks, including a jump from Bedrock
  straight to Fjord.
- Each run reaches 10 752 distinct states in a few seconds.
- The byte-level decoding and the empty-scalars test do not depend on the word
  size. Their correctness for every value is the theorem `LoaderCorrect`.

### Fairness

None is assumed. The loader and the fee functions are synchronous calls made by
the handler, which is not among the sources. No property of this project is a
liveness property. The model never deadlocks: `NewBlock` is always possible
after a load or a failure.

## Finding

**First Ecotone block charges nothing** (spec_code_divergence, l1block.rs 102
and 209). In the first Ecotone block the packed scalars slot is still zero, so
`empty_scalars` holds. `calculate_tx_l1_cost_ecotone` then calls the Bedrock
formula. However, `try_fetch` has put into `l1_base_fee_scalar` the base-fee
scalar decoded from the empty slot 3, which is 0, and it never reads the legacy
scalar slot 6. Every non-deposit transaction of that block is therefore
charged 0.

spec.md 3 says the record "must behave as if the formula reverted to the
pre-Ecotone algorithm". That algorithm multiplies by `l1FeeScalar`. TLC's
counterexample has Ecotone active, a zero blob fee and zero scalars, and
`l1FeeScalar` = 1: the pre-Ecotone fee of a one-byte payload is positive, but
0 is charged.

## Proofs (TLAPS)

All constants are arbitrary within their ASSUMEs:

- `MaxU256 > 0`;
- positive precisions;
- any natural-valued estimator;
- attributes that are words, with uint32 scalars.

The proofs are:

- `L1FeeProofs`:
  - the lemmas that each U256 operation stays a word;
  - `data_gas` is natural;
  - `CalculateTxL1CostType`: `calculate_tx_l1_cost` returns a word in every
    upgrade. These lemmas only supply types to the proofs below.
- `L1BlockProofs`:
  - `FromBeBytesOfUint32`: `from_be_slice` of the four big-endian bytes of a
    uint32 gives it back. It rests on `DivBounds`, floor division in the bound
    form the SMT backend handles.
  - `DecodeWindow`: each scalar is decoded from its window of slot 3.
  - `EmptyWindowIffZeroScalars`: the byte range [16..24) is zero exactly when
    both scalars are.
  - `FetchedInfoIsExpected`: the record `try_fetch` builds is `ExpectedInfo`.
  - The invariant `IInv == TypeOK /\ InfoMatchesOracle` is inductive
    (`InitIInv`, `NextIInv`). `TypeOK` is not checked by any run (the ruint
    words wrap rather than leave their range); it is kept only as the part of
    the inductive invariant that gives the provers the types of the state.
  - `LoaderCorrect` (`Spec => []InfoMatchesOracle`).

- `L1FeeExactProofs`:
  - `SaturatingIsClamp`: each saturating operation is `Clamp` of the exact one.
  - `ClampMul` and `ClampAdd`: clamping an operand first does not change a
    clamped product or sum. This is why a chain of saturating steps equals one
    clamp at the end. A saturated intermediate multiplied by 0 gives 0, which
    is also what the exact product gives.
  - `ScaledIsClamp` and `BedrockIsClamp`: the same result for
    `calculate_l1_fee_scaled_ecotone` and for the Bedrock chain.
  - `FeeIsExact`: `calculate_tx_l1_cost` equals `ExactFee` in every upgrade.
  - `FeeExact` (`Spec => []FeeIsClampedExact`) uses the inductive invariant
    `FInv`. `FInv` is `IInv` plus the fact that a pending load has no charged
    transaction. Without that fact, a fee charged on the previous block's
    record would be compared with the new record.
  - `FeeExact` holds under the hypothesis `GasFitsWord`: the pre-Regolith gas
    of every payload, plus 68·16, fits in the word. Without it the `+=` of
    `data_gas` wraps. At 2^256 the hypothesis holds for every payload; at the
    instance's 12-bit word it holds for the payloads TLC uses.

- `L1EmptyScalarsProofs`:
  - `ExpectedFeeFallback`: from Ecotone on, before Fjord, the exact fee of
    the record `try_fetch` builds from attributes with empty scalars is 0,
    because the base-fee scalar of an empty slot is 0.
  - `ExpectedFeeFjord` and `ExpectedFeeFjordEmpty`: the Fjord fee of that
    record, and that it is 0 when both scalars are 0.
  - The inductive invariant `MInv` is `FInv` plus the fact that a fee is
    recorded only in a block whose record is loaded: without it a charged fee
    could sit beside a failed load, where `InfoMatchesOracle` says nothing of
    `chain`.
  - `EmptyScalarsFree` (`Spec => []EmptyScalarsChargeNothing`, under
    `GasFitsWord`): from Ecotone on, every fee charged while the scalars are
    empty is 0, under the Bedrock fallback and under Fjord (which
    `calculate_tx_l1_cost` dispatches to before looking at `empty_scalars`).
    This is the finding below for every value of the constants; the
    violation run shows it on one instance.
- `L1VariantProofs`:
  - `VariantOfExpected`: the expected record read as a variant is the abstract
    loader's variant of the same attributes.
  - `ExactFeeIsVariantFee`: on that record, the exact era formula of the flat
    record equals the variant's fee. The dispatch on `empty_scalars` is the
    dispatch on the tag, and the optional fields read as zero are the ones the
    variant lacks.
  - `Refinement` (`Spec => ImplementsVariant`, under `GasFitsWord`): initial
    states map to the abstract initial state, and under `IInv` each step maps
    to `NewBlock`, `Load`, `LoadFails`, `Charge` or a stutter. A charge needs
    `IInv` (the record is the expected one) and `FeeIsExact`.
- `L1FeeUnitTestsProofs`, at the code's 256-bit word:
  - `MainnetEcotoneFee`: the mainnet Ecotone transaction costs exactly
    7306020222001 wei, as `calculate_tx_l1_cost_ecotone` asserts.
  - `FjordTestFees`: the Fjord fees 1700 and 2148 of
    `test_calculate_tx_l1_cost_fjord`, given the compressed sizes the test
    works out in its comments.
  The large products are named by `PICK` and bounded by `DivByBounds`, so the
  SMT backend never multiplies literals beyond 64 bits.

What the provers cannot reach stays with TLC:

- The weighted-count form of the `data_gas` fold is checked against the fold
  itself only on bounded payloads, because induction over data is beyond the
  provers.
- There are no liveness properties: see Fairness.

## Not modelled

- The `Database` implementation: its reads are the attributes' values, and any
  call may fail.
- The FastLZ estimator: an opaque operator.
- The handler's other work (deposits, refunds, fee recipients).
- The `L1_FEE_RECIPIENT` and `BASE_FEE_RECIPIENT` addresses, which the sources
  declare but never use.
- `calculate_tx_l1_cost_fjord` (493-527): its fee depends on the FastLZ size
  of the transaction, which is not modelled.
- The u64 accumulator of the `data_gas` fold: overflowing it would need a
  payload of more than 2^60 bytes.

## Plan for later work

1. A model of the handler's use of the record, once its source is available,
   to replace the block loop now taken from spec.md 7.

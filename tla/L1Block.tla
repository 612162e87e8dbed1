------------------------------- MODULE L1Block -------------------------------
(***************************************************************************)
(* The L1BlockInfo loader (L1BlockInfo::try_fetch) and its use by the      *)
(* execution context, block after block.                                   *)
(*                                                                         *)
(* attrs holds what the L1 attributes deposit last wrote into the L1Block  *)
(* contract; Sload gives the storage words try_fetch reads from it.  At a  *)
(* block boundary the active upgrade may advance and the attributes        *)
(* change; the handler then calls try_fetch, stores the record in the      *)
(* context through L1BlockInfoGetter::l1_block_info_mut, and every         *)
(* transaction of the block is charged calculate_tx_l1_cost on the record  *)
(* read back through l1_block_info.  The handler and the contract are not  *)
(* in the sources at hand; they follow spec.md 3 and 4.2.                  *)
(***************************************************************************)
EXTENDS L1Fee

CONSTANTS
  L1BaseFees, L1FeeOverheads, L1FeeScalars,     \* words of slots 1, 5, 6
  BlobBaseFees,                                 \* words of slot 7
  BaseFeeScalars, BlobBaseFeeScalars,           \* uint32 fields of slot 3
  SequenceNumbers                               \* uint64 field of slot 3, as
                                                \* its [hi, lo] 32-bit halves

\* x < 2^32, written so that TLC never forms 2^32.
IsUint32(x) == x \in Nat /\ x \div 16777216 < 256

ASSUME AttributesAssumption ==
  /\ L1BaseFees \subseteq U256 /\ L1FeeOverheads \subseteq U256
  /\ L1FeeScalars \subseteq U256 /\ BlobBaseFees \subseteq U256
  /\ \A x \in BaseFeeScalars \cup BlobBaseFeeScalars : IsUint32(x)
  /\ \A n \in SequenceNumbers : IsUint32(n.hi) /\ IsUint32(n.lo)

Attributes ==
  [l1BaseFee: L1BaseFees, l1FeeOverhead: L1FeeOverheads, l1FeeScalar: L1FeeScalars,
   blobBaseFee: BlobBaseFees, baseFeeScalar: BaseFeeScalars,
   blobBaseFeeScalar: BlobBaseFeeScalars, sequenceNumber: SequenceNumbers]

L1_BASE_FEE_SLOT              == 1
ECOTONE_L1_FEE_SCALARS_SLOT   == 3
L1_OVERHEAD_SLOT              == 5
L1_SCALAR_SLOT                == 6
ECOTONE_L1_BLOB_BASE_FEE_SLOT == 7

BASE_FEE_SCALAR_OFFSET      == 16
BLOB_BASE_FEE_SCALAR_OFFSET == 20

EMPTY_SCALARS == [i \in 0..7 |-> 0]

(***************************************************************************)
(* The L1Block contract's storage.  The packed slot 3 is represented by    *)
(* its 32 big-endian bytes (to_be_bytes::<32>): uint32 baseFeeScalar at   *)
(* bytes 16..19, uint32 blobBaseFeeScalar at 20..23, the uint64 sequence   *)
(* number at 24..31 (its high and low 32-bit halves, as TLC's integers are *)
(* 32 bits wide), zero elsewhere.                                         *)
(***************************************************************************)
ByteOf(v, k) == (v \div (CASE k = 0 -> 1 [] k = 1 -> 256
                          [] k = 2 -> 65536 [] k = 3 -> 16777216)) % 256

ScalarsSlotBytes(a) ==
  [i \in 0..31 |->
     CASE i \in 16..19 -> ByteOf(a.baseFeeScalar, 19 - i)
       [] i \in 20..23 -> ByteOf(a.blobBaseFeeScalar, 23 - i)
       [] i \in 24..27 -> ByteOf(a.sequenceNumber.hi, 27 - i)
       [] i \in 28..31 -> ByteOf(a.sequenceNumber.lo, 31 - i)
       [] OTHER        -> 0]

Sload(a, slot) ==
  CASE slot = L1_BASE_FEE_SLOT              -> a.l1BaseFee
    [] slot = L1_OVERHEAD_SLOT              -> a.l1FeeOverhead
    [] slot = L1_SCALAR_SLOT                -> a.l1FeeScalar
    [] slot = ECOTONE_L1_BLOB_BASE_FEE_SLOT -> a.blobBaseFee
    [] slot = ECOTONE_L1_FEE_SCALARS_SLOT   -> ScalarsSlotBytes(a)

\* bytes[from..to] of a Rust slice, re-indexed from 0.
Slice(bytes, from, to) == [i \in 0..(to - from - 1) |-> bytes[from + i]]

\* U256::from_be_slice of a 4-byte slice.
FromBeSlice(s) == s[0] * 16777216 + s[1] * 65536 + s[2] * 256 + s[3]

VARIABLES
  spec,     \* the upgrade active in the current block
  attrs,    \* the L1 attributes held by the L1Block contract
  phase,    \* "start": try_fetch pending, "ready": loaded, "failed": load erred
  chain,    \* the context's L1BlockInfo (Context.chain)
  charged   \* the last transaction charged in this block, or None

vars == <<spec, attrs, phase, chain, charged>>

-----------------------------------------------------------------------------
(***************************************************************************)
(* try_fetch.  FetchCalls lists the database calls in the order the code   *)
(* makes them; each may return an error, which `?` propagates at once.     *)
(* FetchedInfo is the record built when none fails.                        *)
(***************************************************************************)
\* A variant of the empty-scalars test that compares only the base-fee
\* scalar's window, as a slip in the slice bounds would.
FetchEmptyScalarsBaseWindowOnly(a) ==
  /\ Sload(a, ECOTONE_L1_BLOB_BASE_FEE_SLOT) = 0
  /\ Slice(Sload(a, ECOTONE_L1_FEE_SCALARS_SLOT),
           BASE_FEE_SCALAR_OFFSET, BLOB_BASE_FEE_SCALAR_OFFSET) = [i \in 0..3 |-> 0]

FetchEmptyScalars(a) ==
  /\ Sload(a, ECOTONE_L1_BLOB_BASE_FEE_SLOT) = 0
  /\ Slice(Sload(a, ECOTONE_L1_FEE_SCALARS_SLOT),
           BASE_FEE_SCALAR_OFFSET, BLOB_BASE_FEE_SCALAR_OFFSET + 4) = EMPTY_SCALARS

FetchCalls(s, a) ==
  (IF IsCancunEnabledIn(s) THEN <<"basic">> ELSE <<>>)
  \o <<L1_BASE_FEE_SLOT>>
  \o (IF ~IsEnabledIn(s, ECOTONE)
      THEN <<L1_OVERHEAD_SLOT, L1_SCALAR_SLOT>>
      ELSE <<ECOTONE_L1_BLOB_BASE_FEE_SLOT, ECOTONE_L1_FEE_SCALARS_SLOT>>
           \o (IF FetchEmptyScalars(a) THEN <<L1_OVERHEAD_SLOT>> ELSE <<>>))

\* The record of the pre-Ecotone branch.
FetchedInfoLegacy(a) ==
  [DefaultL1BlockInfo EXCEPT
     !.l1_base_fee = Sload(a, L1_BASE_FEE_SLOT),
     !.l1_fee_overhead = Sload(a, L1_OVERHEAD_SLOT),
     !.l1_base_fee_scalar = Sload(a, L1_SCALAR_SLOT)]

\* U256::from_be_slice of the 4-byte window at offset of the packed slot.
DecodeScalar(scalars, offset) == FromBeSlice(Slice(scalars, offset, offset + 4))

\* The record of the Ecotone-or-later branch.
FetchedInfoEcotone(a) ==
  LET scalars == Sload(a, ECOTONE_L1_FEE_SCALARS_SLOT)
      empty   == FetchEmptyScalars(a)
  IN [l1_base_fee |-> Sload(a, L1_BASE_FEE_SLOT),
      l1_base_fee_scalar |-> DecodeScalar(scalars, BASE_FEE_SCALAR_OFFSET),
      l1_blob_base_fee |-> Sload(a, ECOTONE_L1_BLOB_BASE_FEE_SLOT),
      l1_blob_base_fee_scalar |-> DecodeScalar(scalars, BLOB_BASE_FEE_SCALAR_OFFSET),
      empty_scalars |-> empty,
      l1_fee_overhead |-> IF empty THEN Sload(a, L1_OVERHEAD_SLOT) ELSE None]

FetchedInfo(s, a) ==
  IF ~IsEnabledIn(s, ECOTONE) THEN FetchedInfoLegacy(a) ELSE FetchedInfoEcotone(a)

-----------------------------------------------------------------------------
Init ==
  /\ spec \in OpSpecIds
  /\ attrs \in Attributes
  /\ phase = "start"
  /\ chain = DefaultL1BlockInfo
  /\ charged = None

\* A block boundary: upgrades only activate, the attributes deposit rewrites
\* the contract, and the next block has not loaded its record yet.
NewBlock ==
  /\ phase \in {"ready", "failed"}
  /\ \E s \in OpSpecIds : s >= spec /\ spec' = s
  /\ attrs' \in Attributes
  /\ phase' = "start"
  /\ charged' = None
  /\ UNCHANGED chain

\* try_fetch returns Ok and the handler stores it with l1_block_info_mut.
TryFetchOk ==
  /\ phase = "start"
  /\ chain' = FetchedInfo(spec, attrs)
  /\ phase' = "ready"
  /\ UNCHANGED <<spec, attrs, charged>>

\* The call-th database call of try_fetch fails: the error propagates and
\* no record is stored.
TryFetchErr(call) ==
  /\ phase = "start"
  /\ phase' = "failed"
  /\ UNCHANGED <<spec, attrs, chain, charged>>

\* A handler that goes on charging the block's transactions after try_fetch
\* failed, on whatever record the context still holds.
ChargeTxAfterFailedLoad(input) ==
  /\ phase \in {"ready", "failed"}
  /\ charged' = [input |-> input, fee |-> CalculateTxL1Cost(chain, input, spec)]
  /\ UNCHANGED <<spec, attrs, phase, chain>>

\* A transaction of the block is charged on the record read back through
\* L1BlockInfoGetter::l1_block_info.
ChargeTx(input) ==
  /\ phase = "ready"
  /\ charged' = [input |-> input, fee |-> CalculateTxL1Cost(chain, input, spec)]
  /\ UNCHANGED <<spec, attrs, phase, chain>>

Next ==
  \/ NewBlock
  \/ TryFetchOk
  \/ \E call \in 1..Len(FetchCalls(spec, attrs)) : TryFetchErr(call)
  \/ \E input \in TxInputs : ChargeTx(input)

Spec == Init /\ [][Next]_vars

-----------------------------------------------------------------------------
(***************************************************************************)
(* Properties.                                                             *)
(***************************************************************************)
TypeOK ==
  /\ spec \in OpSpecIds
  /\ attrs \in Attributes
  /\ phase \in {"start", "ready", "failed"}
  /\ chain \in L1BlockInfoType
  /\ charged \in {None} \cup [input: TxInputs, fee: U256]

(***************************************************************************)
(* The record the era's layout carries for the attributes the contract     *)
(* holds (spec.md 3 and 4.2): before Ecotone the legacy overhead and       *)
(* scalar; from Ecotone the two uint32 scalars and the blob base fee, the  *)
(* overhead only when all three are zero.                                  *)
(***************************************************************************)
ExpectedInfo(s, a) ==
  IF s < ECOTONE
  THEN [l1_base_fee |-> a.l1BaseFee, l1_fee_overhead |-> a.l1FeeOverhead,
        l1_base_fee_scalar |-> a.l1FeeScalar, l1_blob_base_fee |-> None,
        l1_blob_base_fee_scalar |-> None, empty_scalars |-> FALSE]
  ELSE LET empty == a.blobBaseFee = 0 /\ a.baseFeeScalar = 0 /\ a.blobBaseFeeScalar = 0
       IN [l1_base_fee |-> a.l1BaseFee,
           l1_fee_overhead |-> IF empty THEN a.l1FeeOverhead ELSE None,
           l1_base_fee_scalar |-> a.baseFeeScalar, l1_blob_base_fee |-> a.blobBaseFee,
           l1_blob_base_fee_scalar |-> a.blobBaseFeeScalar, empty_scalars |-> empty]

(***************************************************************************)
(* InfoMatchesOracle: once try_fetch succeeded in a block, the context's   *)
(* L1BlockInfo carries exactly the attributes the L1Block contract holds,  *)
(* in the layout of the block's upgrade: the uint32 scalars come back out  *)
(* of the packed slot 3 whatever the sequence number beside them, the      *)
(* empty_scalars byte-range test is the test that the blob base fee and    *)
(* both scalars are zero, and the optional fields are set as spec.md 3's   *)
(* table says (try_fetch, l1block.rs 77-128).                              *)
(***************************************************************************)
InfoMatchesOracle == phase = "ready" => chain = ExpectedInfo(spec, attrs)

(***************************************************************************)
(* The fee formulas of spec.md 4.3 over unbounded integers, clamped once   *)
(* at the end.                                                             *)
(***************************************************************************)
ExactFee(info, input, s) ==
  LET gas    == RollupDataGas(input) + (IF s < REGOLITH THEN NON_ZERO_BYTE_COST * 68 ELSE 0)
      scaled == info.l1_base_fee * NON_ZERO_BYTE_COST * info.l1_base_fee_scalar
                  + UnwrapOrDefault(info.l1_blob_base_fee)
                    * UnwrapOrDefault(info.l1_blob_base_fee_scalar)
  IN IF input = <<>> \/ input[1] = DEPOSIT_TX_TYPE THEN 0
     ELSE IF s >= FJORD
     THEN Clamp(EstimateTxCompressedSize(input) * scaled) \div FjordPrecision
     ELSE IF s >= ECOTONE /\ ~info.empty_scalars
     THEN Clamp(scaled * gas) \div (Precision * NON_ZERO_BYTE_COST)
     ELSE Clamp((gas + UnwrapOrDefault(info.l1_fee_overhead))
                  * info.l1_base_fee * info.l1_base_fee_scalar) \div Precision

(***************************************************************************)
(* FeeIsClampedExact: every fee calculate_tx_l1_cost charges equals the    *)
(* era's formula computed exactly and clamped to MaxU256 before the final  *)
(* division: the chains of saturating_mul and saturating_add in            *)
(* calculate_tx_l1_cost_bedrock, calculate_l1_fee_scaled_ecotone and the   *)
(* Ecotone and Fjord formulas never wrap, never overcharge, and are exact  *)
(* whenever nothing overflows (spec.md 7); deposits and empty payloads     *)
(* cost nothing, and Fjord never reads the overhead.                       *)
(***************************************************************************)
FeeIsClampedExact ==
  charged # None => charged.fee = ExactFee(chain, charged.input, spec)

(***************************************************************************)
(* FirstEcotoneBlockIsBedrock: in a block where Ecotone (not Fjord) is     *)
(* active and the scalars are still empty, the fee charged is what the     *)
(* pre-Ecotone algorithm charges on the same chain state, with the legacy  *)
(* overhead and scalar slots (spec.md 3: "the record must behave as if the *)
(* formula reverted to the pre-Ecotone algorithm"; l1block.rs 206-211).    *)
(***************************************************************************)
FirstEcotoneBlockIsBedrock ==
  (charged # None /\ spec = ECOTONE /\ chain.empty_scalars)
    => charged.fee = CalculateTxL1Cost(FetchedInfo(REGOLITH, attrs), charged.input, REGOLITH)

-----------------------------------------------------------------------------
(***************************************************************************)
(* Refinement.  The flat L1BlockInfo is read as the tagged variant of      *)
(* spec.md 9 the way calculate_tx_l1_cost dispatches on it: by the upgrade *)
(* and empty_scalars.  An optional field the era needs but the record      *)
(* leaves unset maps to None, which no variant of L1FeeVariant holds.      *)
(* Outside a loaded block the abstract parameters are None.                *)
(***************************************************************************)
VariantOf(info, s) ==
  IF s < ECOTONE
  THEN [tag |-> "Legacy", l1_base_fee |-> info.l1_base_fee,
        l1_fee_overhead |-> info.l1_fee_overhead,
        l1_base_fee_scalar |-> info.l1_base_fee_scalar]
  ELSE IF info.empty_scalars
  THEN [tag |-> "EcotoneFallback", l1_base_fee |-> info.l1_base_fee,
        l1_fee_overhead |-> info.l1_fee_overhead,
        l1_base_fee_scalar |-> info.l1_base_fee_scalar]
  ELSE [tag |-> "Ecotone", l1_base_fee |-> info.l1_base_fee,
        l1_base_fee_scalar |-> info.l1_base_fee_scalar,
        l1_blob_base_fee |-> info.l1_blob_base_fee,
        l1_blob_base_fee_scalar |-> info.l1_blob_base_fee_scalar]

paramsBar == IF phase = "ready" THEN VariantOf(chain, spec) ELSE None

V == INSTANCE L1FeeVariant WITH params <- paramsBar

(***************************************************************************)
(* ImplementsVariant: the loader and the fee calculator together behave   *)
(* as L1FeeVariant.  Every try_fetch that returns Ok stores exactly the    *)
(* variant the block's upgrade and attributes call for, with every field   *)
(* that variant needs set; a failed try_fetch leaves the block without     *)
(* parameters, and no transaction is charged until a record is loaded;     *)
(* every fee calculate_tx_l1_cost charges is the variant's formula,        *)
(* clamped exactly (try_fetch, calculate_tx_l1_cost and the functions it  *)
(* dispatches to, l1block.rs 77-246).                                      *)
(***************************************************************************)
ImplementsVariant == V!Spec

=============================================================================

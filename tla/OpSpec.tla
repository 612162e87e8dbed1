------------------------------- MODULE OpSpec -------------------------------
(***************************************************************************)
(* The hardfork gate.  OpSpecId is an ordered enum of the OP-stack         *)
(* upgrades; OpSpec::is_enabled_in(fork) holds when the active upgrade is  *)
(* at or after fork.  The enum lives in the crate's spec module, which is  *)
(* not part of the sources at hand: this module follows spec.md 4.1.       *)
(***************************************************************************)
EXTENDS Naturals

BEDROCK  == 0
REGOLITH == 1
ECOTONE  == 2
FJORD    == 3

OpSpecIds == {BEDROCK, REGOLITH, ECOTONE, FJORD}

\* OpSpec::is_enabled_in(OpSpecId): the total order on upgrades.
IsEnabledIn(spec, fork) == spec >= fork

\* OpSpec::is_enabled_in(SpecId::CANCUN): Ecotone is the first OP upgrade
\* whose Ethereum base specification is Cancun.
IsCancunEnabledIn(spec) == spec >= ECOTONE

=============================================================================

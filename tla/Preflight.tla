----------------------------- MODULE Preflight ------------------------------
(***************************************************************************)
(* The checks both wallets run on an unsigned spend with one input, a      *)
(* destination and change (vault-core/src/preflight.rs), in the arithmetic *)
(* of a release build: u64 sums and differences wrap around.               *)
(***************************************************************************)
EXTENDS Naturals

CONSTANTS
    Word,       \* 2^64
    Dust,       \* DUST_THRESHOLD
    FeeFloor,   \* minimum_relay_fee of a two-output vault spend
    StorageC,   \* STORAGE_MASS_PARAMETER
    MassLimit   \* mass a block allows

ASSUME PreflightAssumption ==
    /\ Word \in Nat \ {0} /\ Dust \in Nat \ {0}
    /\ FeeFloor \in Nat /\ StorageC \in Nat /\ MassLimit \in Nat

Plus(a, b)  == (a + b) % Word
Minus(a, b) == (a + Word - b) % Word

\* saturating_sub
Less(a, b) == IF a > b THEN a - b ELSE 0

\* The largest amount the binding digest can express, i64::MAX.
MaxAmount == (Word \div 2) - 1

\* KIP-9 storage mass of one input and two outputs.
StorageMass(in, out1, out2) ==
    Less(StorageC \div out1 + StorageC \div out2, StorageC \div in)

\* estimate succeeds: the outputs fit the input and none is dust.
Estimate(in, amount, change) ==
    /\ Plus(amount, change) <= in
    /\ amount >= Dust /\ change >= Dust

\* Seeded fault: the fee floor is left to the node.
Enforce_NoFeeFloor(in, amount, change) ==
    /\ Estimate(in, amount, change)
    /\ StorageMass(in, amount, change) <= MassLimit

\* Seeded fault: the mass limit is left to the node.
Enforce_NoMass(in, amount, change) ==
    /\ Estimate(in, amount, change)
    /\ Minus(in, Plus(amount, change)) >= FeeFloor

\* enforce succeeds: the fee reaches the floor and a block has room.
Enforce(in, amount, change) ==
    /\ Estimate(in, amount, change)
    /\ Minus(in, Plus(amount, change)) >= FeeFloor
    /\ StorageMass(in, amount, change) <= MassLimit

\* binding_preimage refuses amounts the script could not read back.
Bindable(amount, change) == amount <= MaxAmount /\ change <= MaxAmount

\* The fee a command sets when the user names none.
DefaultFee == (FeeFloor * 120) \div 100

\* What a node requires of the amounts of a spend, in true arithmetic.
NodeAccepts(in, amount, change) ==
    /\ amount + change + FeeFloor <= in
    /\ StorageMass(in, amount, change) <= MassLimit

=============================================================================

-------------------------------- MODULE Chain -------------------------------
(***************************************************************************)
(* The time and the chain as the Ethereum node reports it.  A slot brings  *)
(* one block, at most Jitter after its start, or none.                     *)
(***************************************************************************)
EXTENDS Integers

CONSTANTS
  SlotTime,     \* 12 seconds
  Jitter,       \* how late in its slot a block may come
  MaxSlot       \* bound: the last slot

ASSUME ChainAssumption ==
  SlotTime \in Nat /\ Jitter \in Nat /\ Jitter < SlotTime /\ MaxSlot \in Nat

VARIABLES
  slot,
  phase,        \* the time since the start of the slot
  due,          \* the block of the slot is still to come
  head          \* the latest block

chainVars == <<slot, phase, due, head>>

\* The slots, up to now, that have passed without a block.
Missed == (IF due THEN slot - 1 ELSE slot) - (head - 1)

ChainInit == slot = 0 /\ phase = 0 /\ due = FALSE /\ head = 1

NewBlock == due /\ due' = FALSE /\ head' = head + 1 /\ UNCHANGED <<slot, phase>>
MissSlot == due /\ due' = FALSE /\ UNCHANGED <<slot, phase, head>>

\* A unit of time passes.
Tick ==
  /\ due => phase < Jitter
  /\ \/ /\ phase + 1 < SlotTime
        /\ phase' = phase + 1
        /\ UNCHANGED <<slot, due>>
     \/ /\ phase + 1 = SlotTime /\ slot < MaxSlot
        /\ phase' = 0 /\ slot' = slot + 1 /\ due' = TRUE
  /\ UNCHANGED head
=============================================================================

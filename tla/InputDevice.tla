----------------------------- MODULE InputDevice -----------------------------
(***************************************************************************)
(* The keyboard device of sim/src/io/input_device.cpp: a ring buffer of    *)
(* key codes filled by the frontend and drained by the program through     *)
(* memory-mapped registers, and the level of the CPU's IRQ line, which the *)
(* device refreshes once per CPU tick, in the Control phase.               *)
(***************************************************************************)
EXTENDS Integers, Sequences, FiniteSets

CONSTANTS
  Keys,        \* key codes the frontend may inject
  NoKey,       \* 0x00, the answer to a read of an empty queue
  QUEUE_SIZE,  \* capacity of the ring (16 in the code)
  KeyBits      \* bits of the held-key bitmask

ASSUME QueueSizeAssumption == QUEUE_SIZE \in Nat \ {0}

VARIABLES
  queue,        \* queue_: the ring's slots
  read_idx,     \* read_idx_
  write_idx,    \* write_idx_
  count,        \* count_
  irq_enabled,  \* irq_enabled_
  key_state,    \* key_state_: the keys held down
  irq_line,     \* the CPU's latched IRQ control
  answer        \* value of the last DATA or PEEK read (observation only)

ringVars == <<queue, read_idx, write_idx, count>>
vars == <<queue, read_idx, write_idx, count, irq_enabled, key_state, irq_line,
          answer>>

Slots == 0 .. QUEUE_SIZE - 1
Codes == Keys \cup {NoKey}

(* The members of InputDevice keep their ranges: both indices stay inside
   queue_ and count_ never exceeds QUEUE_SIZE. *)
TypeOK ==
  /\ queue \in [Slots -> Codes]
  /\ read_idx \in Slots
  /\ write_idx \in Slots
  /\ count \in 0 .. QUEUE_SIZE
  /\ irq_enabled \in BOOLEAN
  /\ key_state \subseteq KeyBits
  /\ irq_line \in BOOLEAN
  /\ answer \in Codes

Init ==
  /\ queue = [i \in Slots |-> NoKey]
  /\ read_idx = 0
  /\ write_idx = 0
  /\ count = 0
  /\ irq_enabled = FALSE
  /\ key_state = {}
  /\ irq_line = FALSE
  /\ answer = NoKey

empty == count = 0
full == count = QUEUE_SIZE
irq_pending == irq_enabled /\ ~empty

(* The slot after i, around the ring. *)
NextSlot(i) == (i + 1) % QUEUE_SIZE

(***************************************************************************)
(* Frontend side: called between two slices of CPU execution.              *)
(***************************************************************************)

(* inject_key, the part that touches the ring: a code is stored unless the
   ring is full. *)
Enqueue(k) ==
  /\ ~full
  /\ queue' = [queue EXCEPT ![write_idx] = k]
  /\ write_idx' = NextSlot(write_idx)
  /\ count' = count + 1
  /\ UNCHANGED read_idx

inject_key(k) ==
  /\ Enqueue(k)
  /\ UNCHANGED <<irq_enabled, key_state, irq_line, answer>>

(* Mutant: a full ring gives up its oldest key. *)
drop_oldest ==
  /\ full
  /\ read_idx' = NextSlot(read_idx)
  /\ count' = count - 1
  /\ UNCHANGED <<queue, write_idx, irq_enabled, key_state, irq_line, answer>>

(* inject_key on a full ring returns without storing the key. *)
drop_key ==
  /\ full
  /\ UNCHANGED vars

set_key_down(b) ==
  /\ key_state' = key_state \cup {b}
  /\ UNCHANGED <<ringVars, irq_enabled, irq_line, answer>>

set_key_up(b) ==
  /\ key_state' = key_state \ {b}
  /\ UNCHANGED <<ringVars, irq_enabled, irq_line, answer>>

(***************************************************************************)
(* Program side: MMIO registers.                                           *)
(***************************************************************************)

(* What peek() and pop() return. *)
Front == IF empty THEN NoKey ELSE queue[read_idx]

(* Mutant: pop forgets to advance the read index. *)
ReadDataInPlace ==
  /\ answer' = Front
  /\ count' = IF empty THEN count ELSE count - 1
  /\ UNCHANGED <<queue, read_idx, write_idx, irq_enabled, key_state, irq_line>>

(* Read of DATA: pop(). *)
ReadData ==
  /\ answer' = Front
  /\ read_idx' = IF empty THEN read_idx ELSE NextSlot(read_idx)
  /\ count' = IF empty THEN count ELSE count - 1
  /\ UNCHANGED <<queue, write_idx, irq_enabled, key_state, irq_line>>

(* Write of CONTROL: bit 0 enables the interrupt. *)
WriteControl(enable) ==
  /\ irq_enabled' = enable
  /\ UNCHANGED <<ringVars, key_state, irq_line, answer>>

(***************************************************************************)
(* Clock side.                                                             *)
(***************************************************************************)

(* Mutant: the latched line is raised and never lowered. *)
TickControlRaises ==
  /\ irq_line' = (irq_line \/ irq_pending)
  /\ UNCHANGED <<ringVars, irq_enabled, key_state, answer>>

(* TickControl: the latched line takes the level of the queue. *)
TickControl ==
  /\ irq_line' = irq_pending
  /\ UNCHANGED <<ringVars, irq_enabled, key_state, answer>>

Frontend ==
  \/ \E k \in Keys : inject_key(k)
  \/ drop_key
  \/ \E b \in KeyBits : set_key_down(b) \/ set_key_up(b)

Program == ReadData \/ \E enable \in BOOLEAN : WriteControl(enable)

Next == Frontend \/ Program \/ TickControl

Spec == Init /\ [][Next]_vars

(***************************************************************************)
(* Properties.                                                             *)
(***************************************************************************)

(* The two indices and the counter always describe the same segment of the
   ring (read_idx_, write_idx_ and count_ are updated separately by
   inject_key and pop): the write index is count slots after the read
   index. *)
RingInv == write_idx = (read_idx + count) % QUEUE_SIZE

(* Every slot of the occupied segment holds a key that was injected, so a
   pop never hands the program a slot that was never written. *)
OccupiedSlotsHoldKeys ==
  \A i \in 0 .. count - 1 : queue[(read_idx + i) % QUEUE_SIZE] \in Keys

(* inject_key, pop and the register accesses keep the ring sound: its state
   has its types, the indices agree with the count, and what is popped was
   injected.  No part of this is inductive without the others. *)
IInv == TypeOK /\ RingInv /\ OccupiedSlotsHoldKeys

(* The n slots of ring q that start at r, in ring order. *)
Segment(q, r, n) == [i \in 1 .. n |-> q[(r + (i - 1)) % QUEUE_SIZE]]

(* The abstract queue: the occupied segment, oldest key first. *)
Contents == Segment(queue, read_idx, count)

Fifo == INSTANCE KeyFifo WITH queue <- Contents

(* The ring implements the bounded FIFO: order is kept around the wrap,
   nothing is lost, duplicated or overwritten, and a full ring drops the
   new key and not an old one. *)
ImplementsFifo == Fifo!Spec
=============================================================================

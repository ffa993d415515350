------------------------------- MODULE Devices -------------------------------
(***************************************************************************)
(* The machine around the CPU: Memory routes the one load or store of a    *)
(* tick to RAM, ROM, the keyboard or the graphics coprocessor.  A tick     *)
(* starts with the Control phase, in which the keyboard refreshes the IRQ  *)
(* line, and the access follows in the Write and Read phases; the frontend *)
(* acts only between ticks.  Everything runs in one thread, so while       *)
(* draw_line loops nothing else moves.                                     *)
(***************************************************************************)
EXTENDS InputDevice, VectorGraphics, MemoryMap

CONSTANTS
  Loads(_),   \* addresses the program of a layout loads from
  Stores(_),  \* its stores, pairs of address and byte
  Typed(_)    \* keys the user of a layout hits

ASSUME ProgramAssumption ==
  \A f \in Layouts : Stores(f) \subseteq Word \X Byte /\ Typed(f) \subseteq Keys

VARIABLE phase  \* "control", or "access" until the tick's access is over

devVars == <<vars, lineVars, vgcVars, mapVars, phase>>

DevInit == Init /\ LineInit /\ VgcInit /\ MapInit /\ phase = "control"

DATA == 2

(* The constructors run before the first tick. *)
Construct ==
  /\ BuildRegion \/ CheckOverlaps
  /\ UNCHANGED <<vars, lineVars, vgcVars, phase>>

Has(kind) == \E i \in DOMAIN regions : regions[i].kind = kind

(* The keyboard ticks if it is there at all. *)
ControlPhase ==
  /\ machine = "running" /\ ~drawing /\ phase = "control"
  /\ IF Has("input") THEN TickControl ELSE UNCHANGED vars
  /\ phase' = "access"
  /\ UNCHANGED <<lineVars, vgcVars, mapVars>>

(* Memory::ReadAt: only DATA of the keyboard has an effect. *)
Load(a) ==
  /\ IF Kind(a) = "input" /\ Cell(a)[2] = DATA THEN ReadData ELSE UNCHANGED vars
  /\ UNCHANGED <<lineVars, vgcVars, mapVars>>

(* Stores to the registers of the two devices. *)
StoreToDevice(a, v) ==
  \/ /\ Kind(a) = "input"
     /\ IF Cell(a)[2] = 1 THEN WriteControl(Bit(v, 0) = 1) ELSE UNCHANGED vars
     /\ UNCHANGED <<lineVars, vgcVars, mapVars>>
  \/ /\ Kind(a) = "vgc"
     /\ VgcWrite(Cell(a)[2], v)
     /\ UNCHANGED <<vars, mapVars>>

(* Memory::WriteAt. *)
Store(a, v) ==
  \/ RamWrite(a, v) /\ UNCHANGED <<vars, lineVars, vgcVars>>
  \/ WriteThrows(a) /\ UNCHANGED <<vars, lineVars, vgcVars>>
  \/ StoreToDevice(a, v)

(* The rest of the tick: a load, a store or neither. *)
AccessPhase ==
  /\ machine = "running" /\ ~drawing /\ phase = "access"
  /\ phase' = "control"
  /\ \/ \E a \in Loads(factories) : Load(a)
     \/ \E s \in Stores(factories) : Store(s[1], s[2])
     \/ UNCHANGED <<vars, lineVars, vgcVars, mapVars>>

Drawing ==
  /\ LineLoop
  /\ UNCHANGED <<vars, vgcVars, mapVars, phase>>

(* HandleEvent of the frontend, between two slices of ticks. *)
Events ==
  /\ machine = "running" /\ ~drawing /\ phase = "control" /\ Has("input")
  /\ \/ \E k \in Typed(factories) : inject_key(k)
     \/ drop_key
     \/ \E b \in KeyBits : set_key_down(b) \/ set_key_up(b)
  /\ UNCHANGED <<lineVars, vgcVars, mapVars, phase>>

DevNext == Construct \/ ControlPhase \/ AccessPhase \/ Drawing \/ Events

(* The run loop takes tick after tick, each phase to its end, and a call
   that is running goes on: the one thread is never given up. *)
DevSpec ==
  /\ DevInit /\ [][DevNext]_devVars
  /\ WF_devVars(ControlPhase) /\ WF_devVars(AccessPhase) /\ WF_devVars(Drawing)

(* While the machine runs: a key that stays unread with the interrupt enabled
   raises the line, and once nothing is pending the line falls.  The line is
   refreshed in TickControl only, a tick waits for every line the program
   draws, and each of those must end. *)
PendingKeyRaisesIrq ==
  LET running == machine = "running"
  IN  /\ []<>(running /\ irq_pending => irq_line)
      /\ <>[](running /\ irq_pending) => <>[]irq_line
      /\ <>[](running /\ ~irq_pending) => <>[]~irq_line
=============================================================================

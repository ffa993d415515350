---------------------------- MODULE TickProtocol ----------------------------
(***************************************************************************)
(* The five-phase tick of the simulator, for any set of components, buses  *)
(* and control words: every component is ticked once in each phase, may    *)
(* put its value on its bus in the Write phase and take the bus's value in *)
(* the Read phase, and the controls and buses are cleared at the end.      *)
(*                                                                         *)
(* The code ticks components in registration order.  Here a phase ticks    *)
(* them in any order, so what is shown does not depend on registration.    *)
(***************************************************************************)
EXTENDS FiniteSets

CONSTANTS
  Components,  \* bus-connected registers and ports
  Buses,       \* data_bus and address_bus
  BusOf,       \* the bus a component is wired to
  Values,      \* what a register or a bus can hold
  Zero,        \* the value a reset leaves
  NoValue,     \* a bus nobody has written this tick
  Program      \* the control words of the compiled microcode

Ops == {"write", "read", "reset"}
Controls == Components \X Ops

Writers(step, b) == {c \in Components : <<c, "write">> \in step /\ BusOf[c] = b}
Readers(step, b) == {c \in Components : <<c, "read">> \in step /\ BusOf[c] = b}

(* Mutant: two writers of one bus are accepted. *)
ValidStepManyWriters(step) ==
  \A b \in Buses : Readers(step, b) # {} => Writers(step, b) # {}

(* BusValidator::ValidateStep: at most one writer per bus, and no reader
   without one. *)
ValidStep(step) ==
  \A b \in Buses :
    /\ \A v, w \in Writers(step, b) : v = w
    /\ Readers(step, b) # {} => Writers(step, b) # {}

ASSUME BusOfAssumption == BusOf \in [Components -> Buses]
ASSUME ValuesAssumption == Zero \in Values /\ NoValue \notin Values
ASSUME DisjointAssumption == Components \cap Buses = {}
ASSUME ProgramAssumption ==
  Program \subseteq SUBSET Controls /\ \A step \in Program : ValidStep(step)

VARIABLES
  phase,     \* current_phase_
  pending,   \* what this phase has still to tick
  asserted,  \* the asserted controls
  bus,       \* the value on each bus, or NoValue
  value,     \* the value in each component
  error      \* a SimError has been thrown out of the tick

vars == <<phase, pending, asserted, bus, value, error>>

Phases == {"None", "Write", "Read", "Process", "Clear"}

(* Phases, controls, bus and register values keep their types. *)
TypeOK ==
  /\ phase \in Phases
  /\ pending \subseteq Components \cup Buses
  /\ asserted \subseteq Controls
  /\ bus \in [Buses -> Values \cup {NoValue}]
  /\ value \in [Components -> Values]
  /\ error \in BOOLEAN

Init ==
  /\ phase = "None"
  /\ pending = {}
  /\ asserted = {}
  /\ bus = [b \in Buses |-> NoValue]
  /\ value \in [Components -> Values]
  /\ error = FALSE

(* The Control phase: the controller asserts one word of the microcode. *)
TickControl ==
  /\ phase = "None"
  /\ \E step \in Program : asserted' = asserted \cup step
  /\ phase' = "Write"
  /\ pending' = Components
  /\ UNCHANGED <<bus, value, error>>

(* A component is ticked: it leaves the phase's work list. *)
Ticked(p, c) == phase = p /\ c \in pending /\ pending' = pending \ {c}

(* Write phase: Bus::Write throws when the bus is already written. *)
TickWrite(c) ==
  /\ Ticked("Write", c)
  /\ LET writes == <<c, "write">> \in asserted
         taken == bus[BusOf[c]] # NoValue
     IN  /\ error' = (writes /\ taken)
         /\ bus' = IF writes /\ ~taken
                     THEN [bus EXCEPT ![BusOf[c]] = value[c]] ELSE bus
  /\ UNCHANGED <<phase, asserted, value>>

(* Read phase: Bus::Read throws when nobody has written the bus. *)
TickRead(c) ==
  /\ Ticked("Read", c)
  /\ LET reads == <<c, "read">> \in asserted
         present == bus[BusOf[c]] # NoValue
     IN  /\ error' = (reads /\ ~present)
         /\ value' = IF reads /\ present
                       THEN [value EXCEPT ![c] = bus[BusOf[c]]] ELSE value
  /\ UNCHANGED <<phase, asserted, bus>>

(* Process phase: a register whose reset is asserted goes to zero. *)
TickProcess(c) ==
  /\ Ticked("Process", c)
  /\ value' = IF <<c, "reset">> \in asserted
                THEN [value EXCEPT ![c] = Zero] ELSE value
  /\ UNCHANGED <<phase, asserted, bus, error>>

(* Clear phase: an auto-reset control forgets that it was asserted. *)
TickClear(c) ==
  /\ Ticked("Clear", c)
  /\ asserted' = asserted \ ({c} \X Ops)
  /\ UNCHANGED <<phase, bus, value, error>>

(* Clear phase: a bus forgets its value. *)
TickClearBus(b) ==
  /\ Ticked("Clear", b)
  /\ bus' = [bus EXCEPT ![b] = NoValue]
  /\ UNCHANGED <<phase, asserted, value, error>>

(* Mutant: Cpu::Tick forgets a phase. *)
NextPhaseNoRead ==
  [Write |-> "Process", Read |-> "Process", Process |-> "Clear", Clear |-> "None"]

NextPhase ==
  [Write |-> "Read", Read |-> "Process", Process |-> "Clear", Clear |-> "None"]

(* Everything has been ticked: Cpu::Tick moves to the next phase. *)
EndPhase ==
  /\ phase # "None"
  /\ pending = {}
  /\ phase' = NextPhase[phase]
  /\ pending' = CASE phase' = "None" -> {}
                  [] phase' = "Clear" -> Components \cup Buses
                  [] OTHER -> Components
  /\ UNCHANGED <<asserted, bus, value, error>>

(* An exception leaves Cpu::Tick, so nothing follows an error. *)
Next ==
  /\ ~error
  /\ \/ TickControl
     \/ \E c \in Components :
          TickWrite(c) \/ TickRead(c) \/ TickProcess(c) \/ TickClear(c)
     \/ \E b \in Buses : TickClearBus(b)
     \/ EndPhase

Spec == Init /\ [][Next]_vars

(***************************************************************************)
(* Properties.                                                             *)
(***************************************************************************)

(* Microcode the bus validator accepted never makes Bus::Write or Bus::Read
   throw, whatever order the components are registered in. *)
NoBusError == ~error

(* When the Read phase ends every reader of a bus holds what the bus's one
   writer held when it wrote: a transfer neither loses nor mixes values,
   also when a register is both copied from and copied to in one tick. *)
TransferComplete ==
  phase = "Process" /\ pending = Components =>
    \A b \in Buses :
      \A w \in Writers(asserted, b), r \in Readers(asserted, b) :
        value[r] = value[w]

(* Between two ticks no control is asserted and no bus holds a value, so
   nothing of one microcode step leaks into the next. *)
CleanBetweenTicks ==
  phase = "None" => asserted = {} /\ \A b \in Buses : bus[b] = NoValue

(* What each phase knows about the phases before it. *)
WriteInv ==
  phase = "Write" =>
    /\ ValidStep(asserted)
    /\ \A b \in Buses :
         bus[b] # NoValue =>
           \E w \in Writers(asserted, b) : w \notin pending /\ bus[b] = value[w]
    /\ \A b \in Buses :
         \A w \in Writers(asserted, b) : w \notin pending => bus[b] # NoValue

ReadInv ==
  phase = "Read" =>
    /\ ValidStep(asserted)
    /\ \A b \in Buses : \A w \in Writers(asserted, b) : bus[b] = value[w]
    /\ \A b \in Buses : \A r \in Readers(asserted, b) :
         r \notin pending => value[r] = bus[b]

ClearInv ==
  phase = "Clear" =>
    /\ \A x \in asserted : x[1] \in pending
    /\ \A b \in Buses : bus[b] # NoValue => b \in pending

(* The inductive invariant: what holds in every phase, whichever of the
   components Component's tick loops have already reached. *)
IInv ==
  /\ TypeOK
  /\ NoBusError
  /\ TransferComplete
  /\ CleanBetweenTicks
  /\ WriteInv
  /\ ReadInv
  /\ ClearInv
=============================================================================

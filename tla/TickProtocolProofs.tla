------------------------- MODULE TickProtocolProofs -------------------------
(***************************************************************************)
(* Validated microcode runs without bus errors, for every set of           *)
(* components and buses, every wiring and every validated program.         *)
(***************************************************************************)
EXTENDS TickProtocol, TLAPS

(* Nothing is asserted and nothing is on a bus before the first tick. *)
LEMMA InitIInv == Init => IInv
<1> SUFFICES ASSUME Init PROVE IInv
  OBVIOUS
<1>1. TypeOK
  BY ValuesAssumption DEF Init, TypeOK, Phases
<1>2. NoBusError
  BY DEF Init, NoBusError
<1>3. TransferComplete /\ CleanBetweenTicks /\ WriteInv /\ ReadInv /\ ClearInv
  BY DEF Init, TransferComplete, CleanBetweenTicks, WriteInv, ReadInv, ClearInv
<1> QED
  BY <1>1, <1>2, <1>3 DEF IInv

(* Typing is kept by every step. *)
LEMMA StepTypeOK == TypeOK /\ [Next]_vars => TypeOK'
<1> SUFFICES ASSUME TypeOK, [Next]_vars PROVE TypeOK'
  OBVIOUS
<1> USE BusOfAssumption, ValuesAssumption, ProgramAssumption
<1>1. ASSUME TickControl PROVE TypeOK'
  BY <1>1 DEF TypeOK, TickControl, Phases
<1>2. ASSUME NEW c \in Components, TickWrite(c) PROVE TypeOK'
  <2>1. bus' \in [Buses -> Values \cup {NoValue}]
    BY <1>2 DEF TypeOK, TickWrite
  <2>2. error' \in BOOLEAN
    BY <1>2, Zenon DEF TickWrite
  <2> QED
    BY <1>2, <2>1, <2>2 DEF TypeOK, TickWrite, Ticked
<1>3. ASSUME NEW c \in Components, TickRead(c) PROVE TypeOK'
  <2>1. value' \in [Components -> Values]
    <3>1. CASE <<c, "read">> \in asserted /\ bus[BusOf[c]] # NoValue
      <4>1. bus[BusOf[c]] \in Values
        BY <3>1 DEF TypeOK
      <4>2. value' = [value EXCEPT ![c] = bus[BusOf[c]]]
        BY <1>3, <3>1 DEF TickRead
      <4> QED
        BY <4>1, <4>2 DEF TypeOK
    <3>2. CASE ~(<<c, "read">> \in asserted /\ bus[BusOf[c]] # NoValue)
      <4>1. value' = value
        BY <1>3, <3>2 DEF TickRead
      <4> QED
        BY <4>1 DEF TypeOK
    <3> QED
      BY <3>1, <3>2
  <2>2. error' \in BOOLEAN
    BY <1>3, Zenon DEF TickRead
  <2> QED
    BY <1>3, <2>1, <2>2 DEF TypeOK, TickRead, Ticked
<1>4. ASSUME NEW c \in Components, TickProcess(c) PROVE TypeOK'
  BY <1>4 DEF TypeOK, TickProcess, Ticked
<1>5. ASSUME NEW c \in Components, TickClear(c) PROVE TypeOK'
  BY <1>5 DEF TypeOK, TickClear, Ticked
<1>6. ASSUME NEW b \in Buses, TickClearBus(b) PROVE TypeOK'
  BY <1>6 DEF TypeOK, TickClearBus, Ticked
<1>7. ASSUME EndPhase PROVE TypeOK'
  <2>1. phase' \in Phases /\ pending' \subseteq Components \cup Buses
    BY <1>7 DEF TypeOK, EndPhase, NextPhase, Phases
  <2> QED
    BY <1>7, <2>1 DEF TypeOK, EndPhase
<1>8. ASSUME UNCHANGED vars PROVE TypeOK'
  BY <1>8 DEF TypeOK, vars
<1> QED
  BY <1>1, <1>2, <1>3, <1>4, <1>5, <1>6, <1>7, <1>8 DEF Next

(* The Control phase starts from clean buses and asserts a valid word. *)
LEMMA ControlStep == IInv /\ TickControl => IInv'
<1> SUFFICES ASSUME IInv, TickControl PROVE IInv'
  OBVIOUS
<1>1. TypeOK'
  BY StepTypeOK DEF IInv, Next, NoBusError
<1>2. phase' = "Write" /\ pending' = Components /\ bus' = bus
  BY DEF TickControl
<1>3. asserted' \in Program /\ \A b \in Buses : bus[b] = NoValue
  BY DEF IInv, CleanBetweenTicks, TickControl
<1>4. NoBusError'
  BY DEF IInv, NoBusError, TickControl
<1>5. WriteInv'
  BY <1>2, <1>3, ProgramAssumption DEF WriteInv, Writers
<1> QED
  BY <1>1, <1>2, <1>4, <1>5
  DEF IInv, ReadInv, TransferComplete, ClearInv, CleanBetweenTicks

(* In the Write phase the one writer of a bus finds it empty. *)
LEMMA WriteStep ==
  ASSUME NEW c \in Components PROVE IInv /\ ~error /\ TickWrite(c) => IInv'
<1> SUFFICES ASSUME IInv, ~error, TickWrite(c) PROVE IInv'
  OBVIOUS
<1> USE BusOfAssumption, ValuesAssumption
<1>0. TypeOK /\ WriteInv /\ phase = "Write" /\ phase' = "Write" /\ c \in pending
      /\ pending' = pending \ {c} /\ asserted' = asserted /\ value' = value
  BY DEF IInv, TickWrite, Ticked
<1>1. TypeOK'
  BY <1>0, StepTypeOK DEF Next
<1>2. CASE <<c, "write">> \in asserted
  <2>1. c \in Writers(asserted, BusOf[c])
    BY <1>2 DEF Writers
  <2>2. bus[BusOf[c]] = NoValue
    <3>1. SUFFICES ASSUME bus[BusOf[c]] # NoValue PROVE FALSE
      OBVIOUS
    <3>2. PICK w \in Writers(asserted, BusOf[c]) : w \notin pending
      BY <1>0, <3>1 DEF WriteInv
    <3>3. w = c
      BY <1>0, <2>1, <3>2 DEF WriteInv, ValidStep
    <3> QED
      BY <1>0, <3>2, <3>3
  <2>3. bus' = [bus EXCEPT ![BusOf[c]] = value[c]] /\ error' = FALSE
    BY <1>2, <2>2 DEF TickWrite
  <2>4. ASSUME NEW b \in Buses, bus'[b] # NoValue
        PROVE \E w \in Writers(asserted, b) : w \notin pending' /\ bus'[b] = value[w]
    <3>1. CASE b = BusOf[c]
      BY <1>0, <2>1, <2>3, <3>1 DEF TypeOK
    <3>2. CASE b # BusOf[c]
      BY <1>0, <2>3, <2>4, <3>2 DEF TypeOK, WriteInv
    <3> QED
      BY <3>1, <3>2
  <2>5. ASSUME NEW b \in Buses, NEW w \in Writers(asserted, b), w \notin pending'
        PROVE bus'[b] # NoValue
    <3>1. CASE w = c
      BY <1>0, <2>3, <3>1 DEF TypeOK, Writers
    <3>2. CASE w # c
      <4>1. bus[b] # NoValue
        BY <1>0, <2>5, <3>2 DEF WriteInv
      <4>2. b # BusOf[c]
        BY <2>2, <4>1
      <4> QED
        BY <1>0, <2>3, <4>1, <4>2 DEF TypeOK
    <3> QED
      BY <3>1, <3>2
  <2>6. WriteInv'
    BY <1>0, <2>4, <2>5 DEF WriteInv
  <2> QED
    BY <1>0, <1>1, <2>3, <2>6
    DEF IInv, NoBusError, ReadInv, TransferComplete, ClearInv, CleanBetweenTicks
<1>3. CASE <<c, "write">> \notin asserted
  <2>1. bus' = bus /\ error' = FALSE
    BY <1>3 DEF TickWrite
  <2>2. \A b \in Buses : c \notin Writers(asserted, b)
    BY <1>3 DEF Writers
  <2>3. WriteInv'
    BY <1>0, <2>1, <2>2 DEF WriteInv
  <2> QED
    BY <1>0, <1>1, <2>1, <2>3
    DEF IInv, NoBusError, ReadInv, TransferComplete, ClearInv, CleanBetweenTicks
<1> QED
  BY <1>2, <1>3

(* In the Read phase every reader finds its bus written. *)
LEMMA ReadStep ==
  ASSUME NEW c \in Components PROVE IInv /\ ~error /\ TickRead(c) => IInv'
<1> SUFFICES ASSUME IInv, ~error, TickRead(c) PROVE IInv'
  OBVIOUS
<1> USE BusOfAssumption, ValuesAssumption
<1>0. TypeOK /\ ReadInv /\ phase = "Read" /\ phase' = "Read" /\ c \in pending
      /\ pending' = pending \ {c} /\ asserted' = asserted /\ bus' = bus
  BY DEF IInv, TickRead, Ticked
<1>1. TypeOK'
  BY <1>0, StepTypeOK DEF Next
<1>2. CASE <<c, "read">> \in asserted
  <2>1. c \in Readers(asserted, BusOf[c])
    BY <1>2 DEF Readers
  <2>a. BusOf[c] \in Buses /\ ValidStep(asserted)
    BY <1>0 DEF ReadInv
  <2>b. Writers(asserted, BusOf[c]) # {}
    BY <2>1, <2>a DEF ValidStep
  <2>2. PICK w \in Components : w \in Writers(asserted, BusOf[c])
    BY <2>b DEF Writers
  <2>3. bus[BusOf[c]] = value[w] /\ bus[BusOf[c]] # NoValue
    BY <1>0, <2>2 DEF ReadInv, TypeOK
  <2>4. value' = [value EXCEPT ![c] = bus[BusOf[c]]] /\ error' = FALSE
    BY <1>2, <2>3 DEF TickRead
  <2>5. ASSUME NEW b \in Buses, NEW v \in Writers(asserted, b)
        PROVE bus[b] = value'[v]
    <3>0. v \in Components /\ BusOf[v] = b /\ bus[b] = value[v]
      BY <1>0 DEF ReadInv, Writers
    <3>1. CASE v = c
      BY <1>0, <2>4, <3>0, <3>1 DEF TypeOK
    <3>2. CASE v # c
      BY <1>0, <2>4, <3>0, <3>2 DEF TypeOK
    <3> QED
      BY <3>1, <3>2
  <2>6. ASSUME NEW b \in Buses, NEW r \in Readers(asserted, b), r \notin pending'
        PROVE value'[r] = bus[b]
    <3>0. r \in Components /\ BusOf[r] = b
      BY DEF Readers
    <3>1. CASE r = c
      BY <1>0, <2>4, <3>0, <3>1 DEF TypeOK
    <3>2. CASE r # c
      BY <1>0, <2>4, <2>6, <3>0, <3>2 DEF TypeOK, ReadInv
    <3> QED
      BY <3>1, <3>2
  <2>7. ReadInv'
    BY <1>0, <2>5, <2>6 DEF ReadInv
  <2> QED
    BY <1>0, <1>1, <2>4, <2>7
    DEF IInv, NoBusError, WriteInv, TransferComplete, ClearInv, CleanBetweenTicks
<1>3. CASE <<c, "read">> \notin asserted
  <2>1. value' = value /\ error' = FALSE
    BY <1>3 DEF TickRead
  <2>2. \A b \in Buses : c \notin Readers(asserted, b)
    BY <1>3 DEF Readers
  <2>3. ReadInv'
    BY <1>0, <2>1, <2>2 DEF ReadInv
  <2> QED
    BY <1>0, <1>1, <2>1, <2>3
    DEF IInv, NoBusError, WriteInv, TransferComplete, ClearInv, CleanBetweenTicks
<1> QED
  BY <1>2, <1>3

(* A register's Process tick takes it out of the work list, which ends what
   TransferComplete speaks of. *)
LEMMA ProcessStep ==
  ASSUME NEW c \in Components PROVE IInv /\ ~error /\ TickProcess(c) => IInv'
<1> SUFFICES ASSUME IInv, ~error, TickProcess(c) PROVE IInv'
  OBVIOUS
<1>1. TypeOK'
  BY StepTypeOK DEF Next, IInv
<1>2. phase' = "Process" /\ c \notin pending' /\ error' = error
  BY DEF TickProcess, Ticked
<1> QED
  BY <1>1, <1>2 DEF IInv, NoBusError, WriteInv, ReadInv, TransferComplete,
                    ClearInv, CleanBetweenTicks

(* The Clear phase forgets one component's controls, or one bus, at a time. *)
LEMMA ClearStep ==
  ASSUME NEW c, IInv, ~error,
         \/ c \in Components /\ TickClear(c)
         \/ c \in Buses /\ TickClearBus(c)
  PROVE  IInv'
<1> USE DisjointAssumption
<1>0. TypeOK /\ ClearInv /\ phase = "Clear" /\ phase' = "Clear"
      /\ pending' = pending \ {c} /\ error' = error
  BY DEF IInv, TickClear, TickClearBus, Ticked
<1>1. TypeOK'
  BY <1>0, StepTypeOK DEF Next
<1>2. ClearInv'
  <2>1. CASE c \in Components /\ TickClear(c)
    <3>1. asserted' = asserted \ ({c} \X Ops) /\ bus' = bus
      BY <2>1 DEF TickClear
    <3>2. ASSUME NEW x \in asserted' PROVE x[1] \in pending'
      <4>1. x \in asserted /\ x \notin {c} \X Ops /\ x \in Components \X Ops
        BY <1>0, <3>1 DEF TypeOK, Controls
      <4>2. x[1] # c
        BY <4>1
      <4> QED
        BY <1>0, <4>1, <4>2 DEF ClearInv
    <3>3. ASSUME NEW b \in Buses, bus'[b] # NoValue PROVE b \in pending'
      BY <1>0, <2>1, <3>1, <3>3 DEF ClearInv
    <3> QED
      BY <3>2, <3>3 DEF ClearInv
  <2>2. CASE c \in Buses /\ TickClearBus(c)
    <3>1. asserted' = asserted /\ bus' = [bus EXCEPT ![c] = NoValue]
      BY <2>2 DEF TickClearBus
    <3>2. ASSUME NEW x \in asserted' PROVE x[1] \in pending'
      <4>1. x \in asserted /\ x \in Components \X Ops
        BY <1>0, <3>1 DEF TypeOK, Controls
      <4>2. x[1] # c
        BY <2>2, <4>1
      <4> QED
        BY <1>0, <4>1, <4>2 DEF ClearInv
    <3>3. ASSUME NEW b \in Buses, bus'[b] # NoValue PROVE b \in pending'
      BY <1>0, <3>1, <3>3 DEF ClearInv, TypeOK
    <3> QED
      BY <3>2, <3>3 DEF ClearInv
  <2> QED
    BY <2>1, <2>2
<1> QED
  BY <1>0, <1>1, <1>2 DEF IInv, NoBusError, WriteInv, ReadInv, TransferComplete,
                          CleanBetweenTicks

(* The end of one phase establishes what the next phase relies on. *)
LEMMA EndPhaseStep == IInv /\ ~error /\ EndPhase => IInv'
<1> SUFFICES ASSUME IInv, ~error, EndPhase PROVE IInv'
  OBVIOUS
<1> USE BusOfAssumption
<1>0. TypeOK /\ pending = {} /\ asserted' = asserted /\ bus' = bus /\ value' = value
      /\ error' = error /\ phase \in {"Write", "Read", "Process", "Clear"}
  BY DEF IInv, TypeOK, Phases, EndPhase
<1>1. TypeOK'
  BY <1>0, StepTypeOK DEF Next
<1>2. NoBusError'
  BY <1>0 DEF IInv, NoBusError
<1>3. CASE phase = "Write"
  <2>1. phase' = "Read" /\ pending' = Components
    BY <1>3 DEF EndPhase, NextPhase
  <2>2. ASSUME NEW b \in Buses, NEW w \in Writers(asserted, b)
        PROVE bus[b] = value[w]
    <3>1. bus[b] # NoValue
      BY <1>0, <1>3 DEF IInv, WriteInv
    <3>2. PICK v \in Writers(asserted, b) : bus[b] = value[v]
      BY <1>3, <3>1 DEF IInv, WriteInv
    <3>3. v = w
      BY <1>3 DEF IInv, WriteInv, ValidStep
    <3> QED
      BY <3>2, <3>3
  <2>3. ReadInv'
    BY <1>0, <1>3, <2>1, <2>2 DEF IInv, WriteInv, ReadInv, Readers
  <2> QED
    BY <1>1, <1>2, <2>1, <2>3
    DEF IInv, WriteInv, TransferComplete, ClearInv, CleanBetweenTicks
<1>4. CASE phase = "Read"
  <2>1. phase' = "Process" /\ pending' = Components
    BY <1>4 DEF EndPhase, NextPhase
  <2>2. TransferComplete'
    BY <1>0, <1>4 DEF IInv, ReadInv, TransferComplete
  <2> QED
    BY <1>1, <1>2, <2>1, <2>2
    DEF IInv, WriteInv, ReadInv, ClearInv, CleanBetweenTicks
<1>5. CASE phase = "Process"
  <2>1. phase' = "Clear" /\ pending' = Components \cup Buses
    BY <1>5 DEF EndPhase, NextPhase
  <2>2. ClearInv'
    BY <1>0, <2>1 DEF ClearInv, TypeOK, Controls
  <2> QED
    BY <1>1, <1>2, <2>1, <2>2
    DEF IInv, WriteInv, ReadInv, TransferComplete, CleanBetweenTicks
<1>6. CASE phase = "Clear"
  <2>1. phase' = "None"
    BY <1>6 DEF EndPhase, NextPhase
  <2>2. asserted = {} /\ \A b \in Buses : bus[b] = NoValue
    BY <1>0, <1>6 DEF IInv, ClearInv
  <2> QED
    BY <1>0, <1>1, <1>2, <2>1, <2>2
    DEF IInv, WriteInv, ReadInv, TransferComplete, ClearInv, CleanBetweenTicks
<1> QED
  BY <1>0, <1>3, <1>4, <1>5, <1>6

(* IInv is inductive. *)
LEMMA StepIInv == IInv /\ [Next]_vars => IInv'
<1> SUFFICES ASSUME IInv, [Next]_vars PROVE IInv'
  OBVIOUS
<1>1. ASSUME UNCHANGED vars PROVE IInv'
  BY <1>1 DEF IInv, TypeOK, NoBusError, TransferComplete, CleanBetweenTicks,
              WriteInv, ReadInv, ClearInv, vars
<1> QED
  BY <1>1, ControlStep, WriteStep, ReadStep, ProcessStep, ClearStep,
     EndPhaseStep DEF Next

(* Control words accepted by BusValidator never make the simulator throw a
   bus error, whatever the components, the wiring and the order in which
   components are ticked. *)
THEOREM ValidatedMicrocodeHasNoBusError == Spec => []NoBusError
<1>1. IInv => NoBusError
  BY DEF IInv
<1> QED
  BY InitIInv, StepIInv, <1>1, PTL DEF Spec

(* A bus transfer copies the writer's value into every reader. *)
THEOREM TransfersComplete == Spec => []TransferComplete
<1>1. IInv => TransferComplete
  BY DEF IInv
<1> QED
  BY InitIInv, StepIInv, <1>1, PTL DEF Spec

(* Controls and buses are clean between ticks. *)
THEOREM TicksLeaveNothingBehind == Spec => []CleanBetweenTicks
<1>1. IInv => CleanBetweenTicks
  BY DEF IInv
<1> QED
  BY InitIInv, StepIInv, <1>1, PTL DEF Spec
=============================================================================

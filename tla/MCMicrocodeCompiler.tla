------------------------- MODULE MCMicrocodeCompiler -------------------------
(***************************************************************************)
(* Small instruction sets: a transfer, a counter and a flag; and simulators *)
(* that fit the compiled program or do not.                                *)
(***************************************************************************)
EXTENDS MicrocodeLoader, TLC

MCControl ==
  {"a", "b", "sc", "status.zero"}
    \X {"write", "read", "set", "increment", "decrement", "reset"}
MCBusOf == [a |-> "data_bus", b |-> "data_bus"]

Transfer == <<<<"a", "write">>, <<"b", "read">>>>
Count == <<<<"a", "increment">>>>
Both == Transfer \o Count
Raise == <<<<"status.zero", "set">>>>
Floating == <<<<"b", "read">>>>
Unknown == <<<<"a", "reset">>>>  \* not in the hardware description
Opposed == Count \o <<<<"a", "decrement">>>>
Ends == <<sc_increment, sc_reset>>  \* the author's own sequence controls

StepOf(stage, controls) == [stage |-> stage, controls |-> controls]
Steps(stages, contents) == {StepOf(g, c) : g \in stages, c \in contents}

SeqsUpTo(S, n) == UNION {[1 .. k -> S] : k \in 0 .. n}

Preambles == {<<>>, <<StepOf(0, Transfer)>>, <<StepOf(0, Transfer), StepOf(0, Count)>>}

Single ==
  SeqsUpTo(Steps({0}, {Transfer, Count, << >>}), 3)
    \cup SeqsUpTo(Steps({0, 1}, {Transfer, Count, << >>, Both, Raise, Floating,
                                 Opposed, Unknown, Ends}), 2)

Conditions == {<< >>, "zero" :> TRUE, "zero" :> FALSE, "carry" :> TRUE,
               ("zero" :> TRUE) @@ ("carry" :> TRUE)}
Short == {<< >>, <<StepOf(0, Count)>>, <<StepOf(0, Transfer), StepOf(0, Count)>>}
VariantOf(when, steps) == [when |-> when, steps |-> steps]
Variants == {VariantOf(w, s) : w \in Conditions, s \in Short}

InstructionOf(op, variants) == [opcode |-> op, variants |-> variants]
NopLike == InstructionOf(1, <<VariantOf(<< >>, <<StepOf(0, Count)>>)>>)

CrashLike == InstructionOf(255, <<VariantOf(<< >>, <<StepOf(0, Raise)>>)>>)

(* One instruction of either kind, beside opcode 255; and none, two for one
   opcode, or one for an opcode that is not in the instruction set. *)
Lists ==
  {<<InstructionOf(1, <<VariantOf(<< >>, s)>>), CrashLike>> : s \in Single}
    \cup {<<InstructionOf(1, <<v, w>>), CrashLike>> : v \in Variants, w \in Variants}
    \cup {<<InstructionOf(1, << >>), CrashLike>>, << >>, <<NopLike, NopLike, CrashLike>>,
          <<NopLike, InstructionOf(2, << >>), CrashLike>>}

MCSources == {[fetch_preamble |-> p, instructions |-> l] : p \in Preambles, l \in Lists}
MCStatusBits == {"zero", "carry"}
MCExpected == {1, 255}

Order == <<<<"sc", "increment">>, <<"sc", "reset">>, <<"a", "write">>, <<"b", "read">>,
           <<"a", "increment">>, <<"status.zero", "set">>>>
Bits == [zero |-> 1, carry |-> 0]
Swapped == <<Order[2], Order[1]>> \o SubSeq(Order, 3, 6)
Shorter == SubSeq(Order, 1, 5)
Longer == Append(Order, <<"a", "decrement">>)
Twice == Append(Order, Order[1])
Sim(controls, bits, hdl) == [controls |-> controls, bits |-> bits, hdl |-> hdl]
MCCpus == {Sim(Order, Bits, Order), Sim(Swapped, Bits, Order), Sim(Swapped, Bits, Swapped),
           Sim(Shorter, Bits, Order), Sim(Shorter, Bits, Shorter), Sim(Longer, Bits, Order),
           Sim(Twice, Bits, Order), Sim(Order, [zero |-> 0, carry |-> 1], Order),
           Sim(Order, [zero |-> 1], Order)}
=============================================================================

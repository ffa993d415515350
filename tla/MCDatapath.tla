------------------------------ MODULE MCDatapath ------------------------------
(***************************************************************************)
(* What control words do, one behaviour at a time: the transfers of ticks  *)
(* after ticks, with every word the validator accepts, or a chain of       *)
(* operations of the ALU.  The two share no state.                         *)
(***************************************************************************)
EXTENDS TickProtocol, WideArithmetic

CONSTANTS r1, r2, r3, data_bus, address_bus

(* Two registers share the data bus, one sits on the address bus. *)
MCBusOf == [c \in {r1, r2, r3} |-> IF c = r3 THEN address_bus ELSE data_bus]

MCProgram == {word \in SUBSET Controls : ValidStep(word)}

(* Words around the byte and sign boundaries. *)
Edges == {0, 1, 127, 128, 254, 255}
MCWide == {MakeWord(h, l) : h \in Edges, l \in Edges}
MCStarts == BOOLEAN \X BOOLEAN

VARIABLE subject  \* "buses" or "alu"

NoChain == chain = "add" /\ m = 0 /\ n = 0 /\ s.carry = FALSE /\ s.overflow = FALSE
NoTransfer == \A c \in Components : value[c] = Zero

DatapathInit ==
  /\ Init
  /\ WideInit
  /\ \/ subject = "buses" /\ NoChain
     \/ subject = "alu" /\ NoTransfer

Transfers == subject = "buses" /\ Next /\ UNCHANGED <<subject, wideVars>>
Chained == subject = "alu" /\ WideNext /\ UNCHANGED <<subject, vars>>
ChainDone == subject = "alu" /\ step = Steps /\ UNCHANGED <<subject, vars, wideVars>>

DatapathNext == Transfers \/ Chained \/ ChainDone
DatapathSpec == DatapathInit /\ [][DatapathNext]_<<subject, vars, wideVars>>
=============================================================================

-------------------------- MODULE MicrocodeCompiler --------------------------
(***************************************************************************)
(* The microcode compiler of microcode/src/compiler: an instruction set of *)
(* step lists goes through transformers, validators and optimizers, pass   *)
(* by pass, and is encoded into the table the controller looks words up    *)
(* in.  A validator that objects throws, and nothing follows.              *)
(***************************************************************************)
EXTENDS Integers, SequencesExt, FiniteSets

CONSTANTS
  Control,     \* the controls there are, pairs of component and operation
  Sources,     \* instruction sets that may be compiled
  Expected,    \* the opcodes of the instruction set architecture
  StatusBits,  \* names of the status bits that select variants
  BusOf,       \* the bus each component that has one is wired to
  MAX_STEPS    \* steps an instruction may have (256 in the code)

(* The controls of the step counter. *)
sc_increment == <<"sc", "increment">>
sc_reset == <<"sc", "reset">>

(* The types of microcode/ir.  A condition gives the status bits it tests the
   values they must have; one on an unknown bit makes the compiler throw and is
   left out. *)
Step == [stage : Int, controls : Seq(Control)]
Condition == UNION {[bits -> BOOLEAN] : bits \in SUBSET StatusBits}
Variant == [when : Condition, steps : Seq(Step)]
Instruction == [opcode : 0 .. 255, variants : Seq(Variant)]
InstructionSet == [fetch_preamble : Seq(Step), instructions : Seq(Instruction)]

ASSUME ControlAssumption == {sc_increment, sc_reset} \subseteq Control
ASSUME SourcesAssumption == Sources \subseteq InstructionSet

VARIABLES
  source,           \* what is compiled
  instruction_set,  \* what the passes have made of it
  pass,             \* the pass to run next, an index into Passes
  error,            \* a MicrocodeError has been thrown
  table             \* the encoded program

vars == <<source, instruction_set, pass, error, table>>

(* The controls of a step. *)
Controls(step) == Range(step.controls)

(* The order of phases in a tick. *)
Phase(control) ==
  CASE control[2] = "write" -> 2 [] control[2] = "read" -> 3 [] OTHER -> 4

(* A pass that rewrites the steps of every variant. *)
EachVariant(set, Steps(_)) ==
  LET variant(v) == [when |-> v.when, steps |-> Steps(v.steps)]
      instruction(i) == [opcode |-> i.opcode,
                         variants |-> [k \in DOMAIN i.variants |-> variant(i.variants[k])]]
  IN  [fetch_preamble |-> set.fetch_preamble,
       instructions |-> [k \in DOMAIN set.instructions |-> instruction(set.instructions[k])]]

(* A loop over a list: FoldLeft, as a function of how many elements have been
   looked at, a form whose steps a proof can speak of. *)
Folded(op(_, _), base, seq) ==
  LET so_far[k \in 0 .. Len(seq)] ==
        IF k = 0 THEN base ELSE op(so_far[k - 1], seq[k])
  IN  so_far[Len(seq)]

(* Every step list of an instruction set, the preamble aside. *)
StepLists(set) ==
  UNION {{v.steps : v \in Range(i.variants)} : i \in Range(set.instructions)}

-----------------------------------------------------------------------------
(* Transformers. *)

(* FetchTransformer: the preamble becomes stage 0 of every variant. *)
Prefixed(preamble, steps) ==
  LET later == [i \in DOMAIN steps |-> [steps[i] EXCEPT !.stage = @ + 1]]
  IN  IF preamble = << >> THEN steps ELSE preamble \o later
WithPreamble(set) == EachVariant(set, LAMBDA steps : Prefixed(set.fetch_preamble, steps))

(* SequenceTransformer: every step advances the step counter and the last
   resets it, unless it says so itself. *)
Sequenced(steps) ==
  LET control(i) == IF i = Len(steps) THEN sc_reset ELSE sc_increment
      with(c, cs) == IF c \in Range(cs) THEN cs ELSE Append(cs, c)
  IN  [i \in DOMAIN steps |-> [steps[i] EXCEPT !.controls = with(control(i), @)]]

-----------------------------------------------------------------------------
(* Validators. *)

(* FetchValidator: the steps of stage 0 are the preamble, control for
   control. *)
FetchIsPreamble(set) ==
  set.fetch_preamble = << >> \/
    \A steps \in StepLists(set) :
      LET zero == SelectSeq(steps, LAMBDA s : s.stage = 0)
      IN  /\ Len(zero) = Len(set.fetch_preamble)
          /\ \A i \in DOMAIN zero :
               zero[i].controls = set.fetch_preamble[i].controls

(* BusValidator: at most one writer per bus, and no reader without one. *)
BusesAgree(step) ==
  \A b \in Range(BusOf) :
    LET on(op) == {i \in DOMAIN step.controls :
                     LET c == step.controls[i]
                     IN  c[2] = op /\ c[1] \in DOMAIN BusOf /\ BusOf[c[1]] = b}
    IN  /\ \A v, w \in on("write") : v = w
        /\ on("read") # {} => on("write") # {}

(* ControlConflictValidator: no component is told two opposite things. *)
Opposites == {{"read", "write"}, {"set", "clear"}, {"increment", "decrement"}}
NoConflict(step) ==
  \A c, d \in Controls(step) : c[1] = d[1] => {c[2], d[2]} \notin Opposites

(* StageValidator: stages start at 0, never go back and leave no gap. *)
StagesInOrder(steps) ==
  steps # << >> =>
    /\ steps[1].stage = 0
    /\ \A i \in 1 .. Len(steps) - 1 :
         steps[i + 1].stage - steps[i].stage \in {0, 1}

(* StatusEncoder::ExpandPartial: the sets of raised bits a condition allows. *)
Expand(when) ==
  {raised \in SUBSET StatusBits :
     \A b \in DOMAIN when : (b \in raised) = when[b]}

(* Mutant: gaps between the variants are accepted. *)
StatusesWithGaps(variants) ==
  \A i, j \in DOMAIN variants :
    i # j => Expand(variants[i].when) \cap Expand(variants[j].when) = {}

(* StatusValidator: variants test one bit each, and every status selects
   exactly one of them. *)
StatusesCovered(variants) ==
  \/ variants = << >>
  \/ Len(variants) = 1 /\ DOMAIN variants[1].when = {}
  \/ /\ \A v \in Range(variants) : \A b, c \in DOMAIN v.when : b = c
     /\ \A i, j \in DOMAIN variants :
          i # j => Expand(variants[i].when) \cap Expand(variants[j].when) = {}
     /\ UNION {Expand(v.when) : v \in Range(variants)} = SUBSET StatusBits

(* IsaCoverageValidator: every opcode is implemented once. *)
CoversIsa(set) ==
  /\ {i.opcode : i \in Range(set.instructions)} = Expected
  /\ \A i, j \in DOMAIN set.instructions :
       set.instructions[i].opcode = set.instructions[j].opcode => i = j

(* SequenceValidator: the step counter advances, and at the end is reset. *)
IsSequenced(steps) ==
  \A i \in DOMAIN steps :
    (IF i = Len(steps) THEN sc_reset ELSE sc_increment) \in Controls(steps[i])

(* Compiler::RunAllValidators *)
Valid(set) ==
  /\ \A steps \in StepLists(set) \cup {set.fetch_preamble} :
       /\ \A step \in Range(steps) : BusesAgree(step) /\ NoConflict(step)
       /\ StagesInOrder(steps)
  /\ \A i \in Range(set.instructions) : StatusesCovered(i.variants)
  /\ CoversIsa(set)
  /\ \A steps \in StepLists(set) : IsSequenced(steps)

-----------------------------------------------------------------------------
(* Optimizers: each rewrites the preamble and every variant. *)

Optimized(set, Steps(_)) ==
  [EachVariant(set, Steps) EXCEPT !.fetch_preamble = Steps(@)]

(* EmptyStepOptimizer *)
WithoutEmpty(steps) ==
  Folded(LAMBDA done, s : IF s.controls = << >> THEN done ELSE Append(done, s),
         << >>, steps)

(* DuplicateStepOptimizer: of equal neighbours of a stage one is left. *)
WithoutRepeats(steps) ==
  Folded(LAMBDA done, s : IF done # << >> /\ Last(done) = s
                            THEN done ELSE Append(done, s), << >>, steps)

(* Mutant: steps that meet in a phase are merged. *)
CanMergeLoosely(a, b) ==
  /\ a.stage = b.stage
  /\ \A c \in Controls(a), d \in Controls(b) : Phase(c) <= Phase(d)

(* StepMergingOptimizer, CanMerge: all of a's phases come before b's, where
   an empty a comes before everything and an empty b after nothing. *)
CanMerge(a, b) ==
  /\ a.stage = b.stage
  /\ b.controls # << >> \/ a.controls = << >>
  /\ \A c \in Controls(a), d \in Controls(b) : Phase(c) < Phase(d)

(* MergeSteps *)
MergeSteps(a, b) ==
  [a EXCEPT !.controls = @ \o SelectSeq(b.controls, LAMBDA c : c \notin Range(@))]

Merged(steps) ==
  Folded(LAMBDA done, s : IF done # << >> /\ CanMerge(Last(done), s)
                            THEN Append(Front(done), MergeSteps(Last(done), s))
                            ELSE Append(done, s), << >>, steps)

-----------------------------------------------------------------------------
(* Compiler::Encode: one entry per opcode, step and status. *)
Entries(set) ==
  UNION {UNION {{[key |-> <<i.opcode, k - 1, raised>>,
                  word |-> Controls(v.steps[k])] :
                    k \in DOMAIN v.steps, raised \in Expand(v.when)} :
                  v \in Range(i.variants)} : i \in Range(set.instructions)}

Conflict(set) == \E d, e \in Entries(set) : d.key = e.key /\ d.word # e.word
TooLong(set) == \E steps \in StepLists(set) : Len(steps) > MAX_STEPS

TableOf(set) ==
  [key \in {e.key : e \in Entries(set)} |->
     (CHOOSE e \in Entries(set) : e.key = key).word]

(* Compiler::Compile *)
Passes ==
  <<"fetch", "fetch_validator", "sequence", "validators",
    "empty", "validators", "duplicate", "validators", "merge", "validators",
    "encode">>

Compiled == pass > Len(Passes)

Init ==
  /\ source \in Sources
  /\ instruction_set = source
  /\ pass = 1
  /\ error = FALSE
  /\ table = << >>

At(name) == ~error /\ ~Compiled /\ Passes[pass] = name

(* A pass that rewrites the instruction set. *)
Rewrite(name, set) ==
  /\ At(name)
  /\ instruction_set' = set
  /\ pass' = pass + 1
  /\ UNCHANGED <<source, error, table>>

(* A pass that throws unless ok. *)
Validate(name, ok) ==
  /\ At(name)
  /\ error' = ~ok
  /\ pass' = IF ok THEN pass + 1 ELSE pass
  /\ UNCHANGED <<source, instruction_set, table>>

FetchTransformer == Rewrite("fetch", WithPreamble(instruction_set))
FetchValidator == Validate("fetch_validator", FetchIsPreamble(instruction_set))
SequenceTransformer == Rewrite("sequence", EachVariant(instruction_set, Sequenced))
RunAllValidators == Validate("validators", Valid(instruction_set))
EmptyStepOptimizer == Rewrite("empty", Optimized(instruction_set, WithoutEmpty))
DuplicateStepOptimizer ==
  Rewrite("duplicate", Optimized(instruction_set, WithoutRepeats))
StepMergingOptimizer == Rewrite("merge", Optimized(instruction_set, Merged))

Encode ==
  /\ At("encode")
  /\ error' = (Conflict(instruction_set) \/ TooLong(instruction_set))
  /\ pass' = IF error' THEN pass ELSE pass + 1
  /\ table' = IF error' THEN table ELSE TableOf(instruction_set)
  /\ UNCHANGED <<source, instruction_set>>

Next ==
  \/ FetchTransformer
  \/ FetchValidator
  \/ SequenceTransformer
  \/ RunAllValidators
  \/ EmptyStepOptimizer
  \/ DuplicateStepOptimizer
  \/ StepMergingOptimizer
  \/ Encode

Spec == Init /\ [][Next]_vars

-----------------------------------------------------------------------------
(***************************************************************************)
(* Properties.                                                             *)
(***************************************************************************)

(* What the controls of one step do to the registers m: bus transfers, then
   the Process phase. *)
Do(m, controls) ==
  LET writers(b) == {c \in DOMAIN m : <<c, "write">> \in controls /\ BusOf[c] = b}
      writer(b) == CHOOSE c \in writers(b) : TRUE
      moved(c) == IF <<c, "read">> \in controls THEN m[writer(BusOf[c])] ELSE m[c]
      told(c, op) == <<c, op>> \in controls
  IN  [c \in DOMAIN m |->
         CASE told(c, "reset") \/ told(c, "clear") -> 0
           [] told(c, "set") -> 1
           [] told(c, "increment") -> moved(c) + 1
           [] told(c, "decrement") -> moved(c) - 1
           [] OTHER -> moved(c)]

(* What a list of control words makes of registers that are all different.
   The step counter, of which the author need not write, is not among them. *)
Authored == UNION {UNION {Controls(s) : s \in Range(steps)} :
                   steps \in StepLists(source) \cup {source.fetch_preamble}}
Named == {c[1] : c \in Authored} \ {"sc"}
Different ==
  LET names == SetToSeq(Named)
  IN  [c \in Named |-> 10 * (CHOOSE i \in DOMAIN names : names[i] = c)]
Meaning(words) == Folded(Do, Different, words)

(* The words the controller finds for an opcode while the status does not
   change, step after step. *)
WalkLength(op, raised) ==
  Cardinality({key \in DOMAIN table : key[1] = op /\ key[3] = raised})
Walk(op, raised) ==
  [k \in 1 .. WalkLength(op, raised) |-> table[<<op, k - 1, raised>>]]

(* The words the author of variant v of instruction i wrote, behind the
   preamble. *)
Written(v) == source.fetch_preamble \o v.steps
WrittenWords(v) == [k \in DOMAIN Written(v) |-> Controls(Written(v)[k])]

(* For every instruction, variant and status that selects it. *)
ForEachWritten(P(_, _, _)) ==
  \A i \in Range(source.instructions) : \A v \in Range(i.variants) :
    \A raised \in Expand(v.when) : P(i.opcode, v, raised)

(* A step is written twice in a row, its sequence control included: the last
   differs from the one before it unless both have both. *)
Repeats(steps) ==
  \E k \in 1 .. Len(steps) - 1 :
    Sequenced(steps)[k].controls = Sequenced(steps)[k + 1].controls

(* Compiled microcode does to the registers what was written, whatever the
   passes of Compiler::Compile made of it, unless a step is repeated. *)
MeaningKept ==
  Compiled =>
    ForEachWritten(LAMBDA op, v, raised :
      Repeats(Written(v)) \/ Meaning(Walk(op, raised)) = Meaning(WrittenWords(v)))

(* Under every status an instruction whose variants all have steps, as every
   shipped one does, leads the step counter from 0 to a reset without a gap in
   the table, and resets it nowhere before, unless the author did.  No validator
   objects to a variant without steps; with an empty preamble it would have no
   entry. *)
WalksEnd ==
  Compiled =>
    \A i \in Range(instruction_set.instructions), raised \in SUBSET StatusBits :
      (i.variants # << >> /\ \A v \in Range(i.variants) : v.steps # << >>) =>
        LET n == WalkLength(i.opcode, raised)
        IN  /\ n > 0
            /\ \A k \in 0 .. n - 1 :
                 /\ <<i.opcode, k, raised>> \in DOMAIN table
                 /\ (IF k = n - 1 THEN sc_reset ELSE sc_increment)
                      \in table[<<i.opcode, k, raised>>]
                 /\ sc_reset \in table[<<i.opcode, k, raised>>] =>
                      k = n - 1 \/ sc_reset \in Authored

(* microcode/README.md:126: an empty step will be optimized away.  Of the
   words the controller finds there are no more than the author wrote steps
   with controls, or one, if there is no such step, to reset the step
   counter.  EmptyStepOptimizer looks for empty steps when SequenceTransformer
   has filled all of them, so that this is not so. *)
EmptyStepsGo ==
  Compiled =>
    ForEachWritten(LAMBDA op, v, raised :
      LET full == {k \in DOMAIN Written(v) : Written(v)[k].controls # << >>}
      IN  WalkLength(op, raised) <= Max({1, Cardinality(full)}))
=============================================================================

--------------------------- MODULE MicrocodeProofs ---------------------------
(***************************************************************************)
(* Theorems about the microcode compiler and the loader, for every         *)
(* instruction set, every instruction set architecture, every wiring of    *)
(* components to buses and every description of the hardware.              *)
(***************************************************************************)
EXTENDS MicrocodeLoader, NaturalNumbers, FiniteSetTheorems, FunctionTheorems, TLAPS

-----------------------------------------------------------------------------
(* Loops over lists. *)

(* The prefixes of a list, one element after the other. *)
LEMMA PrefixGrows ==
  ASSUME NEW S, NEW seq \in Seq(S), NEW k \in 1 .. Len(seq)
  PROVE  /\ SubSeq(seq, 1, k) \in Seq(S)
         /\ SubSeq(seq, 1, k) = Append(SubSeq(seq, 1, k - 1), seq[k])
         /\ SubSeq(seq, 1, k) # << >>
         /\ Last(SubSeq(seq, 1, k)) = seq[k]
  BY DEF Last

LEMMA PrefixEnds ==
  ASSUME NEW S, NEW seq \in Seq(S)
  PROVE  SubSeq(seq, 1, 0) = << >> /\ SubSeq(seq, 1, Len(seq)) = seq
  OBVIOUS

(* g gives what a loop with body F has made of base after k elements of seq. *)
IsLoop(g, A, F, base, seq) ==
  /\ g \in [0 .. Len(seq) -> A]
  /\ g = [k \in 0 .. Len(seq) |-> IF k = 0 THEN base ELSE F[<<g[k - 1], seq[k]>>]]

(* A loop whose body keeps a type has values for every number of elements. *)
LEMMA LoopExists ==
  ASSUME NEW A, NEW B, NEW F \in [A \X B -> A], NEW base \in A, NEW seq \in Seq(B)
  PROVE  \E g : IsLoop(g, A, F, base, seq)
<1> DEFINE Good(n) ==
             \E g \in [0 .. n -> A] :
               g = [k \in 0 .. n |-> IF k = 0 THEN base ELSE F[<<g[k - 1], seq[k]>>]]
           S == {n \in Nat : n <= Len(seq) => Good(n)}
<1>1. 0 \in S
  <2> DEFINE g == [k \in 0 .. 0 |-> base]
  <2>1. g \in [0 .. 0 -> A]
    OBVIOUS
  <2>2. g = [k \in 0 .. 0 |-> IF k = 0 THEN base ELSE F[<<g[k - 1], seq[k]>>]]
    OBVIOUS
  <2> QED
    BY <2>1, <2>2
<1>2. ASSUME NEW n \in Nat, n \in S, n + 1 <= Len(seq)
      PROVE  Good(n + 1)
  <2>1. PICK g \in [0 .. n -> A] :
          g = [k \in 0 .. n |-> IF k = 0 THEN base ELSE F[<<g[k - 1], seq[k]>>]]
    BY <1>2
  <2> DEFINE next == F[<<g[n], seq[n + 1]>>]
             h == [k \in 0 .. n + 1 |-> IF k = n + 1 THEN next ELSE g[k]]
  <2>2. next \in A
    <3>1. g[n] \in A /\ seq[n + 1] \in B
      BY <1>2
    <3> QED
      BY <3>1
  <2> HIDE DEF next
  <2>3. h \in [0 .. n + 1 -> A]
    BY <2>2
  <2>4. ASSUME NEW k \in 0 .. n + 1
        PROVE  h[k] = IF k = 0 THEN base ELSE F[<<h[k - 1], seq[k]>>]
    <3>1. CASE k = n + 1
      <4>1. h[k - 1] = g[n] /\ h[k] = next /\ k # 0
        BY <3>1
      <4> QED
        BY <4>1, <3>1 DEF next
    <3>2. CASE k # n + 1
      <4>1. k \in 0 .. n /\ h[k] = g[k] /\ (k # 0 => h[k - 1] = g[k - 1])
        BY <3>2
      <4>2. g[k] = IF k = 0 THEN base ELSE F[<<g[k - 1], seq[k]>>]
        BY <2>1, <4>1
      <4> QED
        BY <4>1, <4>2
    <3> QED
      BY <3>1, <3>2
  <2> QED
    <3>1. h = [k \in 0 .. n + 1 |-> h[k]]
      OBVIOUS
    <3> HIDE DEF h
    <3>2. [k \in 0 .. n + 1 |-> h[k]]
            = [k \in 0 .. n + 1 |-> IF k = 0 THEN base ELSE F[<<h[k - 1], seq[k]>>]]
      BY <2>4
    <3> QED
      BY <3>1, <3>2, <2>3
<1> HIDE DEF Good
<1>3. \A n \in Nat : n \in S => n + 1 \in S
  BY <1>2
<1>4. Nat \subseteq S
  <2> HIDE DEF S
  <2> QED
    BY <1>1, <1>3, Induction
<1> QED
  BY <1>4 DEF Good, IsLoop

(* A loop that appends every element to those before it gives back the list. *)
LEMMA LoopCopies ==
  ASSUME NEW A, NEW seq \in Seq(A), NEW f, f[0] = << >>,
         \A k \in 1 .. Len(seq) :
           f[k - 1] = SubSeq(seq, 1, k - 1) => f[k] = Append(f[k - 1], seq[k])
  PROVE  f[Len(seq)] = seq
<1> DEFINE S == {n \in Nat : n <= Len(seq) => f[n] = SubSeq(seq, 1, n)}
<1>1. 0 \in S
  BY PrefixEnds
<1>2. ASSUME NEW n \in Nat, n \in S, n + 1 <= Len(seq)
      PROVE  f[n + 1] = SubSeq(seq, 1, n + 1)
  <2> DEFINE k == n + 1
  <2>1. k \in 1 .. Len(seq) /\ k - 1 = n
    BY <1>2
  <2>2. f[k - 1] = SubSeq(seq, 1, k - 1)
    BY <1>2, <2>1
  <2> HIDE DEF k
  <2>3. f[k] = Append(SubSeq(seq, 1, k - 1), seq[k])
    BY <2>1, <2>2
  <2>4. f[k] = SubSeq(seq, 1, k)
    BY <2>1, <2>3, PrefixGrows
  <2> QED
    BY <2>4 DEF k
<1>3. Nat \subseteq S
  <2>1. \A n \in Nat : n \in S => n + 1 \in S
    BY <1>2
  <2> HIDE DEF S
  <2> QED
    BY <1>1, <2>1, Induction
<1> QED
  BY <1>3, PrefixEnds

(* What such a loop finds at its end before it looks at element k. *)
LEMMA PrefixLast ==
  ASSUME NEW A, NEW seq \in Seq(A), NEW k \in 1 .. Len(seq), SubSeq(seq, 1, k - 1) # << >>
  PROVE  k - 1 \in 1 .. Len(seq) - 1 /\ Last(SubSeq(seq, 1, k - 1)) = seq[k - 1]
<1>1. k # 1
  BY PrefixEnds
<1> DEFINE j == k - 1
<1>2. j \in 1 .. Len(seq) /\ j \in 1 .. Len(seq) - 1
  BY <1>1
<1> HIDE DEF j
<1>3. Last(SubSeq(seq, 1, j)) = seq[j]
  BY <1>2, PrefixGrows
<1> QED
  BY <1>2, <1>3 DEF j

(* Steps of which none is empty are all kept. *)
LEMMA NothingEmpty ==
  ASSUME NEW steps \in Seq(Step),
         \A k \in DOMAIN steps : steps[k].controls # << >>
  PROVE  WithoutEmpty(steps) = steps
<1> DEFINE Body(f) == [k \in 0 .. Len(steps) |->
             IF k = 0 THEN << >>
             ELSE IF steps[k].controls = << >> THEN f[k - 1] ELSE Append(f[k - 1], steps[k])]
           f == CHOOSE f : f = Body(f)
           g == [k \in 0 .. Len(steps) |-> SubSeq(steps, 1, k)]
<1>1. ASSUME NEW k \in 1 .. Len(steps), NEW done, done = SubSeq(steps, 1, k - 1)
      PROVE  ~(steps[k].controls = << >>)
  OBVIOUS
<1>2. g = Body(g)
  <2>1. ASSUME NEW k \in 0 .. Len(steps)
        PROVE  g[k] = Body(g)[k]
    <3>1. CASE k = 0
      BY <3>1, PrefixEnds
    <3>2. CASE k # 0
      <4>1. k \in 1 .. Len(steps) /\ g[k - 1] = SubSeq(steps, 1, k - 1)
        BY <3>2
      <4>2. g[k] = Append(g[k - 1], steps[k])
        BY <4>1, PrefixGrows
      <4> HIDE DEF g
      <4>3. Body(g)[k] = Append(g[k - 1], steps[k])
        BY <1>1, <3>2, <4>1
      <4> QED
        BY <4>2, <4>3
    <3> QED
      BY <3>1, <3>2
  <2> QED
    BY <2>1
<1>3. f = Body(f)
  <2> HIDE DEF g
  <2> QED
    BY <1>2
<1>4. WithoutEmpty(steps) = f[Len(steps)]
  BY DEF WithoutEmpty, Folded
<1> HIDE DEF f
<1>5. f[0] = << >>
  BY <1>3
<1>6. ASSUME NEW k \in 1 .. Len(steps), f[k - 1] = SubSeq(steps, 1, k - 1)
      PROVE  f[k] = Append(f[k - 1], steps[k])
  <2> DEFINE done == f[k - 1]
  <2>1. ~(steps[k].controls = << >>)
    BY <1>1, <1>6
  <2>2. k \in 0 .. Len(steps) /\ k # 0
    OBVIOUS
  <2>3. f[k] = Body(f)[k]
    BY <1>3
  <2>4. f[k] = IF steps[k].controls = << >> THEN done ELSE Append(done, steps[k])
    BY <2>2, <2>3
  <2> QED
    BY <2>1, <2>4
<1> QED
  BY <1>4, <1>5, <1>6, LoopCopies

(* Steps of which no two neighbours are equal are all kept. *)
LEMMA NothingRepeated ==
  ASSUME NEW steps \in Seq(Step),
         \A k \in 1 .. Len(steps) - 1 : steps[k] # steps[k + 1]
  PROVE  WithoutRepeats(steps) = steps
<1> DEFINE Body(f) == [k \in 0 .. Len(steps) |->
             IF k = 0 THEN << >>
             ELSE IF f[k - 1] # << >> /\ Last(f[k - 1]) = steps[k]
                    THEN f[k - 1] ELSE Append(f[k - 1], steps[k])]
           f == CHOOSE f : f = Body(f)
           g == [k \in 0 .. Len(steps) |-> SubSeq(steps, 1, k)]
<1>1. ASSUME NEW k \in 1 .. Len(steps), NEW done, done = SubSeq(steps, 1, k - 1)
      PROVE  ~(done # << >> /\ Last(done) = steps[k])
  <2> SUFFICES ASSUME done # << >> PROVE Last(done) # steps[k]
    OBVIOUS
  <2>1. k - 1 \in 1 .. Len(steps) - 1 /\ Last(done) = steps[k - 1]
    BY <1>1, PrefixLast
  <2>2. steps[k - 1] # steps[(k - 1) + 1]
    BY <2>1
  <2> QED
    BY <2>1, <2>2
<1>2. g = Body(g)
  <2>1. ASSUME NEW k \in 0 .. Len(steps)
        PROVE  g[k] = Body(g)[k]
    <3>1. CASE k = 0
      BY <3>1, PrefixEnds
    <3>2. CASE k # 0
      <4>1. k \in 1 .. Len(steps) /\ g[k - 1] = SubSeq(steps, 1, k - 1)
        BY <3>2
      <4>2. g[k] = Append(g[k - 1], steps[k])
        BY <4>1, PrefixGrows
      <4> HIDE DEF g
      <4>3. Body(g)[k] = Append(g[k - 1], steps[k])
        BY <1>1, <3>2, <4>1
      <4> QED
        BY <4>2, <4>3
    <3> QED
      BY <3>1, <3>2
  <2> QED
    BY <2>1
<1>3. f = Body(f)
  <2> HIDE DEF g
  <2> QED
    BY <1>2
<1>4. WithoutRepeats(steps) = f[Len(steps)]
  BY DEF WithoutRepeats, Folded
<1> HIDE DEF f
<1>5. f[0] = << >>
  BY <1>3
<1>6. ASSUME NEW k \in 1 .. Len(steps), f[k - 1] = SubSeq(steps, 1, k - 1)
      PROVE  f[k] = Append(f[k - 1], steps[k])
  <2> DEFINE done == f[k - 1]
  <2>1. ~(done # << >> /\ Last(done) = steps[k])
    BY <1>1, <1>6
  <2>2. k \in 0 .. Len(steps) /\ k # 0
    OBVIOUS
  <2>3. f[k] = Body(f)[k]
    BY <1>3
  <2>4. f[k] = IF done # << >> /\ Last(done) = steps[k]
                  THEN done ELSE Append(done, steps[k])
    BY <2>2, <2>3
  <2> QED
    BY <2>1, <2>4
<1> QED
  BY <1>4, <1>5, <1>6, LoopCopies

(* Steps of which none may be merged into the one before it are all kept. *)
LEMMA NothingMerged ==
  ASSUME NEW steps \in Seq(Step),
         \A k \in 1 .. Len(steps) - 1 : ~CanMerge(steps[k], steps[k + 1])
  PROVE  Merged(steps) = steps
<1> DEFINE Body(f) == [k \in 0 .. Len(steps) |->
             IF k = 0 THEN << >>
             ELSE IF f[k - 1] # << >> /\ CanMerge(Last(f[k - 1]), steps[k])
                    THEN Append(Front(f[k - 1]), MergeSteps(Last(f[k - 1]), steps[k]))
                    ELSE Append(f[k - 1], steps[k])]
           f == CHOOSE f : f = Body(f)
           g == [k \in 0 .. Len(steps) |-> SubSeq(steps, 1, k)]
<1>1. ASSUME NEW k \in 1 .. Len(steps), NEW done, done = SubSeq(steps, 1, k - 1)
      PROVE  ~(done # << >> /\ CanMerge(Last(done), steps[k]))
  <2> SUFFICES ASSUME done # << >> PROVE ~CanMerge(Last(done), steps[k])
    OBVIOUS
  <2>1. k - 1 \in 1 .. Len(steps) - 1 /\ Last(done) = steps[k - 1]
    BY <1>1, PrefixLast
  <2>2. ~CanMerge(steps[k - 1], steps[(k - 1) + 1])
    BY <2>1
  <2>3. (k - 1) + 1 = k
    OBVIOUS
  <2> QED
    BY <2>1, <2>2, <2>3
<1>2. g = Body(g)
  <2>1. ASSUME NEW k \in 0 .. Len(steps)
        PROVE  g[k] = Body(g)[k]
    <3>1. CASE k = 0
      BY <3>1, PrefixEnds
    <3>2. CASE k # 0
      <4>1. k \in 1 .. Len(steps) /\ g[k - 1] = SubSeq(steps, 1, k - 1)
        BY <3>2
      <4>2. g[k] = Append(g[k - 1], steps[k])
        BY <4>1, PrefixGrows
      <4> HIDE DEF g
      <4>3. Body(g)[k] = Append(g[k - 1], steps[k])
        BY <1>1, <3>2, <4>1
      <4> QED
        BY <4>2, <4>3
    <3> QED
      BY <3>1, <3>2
  <2> QED
    BY <2>1
<1>3. f = Body(f)
  <2> HIDE DEF g
  <2> QED
    BY <1>2
<1>4. Merged(steps) = f[Len(steps)]
  BY DEF Merged, Folded
<1> HIDE DEF f
<1>5. f[0] = << >>
  BY <1>3
<1>6. ASSUME NEW k \in 1 .. Len(steps), f[k - 1] = SubSeq(steps, 1, k - 1)
      PROVE  f[k] = Append(f[k - 1], steps[k])
  <2> DEFINE done == f[k - 1]
  <2>1. ~(done # << >> /\ CanMerge(Last(done), steps[k]))
    BY <1>1, <1>6
  <2>2. k \in 0 .. Len(steps) /\ k # 0
    OBVIOUS
  <2>3. f[k] = Body(f)[k]
    BY <1>3
  <2>4. f[k] = IF done # << >> /\ CanMerge(Last(done), steps[k])
                  THEN Append(Front(done), MergeSteps(Last(done), steps[k]))
                  ELSE Append(done, steps[k])
    BY <2>2, <2>3
  <2> QED
    BY <2>1, <2>4
<1> QED
  BY <1>4, <1>5, <1>6, LoopCopies

-----------------------------------------------------------------------------
(* What a pass over every variant makes of an instruction set. *)

(* new has the instructions of old, with other steps. *)
SameShape(new, old) ==
  /\ DOMAIN new.instructions = DOMAIN old.instructions
  /\ \A a \in DOMAIN old.instructions :
       /\ new.instructions[a].opcode = old.instructions[a].opcode
       /\ DOMAIN new.instructions[a].variants = DOMAIN old.instructions[a].variants
       /\ \A b \in DOMAIN old.instructions[a].variants :
            new.instructions[a].variants[b].when = old.instructions[a].variants[b].when

StepsOf(set, a, b) == set.instructions[a].variants[b].steps

LEMMA SetTypes ==
  ASSUME NEW set, set.instructions \in Seq(Instruction)
  PROVE  \A a \in DOMAIN set.instructions :
              /\ set.instructions[a] \in Instruction
              /\ set.instructions[a].opcode \in 0 .. 255
              /\ set.instructions[a].variants \in Seq(Variant)
              /\ \A b \in DOMAIN set.instructions[a].variants :
                   /\ set.instructions[a].variants[b] \in Variant
                   /\ set.instructions[a].variants[b].when \in Condition
                   /\ StepsOf(set, a, b) \in Seq(Step)
<1>1. ASSUME NEW a \in DOMAIN set.instructions
      PROVE  /\ set.instructions[a] \in Instruction
             /\ set.instructions[a].opcode \in 0 .. 255
             /\ set.instructions[a].variants \in Seq(Variant)
  <2>1. set.instructions[a] \in Instruction
    OBVIOUS
  <2> QED
    BY <2>1 DEF Instruction
<1>2. ASSUME NEW a \in DOMAIN set.instructions,
             NEW b \in DOMAIN set.instructions[a].variants
      PROVE  /\ set.instructions[a].variants[b] \in Variant
             /\ set.instructions[a].variants[b].when \in Condition
             /\ StepsOf(set, a, b) \in Seq(Step)
  <2>1. set.instructions[a].variants[b] \in Variant
    BY <1>1
  <2> QED
    BY <2>1 DEF Variant, StepsOf
<1> QED
  BY <1>1, <1>2

(* The instruction set with the steps of variant b of instruction a replaced by
   R[a][b]. *)
Replaced(set, R) ==
  [fetch_preamble |-> set.fetch_preamble,
   instructions |-> [a \in DOMAIN set.instructions |->
     [opcode |-> set.instructions[a].opcode,
      variants |-> [b \in DOMAIN set.instructions[a].variants |->
        [when |-> set.instructions[a].variants[b].when, steps |-> R[a][b]]]]]]

LEMMA ReplacedShape ==
  ASSUME NEW set, set.instructions \in Seq(Instruction), NEW R,
         NEW out, out.instructions = Replaced(set, R).instructions
  PROVE  /\ SameShape(out, set)
         /\ \A a \in DOMAIN set.instructions : \A b \in DOMAIN set.instructions[a].variants :
              StepsOf(out, a, b) = R[a][b]
         /\ (\A a \in DOMAIN set.instructions : \A b \in DOMAIN set.instructions[a].variants :
               R[a][b] \in Seq(Step)) => out.instructions \in Seq(Instruction)
<1>1. out.instructions =
           [a \in DOMAIN set.instructions |->
              [opcode |-> set.instructions[a].opcode,
               variants |-> [b \in DOMAIN set.instructions[a].variants |->
                 [when |-> set.instructions[a].variants[b].when, steps |-> R[a][b]]]]]
  BY DEF Replaced
<1>2. ASSUME NEW a \in DOMAIN set.instructions
      PROVE  /\ out.instructions[a].opcode = set.instructions[a].opcode
             /\ out.instructions[a].variants =
                  [b \in DOMAIN set.instructions[a].variants |->
                     [when |-> set.instructions[a].variants[b].when, steps |-> R[a][b]]]
             /\ out.instructions[a] = [opcode |-> set.instructions[a].opcode,
                                       variants |-> out.instructions[a].variants]
  <2> DEFINE vs == [b \in DOMAIN set.instructions[a].variants |->
                      [when |-> set.instructions[a].variants[b].when, steps |-> R[a][b]]]
  <2>1. out.instructions[a] = [opcode |-> set.instructions[a].opcode, variants |-> vs]
    BY <1>1
  <2> HIDE DEF vs
  <2>2. /\ out.instructions[a].opcode = set.instructions[a].opcode
        /\ out.instructions[a].variants = vs
    BY <2>1
  <2> QED
    BY <2>1, <2>2 DEF vs
<1>3. ASSUME NEW a \in DOMAIN set.instructions,
             NEW b \in DOMAIN set.instructions[a].variants
      PROVE  /\ out.instructions[a].variants[b].when = set.instructions[a].variants[b].when
             /\ out.instructions[a].variants[b].steps = R[a][b]
             /\ R[a][b] \in Seq(Step) => out.instructions[a].variants[b] \in Variant
  <2>1. set.instructions[a].variants[b].when \in Condition
    BY SetTypes
  <2>2. out.instructions[a].variants[b]
          = [when |-> set.instructions[a].variants[b].when, steps |-> R[a][b]]
    <3> DEFINE ws == out.instructions[a].variants
    <3>1. ws = [c \in DOMAIN set.instructions[a].variants |->
                  [when |-> set.instructions[a].variants[c].when, steps |-> R[a][c]]]
      BY <1>2
    <3> HIDE DEF ws
    <3>2. ws[b] = [when |-> set.instructions[a].variants[b].when, steps |-> R[a][b]]
      BY <3>1
    <3> QED
      BY <3>2 DEF ws
  <2> QED
    BY <2>1, <2>2 DEF Variant
<1>4. ASSUME \A a \in DOMAIN set.instructions : \A b \in DOMAIN set.instructions[a].variants :
               R[a][b] \in Seq(Step)
      PROVE  out.instructions \in Seq(Instruction)
  <2>1. ASSUME NEW a \in DOMAIN set.instructions
        PROVE  out.instructions[a] \in Instruction
    <3>1. \A b \in DOMAIN set.instructions[a].variants :
            out.instructions[a].variants[b] \in Variant
      BY <1>3, <1>4
    <3>2. DOMAIN set.instructions[a].variants = 1 .. Len(set.instructions[a].variants)
          /\ Len(set.instructions[a].variants) \in Nat
      BY SetTypes
    <3>3. out.instructions[a].variants \in Seq(Variant)
      <4>1. out.instructions[a].variants \in
              [1 .. Len(set.instructions[a].variants) -> Variant]
        BY <1>2, <3>1, <3>2
      <4> QED
        BY <4>1, <3>2
    <3>4. set.instructions[a].opcode \in 0 .. 255
      BY SetTypes
    <3> DEFINE ws == out.instructions[a].variants
               o == set.instructions[a].opcode
    <3>5. out.instructions[a] = [opcode |-> o, variants |-> ws] /\ o \in 0 .. 255 /\ ws \in Seq(Variant)
      BY <1>2, <3>3, <3>4
    <3> HIDE DEF ws, o
    <3> QED
      BY <3>5 DEF Instruction
  <2>2. DOMAIN set.instructions = 1 .. Len(set.instructions) /\ Len(set.instructions) \in Nat
    BY SetTypes
  <2>3. out.instructions \in [1 .. Len(set.instructions) -> Instruction]
    BY <1>1, <2>1, <2>2
  <2> QED
    BY <2>3, <2>2
<1>5. DOMAIN out.instructions = DOMAIN set.instructions
      /\ \A a \in DOMAIN set.instructions :
           DOMAIN out.instructions[a].variants = DOMAIN set.instructions[a].variants
  BY <1>1, <1>2
<1> QED
  BY <1>1, <1>2, <1>3, <1>4, <1>5 DEF SameShape, StepsOf

LEMMA EachPrefixed ==
  ASSUME NEW set
  PROVE  WithPreamble(set).instructions =
           Replaced(set, [a \in DOMAIN set.instructions |->
             [b \in DOMAIN set.instructions[a].variants |->
                Prefixed(set.fetch_preamble, StepsOf(set, a, b))]]).instructions
  BY DEF WithPreamble, EachVariant, Replaced, StepsOf

LEMMA EachSequenced ==
  ASSUME NEW set
  PROVE  EachVariant(set, Sequenced).instructions =
           Replaced(set, [a \in DOMAIN set.instructions |->
             [b \in DOMAIN set.instructions[a].variants |->
                Sequenced(StepsOf(set, a, b))]]).instructions
  BY DEF EachVariant, Replaced, StepsOf

LEMMA EachWithoutEmpty ==
  ASSUME NEW set
  PROVE  Optimized(set, WithoutEmpty).instructions =
           Replaced(set, [a \in DOMAIN set.instructions |->
             [b \in DOMAIN set.instructions[a].variants |->
                WithoutEmpty(StepsOf(set, a, b))]]).instructions
  BY DEF Optimized, EachVariant, Replaced, StepsOf

LEMMA EachWithoutRepeats ==
  ASSUME NEW set
  PROVE  Optimized(set, WithoutRepeats).instructions =
           Replaced(set, [a \in DOMAIN set.instructions |->
             [b \in DOMAIN set.instructions[a].variants |->
                WithoutRepeats(StepsOf(set, a, b))]]).instructions
  BY DEF Optimized, EachVariant, Replaced, StepsOf

LEMMA EachMerged ==
  ASSUME NEW set
  PROVE  Optimized(set, Merged).instructions =
           Replaced(set, [a \in DOMAIN set.instructions |->
             [b \in DOMAIN set.instructions[a].variants |->
                Merged(StepsOf(set, a, b))]]).instructions
  BY DEF Optimized, EachVariant, Replaced, StepsOf

-----------------------------------------------------------------------------
(* What the passes make of one list of steps. *)

LEMMA StepTypes ==
  ASSUME NEW steps \in Seq(Step), NEW k \in DOMAIN steps
  PROVE  /\ steps[k] \in Step
         /\ steps[k].stage \in Int
         /\ steps[k].controls \in Seq(Control)
<1>1. steps[k] \in Step
  OBVIOUS
<1> QED
  BY <1>1 DEF Step

(* FetchTransformer puts the preamble before the steps and changes no control. *)
LEMMA PrefixedSteps ==
  ASSUME NEW preamble \in Seq(Step), NEW steps \in Seq(Step)
  PROVE  /\ Prefixed(preamble, steps) \in Seq(Step)
         /\ Len(Prefixed(preamble, steps)) = Len(preamble \o steps)
         /\ \A k \in 1 .. Len(preamble \o steps) :
              Prefixed(preamble, steps)[k].controls = (preamble \o steps)[k].controls
<1> DEFINE later == [i \in DOMAIN steps |-> [steps[i] EXCEPT !.stage = @ + 1]]
<1>1. ASSUME NEW i \in DOMAIN steps
      PROVE  later[i] \in Step /\ later[i].controls = steps[i].controls
  <2> DEFINE old == steps[i]
             new == later[i]
  <2>1. old \in Step
    BY StepTypes
  <2>2. new = [old EXCEPT !.stage = old.stage + 1]
    OBVIOUS
  <2> HIDE DEF old, new
  <2>3. old.stage + 1 \in Int
    BY <2>1 DEF Step
  <2>4. new \in Step /\ new.controls = old.controls
    <3> DEFINE n == old.stage + 1
    <3> HIDE DEF n
    <3> QED
      BY <2>1, <2>2, <2>3 DEF Step, n
  <2> QED
    BY <2>4 DEF old, new
<1>2. DOMAIN steps = 1 .. Len(steps) /\ Len(steps) \in Nat
  OBVIOUS
<1>3. later \in Seq(Step) /\ Len(later) = Len(steps)
  <2>1. later \in [1 .. Len(steps) -> Step]
    BY <1>1, <1>2
  <2> QED
    BY <1>2, <2>1
<1>4. Prefixed(preamble, steps) = IF preamble = << >> THEN steps ELSE preamble \o later
  BY DEF Prefixed
<1> HIDE DEF later
<1>5. CASE preamble = << >>
  <2>1. preamble \o steps = steps
    BY <1>5
  <2> QED
    BY <1>4, <1>5, <2>1
<1>6. CASE preamble # << >>
  <2>1. /\ Len(preamble \o later) = Len(preamble) + Len(later)
        /\ Len(preamble \o steps) = Len(preamble) + Len(steps)
        /\ preamble \o later \in Seq(Step)
    BY <1>3
  <2>2. ASSUME NEW k \in 1 .. Len(preamble \o steps)
        PROVE  (preamble \o later)[k].controls = (preamble \o steps)[k].controls
    <3>1. CASE k <= Len(preamble)
      <4>1. (preamble \o later)[k] = preamble[k] /\ (preamble \o steps)[k] = preamble[k]
        BY <3>1, <2>1, <1>3
      <4> QED
        BY <4>1
    <3>2. CASE ~(k <= Len(preamble))
      <4>1. k - Len(preamble) \in DOMAIN steps
        BY <3>2, <2>1
      <4>2. /\ (preamble \o later)[k] = later[k - Len(preamble)]
            /\ (preamble \o steps)[k] = steps[k - Len(preamble)]
        BY <3>2, <2>1, <1>3
      <4> QED
        BY <4>1, <4>2, <1>1
    <3> QED
      BY <3>1, <3>2
  <2> QED
    BY <1>4, <1>6, <1>3, <2>1, <2>2
<1> QED
  BY <1>5, <1>6

(* The step counter's control for step k of n. *)
Sequencing(k, n) == IF k = n THEN sc_reset ELSE sc_increment

LEMMA SequencingIsControl ==
  ASSUME NEW k, NEW n
  PROVE  Sequencing(k, n) \in Control
  BY ControlAssumption DEF Sequencing

(* SequenceTransformer adds the sequence control to each step, and no other. *)
LEMMA SequencedSteps ==
  ASSUME NEW steps \in Seq(Step)
  PROVE  /\ Sequenced(steps) \in Seq(Step)
         /\ Len(Sequenced(steps)) = Len(steps)
         /\ \A k \in 1 .. Len(steps) :
              /\ Controls(Sequenced(steps)[k]) = Controls(steps[k]) \cup {Sequencing(k, Len(steps))}
              /\ Sequenced(steps)[k].controls # << >>
<1> DEFINE with(c, cs) == IF c \in Range(cs) THEN cs ELSE Append(cs, c)
           out == Sequenced(steps)
<1>1. out = [k \in DOMAIN steps |->
               [steps[k] EXCEPT !.controls = with(Sequencing(k, Len(steps)), steps[k].controls)]]
  BY DEF Sequenced, Sequencing
<1>2. ASSUME NEW c \in Control, NEW cs \in Seq(Control)
      PROVE  /\ with(c, cs) \in Seq(Control)
             /\ Range(with(c, cs)) = Range(cs) \cup {c}
             /\ with(c, cs) # << >>
  <2>1. Range(Append(cs, c)) = Range(cs) \cup {c} /\ Append(cs, c) # << >>
    <3>1. DOMAIN Append(cs, c) = DOMAIN cs \cup {Len(cs) + 1}
      OBVIOUS
    <3>2. \A i \in DOMAIN cs : Append(cs, c)[i] = cs[i]
      OBVIOUS
    <3>3. Append(cs, c)[Len(cs) + 1] = c
      OBVIOUS
    <3> QED
      BY <3>1, <3>2, <3>3 DEF Range
  <2>2. c \in Range(cs) => cs # << >>
    BY DEF Range
  <2> QED
    BY <2>1, <2>2
<1> HIDE DEF out, with
<1>3. ASSUME NEW k \in DOMAIN steps
      PROVE  /\ out[k] \in Step
             /\ Controls(out[k]) = Controls(steps[k]) \cup {Sequencing(k, Len(steps))}
             /\ out[k].controls # << >>
  <2> DEFINE c == Sequencing(k, Len(steps))
             cs == steps[k].controls
  <2>1. c \in Control /\ cs \in Seq(Control) /\ steps[k] \in Step
    BY SequencingIsControl, StepTypes
  <2>2. out[k] = [steps[k] EXCEPT !.controls = with(c, cs)]
    BY <1>1
  <2>3. /\ with(c, cs) \in Seq(Control)
        /\ Range(with(c, cs)) = Range(cs) \cup {c}
        /\ with(c, cs) # << >>
    BY <1>2, <2>1
  <2> HIDE DEF c
  <2>4. out[k] \in Step /\ out[k].controls = with(c, cs)
    BY <2>1, <2>2, <2>3 DEF Step
  <2> QED
    BY <2>3, <2>4 DEF Controls, c
<1>4. DOMAIN steps = 1 .. Len(steps) /\ Len(steps) \in Nat
  OBVIOUS
<1>5. out \in Seq(Step) /\ Len(out) = Len(steps)
  <2>1. out \in [1 .. Len(steps) -> Step]
    BY <1>1, <1>3, <1>4
  <2> QED
    BY <1>4, <2>1
<1> QED
  BY <1>3, <1>4, <1>5 DEF out

(* DuplicateStepOptimizer leaves steps of the list, in their order: one that
   is not the last it leaves was not the last it was given. *)
LEMMA RepeatsRemoved ==
  ASSUME NEW steps \in Seq(Step)
  PROVE  /\ WithoutRepeats(steps) \in Seq(Step)
         /\ \A k \in 1 .. Len(WithoutRepeats(steps)) :
              \E j \in 1 .. Len(steps) :
                /\ WithoutRepeats(steps)[k] = steps[j]
                /\ k < Len(WithoutRepeats(steps)) => j < Len(steps)
<1> DEFINE add(done, s) == IF done # << >> /\ Last(done) = s THEN done ELSE Append(done, s)
           Body(f) == [k \in 0 .. Len(steps) |->
                         IF k = 0 THEN << >> ELSE add(f[k - 1], steps[k])]
           f == CHOOSE f : f = Body(f)
           F == [p \in Seq(Step) \X Step |-> add(p[1], p[2])]
<1>1. F \in [Seq(Step) \X Step -> Seq(Step)]
  <2>1. \A done \in Seq(Step), s \in Step : add(done, s) \in Seq(Step)
    OBVIOUS
  <2> HIDE DEF add
  <2> QED
    BY <2>1
<1>2. \A done \in Seq(Step), s \in Step : F[<<done, s>>] = add(done, s)
  <2> HIDE DEF add
  <2> QED
    OBVIOUS
<1>3. \E g : g = Body(g)
  <2> HIDE DEF F, add
  <2>1. << >> \in Seq(Step)
    OBVIOUS
  <2>2. PICK g \in [0 .. Len(steps) -> Seq(Step)] :
          g = [k \in 0 .. Len(steps) |-> IF k = 0 THEN << >> ELSE F[<<g[k - 1], steps[k]>>]]
    <3> DEFINE A == Seq(Step)
               base == << >>
    <3>1. F \in [A \X Step -> A] /\ base \in A
      BY <1>1, <2>1
    <3> HIDE DEF A, base
    <3>2. \E g : IsLoop(g, A, F, base, steps)
      BY <3>1, LoopExists
    <3> QED
      BY <3>2 DEF A, base, IsLoop
  <2>3. ASSUME NEW k \in 0 .. Len(steps)
        PROVE  g[k] = IF k = 0 THEN << >> ELSE add(g[k - 1], steps[k])
    <3>1. k # 0 => g[k - 1] \in Seq(Step) /\ steps[k] \in Step
      OBVIOUS
    <3>2. g[k] = IF k = 0 THEN << >> ELSE F[<<g[k - 1], steps[k]>>]
      BY <2>2
    <3> QED
      BY <1>2, <3>1, <3>2
  <2>4. g = [k \in 0 .. Len(steps) |-> g[k]]
    OBVIOUS
  <2>5. [k \in 0 .. Len(steps) |-> g[k]] = Body(g)
    BY <2>3
  <2> QED
    BY <2>4, <2>5
<1>4. f = Body(f)
  BY <1>3
<1>5. WithoutRepeats(steps) = f[Len(steps)]
  BY DEF WithoutRepeats, Folded
<1> HIDE DEF f
<1> DEFINE Good(done, n) ==
             /\ done \in Seq(Step)
             /\ \A k \in 1 .. Len(done) :
                  \E j \in 1 .. n : done[k] = steps[j] /\ (k < Len(done) => j < n)
           S == {n \in Nat : n <= Len(steps) => Good(f[n], n)}
<1>6. 0 \in S
  <2>1. f[0] = << >>
    BY <1>4
  <2>2. << >> \in Seq(Step) /\ 1 .. Len(<< >>) = {}
    OBVIOUS
  <2> QED
    BY <2>1, <2>2
<1>7. ASSUME NEW n \in Nat, Good(f[n], n), n + 1 <= Len(steps)
      PROVE  Good(f[n + 1], n + 1)
  <2> DEFINE done == f[n]
             s == steps[n + 1]
  <2>1. f[n + 1] = add(done, s)
    <3>1. n + 1 \in 0 .. Len(steps) /\ n + 1 # 0 /\ (n + 1) - 1 = n
      BY <1>7
    <3> HIDE DEF add
    <3> QED
      BY <1>4, <3>1
  <2>2. s \in Step /\ n + 1 \in 1 .. n + 1
    BY <1>7
  <2>3. Good(done, n)
    BY <1>7
  <2>4. CASE f[n + 1] = done
    <3>1. ASSUME NEW k \in 1 .. Len(done)
          PROVE  \E j \in 1 .. n + 1 : done[k] = steps[j] /\ (k < Len(done) => j < n + 1)
      <4>1. PICK j \in 1 .. n : done[k] = steps[j]
        BY <2>3
      <4>2. j \in 1 .. n + 1 /\ j < n + 1
        OBVIOUS
      <4> QED
        BY <4>1, <4>2
    <3> QED
      BY <2>3, <2>4, <3>1
  <2>5. CASE f[n + 1] = Append(done, s)
    <3> DEFINE more == Append(done, s)
    <3>1. done \in Seq(Step)
      BY <2>3
    <3> HIDE DEF done, s
    <3>2. /\ more \in Seq(Step)
          /\ Len(more) = Len(done) + 1
          /\ more[Len(done) + 1] = s
          /\ \A k \in 1 .. Len(done) : more[k] = done[k]
          /\ Len(done) \in Nat
      BY <2>2, <3>1
    <3>3. ASSUME NEW k \in 1 .. Len(more)
          PROVE  \E j \in 1 .. n + 1 : more[k] = steps[j] /\ (k < Len(more) => j < n + 1)
      <4>1. CASE k = Len(done) + 1
        <5>1. more[k] = steps[n + 1] /\ ~(k < Len(more))
          BY <3>2, <4>1 DEF s
        <5> QED
          BY <5>1, <2>2
      <4>2. CASE k # Len(done) + 1
        <5>1. k \in 1 .. Len(done) /\ more[k] = done[k]
          BY <3>2, <4>2
        <5>2. PICK j \in 1 .. n : done[k] = steps[j]
          BY <2>3, <5>1 DEF done
        <5>3. j \in 1 .. n + 1 /\ j < n + 1
          OBVIOUS
        <5> QED
          BY <5>1, <5>2, <5>3
      <4> QED
        BY <4>1, <4>2
    <3> QED
      BY <2>5, <3>2, <3>3
  <2> QED
    BY <2>1, <2>4, <2>5
<1>8. \A n \in Nat : n \in S => n + 1 \in S
  <2> HIDE DEF Good
  <2> QED
    BY <1>7
<1>9. Nat \subseteq S
  <2> HIDE DEF S
  <2> QED
    BY <1>6, <1>8, Induction
<1> QED
  BY <1>5, <1>9

(* A step with a sequence control merges with no other: both have a control of
   the Process phase. *)
LEMMA SequencedNeverMerge ==
  ASSUME NEW s, NEW t,
         sc_reset \in Controls(s) \/ sc_increment \in Controls(s),
         sc_reset \in Controls(t) \/ sc_increment \in Controls(t)
  PROVE  ~CanMerge(s, t)
<1>1. sc_reset[2] = "reset" /\ sc_increment[2] = "increment"
  BY DEF sc_reset, sc_increment
<1>2. Phase(sc_reset) = 4 /\ Phase(sc_increment) = 4
  BY <1>1 DEF Phase
<1>3. PICK c \in Controls(s) : Phase(c) = 4
  BY <1>2
<1>4. PICK d \in Controls(t) : Phase(d) = 4
  BY <1>2
<1> QED
  BY <1>3, <1>4 DEF CanMerge

-----------------------------------------------------------------------------
(* The encoded table. *)

LEMMA EntryIff ==
  ASSUME NEW set, NEW e
  PROVE  e \in Entries(set) <=>
           \E a \in DOMAIN set.instructions :
             \E b \in DOMAIN set.instructions[a].variants :
               \E k \in DOMAIN StepsOf(set, a, b),
                  raised \in Expand(set.instructions[a].variants[b].when) :
                 e = [key |-> <<set.instructions[a].opcode, k - 1, raised>>,
                      word |-> Controls(StepsOf(set, a, b)[k])]
  BY DEF Entries, StepsOf, Range

(* Every status selects one variant and no other. *)
LEMMA OneVariant ==
  ASSUME NEW variants \in Seq(Variant), StatusesCovered(variants), NEW raised
  PROVE  /\ \A b, c \in DOMAIN variants :
              raised \in Expand(variants[b].when) /\ raised \in Expand(variants[c].when) => b = c
         /\ variants # << >> /\ raised \in SUBSET StatusBits =>
              \E b \in DOMAIN variants : raised \in Expand(variants[b].when)
<1>1. CASE variants = << >>
  BY <1>1
<1>2. CASE Len(variants) = 1 /\ DOMAIN variants[1].when = {}
  <2>1. DOMAIN variants = {1}
    BY <1>2
  <2>2. Expand(variants[1].when) = SUBSET StatusBits
    BY <1>2 DEF Expand
  <2> QED
    BY <2>1, <2>2
<1>3. CASE /\ \A i, j \in DOMAIN variants :
                i # j => Expand(variants[i].when) \cap Expand(variants[j].when) = {}
           /\ UNION {Expand(v.when) : v \in Range(variants)} = SUBSET StatusBits
  <2>1. ASSUME raised \in SUBSET StatusBits
        PROVE  \E b \in DOMAIN variants : raised \in Expand(variants[b].when)
    <3>1. PICK v \in Range(variants) : raised \in Expand(v.when)
      BY <1>3, <2>1
    <3> QED
      BY <3>1 DEF Range
  <2> QED
    BY <1>3, <2>1
<1> QED
  BY <1>1, <1>2, <1>3 DEF StatusesCovered

(* Under a status that selects variant b of instruction a, the controller finds
   the steps of b, one after the other, and nothing else. *)
LEMMA WalkIsVariant ==
  ASSUME NEW set, set.instructions \in Seq(Instruction),
         CoversIsa(set), \A i \in Range(set.instructions) : StatusesCovered(i.variants),
         table = TableOf(set),
         NEW a \in DOMAIN set.instructions, NEW b \in DOMAIN set.instructions[a].variants,
         NEW raised \in Expand(set.instructions[a].variants[b].when)
  PROVE  /\ WalkLength(set.instructions[a].opcode, raised) = Len(StepsOf(set, a, b))
         /\ \A k \in 1 .. Len(StepsOf(set, a, b)) :
              /\ <<set.instructions[a].opcode, k - 1, raised>> \in DOMAIN table
              /\ table[<<set.instructions[a].opcode, k - 1, raised>>]
                   = Controls(StepsOf(set, a, b)[k])
<1> DEFINE op == set.instructions[a].opcode
           steps == StepsOf(set, a, b)
           n == Len(steps)
           keyOf(k) == <<op, k - 1, raised>>
<1>1. steps \in Seq(Step) /\ n \in Nat /\ DOMAIN steps = 1 .. n
  <2>1. steps \in Seq(Step)
    BY SetTypes
  <2> QED
    BY <2>1
<1>2. ASSUME NEW e \in Entries(set), e.key[1] = op, e.key[3] = raised
      PROVE  \E k \in 1 .. n : e.key = keyOf(k) /\ e.word = Controls(steps[k])
  <2>1. PICK c, d, k, r :
          /\ c \in DOMAIN set.instructions
          /\ d \in DOMAIN set.instructions[c].variants
          /\ k \in DOMAIN StepsOf(set, c, d)
          /\ r \in Expand(set.instructions[c].variants[d].when)
          /\ e = [key |-> <<set.instructions[c].opcode, k - 1, r>>,
                  word |-> Controls(StepsOf(set, c, d)[k])]
    BY EntryIff
  <2>2. r = raised /\ set.instructions[c].opcode = op
    BY <1>2, <2>1
  <2>3. c = a
    BY <2>1, <2>2 DEF CoversIsa
  <2>4. d = b
    <3>1. set.instructions[a] \in Range(set.instructions)
      BY DEF Range
    <3>2. /\ set.instructions[a].variants \in Seq(Variant)
          /\ StatusesCovered(set.instructions[a].variants)
      BY <3>1, SetTypes
    <3> QED
      BY <2>1, <2>2, <2>3, <3>2, OneVariant
  <2> QED
    BY <2>1, <2>2, <2>3, <2>4, <1>1
<1>3. ASSUME NEW k \in 1 .. n
      PROVE  \E e \in Entries(set) : e.key = keyOf(k)
  <2> DEFINE e == [key |-> keyOf(k), word |-> Controls(steps[k])]
  <2>1. e \in Entries(set)
    BY <1>1, EntryIff
  <2>2. e.key = keyOf(k)
    OBVIOUS
  <2> QED
    BY <2>1, <2>2
<1>4. DOMAIN table = {e.key : e \in Entries(set)}
  BY DEF TableOf
<1>5. ASSUME NEW k \in 1 .. n
      PROVE  keyOf(k) \in DOMAIN table /\ table[keyOf(k)] = Controls(steps[k])
  <2>1. keyOf(k) \in DOMAIN table
    BY <1>3, <1>4
  <2> DEFINE e == CHOOSE e \in Entries(set) : e.key = keyOf(k)
  <2>2. e \in Entries(set) /\ e.key = keyOf(k)
    BY <1>3
  <2>3. table[keyOf(k)] = e.word
    BY <2>1, <1>4 DEF TableOf
  <2> HIDE DEF e
  <2>4. PICK j \in 1 .. n : e.key = keyOf(j) /\ e.word = Controls(steps[j])
    BY <2>2, <1>2
  <2>5. j = k
    BY <2>2, <2>4, <1>1
  <2> QED
    BY <2>1, <2>3, <2>4, <2>5
<1>6. WalkLength(op, raised) = n
  <2> DEFINE keys == {key \in DOMAIN table : key[1] = op /\ key[3] = raised}
             F == [k \in 1 .. n |-> keyOf(k)]
  <2>1. ASSUME NEW key \in keys PROVE \E k \in 1 .. n : key = keyOf(k)
    <3>1. PICK e \in Entries(set) : key = e.key
      BY <1>4
    <3> QED
      BY <3>1, <1>2
  <2>2. \A k \in 1 .. n : keyOf(k) \in keys
    BY <1>5
  <2>3. \A j, k \in 1 .. n : keyOf(j) = keyOf(k) => j = k
    BY <1>1
  <2>4. F \in Bijection(1 .. n, keys)
    <3> HIDE DEF keyOf, keys, n
    <3>1. F \in [1 .. n -> keys]
      BY <2>2
    <3>2. F \in Injection(1 .. n, keys)
      BY <2>3, <3>1, Fun_IsInj
    <3>3. \A key \in keys : \E k \in 1 .. n : F[k] = key
      BY <2>1
    <3>4. F \in Surjection(1 .. n, keys)
      BY <3>1, <3>3, Fun_IsSurj
    <3> QED
      BY <3>2, <3>4 DEF Bijection
  <2>5. IsFiniteSet(1 .. n) /\ Cardinality(1 .. n) = n
    <3>1. n \in Nat /\ 1 \in Int
      BY <1>1
    <3> HIDE DEF n
    <3>2. IsFiniteSet(1 .. n) /\ Cardinality(1 .. n) = IF 1 > n THEN 0 ELSE n - 1 + 1
      BY <3>1, FS_Interval
    <3> QED
      BY <3>1, <3>2
  <2>6. Cardinality(1 .. n) = Cardinality(keys)
    <3> HIDE DEF keys, n, F
    <3> QED
      BY <2>4, <2>5, FS_Bijection DEF ExistsBijection
  <2> QED
    BY <2>5, <2>6 DEF WalkLength
<1> QED
  BY <1>5, <1>6

-----------------------------------------------------------------------------
(* The passes. *)

(* What the passes before pass p have made of the steps of a variant. *)
StepsAt(p, preamble, steps) ==
  LET prefixed == Prefixed(preamble, steps)
  IN  IF p = 1 THEN steps
      ELSE IF p <= 3 THEN prefixed
      ELSE IF p <= 7 THEN Sequenced(prefixed)
      ELSE WithoutRepeats(Sequenced(prefixed))

LEMMA StepsAtTypes ==
  ASSUME NEW p \in 1 .. 12, NEW preamble \in Seq(Step), NEW steps \in Seq(Step)
  PROVE  /\ StepsAt(p, preamble, steps) \in Seq(Step)
         /\ p >= 4 => \A k \in DOMAIN StepsAt(p, preamble, steps) :
                        LET s == StepsAt(p, preamble, steps)[k]
                        IN  /\ sc_reset \in Controls(s) \/ sc_increment \in Controls(s)
                            /\ s.controls # << >>
<1> DEFINE pre == Prefixed(preamble, steps)
           seq == Sequenced(pre)
           rep == WithoutRepeats(seq)
<1>1. pre \in Seq(Step)
  BY PrefixedSteps
<1> HIDE DEF pre
<1>2. /\ seq \in Seq(Step)
      /\ \A k \in 1 .. Len(seq) :
           /\ sc_reset \in Controls(seq[k]) \/ sc_increment \in Controls(seq[k])
           /\ seq[k].controls # << >>
  <2>1. /\ seq \in Seq(Step)
        /\ Len(seq) = Len(pre)
        /\ \A k \in 1 .. Len(pre) :
             /\ Controls(seq[k]) = Controls(pre[k]) \cup {Sequencing(k, Len(pre))}
             /\ seq[k].controls # << >>
    BY <1>1, SequencedSteps
  <2>2. \A k : Sequencing(k, Len(pre)) \in {sc_reset, sc_increment}
    BY DEF Sequencing
  <2> HIDE DEF seq
  <2> QED
    BY <2>1, <2>2
<1> HIDE DEF seq
<1>3. rep \in Seq(Step) /\ \A k \in 1 .. Len(rep) : \E j \in 1 .. Len(seq) : rep[k] = seq[j]
  BY <1>2, RepeatsRemoved
<1> HIDE DEF rep
<1>4. \A k \in 1 .. Len(rep) :
        /\ sc_reset \in Controls(rep[k]) \/ sc_increment \in Controls(rep[k])
        /\ rep[k].controls # << >>
  BY <1>2, <1>3
<1>5. StepsAt(p, preamble, steps) =
        IF p = 1 THEN steps ELSE IF p <= 3 THEN pre ELSE IF p <= 7 THEN seq ELSE rep
  BY DEF StepsAt, pre, seq, rep
<1>6. DOMAIN seq = 1 .. Len(seq) /\ DOMAIN rep = 1 .. Len(rep)
  BY <1>2, <1>3
<1> QED
  BY <1>1, <1>2, <1>3, <1>4, <1>5, <1>6

(* The inductive invariant: instruction by instruction and variant by variant
   the instruction set is what the passes so far make of the source; what is
   encoded has been validated, and the table is its encoding. *)
TypeInv ==
  /\ source \in InstructionSet
  /\ instruction_set.instructions \in Seq(Instruction)
  /\ pass \in 1 .. 12
PassesInv ==
  /\ pass = 1 => instruction_set = source
  /\ SameShape(instruction_set, source)
  /\ \A a \in DOMAIN source.instructions : \A b \in DOMAIN source.instructions[a].variants :
       StepsOf(instruction_set, a, b)
         = StepsAt(pass, source.fetch_preamble, StepsOf(source, a, b))
ResultInv ==
  /\ pass >= 11 => Valid(instruction_set)
  /\ pass = 12 => table = TableOf(instruction_set)
CompilerInv == TypeInv /\ PassesInv /\ ResultInv

LEMMA PassNames ==
  ASSUME pass \in 1 .. 12
  PROVE  /\ At("fetch") => pass = 1
         /\ At("fetch_validator") => pass = 2
         /\ At("sequence") => pass = 3
         /\ At("validators") => pass \in {4, 6, 8, 10}
         /\ At("empty") => pass = 5
         /\ At("duplicate") => pass = 7
         /\ At("merge") => pass = 9
         /\ At("encode") => pass = 11
         /\ Compiled => pass = 12
  BY DEF At, Compiled, Passes

(* A pass that rewrites steps keeps the invariant if it is the one that makes
   the steps what they are at the next. *)
LEMMA RewriteKept ==
  ASSUME CompilerInv, pass \in 1 .. 9, pass' = pass + 1, source' = source, NEW R,
         instruction_set'.instructions = Replaced(instruction_set, R).instructions,
         \A a \in DOMAIN source.instructions : \A b \in DOMAIN source.instructions[a].variants :
           R[a][b] = StepsAt(pass + 1, source.fetch_preamble, StepsOf(source, a, b))
  PROVE  CompilerInv'
<1>1. /\ source \in InstructionSet
      /\ instruction_set.instructions \in Seq(Instruction)
      /\ SameShape(instruction_set, source)
  BY DEF CompilerInv, TypeInv, PassesInv
<1>2. source.fetch_preamble \in Seq(Step) /\ source.instructions \in Seq(Instruction)
  BY <1>1 DEF InstructionSet
<1>3. ASSUME NEW a \in DOMAIN source.instructions, NEW b \in DOMAIN source.instructions[a].variants
      PROVE  R[a][b] \in Seq(Step)
  <2>1. StepsOf(source, a, b) \in Seq(Step) /\ pass + 1 \in 1 .. 12
    BY <1>2, SetTypes
  <2> QED
    BY <1>2, <2>1, StepsAtTypes
<1>4. /\ DOMAIN instruction_set.instructions = DOMAIN source.instructions
      /\ \A a \in DOMAIN source.instructions :
           DOMAIN instruction_set.instructions[a].variants = DOMAIN source.instructions[a].variants
  BY <1>1 DEF SameShape
<1>5. /\ SameShape(instruction_set', instruction_set)
      /\ \A a \in DOMAIN source.instructions : \A b \in DOMAIN source.instructions[a].variants :
           StepsOf(instruction_set', a, b) = R[a][b]
      /\ instruction_set'.instructions \in Seq(Instruction)
  BY <1>1, <1>3, <1>4, ReplacedShape
<1>6. SameShape(instruction_set', source)
  BY <1>1, <1>5 DEF SameShape
<1>7. TypeInv'
  BY <1>1, <1>5 DEF TypeInv
<1>8. PassesInv'
  <2>1. ASSUME NEW a \in DOMAIN source.instructions,
               NEW b \in DOMAIN source.instructions[a].variants
        PROVE  StepsOf(instruction_set', a, b)
                 = StepsAt(pass', source.fetch_preamble, StepsOf(source, a, b))
    BY <1>5
  <2> QED
    BY <1>6, <2>1 DEF PassesInv, StepsOf
<1>9. ResultInv'
  BY DEF ResultInv
<1> QED
  BY <1>7, <1>8, <1>9 DEF CompilerInv

LEMMA CompilerInvInit == Init => CompilerInv
<1> SUFFICES ASSUME Init PROVE CompilerInv
  OBVIOUS
<1>1. source \in InstructionSet /\ instruction_set = source /\ pass = 1
  BY SourcesAssumption DEF Init
<1>2. source.instructions \in Seq(Instruction)
  BY <1>1 DEF InstructionSet
<1>3. TypeInv /\ ResultInv
  BY <1>1, <1>2 DEF TypeInv, ResultInv
<1>4. PassesInv
  BY <1>1 DEF PassesInv, SameShape, StepsAt
<1> QED
  BY <1>3, <1>4 DEF CompilerInv

(* At each place, what the pass makes of the steps. *)
LEMMA StepsTransformed ==
  ASSUME CompilerInv,
         NEW a \in DOMAIN source.instructions, NEW b \in DOMAIN source.instructions[a].variants
  PROVE  LET now == StepsOf(instruction_set, a, b)
             at(p) == StepsAt(p, source.fetch_preamble, StepsOf(source, a, b))
         IN  /\ pass = 1 => Prefixed(instruction_set.fetch_preamble, now) = at(2)
             /\ pass = 3 => Sequenced(now) = at(4)
             /\ pass = 5 => WithoutEmpty(now) = at(6) /\ at(6) = at(5)
             /\ pass = 7 => WithoutRepeats(now) = at(8)
             /\ pass = 9 => Merged(now) = at(10) /\ at(10) = at(9)
<1> DEFINE now == StepsOf(instruction_set, a, b)
           old == StepsOf(source, a, b)
           preamble == source.fetch_preamble
           at(p) == StepsAt(p, preamble, old)
<1>1. pass \in 1 .. 12 /\ preamble \in Seq(Step) /\ old \in Seq(Step) /\ now = at(pass)
  <2>1. source.instructions \in Seq(Instruction) /\ preamble \in Seq(Step)
    BY DEF CompilerInv, TypeInv, InstructionSet
  <2> QED
    BY <2>1, SetTypes DEF CompilerInv, TypeInv, PassesInv
<1>2. pass = 1 => Prefixed(instruction_set.fetch_preamble, now) = at(2)
  BY DEF CompilerInv, PassesInv, StepsAt
<1> HIDE DEF now, old, preamble
<1>3. /\ at(4) = Sequenced(at(3))
      /\ at(6) = at(5)
      /\ at(8) = WithoutRepeats(at(7))
      /\ at(10) = at(9)
  BY DEF StepsAt
<1>4. \A p \in 1 .. 12 : at(p) \in Seq(Step)
  BY <1>1, StepsAtTypes
<1>5. WithoutEmpty(at(5)) = at(5)
  <2>1. \A k \in DOMAIN at(5) : at(5)[k].controls # << >>
    BY <1>1, StepsAtTypes
  <2>2. at(5) \in Seq(Step)
    BY <1>4
  <2> HIDE DEF at
  <2> QED
    BY <2>1, <2>2, NothingEmpty
<1>6. Merged(at(9)) = at(9)
  <2>1. \A k \in DOMAIN at(9) :
          sc_reset \in Controls(at(9)[k]) \/ sc_increment \in Controls(at(9)[k])
    BY <1>1, StepsAtTypes
  <2>2. at(9) \in Seq(Step)
    BY <1>4
  <2> HIDE DEF at
  <2>3. ASSUME NEW k \in 1 .. Len(at(9)) - 1
        PROVE  ~CanMerge(at(9)[k], at(9)[k + 1])
    <3>1. k \in DOMAIN at(9) /\ k + 1 \in DOMAIN at(9)
      BY <2>2
    <3> QED
      BY <2>1, <3>1, SequencedNeverMerge
  <2> QED
    BY <2>2, <2>3, NothingMerged
<1> HIDE DEF at
<1>7. /\ pass = 3 => Sequenced(now) = at(4)
      /\ pass = 5 => WithoutEmpty(now) = at(6) /\ at(6) = at(5)
      /\ pass = 7 => WithoutRepeats(now) = at(8)
      /\ pass = 9 => Merged(now) = at(10) /\ at(10) = at(9)
  BY <1>1, <1>3, <1>5, <1>6
<1> QED
  BY <1>2, <1>7 DEF now, at, old, preamble

LEMMA RewritesKept ==
  ASSUME CompilerInv,
         \/ FetchTransformer
         \/ SequenceTransformer
         \/ EmptyStepOptimizer
         \/ DuplicateStepOptimizer
         \/ StepMergingOptimizer
  PROVE  CompilerInv' /\ pass' = pass + 1 /\ source' = source
<1>0. /\ pass \in 1 .. 12
      /\ DOMAIN instruction_set.instructions = DOMAIN source.instructions
      /\ \A a \in DOMAIN source.instructions :
           DOMAIN instruction_set.instructions[a].variants = DOMAIN source.instructions[a].variants
  BY DEF CompilerInv, TypeInv, PassesInv, SameShape
<1>1. CASE FetchTransformer
  <2> DEFINE R == [a \in DOMAIN instruction_set.instructions |->
                     [b \in DOMAIN instruction_set.instructions[a].variants |->
                        Prefixed(instruction_set.fetch_preamble, StepsOf(instruction_set, a, b))]]
  <2>1. pass = 1 /\ pass' = pass + 1 /\ source' = source
    BY <1>0, <1>1, PassNames DEF FetchTransformer, Rewrite
  <2>2. instruction_set'.instructions = Replaced(instruction_set, R).instructions
    <3>1. instruction_set' = WithPreamble(instruction_set)
      BY <1>1 DEF FetchTransformer, Rewrite
    <3> HIDE DEF R
    <3> QED
      BY <3>1, EachPrefixed DEF R
  <2>3. ASSUME NEW a \in DOMAIN source.instructions,
               NEW b \in DOMAIN source.instructions[a].variants
        PROVE  R[a][b] = StepsAt(pass + 1, source.fetch_preamble, StepsOf(source, a, b))
    <3>1. R[a][b] = Prefixed(instruction_set.fetch_preamble, StepsOf(instruction_set, a, b))
      BY <1>0
    <3> HIDE DEF R
    <3>2. Prefixed(instruction_set.fetch_preamble, StepsOf(instruction_set, a, b))
            = StepsAt(2, source.fetch_preamble, StepsOf(source, a, b))
      BY <2>1, StepsTransformed
    <3> QED
      BY <2>1, <3>1, <3>2
  <2> HIDE DEF R
  <2>4. pass \in 1 .. 9
    BY <2>1
  <2>5. CompilerInv'
    BY <2>1, <2>2, <2>3, <2>4, RewriteKept
  <2> QED
    BY <2>1, <2>5
<1>2. CASE SequenceTransformer
  <2> DEFINE R == [a \in DOMAIN instruction_set.instructions |->
                     [b \in DOMAIN instruction_set.instructions[a].variants |->
                        Sequenced(StepsOf(instruction_set, a, b))]]
  <2>1. pass = 3 /\ pass' = pass + 1 /\ source' = source
    BY <1>0, <1>2, PassNames DEF SequenceTransformer, Rewrite
  <2>2. instruction_set'.instructions = Replaced(instruction_set, R).instructions
    <3>1. instruction_set' = EachVariant(instruction_set, Sequenced)
      BY <1>2 DEF SequenceTransformer, Rewrite
    <3> HIDE DEF R
    <3> QED
      BY <3>1, EachSequenced DEF R
  <2>3. ASSUME NEW a \in DOMAIN source.instructions,
               NEW b \in DOMAIN source.instructions[a].variants
        PROVE  R[a][b] = StepsAt(pass + 1, source.fetch_preamble, StepsOf(source, a, b))
    <3>1. R[a][b] = Sequenced(StepsOf(instruction_set, a, b))
      BY <1>0
    <3> HIDE DEF R
    <3>2. Sequenced(StepsOf(instruction_set, a, b))
            = StepsAt(4, source.fetch_preamble, StepsOf(source, a, b))
      BY <2>1, StepsTransformed
    <3> QED
      BY <2>1, <3>1, <3>2
  <2> HIDE DEF R
  <2>4. pass \in 1 .. 9
    BY <2>1
  <2>5. CompilerInv'
    BY <2>1, <2>2, <2>3, <2>4, RewriteKept
  <2> QED
    BY <2>1, <2>5
<1>3. CASE EmptyStepOptimizer
  <2> DEFINE R == [a \in DOMAIN instruction_set.instructions |->
                     [b \in DOMAIN instruction_set.instructions[a].variants |->
                        WithoutEmpty(StepsOf(instruction_set, a, b))]]
  <2>1. pass = 5 /\ pass' = pass + 1 /\ source' = source
    BY <1>0, <1>3, PassNames DEF EmptyStepOptimizer, Rewrite
  <2>2. instruction_set'.instructions = Replaced(instruction_set, R).instructions
    <3>1. instruction_set' = Optimized(instruction_set, WithoutEmpty)
      BY <1>3 DEF EmptyStepOptimizer, Rewrite
    <3> HIDE DEF R
    <3> QED
      BY <3>1, EachWithoutEmpty DEF R
  <2>3. ASSUME NEW a \in DOMAIN source.instructions,
               NEW b \in DOMAIN source.instructions[a].variants
        PROVE  R[a][b] = StepsAt(pass + 1, source.fetch_preamble, StepsOf(source, a, b))
    <3>1. R[a][b] = WithoutEmpty(StepsOf(instruction_set, a, b))
      BY <1>0
    <3> HIDE DEF R
    <3>2. WithoutEmpty(StepsOf(instruction_set, a, b))
            = StepsAt(6, source.fetch_preamble, StepsOf(source, a, b))
      BY <2>1, StepsTransformed
    <3> QED
      BY <2>1, <3>1, <3>2
  <2> HIDE DEF R
  <2>4. pass \in 1 .. 9
    BY <2>1
  <2>5. CompilerInv'
    BY <2>1, <2>2, <2>3, <2>4, RewriteKept
  <2> QED
    BY <2>1, <2>5
<1>4. CASE DuplicateStepOptimizer
  <2> DEFINE R == [a \in DOMAIN instruction_set.instructions |->
                     [b \in DOMAIN instruction_set.instructions[a].variants |->
                        WithoutRepeats(StepsOf(instruction_set, a, b))]]
  <2>1. pass = 7 /\ pass' = pass + 1 /\ source' = source
    BY <1>0, <1>4, PassNames DEF DuplicateStepOptimizer, Rewrite
  <2>2. instruction_set'.instructions = Replaced(instruction_set, R).instructions
    <3>1. instruction_set' = Optimized(instruction_set, WithoutRepeats)
      BY <1>4 DEF DuplicateStepOptimizer, Rewrite
    <3> HIDE DEF R
    <3> QED
      BY <3>1, EachWithoutRepeats DEF R
  <2>3. ASSUME NEW a \in DOMAIN source.instructions,
               NEW b \in DOMAIN source.instructions[a].variants
        PROVE  R[a][b] = StepsAt(pass + 1, source.fetch_preamble, StepsOf(source, a, b))
    <3>1. R[a][b] = WithoutRepeats(StepsOf(instruction_set, a, b))
      BY <1>0
    <3> HIDE DEF R
    <3>2. WithoutRepeats(StepsOf(instruction_set, a, b))
            = StepsAt(8, source.fetch_preamble, StepsOf(source, a, b))
      BY <2>1, StepsTransformed
    <3> QED
      BY <2>1, <3>1, <3>2
  <2> HIDE DEF R
  <2>4. pass \in 1 .. 9
    BY <2>1
  <2>5. CompilerInv'
    BY <2>1, <2>2, <2>3, <2>4, RewriteKept
  <2> QED
    BY <2>1, <2>5
<1>5. CASE StepMergingOptimizer
  <2> DEFINE R == [a \in DOMAIN instruction_set.instructions |->
                     [b \in DOMAIN instruction_set.instructions[a].variants |->
                        Merged(StepsOf(instruction_set, a, b))]]
  <2>1. pass = 9 /\ pass' = pass + 1 /\ source' = source
    BY <1>0, <1>5, PassNames DEF StepMergingOptimizer, Rewrite
  <2>2. instruction_set'.instructions = Replaced(instruction_set, R).instructions
    <3>1. instruction_set' = Optimized(instruction_set, Merged)
      BY <1>5 DEF StepMergingOptimizer, Rewrite
    <3> HIDE DEF R
    <3> QED
      BY <3>1, EachMerged DEF R
  <2>3. ASSUME NEW a \in DOMAIN source.instructions,
               NEW b \in DOMAIN source.instructions[a].variants
        PROVE  R[a][b] = StepsAt(pass + 1, source.fetch_preamble, StepsOf(source, a, b))
    <3>1. R[a][b] = Merged(StepsOf(instruction_set, a, b))
      BY <1>0
    <3> HIDE DEF R
    <3>2. Merged(StepsOf(instruction_set, a, b))
            = StepsAt(10, source.fetch_preamble, StepsOf(source, a, b))
      BY <2>1, StepsTransformed
    <3> QED
      BY <2>1, <3>1, <3>2
  <2> HIDE DEF R
  <2>4. pass \in 1 .. 9
    BY <2>1
  <2>5. CompilerInv'
    BY <2>1, <2>2, <2>3, <2>4, RewriteKept
  <2> QED
    BY <2>1, <2>5
<1> QED
  BY <1>1, <1>2, <1>3, <1>4, <1>5

LEMMA CompilerInvKept == CompilerInv /\ [Next]_vars => CompilerInv'
<1> SUFFICES ASSUME CompilerInv, [Next]_vars PROVE CompilerInv'
  OBVIOUS
<1>0. pass \in 1 .. 12
  BY DEF CompilerInv, TypeInv
<1> DEFINE Same == source' = source /\ instruction_set' = instruction_set
           Near == \/ pass \in 2 .. 3 /\ pass' \in 2 .. 3
                   \/ pass \in 4 .. 7 /\ pass' \in 4 .. 7
                   \/ pass \in 8 .. 12 /\ pass' \in 8 .. 12
<1>1. ASSUME Same, Near
      PROVE  TypeInv' /\ PassesInv'
  <2>1. TypeInv'
    BY <1>1 DEF CompilerInv, TypeInv
  <2>2. ASSUME NEW preamble, NEW steps
        PROVE  StepsAt(pass', preamble, steps) = StepsAt(pass, preamble, steps)
    BY <1>1 DEF StepsAt
  <2>3. ASSUME NEW a \in DOMAIN source.instructions,
               NEW b \in DOMAIN source.instructions[a].variants
        PROVE  StepsOf(instruction_set, a, b)
                 = StepsAt(pass', source.fetch_preamble, StepsOf(source, a, b))
    BY <2>2 DEF CompilerInv, PassesInv
  <2>4. SameShape(instruction_set, source)
    BY DEF CompilerInv, PassesInv
  <2> QED
    BY <1>1, <2>1, <2>3, <2>4 DEF PassesInv, SameShape, StepsOf
<1>2. CASE FetchValidator \/ RunAllValidators
  <2>1. Same /\ table' = table
    BY <1>2 DEF FetchValidator, RunAllValidators, Validate
  <2>2. /\ pass \in {2, 4, 6, 8, 10}
        /\ pass' \in {pass, pass + 1}
        /\ pass' = 11 => Valid(instruction_set)
    BY <1>0, <1>2, PassNames DEF FetchValidator, RunAllValidators, Validate
  <2>3. TypeInv' /\ PassesInv'
    <3>1. Near
      BY <2>2
    <3> HIDE DEF Near, Same
    <3> QED
      BY <1>1, <2>1, <3>1
  <2>4. ResultInv'
    BY <2>1, <2>2 DEF ResultInv
  <2> QED
    BY <2>3, <2>4 DEF CompilerInv
<1>3. CASE Encode
  <2>1. Same
    BY <1>3 DEF Encode
  <2>2. /\ pass = 11
        /\ pass' \in {11, 12}
        /\ pass' = 12 => table' = TableOf(instruction_set)
    BY <1>0, <1>3, PassNames DEF Encode
  <2>3. TypeInv' /\ PassesInv'
    BY <1>1, <2>1, <2>2
  <2>4. Valid(instruction_set)
    BY <2>2 DEF CompilerInv, ResultInv
  <2>5. ResultInv'
    BY <2>1, <2>2, <2>4 DEF ResultInv
  <2> QED
    BY <2>3, <2>5 DEF CompilerInv
<1>4. CASE UNCHANGED vars
  BY <1>4 DEF vars, CompilerInv, TypeInv, PassesInv, ResultInv, SameShape, StepsOf
<1> QED
  BY <1>2, <1>3, <1>4, RewritesKept DEF Next

LEMMA CompilerInvHolds == Spec => []CompilerInv
  BY CompilerInvInit, CompilerInvKept, PTL DEF Spec

-----------------------------------------------------------------------------
(* The theorems. *)

LEMMA InStepLists ==
  ASSUME NEW set, NEW a \in DOMAIN set.instructions,
         NEW b \in DOMAIN set.instructions[a].variants
  PROVE  StepsOf(set, a, b) \in StepLists(set)
  BY DEF StepLists, StepsOf, Range

(* What is compiled: the conditions of WalkIsVariant, and the steps. *)
LEMMA CompiledFacts ==
  ASSUME CompilerInv, Compiled
  PROVE  /\ instruction_set.instructions \in Seq(Instruction)
         /\ CoversIsa(instruction_set)
         /\ \A i \in Range(instruction_set.instructions) : StatusesCovered(i.variants)
         /\ \A steps \in StepLists(instruction_set) : IsSequenced(steps)
         /\ table = TableOf(instruction_set)
         /\ source.instructions \in Seq(Instruction)
         /\ source.fetch_preamble \in Seq(Step)
         /\ SameShape(instruction_set, source)
         /\ \A a \in DOMAIN source.instructions :
              \A b \in DOMAIN source.instructions[a].variants :
                StepsOf(instruction_set, a, b) =
                  WithoutRepeats(Sequenced(Prefixed(source.fetch_preamble, StepsOf(source, a, b))))
<1>1. pass = 12
  BY PassNames DEF CompilerInv, TypeInv
<1>2. Valid(instruction_set) /\ table = TableOf(instruction_set)
  BY <1>1 DEF CompilerInv, ResultInv
<1>3. /\ CoversIsa(instruction_set)
      /\ \A i \in Range(instruction_set.instructions) : StatusesCovered(i.variants)
      /\ \A steps \in StepLists(instruction_set) : IsSequenced(steps)
  BY <1>2 DEF Valid
<1>4. /\ instruction_set.instructions \in Seq(Instruction)
      /\ source.instructions \in Seq(Instruction)
      /\ source.fetch_preamble \in Seq(Step)
  BY DEF CompilerInv, TypeInv, InstructionSet
<1>5. /\ SameShape(instruction_set, source)
      /\ \A a \in DOMAIN source.instructions :
           \A b \in DOMAIN source.instructions[a].variants :
             StepsOf(instruction_set, a, b)
               = StepsAt(12, source.fetch_preamble, StepsOf(source, a, b))
  BY <1>1 DEF CompilerInv, PassesInv
<1>6. \A preamble, steps : StepsAt(12, preamble, steps)
                             = WithoutRepeats(Sequenced(Prefixed(preamble, steps)))
  BY DEF StepsAt
<1> QED
  BY <1>2, <1>3, <1>4, <1>5, <1>6

(* A control of a step that was written is authored. *)
LEMMA WrittenIsAuthored ==
  ASSUME source.instructions \in Seq(Instruction), source.fetch_preamble \in Seq(Step),
         NEW a \in DOMAIN source.instructions, NEW b \in DOMAIN source.instructions[a].variants,
         NEW k \in 1 .. Len(source.fetch_preamble \o StepsOf(source, a, b))
  PROVE  Controls((source.fetch_preamble \o StepsOf(source, a, b))[k]) \subseteq Authored
<1> DEFINE preamble == source.fetch_preamble
           steps == StepsOf(source, a, b)
           s == (preamble \o steps)[k]
<1>1. preamble \in Seq(Step) /\ steps \in Seq(Step)
  BY SetTypes
<1>2. steps \in StepLists(source)
  BY InStepLists
<1> HIDE DEF preamble, steps
<1>3. s \in Range(preamble) \/ s \in Range(steps)
  <2>1. k \in 1 .. Len(preamble) + Len(steps) /\ Len(preamble) \in Nat /\ Len(steps) \in Nat
    BY <1>1 DEF preamble, steps
  <2>2. CASE k <= Len(preamble)
    <3>1. k \in DOMAIN preamble /\ s = preamble[k]
      BY <1>1, <2>1, <2>2
    <3> QED
      BY <3>1 DEF Range
  <2>3. CASE ~(k <= Len(preamble))
    <3>1. k - Len(preamble) \in DOMAIN steps /\ s = steps[k - Len(preamble)]
      BY <1>1, <2>1, <2>3
    <3> QED
      BY <3>1 DEF Range
  <2> QED
    BY <2>2, <2>3
<1> HIDE DEF s
<1>4. Controls(s) \subseteq Authored
  BY <1>2, <1>3 DEF Authored, preamble
<1> QED
  BY <1>4 DEF s, preamble, steps

(* Whatever is compiled, under every status an instruction whose variants all
   have steps leads the step counter from 0 to a reset without a gap in the
   table, and resets it nowhere before unless the author wrote so. *)
THEOREM WalksAreComplete == Spec => []WalksEnd
<1>1. CompilerInv => WalksEnd
  <2> SUFFICES ASSUME CompilerInv, Compiled,
                      NEW i \in Range(instruction_set.instructions),
                      NEW raised \in SUBSET StatusBits,
                      i.variants # << >>, \A v \in Range(i.variants) : v.steps # << >>
               PROVE  LET n == WalkLength(i.opcode, raised)
                      IN  /\ n > 0
                          /\ \A k \in 0 .. n - 1 :
                               /\ <<i.opcode, k, raised>> \in DOMAIN table
                               /\ (IF k = n - 1 THEN sc_reset ELSE sc_increment)
                                    \in table[<<i.opcode, k, raised>>]
                               /\ sc_reset \in table[<<i.opcode, k, raised>>] =>
                                    k = n - 1 \/ sc_reset \in Authored
    BY DEF WalksEnd
  <2>1. PICK a \in DOMAIN instruction_set.instructions : i = instruction_set.instructions[a]
    BY DEF Range
  <2>2. i.variants \in Seq(Variant) /\ StatusesCovered(i.variants)
    BY <2>1, CompiledFacts, SetTypes
  <2>3. PICK b \in DOMAIN i.variants : raised \in Expand(i.variants[b].when)
    BY <2>2, OneVariant
  <2> DEFINE op == i.opcode
             steps == StepsOf(instruction_set, a, b)
             n == Len(steps)
  <2>4. /\ steps \in Seq(Step)
        /\ steps # << >>
        /\ IsSequenced(steps)
    <3>1. steps = i.variants[b].steps /\ i.variants[b] \in Range(i.variants)
      BY <2>1, <2>3 DEF StepsOf, Range
    <3> QED
      BY <2>1, <2>3, <3>1, CompiledFacts, SetTypes, InStepLists
  <2>5. /\ WalkLength(op, raised) = n
        /\ \A k \in 1 .. n :
             /\ <<op, k - 1, raised>> \in DOMAIN table
             /\ table[<<op, k - 1, raised>>] = Controls(steps[k])
    BY <2>1, <2>3, CompiledFacts, WalkIsVariant
  <2>6. ASSUME NEW k \in 1 .. n, k # n, sc_reset \in Controls(steps[k])
        PROVE  sc_reset \in Authored
    <3> DEFINE preamble == source.fetch_preamble
               old == StepsOf(source, a, b)
               pre == Prefixed(preamble, old)
               seq == Sequenced(pre)
    <3>1. a \in DOMAIN source.instructions /\ b \in DOMAIN source.instructions[a].variants
      BY <2>1, <2>3, CompiledFacts DEF SameShape
    <3>2. preamble \in Seq(Step) /\ old \in Seq(Step) /\ steps = WithoutRepeats(seq)
      BY <3>1, CompiledFacts, SetTypes
    <3>3. /\ pre \in Seq(Step)
          /\ Len(pre) = Len(preamble \o old)
          /\ \A j \in 1 .. Len(preamble \o old) : pre[j].controls = (preamble \o old)[j].controls
      BY <3>2, PrefixedSteps
    <3>4. /\ seq \in Seq(Step)
          /\ Len(seq) = Len(pre)
          /\ \A j \in 1 .. Len(pre) :
               Controls(seq[j]) = Controls(pre[j]) \cup {Sequencing(j, Len(pre))}
      BY <3>3, SequencedSteps
    <3>5. \A j \in 1 .. Len(preamble \o old) : Controls((preamble \o old)[j]) \subseteq Authored
      BY <3>1, CompiledFacts, WrittenIsAuthored
    <3> HIDE DEF n, steps, seq, pre, old, preamble
    <3>6. PICK j \in 1 .. Len(seq) : steps[k] = seq[j] /\ (k < n => j < Len(seq))
      BY <3>2, <3>4, RepeatsRemoved DEF n
    <3>7. n \in Nat /\ Len(seq) \in Nat
      BY <2>4, <3>4 DEF n
    <3>8. j # Len(pre) /\ j \in 1 .. Len(pre)
      BY <2>6, <3>4, <3>6, <3>7
    <3>9. Sequencing(j, Len(pre)) # sc_reset
      BY <3>8 DEF Sequencing, sc_reset, sc_increment
    <3>10. sc_reset \in Controls(pre[j])
      BY <2>6, <3>4, <3>6, <3>8, <3>9
    <3>11. Controls(pre[j]) = Controls((preamble \o old)[j])
      BY <3>3, <3>8 DEF Controls
    <3> QED
      BY <3>3, <3>5, <3>8, <3>10, <3>11
  <2>7. \A k \in 1 .. n : (IF k = n THEN sc_reset ELSE sc_increment) \in Controls(steps[k])
    BY <2>4 DEF IsSequenced
  <2>8. n \in Nat /\ n > 0
    BY <2>4
  <2> HIDE DEF n, steps, op
  <2>9. ASSUME NEW k \in 0 .. n - 1
        PROVE  /\ <<op, k, raised>> \in DOMAIN table
               /\ (IF k = n - 1 THEN sc_reset ELSE sc_increment) \in table[<<op, k, raised>>]
               /\ sc_reset \in table[<<op, k, raised>>] => k = n - 1 \/ sc_reset \in Authored
    <3> DEFINE l == k + 1
    <3>1. l \in 1 .. n /\ l - 1 = k /\ (l = n <=> k = n - 1)
      BY <2>8
    <3> HIDE DEF l
    <3>2. <<op, k, raised>> \in DOMAIN table /\ table[<<op, k, raised>>] = Controls(steps[l])
      BY <2>5, <3>1
    <3> QED
      BY <2>6, <2>7, <3>1, <3>2
  <2> QED
    BY <2>5, <2>8, <2>9 DEF op
<1> QED
  BY <1>1, CompilerInvHolds, PTL

-----------------------------------------------------------------------------
(* Meaning. *)

(* A sequence control does nothing to the registers but the step counter. *)
LEMMA SequencingMeansNothing ==
  ASSUME NEW m, "sc" \notin DOMAIN m, NEW controls, NEW k, NEW n
  PROVE  Do(m, controls \cup {Sequencing(k, n)}) = Do(m, controls)
<1> DEFINE more == controls \cup {Sequencing(k, n)}
<1>1. ASSUME NEW c \in DOMAIN m, NEW op
      PROVE  <<c, op>> \in more <=> <<c, op>> \in controls
  <2>1. c # "sc"
    OBVIOUS
  <2>2. <<c, op>> # sc_reset /\ <<c, op>> # sc_increment
    BY <2>1 DEF sc_reset, sc_increment
  <2> QED
    BY <2>2 DEF Sequencing
<1> HIDE DEF more
<1> DEFINE writers(cs, bus) == {c \in DOMAIN m : <<c, "write">> \in cs /\ BusOf[c] = bus}
           moved(cs, c) == IF <<c, "read">> \in cs
                             THEN m[CHOOSE d \in writers(cs, BusOf[c]) : TRUE] ELSE m[c]
           after(cs) == [c \in DOMAIN m |->
             CASE <<c, "reset">> \in cs \/ <<c, "clear">> \in cs -> 0
               [] <<c, "set">> \in cs -> 1
               [] <<c, "increment">> \in cs -> moved(cs, c) + 1
               [] <<c, "decrement">> \in cs -> moved(cs, c) - 1
               [] OTHER -> moved(cs, c)]
<1>2. \A bus : writers(more, bus) = writers(controls, bus)
  BY <1>1
<1> HIDE DEF writers
<1>3. ASSUME NEW c \in DOMAIN m
      PROVE  moved(more, c) = moved(controls, c)
  <2>1. writers(more, BusOf[c]) = writers(controls, BusOf[c])
    BY <1>2
  <2>2. <<c, "read">> \in more <=> <<c, "read">> \in controls
    BY <1>1
  <2> DEFINE chosen(cs) == CHOOSE d \in writers(cs, BusOf[c]) : TRUE
  <2>3. chosen(more) = chosen(controls)
    BY <2>1
  <2>4. \A cs : moved(cs, c) = IF <<c, "read">> \in cs THEN m[chosen(cs)] ELSE m[c]
    OBVIOUS
  <2> HIDE DEF chosen, moved
  <2> QED
    BY <2>2, <2>3, <2>4
<1> HIDE DEF moved
<1>4. after(more) = after(controls)
  BY <1>1, <1>3
<1>5. \A cs : Do(m, cs) = after(cs)
  BY DEF Do, after, moved, writers
<1> HIDE DEF after
<1> QED
  BY <1>4, <1>5 DEF more

(* The registers, word after word. *)
LEMMA MeaningUnfolds ==
  ASSUME NEW words, Len(words) \in Nat
  PROVE  \E g : /\ g = [k \in 0 .. Len(words) |->
                          IF k = 0 THEN Different ELSE Do(g[k - 1], words[k])]
                /\ Meaning(words) = g[Len(words)]
<1> DEFINE Body(g, n) == [k \in 0 .. n |-> IF k = 0 THEN Different ELSE Do(g[k - 1], words[k])]
           S == {n \in Nat : \E g : g = Body(g, n)}
<1>1. 0 \in S
  <2> DEFINE g == [k \in 0 .. 0 |-> Different]
  <2>1. g = Body(g, 0)
    OBVIOUS
  <2> QED
    BY <2>1
<1>2. ASSUME NEW n \in Nat, NEW g, g = Body(g, n)
      PROVE  \E h : h = Body(h, n + 1)
  <2> DEFINE next == Do(g[n], words[n + 1])
             h == [k \in 0 .. n + 1 |-> IF k = n + 1 THEN next ELSE g[k]]
  <2> HIDE DEF next
  <2>1. ASSUME NEW k \in 0 .. n + 1
        PROVE  h[k] = IF k = 0 THEN Different ELSE Do(h[k - 1], words[k])
    <3>1. CASE k = n + 1
      <4>1. h[k - 1] = g[n] /\ h[k] = next /\ k # 0
        BY <3>1
      <4> QED
        BY <4>1, <3>1 DEF next
    <3>2. CASE k # n + 1
      <4>1. k \in 0 .. n /\ h[k] = g[k] /\ (k # 0 => h[k - 1] = g[k - 1])
        BY <3>2
      <4>2. g[k] = IF k = 0 THEN Different ELSE Do(g[k - 1], words[k])
        BY <1>2, <4>1
      <4> QED
        BY <4>1, <4>2
    <3> QED
      BY <3>1, <3>2
  <2>2. h = [k \in 0 .. n + 1 |-> h[k]]
    OBVIOUS
  <2> HIDE DEF h
  <2>3. [k \in 0 .. n + 1 |-> h[k]] = Body(h, n + 1)
    BY <2>1
  <2> QED
    BY <2>2, <2>3
<1>3. \A n \in Nat : n \in S => n + 1 \in S
  BY <1>2
<1>4. Nat \subseteq S
  <2> HIDE DEF S
  <2> QED
    BY <1>1, <1>3, Induction
<1>5. \E g : g = Body(g, Len(words))
  BY <1>4
<1> DEFINE f == CHOOSE f : f = Body(f, Len(words))
<1>6. f = Body(f, Len(words))
  BY <1>5
<1>7. Meaning(words) = f[Len(words)]
  BY DEF Meaning, Folded
<1> HIDE DEF f
<1> QED
  BY <1>6, <1>7

(* Sequence controls in every word change no meaning. *)
LEMMA MeaningIsKept ==
  ASSUME NEW n \in Nat, NEW W \in [1 .. n -> SUBSET Control],
         NEW words \in Seq(SUBSET Control), Len(words) = n,
         \A k \in 1 .. n : words[k] = W[k] \cup {Sequencing(k, n)}
  PROVE  Meaning(words) = Meaning(W)
<1>1. W \in Seq(SUBSET Control) /\ Len(W) = n
  OBVIOUS
<1>2. PICK f : /\ f = [k \in 0 .. n |-> IF k = 0 THEN Different ELSE Do(f[k - 1], words[k])]
               /\ Meaning(words) = f[n]
  BY MeaningUnfolds
<1>3. PICK g : /\ g = [k \in 0 .. n |-> IF k = 0 THEN Different ELSE Do(g[k - 1], W[k])]
               /\ Meaning(W) = g[n]
  BY <1>1, MeaningUnfolds
<1> DEFINE S == {k \in Nat : k <= n => f[k] = g[k] /\ DOMAIN g[k] = Named}
<1>4. 0 \in S
  BY <1>2, <1>3 DEF Different
<1>5. ASSUME NEW k \in Nat, k \in S, k + 1 <= n
      PROVE  f[k + 1] = g[k + 1] /\ DOMAIN g[k + 1] = Named
  <2> DEFINE j == k + 1
  <2>1. j \in 1 .. n /\ j \in 0 .. n /\ j # 0 /\ j - 1 = k
    BY <1>5
  <2>2. f[k] = g[k] /\ DOMAIN g[k] = Named
    BY <1>5
  <2> HIDE DEF j
  <2>3. f[j] = Do(f[k], words[j]) /\ g[j] = Do(g[k], W[j])
    BY <1>2, <1>3, <2>1
  <2>4. "sc" \notin DOMAIN g[k]
    BY <2>2 DEF Named
  <2>5. Do(g[k], W[j] \cup {Sequencing(j, n)}) = Do(g[k], W[j])
    BY <2>4, SequencingMeansNothing
  <2>6. DOMAIN Do(g[k], W[j]) = DOMAIN g[k]
    BY DEF Do
  <2>7. f[j] = g[j] /\ DOMAIN g[j] = Named
    BY <2>1, <2>2, <2>3, <2>5, <2>6
  <2> QED
    BY <2>7 DEF j
<1>6. Nat \subseteq S
  <2>1. \A k \in Nat : k \in S => k + 1 \in S
    BY <1>5
  <2> HIDE DEF S
  <2> QED
    BY <1>4, <2>1, Induction
<1>7. f[n] = g[n]
  BY <1>6
<1> QED
  BY <1>2, <1>3, <1>7

(* What SequenceTransformer makes of a step's controls depends on them and on
   the place of the step only, not on its stage. *)
LEMMA SequencedAlike ==
  ASSUME NEW x \in Seq(Step), NEW y \in Seq(Step), Len(x) = Len(y),
         \A k \in 1 .. Len(x) : x[k].controls = y[k].controls
  PROVE  \A k \in 1 .. Len(x) : Sequenced(x)[k].controls = Sequenced(y)[k].controls
<1> DEFINE with(c, cs) == IF c \in Range(cs) THEN cs ELSE Append(cs, c)
<1>1. ASSUME NEW s \in Seq(Step), NEW k \in 1 .. Len(s)
      PROVE  Sequenced(s)[k].controls = with(Sequencing(k, Len(s)), s[k].controls)
  <2> DEFINE c == with(Sequencing(k, Len(s)), s[k].controls)
  <2>1. Sequenced(s)[k] = [s[k] EXCEPT !.controls = c]
    <3>1. Sequenced(s) = [j \in DOMAIN s |->
            [s[j] EXCEPT !.controls = with(Sequencing(j, Len(s)), s[j].controls)]]
      BY DEF Sequenced, Sequencing
    <3> HIDE DEF with
    <3>2. k \in DOMAIN s
      OBVIOUS
    <3> DEFINE new(j) == [s[j] EXCEPT !.controls = with(Sequencing(j, Len(s)), s[j].controls)]
    <3>3. Sequenced(s) = [j \in DOMAIN s |-> new(j)]
      BY <3>1
    <3>4. new(k) = [s[k] EXCEPT !.controls = c]
      OBVIOUS
    <3> HIDE DEF new
    <3> QED
      BY <3>2, <3>3, <3>4
  <2>2. s[k] \in Step
    BY StepTypes
  <2> HIDE DEF c
  <2>3. Sequenced(s)[k].controls = c
    BY <2>1, <2>2 DEF Step
  <2> QED
    BY <2>3 DEF c
<1> HIDE DEF with
<1> QED
  BY <1>1

(* The variant as it was written, without a repeated step, goes through all
   passes unchanged but for the preamble and the sequence controls. *)
LEMMA NotRepeatedIsKept ==
  ASSUME NEW preamble \in Seq(Step), NEW old \in Seq(Step), ~Repeats(preamble \o old)
  PROVE  LET steps == WithoutRepeats(Sequenced(Prefixed(preamble, old)))
             n == Len(preamble \o old)
         IN  /\ Len(steps) = n
             /\ \A k \in 1 .. n : Controls(steps[k])
                  = Controls((preamble \o old)[k]) \cup {Sequencing(k, n)}
<1> DEFINE x == preamble \o old
           y == Prefixed(preamble, old)
           n == Len(x)
           seq == Sequenced(y)
<1>1. /\ y \in Seq(Step)
      /\ Len(y) = n
      /\ \A k \in 1 .. n : y[k].controls = x[k].controls
  BY PrefixedSteps
<1>2. x \in Seq(Step) /\ n \in Nat
  OBVIOUS
<1>3. ~Repeats(x)
  OBVIOUS
<1> HIDE DEF x, y
<1>4. \A k \in 1 .. n : seq[k].controls = Sequenced(x)[k].controls
  BY <1>1, <1>2, SequencedAlike
<1>5. /\ seq \in Seq(Step)
      /\ Len(seq) = n
      /\ \A k \in 1 .. n : Controls(seq[k]) = Controls(y[k]) \cup {Sequencing(k, n)}
  BY <1>1, SequencedSteps
<1> HIDE DEF seq, n
<1>6. \A k \in 1 .. Len(seq) - 1 : seq[k] # seq[k + 1]
  <2> SUFFICES ASSUME NEW k \in 1 .. Len(seq) - 1 PROVE seq[k].controls # seq[k + 1].controls
    OBVIOUS
  <2>1. k \in 1 .. n /\ k + 1 \in 1 .. n /\ k \in 1 .. n - 1
    BY <1>2, <1>5
  <2>2. Sequenced(x)[k].controls # Sequenced(x)[k + 1].controls
    BY <1>3, <2>1 DEF Repeats, n
  <2> QED
    BY <1>4, <2>1, <2>2
<1>7. WithoutRepeats(seq) = seq
  BY <1>5, <1>6, NothingRepeated
<1>8. \A k \in 1 .. n : Controls(seq[k]) = Controls(x[k]) \cup {Sequencing(k, n)}
  BY <1>1, <1>5 DEF Controls
<1>9. Len(WithoutRepeats(seq)) = n
  BY <1>5, <1>7
<1> QED
  BY <1>7, <1>8, <1>9 DEF seq, x, y, n

(* Whatever is compiled, the words the controller finds do to the registers
   what the author wrote, unless a step is repeated in a row: the pipeline of
   Compiler::Compile keeps the meaning of every instruction. *)
THEOREM CompiledMeansWritten == Spec => []MeaningKept
<1>1. CompilerInv => MeaningKept
  <2>1. ASSUME CompilerInv, Compiled,
               NEW i \in Range(source.instructions), NEW v \in Range(i.variants),
               NEW raised \in Expand(v.when), ~Repeats(Written(v))
        PROVE  Meaning(Walk(i.opcode, raised)) = Meaning(WrittenWords(v))
    <3>1. PICK a \in DOMAIN source.instructions : i = source.instructions[a]
      BY DEF Range
    <3>2. PICK b \in DOMAIN i.variants : v = i.variants[b]
      BY DEF Range
    <3> DEFINE preamble == source.fetch_preamble
               old == StepsOf(source, a, b)
               x == preamble \o old
               n == Len(x)
               steps == StepsOf(instruction_set, a, b)
               W == WrittenWords(v)
               words == Walk(i.opcode, raised)
    <3>3. /\ a \in DOMAIN instruction_set.instructions
          /\ b \in DOMAIN instruction_set.instructions[a].variants
          /\ instruction_set.instructions[a].opcode = i.opcode
          /\ instruction_set.instructions[a].variants[b].when = v.when
      BY <2>1, <3>1, <3>2, CompiledFacts DEF SameShape
    <3>4. /\ preamble \in Seq(Step)
          /\ old \in Seq(Step)
          /\ steps = WithoutRepeats(Sequenced(Prefixed(preamble, old)))
      BY <2>1, <3>1, <3>2, CompiledFacts, SetTypes
    <3>5. Written(v) = x
      BY <3>1, <3>2 DEF Written, StepsOf
    <3>6. /\ Len(steps) = n
          /\ \A k \in 1 .. n : Controls(steps[k]) = Controls(x[k]) \cup {Sequencing(k, n)}
      BY <2>1, <3>4, <3>5, NotRepeatedIsKept
    <3>7. /\ WalkLength(i.opcode, raised) = Len(steps)
          /\ \A k \in 1 .. Len(steps) :
               table[<<i.opcode, k - 1, raised>>] = Controls(steps[k])
      <4>1. /\ instruction_set.instructions \in Seq(Instruction)
            /\ CoversIsa(instruction_set)
            /\ \A j \in Range(instruction_set.instructions) : StatusesCovered(j.variants)
            /\ table = TableOf(instruction_set)
        BY <2>1, CompiledFacts
      <4>2. raised \in Expand(instruction_set.instructions[a].variants[b].when)
        BY <3>3
      <4> QED
        BY <3>3, <4>1, <4>2, WalkIsVariant
    <3>8. x \in Seq(Step) /\ n \in Nat /\ DOMAIN x = 1 .. n
      BY <3>4
    <3>9. \A k \in 1 .. n : Controls(x[k]) \in SUBSET Control
      <4> SUFFICES ASSUME NEW k \in 1 .. n PROVE Controls(x[k]) \in SUBSET Control
        OBVIOUS
      <4> HIDE DEF x, n
      <4>1. x[k].controls \in Seq(Control)
        BY <3>8, StepTypes
      <4> QED
        BY <4>1 DEF Controls, Range
    <3>10. W = [k \in 1 .. n |-> Controls(x[k])]
      BY <3>5, <3>8 DEF WrittenWords
    <3>11. words = [k \in 1 .. n |-> table[<<i.opcode, k - 1, raised>>]]
      BY <3>6, <3>7 DEF Walk
    <3> HIDE DEF x, n, W, words, steps
    <3>12. W \in [1 .. n -> SUBSET Control] /\ \A k \in 1 .. n : W[k] = Controls(x[k])
      BY <3>9, <3>10
    <3>13. \A k \in 1 .. n : words[k] = W[k] \cup {Sequencing(k, n)}
      BY <3>6, <3>7, <3>11, <3>12
    <3>14. words \in Seq(SUBSET Control) /\ Len(words) = n
      <4>1. \A k \in 1 .. n : words[k] \in SUBSET Control
        BY <3>12, <3>13, SequencingIsControl
      <4>2. words \in [1 .. n -> SUBSET Control]
        BY <3>11, <4>1
      <4> QED
        BY <3>8, <4>2
    <3> QED
      BY <3>8, <3>12, <3>13, <3>14, MeaningIsKept DEF W, words
  <2> QED
    BY <2>1 DEF MeaningKept, ForEachWritten
<1> QED
  BY <1>1, CompilerInvHolds, PTL


-----------------------------------------------------------------------------
(* Words and their bits. *)

(* The bits of a word from the highest down, and the word. *)
LEMMA UpperBits ==
  ASSUME NEW width \in Nat, NEW S
  PROVE  \E u : /\ \A n \in 0 .. width : u[n] \in Nat
                /\ u[0] = 0
                /\ \A n \in 1 .. width :
                     u[n] = 2 * u[n - 1] + (IF width - n \in S THEN 1 ELSE 0)
                /\ BitsOf(width, S) = u[width]
<1> DEFINE bit(n) == IF width - n \in S THEN 1 ELSE 0
           D(m, u) == [n \in 0 .. m |-> IF n = 0 THEN 0 ELSE 2 * u[n - 1] + bit(n)]
           Some == {m \in Nat : \E u : u = D(m, u)}
<1>1. \A n : bit(n) \in 0 .. 1
  OBVIOUS
<1> HIDE DEF bit
<1>2. 0 \in Some
  <2> DEFINE g == [n \in 0 .. 0 |-> 0]
  <2>1. g = D(0, g)
    OBVIOUS
  <2> QED
    BY <2>1
<1>3. ASSUME NEW m \in Nat, NEW g, g = D(m, g)
      PROVE  \E h : h = D(m + 1, h)
  <2> DEFINE next == 2 * g[m] + bit(m + 1)
             h == [n \in 0 .. m + 1 |-> IF n = m + 1 THEN next ELSE g[n]]
  <2> HIDE DEF next
  <2>1. ASSUME NEW n \in 0 .. m + 1
        PROVE  h[n] = IF n = 0 THEN 0 ELSE 2 * h[n - 1] + bit(n)
    <3>1. CASE n = m + 1
      <4>1. h[n - 1] = g[m] /\ h[n] = next /\ n # 0
        BY <3>1
      <4> QED
        BY <4>1, <3>1 DEF next
    <3>2. CASE n # m + 1
      <4>1. n \in 0 .. m /\ h[n] = g[n] /\ (n # 0 => h[n - 1] = g[n - 1])
        BY <3>2
      <4>2. g[n] = IF n = 0 THEN 0 ELSE 2 * g[n - 1] + bit(n)
        BY <1>3, <4>1
      <4> QED
        BY <4>1, <4>2
    <3> QED
      BY <3>1, <3>2
  <2>2. h = [n \in 0 .. m + 1 |-> h[n]]
    OBVIOUS
  <2> HIDE DEF h
  <2>3. [n \in 0 .. m + 1 |-> h[n]] = D(m + 1, h)
    BY <2>1
  <2> QED
    BY <2>2, <2>3
<1>4. width \in Some
  <2>1. \A m \in Nat : m \in Some => m + 1 \in Some
    BY <1>3
  <2> HIDE DEF Some
  <2> QED
    BY <1>2, <2>1, Induction
<1> DEFINE w == CHOOSE u : u = D(width, u)
<1>5. w = D(width, w)
  BY <1>4
<1>6. BitsOf(width, S) = w[width]
  BY DEF BitsOf, bit
<1> HIDE DEF w
<1>7. w[0] = 0 /\ \A n \in 1 .. width : w[n] = 2 * w[n - 1] + bit(n)
  BY <1>5
<1> DEFINE Fine == {n \in Nat : n <= width => w[n] \in Nat}
<1>8. Nat \subseteq Fine
  <2>1. 0 \in Fine
    BY <1>7
  <2>2. ASSUME NEW n \in Nat, n \in Fine
        PROVE  n + 1 \in Fine
    <3>1. CASE n + 1 <= width
      <4>1. n + 1 \in 1 .. width /\ (n + 1) - 1 = n /\ w[n] \in Nat
        BY <2>2, <3>1
      <4>2. w[n + 1] = 2 * w[n] + bit(n + 1)
        BY <1>7, <4>1
      <4> QED
        BY <1>1, <4>1, <4>2
    <3> QED
      BY <3>1
  <2>3. \A n \in Nat : n \in Fine => n + 1 \in Fine
    BY <2>2
  <2> HIDE DEF Fine
  <2> QED
    BY <2>1, <2>3, Induction
<1>9. \A n \in 0 .. width : w[n] \in Nat
  BY <1>8
<1> QED
  BY <1>6, <1>7, <1>9 DEF bit

(* A shift takes them away from the lowest up. *)
LEMMA ShiftSteps ==
  ASSUME NEW n \in Nat, NEW word
  PROVE  \E s : /\ s[0] = word
                /\ \A k \in 1 .. n : s[k] = s[k - 1] \div 2
                /\ ShiftRight(word, n) = s[n]
<1> DEFINE Body(s) == [k \in 0 .. n |-> IF k = 0 THEN word ELSE s[k - 1] \div 2]
<1>1. \E s : s = Body(s)
  <2> DEFINE D(m, s) == [k \in 0 .. m |-> IF k = 0 THEN word ELSE s[k - 1] \div 2]
             S == {m \in Nat : \E s : s = D(m, s)}
  <2>1. 0 \in S
    <3> DEFINE g == [k \in 0 .. 0 |-> word]
    <3>1. g = D(0, g)
      OBVIOUS
    <3> QED
      BY <3>1
  <2>2. ASSUME NEW m \in Nat, NEW g, g = D(m, g)
        PROVE  \E h : h = D(m + 1, h)
    <3> DEFINE next == g[m] \div 2
               h == [k \in 0 .. m + 1 |-> IF k = m + 1 THEN next ELSE g[k]]
    <3> HIDE DEF next
    <3>1. ASSUME NEW k \in 0 .. m + 1
          PROVE  h[k] = IF k = 0 THEN word ELSE h[k - 1] \div 2
      <4>1. CASE k = m + 1
        <5>1. h[k - 1] = g[m] /\ h[k] = next /\ k # 0
          BY <4>1
        <5> QED
          BY <5>1, <4>1 DEF next
      <4>2. CASE k # m + 1
        <5>1. k \in 0 .. m /\ h[k] = g[k] /\ (k # 0 => h[k - 1] = g[k - 1])
          BY <4>2
        <5>2. g[k] = IF k = 0 THEN word ELSE g[k - 1] \div 2
          BY <2>2, <5>1
        <5> QED
          BY <5>1, <5>2
      <4> QED
        BY <4>1, <4>2
    <3>2. h = [k \in 0 .. m + 1 |-> h[k]]
      OBVIOUS
    <3> HIDE DEF h
    <3>3. [k \in 0 .. m + 1 |-> h[k]] = D(m + 1, h)
      BY <3>1
    <3> QED
      BY <3>2, <3>3
  <2>3. \A m \in Nat : m \in S => m + 1 \in S
    BY <2>2
  <2>4. Nat \subseteq S
    <3> HIDE DEF S
    <3> QED
      BY <2>1, <2>3, Induction
  <2> QED
    BY <2>4
<1> DEFINE s == CHOOSE s : s = Body(s)
<1>2. s = Body(s)
  BY <1>1
<1>3. ShiftRight(word, n) = s[n]
  BY DEF ShiftRight
<1> HIDE DEF s
<1> QED
  BY <1>2, <1>3

(* A word shifted by n has lost its n lowest bits. *)
LEMMA ShiftedWord ==
  ASSUME NEW width \in Nat, NEW S
  PROVE  \E u : /\ \A n \in 0 .. width : u[n] \in Nat
                /\ u[0] = 0
                /\ \A n \in 1 .. width :
                     u[n] = 2 * u[n - 1] + (IF width - n \in S THEN 1 ELSE 0)
                /\ \A n \in 0 .. width : ShiftRight(BitsOf(width, S), n) = u[width - n]
                /\ BitsOf(width, S) = u[width]
<1>1. PICK u : /\ \A n \in 0 .. width : u[n] \in Nat
               /\ u[0] = 0
               /\ \A n \in 1 .. width :
                    u[n] = 2 * u[n - 1] + (IF width - n \in S THEN 1 ELSE 0)
               /\ BitsOf(width, S) = u[width]
  BY UpperBits
<1>2. ASSUME NEW n \in 0 .. width
      PROVE  ShiftRight(u[width], n) = u[width - n]
  <2>1. PICK s : /\ s[0] = u[width]
                 /\ \A k \in 1 .. n : s[k] = s[k - 1] \div 2
                 /\ ShiftRight(u[width], n) = s[n]
    BY ShiftSteps
  <2> DEFINE Same == {k \in Nat : k <= n => s[k] = u[width - k]}
  <2>2. 0 \in Same
    BY <2>1
  <2>3. ASSUME NEW k \in Nat, k \in Same
        PROVE  k + 1 \in Same
    <3> SUFFICES ASSUME k + 1 <= n
                 PROVE  s[k + 1] = u[width - (k + 1)]
      OBVIOUS
    <3>1. s[k + 1] = s[k] \div 2 /\ s[k] = u[width - k]
      <4>1. k + 1 \in 1 .. n /\ (k + 1) - 1 = k
        OBVIOUS
      <4> QED
        BY <2>1, <2>3, <4>1
    <3> DEFINE m == width - k
               b == IF width - m \in S THEN 1 ELSE 0
    <3>2. m \in 1 .. width /\ m - 1 \in 0 .. width /\ width - (k + 1) = m - 1
      OBVIOUS
    <3>3. b \in 0 .. 1
      OBVIOUS
    <3>4. u[m] = 2 * u[m - 1] + b /\ u[m - 1] \in Nat
      <4> HIDE DEF m
      <4> QED
        BY <1>1, <3>2
    <3> HIDE DEF b
    <3>5. u[m] \div 2 = u[m - 1]
      <4> HIDE DEF m
      <4> QED
        BY <3>3, <3>4
    <3> QED
      BY <3>1, <3>2, <3>5
  <2>4. Nat \subseteq Same
    <3>1. \A k \in Nat : k \in Same => k + 1 \in Same
      BY <2>3
    <3> HIDE DEF Same
    <3> QED
      BY <2>2, <3>1, Induction
  <2> QED
    BY <2>1, <2>4
<1> QED
  BY <1>1, <1>2

(* The bit of a word at an exponent is set if the exponent is one of those the
   word was made of. *)
LEMMA BitsReadBack ==
  ASSUME NEW width \in Nat, NEW S, NEW e \in 0 .. width - 1
  PROVE  HasBit(BitsOf(width, S), e) <=> e \in S
<1>1. PICK u : /\ \A n \in 0 .. width : u[n] \in Nat
               /\ u[0] = 0
               /\ \A n \in 1 .. width :
                    u[n] = 2 * u[n - 1] + (IF width - n \in S THEN 1 ELSE 0)
               /\ \A n \in 0 .. width : ShiftRight(BitsOf(width, S), n) = u[width - n]
               /\ BitsOf(width, S) = u[width]
  BY ShiftedWord
<1> DEFINE m == width - e
<1>2. m \in 1 .. width /\ m - 1 \in 0 .. width /\ width - m = e /\ e \in 0 .. width
  OBVIOUS
<1>3. ShiftRight(BitsOf(width, S), e) = u[m]
  BY <1>1, <1>2
<1> HIDE DEF m
<1>4. u[m] = 2 * u[m - 1] + (IF e \in S THEN 1 ELSE 0) /\ u[m - 1] \in Nat
  BY <1>1, <1>2
<1> QED
  BY <1>3, <1>4 DEF HasBit

(* Above its highest bit a word is 0. *)
LEMMA NothingAbove ==
  ASSUME NEW width \in Nat, NEW S, NEW n \in 0 .. width,
         \A e \in n .. width - 1 : e \notin S
  PROVE  ShiftRight(BitsOf(width, S), n) = 0
<1>1. PICK u : /\ \A d \in 0 .. width : u[d] \in Nat
               /\ u[0] = 0
               /\ \A d \in 1 .. width :
                    u[d] = 2 * u[d - 1] + (IF width - d \in S THEN 1 ELSE 0)
               /\ \A d \in 0 .. width : ShiftRight(BitsOf(width, S), d) = u[width - d]
               /\ BitsOf(width, S) = u[width]
  BY ShiftedWord
<1> DEFINE Zero == {k \in Nat : k <= width - n => u[k] = 0}
<1>2. 0 \in Zero
  BY <1>1
<1>3. ASSUME NEW k \in Nat, k \in Zero
      PROVE  k + 1 \in Zero
  <2> SUFFICES ASSUME k + 1 <= width - n
               PROVE  u[k + 1] = 0
    OBVIOUS
  <2>1. /\ k + 1 \in 1 .. width
        /\ (k + 1) - 1 = k
        /\ width - (k + 1) \in n .. width - 1
        /\ u[k] = 0
    BY <1>3
  <2> QED
    BY <1>1, <2>1
<1>4. Nat \subseteq Zero
  <2>1. \A k \in Nat : k \in Zero => k + 1 \in Zero
    BY <1>3
  <2> HIDE DEF Zero
  <2> QED
    BY <1>2, <2>1, Induction
<1> QED
  BY <1>1, <1>4

(* Eight bits make a byte. *)
LEMMA ByteOfBits ==
  ASSUME NEW S
  PROVE  BitsOf(8, S) \in 0 .. 255
<1>1. PICK u : /\ \A n \in 0 .. 8 : u[n] \in Nat
               /\ u[0] = 0
               /\ \A n \in 1 .. 8 :
                    u[n] = 2 * u[n - 1] + (IF 8 - n \in S THEN 1 ELSE 0)
               /\ BitsOf(8, S) = u[8]
  BY UpperBits
<1> DEFINE b(n) == IF 8 - n \in S THEN 1 ELSE 0
<1>2. \A n \in 1 .. 8 : u[n] = 2 * u[n - 1] + b(n) /\ b(n) \in 0 .. 1
  BY <1>1
<1> HIDE DEF b
<1>3. /\ u[1] = 2 * u[0] + b(1) /\ u[2] = 2 * u[1] + b(2)
      /\ u[3] = 2 * u[2] + b(3) /\ u[4] = 2 * u[3] + b(4)
      /\ u[5] = 2 * u[4] + b(5) /\ u[6] = 2 * u[5] + b(6)
      /\ u[7] = 2 * u[6] + b(7) /\ u[8] = 2 * u[7] + b(8)
  BY <1>2
<1>4. /\ b(1) \in 0 .. 1 /\ b(2) \in 0 .. 1 /\ b(3) \in 0 .. 1 /\ b(4) \in 0 .. 1
      /\ b(5) \in 0 .. 1 /\ b(6) \in 0 .. 1 /\ b(7) \in 0 .. 1 /\ b(8) \in 0 .. 1
  BY <1>2
<1>5. u[0] = 0 /\ BitsOf(8, S) = u[8]
  BY <1>1
<1>6. u[4] \in 0 .. 15
  BY <1>3, <1>4, <1>5
<1>7. u[8] \in 0 .. 255
  BY <1>3, <1>4, <1>6
<1> QED
  BY <1>5, <1>7

(* Every status has a byte of its own. *)
LEMMA EncodeBitsInjective ==
  ASSUME NEW a \in SUBSET StatusBits, NEW b \in SUBSET StatusBits,
         EncodeBits(a, HdlBits) = EncodeBits(b, HdlBits)
  PROVE  a = b
<1>1. ASSUME NEW r \in SUBSET StatusBits, NEW x \in StatusBits
      PROVE  x \in r <=> HasBit(EncodeBits(r, HdlBits), HdlBits[x])
  <2>1. HdlBits[x] \in 0 .. 8 - 1
    BY HdlAssumption
  <2>2. HasBit(EncodeBits(r, HdlBits), HdlBits[x]) <=> HdlBits[x] \in {HdlBits[y] : y \in r}
    BY <2>1, BitsReadBack DEF EncodeBits
  <2> QED
    BY <2>2, HdlAssumption
<1> QED
  BY <1>1

(* The three parts of a key do not run into each other. *)
LEMMA EncodeKeyInjective ==
  ASSUME NEW o1, NEW s1, NEW b1, NEW o2, NEW s2, NEW b2,
         o1 \in 0 .. 255, s1 \in 0 .. 255, b1 \in 0 .. 255,
         o2 \in 0 .. 255, s2 \in 0 .. 255, b2 \in 0 .. 255,
         EncodeKey(o1, s1, b1) = EncodeKey(o2, s2, b2)
  PROVE  o1 = o2 /\ s1 = s2 /\ b1 = b2
<1> USE DEF EncodeKey
<1>1. o1 = o2
  OBVIOUS
<1>2. s1 = s2
  BY <1>1
<1> QED
  BY <1>1, <1>2

-----------------------------------------------------------------------------
(* The loader. *)

(* A word of known controls has no bit behind those of the order it is encoded
   by, and the order read by its bits gives the controls again. *)
LEMMA WordReadsBack ==
  ASSUME \A i, j \in DOMAIN HdlOrder : HdlOrder[i] = HdlOrder[j] => i = j,
         Len(HdlOrder) <= MAX_CONTROLS,
         NEW controls \in SUBSET Range(HdlOrder)
  PROVE  /\ ShiftRight(EncodeWord(controls), Len(HdlOrder)) = 0
         /\ {HdlOrder[i] : i \in {j \in 1 .. Len(HdlOrder) : HasBit(EncodeWord(controls), j - 1)}}
              = controls
<1> DEFINE count == Len(HdlOrder)
           exponents == {Index(HdlOrder, c) - 1 : c \in controls}
<1>1. count \in Nat /\ DOMAIN HdlOrder = 1 .. count /\ MAX_CONTROLS \in Nat
  BY HdlAssumption, BoundsAssumption
<1>2. ASSUME NEW i \in 1 .. count PROVE Index(HdlOrder, HdlOrder[i]) = i
  BY <1>1 DEF Index
<1>3. ASSUME NEW c \in controls
      PROVE  \E i \in 1 .. count : HdlOrder[i] = c /\ Index(HdlOrder, c) = i
  BY <1>1, <1>2 DEF Range
<1>4. ASSUME NEW e \in count .. MAX_CONTROLS - 1 PROVE e \notin exponents
  BY <1>1, <1>3
<1>5. ASSUME NEW i \in 1 .. count
      PROVE  i - 1 \in exponents <=> HdlOrder[i] \in controls
  BY <1>1, <1>2, <1>3
<1> HIDE DEF exponents
<1>6. EncodeWord(controls) = BitsOf(MAX_CONTROLS, exponents)
  BY DEF EncodeWord, exponents
<1>7. ShiftRight(EncodeWord(controls), count) = 0
  BY <1>1, <1>4, <1>6, NothingAbove
<1>8. ASSUME NEW i \in 1 .. count
      PROVE  HasBit(EncodeWord(controls), i - 1) <=> HdlOrder[i] \in controls
  <2>1. i - 1 \in 0 .. MAX_CONTROLS - 1
    BY <1>1
  <2> QED
    BY <1>1, <1>5, <1>6, <2>1, BitsReadBack
<1> QED
  BY <1>1, <1>3, <1>7, <1>8

(* The keys of the table are made of bytes and a status. *)
LEMMA TableKeys ==
  ASSUME CompilerInv, Compiled, ~TooLong(instruction_set), NEW key \in DOMAIN table
  PROVE  /\ key = <<key[1], key[2], key[3]>>
         /\ key[1] \in 0 .. 255
         /\ key[2] \in 0 .. 255
         /\ key[3] \in SUBSET StatusBits
<1>1. instruction_set.instructions \in Seq(Instruction) /\ table = TableOf(instruction_set)
  BY CompiledFacts
<1>2. PICK e \in Entries(instruction_set) : key = e.key
  BY <1>1 DEF TableOf
<1>3. PICK a, b, k, raised :
        /\ a \in DOMAIN instruction_set.instructions
        /\ b \in DOMAIN instruction_set.instructions[a].variants
        /\ k \in DOMAIN StepsOf(instruction_set, a, b)
        /\ raised \in Expand(instruction_set.instructions[a].variants[b].when)
        /\ e = [key |-> <<instruction_set.instructions[a].opcode, k - 1, raised>>,
                word |-> Controls(StepsOf(instruction_set, a, b)[k])]
  BY EntryIff
<1> DEFINE steps == StepsOf(instruction_set, a, b)
<1>4. key = <<instruction_set.instructions[a].opcode, k - 1, raised>>
  BY <1>2, <1>3
<1>5. steps \in Seq(Step) /\ Len(steps) <= MAX_STEPS
  <2>1. steps \in Seq(Step)
    BY <1>1, <1>3, SetTypes
  <2>2. steps \in StepLists(instruction_set)
    BY <1>3, InStepLists
  <2>3. Len(steps) <= MAX_STEPS
    BY <2>1, <2>2, BoundsAssumption DEF TooLong
  <2> QED
    BY <2>1, <2>3
<1>6. k - 1 \in 0 .. 255
  <2>1. k \in DOMAIN steps
    BY <1>3
  <2> HIDE DEF steps
  <2>2. k \in 1 .. Len(steps) /\ Len(steps) \in Nat
    BY <1>5, <2>1
  <2> QED
    BY <1>5, <2>2, BoundsAssumption
<1>7. instruction_set.instructions[a].opcode \in 0 .. 255
  <2>1. instruction_set.instructions[a] \in Instruction
    BY <1>1, <1>3
  <2> QED
    BY <2>1 DEF Instruction
<1>8. raised \in SUBSET StatusBits
  BY <1>3 DEF Expand
<1> QED
  BY <1>4, <1>6, <1>7, <1>8

LEMMA KeysApart ==
  ASSUME NEW o1, NEW s1, NEW r1, NEW o2, NEW s2, NEW r2,
         o1 \in 0 .. 255, s1 \in 0 .. 255, r1 \in SUBSET StatusBits,
         o2 \in 0 .. 255, s2 \in 0 .. 255, r2 \in SUBSET StatusBits,
         EncodeKey(o1, s1, EncodeBits(r1, HdlBits)) = EncodeKey(o2, s2, EncodeBits(r2, HdlBits))
  PROVE  o1 = o2 /\ s1 = s2 /\ r1 = r2
<1>1. \A r : EncodeBits(r, HdlBits) \in 0 .. 255
  BY ByteOfBits DEF EncodeBits
<1>2. PICK b1 \in 0 .. 255, b2 \in 0 .. 255 :
        b1 = EncodeBits(r1, HdlBits) /\ b2 = EncodeBits(r2, HdlBits)
  BY <1>1
<1>3. EncodeKey(o1, s1, b1) = EncodeKey(o2, s2, b2)
  BY <1>2
<1>4. o1 = o2 /\ s1 = s2 /\ b1 = b2
  BY <1>3, EncodeKeyInjective
<1> QED
  BY <1>2, <1>4, EncodeBitsInjective

(* The key of an entry in bytes. *)
AddressOf(key) == EncodeKey(key[1], key[2], EncodeBits(key[3], HdlBits))
LastAddress == EncodeKey(255, 255, 255)

LEMMA EncodeKeyBound ==
  ASSUME NEW o \in 0 .. 255, NEW s \in 0 .. 255, NEW b \in 0 .. 255
  PROVE  EncodeKey(o, s, b) \in 0 .. LastAddress
<1> DEFINE high(n) == n * 65536
           middle(n) == n * 256
<1>1. high(o) \in Int /\ high(255) \in Int /\ 0 <= high(o) /\ high(o) <= high(255)
  OBVIOUS
<1>2. middle(s) \in Int /\ middle(255) \in Int /\ 0 <= middle(s) /\ middle(s) <= middle(255)
  OBVIOUS
<1>3. /\ EncodeKey(o, s, b) = high(o) + middle(s) + b
      /\ LastAddress = high(255) + middle(255) + 255
  BY DEF EncodeKey, LastAddress
<1> HIDE DEF high, middle
<1> QED
  BY <1>1, <1>2, <1>3

(* The encoded table has the word of every entry at its address. *)
LEMMA EncodedEntries ==
  ASSUME CompilerInv, Compiled, ~TooLong(instruction_set)
  PROVE  /\ DOMAIN EncodedTable = {AddressOf(key) : key \in DOMAIN table}
         /\ \A key \in DOMAIN table :
              /\ AddressOf(key) \in 0 .. LastAddress
              /\ EncodedTable[AddressOf(key)] = EncodeWord(table[key])
<1>1. EncodedTable = [a \in {AddressOf(key) : key \in DOMAIN table} |->
                        EncodeWord(table[CHOOSE key \in DOMAIN table : AddressOf(key) = a])]
  BY DEF EncodedTable, AddressOf
<1>2. \A r : EncodeBits(r, HdlBits) \in 0 .. 255
  BY ByteOfBits DEF EncodeBits
<1>3. ASSUME NEW key \in DOMAIN table, NEW other \in DOMAIN table,
             AddressOf(key) = AddressOf(other)
      PROVE  key = other
  <2>1. /\ key = <<key[1], key[2], key[3]>> /\ other = <<other[1], other[2], other[3]>>
        /\ key[1] \in 0 .. 255 /\ key[2] \in 0 .. 255 /\ key[3] \in SUBSET StatusBits
        /\ other[1] \in 0 .. 255 /\ other[2] \in 0 .. 255 /\ other[3] \in SUBSET StatusBits
    BY TableKeys
  <2>2. EncodeKey(key[1], key[2], EncodeBits(key[3], HdlBits))
          = EncodeKey(other[1], other[2], EncodeBits(other[3], HdlBits))
    BY <1>3 DEF AddressOf
  <2>3. key[1] = other[1] /\ key[2] = other[2] /\ key[3] = other[3]
    BY <2>1, <2>2, KeysApart
  <2> QED
    BY <2>1, <2>3
<1>4. ASSUME NEW key \in DOMAIN table
      PROVE  AddressOf(key) \in 0 .. LastAddress
  <2>1. key[1] \in 0 .. 255 /\ key[2] \in 0 .. 255
    BY TableKeys
  <2> DEFINE s == EncodeBits(key[3], HdlBits)
  <2>2. s \in 0 .. 255
    BY <1>2
  <2>3. AddressOf(key) = EncodeKey(key[1], key[2], s)
    BY DEF AddressOf
  <2> HIDE DEF s
  <2>4. EncodeKey(key[1], key[2], s) \in 0 .. LastAddress
    BY <2>1, <2>2, EncodeKeyBound
  <2> QED
    BY <2>3, <2>4
<1>5. ASSUME NEW key \in DOMAIN table
      PROVE  EncodedTable[AddressOf(key)] = EncodeWord(table[key])
  <2>1. (CHOOSE other \in DOMAIN table : AddressOf(other) = AddressOf(key)) = key
    <3> HIDE DEF AddressOf
    <3> QED
      BY <1>3
  <2> QED
    BY <1>1, <2>1
<1> QED
  BY <1>1, <1>4, <1>5

(* The inductive invariant of the loader. *)
Encoded ==
  /\ Compiled
  /\ Len(HdlOrder) <= MAX_CONTROLS
  /\ UNION Range(table) \subseteq Range(HdlOrder)
  /\ program = [table |-> EncodedTable, control_paths |-> HdlOrder, status_bits |-> HdlBits]
Loaded ==
  /\ InitializeControls(cpu)
  /\ InitializeStatuses(cpu)
  /\ memory = [size |-> Max(DOMAIN program.table \cup {0}) + 1, words |-> program.table]
LoaderInv ==
  /\ CompilerInv
  /\ Compiled => ~TooLong(instruction_set)
  /\ phase \in {"construct", "load", "run"} => Encoded
  /\ phase \in {"load", "run"} => ValidCpu(cpu)
  /\ phase = "run" => Loaded

(* Encode refuses what is too long, and nothing happens to the compiler once
   it has compiled. *)
LEMMA CompileSteps ==
  ASSUME LoaderInv, [Next]_vars
  PROVE  /\ CompilerInv'
         /\ Compiled' => ~TooLong(instruction_set')
         /\ Compiled => UNCHANGED vars
<1>0. CompilerInv /\ pass \in 1 .. 12
  BY DEF LoaderInv, CompilerInv, TypeInv
<1>1. CompilerInv'
  BY <1>0, CompilerInvKept
<1>2. Compiled => UNCHANGED vars
  <2> SUFFICES ASSUME Compiled, Next PROVE FALSE
    OBVIOUS
  <2>1. \A name : ~At(name)
    BY DEF At
  <2> QED
    BY <2>1 DEF Next, FetchTransformer, FetchValidator, SequenceTransformer, RunAllValidators,
      EmptyStepOptimizer, DuplicateStepOptimizer, StepMergingOptimizer, Encode, Rewrite, Validate
<1>3. Compiled' => ~TooLong(instruction_set')
  <2> SUFFICES ASSUME Compiled' PROVE ~TooLong(instruction_set')
    OBVIOUS
  <2>1. CASE Compiled
    BY <1>2, <2>1 DEF LoaderInv, vars, TooLong, StepLists
  <2>2. CASE ~Compiled
    <3>1. pass \in 1 .. 11 /\ pass' = 12
      BY <1>0, <1>1, <2>2 DEF Compiled, Passes, CompilerInv, TypeInv
    <3>2. Next
      BY <3>1 DEF vars
    <3>3. Encode
      BY <3>1, <3>2, PassNames, <1>0 DEF Next, FetchTransformer, FetchValidator,
        SequenceTransformer, RunAllValidators, EmptyStepOptimizer, DuplicateStepOptimizer,
        StepMergingOptimizer, Rewrite, Validate
    <3>4. ~error'
      BY <3>1, <3>3 DEF Encode
    <3>5. ~TooLong(instruction_set) /\ instruction_set' = instruction_set
      BY <3>3, <3>4, Zenon DEF Encode
    <3> QED
      BY <3>5 DEF TooLong, StepLists
  <2> QED
    BY <2>1, <2>2
<1> QED
  BY <1>1, <1>2, <1>3

LEMMA LoaderInvInit == LoaderInit => LoaderInv
<1> SUFFICES ASSUME LoaderInit PROVE LoaderInv
  OBVIOUS
<1>1. CompilerInv
  BY CompilerInvInit DEF LoaderInit
<1>2. ~Compiled
  BY DEF LoaderInit, Init, Compiled, Passes
<1> QED
  BY <1>1, <1>2 DEF LoaderInit, LoaderInv

LEMMA LoaderInvKept == LoaderInv /\ [LoaderNext]_allVars => LoaderInv'
<1> SUFFICES ASSUME LoaderInv, [LoaderNext]_allVars PROVE LoaderInv'
  OBVIOUS
<1>1. [Next]_vars
  BY DEF LoaderNext, Compile, EncodeProgram, ConstructCpu, LoadProgram, allVars
<1>2. /\ CompilerInv'
      /\ Compiled' => ~TooLong(instruction_set')
      /\ Compiled => UNCHANGED vars
  BY <1>1, CompileSteps
<1>3. ASSUME Encoded, program' = program
      PROVE  Encoded'
  BY <1>2, <1>3 DEF Encoded, vars, Compiled, EncodedTable
<1>4. CASE Compile \/ UNCHANGED allVars
  <2>1. UNCHANGED loaderVars
    BY <1>4 DEF Compile, allVars
  <2>2. phase' \in {"construct", "load", "run"} => Encoded'
    BY <1>3, <2>1 DEF LoaderInv, loaderVars
  <2>3. phase' \in {"load", "run"} => ValidCpu(cpu)'
    BY <2>1 DEF LoaderInv, loaderVars, ValidCpu
  <2>4. phase' = "run" => Loaded'
    BY <2>1 DEF LoaderInv, loaderVars, Loaded, InitializeControls, InitializeStatuses
  <2> QED
    BY <1>2, <2>2, <2>3, <2>4 DEF LoaderInv
<1>5. CASE EncodeProgram
  <2>1. phase' \in {"construct", "error"}
    BY <1>5 DEF EncodeProgram
  <2>2. EncodedTable' = EncodedTable /\ pass' = pass /\ table' = table
    BY <1>5 DEF EncodeProgram, vars, EncodedTable
  <2>3. phase' = "construct" =>
          /\ Compiled
          /\ Len(HdlOrder) <= MAX_CONTROLS
          /\ UNION Range(table) \subseteq Range(HdlOrder)
          /\ program' = [table |-> EncodedTable, control_paths |-> HdlOrder,
                         status_bits |-> HdlBits]
    <3>1. Len(HdlOrder) \in Int /\ MAX_CONTROLS \in Int
      BY HdlAssumption, BoundsAssumption
    <3> QED
      BY <1>5, <3>1 DEF EncodeProgram
  <2>4. phase' = "construct" => Encoded'
    BY <2>2, <2>3 DEF Encoded, Compiled
  <2> QED
    BY <1>2, <2>1, <2>4 DEF LoaderInv
<1>6. CASE ConstructCpu
  <2>1. /\ phase' \in {"load", "error"}
        /\ phase' = "load" => ValidCpu(cpu')
        /\ Encoded /\ program' = program
    BY <1>6 DEF ConstructCpu, LoaderInv
  <2>2. Encoded'
    BY <1>3, <2>1
  <2>3. ValidCpu(cpu)' = ValidCpu(cpu')
    BY DEF ValidCpu
  <2> QED
    BY <1>2, <2>1, <2>2, <2>3 DEF LoaderInv
<1>7. CASE LoadProgram
  <2>1. /\ phase' \in {"run", "error"}
        /\ Encoded /\ program' = program
        /\ ValidCpu(cpu) /\ cpu' = cpu
    BY <1>7 DEF LoadProgram, LoaderInv
  <2>2. Encoded' /\ ValidCpu(cpu)'
    BY <1>3, <2>1 DEF ValidCpu
  <2>3. phase' = "run" => Loaded'
    BY <1>7, <2>1 DEF LoadProgram, Loaded, InitializeControls, InitializeStatuses
  <2> QED
    BY <1>2, <2>1, <2>2, <2>3 DEF LoaderInv
<1> QED
  BY <1>4, <1>5, <1>6, <1>7 DEF LoaderNext

(* The controls of an entry, as the simulator finds them. *)
LEMMA LookupReadsBack ==
  ASSUME LoaderInv, phase = "run", NEW key \in DOMAIN table
  PROVE  Lookup(key[1], key[2], key[3]) = [ok |-> TRUE, controls |-> table[key]]
<1>0. CompilerInv /\ Compiled /\ ~TooLong(instruction_set) /\ Encoded /\ Loaded /\ ValidCpu(cpu)
  BY DEF LoaderInv, Encoded
<1>1. /\ Len(HdlOrder) <= MAX_CONTROLS
      /\ UNION Range(table) \subseteq Range(HdlOrder)
      /\ program.table = EncodedTable
      /\ program.control_paths = HdlOrder
      /\ program.status_bits = HdlBits
  BY <1>0 DEF Encoded
<1>10. memory.size = Max(DOMAIN EncodedTable \cup {0}) + 1 /\ memory.words = EncodedTable
  BY <1>0, <1>1 DEF Loaded
<1>2. /\ cpu.controls = HdlOrder
      /\ \A i, j \in DOMAIN HdlOrder : HdlOrder[i] = HdlOrder[j] => i = j
      /\ \A b \in StatusBits : cpu.bits[b] = HdlBits[b]
  BY <1>0, <1>1, HdlAssumption DEF Loaded, InitializeControls, InitializeStatuses, ValidCpu
<1> DEFINE address == AddressOf(key)
<1>3. EncodeKey(key[1], key[2], EncodeStatus(key[3])) = address
  <2>1. key[3] \in SUBSET StatusBits
    BY <1>0, TableKeys
  <2>2. key[3] \cap DOMAIN program.status_bits = key[3]
    BY <1>1, <2>1, HdlAssumption
  <2>3. {cpu.bits[b] : b \in key[3]} = {HdlBits[b] : b \in key[3]}
    BY <1>2, <2>1
  <2> QED
    BY <2>2, <2>3 DEF EncodeStatus, EncodeBits, AddressOf
<1>4. /\ DOMAIN EncodedTable = {AddressOf(k) : k \in DOMAIN table}
      /\ \A k \in DOMAIN table : AddressOf(k) \in 0 .. LastAddress
      /\ EncodedTable[address] = EncodeWord(table[key])
  BY <1>0, EncodedEntries
<1>5. address \in DOMAIN memory.words /\ memory.words[address] = EncodeWord(table[key])
  BY <1>10, <1>4
<1>6. ~(address >= memory.size)
  <2> DEFINE S == DOMAIN EncodedTable \cup {0}
             b == LastAddress
  <2>1. S \in SUBSET (0 .. b) /\ address \in S /\ b \in Nat
    <3>1. b \in Nat
      BY DEF LastAddress, EncodeKey
    <3> HIDE DEF AddressOf, b
    <3>2. address \in S
      BY <1>4
    <3>3. S \in SUBSET (0 .. b)
      BY <1>4, <3>1 DEF b
    <3> QED
      BY <3>1, <3>2, <3>3
  <2>2. memory.size = Max(S) + 1
    BY <1>10
  <2> HIDE DEF S, b, address
  <2>3. Max(S) \in S /\ Max(S) >= address
    BY <2>1, MaxIsLargest
  <2>4. Max(S) \in Int /\ address \in Int
    <3>1. \A x \in S : x \in Int
      BY <2>1
    <3> QED
      BY <2>1, <2>3, <3>1
  <2> QED
    BY <2>2, <2>3, <2>4
<1>7. table[key] \in SUBSET Range(HdlOrder)
  BY <1>1 DEF Range
<1>8. /\ ShiftRight(EncodeWord(table[key]), Len(HdlOrder)) = 0
      /\ {HdlOrder[i] : i \in {j \in 1 .. Len(HdlOrder) :
                                 HasBit(EncodeWord(table[key]), j - 1)}} = table[key]
  BY <1>1, <1>2, <1>7, WordReadsBack
<1> HIDE DEF address
<1>9. /\ ShiftRight(memory.words[address], Len(cpu.controls)) = 0
      /\ {cpu.controls[i] : i \in {j \in 1 .. Len(cpu.controls) :
                                   HasBit(memory.words[address], j - 1)}} = table[key]
  BY <1>2, <1>5, <1>8
<1> QED
  BY <1>3, <1>5, <1>6, <1>9 DEF Lookup

(* A Cpu that has been constructed asserts the controls of the microcode: the
   whole way of ControlEncoder, InstructionEncoder, InstructionMemory and back,
   for every description of the hardware, every program and every Cpu. *)
THEOREM CompiledControlsArrive == LoaderSpec => []ControlsArrive
<1>1. LoaderInv => ControlsArrive
  <2> SUFFICES ASSUME LoaderInv, phase = "run", NEW key \in DOMAIN table
               PROVE  Lookup(key[1], key[2], key[3]) = [ok |-> TRUE, controls |-> table[key]]
    BY DEF ControlsArrive
  <2> QED
    BY LookupReadsBack
<1> QED
  BY <1>1, LoaderInvInit, LoaderInvKept, PTL DEF LoaderSpec

-----------------------------------------------------------------------------
(* The dump, line by line. *)

(* The last line of a kind among the first i, 0 if there is none. *)
LastOf(lines, i, kind) == Max({j \in 1 .. i : lines[j].kind = kind} \cup {0})
Reading(lines, i) ==
  <<IF LastOf(lines, i, "opcode") = 0 THEN -1 ELSE lines[LastOf(lines, i, "opcode")].opcode,
    lines[i].step,
    IF LastOf(lines, i, "status") = 0 THEN {} ELSE lines[LastOf(lines, i, "status")].name,
    lines[i].controls>>

(* What a step is read under if it comes next. *)
OpcodeShown(lines, opcode) ==
  LET i == LastOf(lines, Len(lines), "opcode")
  IN  i # 0 /\ lines[i].opcode = opcode
StatusShown(lines, name) ==
  LET i == LastOf(lines, Len(lines), "status")
  IN  i # 0 /\ lines[i].name = name

LEMMA LastIsThere ==
  ASSUME NEW lines, NEW i \in Nat, NEW kind
  PROVE  /\ LastOf(lines, i, kind) \in 0 .. i
         /\ LastOf(lines, i, kind) # 0 => lines[LastOf(lines, i, kind)].kind = kind
         /\ \A j \in 1 .. i : lines[j].kind = kind => LastOf(lines, i, kind) >= j
<1> DEFINE S == {j \in 1 .. i : lines[j].kind = kind} \cup {0}
<1>1. S \in SUBSET (0 .. i) /\ 0 \in S
  OBVIOUS
<1>2. Max(S) \in S /\ \A j \in S : Max(S) >= j
  <2> HIDE DEF S
  <2> QED
    BY <1>1, MaxIsLargest
<1>3. LastOf(lines, i, kind) = Max(S)
  BY DEF LastOf
<1> DEFINE m == Max(S)
<1>4. m \in S /\ LastOf(lines, i, kind) = m /\ \A j \in S : m >= j
  BY <1>2, <1>3
<1> HIDE DEF m
<1> QED
  BY <1>1, <1>4

(* One more line changes nothing for those before it. *)
LEMMA LastKept ==
  ASSUME NEW S, NEW lines \in Seq(S), NEW line \in S, NEW kind
  PROVE  /\ \A i \in 1 .. Len(lines) :
              LastOf(Append(lines, line), i, kind) = LastOf(lines, i, kind)
         /\ LastOf(Append(lines, line), Len(lines) + 1, kind)
              = IF line.kind = kind THEN Len(lines) + 1 ELSE LastOf(lines, Len(lines), kind)
<1> DEFINE more == Append(lines, line)
           n == Len(lines)
<1>1. n \in Nat /\ (\A j \in 1 .. n : more[j] = lines[j]) /\ more[n + 1] = line
  OBVIOUS
<1> HIDE DEF more, n
<1>2. ASSUME NEW i \in 1 .. n
      PROVE  LastOf(more, i, kind) = LastOf(lines, i, kind)
  <2>1. {j \in 1 .. i : more[j].kind = kind} = {j \in 1 .. i : lines[j].kind = kind}
    BY <1>1
  <2> QED
    BY <2>1 DEF LastOf
<1>3. CASE line.kind = kind
  <2> DEFINE m == LastOf(more, n + 1, kind)
  <2>1. m \in 0 .. n + 1 /\ m >= n + 1
    BY <1>1, <1>3, LastIsThere
  <2> HIDE DEF m
  <2>2. m = n + 1
    BY <1>1, <2>1
  <2> QED
    BY <1>2, <1>3, <2>2 DEF m, more, n
<1>4. CASE line.kind # kind
  <2>1. {j \in 1 .. n + 1 : more[j].kind = kind} = {j \in 1 .. n : lines[j].kind = kind}
    <3>1. \A j \in 1 .. n + 1 : j \in 1 .. n \/ j = n + 1
      BY <1>1
    <3>2. \A j \in 1 .. n : j \in 1 .. n + 1
      BY <1>1
    <3> QED
      BY <1>1, <1>4, <3>1, <3>2
  <2>2. LastOf(more, n + 1, kind) = LastOf(lines, n, kind)
    BY <2>1 DEF LastOf
  <2> QED
    BY <1>2, <1>4, <2>2 DEF more, n
<1> QED
  BY <1>3, <1>4

LEMMA ReadingKept ==
  ASSUME NEW S, NEW lines \in Seq(S), NEW line \in S, NEW i \in 1 .. Len(lines)
  PROVE  /\ Append(lines, line)[i] = lines[i]
         /\ Reading(Append(lines, line), i) = Reading(lines, i)
<1> DEFINE more == Append(lines, line)
           n == Len(lines)
<1>1. n \in Nat /\ \A j \in 1 .. n : more[j] = lines[j]
  OBVIOUS
<1>2. /\ LastOf(more, i, "opcode") = LastOf(lines, i, "opcode")
      /\ LastOf(more, i, "status") = LastOf(lines, i, "status")
  BY LastKept
<1> DEFINE o == LastOf(lines, i, "opcode")
           s == LastOf(lines, i, "status")
<1>3. o \in 0 .. i /\ s \in 0 .. i
  BY LastIsThere
<1> HIDE DEF more, n, o, s
<1>4. i \in 1 .. n
  BY DEF n
<1>5. (o # 0 => o \in 1 .. n) /\ (s # 0 => s \in 1 .. n)
  BY <1>1, <1>3, <1>4
<1>6. more[i] = lines[i] /\ (o # 0 => more[o] = lines[o]) /\ (s # 0 => more[s] = lines[s])
  BY <1>1, <1>4, <1>5
<1>7. LastOf(more, i, "opcode") = o /\ LastOf(more, i, "status") = s
      /\ LastOf(lines, i, "opcode") = o /\ LastOf(lines, i, "status") = s
  BY <1>2 DEF o, s
<1>8. Reading(more, i) = Reading(lines, i)
  BY <1>6, <1>7 DEF Reading
<1> QED
  BY <1>6, <1>8 DEF more

(* A header is no entry. *)
LEMMA DumpIsReadings ==
  ASSUME NEW lines
  PROVE  ReadDump(lines) = {Reading(lines, i) : i \in {j \in DOMAIN lines : lines[j].kind = "step"}}
  BY DEF ReadDump, Reading, LastOf

LEMMA HeaderAdded ==
  ASSUME NEW S, NEW lines \in Seq(S), NEW line \in S, line.kind # "step"
  PROVE  ReadDump(Append(lines, line)) = ReadDump(lines)
<1> DEFINE more == Append(lines, line)
           n == Len(lines)
<1>1. n \in Nat /\ DOMAIN lines = 1 .. n /\ DOMAIN more = 1 .. n + 1 /\ more[n + 1] = line
  OBVIOUS
<1>2. \A i \in 1 .. n : more[i] = lines[i] /\ Reading(more, i) = Reading(lines, i)
  BY ReadingKept
<1> HIDE DEF more, n
<1>3. {j \in DOMAIN more : more[j].kind = "step"} = {j \in DOMAIN lines : lines[j].kind = "step"}
  <2>1. \A j \in 1 .. n + 1 : j \in 1 .. n \/ j = n + 1
    BY <1>1
  <2>2. \A j \in 1 .. n : j \in 1 .. n + 1
    BY <1>1
  <2> QED
    BY <1>1, <1>2, <2>1, <2>2
<1>4. ReadDump(more) = ReadDump(lines)
  BY <1>1, <1>2, <1>3, DumpIsReadings
<1> QED
  BY <1>4 DEF more

LEMMA StepAdded ==
  ASSUME NEW S, NEW lines \in Seq(S), NEW line \in S, line.kind = "step",
         NEW opcode, OpcodeShown(lines, opcode), NEW name, StatusShown(lines, name)
  PROVE  ReadDump(Append(lines, line))
           = ReadDump(lines) \cup {<<opcode, line.step, name, line.controls>>}
<1> DEFINE more == Append(lines, line)
           n == Len(lines)
<1>1. n \in Nat /\ DOMAIN lines = 1 .. n /\ DOMAIN more = 1 .. n + 1 /\ more[n + 1] = line
      /\ \A i \in 1 .. n : more[i] = lines[i]
  OBVIOUS
<1>2. \A i \in 1 .. n : more[i] = lines[i] /\ Reading(more, i) = Reading(lines, i)
  BY ReadingKept
<1> DEFINE o == LastOf(lines, n, "opcode")
           s == LastOf(lines, n, "status")
<1>3. LastOf(more, n + 1, "opcode") = o /\ LastOf(more, n + 1, "status") = s
  BY LastKept
<1>4. o \in 0 .. n /\ s \in 0 .. n /\ o # 0 /\ s # 0
      /\ lines[o].opcode = opcode /\ lines[s].name = name
  BY <1>1, LastIsThere DEF OpcodeShown, StatusShown
<1> HIDE DEF more, n, o, s
<1>5. o \in 1 .. n /\ s \in 1 .. n
  BY <1>1, <1>4
<1>6. Reading(more, n + 1) = <<opcode, line.step, name, line.controls>>
  BY <1>1, <1>3, <1>4, <1>5 DEF Reading
<1>7. {j \in DOMAIN more : more[j].kind = "step"}
        = {j \in DOMAIN lines : lines[j].kind = "step"} \cup {n + 1}
  <2>1. \A j \in 1 .. n + 1 : j \in 1 .. n \/ j = n + 1
    BY <1>1
  <2>2. (\A j \in 1 .. n : j \in 1 .. n + 1) /\ n + 1 \in 1 .. n + 1
    BY <1>1
  <2> QED
    BY <1>1, <2>1, <2>2
<1> DEFINE steps == {j \in DOMAIN lines : lines[j].kind = "step"}
<1>8. ReadDump(more) = {Reading(more, i) : i \in steps \cup {n + 1}}
  BY <1>7, DumpIsReadings
<1>9. ReadDump(lines) = {Reading(more, i) : i \in steps}
  BY <1>1, <1>2, DumpIsReadings
<1> HIDE DEF steps
<1>10. ReadDump(more) = ReadDump(lines) \cup {Reading(more, n + 1)}
  BY <1>8, <1>9
<1> QED
  BY <1>6, <1>10 DEF more

(* Which headers a line leaves in force. *)
LEMMA HeadersKept ==
  ASSUME NEW S, NEW lines \in Seq(S), NEW line \in S
  PROVE  /\ line.kind = "opcode" => OpcodeShown(Append(lines, line), line.opcode)
         /\ line.kind = "status" => StatusShown(Append(lines, line), line.name)
         /\ \A opcode : line.kind # "opcode" /\ OpcodeShown(lines, opcode)
                          => OpcodeShown(Append(lines, line), opcode)
         /\ \A name : line.kind # "status" /\ StatusShown(lines, name)
                        => StatusShown(Append(lines, line), name)
<1> DEFINE more == Append(lines, line)
           n == Len(lines)
<1>1. n \in Nat /\ Len(more) = n + 1 /\ more[n + 1] = line /\ \A i \in 1 .. n : more[i] = lines[i]
  OBVIOUS
<1>2. \A kind : /\ LastOf(more, n + 1, kind)
                     = IF line.kind = kind THEN n + 1 ELSE LastOf(lines, n, kind)
                /\ LastOf(lines, n, kind) \in 0 .. n
  BY <1>1, LastKept, LastIsThere
<1>3. \A opcode : OpcodeShown(lines, opcode)
        => /\ LastOf(lines, n, "opcode") # 0
           /\ lines[LastOf(lines, n, "opcode")].opcode = opcode
  BY DEF OpcodeShown
<1>4. \A name : StatusShown(lines, name)
        => /\ LastOf(lines, n, "status") # 0
           /\ lines[LastOf(lines, n, "status")].name = name
  BY DEF StatusShown
<1> HIDE DEF more, n
<1>5. \A k \in 0 .. n : k # 0 => k \in 1 .. n
  BY <1>1
<1>6. n + 1 # 0
  BY <1>1
<1>7. line.kind = "opcode" => OpcodeShown(more, line.opcode)
  BY <1>1, <1>2, <1>6 DEF OpcodeShown
<1>8. line.kind = "status" => StatusShown(more, line.name)
  BY <1>1, <1>2, <1>6 DEF StatusShown
<1>9. ASSUME NEW opcode, line.kind # "opcode", OpcodeShown(lines, opcode)
      PROVE  OpcodeShown(more, opcode)
  BY <1>1, <1>2, <1>3, <1>5, <1>9 DEF OpcodeShown
<1>10. ASSUME NEW name, line.kind # "status", StatusShown(lines, name)
       PROVE  StatusShown(more, name)
  BY <1>1, <1>2, <1>4, <1>5, <1>10 DEF StatusShown
<1> QED
  BY <1>7, <1>8, <1>9, <1>10 DEF more

-----------------------------------------------------------------------------
(* The keys in the order of a dump. *)

Bytewise ==
  {k \in 0 .. LastAddress : \E o, s, b \in 0 .. 255 : k = EncodeKey(o, s, b)}

LEMMA KeyReadsBack ==
  ASSUME NEW o \in 0 .. 255, NEW s \in 0 .. 255, NEW b \in 0 .. 255
  PROVE  DecodeKey(EncodeKey(o, s, b)) = [opcode |-> o, step |-> s, status |-> b]
<1> DEFINE rest == s * 256 + b
           k == o * 65536 + rest
           above == o * 256 + s
<1>1. rest \in Int /\ 0 <= rest /\ rest < 65536
  OBVIOUS
<1>2. k \div 65536 = o /\ k \in Int
  <2> HIDE DEF rest
  <2> QED
    BY <1>1
<1>3. k = above * 256 + b /\ above \in Int
  OBVIOUS
<1>4. k \div 256 = above /\ k % 256 = b
  <2> HIDE DEF k, above
  <2> QED
    BY <1>3
<1>5. above % 256 = s
  OBVIOUS
<1>6. EncodeKey(o, s, b) = k
  BY DEF EncodeKey
<1>7. o % 256 = o
  OBVIOUS
<1> HIDE DEF rest, k, above
<1> QED
  BY <1>2, <1>4, <1>5, <1>6, <1>7 DEF DecodeKey

LEMMA KeysAreOrdered ==
  ASSUME NEW i \in Bytewise, NEW j \in Bytewise, NEW k \in Bytewise
  PROVE  /\ ~Before(i, i)
         /\ Before(i, j) /\ Before(j, k) => Before(i, k)
         /\ i # j => Before(i, j) \/ Before(j, i)
         /\ Before(i, j) => DecodeKey(i).opcode <= DecodeKey(j).opcode
         /\ DecodeKey(i).opcode \in 0 .. 255
         /\ DecodeKey(i).status \in 0 .. 255
         /\ i = EncodeKey(DecodeKey(i).opcode, DecodeKey(i).step, DecodeKey(i).status)
<1>1. ASSUME NEW m \in Bytewise
      PROVE  /\ DecodeKey(m).opcode \in 0 .. 255 /\ DecodeKey(m).step \in 0 .. 255
             /\ DecodeKey(m).status \in 0 .. 255
             /\ m = EncodeKey(DecodeKey(m).opcode, DecodeKey(m).step, DecodeKey(m).status)
  <2>1. PICK o \in 0 .. 255, s \in 0 .. 255, b \in 0 .. 255 : m = EncodeKey(o, s, b)
    BY DEF Bytewise
  <2>2. DecodeKey(m) = [opcode |-> o, step |-> s, status |-> b]
    BY <2>1, KeyReadsBack
  <2> QED
    BY <2>1, <2>2
<1>2. i # j => \/ DecodeKey(i).opcode # DecodeKey(j).opcode
               \/ DecodeKey(i).step # DecodeKey(j).step
               \/ DecodeKey(i).status # DecodeKey(j).status
  BY <1>1
<1> DEFINE a == DecodeKey(i)
           b == DecodeKey(j)
           c == DecodeKey(k)
<1>3. /\ a.opcode \in Int /\ a.step \in Int /\ a.status \in Int
      /\ b.opcode \in Int /\ b.step \in Int /\ b.status \in Int
      /\ c.opcode \in Int /\ c.step \in Int /\ c.status \in Int
  <2>1. \A x \in 0 .. 255 : x \in Int
    OBVIOUS
  <2> QED
    BY <1>1, <2>1, Zenon
<1>4. i # j => a.opcode # b.opcode \/ a.step # b.step \/ a.status # b.status
  BY <1>2
<1>5. \A x, y : Before(x, y) <=>
        \/ DecodeKey(x).opcode < DecodeKey(y).opcode
        \/ DecodeKey(x).opcode = DecodeKey(y).opcode /\ DecodeKey(x).status < DecodeKey(y).status
        \/ /\ DecodeKey(x).opcode = DecodeKey(y).opcode
           /\ DecodeKey(x).status = DecodeKey(y).status
           /\ DecodeKey(x).step < DecodeKey(y).step
  BY DEF Before
<1>6. ~Before(i, i)
  BY <1>3, <1>5
<1>7. Before(i, j) /\ Before(j, k) => Before(i, k)
  BY <1>3, <1>5
<1>8. i # j => Before(i, j) \/ Before(j, i)
  BY <1>3, <1>4, <1>5
<1>9. Before(i, j) => a.opcode <= b.opcode
  BY <1>3, <1>5
<1> QED
  BY <1>1, <1>6, <1>7, <1>8, <1>9

LEMMA SortedInOrder ==
  ASSUME NEW keys \in SUBSET Bytewise, IsFiniteSet(keys)
  PROVE  /\ Cardinality(keys) \in Nat
         /\ Sorted(keys) \in [1 .. Cardinality(keys) -> keys]
         /\ \A k \in keys : \E i \in 1 .. Cardinality(keys) : Sorted(keys)[i] = k
         /\ \A i, j \in 1 .. Cardinality(keys) : i < j => Before(Sorted(keys)[i], Sorted(keys)[j])
<1> DEFINE n == Cardinality(keys)
           under(k) == {j \in keys : Before(j, k)}
           rank == [k \in keys |-> Cardinality(under(k)) + 1]
<1>1. n \in Nat
  BY FS_CardinalityType
<1>2. ASSUME NEW k \in keys
      PROVE  Cardinality(under(k)) \in 0 .. n - 1
  <2>1. under(k) \in SUBSET (keys \ {k})
    BY KeysAreOrdered
  <2>2. IsFiniteSet(keys \ {k}) /\ Cardinality(keys \ {k}) = n - 1
    BY FS_RemoveElement
  <2> HIDE DEF under, n
  <2>3. IsFiniteSet(under(k)) /\ Cardinality(under(k)) <= n - 1
    BY <2>1, <2>2, FS_Subset
  <2>4. Cardinality(under(k)) \in Nat
    BY <2>3, FS_CardinalityType
  <2> QED
    BY <1>1, <2>3, <2>4
<1>3. ASSUME NEW j \in keys, NEW k \in keys, Before(j, k)
      PROVE  Cardinality(under(j)) < Cardinality(under(k))
  <2>1. under(j) \cup {j} \in SUBSET under(k) /\ j \notin under(j)
    BY <1>3, KeysAreOrdered
  <2>2. IsFiniteSet(under(j)) /\ IsFiniteSet(under(k))
    BY FS_Subset
  <2> HIDE DEF under
  <2>3. Cardinality(under(j) \cup {j}) = Cardinality(under(j)) + 1
    BY <2>1, <2>2, FS_AddElement
  <2>4. Cardinality(under(j) \cup {j}) <= Cardinality(under(k))
    BY <2>1, <2>2, FS_Subset
  <2>5. Cardinality(under(j)) \in Nat /\ Cardinality(under(k)) \in Nat
    BY <2>2, FS_CardinalityType
  <2> QED
    BY <2>3, <2>4, <2>5
<1> HIDE DEF under
<1>4. rank \in [keys -> 1 .. n]
  <2>1. \A k \in keys : Cardinality(under(k)) + 1 \in 1 .. n
    BY <1>1, <1>2
  <2> QED
    BY <2>1
<1>5. \A j, k \in keys : Before(j, k) => rank[j] < rank[k]
  BY <1>2, <1>3
<1> HIDE DEF rank
<1>6. \A j, k \in keys : rank[j] = rank[k] => j = k
  <2> SUFFICES ASSUME NEW j \in keys, NEW k \in keys, rank[j] = rank[k], j # k
               PROVE  FALSE
    OBVIOUS
  <2>1. rank[j] < rank[k] \/ rank[k] < rank[j]
    BY <1>5, KeysAreOrdered
  <2>2. rank[j] \in Int /\ rank[k] \in Int
    BY <1>4
  <2> QED
    BY <2>1, <2>2
<1>7. \A i \in 1 .. n : \E k \in keys : rank[k] = i
  <2>1. rank \in Injection(keys, 1 .. n)
    BY <1>4, <1>6 DEF Injection, IsInjective
  <2>2. IsFiniteSet(1 .. n) /\ Cardinality(1 .. n) = n
    BY <1>1, FS_Interval
  <2>3. rank \in Surjection(keys, 1 .. n)
    BY <2>1, <2>2, FS_Injection
  <2> QED
    BY <2>3 DEF Surjection
<1>8. ASSUME NEW i \in 1 .. n
      PROVE  Sorted(keys)[i] \in keys /\ rank[Sorted(keys)[i]] = i
  <2> DEFINE Nth(k) == Cardinality(under(k)) = i - 1
  <2>1. Sorted(keys)[i] = CHOOSE k \in keys : Nth(k)
    BY DEF Sorted, under
  <2>2. PICK k \in keys : rank[k] = i
    BY <1>7
  <2>3. \A m \in keys : Nth(m) <=> rank[m] = i
    BY <1>1, <1>2 DEF rank
  <2> HIDE DEF Nth
  <2> QED
    BY <2>1, <2>2, <2>3
<1>9. Sorted(keys) \in [1 .. n -> keys]
  BY <1>8 DEF Sorted
<1>10. ASSUME NEW k \in keys PROVE \E i \in 1 .. n : Sorted(keys)[i] = k
  BY <1>4, <1>6, <1>8
<1>11. ASSUME NEW i \in 1 .. n, NEW j \in 1 .. n, i < j
       PROVE  Before(Sorted(keys)[i], Sorted(keys)[j])
  <2> DEFINE a == Sorted(keys)[i]
             b == Sorted(keys)[j]
  <2>1. a \in keys /\ b \in keys /\ rank[a] = i /\ rank[b] = j
    BY <1>8
  <2> HIDE DEF a, b
  <2>2. a # b
    BY <1>1, <1>11, <2>1
  <2>3. ~Before(b, a)
    BY <1>1, <1>5, <1>11, <2>1
  <2>4. Before(a, b)
    BY <2>1, <2>2, <2>3, KeysAreOrdered
  <2> QED
    BY <2>4 DEF a, b
<1> QED
  BY <1>1, <1>9, <1>10, <1>11

-----------------------------------------------------------------------------
(* The loop of a dump. *)

DumpedEntry(k) ==
  <<DecodeKey(k).opcode, DecodeKey(k).step, DecodeStatusBits(DecodeKey(k).status),
    DecodeControlWord(program.table[EncodeKey(DecodeKey(k).opcode, DecodeKey(k).step,
                                              DecodeKey(k).status)])>>

(* The lines a dump of some keys is made of. *)
LinesFor(keys) ==
  UNION {{OpcodeLine(DecodeKey(k)), StatusLine(DecodeKey(k)), StepLine(DecodeKey(k))} :
           k \in keys}

(* The headers in force are those of the last key. *)
Headed(d) == OpcodeShown(d.lines, d.opcode) /\ StatusShown(d.lines, DecodeStatusBits(d.status))

(* A key is dumped under its headers, if a header that is taken to be there is
   there, and 255, which stands for none, needs none. *)
LEMMA KeyDumped ==
  ASSUME NEW S, NEW d, d.lines \in Seq(S), NEW keys, NEW k \in keys, LinesFor(keys) \subseteq S,
         DecodeKey(k).opcode = d.opcode => OpcodeShown(d.lines, d.opcode),
         \/ /\ DecodeKey(k).status # NoHeader
            /\ DecodeKey(k).opcode # d.opcode \/ d.status = NoHeader
         \/ /\ DecodeKey(k).opcode = d.opcode
            /\ StatusShown(d.lines, DecodeStatusBits(d.status))
  PROVE  LET e == DumpKey(d, k)
         IN  /\ e.lines \in Seq(S)
             /\ ReadDump(e.lines) = ReadDump(d.lines) \cup {DumpedEntry(k)}
             /\ e.opcode = DecodeKey(k).opcode
             /\ e.status = DecodeKey(k).status
             /\ Headed(e)
<1> DEFINE key == DecodeKey(k)
           opens == key.opcode # d.opcode
           status == IF opens THEN NoHeader ELSE d.status
           one == IF opens THEN Append(d.lines, OpcodeLine(key)) ELSE d.lines
           two == IF key.status # status THEN Append(one, StatusLine(key)) ELSE one
           three == Append(two, StepLine(key))
           name == DecodeStatusBits(key.status)
<1>1. OpcodeLine(key) \in S /\ StatusLine(key) \in S /\ StepLine(key) \in S
  BY DEF LinesFor
<1>2. /\ OpcodeLine(key).kind = "opcode" /\ OpcodeLine(key).opcode = key.opcode
      /\ StatusLine(key).kind = "status" /\ StatusLine(key).name = name
      /\ StepLine(key).kind = "step"
      /\ DumpedEntry(k) = <<key.opcode, StepLine(key).step, name, StepLine(key).controls>>
  BY DEF OpcodeLine, StatusLine, StepLine, DumpedEntry
<1>3. \A seq \in Seq(S), line \in S : seq \o <<line>> = Append(seq, line) /\ seq \o << >> = seq
  OBVIOUS
<1>4. one \in Seq(S) /\ two \in Seq(S) /\ three \in Seq(S)
  BY <1>1
<1>5. DumpKey(d, k) = [lines |-> three, opcode |-> key.opcode, status |-> key.status]
  <2>1. d.lines \o (IF opens THEN <<OpcodeLine(key)>> ELSE << >>) = one
    BY <1>1, <1>3
  <2>2. one \o (IF key.status # status THEN <<StatusLine(key)>> ELSE << >>) = two
    <3> HIDE DEF one, status
    <3> QED
      BY <1>1, <1>3, <1>4
  <2>3. two \o <<StepLine(key)>> = three
    <3> HIDE DEF two
    <3> QED
      BY <1>1, <1>3, <1>4
  <2> DEFINE A == IF opens THEN <<OpcodeLine(key)>> ELSE << >>
             B == IF key.status # status THEN <<StatusLine(key)>> ELSE << >>
             C == <<StepLine(key)>>
  <2>4. DumpKey(d, k) = [lines |-> d.lines \o A \o B \o C,
                         opcode |-> key.opcode, status |-> key.status]
    BY Zenon DEF DumpKey
  <2>5. d.lines \o A = one /\ one \o B = two /\ two \o C = three
    BY <2>1, <2>2, <2>3
  <2> HIDE DEF A, B, C, one, two, three
  <2> QED
    BY <2>4, <2>5
<1>6. /\ ReadDump(one) = ReadDump(d.lines)
      /\ OpcodeShown(one, key.opcode)
      /\ ~opens /\ StatusShown(d.lines, DecodeStatusBits(d.status))
           => StatusShown(one, DecodeStatusBits(d.status))
  <2>1. CASE opens
    <3>1. ReadDump(Append(d.lines, OpcodeLine(key))) = ReadDump(d.lines)
      BY <1>1, <1>2, HeaderAdded
    <3>2. OpcodeShown(Append(d.lines, OpcodeLine(key)), key.opcode)
      <4> HIDE DEF key
      <4> QED
        BY <1>1, <1>2, HeadersKept
    <3> QED
      BY <2>1, <3>1, <3>2
  <2>2. CASE ~opens
    BY <2>2
  <2> QED
    BY <2>1, <2>2
<1>7. key.status = status => ~opens /\ StatusShown(d.lines, name) /\ name = DecodeStatusBits(d.status)
  OBVIOUS
<1> HIDE DEF one
<1>8. /\ ReadDump(two) = ReadDump(d.lines)
      /\ OpcodeShown(two, key.opcode)
      /\ StatusShown(two, name)
  <2>1. CASE key.status # status
    <3> HIDE DEF key, status, name
    <3>1. ReadDump(Append(one, StatusLine(key))) = ReadDump(one)
      BY <1>1, <1>2, <1>4, HeaderAdded
    <3>2. /\ OpcodeShown(Append(one, StatusLine(key)), key.opcode)
          /\ StatusShown(Append(one, StatusLine(key)), name)
      BY <1>1, <1>2, <1>4, <1>6, HeadersKept
    <3> QED
      BY <1>6, <2>1, <3>1, <3>2
  <2>2. CASE key.status = status
    <3>1. two = one
      BY <2>2
    <3>2. StatusShown(one, name)
      BY <1>6, <1>7, <2>2
    <3> QED
      BY <1>6, <3>1, <3>2
  <2> QED
    BY <2>1, <2>2
<1> HIDE DEF two
<1>9. /\ ReadDump(three) = ReadDump(d.lines) \cup {DumpedEntry(k)}
      /\ OpcodeShown(three, key.opcode)
      /\ StatusShown(three, name)
  <2> HIDE DEF key, name
  <2>1. ReadDump(three) = ReadDump(two) \cup {DumpedEntry(k)}
    BY <1>1, <1>2, <1>4, <1>8, StepAdded
  <2>2. OpcodeShown(three, key.opcode) /\ StatusShown(three, name)
    BY <1>1, <1>2, <1>4, <1>8, HeadersKept
  <2> QED
    BY <1>8, <2>1, <2>2
<1> HIDE DEF three
<1> QED
  BY <1>4, <1>5, <1>9 DEF Headed

(* A dump after each number of keys. *)
LEMMA DumpLoop ==
  ASSUME NEW base, NEW keys, Len(Sorted(keys)) \in Nat
  PROVE  \E d : /\ d[0] = base
                /\ \A n \in 1 .. Len(Sorted(keys)) : d[n] = DumpKey(d[n - 1], Sorted(keys)[n])
                /\ DumpKeys(base, keys) = d[Len(Sorted(keys))].lines
<1> DEFINE seq == Sorted(keys)
           N == Len(seq)
           D(m, d) == [n \in 0 .. m |-> IF n = 0 THEN base ELSE DumpKey(d[n - 1], seq[n])]
           Some == {m \in Nat : \E d : d = D(m, d)}
<1>1. 0 \in Some
  <2> DEFINE g == [n \in 0 .. 0 |-> base]
  <2>1. g = D(0, g)
    OBVIOUS
  <2> QED
    BY <2>1
<1>2. ASSUME NEW m \in Nat, NEW g, g = D(m, g)
      PROVE  \E h : h = D(m + 1, h)
  <2> DEFINE next == DumpKey(g[m], seq[m + 1])
             h == [n \in 0 .. m + 1 |-> IF n = m + 1 THEN next ELSE g[n]]
  <2> HIDE DEF next
  <2>1. ASSUME NEW n \in 0 .. m + 1
        PROVE  h[n] = IF n = 0 THEN base ELSE DumpKey(h[n - 1], seq[n])
    <3>1. CASE n = m + 1
      <4>1. h[n - 1] = g[m] /\ h[n] = next /\ n # 0
        BY <3>1
      <4> QED
        BY <4>1, <3>1 DEF next
    <3>2. CASE n # m + 1
      <4>1. n \in 0 .. m /\ h[n] = g[n] /\ (n # 0 => h[n - 1] = g[n - 1])
        BY <3>2
      <4>2. g[n] = IF n = 0 THEN base ELSE DumpKey(g[n - 1], seq[n])
        BY <1>2, <4>1
      <4> QED
        BY <4>1, <4>2
    <3> QED
      BY <3>1, <3>2
  <2>2. h = [n \in 0 .. m + 1 |-> h[n]]
    OBVIOUS
  <2> HIDE DEF h
  <2>3. [n \in 0 .. m + 1 |-> h[n]] = D(m + 1, h)
    BY <2>1
  <2> QED
    BY <2>2, <2>3
<1>3. N \in Some
  <2>1. \A m \in Nat : m \in Some => m + 1 \in Some
    BY <1>2
  <2> HIDE DEF Some
  <2> QED
    BY <1>1, <2>1, Induction
<1> DEFINE d == CHOOSE d : d = D(N, d)
<1>4. d = D(N, d)
  BY <1>3
<1>5. DumpKeys(base, keys) = d[N].lines
  BY DEF DumpKeys, Folded
<1> HIDE DEF d
<1>6. d[0] = base /\ \A n \in 1 .. N : d[n] = DumpKey(d[n - 1], seq[n])
  BY <1>4
<1> QED
  BY <1>5, <1>6

LEMMA BytewiseIsFinite ==
  ASSUME NEW keys \in SUBSET Bytewise
  PROVE  IsFiniteSet(keys)
<1>1. LastAddress \in Nat
  BY DEF LastAddress, EncodeKey
<1>2. IsFiniteSet(0 .. LastAddress)
  BY <1>1, FS_Interval
<1>3. keys \in SUBSET (0 .. LastAddress)
  BY DEF Bytewise
<1> QED
  BY <1>2, <1>3, FS_Subset

(* In a list sorted by opcode and status, an opcode does not begin with its last
   status, unless it is its only one. *)
SortedPairs(N, o, s) ==
  /\ \A i \in 1 .. N : o[i] \in Nat /\ s[i] \in Nat /\ s[i] <= NoHeader
  /\ \A i, j \in 1 .. N :
       i < j => /\ o[i] <= o[j]
                /\ o[i] = o[j] => s[i] <= s[j]
  /\ \A i \in 1 .. N : s[i] = NoHeader => \E j \in 1 .. N : o[j] = o[i] /\ s[j] # NoHeader

LEMMA SortedHeaders ==
  ASSUME NEW N \in Nat, NEW o, NEW s, SortedPairs(N, o, s)
  PROVE  \A m \in 1 .. N : s[m] = NoHeader => m - 1 \in 1 .. N /\ o[m - 1] = o[m]
<1> SUFFICES ASSUME NEW m \in 1 .. N, s[m] = NoHeader
             PROVE  m - 1 \in 1 .. N /\ o[m - 1] = o[m]
  OBVIOUS
<1> USE DEF SortedPairs
<1>1. PICK j \in 1 .. N : o[j] = o[m] /\ s[j] # NoHeader
  OBVIOUS
<1>2. ~(m < j)
  <2> SUFFICES ASSUME m < j PROVE FALSE
    OBVIOUS
  <2>1. s[m] <= s[j]
    BY <1>1
  <2> QED
    BY <1>1, <2>1 DEF NoHeader
<1>3. m # j
  BY <1>1
<1>4. m \in Int /\ j \in Int /\ 1 <= j /\ m <= N
  OBVIOUS
<1>10. PICK n : n = m - 1
  OBVIOUS
<1>5. n \in Int /\ n < m /\ j <= n /\ n \in 1 .. N
  BY <1>2, <1>3, <1>4, <1>10
<1>6. o[n] <= o[m] /\ (j = n \/ j < n)
  BY <1>4, <1>5
<1>7. j < n => o[j] <= o[n]
  BY <1>5
<1>8. o[n] \in Nat /\ o[m] \in Nat
  BY <1>5
<1>9. o[n] = o[m]
  BY <1>1, <1>6, <1>7, <1>8
<1> QED
  BY <1>5, <1>9, <1>10

(* A dump reads back if its first key has its opcode's header, and 255 is no
   opcode's only status. *)
LEMMA DumpReads ==
  ASSUME NEW keys \in SUBSET Bytewise, NEW S, LinesFor(keys) \subseteq S,
         NEW base, base.lines \in Seq(S), base.status = NoHeader, ReadDump(base.lines) = {},
         \A k \in keys : DecodeKey(k).status = NoHeader =>
           \E j \in keys :
             /\ DecodeKey(j).opcode = DecodeKey(k).opcode
             /\ DecodeKey(j).status # NoHeader,
         \/ OpcodeShown(base.lines, base.opcode)
         \/ base.opcode = NoHeader /\ \E k \in keys : DecodeKey(k).opcode # NoHeader
         \/ keys = {}
  PROVE  ReadDump(DumpKeys(base, keys)) = {DumpedEntry(k) : k \in keys}
<1>0. PICK N, ks : N = Cardinality(keys) /\ ks = Sorted(keys)
  OBVIOUS
<1>1. /\ N \in Nat
      /\ ks \in [1 .. N -> keys]
      /\ \A k \in keys : \E i \in 1 .. N : ks[i] = k
      /\ \A i, j \in 1 .. N : i < j => Before(ks[i], ks[j])
  BY <1>0, BytewiseIsFinite, SortedInOrder
<1>2. Len(ks) = N /\ Len(ks) \in Nat
  BY <1>1
<1>14. PICK d : /\ d[0] = base
                /\ \A n \in 1 .. Len(ks) : d[n] = DumpKey(d[n - 1], ks[n])
                /\ DumpKeys(base, keys) = d[Len(ks)].lines
  BY <1>0, <1>2, DumpLoop
<1>3. /\ d[0] = base
      /\ \A n \in 1 .. N : d[n] = DumpKey(d[n - 1], ks[n])
      /\ DumpKeys(base, keys) = d[N].lines
  BY <1>2, <1>14
<1>18. PICK o, s : /\ o = [i \in 1 .. N |-> DecodeKey(ks[i]).opcode]
                   /\ s = [i \in 1 .. N |-> DecodeKey(ks[i]).status]
  OBVIOUS
<1>4. \A i \in 1 .. N : ks[i] \in keys /\ ks[i] \in Bytewise
  BY <1>1
<1>5. \A i \in 1 .. N : o[i] = DecodeKey(ks[i]).opcode /\ s[i] = DecodeKey(ks[i]).status
  BY <1>18
<1>6. \A i \in 1 .. N : o[i] \in Nat /\ s[i] \in Nat /\ o[i] <= NoHeader /\ s[i] <= NoHeader
  <2>1. \A b \in 0 .. 255 : b \in Nat /\ b <= NoHeader
    BY DEF NoHeader
  <2>2. \A k \in Bytewise : DecodeKey(k).opcode \in 0 .. 255 /\ DecodeKey(k).status \in 0 .. 255
    BY KeysAreOrdered
  <2> QED
    BY <1>4, <1>5, <2>1, <2>2
<1>12. ASSUME NEW i \in 1 .. N, NEW j \in 1 .. N, i < j
       PROVE  /\ o[i] <= o[j]
              /\ o[i] = o[j] => s[i] <= s[j]
  <2>1. Before(ks[i], ks[j])
    BY <1>1, <1>12
  <2>2. \/ o[i] < o[j]
        \/ o[i] = o[j] /\ s[i] < s[j]
        \/ o[i] = o[j] /\ s[i] = s[j]
    BY <1>5, <2>1 DEF Before
  <2>3. o[i] \in Nat /\ o[j] \in Nat /\ s[i] \in Nat /\ s[j] \in Nat
    BY <1>6
  <2> QED
    BY <2>2, <2>3
<1>13. ASSUME NEW i \in 1 .. N, s[i] = NoHeader
       PROVE  \E j \in 1 .. N : o[j] = o[i] /\ s[j] # NoHeader
  <2>1. PICK m \in keys : DecodeKey(m).opcode = o[i] /\ DecodeKey(m).status # NoHeader
    BY <1>4, <1>5, <1>13
  <2>2. PICK j \in 1 .. N : ks[j] = m
    BY <1>1
  <2> QED
    BY <1>5, <2>1, <2>2
<1>15. \A m \in 1 .. N : s[m] = NoHeader => m - 1 \in 1 .. N /\ o[m - 1] = o[m]
  <2>1. \A i, j \in 1 .. N :
          i < j => /\ o[i] <= o[j]
                   /\ o[i] = o[j] => s[i] <= s[j]
    BY <1>12
  <2>2. \A i \in 1 .. N : s[i] = NoHeader => \E j \in 1 .. N : o[j] = o[i] /\ s[j] # NoHeader
    BY <1>13
  <2>3. \A i \in 1 .. N : o[i] \in Nat /\ s[i] \in Nat /\ s[i] <= NoHeader
    BY <1>6
  <2>4. SortedPairs(N, o, s)
    BY <2>1, <2>2, <2>3 DEF SortedPairs
  <2> QED
    BY <1>1, <2>4, SortedHeaders
<1>17. ASSUME NEW i \in 1 .. N, o[i] # NoHeader
       PROVE  o[1] # NoHeader
  <2>1. 1 \in 1 .. N /\ (i = 1 \/ 1 < i)
    BY <1>1
  <2>2. 1 < i => o[1] <= o[i]
    BY <1>12, <2>1
  <2>3. /\ o[1] \in Nat /\ o[i] \in Nat /\ o[i] <= NoHeader
    BY <1>6, <2>1
  <2> QED
    BY <1>17, <2>1, <2>2, <2>3 DEF NoHeader
<1>16. OpcodeShown(base.lines, base.opcode) \/ (base.opcode = NoHeader /\ o[1] # NoHeader) \/ N = 0
  <2>1. CASE keys = {}
    <3>1. ~\E i : i \in 1 .. N
      BY <1>4, <2>1
    <3>2. 1 \notin 1 .. N
      BY <3>1
    <3> QED
      BY <1>1, <3>2
  <2>2. CASE base.opcode = NoHeader /\ \E k \in keys : DecodeKey(k).opcode # NoHeader
    <3>1. PICK i \in 1 .. N : DecodeKey(ks[i]).opcode # NoHeader
      BY <1>1, <2>2
    <3> QED
      BY <1>5, <1>17, <2>2, <3>1
  <2> QED
    BY <2>1, <2>2
<1> DEFINE Good(n) == /\ d[n].lines \in Seq(S)
                      /\ ReadDump(d[n].lines) = {DumpedEntry(ks[i]) : i \in 1 .. n}
                      /\ n = 0 => d[n] = base
                      /\ n # 0 => Headed(d[n]) /\ d[n].opcode = o[n] /\ d[n].status = s[n]
           G == {n \in Nat : n <= N => Good(n)}
<1>7. Good(0)
  BY <1>3
<1>8. ASSUME NEW n \in Nat, n + 1 <= N, Good(n)
      PROVE  Good(n + 1)
  <2> DEFINE m == n + 1
             k == ks[m]
             e == DumpKey(d[n], k)
  <2>1. m \in 1 .. N /\ m - 1 = n
    BY <1>1, <1>8
  <2>2. d[m] = e /\ k \in keys
    BY <1>3, <1>4, <2>1
  <2>3. DecodeKey(k).opcode = o[m] /\ DecodeKey(k).status = s[m]
    BY <1>5, <2>1
  <2>4. o[m] = d[n].opcode => OpcodeShown(d[n].lines, d[n].opcode)
    <3>1. CASE n # 0
      BY <1>8, <3>1 DEF Headed
    <3>2. CASE n = 0
      BY <1>3, <1>16, <2>1, <3>2
    <3> QED
      BY <3>1, <3>2
  <2>5. s[m] # NoHeader \/ (n # 0 /\ o[m] = d[n].opcode)
    <3> SUFFICES ASSUME s[m] = NoHeader
                 PROVE  n # 0 /\ o[m] = d[n].opcode
      OBVIOUS
    <3>1. n \in 1 .. N /\ o[n] = o[m]
      BY <1>15, <2>1
    <3>2. n # 0
      BY <3>1
    <3> QED
      BY <1>8, <3>1, <3>2
  <2>6. \/ s[m] # NoHeader /\ (o[m] # d[n].opcode \/ d[n].status = NoHeader)
        \/ o[m] = d[n].opcode /\ StatusShown(d[n].lines, DecodeStatusBits(d[n].status))
    <3>1. CASE n = 0
      BY <1>3, <2>5, <3>1
    <3>2. CASE n # 0
      BY <1>8, <2>5, <3>2 DEF Headed
    <3> QED
      BY <3>1, <3>2
  <2>7. d[n].lines \in Seq(S)
    BY <1>8
  <2> HIDE DEF Good, k, e
  <2>8. /\ e.lines \in Seq(S)
        /\ ReadDump(e.lines) = ReadDump(d[n].lines) \cup {DumpedEntry(k)}
        /\ e.opcode = o[m] /\ e.status = s[m] /\ Headed(e)
    <3>1. PICK c, key : c = d[n] /\ key = k
      OBVIOUS
    <3>2. key \in keys /\ c.lines \in Seq(S) /\ e = DumpKey(c, key)
      BY <2>2, <2>7, <3>1 DEF e
    <3>3. DecodeKey(key).opcode = o[m] /\ DecodeKey(key).status = s[m]
      BY <2>3, <3>1
    <3>4. DecodeKey(key).opcode = c.opcode => OpcodeShown(c.lines, c.opcode)
      BY <2>4, <3>1, <3>3
    <3>5. \/ /\ DecodeKey(key).status # NoHeader
             /\ DecodeKey(key).opcode # c.opcode \/ c.status = NoHeader
          \/ /\ DecodeKey(key).opcode = c.opcode
             /\ StatusShown(c.lines, DecodeStatusBits(c.status))
      BY <2>6, <3>1, <3>3
    <3>6. /\ DumpKey(c, key).lines \in Seq(S)
          /\ ReadDump(DumpKey(c, key).lines) = ReadDump(c.lines) \cup {DumpedEntry(key)}
          /\ DumpKey(c, key).opcode = DecodeKey(key).opcode
          /\ DumpKey(c, key).status = DecodeKey(key).status
          /\ Headed(DumpKey(c, key))
      BY <3>2, <3>4, <3>5, KeyDumped
    <3> QED
      BY <3>1, <3>2, <3>3, <3>6
  <2>9. ReadDump(e.lines) = {DumpedEntry(ks[i]) : i \in 1 .. m}
    <3>1. ReadDump(d[n].lines) = {DumpedEntry(ks[i]) : i \in 1 .. n}
      BY <1>8 DEF Good
    <3>2. 1 .. m = (1 .. n) \cup {m}
      OBVIOUS
    <3> QED
      BY <2>8, <3>1, <3>2 DEF k
  <2>10. n + 1 # 0
    OBVIOUS
  <2> QED
    BY <2>2, <2>8, <2>9, <2>10 DEF Good
<1> HIDE DEF Good
<1>9. Nat \subseteq G
  <2>1. 0 \in G
    BY <1>7
  <2>2. \A n \in Nat : n \in G => n + 1 \in G
    <3>1. \A n \in Nat : n + 1 <= N => n <= N
      BY <1>1
    <3> QED
      BY <1>8, <3>1
  <2> HIDE DEF G
  <2> QED
    BY <2>1, <2>2, Induction
<1>10. ReadDump(d[N].lines) = {DumpedEntry(ks[i]) : i \in 1 .. N}
  <2>1. N \in G /\ N <= N
    BY <1>1, <1>9
  <2> QED
    BY <2>1 DEF Good
<1>11. {DumpedEntry(ks[i]) : i \in 1 .. N} = {DumpedEntry(k) : k \in keys}
  BY <1>1
<1> QED
  BY <1>0, <1>3, <1>10, <1>11

-----------------------------------------------------------------------------
(* What is dumped of an encoded program. *)

LEMMA WordIsDecoded ==
  ASSUME Encoded, NEW controls \in SUBSET Range(HdlOrder)
  PROVE  DecodeControlWord(EncodeWord(controls)) = controls
<1>1. /\ Len(HdlOrder) \in Nat /\ MAX_CONTROLS \in Nat /\ Len(HdlOrder) <= MAX_CONTROLS
      /\ DOMAIN HdlOrder = 1 .. Len(HdlOrder)
      /\ program.control_paths = HdlOrder
  BY HdlAssumption, BoundsAssumption DEF Encoded
<1>2. PICK exponents : exponents = {Index(HdlOrder, c) - 1 : c \in controls}
  OBVIOUS
<1>3. EncodeWord(controls) = BitsOf(MAX_CONTROLS, exponents)
  BY <1>2 DEF EncodeWord
<1>4. \A c \in controls : Index(HdlOrder, c) \in DOMAIN HdlOrder /\ HdlOrder[Index(HdlOrder, c)] = c
  BY DEF Index, Range
<1>5. ASSUME NEW j \in DOMAIN HdlOrder
      PROVE  HasBit(EncodeWord(controls), j - 1) <=> \E c \in controls : j = Index(HdlOrder, c)
  <2>1. j - 1 \in 0 .. MAX_CONTROLS - 1 /\ j \in Int
    BY <1>1
  <2>2. HasBit(EncodeWord(controls), j - 1) <=> j - 1 \in exponents
    BY <1>1, <1>3, <2>1, BitsReadBack
  <2>3. \A c \in controls : Index(HdlOrder, c) \in Int
    BY <1>1, <1>4
  <2>4. \A c \in controls : j - 1 = Index(HdlOrder, c) - 1 <=> j = Index(HdlOrder, c)
    BY <2>1, <2>3
  <2> QED
    BY <1>2, <2>2, <2>4
<1>6. {HdlOrder[i] : i \in {j \in DOMAIN HdlOrder : HasBit(EncodeWord(controls), j - 1)}} = controls
  BY <1>4, <1>5
<1> QED
  BY <1>1, <1>6 DEF DecodeControlWord

LEMMA StatusIsDecoded ==
  ASSUME Encoded, NEW raised \in SUBSET StatusBits
  PROVE  DecodeStatusBits(EncodeBits(raised, HdlBits))
           = IF raised = {} THEN {"default"} ELSE raised
<1>1. program.status_bits = HdlBits /\ DOMAIN HdlBits = StatusBits
  BY HdlAssumption DEF Encoded
<1>2. EncodeBits({}, HdlBits) = 0
  <2>1. ShiftRight(BitsOf(8, {}), 0) = 0
    BY NothingAbove
  <2>2. PICK s : s[0] = BitsOf(8, {}) /\ ShiftRight(BitsOf(8, {}), 0) = s[0]
    BY ShiftSteps
  <2>3. {HdlBits[b] : b \in {}} = {}
    OBVIOUS
  <2> QED
    BY <2>1, <2>2, <2>3 DEF EncodeBits
<1>3. EncodeBits(raised, HdlBits) = 0 <=> raised = {}
  BY <1>2, EncodeBitsInjective
<1>4. ASSUME NEW b \in StatusBits
      PROVE  HasBit(EncodeBits(raised, HdlBits), HdlBits[b]) <=> b \in raised
  <2>1. HdlBits[b] \in 0 .. 8 - 1
    BY HdlAssumption
  <2>2. HasBit(EncodeBits(raised, HdlBits), HdlBits[b]) <=> HdlBits[b] \in {HdlBits[c] : c \in raised}
    BY <2>1, BitsReadBack DEF EncodeBits
  <2> QED
    BY <2>2, HdlAssumption
<1>5. {b \in StatusBits : HasBit(EncodeBits(raised, HdlBits), HdlBits[b])} = raised
  BY <1>4
<1> QED
  BY <1>1, <1>3, <1>5 DEF DecodeStatusBits

(* The status in which all eight bits are raised shares its variant with
   another: a variant tests one bit. *)
LEMMA AllRaisedIsNotAlone ==
  ASSUME CompilerInv, Compiled, ~TooLong(instruction_set), NEW key \in DOMAIN table,
         EncodeBits(key[3], HdlBits) = NoHeader
  PROVE  \E other \in DOMAIN table :
           other[1] = key[1] /\ EncodeBits(other[3], HdlBits) # NoHeader
<1>1. /\ instruction_set.instructions \in Seq(Instruction)
      /\ \A i \in Range(instruction_set.instructions) : StatusesCovered(i.variants)
      /\ table = TableOf(instruction_set)
  BY CompiledFacts
<1>2. PICK e \in Entries(instruction_set) : key = e.key
  BY <1>1 DEF TableOf
<1>3. PICK a, b, k, raised :
        /\ a \in DOMAIN instruction_set.instructions
        /\ b \in DOMAIN instruction_set.instructions[a].variants
        /\ k \in DOMAIN StepsOf(instruction_set, a, b)
        /\ raised \in Expand(instruction_set.instructions[a].variants[b].when)
        /\ e = [key |-> <<instruction_set.instructions[a].opcode, k - 1, raised>>,
                word |-> Controls(StepsOf(instruction_set, a, b)[k])]
  BY EntryIff
<1>4. PICK when, opcode : /\ when = instruction_set.instructions[a].variants[b].when
                          /\ opcode = instruction_set.instructions[a].opcode
  OBVIOUS
<1>5. key = <<opcode, k - 1, raised>> /\ raised \in SUBSET StatusBits
      /\ EncodeBits(raised, HdlBits) = 255
  BY <1>2, <1>3, <1>4 DEF Expand, NoHeader
<1>6. \A c, d \in DOMAIN when : c = d
  <2>1. PICK variants : variants = instruction_set.instructions[a].variants
    OBVIOUS
  <2>2. StatusesCovered(variants) /\ b \in DOMAIN variants /\ when = variants[b].when
    BY <1>1, <1>3, <1>4, <2>1 DEF Range
  <2>3. variants \in Seq(Variant)
    <3>1. instruction_set.instructions[a] \in Instruction
      BY <1>1, <1>3
    <3> QED
      BY <2>1, <3>1 DEF Instruction
  <2>4. CASE Len(variants) = 1 /\ DOMAIN variants[1].when = {}
    <3>1. b = 1
      BY <2>2, <2>3, <2>4
    <3> QED
      BY <2>2, <2>4, <3>1
  <2>5. CASE variants = << >>
    BY <2>2, <2>5
  <2>6. CASE \A v \in Range(variants) : \A c, d \in DOMAIN v.when : c = d
    BY <2>2, <2>6 DEF Range
  <2> QED
    BY <2>2, <2>4, <2>5, <2>6 DEF StatusesCovered
<1>7. HasBit(255, 0) /\ HasBit(255, 1)
  <2>1. PICK s : s[0] = 255 /\ ShiftRight(255, 0) = s[0]
    BY ShiftSteps
  <2>2. PICK t : t[0] = 255 /\ (\A i \in 1 .. 1 : t[i] = t[i - 1] \div 2) /\ ShiftRight(255, 1) = t[1]
    BY ShiftSteps
  <2>3. t[1] = 127
    BY <2>2
  <2> QED
    BY <2>1, <2>2, <2>3 DEF HasBit
<1>8. PICK x \in raised, y \in raised : HdlBits[x] = 0 /\ HdlBits[y] = 1
  <2>1. 0 \in {HdlBits[c] : c \in raised} /\ 1 \in {HdlBits[c] : c \in raised}
    BY <1>5, <1>7, BitsReadBack DEF EncodeBits
  <2> QED
    BY <2>1
<1>9. PICK z \in raised : z \notin DOMAIN when
  BY <1>6, <1>8
<1>10. PICK fewer : fewer = raised \ {z}
  OBVIOUS
<1>11. fewer \in Expand(when) /\ fewer \in SUBSET StatusBits /\ fewer # raised
  <2>1. fewer \in SUBSET StatusBits /\ fewer # raised
    BY <1>5, <1>9, <1>10
  <2>2. ASSUME NEW c \in DOMAIN when PROVE (c \in fewer) = when[c]
    <3>1. (c \in raised) = when[c]
      BY <1>3, <1>4 DEF Expand
    <3>2. (c \in fewer) <=> (c \in raised)
      BY <1>9, <1>10
    <3> QED
      BY <3>1, <3>2
  <2> QED
    BY <2>1, <2>2 DEF Expand
<1>12. <<opcode, k - 1, fewer>> \in DOMAIN table
  <2>1. PICK f : f = [key |-> <<opcode, k - 1, fewer>>,
                      word |-> Controls(StepsOf(instruction_set, a, b)[k])]
    OBVIOUS
  <2>2. f \in Entries(instruction_set)
    BY <1>3, <1>4, <1>11, <2>1, EntryIff
  <2> QED
    BY <1>1, <2>1, <2>2 DEF TableOf
<1>13. EncodeBits(fewer, HdlBits) # 255
  BY <1>5, <1>11, EncodeBitsInjective
<1> QED
  BY <1>5, <1>12, <1>13 DEF NoHeader

(* The table in the terms of a dump. *)
LEMMA EntriesAreDumped ==
  ASSUME LoaderInv, phase = "construct"
  PROVE  /\ DOMAIN program.table = {AddressOf(key) : key \in DOMAIN table}
         /\ DOMAIN program.table \in SUBSET Bytewise
         /\ \A key \in DOMAIN table :
              /\ DumpedEntry(AddressOf(key)) = Entry(key)
              /\ DecodeKey(AddressOf(key)).opcode = key[1]
              /\ DecodeKey(AddressOf(key)).status = EncodeBits(key[3], HdlBits)
<1>1. CompilerInv /\ Compiled /\ ~TooLong(instruction_set) /\ Encoded
  BY DEF LoaderInv, Encoded
<1>2. program.table = EncodedTable /\ UNION Range(table) \subseteq Range(HdlOrder)
  BY <1>1 DEF Encoded
<1>3. /\ DOMAIN EncodedTable = {AddressOf(key) : key \in DOMAIN table}
      /\ \A key \in DOMAIN table :
           /\ AddressOf(key) \in 0 .. LastAddress
           /\ EncodedTable[AddressOf(key)] = EncodeWord(table[key])
  BY <1>1, EncodedEntries
<1>4. ASSUME NEW key \in DOMAIN table
      PROVE  /\ AddressOf(key) \in Bytewise
             /\ DumpedEntry(AddressOf(key)) = Entry(key)
             /\ DecodeKey(AddressOf(key)).opcode = key[1]
             /\ DecodeKey(AddressOf(key)).status = EncodeBits(key[3], HdlBits)
  <2>1. key[1] \in 0 .. 255 /\ key[2] \in 0 .. 255 /\ key[3] \in SUBSET StatusBits
    BY <1>1, TableKeys
  <2>2. PICK s \in 0 .. 255 : s = EncodeBits(key[3], HdlBits)
    BY ByteOfBits DEF EncodeBits
  <2>3. AddressOf(key) = EncodeKey(key[1], key[2], s)
    BY <2>2 DEF AddressOf
  <2>4. DecodeKey(AddressOf(key)) = [opcode |-> key[1], step |-> key[2], status |-> s]
    BY <2>1, <2>3, KeyReadsBack
  <2>5. AddressOf(key) \in Bytewise
    BY <1>3, <2>1, <2>3 DEF Bytewise
  <2>6. DecodeStatusBits(s) = IF key[3] = {} THEN {"default"} ELSE key[3]
    BY <1>1, <2>1, <2>2, StatusIsDecoded
  <2>7. table[key] \in SUBSET Range(HdlOrder)
    BY <1>2 DEF Range
  <2>8. DecodeControlWord(program.table[AddressOf(key)]) = table[key]
    BY <1>1, <1>2, <1>3, <2>7, WordIsDecoded
  <2>9. DumpedEntry(AddressOf(key)) = Entry(key)
    BY <2>3, <2>4, <2>6, <2>8 DEF DumpedEntry, Entry
  <2> QED
    BY <2>2, <2>4, <2>5, <2>9
<1> QED
  BY <1>2, <1>3, <1>4

LEMMA ProgramIsDumped ==
  ASSUME LoaderInv, phase = "construct", {key[1] : key \in DOMAIN table} # {NoHeader}
  PROVE  ReadDump(DumpProgram) = {Entry(key) : key \in DOMAIN table}
<1> DEFINE keys == DOMAIN program.table
           S == LinesFor(keys)
<1>1. PICK base : base = [lines |-> << >>, opcode |-> NoHeader, status |-> NoHeader]
  OBVIOUS
<1>2. base.lines \in Seq(S) /\ base.opcode = NoHeader /\ base.status = NoHeader
  BY <1>1
<1>3. ReadDump(base.lines) = {}
  BY <1>1, DumpIsReadings
<1>4. \A k \in keys : DecodeKey(k).status = NoHeader =>
        \E j \in keys : /\ DecodeKey(j).opcode = DecodeKey(k).opcode
                        /\ DecodeKey(j).status # NoHeader
  <2> SUFFICES ASSUME NEW key \in DOMAIN table, EncodeBits(key[3], HdlBits) = NoHeader
               PROVE  \E j \in keys : /\ DecodeKey(j).opcode = key[1]
                                      /\ DecodeKey(j).status # NoHeader
    BY EntriesAreDumped
  <2>1. CompilerInv /\ Compiled /\ ~TooLong(instruction_set)
    BY DEF LoaderInv, Encoded
  <2>2. PICK other \in DOMAIN table :
          other[1] = key[1] /\ EncodeBits(other[3], HdlBits) # NoHeader
    BY <2>1, AllRaisedIsNotAlone
  <2> QED
    BY <2>2, EntriesAreDumped
<1>5. keys = {} \/ \E k \in keys : DecodeKey(k).opcode # NoHeader
  BY EntriesAreDumped
<1>6. keys \in SUBSET Bytewise
  BY EntriesAreDumped
<1>7. DumpProgram = DumpKeys(base, keys)
  BY <1>1 DEF DumpProgram
<1>8. ReadDump(DumpKeys(base, keys)) = {DumpedEntry(k) : k \in keys}
  <2>1. LinesFor(keys) \subseteq S
    OBVIOUS
  <2> HIDE DEF keys, S
  <2> QED
    BY <1>2, <1>3, <1>4, <1>5, <1>6, <2>1, DumpReads
<1>9. {DumpedEntry(k) : k \in keys} = {Entry(key) : key \in DOMAIN table}
  BY EntriesAreDumped
<1> QED
  BY <1>7, <1>8, <1>9

LEMMA InstructionIsDumped ==
  ASSUME LoaderInv, phase = "construct", NEW opcode
  PROVE  ReadDump(DumpInstruction(opcode))
           = {Entry(key) : key \in {k \in DOMAIN table : k[1] = opcode}}
<1>1. PICK keys : keys = {k \in DOMAIN program.table : DecodeKey(k).opcode = opcode}
  OBVIOUS
<1>2. PICK header : header = [kind |-> "opcode", opcode |-> opcode]
  OBVIOUS
<1>3. PICK S : S = LinesFor(keys) \cup {header}
  OBVIOUS
<1>4. PICK base : base = [lines |-> Append(<< >>, header), opcode |-> opcode, status |-> NoHeader]
  OBVIOUS
<1>5. << >> \in Seq(S) /\ header \in S /\ LinesFor(keys) \subseteq S
  BY <1>3
<1>6. /\ base.lines \in Seq(S) /\ base.opcode = opcode /\ base.status = NoHeader
      /\ base.lines = Append(<< >>, header)
  BY <1>4, <1>5
<1>7. ReadDump(base.lines) = {}
  <2>1. ReadDump(<< >>) = {}
    BY DumpIsReadings
  <2>2. header.kind # "step"
    BY <1>2
  <2>3. ReadDump(Append(<< >>, header)) = ReadDump(<< >>)
    BY <1>5, <2>2, HeaderAdded
  <2> QED
    BY <1>6, <2>1, <2>3
<1>8. OpcodeShown(base.lines, base.opcode)
  <2>1. header.kind = "opcode" /\ header.opcode = opcode
    BY <1>2
  <2> QED
    BY <1>5, <1>6, <2>1, HeadersKept
<1>9. \A k \in keys : DecodeKey(k).status = NoHeader =>
        \E j \in keys : /\ DecodeKey(j).opcode = DecodeKey(k).opcode
                        /\ DecodeKey(j).status # NoHeader
  <2> SUFFICES ASSUME NEW key \in DOMAIN table, key[1] = opcode,
                      EncodeBits(key[3], HdlBits) = NoHeader
               PROVE  \E j \in keys : /\ DecodeKey(j).opcode = opcode
                                      /\ DecodeKey(j).status # NoHeader
    BY <1>1, EntriesAreDumped
  <2>1. CompilerInv /\ Compiled /\ ~TooLong(instruction_set)
    BY DEF LoaderInv, Encoded
  <2>2. PICK other \in DOMAIN table :
          other[1] = key[1] /\ EncodeBits(other[3], HdlBits) # NoHeader
    BY <2>1, AllRaisedIsNotAlone
  <2> QED
    BY <1>1, <2>2, EntriesAreDumped
<1>10. keys \in SUBSET Bytewise
  BY <1>1, EntriesAreDumped
<1>11. DumpInstruction(opcode) = DumpKeys(base, keys)
  <2>1. Append(<< >>, header) = <<header>>
    OBVIOUS
  <2> QED
    BY <1>1, <1>2, <1>4, <2>1 DEF DumpInstruction
<1>12. ReadDump(DumpKeys(base, keys)) = {DumpedEntry(k) : k \in keys}
  BY <1>5, <1>6, <1>7, <1>8, <1>9, <1>10, DumpReads
<1>13. {DumpedEntry(k) : k \in keys} = {Entry(key) : key \in {k \in DOMAIN table : k[1] = opcode}}
  BY <1>1, EntriesAreDumped
<1> QED
  BY <1>11, <1>12, <1>13

(* A dump of the microcode, of all or of one instruction, says of every opcode,
   step and status what was compiled for it, although the decoder prints a header
   only where opcode or status change and takes 255, a value that both may have,
   for none yet.  Only the opcode 255 alone is printed without its header. *)
THEOREM DumpsReadBack == LoaderSpec => []DumpReadsBack
<1>1. LoaderInv => DumpReadsBack
  <2> SUFFICES ASSUME LoaderInv, phase = "construct"
               PROVE  /\ \/ {key[1] : key \in DOMAIN table} = {NoHeader}
                         \/ ReadDump(DumpProgram) = {Entry(key) : key \in DOMAIN table}
                      /\ \A opcode \in Expected :
                           ReadDump(DumpInstruction(opcode)) =
                             {Entry(key) : key \in {k \in DOMAIN table : k[1] = opcode}}
    BY DEF DumpReadsBack
  <2> QED
    BY ProgramIsDumped, InstructionIsDumped
<1> QED
  BY <1>1, LoaderInvInit, LoaderInvKept, PTL DEF LoaderSpec
=============================================================================

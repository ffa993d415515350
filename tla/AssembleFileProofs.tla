-------------------------- MODULE AssembleFileProofs --------------------------
(***************************************************************************)
(* AssembleFile, for every file system and every text: what the lexer      *)
(* finds, what the include processor makes of files, and that what the     *)
(* passes promise holds of what is read.                                   *)
(***************************************************************************)
EXTENDS AssembleFile, AssemblerProofs, FiniteSetTheorems, SequenceTheorems

-----------------------------------------------------------------------------
(* The passes. *)

(* Files are read and includes processed before the passes, which these steps
   leave alone. *)
LEMMA AssembleSteps ==
  ASSUME [AssembleNext]_allVars
  PROVE  [Assemble]_vars
<1>1. CASE ReadRoot
  BY <1>1 DEF ReadRoot
<1>2. CASE ParseRoot
  BY <1>2 DEF ParseRoot, Assemble
<1>3. CASE ProcessIncludes
  BY <1>3 DEF ProcessIncludes
<1>4. CASE IncludesProcessed
  BY <1>4 DEF IncludesProcessed, Assemble
<1>5. CASE RunPasses
  BY <1>5 DEF RunPasses, Assemble
<1>6. CASE UNCHANGED allVars
  BY <1>6 DEF allVars
<1> QED
  BY <1>1, <1>2, <1>3, <1>4, <1>5, <1>6 DEF AssembleNext, AssembleStep

(* AssembleFile assembles: whatever the include processor hands to the passes,
   the cartridge says what the statements say, labels are where they stand,
   items fit and the source map names who wrote a byte. *)
THEOREM FilesAreAssembled ==
  FileSpec => /\ AssembleSpec
              /\ []ImageMatchesSource /\ []LabelsReachCode
              /\ []ItemsFit /\ []SourceMapNamesWriter
<1>1. AssembleInit => Init
  BY DEF AssembleInit
<1>2. FileSpec => AssembleSpec
  BY <1>1, AssembleSteps, PTL DEF FileSpec, AssembleSpec
<1> QED
  BY <1>2, ImageIsSource, LabelsAreReached, ProgramFits, SourceMapIsRight, PTL

-----------------------------------------------------------------------------
(* Lists of lists. *)

(* FlattenSeq of the first n elements of s, put together one by one. *)
First(n, s) == [k \in 1 .. n |-> s[k]]

LEMMA FirstIsSequence ==
  ASSUME NEW n \in Nat, NEW s
  PROVE  IsSequence(First(n, s)) /\ Len(First(n, s)) = n
<1> DEFINE S == {s[k] : k \in 1 .. n}
<1>1. First(n, s) \in [1 .. n -> S]
  BY DEF First
<1>2. First(n, s) \in Seq(S) /\ Len(First(n, s)) = n
  <2> HIDE DEF S
  <2> QED
    BY <1>1
<1> QED
  BY <1>2, SequenceOf

LEMMA FlattenLoop ==
  ASSUME NEW n \in Nat, NEW s, n # 0
  PROVE  \E g : /\ g[1] = s[1]
                /\ \A k \in 2 .. n : g[k] = g[k - 1] \o s[k]
                /\ FlattenSeq(First(n, s)) = g[n]
<1> DEFINE D(m, g) == [k \in 1 .. m |-> IF k = 1 THEN s[1] ELSE g[k - 1] \o s[k]]
           Some == {m \in Nat : \E g : g = D(m, g)}
<1>1. 0 \in Some
  <2> DEFINE g == [k \in 1 .. 0 |-> s[1]]
  <2>1. g = D(0, g)
    OBVIOUS
  <2> QED
    BY <2>1
<1>2. ASSUME NEW m \in Nat, NEW g, g = D(m, g)
      PROVE  \E h : h = D(m + 1, h)
  <2> DEFINE new == IF m = 0 THEN s[1] ELSE g[m] \o s[m + 1]
             h == [k \in 1 .. m + 1 |-> IF k = m + 1 THEN new ELSE g[k]]
  <2> HIDE DEF new
  <2>1. ASSUME NEW k \in 1 .. m + 1
        PROVE  h[k] = IF k = 1 THEN s[1] ELSE h[k - 1] \o s[k]
    <3>1. CASE k = m + 1
      <4>1. h[k] = new /\ (k = 1 <=> m = 0) /\ (m # 0 => h[k - 1] = g[m])
        BY <3>1
      <4> QED
        BY <4>1, <3>1 DEF new
    <3>2. CASE k # m + 1
      <4>1. k \in 1 .. m /\ h[k] = g[k] /\ (k # 1 => h[k - 1] = g[k - 1])
        BY <3>2
      <4>2. g[k] = IF k = 1 THEN s[1] ELSE g[k - 1] \o s[k]
        BY <1>2, <4>1
      <4> QED
        BY <4>1, <4>2
    <3> QED
      BY <3>1, <3>2
  <2>2. h = [k \in 1 .. m + 1 |-> h[k]]
    OBVIOUS
  <2> HIDE DEF h
  <2>3. [k \in 1 .. m + 1 |-> h[k]] = D(m + 1, h)
    BY <2>1
  <2> QED
    BY <2>2, <2>3
<1>3. n \in Some
  <2> HIDE DEF D
  <2>1. \A m \in Nat : m \in Some => m + 1 \in Some
    BY <1>2
  <2> HIDE DEF Some
  <2> QED
    BY <1>1, <2>1, Induction
<1> DEFINE t == First(n, s)
           E(g) == [k \in 1 .. n |-> IF k = 1 THEN t[1] ELSE g[k - 1] \o t[k]]
<1>4. Len(t) = n
  BY FirstIsSequence
<1>5. ASSUME NEW g PROVE E(g) = D(n, g)
  BY DEF First
<1> DEFINE g == CHOOSE g : g = E(g)
<1>6. \E h : h = E(h)
  <2> HIDE DEF E
  <2> QED
    BY <1>3, <1>5
<1>7. g = E(g)
  <2> HIDE DEF E
  <2> QED
    BY <1>6
<1>8. FlattenSeq(t) = g[n]
  <2> HIDE DEF t
  <2> QED
    BY <1>4 DEF FlattenSeq
<1>9. g = D(n, g)
  <2> HIDE DEF E, D, g
  <2> QED
    BY <1>5, <1>7
<1> HIDE DEF g
<1>10. ASSUME NEW k \in 1 .. n
       PROVE  g[k] = IF k = 1 THEN s[1] ELSE g[k - 1] \o s[k]
  BY <1>9
<1>11. g[1] = s[1]
  BY <1>10
<1>12. ASSUME NEW k \in 2 .. n PROVE g[k] = g[k - 1] \o s[k]
  <2>1. k \in 1 .. n /\ k # 1
    OBVIOUS
  <2> QED
    BY <1>10, <2>1
<1> QED
  BY <1>8, <1>11, <1>12

LEMMA FlattenNothing ==
  ASSUME NEW s
  PROVE  FlattenSeq(First(0, s)) = << >>
<1>1. Len(First(0, s)) = 0 /\ IsSequence(First(0, s))
  BY FirstIsSequence
<1> QED
  BY <1>1, SequenceFacts DEF FlattenSeq

LEMMA FlattenNext ==
  ASSUME NEW n \in Nat, NEW s, IsSequence(s[n + 1])
  PROVE  FlattenSeq(First(n + 1, s)) = FlattenSeq(First(n, s)) \o s[n + 1]
<1>1. PICK h : /\ h[1] = s[1]
               /\ \A k \in 2 .. n + 1 : h[k] = h[k - 1] \o s[k]
               /\ FlattenSeq(First(n + 1, s)) = h[n + 1]
  <2>1. n + 1 \in Nat /\ n + 1 # 0
    OBVIOUS
  <2> HIDE DEF First
  <2> QED
    BY <2>1, FlattenLoop
<1>2. CASE n = 0
  <2>1. FlattenSeq(First(n, s)) = << >>
    BY <1>2, FlattenNothing
  <2>2. << >> \o s[n + 1] = s[n + 1]
    BY DEF IsSequence
  <2>3. h[n + 1] = s[n + 1]
    BY <1>1, <1>2
  <2> QED
    BY <1>1, <2>1, <2>2, <2>3
<1>3. CASE n # 0
  <2>1. PICK g : /\ g[1] = s[1]
                 /\ \A k \in 2 .. n : g[k] = g[k - 1] \o s[k]
                 /\ FlattenSeq(First(n, s)) = g[n]
    BY <1>3, FlattenLoop
  <2> DEFINE Same == {k \in Nat : k + 1 <= n => g[k + 1] = h[k + 1]}
  <2>2. 0 \in Same
    BY <1>1, <2>1
  <2>3. ASSUME NEW k \in Nat, k \in Same
        PROVE  k + 1 \in Same
    <3> SUFFICES ASSUME k + 2 <= n
                 PROVE  g[k + 2] = h[k + 2]
      OBVIOUS
    <3>1. k + 2 \in 2 .. n /\ k + 2 \in 2 .. n + 1 /\ (k + 2) - 1 = k + 1
      OBVIOUS
    <3>2. g[k + 1] = h[k + 1]
      BY <2>3
    <3>3. g[k + 2] = g[k + 1] \o s[k + 2]
      BY <2>1, <3>1
    <3>4. h[k + 2] = h[k + 1] \o s[k + 2]
      BY <1>1, <3>1
    <3> QED
      BY <3>2, <3>3, <3>4
  <2>4. Nat \subseteq Same
    <3>1. \A k \in Nat : k \in Same => k + 1 \in Same
      BY <2>3
    <3> HIDE DEF Same
    <3> QED
      BY <2>2, <3>1, Induction
  <2>5. g[n] = h[n]
    <3>1. n - 1 \in Nat /\ (n - 1) + 1 = n
      BY <1>3
    <3>2. n - 1 \in Same
      BY <2>4, <3>1
    <3> QED
      BY <3>1, <3>2
  <2>6. h[n + 1] = h[n] \o s[n + 1]
    <3>1. n + 1 \in 2 .. n + 1 /\ (n + 1) - 1 = n
      BY <1>3
    <3> QED
      BY <1>1, <3>1
  <2> QED
    BY <1>1, <2>1, <2>5, <2>6
<1> QED
  BY <1>2, <1>3

-----------------------------------------------------------------------------
(* How deep files are nested. *)

(* The files all of whose directives name files of S. *)
PathAt(tree, f, k) == tree[f][k].include_path
IncludesAt(tree, f, k) == Include!IsInclude(tree[f][k])
Includers(tree, S) ==
  {f \in DOMAIN tree :
     /\ IsSequence(tree[f])
     /\ \A k \in DOMAIN tree[f] : IncludesAt(tree, f, k) => PathAt(tree, f, k) \in S}

LEMMA IncludersGrow ==
  ASSUME NEW tree, NEW S, NEW T, S \subseteq T
  PROVE  Includers(tree, S) \subseteq Includers(tree, T)
  BY DEF Includers

(* W[d] has the files nested less than d deep. *)
LEMMA NestingLevels ==
  ASSUME NEW tree, NEW n \in Nat
  PROVE  \E W : W[0] = {} /\ \A d \in 0 .. n : W[d + 1] = Includers(tree, W[d])
<1> DEFINE D(m, W) == [d \in 0 .. m |-> IF d = 0 THEN {} ELSE Includers(tree, W[d - 1])]
           Some == {m \in Nat : \E W : W = D(m, W)}
<1>1. 0 \in Some
  <2> DEFINE W == [d \in 0 .. 0 |-> {}]
  <2>1. W = D(0, W)
    OBVIOUS
  <2> QED
    BY <2>1
<1>2. ASSUME NEW m \in Nat, NEW W, W = D(m, W)
      PROVE  \E V : V = D(m + 1, V)
  <2> DEFINE new == Includers(tree, W[m])
             V == [d \in 0 .. m + 1 |-> IF d = m + 1 THEN new ELSE W[d]]
  <2> HIDE DEF new
  <2>1. ASSUME NEW d \in 0 .. m + 1
        PROVE  V[d] = IF d = 0 THEN {} ELSE Includers(tree, V[d - 1])
    <3>1. CASE d = m + 1
      <4>1. V[d] = new /\ d # 0 /\ V[d - 1] = W[m]
        BY <3>1
      <4> QED
        BY <4>1, <3>1 DEF new
    <3>2. CASE d # m + 1
      <4>1. d \in 0 .. m /\ V[d] = W[d] /\ (d # 0 => V[d - 1] = W[d - 1])
        BY <3>2
      <4>2. W[d] = IF d = 0 THEN {} ELSE Includers(tree, W[d - 1])
        BY <1>2, <4>1
      <4> QED
        BY <4>1, <4>2
    <3> QED
      BY <3>1, <3>2
  <2>2. V = [d \in 0 .. m + 1 |-> V[d]]
    OBVIOUS
  <2> HIDE DEF V
  <2>3. [d \in 0 .. m + 1 |-> V[d]] = D(m + 1, V)
    BY <2>1
  <2> QED
    BY <2>2, <2>3
<1>3. n + 1 \in Some
  <2> HIDE DEF D
  <2>1. \A m \in Nat : m \in Some => m + 1 \in Some
    BY <1>2
  <2> HIDE DEF Some
  <2> QED
    BY <1>1, <2>1, Induction
<1>4. PICK W : W = D(n + 1, W)
  BY <1>3
<1>5. W[0] = {}
  BY <1>4
<1>6. ASSUME NEW d \in 0 .. n PROVE W[d + 1] = Includers(tree, W[d])
  <2>1. d + 1 \in 0 .. n + 1 /\ d + 1 # 0 /\ (d + 1) - 1 = d
    OBVIOUS
  <2> QED
    BY <1>4, <2>1
<1> QED
  BY <1>5, <1>6

(* There are as many levels as files: what is nested at all is nested less
   deep than there are files. *)
LEMMA NestingEnds ==
  ASSUME NEW tree, IsFiniteSet(DOMAIN tree)
  PROVE  LET N == Cardinality(DOMAIN tree)
         IN  \E W : /\ W[0] = {}
                    /\ \A d \in 0 .. N : W[d + 1] = Includers(tree, W[d])
                    /\ \A d \in 0 .. N : W[d] \subseteq W[d + 1]
                    /\ W[N + 1] \subseteq W[N]
<1> DEFINE N == Cardinality(DOMAIN tree)
<1>1. N \in Nat
  BY FS_CardinalityType
<1> HIDE DEF N
<1>2. PICK W : W[0] = {} /\ \A d \in 0 .. N : W[d + 1] = Includers(tree, W[d])
  BY <1>1, NestingLevels
<1>3. ASSUME NEW d \in 0 .. N PROVE W[d + 1] \subseteq DOMAIN tree
  BY <1>2 DEF Includers
<1>4. ASSUME NEW d \in 0 .. N + 1 PROVE W[d] \subseteq DOMAIN tree
  <2>1. CASE d = 0
    BY <1>2, <2>1
  <2>2. CASE d # 0
    <3>1. d - 1 \in 0 .. N /\ (d - 1) + 1 = d
      BY <1>1, <2>2
    <3> QED
      BY <1>3, <3>1
  <2> QED
    BY <2>1, <2>2
<1> DEFINE Grows == {d \in Nat : d <= N => W[d] \subseteq W[d + 1]}
<1>5. Nat \subseteq Grows
  <2>1. 0 \in Grows
    BY <1>2
  <2>2. ASSUME NEW d \in Nat, d \in Grows
        PROVE  d + 1 \in Grows
    <3> SUFFICES ASSUME d + 1 <= N
                 PROVE  W[d + 1] \subseteq W[d + 2]
      BY DEF Grows
    <3>1. d \in 0 .. N /\ d + 1 \in 0 .. N /\ (d + 1) + 1 = d + 2
      BY <1>1
    <3>2. W[d] \subseteq W[d + 1]
      BY <2>2, <3>1
    <3>3. W[d + 1] = Includers(tree, W[d]) /\ W[d + 2] = Includers(tree, W[d + 1])
      BY <1>2, <3>1
    <3> QED
      BY <3>2, <3>3, IncludersGrow
  <2>3. \A d \in Nat : d \in Grows => d + 1 \in Grows
    BY <2>2
  <2> HIDE DEF Grows
  <2> QED
    BY <2>1, <2>3, Induction
<1>6. ASSUME NEW d \in 0 .. N PROVE W[d] \subseteq W[d + 1]
  BY <1>5
<1> DEFINE Full == {d \in Nat : d <= N => \/ W[d + 1] \subseteq W[d]
                                          \/ Cardinality(W[d]) >= d}
<1>7. Nat \subseteq Full
  <2>1. 0 \in Full
    <3>1. Cardinality(W[0]) = 0
      BY <1>2, FS_EmptySet
    <3> QED
      BY <3>1
  <2>2. ASSUME NEW d \in Nat, d \in Full
        PROVE  d + 1 \in Full
    <3> SUFFICES ASSUME d + 1 <= N, ~(W[d + 2] \subseteq W[d + 1])
                 PROVE  Cardinality(W[d + 1]) >= d + 1
      BY DEF Full
    <3>1. d \in 0 .. N /\ d + 1 \in 0 .. N /\ (d + 1) + 1 = d + 2
      BY <1>1
    <3>2. W[d + 1] = Includers(tree, W[d]) /\ W[d + 2] = Includers(tree, W[d + 1])
      BY <1>2, <3>1
    <3>3. ~(W[d + 1] \subseteq W[d])
      BY <3>2, IncludersGrow
    <3>4. W[d] \subseteq W[d + 1] /\ W[d + 1] \subseteq DOMAIN tree
      BY <1>6, <1>3, <3>1
    <3>5. IsFiniteSet(W[d + 1]) /\ IsFiniteSet(W[d])
      BY <3>4, FS_Subset
    <3>6. Cardinality(W[d]) \in Nat /\ Cardinality(W[d + 1]) \in Nat
      BY <3>5, FS_CardinalityType
    <3>7. Cardinality(W[d]) < Cardinality(W[d + 1])
      <4>1. ASSUME NEW S, NEW T, IsFiniteSet(T), S \subseteq T, ~(T \subseteq S)
            PROVE  Cardinality(S) < Cardinality(T)
        <5>1. IsFiniteSet(S) /\ Cardinality(S) <= Cardinality(T)
          BY <4>1, FS_Subset
        <5>2. Cardinality(S) # Cardinality(T)
          BY <4>1, FS_Subset
        <5>3. Cardinality(S) \in Nat /\ Cardinality(T) \in Nat
          BY <4>1, <5>1, FS_CardinalityType
        <5> QED
          BY <5>1, <5>2, <5>3
      <4> QED
        BY <3>3, <3>4, <3>5, <4>1
    <3>8. Cardinality(W[d]) >= d
      BY <2>2, <3>1, <3>3
    <3> QED
      BY <3>6, <3>7, <3>8
  <2>3. \A d \in Nat : d \in Full => d + 1 \in Full
    BY <2>2
  <2> HIDE DEF Full
  <2> QED
    BY <2>1, <2>3, Induction
<1>8. W[N + 1] \subseteq W[N]
  <2>1. N \in Full /\ W[N] \subseteq DOMAIN tree /\ W[N + 1] \subseteq DOMAIN tree
    BY <1>1, <1>4, <1>7
  <2>2. CASE Cardinality(W[N]) >= N
    <3>1. IsFiniteSet(W[N]) /\ Cardinality(W[N]) \in Nat
      BY <2>1, FS_Subset, FS_CardinalityType
    <3>2. W[N] # DOMAIN tree => Cardinality(W[N]) < N
      BY <2>1, <3>1, FS_Subset DEF N
    <3> QED
      BY <1>1, <2>1, <2>2, <3>1, <3>2
  <2> QED
    BY <1>1, <2>1, <2>2
<1> QED
  BY <1>2, <1>6, <1>8 DEF N

-----------------------------------------------------------------------------
(* The text of files, from the innermost out. *)

(* What a statement stands for at a level, and the level above. *)
Part(tree, level, f, k) ==
  IF IncludesAt(tree, f, k) THEN level[PathAt(tree, f, k)] ELSE <<tree[f][k]>>
Above(tree, level) ==
  [f \in DOMAIN tree |-> FlattenSeq([k \in DOMAIN tree[f] |-> Part(tree, level, f, k)])]
Levels(tree, n, t) ==
  [d \in 0 .. n |-> IF d = 0 THEN [f \in DOMAIN tree |-> << >>] ELSE Above(tree, t[d - 1])]
Deepest(tree) == Cardinality(DOMAIN tree)
Text(tree) == (CHOOSE t : t = Levels(tree, Deepest(tree), t))[Deepest(tree)]
Parts(tree, f) == [k \in DOMAIN tree[f] |-> Part(tree, Text(tree), f, k)]

LEMMA ExpansionIsText ==
  ASSUME NEW f
  PROVE  Include!Expansion(f) = Text(files)[f]
  BY DEF Include!Expansion, Text, Levels, Above, Part, Deepest, IncludesAt, PathAt,
         FlattenSeq, Include!FlattenSeq, Cardinality, Include!Cardinality

LEMMA LevelsExist ==
  ASSUME NEW tree, NEW n \in Nat
  PROVE  \E t : t = Levels(tree, n, t)
<1> DEFINE Some == {m \in Nat : \E t : t = Levels(tree, m, t)}
<1>1. 0 \in Some
  <2> DEFINE t == [d \in 0 .. 0 |-> [f \in DOMAIN tree |-> << >>]]
  <2>1. t = Levels(tree, 0, t)
    BY DEF Levels
  <2> QED
    BY <2>1
<1>2. ASSUME NEW m \in Nat, NEW t, t = Levels(tree, m, t)
      PROVE  \E u : u = Levels(tree, m + 1, u)
  <2> DEFINE new == Above(tree, t[m])
             nothing == [f \in DOMAIN tree |-> << >>]
             u == [d \in 0 .. m + 1 |-> IF d = m + 1 THEN new ELSE t[d]]
  <2> HIDE DEF new, nothing
  <2>1. ASSUME NEW d \in 0 .. m + 1
        PROVE  u[d] = IF d = 0 THEN nothing ELSE Above(tree, u[d - 1])
    <3>1. CASE d = m + 1
      <4>1. u[d] = new /\ d # 0 /\ u[d - 1] = t[m]
        BY <3>1
      <4> QED
        BY <4>1 DEF new
    <3>2. CASE d # m + 1
      <4>1. d \in 0 .. m /\ u[d] = t[d] /\ (d # 0 => u[d - 1] = t[d - 1])
        BY <3>2
      <4>2. t[d] = IF d = 0 THEN nothing ELSE Above(tree, t[d - 1])
        BY <1>2, <4>1 DEF Levels, nothing
      <4> QED
        BY <4>1, <4>2
    <3> QED
      BY <3>1, <3>2
  <2>2. u = [d \in 0 .. m + 1 |-> u[d]]
    OBVIOUS
  <2> HIDE DEF u
  <2>3. [d \in 0 .. m + 1 |-> u[d]] = Levels(tree, m + 1, u)
    BY <2>1 DEF Levels, nothing
  <2> QED
    BY <2>2, <2>3
<1>3. \A m \in Nat : m \in Some => m + 1 \in Some
  BY <1>2
<1> HIDE DEF Some
<1>4. n \in Some
  BY <1>1, <1>3, Induction
<1> QED
  BY <1>4 DEF Some

(* A file that is nested less than d deep has its text from level d on. *)
LEMMA TextSettles ==
  ASSUME NEW tree, NEW n \in Nat, NEW t, t = Levels(tree, n, t),
         NEW W, W[0] = {}, \A d \in 0 .. n : W[d + 1] = Includers(tree, W[d]),
         NEW d \in 0 .. n
  PROVE  \A f \in W[d] : \A e \in d .. n : t[e][f] = t[d][f]
<1> DEFINE Settled == {m \in Nat : m <= n => \A f \in W[m] : \A e \in m .. n : t[e][f] = t[m][f]}
<1>1. 0 \in Settled
  OBVIOUS
<1>2. ASSUME NEW e \in 1 .. n
      PROVE  t[e] = Above(tree, t[e - 1])
  <2> DEFINE nothing == [f \in DOMAIN tree |-> << >>]
  <2> HIDE DEF nothing
  <2>1. e \in 0 .. n /\ e # 0
    OBVIOUS
  <2>2. t[e] = IF e = 0 THEN nothing ELSE Above(tree, t[e - 1])
    BY <2>1 DEF Levels, nothing
  <2> QED
    BY <2>1, <2>2
<1>3. ASSUME NEW m \in Nat, m \in Settled
      PROVE  m + 1 \in Settled
  <2> SUFFICES ASSUME m + 1 <= n, NEW f \in W[m + 1], NEW e \in m + 1 .. n
               PROVE  t[e][f] = t[m + 1][f]
    OBVIOUS
  <2>1. m \in 0 .. n /\ e \in 1 .. n /\ m + 1 \in 1 .. n /\ e - 1 \in m .. n
    OBVIOUS
  <2>2. \A g \in W[m] : t[e - 1][g] = t[m][g]
    BY <1>3, <2>1
  <2>3. f \in DOMAIN tree /\ \A k \in DOMAIN tree[f] :
                               IncludesAt(tree, f, k) => PathAt(tree, f, k) \in W[m]
    <3>1. f \in Includers(tree, W[m])
      BY <2>1
    <3> QED
      BY <3>1 DEF Includers
  <2>4. ASSUME NEW k \in DOMAIN tree[f]
        PROVE  Part(tree, t[e - 1], f, k) = Part(tree, t[m], f, k)
    BY <2>2, <2>3 DEF Part
  <2>5. [k \in DOMAIN tree[f] |-> Part(tree, t[e - 1], f, k)]
          = [k \in DOMAIN tree[f] |-> Part(tree, t[m], f, k)]
    BY <2>4
  <2>6. t[e] = Above(tree, t[e - 1]) /\ t[m + 1] = Above(tree, t[m])
    <3>1. (m + 1) - 1 = m
      OBVIOUS
    <3> QED
      BY <1>2, <2>1, <3>1
  <2>7. ASSUME NEW level
        PROVE  Above(tree, level)[f] = FlattenSeq([k \in DOMAIN tree[f] |-> Part(tree, level, f, k)])
    BY <2>3 DEF Above
  <2> QED
    BY <2>5, <2>6, <2>7
<1>4. \A m \in Nat : m \in Settled => m + 1 \in Settled
  BY <1>3
<1>5. Nat \subseteq Settled
  <2> HIDE DEF Settled
  <2> QED
    BY <1>1, <1>4, Induction
<1> QED
  BY <1>5

(* A set of files that has every file whose directives name only files of the
   set; their texts are what their statements stand for. *)
Closed(tree, E) ==
  \A f \in Includers(tree, E) : f \in E /\ Text(tree)[f] = FlattenSeq(Parts(tree, f))
Ended(tree) == CHOOSE E : Closed(tree, E)

LEMMA TextsEnd ==
  ASSUME NEW tree, IsFiniteSet(DOMAIN tree)
  PROVE  Closed(tree, Ended(tree))
<1> DEFINE N == Deepest(tree)
<1>1. N \in Nat
  BY FS_CardinalityType DEF Deepest
<1>2. PICK W : /\ W[0] = {}
               /\ \A d \in 0 .. N : W[d + 1] = Includers(tree, W[d])
               /\ \A d \in 0 .. N : W[d] \subseteq W[d + 1]
               /\ W[N + 1] \subseteq W[N]
  BY NestingEnds DEF Deepest
<1> DEFINE t == CHOOSE u : u = Levels(tree, N, u)
<1>3. t = Levels(tree, N, t)
  <2> HIDE DEF N
  <2> QED
    BY <1>1, LevelsExist
<1>4. Text(tree) = t[N]
  BY DEF Text
<1> HIDE DEF N, t
<1>5. ASSUME NEW f \in Includers(tree, W[N])
      PROVE  f \in W[N] /\ t[N][f] = FlattenSeq([k \in DOMAIN tree[f] |-> Part(tree, t[N], f, k)])
  <2>1. f \in W[N]
    BY <1>1, <1>2
  <2>2. N # 0
    BY <1>2, <2>1
  <2>3. N - 1 \in 0 .. N /\ (N - 1) + 1 = N /\ N \in N - 1 .. N /\ N \in 0 .. N
    BY <1>1, <2>2
  <2>4. W[N] = Includers(tree, W[N - 1])
    BY <1>2, <2>3
  <2>5. \A g \in W[N - 1] : t[N][g] = t[N - 1][g]
    BY <1>1, <1>2, <1>3, <2>3, TextSettles
  <2>6. t[N] = Above(tree, t[N - 1])
    <3> DEFINE nothing == [g \in DOMAIN tree |-> << >>]
    <3> HIDE DEF nothing
    <3>1. t[N] = IF N = 0 THEN nothing ELSE Above(tree, t[N - 1])
      BY <1>3, <2>3 DEF Levels, nothing
    <3> QED
      BY <2>2, <3>1
  <2>7. f \in DOMAIN tree /\ \A k \in DOMAIN tree[f] :
                               IncludesAt(tree, f, k) => PathAt(tree, f, k) \in W[N - 1]
    BY <2>1, <2>4 DEF Includers
  <2>8. ASSUME NEW k \in DOMAIN tree[f]
        PROVE  Part(tree, t[N], f, k) = Part(tree, t[N - 1], f, k)
    BY <2>5, <2>7 DEF Part
  <2>9. [k \in DOMAIN tree[f] |-> Part(tree, t[N], f, k)]
          = [k \in DOMAIN tree[f] |-> Part(tree, t[N - 1], f, k)]
    BY <2>8
  <2>10. t[N][f] = FlattenSeq([k \in DOMAIN tree[f] |-> Part(tree, t[N - 1], f, k)])
    BY <2>6, <2>7 DEF Above
  <2> QED
    BY <2>1, <2>9, <2>10
<1>6. Closed(tree, W[N])
  BY <1>4, <1>5 DEF Closed, Parts
<1> QED
  BY <1>6 DEF Ended

-----------------------------------------------------------------------------
(* The calls of ProcessProgram. *)

(* What a call has collected are the parts of its file before its next
   statement; the files it has included are done. *)
CallIsOn(tree, call) ==
  /\ call = [file |-> call.file, next |-> call.next, result |-> call.result]
  /\ call.file \in DOMAIN tree /\ IsSequence(tree[call.file])
  /\ call.next \in 1 .. Len(tree[call.file]) + 1
  /\ IsSequence(call.result)
  /\ \A k \in 1 .. call.next - 1 :
       IncludesAt(tree, call.file, k) => PathAt(tree, call.file, k) \in Ended(tree)
  /\ call.result = FlattenSeq(First(call.next - 1, Parts(tree, call.file)))

(* It waits for a file that its next statement includes. *)
WaitsFor(tree, call, f) ==
  /\ call.next <= Len(tree[call.file])
  /\ IncludesAt(tree, call.file, call.next) /\ PathAt(tree, call.file, call.next) = f

(* A call with more collected. *)
Further(call, more) == [call EXCEPT !.next = @ + 1, !.result = @ \o more]

LEMMA CallUpdated ==
  ASSUME NEW more,
         NEW call, call = [file |-> call.file, next |-> call.next, result |-> call.result]
  PROVE  /\ Further(call, more) = [file |-> Further(call, more).file,
                                   next |-> Further(call, more).next,
                                   result |-> Further(call, more).result]
         /\ Further(call, more).file = call.file
         /\ Further(call, more).next = call.next + 1
         /\ Further(call, more).result = call.result \o more
<1> DEFINE new == Further(call, more)
<1>1. DOMAIN call = {"file", "next", "result"}
  OBVIOUS
<1>2. new = [k \in DOMAIN call |-> new[k]]
  BY DEF Further
<1>3. new.file = call.file
  BY <1>1 DEF Further
<1>4. new.next = call.next + 1
  BY <1>1 DEF Further
<1>5. new.result = call.result \o more
  BY <1>1 DEF Further
<1> HIDE DEF new
<1>6. new = [file |-> new.file, next |-> new.next, result |-> new.result]
  BY <1>1, <1>2
<1> QED
  BY <1>3, <1>4, <1>5, <1>6 DEF new

LEMMA CallGoesOn ==
  ASSUME NEW tree, NEW call, CallIsOn(tree, call), call.next <= Len(tree[call.file]),
         NEW more, IsSequence(more), more = Part(tree, Text(tree), call.file, call.next),
         IncludesAt(tree, call.file, call.next) =>
           PathAt(tree, call.file, call.next) \in Ended(tree)
  PROVE  CallIsOn(tree, Further(call, more)) /\ Further(call, more).file = call.file
<1> DEFINE f == call.file
           n == call.next
           r == call.result
           new == Further(call, more)
<1>1. /\ f \in DOMAIN tree /\ IsSequence(tree[f])
      /\ n \in 1 .. Len(tree[f]) + 1 /\ IsSequence(r)
      /\ \A k \in 1 .. n - 1 : IncludesAt(tree, f, k) => PathAt(tree, f, k) \in Ended(tree)
      /\ r = FlattenSeq(First(n - 1, Parts(tree, f)))
  BY DEF CallIsOn
<1>2. Len(tree[f]) \in Nat /\ DOMAIN tree[f] = 1 .. Len(tree[f])
  BY <1>1, SequenceFacts
<1>3. n \in 1 .. Len(tree[f]) /\ n - 1 \in Nat /\ (n - 1) + 1 = n /\ (n + 1) - 1 = n
  BY <1>1, <1>2
<1>4. more = Part(tree, Text(tree), f, n)
      /\ (IncludesAt(tree, f, n) => PathAt(tree, f, n) \in Ended(tree))
  OBVIOUS
<1>5. /\ new = [file |-> new.file, next |-> new.next, result |-> new.result]
      /\ new.file = call.file /\ new.next = call.next + 1 /\ new.result = call.result \o more
  <2>1. call = [file |-> call.file, next |-> call.next, result |-> call.result]
    BY DEF CallIsOn
  <2> HIDE DEF f, n, r, new
  <2> QED
    BY <2>1, CallUpdated DEF new
<1>6. new = [file |-> new.file, next |-> new.next, result |-> new.result]
  BY <1>5
<1>7. new.file = f /\ new.next = n + 1 /\ new.result = r \o more
  BY <1>5
<1> HIDE DEF f, n, r, new
<1>8. Parts(tree, f)[n] = more
  BY <1>2, <1>3, <1>4 DEF Parts
<1>9. FlattenSeq(First(n, Parts(tree, f))) = r \o more
  <2> DEFINE parts == Parts(tree, f)
             m == n - 1
  <2>1. m \in Nat /\ m + 1 = n /\ parts[m + 1] = more
    BY <1>3, <1>8
  <2>2. r = FlattenSeq(First(m, parts))
    BY <1>1
  <2> HIDE DEF parts, m
  <2>3. IsSequence(parts[m + 1])
    BY <2>1
  <2>4. FlattenSeq(First(m + 1, parts)) = FlattenSeq(First(m, parts)) \o parts[m + 1]
    BY <2>1, <2>3, FlattenNext
  <2> QED
    BY <2>1, <2>2, <2>4 DEF parts
<1>10. IsSequence(r \o more)
  BY <1>1, JoinFacts
<1>11. ASSUME NEW k \in 1 .. n, IncludesAt(tree, f, k)
       PROVE  PathAt(tree, f, k) \in Ended(tree)
  <2>1. k = n \/ k \in 1 .. n - 1
    BY <1>3
  <2> QED
    BY <1>1, <1>4, <1>11, <2>1
<1>12. n + 1 \in 1 .. Len(tree[f]) + 1 /\ new.next - 1 = n
  BY <1>2, <1>3, <1>7
<1>13. CallIsOn(tree, new)
  BY <1>1, <1>6, <1>7, <1>9, <1>10, <1>11, <1>12 DEF CallIsOn
<1> QED
  BY <1>7, <1>13 DEF new, f

(* A call that is through its file has the text of it. *)
LEMMA CallEnds ==
  ASSUME NEW tree, IsFiniteSet(DOMAIN tree),
         NEW call, CallIsOn(tree, call), call.next > Len(tree[call.file])
  PROVE  call.file \in Ended(tree) /\ Text(tree)[call.file] = call.result
<1> DEFINE f == call.file
           n == call.next
<1>1. /\ f \in DOMAIN tree /\ IsSequence(tree[f])
      /\ n \in 1 .. Len(tree[f]) + 1
      /\ \A k \in 1 .. n - 1 : IncludesAt(tree, f, k) => PathAt(tree, f, k) \in Ended(tree)
      /\ call.result = FlattenSeq(First(n - 1, Parts(tree, f)))
  BY DEF CallIsOn
<1>2. Len(tree[f]) \in Nat /\ DOMAIN tree[f] = 1 .. Len(tree[f])
  BY <1>1, SequenceFacts
<1>3. n - 1 = Len(tree[f])
  BY <1>1, <1>2
<1>4. f \in Includers(tree, Ended(tree))
  BY <1>1, <1>2, <1>3 DEF Includers
<1>5. f \in Ended(tree) /\ Text(tree)[f] = FlattenSeq(Parts(tree, f))
  BY <1>4, TextsEnd DEF Closed
<1>6. First(n - 1, Parts(tree, f)) = Parts(tree, f)
  BY <1>2, <1>3 DEF First, Parts
<1> QED
  BY <1>1, <1>5, <1>6

LEMMA FrontFacts ==
  ASSUME NEW s, IsSequence(s), s # << >>
  PROVE  /\ IsSequence(Include!Front(s)) /\ Len(Include!Front(s)) = Len(s) - 1
         /\ \A k \in 1 .. Len(s) - 1 : Include!Front(s)[k] = s[k]
         /\ Len(s) \in Nat /\ Len(s) >= 1
<1> DEFINE S == Range(s)
<1>1. s \in Seq(S)
  BY DEF IsSequence
<1>2. Len(s) \in Nat /\ Len(s) >= 1
  BY SequenceFacts
<1> HIDE DEF S
<1>3. /\ SubSeq(s, 1, Len(s) - 1) \in Seq(S) /\ Len(SubSeq(s, 1, Len(s) - 1)) = Len(s) - 1
      /\ \A k \in 1 .. Len(s) - 1 : SubSeq(s, 1, Len(s) - 1)[k] = s[k]
  <2> DEFINE n == Len(s) - 1
  <2>1. n \in Nat /\ \A k \in 1 .. n : s[k] \in S
    BY <1>1, <1>2
  <2> HIDE DEF n
  <2>2. /\ SubSeq(s, 1, n) \in Seq(S)
        /\ Len(SubSeq(s, 1, n)) = IF 1 <= n THEN n - 1 + 1 ELSE 0
        /\ \A k \in 1 .. n - 1 + 1 : SubSeq(s, 1, n)[k] = s[1 + k - 1]
    BY <2>1, SubSeqProperties
  <2>3. n - 1 + 1 = n /\ \A k \in 1 .. n : 1 + k - 1 = k
    BY <2>1
  <2> QED
    BY <2>1, <2>2, <2>3 DEF n
<1>5. IsSequence(SubSeq(s, 1, Len(s) - 1))
  BY <1>3, SequenceOf
<1> QED
  BY <1>2, <1>3, <1>5 DEF Include!Front

LEMMA LastReplaced ==
  ASSUME NEW s, IsSequence(s), s # << >>, NEW e
  PROVE  /\ IsSequence(Append(Include!Front(s), e)) /\ Len(Append(Include!Front(s), e)) = Len(s)
         /\ \A k \in 1 .. Len(s) - 1 : Append(Include!Front(s), e)[k] = s[k]
         /\ Append(Include!Front(s), e)[Len(s)] = e
<1> DEFINE front == Include!Front(s)
<1>1. IsSequence(front) /\ Len(front) = Len(s) - 1 /\ Len(s) \in Nat
      /\ \A k \in 1 .. Len(s) - 1 : front[k] = s[k]
  BY FrontFacts
<1> HIDE DEF front
<1>2. /\ IsSequence(Append(front, e)) /\ Len(Append(front, e)) = Len(front) + 1
      /\ Append(front, e)[Len(front) + 1] = e
      /\ \A k \in 1 .. Len(front) : Append(front, e)[k] = front[k]
  BY <1>1, AppendFacts
<1> QED
  BY <1>1, <1>2 DEF front

-----------------------------------------------------------------------------
(***************************************************************************)
(* The inductive invariant of the include processor.                       *)
(***************************************************************************)

Reason ==
  \/ \E f \in DOMAIN files : files[f] = Garbage
  \/ \E f \in DOMAIN files : \E s \in Range(files[f]) :
       Include!IsInclude(s) /\ s.include_path \notin DOMAIN files

(* Every call but the innermost waits for the one above it, and the innermost
   for the file that is being loaded. *)
CallsInv ==
  /\ IsSequence(frames) /\ frames # << >> /\ frames[1].file = Root
  /\ \A n \in 1 .. Len(frames) : CallIsOn(files, frames[n])
  /\ \A n \in 1 .. Len(frames) - 1 : WaitsFor(files, frames[n], frames[n + 1].file)
  /\ loading # << >> => WaitsFor(files, frames[Len(frames)], loading[1])

IncludeInv ==
  /\ IsFiniteSet(DOMAIN files) /\ Root \in DOMAIN files
  /\ \A f \in DOMAIN files : files[f] = Garbage \/ IsSequence(files[f])
  /\ IsSequence(statements)
  /\ error \in BOOLEAN
  /\ error => stage = "include" /\ Reason
  /\ loading = << >> => include_stack = {}
  /\ loading # << >> => loading[1] \in DOMAIN files /\ include_stack = {loading[1]}
  /\ stage = "parse" => frames = <<Include!Frame(Root)>> /\ loading = << >>
  /\ stage \notin {"parse", "error"} => CallsInv
  /\ stage \in {"first_pass", "encode", "done"} => program = Text(files)[Root]

LEMMA ErrorType ==
  ASSUME IncludeInv
  PROVE  error \in BOOLEAN
  BY Zenon DEF IncludeInv

LEMMA IncludeInvInit == AssembleInit => IncludeInv
<1> SUFFICES ASSUME AssembleInit PROVE IncludeInv
  OBVIOUS
<1>1. stage = "parse" /\ frames = <<Include!Frame(Root)>> /\ loading = << >>
      /\ include_stack = {} /\ error = FALSE /\ statements = << >>
  BY DEF AssembleInit, Init, Include!Init
<1>2. options \in Options /\ files \in Trees(options)
  BY DEF AssembleInit
<1>3. /\ IsFiniteSet(DOMAIN files) /\ Root \in DOMAIN files
      /\ \A f \in DOMAIN files : files[f] = Garbage \/ IsSequence(files[f])
  BY <1>2, FilesAssumption DEF FilesAssumption
<1> QED
  BY <1>1, <1>3, EmptySequence DEF IncludeInv

(* The statement at which a call is. *)
LEMMA StatementFacts ==
  ASSUME CallsInv, ~Include!AtEnd
  PROVE  LET top == frames[Len(frames)]
         IN  /\ Include!Top = top /\ top.next \in DOMAIN files[top.file]
             /\ CallIsOn(files, top) /\ top.next <= Len(files[top.file])
             /\ Include!Statement = files[top.file][top.next]
<1> DEFINE top == frames[Len(frames)]
<1>1. Len(frames) \in 1 .. Len(frames)
  BY SequenceFacts DEF CallsInv
<1>2. Include!Top = top
  BY DEF Include!Top, Include!Last
<1>3. CallIsOn(files, top)
  BY <1>1 DEF CallsInv
<1>4. top.next <= Len(files[top.file]) /\ IsSequence(files[top.file])
      /\ top.next \in 1 .. Len(files[top.file]) + 1
  <2> HIDE DEF top
  <2>1. IsSequence(files[top.file]) /\ top.next \in 1 .. Len(files[top.file]) + 1
    BY <1>3 DEF CallIsOn
  <2>2. Len(files[top.file]) \in Nat
    BY <2>1, SequenceFacts
  <2> QED
    BY <1>2, <2>1, <2>2 DEF Include!AtEnd
<1>5. top.next \in DOMAIN files[top.file]
  <2> HIDE DEF top
  <2> QED
    BY <1>4, SequenceFacts
<1> QED
  BY <1>2, <1>3, <1>4, <1>5 DEF Include!Statement

(* The innermost call goes on. *)
LEMMA CallsGoOn ==
  ASSUME NEW calls, IsSequence(calls), calls # << >>, calls[1].file = Root,
         \A n \in 1 .. Len(calls) : CallIsOn(files, calls[n]),
         \A n \in 1 .. Len(calls) - 1 : WaitsFor(files, calls[n], calls[n + 1].file),
         NEW more, IsSequence(more),
         LET top == calls[Len(calls)]
         IN  /\ top.next <= Len(files[top.file])
             /\ more = Part(files, Text(files), top.file, top.next)
             /\ IncludesAt(files, top.file, top.next) =>
                  PathAt(files, top.file, top.next) \in Ended(files),
         frames' = Include!Collect(calls, more), files' = files, loading' = << >>
  PROVE  CallsInv'
<1> DEFINE N == Len(calls)
           top == calls[N]
           new == Further(top, more)
<1>1. frames' = Append(Include!Front(calls), new)
  BY DEF Include!Collect, Include!Last, Further
<1>2. N \in Nat /\ N >= 1
  BY SequenceFacts
<1>3. CallIsOn(files, top)
  BY <1>2
<1>4. CallIsOn(files, new) /\ new.file = top.file
  <2> HIDE DEF top, N
  <2> QED
    BY <1>3, CallGoesOn DEF top, N
<1>5. /\ IsSequence(frames') /\ Len(frames') = N /\ frames'[N] = new
      /\ \A k \in 1 .. N - 1 : frames'[k] = calls[k]
  <2> HIDE DEF new, N
  <2>1. /\ IsSequence(Append(Include!Front(calls), new))
        /\ Len(Append(Include!Front(calls), new)) = Len(calls)
        /\ \A k \in 1 .. Len(calls) - 1 : Append(Include!Front(calls), new)[k] = calls[k]
        /\ Append(Include!Front(calls), new)[Len(calls)] = new
    BY LastReplaced
  <2> QED
    BY <1>1, <2>1 DEF N
<1>6. frames' # << >>
  BY <1>2, <1>5, SequenceFacts
<1> HIDE DEF new
<1>7. ASSUME NEW n \in 1 .. N
      PROVE  CallIsOn(files, frames'[n]) /\ frames'[n].file = calls[n].file
  <2>1. CASE n = N
    BY <1>4, <1>5, <2>1
  <2>2. CASE n # N
    BY <1>2, <1>5, <2>2
  <2> QED
    BY <2>1, <2>2
<1>8. ASSUME NEW n \in 1 .. N - 1
      PROVE  WaitsFor(files, frames'[n], frames'[n + 1].file)
  <2>1. n + 1 \in 1 .. N /\ frames'[n] = calls[n]
    BY <1>2, <1>5
  <2> QED
    BY <1>7, <2>1
<1>9. frames'[1].file = Root
  BY <1>2, <1>7
<1> HIDE DEF N
<1> QED
  BY <1>5, <1>6, <1>7, <1>8, <1>9 DEF CallsInv

LEMMA StatementsGrow ==
  ASSUME IsSequence(statements), ReadNext
  PROVE  IsSequence(statements')
<1>1. CASE statements' = statements
  BY <1>1
<1>2. CASE \E stmt : statements' = Append(statements, stmt)
  BY <1>2, AppendFacts
<1> QED
  <2>1. statements' = statements \/ \E stmt : statements' = Append(statements, stmt)
    BY DEF ReadNext, ConsumeNewline, ParseLabel, ParseStatement, FinishLine, ParserDone, parseVars
  <2> QED
    BY <1>1, <1>2, <2>1

(* A step of the passes. *)
LEMMA PassSteps ==
  ASSUME Next
  PROVE  /\ stage \in {"first_pass", "encode"}
         /\ stage' \in {"first_pass", "encode", "done", "error"}
         /\ program' = program
  BY DEF Next, RefuseStatement, LabelDecl, EquDecl, Org, ByteDirective, InstructionStmt,
         BeginEncode, RefuseItem, EncodeItem, Finish, Accept, Throw

(* Include vars stay. *)
LEMMA IncludesStay ==
  ASSUME IncludeInv, UNCHANGED includeVars, IsSequence(statements'),
         \/ stage' = stage
         \/ stage # "parse" /\ stage' # "parse" /\ (stage = "include" => ~error),
         error => stage' = "include",
         stage = "error" => stage' = "error",
         stage' \in {"first_pass", "encode", "done"} => program' = Text(files)[Root]
  PROVE  IncludeInv'
<1>1. files' = files /\ frames' = frames /\ loading' = loading /\ error' = error
      /\ include_stack' = include_stack
  BY DEF includeVars
<1>2. Reason' <=> Reason
  BY <1>1 DEF Reason
<1>3. CallsInv' <=> CallsInv
  BY <1>1 DEF CallsInv
<1> QED
  BY <1>1, <1>2, <1>3 DEF IncludeInv

LEMMA ParsedRoot ==
  ASSUME IncludeInv, ParseRoot
  PROVE  IncludeInv'
<1>1. stage = "parse" /\ ~error /\ frames = <<Include!Frame(Root)>> /\ loading = << >>
      /\ include_stack = {}
  BY DEF ParseRoot, SourceRejected, SourceParsed, IncludeInv
<1>2. /\ frames' = frames /\ loading' = loading /\ error' = error
      /\ include_stack' = include_stack /\ statements' = statements
  BY DEF ParseRoot, readVars, parseVars
<1>3. CASE SourceRejected /\ files' = files
  <2>1. stage' = "error"
    BY <1>3 DEF SourceRejected, Throw
  <2> QED
    BY <1>1, <1>2, <1>3, <2>1 DEF IncludeInv
<1>4. CASE /\ SourceParsed /\ files[Root] # Garbage
           /\ files' = IF reading = "none" THEN files ELSE [files EXCEPT ![Root] = statements]
  <2>1. stage' = "include"
    BY <1>4 DEF SourceParsed
  <2>2. /\ DOMAIN files' = DOMAIN files /\ IsSequence(files'[Root])
        /\ \A f \in DOMAIN files : f # Root => files'[f] = files[f]
    BY <1>4 DEF IncludeInv
  <2>3. /\ IsFiniteSet(DOMAIN files') /\ Root \in DOMAIN files'
        /\ \A f \in DOMAIN files' : files'[f] = Garbage \/ IsSequence(files'[f])
    BY <2>2 DEF IncludeInv
  <2> DEFINE call == Include!Frame(Root)
  <2>4. call.file = Root /\ call.next = 1 /\ call.result = << >>
        /\ call = [file |-> call.file, next |-> call.next, result |-> call.result]
    BY DEF Include!Frame
  <2>5. CallIsOn(files', call)
    <3> HIDE DEF call
    <3>1. Len(files'[Root]) \in Nat
      BY <2>2, SequenceFacts
    <3>2. 1 \in 1 .. Len(files'[Root]) + 1 /\ 1 - 1 = 0
      BY <3>1
    <3>3. FlattenSeq(First(0, Parts(files', Root))) = << >>
      BY FlattenNothing
    <3>4. \A k \in 1 .. 0 : FALSE
      OBVIOUS
    <3> QED
      BY <2>2, <2>3, <2>4, <3>2, <3>3, <3>4, EmptySequence DEF CallIsOn
  <2>6. frames' = <<call>> /\ loading' = << >>
    BY <1>1, <1>2
  <2>7. CallsInv'
    <3> HIDE DEF call
    <3>1. IsSequence(<<call>>) /\ Len(<<call>>) = 1 /\ <<call>>[1] = call /\ <<call>> # << >>
      <4>1. <<call>> \in Seq({call})
        OBVIOUS
      <4> QED
        BY <4>1, SequenceOf
    <3>2. \A n \in 1 .. 1 : n = 1
      OBVIOUS
    <3>3. \A n \in 1 .. 1 - 1 : FALSE
      OBVIOUS
    <3> QED
      BY <2>4, <2>5, <2>6, <3>1, <3>2, <3>3 DEF CallsInv
  <2> QED
    BY <1>1, <1>2, <2>1, <2>3, <2>7 DEF IncludeInv
<1> QED
  BY <1>3, <1>4 DEF ParseRoot

(* A step of the include processor keeps all but the calls, and those. *)
LEMMA ProcessKeeps ==
  ASSUME IncludeInv, ProcessIncludes, error' \in BOOLEAN, error' => Reason,
         loading' = << >> => include_stack' = {},
         loading' # << >> => loading'[1] \in DOMAIN files /\ include_stack' = {loading'[1]},
         CallsInv'
  PROVE  IncludeInv'
<1>1. stage = "include" /\ stage' = "include" /\ program' = program
      /\ statements' = statements /\ files' = files
  BY DEF ProcessIncludes, vars, readVars, parseVars, Include!Next, Include!CopyStatement,
         Include!BeginInclude, Include!FileParsed, Include!Return
<1>2. Reason' <=> Reason
  BY <1>1 DEF Reason
<1> QED
  BY <1>1, <1>2 DEF IncludeInv

LEMMA Copied ==
  ASSUME IncludeInv, ProcessIncludes, Include!CopyStatement
  PROVE  IncludeInv'
<1> DEFINE top == frames[Len(frames)]
<1>1. CallsInv
  BY DEF IncludeInv, ProcessIncludes
<1>2. ~Include!AtEnd /\ ~Include!IsInclude(Include!Statement)
      /\ frames' = Include!Collect(frames, <<Include!Statement>>)
      /\ files' = files /\ include_stack' = include_stack /\ loading' = loading
      /\ error' = error /\ loading = << >> /\ ~error /\ include_stack = {}
  BY DEF Include!CopyStatement, Include!Running, IncludeInv
<1>3. /\ top.next <= Len(files[top.file])
      /\ Include!Statement = files[top.file][top.next]
  BY <1>1, <1>2, StatementFacts
<1>4. <<Include!Statement>> = Part(files, Text(files), top.file, top.next)
      /\ ~IncludesAt(files, top.file, top.next)
  BY <1>2, <1>3 DEF Part, IncludesAt
<1>5. IsSequence(<<Include!Statement>>)
  <2> DEFINE stmt == Include!Statement
  <2> HIDE DEF stmt
  <2>1. <<stmt>> \in Seq({stmt})
    OBVIOUS
  <2> QED
    BY <2>1, SequenceOf DEF stmt
<1>6. CallsInv'
  <2> DEFINE more == <<Include!Statement>>
  <2> HIDE DEF more
  <2>1. IsSequence(more) /\ frames' = Include!Collect(frames, more) /\ loading' = << >>
        /\ more = Part(files, Text(files), top.file, top.next)
    BY <1>2, <1>4, <1>5 DEF more
  <2>2. /\ IsSequence(frames) /\ frames # << >> /\ frames[1].file = Root
        /\ \A n \in 1 .. Len(frames) : CallIsOn(files, frames[n])
        /\ \A n \in 1 .. Len(frames) - 1 : WaitsFor(files, frames[n], frames[n + 1].file)
    BY <1>1 DEF CallsInv
  <2> QED
    BY <1>2, <1>3, <1>4, <2>1, <2>2, CallsGoOn
<1>7. error' \in BOOLEAN /\ ~error' /\ include_stack' = {} /\ loading' = << >>
  BY <1>2, ErrorType
<1> QED
  BY <1>6, <1>7, ProcessKeeps

LEMMA IncludeBegun ==
  ASSUME IncludeInv, ProcessIncludes, Include!BeginInclude
  PROVE  IncludeInv'
<1> DEFINE top == frames[Len(frames)]
           path == Include!Statement.include_path
<1>1. CallsInv
  BY DEF IncludeInv, ProcessIncludes
<1>2. /\ ~Include!AtEnd /\ Include!IsInclude(Include!Statement)
      /\ files' = files /\ frames' = frames /\ loading = << >> /\ ~error
      /\ include_stack = {}
  BY DEF Include!BeginInclude, Include!Running, IncludeInv
<1>3. /\ CallIsOn(files, top) /\ top.next \in DOMAIN files[top.file]
      /\ Include!Statement = files[top.file][top.next] /\ top.next <= Len(files[top.file])
  BY <1>1, <1>2, StatementFacts
<1>4. CASE path \notin DOMAIN files
  <2>1. error' = TRUE /\ include_stack' = include_stack /\ loading' = loading
    BY <1>4 DEF Include!BeginInclude
  <2>2. top.file \in DOMAIN files /\ Include!Statement \in Range(files[top.file])
    BY <1>3 DEF CallIsOn, Range
  <2>3. Reason
    BY <1>2, <1>4, <2>2 DEF Reason
  <2>4. CallsInv'
    BY <1>1, <1>2, <2>1 DEF CallsInv
  <2> QED
    BY <1>2, <2>1, <2>3, <2>4, ProcessKeeps
<1>5. CASE path \in DOMAIN files
  <2>1. error' = error /\ include_stack' = {path} /\ loading' = <<path>>
    BY <1>2, <1>5 DEF Include!BeginInclude
  <2>2. WaitsFor(files, top, path)
    BY <1>2, <1>3 DEF WaitsFor, IncludesAt, PathAt
  <2> HIDE DEF top, path
  <2>3. loading'[1] = path /\ loading' # << >>
    BY <2>1
  <2>4. CallsInv'
    BY <1>1, <1>2, <2>2, <2>3 DEF CallsInv, top
  <2>5. error' \in BOOLEAN /\ ~error'
    BY <1>2, <2>1, ErrorType
  <2> QED
    BY <1>5, <2>1, <2>3, <2>4, <2>5, ProcessKeeps
<1> QED
  BY <1>4, <1>5

LEMMA FileLoaded ==
  ASSUME IncludeInv, ProcessIncludes, Include!FileParsed
  PROVE  IncludeInv'
<1> DEFINE f == loading[1]
           N == Len(frames)
<1>1. CallsInv
  BY DEF IncludeInv, ProcessIncludes
<1>2. /\ ~error /\ loading # << >> /\ files' = files /\ f \in DOMAIN files
      /\ include_stack = {f}
  BY DEF Include!FileParsed, IncludeInv
<1>3. CASE files[f] = Garbage
  <2>1. error' = TRUE /\ frames' = frames /\ include_stack' = include_stack
        /\ loading' = loading
    BY <1>3 DEF Include!FileParsed
  <2>2. Reason
    BY <1>2, <1>3 DEF Reason
  <2>3. CallsInv'
    BY <1>1, <1>2, <2>1 DEF CallsInv
  <2> QED
    BY <1>2, <2>1, <2>2, <2>3, ProcessKeeps
<1>4. CASE files[f] # Garbage
  <2> DEFINE call == Include!Frame(f)
  <2>1. error' = error /\ frames' = Append(frames, call) /\ include_stack' = {}
        /\ loading' = << >>
    BY <1>2, <1>4 DEF Include!FileParsed
  <2>2. IsSequence(files[f])
    BY <1>2, <1>4 DEF IncludeInv
  <2>3. call.file = f /\ call.next = 1 /\ call.result = << >>
        /\ call = [file |-> call.file, next |-> call.next, result |-> call.result]
    BY DEF Include!Frame
  <2>4. CallIsOn(files, call)
    <3> HIDE DEF call, f
    <3>1. Len(files[f]) \in Nat
      BY <2>2, SequenceFacts
    <3>2. 1 \in 1 .. Len(files[f]) + 1 /\ 1 - 1 = 0
      BY <3>1
    <3>3. FlattenSeq(First(0, Parts(files, f))) = << >>
      BY FlattenNothing
    <3>4. \A k \in 1 .. 0 : FALSE
      OBVIOUS
    <3> QED
      BY <1>2, <2>2, <2>3, <3>2, <3>3, <3>4, EmptySequence DEF CallIsOn
  <2> HIDE DEF call
  <2>5. /\ IsSequence(frames) /\ frames # << >> /\ frames[1].file = Root
        /\ \A n \in 1 .. N : CallIsOn(files, frames[n])
        /\ \A n \in 1 .. N - 1 : WaitsFor(files, frames[n], frames[n + 1].file)
        /\ WaitsFor(files, frames[N], f)
    BY <1>1, <1>2 DEF CallsInv
  <2>6. N \in Nat /\ N >= 1
    BY <2>5, SequenceFacts
  <2>7. /\ IsSequence(frames') /\ Len(frames') = N + 1 /\ frames'[N + 1] = call
        /\ \A n \in 1 .. N : frames'[n] = frames[n]
    BY <2>1, <2>5, AppendFacts
  <2> HIDE DEF N, f
  <2>8. ASSUME NEW n \in 1 .. N + 1 PROVE CallIsOn(files, frames'[n])
    <3>1. n \in 1 .. N \/ n = N + 1
      BY <2>6
    <3> QED
      BY <2>4, <2>5, <2>7, <3>1
  <2>9. ASSUME NEW n \in 1 .. N PROVE WaitsFor(files, frames'[n], frames'[n + 1].file)
    <3>1. CASE n = N
      BY <2>3, <2>5, <2>6, <2>7, <3>1
    <3>2. CASE n # N
      <4>1. n \in 1 .. N - 1 /\ n + 1 \in 1 .. N
        BY <2>6, <3>2
      <4> QED
        BY <2>5, <2>7, <4>1
    <3> QED
      BY <3>1, <3>2
  <2>10. frames'[1].file = Root /\ frames' # << >> /\ (N + 1) - 1 = N
    BY <2>5, <2>6, <2>7, SequenceFacts
  <2>11. CallsInv'
    BY <1>2, <2>1, <2>7, <2>8, <2>9, <2>10 DEF CallsInv
  <2>12. error' \in BOOLEAN /\ ~error'
    BY <1>2, <2>1, ErrorType
  <2> QED
    BY <2>1, <2>11, <2>12, ProcessKeeps
<1> QED
  BY <1>3, <1>4

LEMMA Returned ==
  ASSUME IncludeInv, ProcessIncludes, Include!Return
  PROVE  IncludeInv'
<1> DEFINE N == Len(frames)
           calls == Include!Front(frames)
           inner == frames[N]
           outer == frames[N - 1]
<1>1. CallsInv /\ IsFiniteSet(DOMAIN files)
  BY DEF IncludeInv, ProcessIncludes
<1>2. /\ Include!AtEnd /\ Len(frames) > 1 /\ ~error
      /\ frames' = Include!Collect(calls, Include!Top.result)
      /\ files' = files /\ include_stack' = include_stack /\ loading' = loading
      /\ error' = error /\ loading = << >> /\ include_stack = {}
  BY DEF Include!Return, Include!Running, IncludeInv
<1>3. /\ IsSequence(frames) /\ frames # << >> /\ frames[1].file = Root
      /\ \A n \in 1 .. N : CallIsOn(files, frames[n])
      /\ \A n \in 1 .. N - 1 : WaitsFor(files, frames[n], frames[n + 1].file)
  BY <1>1 DEF CallsInv
<1>4. N \in Nat /\ N >= 2
  BY <1>2, <1>3, SequenceFacts
<1>5. CallIsOn(files, inner) /\ CallIsOn(files, outer)
      /\ WaitsFor(files, outer, inner.file)
  <2>1. N \in 1 .. N /\ N - 1 \in 1 .. N /\ N - 1 \in 1 .. N - 1 /\ (N - 1) + 1 = N
    BY <1>4
  <2> HIDE DEF N
  <2> QED
    BY <1>3, <2>1
<1>6. Include!Top = inner
  BY DEF Include!Top, Include!Last
<1>7. inner.file \in Ended(files) /\ Text(files)[inner.file] = inner.result
      /\ IsSequence(inner.result)
  <2>1. inner.next > Len(files[inner.file])
    BY <1>2, <1>6 DEF Include!AtEnd
  <2> HIDE DEF inner
  <2> QED
    BY <1>1, <1>5, <2>1, CallEnds DEF CallIsOn
<1>8. /\ IsSequence(calls) /\ Len(calls) = N - 1
      /\ \A k \in 1 .. N - 1 : calls[k] = frames[k]
  BY <1>3, FrontFacts
<1>9. calls # << >> /\ calls[1].file = Root /\ calls[Len(calls)] = outer
  BY <1>3, <1>4, <1>8, SequenceFacts
<1>10. /\ outer.next <= Len(files[outer.file])
       /\ inner.result = Part(files, Text(files), outer.file, outer.next)
       /\ PathAt(files, outer.file, outer.next) \in Ended(files)
  <2> HIDE DEF inner, outer
  <2> QED
    BY <1>5, <1>7 DEF WaitsFor, Part
<1> HIDE DEF N, calls, outer, inner
<1>11. \A n \in 1 .. Len(calls) : CallIsOn(files, calls[n])
  BY <1>3, <1>4, <1>8
<1>12. ASSUME NEW n \in 1 .. Len(calls) - 1
       PROVE  WaitsFor(files, calls[n], calls[n + 1].file)
  <2>1. n \in 1 .. N - 1 /\ n + 1 \in 1 .. N - 1
    BY <1>4, <1>8
  <2> QED
    BY <1>3, <1>8, <2>1
<1>13. frames' = Include!Collect(calls, inner.result)
  BY <1>2, <1>6
<1>14. CallsInv'
  <2> DEFINE more == inner.result
  <2> HIDE DEF more
  <2>1. IsSequence(more) /\ frames' = Include!Collect(calls, more)
        /\ more = Part(files, Text(files), outer.file, outer.next)
    BY <1>7, <1>10, <1>13 DEF more
  <2>2. /\ calls[Len(calls)].next <= Len(files[calls[Len(calls)].file])
        /\ more = Part(files, Text(files), calls[Len(calls)].file, calls[Len(calls)].next)
        /\ PathAt(files, calls[Len(calls)].file, calls[Len(calls)].next) \in Ended(files)
    BY <1>9, <1>10, <2>1
  <2>3. files' = files /\ loading' = << >>
    BY <1>2
  <2> QED
    BY <1>8, <1>9, <1>11, <1>12, <2>1, <2>2, <2>3, CallsGoOn
<1>15. error' \in BOOLEAN /\ ~error' /\ include_stack' = {} /\ loading' = << >>
  BY <1>2, ErrorType
<1> QED
  BY <1>14, <1>15, ProcessKeeps

LEMMA PassesBegun ==
  ASSUME IncludeInv, IncludesProcessed
  PROVE  IncludeInv'
<1> DEFINE call == frames[1]
<1>1. /\ stage = "include" /\ stage' = "first_pass" /\ program' = Include!Top.result
      /\ UNCHANGED includeVars /\ statements' = statements
      /\ ~error /\ Len(frames) = 1 /\ Include!AtEnd
  BY DEF IncludesProcessed, BeginFirstPass, Include!Finished, Include!Running,
         readVars, parseVars
<1>2. CallsInv /\ IsFiniteSet(DOMAIN files) /\ IsSequence(statements)
  BY <1>1 DEF IncludeInv
<1>3. Include!Top = call /\ CallIsOn(files, call) /\ call.file = Root
  BY <1>1, <1>2 DEF CallsInv, Include!Top, Include!Last
<1>4. call.next > Len(files[call.file])
  BY <1>1, <1>3 DEF Include!AtEnd
<1> HIDE DEF call
<1>5. Text(files)[Root] = call.result
  BY <1>2, <1>3, <1>4, CallEnds
<1>6. program' = Text(files)[Root]
  BY <1>1, <1>3, <1>5
<1> QED
  BY <1>1, <1>2, <1>6, IncludesStay

LEMMA IncludeInvKept == IncludeInv /\ [AssembleNext]_allVars => IncludeInv'
<1> SUFFICES ASSUME IncludeInv, [AssembleNext]_allVars
             PROVE  IncludeInv'
  OBVIOUS
<1>1. IsSequence(statements)
      /\ (stage \in {"first_pass", "encode", "done"} => program = Text(files)[Root])
      /\ (error => stage = "include")
  BY DEF IncludeInv
<1>2. CASE ReadRoot
  <2>1. UNCHANGED vars /\ UNCHANGED includeVars /\ ReadNext
    BY <1>2 DEF ReadRoot
  <2>2. stage' = stage /\ program' = program
    BY <2>1 DEF vars
  <2> QED
    BY <1>1, <2>1, <2>2, StatementsGrow, IncludesStay
<1>3. CASE ParseRoot
  BY <1>3, ParsedRoot
<1>4. CASE ProcessIncludes
  <2>1. Include!Next
    BY <1>4 DEF ProcessIncludes
  <2> QED
    BY <1>4, <2>1, Copied, IncludeBegun, FileLoaded, Returned DEF Include!Next
<1>5. CASE IncludesProcessed
  BY <1>5, PassesBegun
<1>6. CASE RunPasses
  <2>1. Next /\ UNCHANGED includeVars /\ statements' = statements
    BY <1>6 DEF RunPasses, readVars, parseVars
  <2> QED
    BY <1>1, <2>1, PassSteps, IncludesStay
<1>7. CASE UNCHANGED allVars
  <2>1. UNCHANGED includeVars /\ statements' = statements /\ stage' = stage
        /\ program' = program
    BY <1>7 DEF allVars, vars, readVars, parseVars
  <2> QED
    BY <1>1, <2>1, IncludesStay
<1> QED
  BY <1>2, <1>3, <1>4, <1>5, <1>6, <1>7 DEF AssembleNext, AssembleStep

LEMMA IncludeInvHolds == FileSpec => []IncludeInv
  BY IncludeInvInit, IncludeInvKept, PTL DEF FileSpec

(* ProgramIsExpansion, for every file system, also one with circular includes:
   ProcessProgram hands on the root with every directive replaced, at its
   place, by the text of its file, however deep and however often files are
   included. *)
THEOREM IncludesAreReplaced == FileSpec => []ProgramIsExpansion
<1>1. IncludeInv => ProgramIsExpansion
  <2>1. Include!Expansion(Root) = Text(files)[Root]
    BY ExpansionIsText
  <2> QED
    BY <2>1 DEF IncludeInv, ProgramIsExpansion
<1> QED
  BY <1>1, IncludeInvHolds, PTL

(* NoFalseAlarm, for every file system: ProcessProgram throws for a file that
   is missing or cannot be parsed and for nothing else. *)
THEOREM IncludesThrowForReason == FileSpec => []NoFalseAlarm
<1>1. IncludeInv => NoFalseAlarm
  BY DEF IncludeInv, Reason, NoFalseAlarm, Include!ThrowsForGoodReason, Range, Include!Range
<1> QED
  BY <1>1, IncludeInvHolds, PTL

-----------------------------------------------------------------------------
(***************************************************************************)
(* The lexer.                                                              *)
(***************************************************************************)

(* PlaceOf, of any text. *)
Breaks(txt, i) == {k \in 1 .. i - 1 : txt[k] = Newline}
Place(txt, i) == [line |-> 1 + Cardinality(Breaks(txt, i)),
                  column |-> i - Max(Breaks(txt, i) \cup {0})]

(* From one character to the next on its line. *)
LEMMA PlaceOnLine ==
  ASSUME NEW txt, NEW i \in Nat \ {0}, NEW j \in Nat, i <= j,
         \A k \in i .. j - 1 : txt[k] # Newline
  PROVE  /\ Place(txt, j).line = Place(txt, i).line
         /\ Place(txt, j).column = Place(txt, i).column + (j - i)
<1> DEFINE B == Breaks(txt, i)
           m == Max(B \cup {0})
<1>1. Breaks(txt, j) = B
  <2>1. ASSUME NEW k \in 1 .. j - 1, txt[k] = Newline
        PROVE  k \in 1 .. i - 1
    <3>1. k \notin i .. j - 1
      BY <2>1
    <3> QED
      BY <3>1
  <2>2. 1 .. i - 1 \subseteq 1 .. j - 1
    OBVIOUS
  <2> QED
    BY <2>1, <2>2 DEF Breaks
<1>2. m \in Nat
  <2> DEFINE S == B \cup {0}
  <2>1. S \in SUBSET (0 .. i) /\ 0 \in S
    BY DEF Breaks
  <2> HIDE DEF S
  <2>2. Max(S) \in S
    BY <2>1, MaxIsLargest
  <2> QED
    BY <2>1, <2>2 DEF S
<1>3. /\ Place(txt, j) = [line |-> 1 + Cardinality(B), column |-> j - m]
      /\ Place(txt, i) = [line |-> 1 + Cardinality(B), column |-> i - m]
  BY <1>1 DEF Place
<1> HIDE DEF m, B
<1>4. j - m = (i - m) + (j - i)
  BY <1>2
<1> QED
  BY <1>3, <1>4

(* From the end of a line to the next line. *)
LEMMA PlaceOnNextLine ==
  ASSUME NEW txt, NEW i \in Nat \ {0}, txt[i] = Newline
  PROVE  /\ Place(txt, i + 1).line = Place(txt, i).line + 1
         /\ Place(txt, i + 1).column = 1
<1> DEFINE B == Breaks(txt, i)
<1>1. Breaks(txt, i + 1) = B \cup {i} /\ i \notin B
  BY DEF Breaks
<1>2. B \subseteq 1 .. i - 1
  BY DEF Breaks
<1> HIDE DEF B
<1>3. IsFiniteSet(B)
  <2>1. IsFiniteSet(1 .. i - 1)
    BY FS_Interval
  <2> QED
    BY <1>2, <2>1, FS_Subset
<1>4. Cardinality(B \cup {i}) = Cardinality(B) + 1 /\ Cardinality(B) \in Nat
  BY <1>1, <1>3, FS_AddElement, FS_CardinalityType
<1>5. Max(B \cup {i} \cup {0}) = i
  <2> DEFINE S == B \cup {i} \cup {0}
  <2>1. S \in SUBSET (0 .. i) /\ i \in S
    BY <1>2
  <2> HIDE DEF S
  <2>2. Max(S) \in S /\ Max(S) >= i
    BY <2>1, MaxIsLargest
  <2>3. Max(S) \in 0 .. i
    BY <2>1, <2>2
  <2>4. Max(S) = i
    <3> DEFINE m == Max(S)
    <3> HIDE DEF m
    <3>1. m \in 0 .. i /\ m >= i
      BY <2>2, <2>3 DEF m
    <3>2. m = i
      BY <3>1
    <3> QED
      BY <3>2 DEF m
  <2> QED
    BY <2>4 DEF S
<1>6. /\ Place(txt, i + 1).line = 1 + Cardinality(B \cup {i})
      /\ Place(txt, i + 1).column = (i + 1) - Max(B \cup {i} \cup {0})
      /\ Place(txt, i).line = 1 + Cardinality(B)
  BY <1>1 DEF Place, B
<1> QED
  BY <1>4, <1>5, <1>6

(* The characters in a class from i on. *)
LEMMA RunEndFacts ==
  ASSUME NEW i, IsSequence(text), i \in 1 .. Len(text) + 1, NEW class
  PROVE  LET j == RunEnd(i, class)
         IN  /\ j \in i .. Len(text) + 1
             /\ j > Len(text) \/ text[j] \notin class
             /\ \A k \in i .. j - 1 : text[k] \in class
<1> DEFINE N == Len(text)
           T == {j \in Nat : i <= j /\ (j > N \/ text[j] \notin class)}
<1>1. N \in Nat
  BY SequenceFacts
<1>2. N + 1 \in T
  BY <1>1
<1>3. PICK j \in T : \A k \in T : j <= k
  <2> HIDE DEF N
  <2>1. T \subseteq Nat /\ T # {}
    BY <1>2
  <2> HIDE DEF T
  <2> QED
    BY <2>1, LeastNatural
<1> HIDE DEF N
<1>4. j \in i .. N + 1 /\ (j > N \/ text[j] \notin class)
  BY <1>1, <1>2, <1>3
<1>5. ASSUME NEW k \in i .. j - 1 PROVE text[k] \in class
  <2>1. k \in Nat /\ i <= k /\ k \notin T
    BY <1>1, <1>3
  <2> QED
    BY <2>1
<1>6. \E e \in i .. N + 1 : /\ e > N \/ text[e] \notin class
                            /\ \A k \in i .. e - 1 : text[k] \in class
  BY <1>4, <1>5
<1> QED
  BY <1>6 DEF RunEnd, N

(* What Skip passes over. *)
LEMMA SkipFacts ==
  ASSUME NEW i, IsSequence(text), i \in 1 .. Len(text) + 1
  PROVE  LET j == Skip(i)
         IN  /\ j \in i .. Len(text) + 1
             /\ \A k \in i .. j - 1 :
                  /\ text[k] # Newline
                  /\ text[k] \in Blanks \/ \E c \in i .. k : text[c] = ";"
             /\ (\E c \in i .. j - 1 : text[c] = ";") => Char(j) \in {"null", Newline}
<1> DEFINE N == Len(text)
           b == RunEnd(i, Blanks)
           rest == Range(text) \ {Newline}
<1>1. N \in Nat /\ DOMAIN text = 1 .. N
  BY SequenceFacts
<1>2. b \in i .. N + 1 /\ \A k \in i .. b - 1 : text[k] \in Blanks
  BY RunEndFacts
<1>3. \A ch \in Blanks : ch # Newline /\ ch # ";"
  BY DEF Blanks, Newline
<1>4. CASE Char(b) # ";"
  <2>1. Skip(i) = b
    BY <1>4 DEF Skip
  <2> HIDE DEF N, b
  <2> QED
    BY <1>2, <1>3, <2>1 DEF N
<1>5. CASE Char(b) = ";"
  <2> DEFINE e == RunEnd(b, rest)
  <2>1. Skip(i) = e
    BY <1>5 DEF Skip
  <2>2. b \in 1 .. N + 1 /\ b \in DOMAIN text /\ text[b] = ";"
    <3> HIDE DEF b
    <3>1. b \in DOMAIN text /\ text[b] = ";"
      BY <1>5 DEF Char
    <3> HIDE DEF N
    <3>2. b \in 1 .. N
      BY <1>1, <3>1
    <3>3. b \in 1 .. N + 1
      BY <1>1, <3>2
    <3> QED
      BY <3>1, <3>3
  <2>3. e \in b .. N + 1 /\ (e > N \/ text[e] \notin rest) /\ \A k \in b .. e - 1 : text[k] \in rest
    <3> HIDE DEF b, rest
    <3> QED
      BY <2>2, RunEndFacts
  <2>4. Char(e) \in {"null", Newline}
    <3>1. CASE e > N
      BY <1>1, <2>3, <3>1 DEF Char
    <3>2. CASE e <= N
      <4>1. e \in DOMAIN text /\ text[e] \in Range(text)
        BY <1>1, <1>2, <2>3, <3>2, SequenceFacts
      <4>2. text[e] = Newline
        BY <2>3, <3>2, <4>1
      <4> QED
        BY <4>1, <4>2 DEF Char
    <3> QED
      BY <1>1, <1>2, <2>3, <3>1, <3>2
  <2> HIDE DEF e, N, b
  <2>5. ASSUME NEW k \in i .. e - 1
        PROVE  /\ text[k] # Newline
               /\ text[k] \in Blanks \/ \E c \in i .. k : text[c] = ";"
    <3>1. CASE k < b
      <4>1. k \in i .. b - 1
        BY <1>1, <1>2, <2>3, <3>1
      <4> QED
        BY <1>2, <1>3, <4>1
    <3>2. CASE ~(k < b)
      <4>1. k \in b .. e - 1 /\ b \in i .. k
        BY <1>1, <1>2, <2>3, <3>2
      <4> QED
        BY <2>2, <2>3, <4>1
    <3> QED
      BY <3>1, <3>2
  <2>6. e \in i .. N + 1
    BY <1>1, <1>2, <2>3
  <2> QED
    BY <2>1, <2>4, <2>5, <2>6 DEF N
<1> QED
  BY <1>4, <1>5

(* The loop of LexString, and its result from k on. *)
StringFrom(rest, k) ==
  CASE Char(k) \in {"null", Newline} -> Thrown
    [] Char(k) = "quote" -> Found("string", k + 1)
    [] Char(k) = "backslash" -> IF Char(k + 1) \in {"quote", "backslash"}
                                  THEN Prepend(Char(k + 1), rest[k + 2]) ELSE Thrown
    [] OTHER -> Prepend(Char(k), rest[k + 1])
Strings(rest) == [k \in 1 .. Len(text) + 1 |-> StringFrom(rest, k)]

(* A result is an exception or ends in the text, on the line of k. *)
EndsOnLine(found, k) ==
  /\ found.end \in k .. Len(text) + 1
  /\ \A c \in k .. found.end - 1 : text[c] # Newline
IsString(found, k) ==
  /\ DOMAIN found = {"kind", "end", "number", "value"}
  /\ \/ found.kind = "error"
     \/ found.kind = "string" /\ EndsOnLine(found, k)

LEMMA CharFacts ==
  ASSUME IsSequence(text), NEW k \in Nat
  PROVE  /\ Len(text) \in Nat /\ DOMAIN text = 1 .. Len(text)
         /\ Char(k) # "null" => k \in 1 .. Len(text) /\ Char(k) = text[k]
         /\ k \in 1 .. Len(text) => Char(k) = text[k]
<1>1. Len(text) \in Nat /\ DOMAIN text = 1 .. Len(text)
  BY SequenceFacts
<1> QED
  BY <1>1 DEF Char

LEMMA StringsLookAhead ==
  ASSUME IsSequence(text), NEW k \in 1 .. Len(text) + 1, NEW r, NEW s,
         \A j \in k + 1 .. Len(text) + 1 : r[j] = s[j]
  PROVE  StringFrom(r, k) = StringFrom(s, k)
<1> DEFINE N == Len(text)
<1>1. N \in Nat
  BY SequenceFacts
<1>2. Char(k) # "null" => k + 1 \in k + 1 .. N + 1
  BY <1>1, CharFacts
<1>3. Char(k + 1) # "null" => k + 2 \in k + 1 .. N + 1
  <2>1. k + 1 \in Nat
    BY <1>1
  <2>2. Char(k + 1) # "null" => k + 1 \in 1 .. N
    BY <2>1, CharFacts
  <2> QED
    BY <1>1, <2>2
<1> HIDE DEF N
<1>4. Char(k) # "null" => r[k + 1] = s[k + 1]
  BY <1>2 DEF N
<1>5. Char(k + 1) # "null" => r[k + 2] = s[k + 2]
  BY <1>3 DEF N
<1> QED
  BY <1>4, <1>5 DEF StringFrom

LEMMA StringsExist ==
  ASSUME IsSequence(text)
  PROVE  \E rest : rest = Strings(rest)
<1> DEFINE N == Len(text)
           Good(r, m) == \A k \in N + 1 - m .. N + 1 : k >= 1 => r[k] = StringFrom(r, k)
           Some == {m \in Nat : \E r : Good(r, m)}
<1>1. N \in Nat
  BY SequenceFacts
<1>2. 0 \in Some
  <2> DEFINE r == [k \in 1 .. N + 1 |-> Thrown]
  <2>1. N + 1 \in Nat /\ N + 1 \notin 1 .. N
    BY <1>1
  <2>2. Char(N + 1) = "null"
    BY <2>1, CharFacts
  <2>3. StringFrom(r, N + 1) = Thrown /\ r[N + 1] = Thrown
    BY <1>1, <2>2 DEF StringFrom
  <2>4. \A k \in N + 1 - 0 .. N + 1 : k = N + 1
    BY <1>1
  <2> HIDE DEF r, N
  <2>5. Good(r, 0)
    BY <2>3, <2>4
  <2> QED
    BY <2>5
<1>3. ASSUME NEW m \in Nat, NEW r, Good(r, m)
      PROVE  \E s : Good(s, m + 1)
  <2> DEFINE e == N + 1 - (m + 1)
             new == StringFrom(r, e)
             s == [k \in 1 .. N + 1 |-> IF k = e THEN new ELSE r[k]]
  <2> HIDE DEF new
  <2>1. ASSUME NEW k \in e .. N + 1, k >= 1
        PROVE  s[k] = StringFrom(s, k)
    <3>1. k \in 1 .. N + 1
      BY <1>1, <2>1
    <3>2. \A j \in k + 1 .. N + 1 : r[j] = s[j]
      BY <1>1, <2>1
    <3>3. StringFrom(r, k) = StringFrom(s, k)
      <4> HIDE DEF s, e
      <4> QED
        BY <3>1, <3>2, StringsLookAhead
    <3>4. CASE k = e
      BY <3>1, <3>3, <3>4 DEF new
    <3>5. CASE k # e
      <4>1. k \in N + 1 - m .. N + 1
        BY <1>1, <2>1, <3>5
      <4>2. r[k] = StringFrom(r, k)
        BY <1>3, <2>1, <4>1
      <4> QED
        BY <3>1, <3>3, <3>5, <4>2
    <3> QED
      BY <3>4, <3>5
  <2> HIDE DEF s
  <2> QED
    BY <2>1
<1> HIDE DEF Good
<1>4. \A m \in Nat : m \in Some => m + 1 \in Some
  BY <1>3
<1>5. N \in Some
  <2> HIDE DEF Some, N
  <2> QED
    BY <1>1, <1>2, <1>4, Induction
<1>6. PICK r : Good(r, N)
  BY <1>5
<1> DEFINE rest == [k \in 1 .. N + 1 |-> r[k]]
<1>7. ASSUME NEW k \in 1 .. N + 1
      PROVE  rest[k] = StringFrom(rest, k)
  <2>1. k \in N + 1 - N .. N + 1 /\ k >= 1
    BY <1>1
  <2>2. r[k] = StringFrom(r, k)
    BY <1>6, <2>1 DEF Good
  <2>3. \A j \in k + 1 .. N + 1 : r[j] = rest[j]
    BY <1>1
  <2>4. StringFrom(r, k) = StringFrom(rest, k)
    <3> HIDE DEF rest
    <3> QED
      BY <2>3, StringsLookAhead
  <2> QED
    BY <2>2, <2>4
<1>8. rest = [k \in 1 .. N + 1 |-> rest[k]]
  OBVIOUS
<1> HIDE DEF rest
<1>9. rest = Strings(rest)
  BY <1>7, <1>8 DEF Strings
<1> QED
  BY <1>9

LEMMA Prepended ==
  ASSUME NEW ch, NEW found, NEW k \in Nat, NEW e \in Nat, IsString(found, e), k <= e,
         \A c \in k .. e - 1 : text[c] # Newline
  PROVE  IsString(Prepend(ch, found), k)
<1>1. CASE found.kind = "error"
  BY <1>1 DEF Prepend, IsString, Thrown, Found
<1>2. CASE found.kind # "error"
  <2> DEFINE new == [found EXCEPT !.value = <<ch>> \o @]
  <2>1. Prepend(ch, found) = new
    BY <1>2 DEF Prepend
  <2>2. DOMAIN found = {"kind", "end", "number", "value"} /\ found.kind = "string"
        /\ found.end \in e .. Len(text) + 1
        /\ \A c \in e .. found.end - 1 : text[c] # Newline
    BY <1>2 DEF IsString, EndsOnLine
  <2>3. DOMAIN new = DOMAIN found /\ new.kind = found.kind /\ new.end = found.end
    BY <2>2
  <2> HIDE DEF new
  <2>4. ASSUME NEW c \in k .. found.end - 1
        PROVE  text[c] # Newline
    <3>1. c \in k .. e - 1 \/ c \in e .. found.end - 1
      OBVIOUS
    <3> QED
      BY <2>2, <3>1
  <2>5. found.end \in k .. Len(text) + 1
    BY <2>2
  <2> QED
    BY <2>1, <2>2, <2>3, <2>4, <2>5 DEF IsString, EndsOnLine
<1> QED
  BY <1>1, <1>2

(* A string literal ends on its line. *)
LEMMA StringEnds ==
  ASSUME IsSequence(text), NEW i \in 1 .. Len(text)
  PROVE  IsString(LexString(i), i + 1)
<1> DEFINE N == Len(text)
           rest == CHOOSE r : r = Strings(r)
<1>1. N \in Nat
  BY SequenceFacts
<1>2. LexString(i) = rest[i + 1]
  BY DEF LexString, Strings, StringFrom
<1>3. rest = Strings(rest)
  BY StringsExist
<1> HIDE DEF rest
<1>4. ASSUME NEW k \in 1 .. N + 1
      PROVE  rest[k] = StringFrom(rest, k)
  BY <1>3 DEF Strings
<1> DEFINE Good == {m \in Nat : \A k \in 1 .. N + 1 : k >= N + 1 - m => IsString(rest[k], k)}
<1>5. ASSUME NEW k \in 1 .. N + 1,
             \A j \in 1 .. N + 1 : j > k => IsString(rest[j], j)
      PROVE  IsString(rest[k], k)
  <2>1. rest[k] = StringFrom(rest, k) /\ k \in Nat /\ k + 1 \in Nat /\ k + 2 \in Nat
    BY <1>4
  <2>2. IsString(Thrown, k)
    BY DEF IsString, Thrown, Found
  <2>3. Char(k) # "null" => k \in 1 .. N /\ Char(k) = text[k]
    BY <2>1, CharFacts
  <2>4. Char(k + 1) # "null" => k + 1 \in 1 .. N /\ Char(k + 1) = text[k + 1]
    BY <2>1, CharFacts
  <2>5. CASE Char(k) \in {"null", Newline}
    <3>1. StringFrom(rest, k) = Thrown
      BY <2>5 DEF StringFrom, Newline
    <3> QED
      BY <2>1, <2>2, <3>1
  <2>6. CASE Char(k) = "quote"
    <3>1. StringFrom(rest, k) = Found("string", k + 1)
      BY <2>6 DEF StringFrom, Newline
    <3>2. k \in 1 .. N /\ text[k] # Newline
      BY <2>3, <2>6 DEF Newline
    <3>3. k + 1 \in k .. N + 1 /\ \A c \in k .. (k + 1) - 1 : c = k
      BY <1>1, <3>2
    <3> QED
      BY <2>1, <3>1, <3>2, <3>3 DEF IsString, EndsOnLine, Found
  <2>7. CASE Char(k) = "backslash" /\ Char(k + 1) \in {"quote", "backslash"}
    <3>1. StringFrom(rest, k) = Prepend(Char(k + 1), rest[k + 2])
      BY <2>7 DEF StringFrom, Newline
    <3>2. k \in 1 .. N /\ k + 1 \in 1 .. N /\ text[k] # Newline /\ text[k + 1] # Newline
      BY <2>3, <2>4, <2>7 DEF Newline
    <3>3. k + 2 \in 1 .. N + 1 /\ k + 2 > k /\ k <= k + 2
          /\ \A c \in k .. (k + 2) - 1 : c = k \/ c = k + 1
      BY <1>1, <3>2
    <3>4. IsString(rest[k + 2], k + 2)
      BY <1>5, <3>3
    <3> QED
      BY <2>1, <3>1, <3>2, <3>3, <3>4, Prepended
  <2>8. CASE Char(k) = "backslash" /\ Char(k + 1) \notin {"quote", "backslash"}
    <3>1. StringFrom(rest, k) = Thrown
      BY <2>8 DEF StringFrom, Newline
    <3> QED
      BY <2>1, <2>2, <3>1
  <2>9. CASE Char(k) \notin {"null", Newline, "quote", "backslash"}
    <3>1. StringFrom(rest, k) = Prepend(Char(k), rest[k + 1])
      BY <2>9 DEF StringFrom, Newline
    <3>2. k \in 1 .. N /\ text[k] # Newline
      BY <2>3, <2>9 DEF Newline
    <3>3. k + 1 \in 1 .. N + 1 /\ k + 1 > k /\ k <= k + 1 /\ \A c \in k .. (k + 1) - 1 : c = k
      BY <1>1, <3>2
    <3>4. IsString(rest[k + 1], k + 1)
      BY <1>5, <3>3
    <3> QED
      BY <2>1, <3>1, <3>2, <3>3, <3>4, Prepended
  <2> QED
    BY <2>5, <2>6, <2>7, <2>8, <2>9
<1>6. 0 \in Good
  <2>1. ASSUME NEW k \in 1 .. N + 1, k >= N + 1 - 0
        PROVE  IsString(rest[k], k)
    <3>1. \A j \in 1 .. N + 1 : ~(j > k)
      BY <1>1, <2>1
    <3> QED
      BY <1>5, <3>1
  <2> QED
    BY <2>1
<1>7. ASSUME NEW m \in Nat, m \in Good
      PROVE  m + 1 \in Good
  <2>1. ASSUME NEW k \in 1 .. N + 1, k >= N + 1 - (m + 1)
        PROVE  IsString(rest[k], k)
    <3>1. \A j \in 1 .. N + 1 : j > k => j >= N + 1 - m
      BY <1>1, <2>1
    <3>2. \A j \in 1 .. N + 1 : j > k => IsString(rest[j], j)
      BY <1>7, <3>1
    <3> QED
      BY <1>5, <3>2
  <2> QED
    BY <2>1
<1>8. N \in Good
  <2>1. \A m \in Nat : m \in Good => m + 1 \in Good
    BY <1>7
  <2> HIDE DEF Good, N
  <2> QED
    BY <1>1, <1>6, <2>1, Induction
<1>9. i + 1 \in 1 .. N + 1 /\ i + 1 >= N + 1 - N
  BY <1>1
<1> QED
  BY <1>2, <1>8, <1>9

(* What NextToken finds at i ends in the text, and on its line unless it is the
   end of the line. *)
IsLexeme(found, i) ==
  \/ found.kind = "error"
  \/ found.kind # Newline /\ EndsOnLine(found, i)
  \/ found.kind = Newline /\ found.end = i + 1 /\ i \in 1 .. Len(text) /\ text[i] = Newline

(* A run of characters of a class that has no newline. *)
LEMMA RunOnLine ==
  ASSUME IsSequence(text), NEW i \in 1 .. Len(text) + 1, NEW j \in i .. Len(text) + 1,
         \A c \in i .. j - 1 : text[c] # Newline, NEW class, Newline \notin class
  PROVE  LET e == RunEnd(j, class)
         IN  e \in i .. Len(text) + 1 /\ \A c \in i .. e - 1 : text[c] # Newline
<1> DEFINE e == RunEnd(j, class)
           N == Len(text)
<1>1. N \in Nat
  BY SequenceFacts
<1>2. j \in 1 .. Len(text) + 1
  BY <1>1
<1>3. e \in j .. N + 1 /\ \A k \in j .. e - 1 : text[k] \in class
  BY <1>2, RunEndFacts
<1> HIDE DEF e
<1>4. ASSUME NEW c \in i .. e - 1
      PROVE  text[c] # Newline
  <2>1. c \in i .. j - 1 \/ c \in j .. e - 1
    BY <1>1, <1>3
  <2> QED
    BY <1>3, <2>1
<1>5. e \in i .. N + 1
  BY <1>1, <1>3
<1> QED
  BY <1>4, <1>5 DEF e

(* The classes that words and numbers are made of. *)
LEMMA ClassFacts ==
  /\ Newline \notin IdentifierChars /\ Newline \notin AlNum
  /\ ~IsIdentifierStart("null") /\ ~IsIdentifierStart(Newline)
  BY LettersAssumption DEF LettersAssumption, IdentifierChars, AlNum, DigitChars, Newline,
     IsIdentifierStart

LEMMA WordEnds ==
  ASSUME IsSequence(text), NEW i \in 1 .. Len(text),
         Char(i) = "." \/ IsIdentifierStart(Char(i))
  PROVE  IsLexeme(LexIdentifierOrDirective(i), i)
<1> DEFINE start == IF Char(i) = "." THEN i + 1 ELSE i
           e == RunEnd(start, IdentifierChars)
           kind == IF Char(i) = "." THEN "directive" ELSE "identifier"
<1>1. Len(text) \in Nat /\ i \in Nat /\ text[i] = Char(i)
  <2>1. i \in Nat
    OBVIOUS
  <2> QED
    BY <2>1, CharFacts
<1>2. text[i] # Newline
  BY <1>1, ClassFacts DEF Newline
<1>3. start \in i .. Len(text) + 1 /\ i \in 1 .. Len(text) + 1
      /\ \A c \in i .. start - 1 : text[c] # Newline
  <2>1. \A c \in i .. (i + 1) - 1 : c = i
    BY <1>1
  <2> QED
    BY <1>1, <1>2, <2>1
<1> HIDE DEF start
<1>4. e \in i .. Len(text) + 1 /\ \A c \in i .. e - 1 : text[c] # Newline
  BY <1>3, ClassFacts, RunOnLine
<1>5. LexIdentifierOrDirective(i) = Thrown \/ LexIdentifierOrDirective(i) = Found(kind, e)
  BY DEF LexIdentifierOrDirective, start
<1> HIDE DEF e
<1>6. kind # Newline
  BY DEF Newline
<1> HIDE DEF kind
<1> QED
  BY <1>4, <1>5, <1>6 DEF IsLexeme, EndsOnLine, Found, Thrown

LEMMA NumberEnds ==
  ASSUME IsSequence(text), NEW i \in 1 .. Len(text), text[i] # Newline
  PROVE  IsLexeme(LexNumber(i), i)
<1> DEFINE N == Len(text)
           p == IF Char(i) = "#" THEN i + 1 ELSE i
           q == CASE Char(p) \in {"$", "%"} -> p + 1
                  [] Char(p) = "0" /\ Char(p + 1) \in {"X", "b"} -> p + 2
                  [] OTHER -> p
           e == RunEnd(q, AlNum)
           found == LexNumber(i)
<1>1. N \in Nat /\ i \in Nat
  <2>1. i \in Nat
    OBVIOUS
  <2> QED
    BY <2>1, CharFacts
<1>2. p \in i .. N + 1 /\ p \in Nat /\ p + 1 \in Nat
      /\ \A c \in i .. p - 1 : text[c] # Newline
  <2>1. \A c \in i .. (i + 1) - 1 : c = i
    BY <1>1
  <2> QED
    BY <1>1, <2>1
<1> HIDE DEF p
<1>3. /\ Char(p) # "null" => p \in 1 .. N /\ Char(p) = text[p]
      /\ Char(p + 1) # "null" => p + 1 \in 1 .. N /\ Char(p + 1) = text[p + 1]
  BY <1>2, CharFacts
<1> HIDE DEF N
<1>4. q \in i .. N + 1 /\ \A c \in i .. q - 1 : text[c] # Newline
  <2>1. CASE Char(p) \in {"$", "%"}
    <3>1. q = p + 1 /\ p \in 1 .. N /\ text[p] # Newline
      BY <1>3, <2>1 DEF Newline
    <3>2. \A c \in i .. (p + 1) - 1 : c = p \/ c \in i .. p - 1
      BY <1>1, <1>2
    <3>3. p + 1 \in i .. N + 1
      BY <1>1, <1>2, <3>1
    <3> QED
      BY <1>2, <3>1, <3>2, <3>3
  <2>2. CASE Char(p) = "0" /\ Char(p + 1) \in {"X", "b"}
    <3>1. q = p + 2 /\ p \in 1 .. N /\ text[p] # Newline
          /\ p + 1 \in 1 .. N /\ text[p + 1] # Newline
      BY <1>3, <2>2 DEF Newline
    <3>2. \A c \in i .. (p + 2) - 1 : c = p \/ c = p + 1 \/ c \in i .. p - 1
      BY <1>1, <1>2
    <3>3. p + 2 \in i .. N + 1
      BY <1>1, <1>2, <3>1
    <3> QED
      BY <1>2, <3>1, <3>2, <3>3
  <2>3. CASE Char(p) \notin {"$", "%"} /\ ~(Char(p) = "0" /\ Char(p + 1) \in {"X", "b"})
    <3>1. q = p
      BY <2>3
    <3> QED
      BY <1>2, <3>1
  <2> QED
    BY <2>1, <2>2, <2>3
<1>5. LexNumber(i) = ParseNumberLiteral(p, e)
  BY DEF LexNumber, p
<1> HIDE DEF q
<1>6. e \in i .. N + 1 /\ \A c \in i .. e - 1 : text[c] # Newline
  <2>1. i \in 1 .. Len(text) + 1 /\ q \in i .. Len(text) + 1
    BY <1>1, <1>4 DEF N
  <2> QED
    BY <1>4, <2>1, ClassFacts, RunOnLine DEF N
<1> HIDE DEF e
<1>7. ParseNumberLiteral(p, e) = Thrown
      \/ \E n : ParseNumberLiteral(p, e) = [Found("number", e) EXCEPT !.number = n]
  BY Zenon DEF ParseNumberLiteral
<1>8. ASSUME NEW n
      PROVE  LET f == [Found("number", e) EXCEPT !.number = n]
             IN  f.kind = "number" /\ f.end = e
  BY DEF Found
<1>9. "number" # Newline
  BY DEF Newline
<1>10. Thrown.kind = "error"
  BY DEF Thrown, Found
<1> QED
  BY <1>5, <1>6, <1>7, <1>8, <1>9, <1>10 DEF IsLexeme, EndsOnLine, N

LEMMA LexemeFacts ==
  ASSUME IsSequence(text), NEW i \in 1 .. Len(text) + 1
  PROVE  IsLexeme(Lexeme(i), i)
<1> DEFINE ch == Char(i)
           N == Len(text)
<1>1. N \in Nat /\ i \in Nat
  <2>1. i \in Nat
    OBVIOUS
  <2> QED
    BY <2>1, CharFacts
<1>2. ch # "null" => i \in 1 .. N /\ ch = text[i]
  BY <1>1, CharFacts
<1> HIDE DEF ch, N
<1>3. \/ ch = "null" /\ Lexeme(i) = Found("eof", i)
      \/ ch \in {Newline, ",", "(", ")", ":"} /\ Lexeme(i) = Found(ch, i + 1)
      \/ ch = "quote" /\ Lexeme(i) = LexString(i)
      \/ (ch = "." \/ IsIdentifierStart(ch)) /\ Lexeme(i) = LexIdentifierOrDirective(i)
      \/ ch = "#" /\ Lexeme(i) = Found("#", i + 1)
      \/ ch \in {"#", "$", "%"} \cup DigitChars /\ Lexeme(i) = LexNumber(i)
      \/ Lexeme(i) = Thrown
  <2> DEFINE p1 == ch = "null"
             p2 == ch \in {Newline, ",", "(", ")", ":"}
             p3 == ch = "quote"
             p4 == ch = "." \/ IsIdentifierStart(ch)
             p5 == ch = "#" /\ IsIdentifierStart(Char(i + 1))
             p6 == ch \in {"#", "$", "%"} \cup DigitChars
             f1 == Found("eof", i)
             f2 == Found(ch, i + 1)
             f3 == LexString(i)
             f4 == LexIdentifierOrDirective(i)
             f5 == Found("#", i + 1)
             f6 == LexNumber(i)
  <2>1. Lexeme(i) = CASE p1 -> f1 [] p2 -> f2 [] p3 -> f3 [] p4 -> f4 [] p5 -> f5 [] p6 -> f6
                      [] OTHER -> Thrown
    BY DEF Lexeme, ch
  <2>2. /\ p1 \in BOOLEAN /\ p2 \in BOOLEAN /\ p3 \in BOOLEAN
        /\ p4 \in BOOLEAN /\ p5 \in BOOLEAN /\ p6 \in BOOLEAN
    BY DEF IsIdentifierStart
  <2> HIDE DEF p1, p2, p3, p4, p5, p6, f1, f2, f3, f4, f5, f6
  <2>3. \/ p1 /\ Lexeme(i) = f1
        \/ p2 /\ Lexeme(i) = f2
        \/ p3 /\ Lexeme(i) = f3
        \/ p4 /\ Lexeme(i) = f4
        \/ p5 /\ Lexeme(i) = f5
        \/ p6 /\ Lexeme(i) = f6
        \/ Lexeme(i) = Thrown
    BY <2>1, <2>2
  <2> QED
    BY <2>3 DEF p1, p2, p3, p4, p5, p6, f1, f2, f3, f4, f5, f6
<1>4. ASSUME NEW kind, ch # "null", kind = ch
      PROVE  IsLexeme(Found(kind, i + 1), i)
  <2>1. i \in 1 .. N /\ text[i] = ch
    BY <1>2, <1>4
  <2>2. i + 1 \in i .. N + 1 /\ \A c \in i .. (i + 1) - 1 : c = i
    BY <1>1, <2>1
  <2>3. Found(kind, i + 1).kind = kind /\ Found(kind, i + 1).end = i + 1
    BY DEF Found
  <2>4. "#" # Newline
    BY DEF Newline
  <2> QED
    BY <1>4, <2>1, <2>2, <2>3, <2>4 DEF IsLexeme, EndsOnLine, N
<1>5. CASE ch = "null" /\ Lexeme(i) = Found("eof", i)
  <2>1. i \in i .. N + 1 /\ \A c \in i .. i - 1 : FALSE
    BY <1>1 DEF N
  <2>2. "eof" # Newline
    BY DEF Newline
  <2> QED
    BY <1>5, <2>1, <2>2 DEF IsLexeme, EndsOnLine, Found, N
<1>6. CASE ch \in {Newline, ",", "(", ")", ":"} /\ Lexeme(i) = Found(ch, i + 1)
  <2>1. ch # "null"
    BY <1>6 DEF Newline
  <2> QED
    BY <1>4, <1>6, <2>1
<1>7. CASE ch = "quote" /\ Lexeme(i) = LexString(i)
  <2>1. i \in 1 .. Len(text) /\ text[i] # Newline
    BY <1>2, <1>7 DEF Newline, N
  <2>2. IsString(LexString(i), i + 1)
    BY <2>1, StringEnds
  <2> DEFINE found == LexString(i)
  <2> HIDE DEF found
  <2>3. CASE found.kind = "error"
    BY <1>7, <2>3 DEF IsLexeme, found
  <2>4. CASE found.kind = "string" /\ EndsOnLine(found, i + 1)
    <3>1. found.end \in i + 1 .. N + 1 /\ \A c \in i + 1 .. found.end - 1 : text[c] # Newline
      BY <2>4 DEF EndsOnLine, N
    <3>2. \A c \in i .. found.end - 1 : c = i \/ c \in i + 1 .. found.end - 1
      BY <1>1, <3>1
    <3>3. found.end \in i .. N + 1 /\ \A c \in i .. found.end - 1 : text[c] # Newline
      BY <1>1, <2>1, <3>1, <3>2
    <3>4. "string" # Newline
      BY DEF Newline
    <3>5. IsLexeme(found, i)
      BY <2>4, <3>3, <3>4 DEF IsLexeme, EndsOnLine, N
    <3> QED
      BY <1>7, <3>5 DEF found
  <2> QED
    BY <2>2, <2>3, <2>4 DEF IsString, found
<1>8. CASE (ch = "." \/ IsIdentifierStart(ch)) /\ Lexeme(i) = LexIdentifierOrDirective(i)
  <2>1. ch # "null"
    BY <1>8, ClassFacts
  <2>2. i \in 1 .. Len(text)
    BY <1>2, <2>1 DEF N
  <2> QED
    BY <1>8, <2>2, WordEnds DEF ch
<1>9. CASE ch = "#" /\ Lexeme(i) = Found("#", i + 1)
  <2>1. "#" # "null"
    OBVIOUS
  <2> QED
    BY <1>4, <1>9, <2>1
<1>10. CASE ch \in {"#", "$", "%"} \cup DigitChars /\ Lexeme(i) = LexNumber(i)
  <2>1. ch # "null" /\ ch # Newline
    BY <1>10 DEF DigitChars, Newline
  <2>2. i \in 1 .. Len(text) /\ text[i] # Newline
    BY <1>2, <2>1 DEF N
  <2> QED
    BY <1>10, <2>2, NumberEnds
<1>11. CASE Lexeme(i) = Thrown
  BY <1>11 DEF IsLexeme, Thrown, Found
<1> QED
  BY <1>3, <1>5, <1>6, <1>7, <1>8, <1>9, <1>10, <1>11

-----------------------------------------------------------------------------
(***************************************************************************)
(* The inductive invariant of the lexer.                                   *)
(***************************************************************************)

CharAt(txt, k) == IF k \in DOMAIN txt THEN txt[k] ELSE "null"
Behind(toks, n) == IF n = 1 THEN 1 ELSE toks[n - 1].end

(* A token names its place in the text, and stands behind blanks and comments
   from a position on. *)
IsToken(txt, from, t) ==
  /\ [line |-> t.line, column |-> t.column] =
       Place(txt, IF t.kind \in OneChar THEN t.end ELSE t.first)
  /\ from <= t.first /\ t.first \in 1 .. Len(txt) + 1
  /\ t.end \in t.first .. Len(txt) + 1
  /\ \A k \in from .. t.first - 1 :
       /\ txt[k] # Newline
       /\ txt[k] \in Blanks \/ \E c \in from .. k : txt[c] = ";"
  /\ (\E c \in from .. t.first - 1 : txt[c] = ";") => CharAt(txt, t.first) \in {"null", Newline}

LexInv ==
  /\ IsSequence(text) /\ IsSequence(tokens)
  /\ index = Behind(tokens, Len(tokens) + 1) /\ index \in 1 .. Len(text) + 1
  /\ line = Place(text, index).line /\ column = Place(text, index).column
  /\ \A n \in 1 .. Len(tokens) : IsToken(text, Behind(tokens, n), tokens[n])

LEMMA LexInvInit == AssembleInit => LexInv
<1> SUFFICES ASSUME AssembleInit PROVE LexInv
  OBVIOUS
<1>1. index = 1 /\ line = 1 /\ column = 1 /\ tokens = << >>
      /\ (text = << >> \/ text \in Texts(options)) /\ options \in Options
  BY DEF AssembleInit
<1>2. IsSequence(text) /\ IsSequence(tokens) /\ Len(tokens) = 0
  BY <1>1, FilesAssumption, EmptySequence DEF FilesAssumption
<1>3. Len(text) \in Nat
  BY <1>2, SequenceFacts
<1>4. Place(text, 1).line = 1 /\ Place(text, 1).column = 1
  <2>1. Breaks(text, 1) = {}
    BY DEF Breaks
  <2>2. {} \cup {0} = {0} /\ Max({0}) = 0
    BY DEF Max
  <2>3. Place(text, 1) = [line |-> 1 + Cardinality({}), column |-> 1 - Max({} \cup {0})]
    BY <2>1 DEF Place
  <2> QED
    BY <2>2, <2>3, FS_EmptySet
<1>5. Behind(tokens, Len(tokens) + 1) = 1
  BY <1>2 DEF Behind
<1> QED
  BY <1>1, <1>2, <1>3, <1>4, <1>5 DEF LexInv

(* What may stand between two tokens: no newline, and blanks up to a comment. *)
IsGap(s, from, first) ==
  \A k \in from .. first - 1 :
    /\ s[k] # Newline
    /\ s[k] \in Blanks \/ \E c \in from .. k : s[c] = ";"

LEMMA GapPlaces ==
  ASSUME NEW L \in Nat, NEW from \in Nat, NEW first \in Nat,
         from >= 1, from <= first, first <= L + 1
  PROVE  /\ \A k \in from .. first - 1 : k \in 1 .. L
         /\ IF from <= first - 1 THEN (first - 1) - from + 1 = first - from ELSE first - from = 0
         /\ \A k \in 1 .. first - from :
              /\ from + k - 1 \in from .. first - 1
              /\ k \in 1 .. (first - 1) - from + 1
  OBVIOUS

LEMMA GapPlaceOf ==
  ASSUME NEW from \in Nat, NEW first \in Nat, NEW k \in 1 .. first - from,
         NEW c \in from .. from + k - 1
  PROVE  /\ c - from + 1 \in 1 .. first - from
         /\ from + (c - from + 1) - 1 = c
         /\ c - from + 1 <= k
  OBVIOUS

(* The characters between two tokens, as a sequence of their own: what is known
   of them by their places in the text is known of them in the gap. *)
LEMMA GapFacts ==
  ASSUME NEW S, NEW s \in Seq(S), NEW from \in Nat, NEW first \in Nat,
         from >= 1, from <= first, first <= Len(s) + 1, IsGap(s, from, first)
  PROVE  LET gap == SubSeq(s, from, first - 1)
             comment == {k \in DOMAIN gap : gap[k] = ";"}
         IN  /\ \A k \in DOMAIN gap : gap[k] \in Blanks \/ \E c \in comment : c <= k
             /\ Newline \notin Range(gap)
             /\ comment # {} => \E c \in from .. first - 1 : s[c] = ";"
<1> DEFINE L == Len(s)
           gap == SubSeq(s, from, first - 1)
           comment == {k \in DOMAIN gap : gap[k] = ";"}
<1> HIDE DEF comment
<1>1. L \in Nat /\ \A k \in 1 .. L : s[k] \in S
  OBVIOUS
<1>2. first <= L + 1
  OBVIOUS
<1> HIDE DEF L
<1>3. /\ gap \in Seq(S)
      /\ Len(gap) = IF from <= first - 1 THEN (first - 1) - from + 1 ELSE 0
      /\ \A k \in 1 .. (first - 1) - from + 1 : gap[k] = s[from + k - 1]
  <2>1. \A k \in from .. first - 1 : k \in 1 .. L
    BY <1>1, <1>2, GapPlaces
  <2>2. \A k \in from .. first - 1 : s[k] \in S
    BY <1>1, <2>1
  <2>3. from \in Int /\ first - 1 \in Int
    OBVIOUS
  <2> QED
    BY <2>2, <2>3, SubSeqProperties
<1> HIDE DEF gap
<1>4. DOMAIN gap = 1 .. first - from
  <2>1. Len(gap) = first - from
    BY <1>1, <1>2, <1>3, GapPlaces
  <2>2. DOMAIN gap = 1 .. Len(gap)
    BY <1>3
  <2> QED
    BY <2>1, <2>2
<1>5. ASSUME NEW k \in DOMAIN gap
      PROVE  /\ k \in 1 .. first - from
             /\ from + k - 1 \in from .. first - 1
             /\ gap[k] = s[from + k - 1]
  <2>1. k \in 1 .. first - from
    BY <1>4
  <2>2. from + k - 1 \in from .. first - 1 /\ k \in 1 .. (first - 1) - from + 1
    BY <1>1, <1>2, <2>1, GapPlaces
  <2> QED
    BY <1>3, <2>1, <2>2
<1>6. ASSUME NEW k \in DOMAIN gap
      PROVE  /\ gap[k] # Newline
             /\ gap[k] \in Blanks \/ \E c \in comment : c <= k
  <2>1. /\ k \in 1 .. first - from /\ from + k - 1 \in from .. first - 1
        /\ gap[k] = s[from + k - 1]
    BY <1>5
  <2>2. /\ s[from + k - 1] # Newline
        /\ s[from + k - 1] \in Blanks \/ \E c \in from .. from + k - 1 : s[c] = ";"
    BY <2>1 DEF IsGap
  <2>3. CASE \E c \in from .. from + k - 1 : s[c] = ";"
    <3>1. PICK c \in from .. from + k - 1 : s[c] = ";"
      BY <2>3
    <3> DEFINE d == c - from + 1
    <3>2. d \in 1 .. first - from /\ from + d - 1 = c /\ d <= k
      BY <2>1, <3>1, GapPlaceOf
    <3> HIDE DEF d
    <3>3. d \in DOMAIN gap
      BY <1>4, <3>2
    <3>4. gap[d] = s[c]
      BY <1>5, <3>2, <3>3
    <3>5. d \in comment
      BY <3>1, <3>3, <3>4 DEF comment
    <3> QED
      BY <2>1, <2>2, <3>2, <3>5
  <2> QED
    BY <2>1, <2>2, <2>3
<1>7. comment # {} => \E c \in from .. first - 1 : s[c] = ";"
  <2> SUFFICES ASSUME NEW k \in comment
               PROVE  \E c \in from .. first - 1 : s[c] = ";"
    OBVIOUS
  <2>1. k \in DOMAIN gap /\ gap[k] = ";"
    BY DEF comment
  <2>2. from + k - 1 \in from .. first - 1 /\ gap[k] = s[from + k - 1]
    BY <1>5, <2>1
  <2> QED
    BY <2>1, <2>2
<1>8. Newline \notin Range(gap)
  BY <1>6 DEF Range
<1> QED
  BY <1>6, <1>7, <1>8 DEF gap, comment

(* The position that NextToken is in after it. *)
LEMMA PlacesFound ==
  ASSUME LexInv, NEW start \in index .. Len(text) + 1,
         \A k \in index .. start - 1 : text[k] # Newline,
         NEW found, found.kind # "error", IsLexeme(found, start)
  PROVE  /\ Place(text, start) = [line |-> line, column |-> ColumnAt(index, start)]
         /\ Place(text, found.end) =
              IF found.kind = Newline THEN [line |-> line + 1, column |-> 1]
              ELSE [line |-> line, column |-> ColumnAt(index, found.end)]
         /\ found.end \in start .. Len(text) + 1
<1>1. /\ index \in 1 .. Len(text) + 1 /\ Len(text) \in Nat
      /\ line = Place(text, index).line /\ column = Place(text, index).column
  BY SequenceFacts DEF LexInv
<1>2. ASSUME NEW i
      PROVE  Place(text, i) = [line |-> Place(text, i).line, column |-> Place(text, i).column]
  BY DEF Place
<1>3. ASSUME NEW i \in index .. Len(text) + 1, \A k \in index .. i - 1 : text[k] # Newline
      PROVE  /\ Place(text, i).line = line
             /\ Place(text, i).column = column + (i - index)
  <2>1. index \in Nat \ {0} /\ i \in Nat /\ index <= i
    BY <1>1
  <2> QED
    BY <1>1, <1>3, <2>1, PlaceOnLine
<1>4. Place(text, start).line = line /\ Place(text, start).column = ColumnAt(index, start)
  BY <1>3 DEF ColumnAt
<1>5. CASE found.kind = Newline
  <2>1. found.end = start + 1 /\ start \in 1 .. Len(text) /\ text[start] = Newline
    BY <1>5 DEF IsLexeme
  <2>2. Place(text, start + 1).line = line + 1 /\ Place(text, start + 1).column = 1
    BY <1>4, <2>1, PlaceOnNextLine
  <2>3. start + 1 \in start .. Len(text) + 1
    BY <1>1, <2>1
  <2>4. Place(text, found.end) = [line |-> line + 1, column |-> 1]
    BY <1>2, <2>1, <2>2
  <2>5. Place(text, start) = [line |-> line, column |-> ColumnAt(index, start)]
    BY <1>2, <1>4
  <2> QED
    BY <1>5, <2>1, <2>3, <2>4, <2>5
<1>6. CASE found.kind # Newline
  <2>1. found.end \in start .. Len(text) + 1
        /\ \A c \in start .. found.end - 1 : text[c] # Newline
    BY <1>6 DEF IsLexeme, EndsOnLine
  <2>2. \A c \in index .. found.end - 1 : c \in index .. start - 1 \/ c \in start .. found.end - 1
    BY <1>1, <2>1
  <2>3. found.end \in index .. Len(text) + 1
    BY <1>1, <2>1
  <2> DEFINE e == found.end
  <2> HIDE DEF e
  <2>4. e \in index .. Len(text) + 1 /\ \A c \in index .. e - 1 : text[c] # Newline
    BY <2>1, <2>2, <2>3 DEF e
  <2>5. Place(text, e).line = line /\ Place(text, e).column = ColumnAt(index, e)
    BY <1>3, <2>4 DEF ColumnAt
  <2>6. Place(text, e) = [line |-> line, column |-> ColumnAt(index, e)]
    BY <1>2, <2>5
  <2>7. Place(text, start) = [line |-> line, column |-> ColumnAt(index, start)]
    BY <1>2, <1>4
  <2> QED
    BY <1>6, <2>1, <2>6, <2>7 DEF e
<1> QED
  BY <1>5, <1>6

LEMMA TokenFound ==
  ASSUME LexInv, NextToken
  PROVE  LexInv'
<1> DEFINE start == Skip(index)
           found == Lexeme(start)
           behind == IF found.kind = Newline
                       THEN [line |-> line + 1, column |-> 1]
                       ELSE [line |-> line, column |-> ColumnAt(index, found.end)]
           at == IF found.kind \in OneChar THEN behind
                 ELSE [line |-> line, column |-> ColumnAt(index, start)]
           new == [kind |-> found.kind, number |-> found.number, value |-> found.value,
                   line |-> at.line, column |-> at.column,
                   first |-> start, end |-> found.end]
           N == Len(tokens)
<1>1. /\ IsSequence(text) /\ IsSequence(tokens) /\ Len(text) \in Nat /\ N \in Nat
      /\ index \in 1 .. Len(text) + 1 /\ index = Behind(tokens, N + 1)
      /\ \A n \in 1 .. N : IsToken(text, Behind(tokens, n), tokens[n])
  BY SequenceFacts DEF LexInv
<1>2. text' = text
  BY DEF NextToken
<1>3. CASE found.kind = "error"
  <2>1. UNCHANGED <<index, line, column, tokens>>
    BY <1>3 DEF NextToken
  <2> QED
    BY <1>2, <2>1 DEF LexInv
<1>4. CASE found.kind # "error"
  <2>1. /\ tokens' = Append(tokens, new) /\ index' = found.end
        /\ line' = behind.line /\ column' = behind.column
    BY <1>4 DEF NextToken
  <2>2. /\ start \in index .. Len(text) + 1
        /\ \A k \in index .. start - 1 :
             /\ text[k] # Newline
             /\ text[k] \in Blanks \/ \E c \in index .. k : text[c] = ";"
        /\ (\E c \in index .. start - 1 : text[c] = ";") => Char(start) \in {"null", Newline}
    BY <1>1, SkipFacts
  <2> HIDE DEF start
  <2>3. start \in 1 .. Len(text) + 1 /\ index <= start
    <3> DEFINE L == Len(text)
    <3>1. L \in Nat /\ index \in 1 .. L + 1 /\ start \in index .. L + 1
      BY <1>1, <2>2
    <3> HIDE DEF L
    <3>2. start \in 1 .. L + 1 /\ index <= start
      BY <3>1
    <3> QED
      BY <3>2 DEF L
  <2>4. IsLexeme(found, start)
    BY <1>1, <2>3, LexemeFacts
  <2> HIDE DEF found
  <2>5. /\ Place(text, start) = [line |-> line, column |-> ColumnAt(index, start)]
        /\ Place(text, found.end) = behind
        /\ found.end \in start .. Len(text) + 1
    BY <1>4, <2>2, <2>4, PlacesFound
  <2> HIDE DEF behind
  <2>6. new.kind = found.kind /\ new.first = start /\ new.end = found.end
        /\ new.line = at.line /\ new.column = at.column
    OBVIOUS
  <2>7. at = Place(text, IF found.kind \in OneChar THEN found.end ELSE start)
    BY <2>5
  <2>8. ASSUME NEW i
        PROVE  Place(text, i) = [line |-> Place(text, i).line, column |-> Place(text, i).column]
    BY DEF Place
  <2>9. [line |-> at.line, column |-> at.column] = at
    BY <2>7, <2>8
  <2> HIDE DEF at, new
  <2>10. IsToken(text, index, new)
    <3>1. [line |-> new.line, column |-> new.column]
            = Place(text, IF new.kind \in OneChar THEN new.end ELSE new.first)
      BY <2>6, <2>7, <2>9
    <3>2. CharAt(text, start) = Char(start)
      BY DEF CharAt, Char
    <3> QED
      BY <2>2, <2>5, <2>6, <2>3, <3>1, <3>2 DEF IsToken
  <2>11. /\ IsSequence(tokens') /\ Len(tokens') = N + 1 /\ tokens'[N + 1] = new
         /\ \A n \in 1 .. N : tokens'[n] = tokens[n]
    BY <1>1, <2>1, AppendFacts
  <2> HIDE DEF N
  <2>12. ASSUME NEW n \in 1 .. N + 1
         PROVE  IsToken(text, Behind(tokens', n), tokens'[n])
    <3>1. Behind(tokens', n) = Behind(tokens, n)
      <4>1. n # 1 => n - 1 \in 1 .. N
        BY <1>1
      <4> QED
        BY <2>11, <4>1 DEF Behind
    <3>2. CASE n = N + 1
      BY <1>1, <2>10, <2>11, <3>1, <3>2
    <3>3. CASE n # N + 1
      <4>1. n \in 1 .. N
        BY <1>1, <3>3
      <4> QED
        BY <1>1, <2>11, <3>1, <4>1
    <3> QED
      BY <3>2, <3>3
  <2>13. index' = Behind(tokens', (N + 1) + 1)
    <3>1. (N + 1) + 1 # 1 /\ ((N + 1) + 1) - 1 = N + 1
      BY <1>1
    <3> QED
      BY <2>1, <2>6, <2>11, <3>1 DEF Behind
  <2>14. index' \in 1 .. Len(text) + 1
    <3> DEFINE L == Len(text)
               e == found.end
    <3>1. L \in Nat /\ e \in start .. L + 1 /\ start \in 1 .. L + 1
      BY <1>1, <2>5, <2>3
    <3> HIDE DEF L, e
    <3>2. e \in 1 .. L + 1
      BY <3>1
    <3> QED
      BY <2>1, <3>2 DEF L, e
  <2>15. line' = Place(text, index').line /\ column' = Place(text, index').column
    BY <2>1, <2>5
  <2> QED
    BY <1>1, <1>2, <2>11, <2>12, <2>13, <2>14, <2>15 DEF LexInv
<1> QED
  BY <1>3, <1>4

LEMMA LexInvKept == LexInv /\ [AssembleNext]_allVars => LexInv'
<1> SUFFICES ASSUME LexInv, [AssembleNext]_allVars
             PROVE  LexInv'
  OBVIOUS
<1>1. CASE NextToken
  BY <1>1, TokenFound
<1>2. CASE UNCHANGED <<text, index, line, column, tokens>>
  BY <1>2 DEF LexInv
<1>3. ReadRoot => NextToken \/ UNCHANGED <<text, index, line, column, tokens>>
  BY DEF ReadRoot, ReadNext, ConsumeNewline, ParseLabel, ParseStatement, FinishLine, ParserDone, lexVars
<1>4. AssembleStep \/ UNCHANGED allVars => UNCHANGED <<text, index, line, column, tokens>>
  BY DEF AssembleStep, ParseRoot, ProcessIncludes, IncludesProcessed, RunPasses,
         allVars, readVars, lexVars
<1> QED
  BY <1>1, <1>2, <1>3, <1>4 DEF AssembleNext

LEMMA LexInvHolds == FileSpec => []LexInv
  BY LexInvInit, LexInvKept, PTL DEF FileSpec

LEMMA LexInvCovers == LexInv => TokensCoverText
<1> SUFFICES ASSUME LexInv PROVE SpansNameText /\ NothingLost
  BY DEF TokensCoverText
<1>1. /\ IsSequence(text) /\ IsSequence(tokens)
      /\ \A n \in 1 .. Len(tokens) : IsToken(text, Behind(tokens, n), tokens[n])
      /\ Len(text) \in Nat /\ DOMAIN text = 1 .. Len(text)
      /\ DOMAIN tokens = 1 .. Len(tokens) /\ Len(tokens) \in Nat
  BY SequenceFacts DEF LexInv
<1>2. SpansNameText
  <2>1. ASSUME NEW i PROVE PlaceOf(i) = Place(text, i)
    BY DEF PlaceOf, Place, Newlines, Breaks
  <2>2. ASSUME NEW t \in Range(tokens)
        PROVE  [line |-> t.line, column |-> t.column]
                 = Place(text, IF t.kind \in OneChar THEN t.end ELSE t.first)
    <3>1. PICK n \in 1 .. Len(tokens) : t = tokens[n]
      BY <1>1 DEF Range
    <3> QED
      BY <1>1, <3>1 DEF IsToken
  <2> QED
    BY <2>1, <2>2 DEF SpansNameText
<1>3. NothingLost
  <2> SUFFICES ASSUME NEW n \in 1 .. Len(tokens)
               PROVE  LET from == IF n = 1 THEN 1 ELSE tokens[n - 1].end
                          gap == SubSeq(text, from, tokens[n].first - 1)
                          comment == {k \in DOMAIN gap : gap[k] = ";"}
                      IN  /\ from <= tokens[n].first /\ tokens[n].first <= tokens[n].end
                          /\ \A k \in DOMAIN gap : gap[k] \in Blanks \/ \E c \in comment : c <= k
                          /\ Newline \notin Range(gap)
                          /\ comment # {} => Char(tokens[n].first) \in {"null", Newline}
    BY <1>1 DEF NothingLost
  <2> DEFINE from == IF n = 1 THEN 1 ELSE tokens[n - 1].end
             first == tokens[n].first
             gap == SubSeq(text, from, first - 1)
             comment == {k \in DOMAIN gap : gap[k] = ";"}
  <2>1. IsToken(text, from, tokens[n])
    BY <1>1 DEF Behind
  <2> DEFINE L == Len(text)
             end == tokens[n].end
  <2>2. L \in Nat /\ text \in Seq(Range(text))
    BY <1>1, SequenceFacts DEF IsSequence
  <2>3. from \in 1 .. L + 1
    <3>1. CASE n = 1
      BY <2>2, <3>1
    <3>2. CASE n # 1
      <4>1. n - 1 \in 1 .. Len(tokens)
        BY <1>1, <3>2
      <4>2. IsToken(text, Behind(tokens, n - 1), tokens[n - 1])
        BY <1>1, <4>1
      <4> DEFINE t == tokens[n - 1]
      <4> HIDE DEF t
      <4>3. t.first \in 1 .. L + 1 /\ t.end \in t.first .. L + 1
        BY <4>2 DEF IsToken, t
      <4> HIDE DEF L
      <4>4. t.end \in 1 .. L + 1
        BY <2>2, <4>3
      <4> QED
        BY <3>2, <4>4 DEF t
    <3> QED
      BY <3>1, <3>2
  <2>4. /\ from <= first /\ first \in 1 .. L + 1 /\ end \in first .. L + 1
        /\ IsGap(text, from, first)
        /\ (\E c \in from .. first - 1 : text[c] = ";") => Char(first) \in {"null", Newline}
    BY <2>1 DEF IsToken, CharAt, Char, IsGap
  <2> HIDE DEF from, first, end
  <2>5. /\ from \in Nat /\ first \in Nat /\ from >= 1 /\ from <= first
        /\ first <= L + 1 /\ first <= end
    <3>1. /\ from <= first /\ first \in 1 .. L + 1 /\ end \in first .. L + 1
      BY <2>4
    <3> HIDE DEF L
    <3> QED
      BY <2>2, <2>3, <3>1
  <2>6. /\ \A k \in DOMAIN gap : gap[k] \in Blanks \/ \E c \in comment : c <= k
        /\ Newline \notin Range(gap)
        /\ comment # {} => \E c \in from .. first - 1 : text[c] = ";"
    BY <2>2, <2>4, <2>5, GapFacts
  <2> HIDE DEF gap, comment
  <2> QED
    BY <2>4, <2>5, <2>6 DEF from, first, end, gap, comment
<1> QED
  BY <1>2, <1>3

(* TokensCoverText, for every text and whatever is a letter: line_ and column_
   stay in step with index_, and the lexer passes over blanks and comments
   only. *)
THEOREM TokensAreTheText == FileSpec => []TokensCoverText
  BY LexInvHolds, LexInvCovers, PTL
=============================================================================

---------------------------- MODULE DevicesProofs ----------------------------
(***************************************************************************)
(* The coprocessor's lines, for every two points, the input device's ring, *)
(* for every capacity and every set of key codes, and the machine around   *)
(* the CPU, for every layout of its address space and every program:       *)
(* memory keeps what is stored, and each device keeps, driven by Memory    *)
(* and the frontend, what was proved of it alone.                          *)
(***************************************************************************)
EXTENDS Devices, NaturalNumbers, FiniteSetTheorems, SequenceTheorems

-----------------------------------------------------------------------------
(***************************************************************************)
(* draw_line, for every two points of the 256 by 256 picture.  The         *)
(* argument: the code's error is always D*b - E*a + D - E, where D and E   *)
(* are the sides of the box and a and b the pixels gone along each.  Half  *)
(* a pixel of deviation D*b - E*a is kept by every iteration, and from it  *)
(* follows which of the two moves an iteration makes.                      *)
(***************************************************************************)

(* A product falls by a whole factor when the other is one smaller. *)
LEMMA OneLess ==
  ASSUME NEW D \in Nat, NEW m \in Nat, NEW n \in Nat, m < n
  PROVE  D * m <= D * n - D
<1>1. D * (n - m - 1) >= 0
  OBVIOUS
<1>2. D * (n - m - 1) = D * n - D * m - D
  OBVIOUS
<1> QED
  BY <1>1, <1>2

LEMMA MulNext ==
  ASSUME NEW D \in Nat, NEW m \in Nat
  PROVE  D * (m + 1) = D * m + D /\ D * m \in Nat
OBVIOUS

(* What one iteration decides, in the box's own coordinates. *)
LEMMA Decision ==
  ASSUME NEW D \in Nat, NEW E \in Nat, NEW a \in Nat, NEW b \in Nat,
         a <= D, b <= E, ~(a = D /\ b = E),
         NEW k \in Int, k = D * b - E * a,
         D >= E => 2 * k <= D /\ -D <= 2 * k,
         D < E => 2 * k <= E /\ -E <= 2 * k,
         NEW e \in Int, e = k + D - E
  PROVE  /\ 2 * e >= -E => a < D
         /\ 2 * e <= D => b < E
         /\ D >= E => 2 * e >= -E
         /\ D < E => 2 * e <= D
<1>1. ASSUME a = D PROVE ~(2 * e >= -E)
  <2>1. b < E /\ D * b <= D * E - D
    BY <1>1, OneLess
  <2>2. E * D = D * E
    OBVIOUS
  <2>3. k <= -D
    BY <1>1, <2>1, <2>2
  <2> QED
    BY <2>1, <2>3
<1>2. ASSUME b = E PROVE ~(2 * e <= D)
  <2>1. a < D /\ E * a <= E * D - E
    BY <1>2, OneLess
  <2>2. E * D = D * E
    OBVIOUS
  <2>3. k >= E
    BY <1>2, <2>1, <2>2
  <2> QED
    BY <2>1, <2>3
<1>3. D >= E => 2 * e >= -E
  OBVIOUS
<1>4. D < E => 2 * e <= D
  OBVIOUS
<1> QED
  BY <1>1, <1>2, <1>3, <1>4

(* A coordinate p on its way from p0 to t moves by one step. *)
LEMMA OneStep ==
  ASSUME NEW p0 \in Int, NEW t \in Int, NEW p \in Int,
         Abs(t - p) = Abs(t - p0) - Abs(p - p0),
         Abs(p - p0) < Abs(t - p0)
  PROVE  LET q == p + (IF p0 < t THEN 1 ELSE -1)
         IN  /\ q \in Int
             /\ Abs(q - p0) = Abs(p - p0) + 1
             /\ Abs(t - q) = Abs(t - p0) - Abs(q - p0)
BY DEF Abs

(* The state of a call, with the sides of the box and the pixels gone. *)
LineTypes ==
  /\ x0 \in Int /\ y0 \in Int /\ target_x \in Int /\ target_y \in Int
  /\ x \in Int /\ y \in Int /\ error \in Int
  /\ drawing \in BOOLEAN

(* The code's error variable, in terms of the pixels gone. *)
ErrorInv == drawing => error = dx * GoneY + dy * GoneX + dx + dy

LineInv == LineTypes /\ InBox /\ HalfPixel /\ ErrorInv

LEMMA Sides ==
  ASSUME LineTypes
  PROVE  /\ dx \in Nat /\ -dy \in Nat /\ dy \in Int
         /\ GoneX \in Nat /\ GoneY \in Nat
         /\ dy * GoneX = -((-dy) * GoneX)
<1>1. dx \in Nat /\ -dy \in Nat /\ dy \in Int /\ GoneX \in Nat /\ GoneY \in Nat
  BY DEF LineTypes, dx, dy, GoneX, GoneY, Abs
<1>2. ASSUME NEW m \in Int, NEW n \in Nat PROVE m * n = -((-m) * n)
  OBVIOUS
<1> QED
  BY <1>1, <1>2

(* The tests of one iteration. *)
StepH == 2 * error >= dy
StepV == 2 * error <= dx

(* What the tests of an iteration decide, in the state's own terms. *)
LEMMA Decided ==
  ASSUME LineInv, drawing, ~AtTarget
  PROVE  /\ StepH => GoneX < dx
         /\ StepV => GoneY < -dy
         /\ dx >= -dy => StepH
         /\ dx < -dy => StepV
<1> DEFINE D == dx
           E == -dy
           a == GoneX
           b == GoneY
           k == D * b - E * a
<1>1. D \in Nat /\ E \in Nat /\ a \in Nat /\ b \in Nat /\ error \in Int /\ dy = -E
      /\ k \in Int /\ k = dx * GoneY + dy * GoneX
  BY Sides DEF LineInv, LineTypes
<1>2. a <= D /\ b <= E /\ ~(a = D /\ b = E)
  <2>1. a <= D /\ b <= E /\ Abs(target_x - x) = D - a /\ Abs(target_y - y) = E - b
    BY DEF LineInv, InBox
  <2>2. ASSUME a = D, b = E PROVE AtTarget
    BY <1>1, <2>1, <2>2 DEF AtTarget, Abs, LineInv, LineTypes
  <2> QED
    BY <2>1, <2>2
<1>3. /\ D >= E => 2 * k <= D /\ -D <= 2 * k
      /\ D < E => 2 * k <= E /\ -E <= 2 * k
  BY <1>1 DEF LineInv, HalfPixel, Longer, Abs
<1>4. error = k + D - E
  BY <1>1 DEF LineInv, ErrorInv
<1> HIDE DEF D, E, a, b, k
<1>5. k = D * b - E * a
  BY DEF k
<1>6. /\ 2 * error >= -E => a < D
      /\ 2 * error <= D => b < E
      /\ D >= E => 2 * error >= -E
      /\ D < E => 2 * error <= D
  BY <1>1, <1>2, <1>3, <1>4, <1>5, Decision
<1> QED
  BY <1>1, <1>6 DEF StepH, StepV, D, E, a, b

(* Where an iteration leads along each axis. *)
LEMMA Moved ==
  ASSUME LineInv, Advance
  PROVE  /\ LineTypes' /\ drawing' = drawing /\ dx' = dx /\ dy' = dy
         /\ GoneX' = GoneX + (IF StepH THEN 1 ELSE 0)
         /\ GoneY' = GoneY + (IF StepV THEN 1 ELSE 0)
         /\ Abs(target_x - x)' = dx - GoneX'
         /\ Abs(target_y - y)' = -dy - GoneY'
         /\ error' = error + (IF StepH THEN dy ELSE 0) + (IF StepV THEN dx ELSE 0)
<1>1. drawing /\ ~AtTarget
  BY DEF Advance
<1>2. LineTypes /\ dx \in Nat /\ dy \in Int
  BY Sides DEF LineInv
<1>3. /\ Abs(target_x - x) = Abs(target_x - x0) - Abs(x - x0)
      /\ Abs(target_y - y) = Abs(target_y - y0) - Abs(y - y0)
  BY <1>1, <1>2 DEF LineInv, InBox, dx, dy, GoneX, GoneY, LineTypes, Abs
<1>4. /\ x0' = x0 /\ y0' = y0 /\ target_x' = target_x /\ target_y' = target_y
      /\ drawing' = drawing
      /\ x' = x + (IF StepH THEN step_x ELSE 0)
      /\ y' = y + (IF StepV THEN step_y ELSE 0)
      /\ error' = error + (IF StepH THEN dy ELSE 0) + (IF StepV THEN dx ELSE 0)
  BY DEF Advance, StepH, StepV
<1>5. /\ x' \in Int
      /\ Abs(x' - x0) = Abs(x - x0) + (IF StepH THEN 1 ELSE 0)
      /\ Abs(target_x - x') = Abs(target_x - x0) - Abs(x' - x0)
  <2>1. CASE StepH
    <3>1. Abs(x - x0) < Abs(target_x - x0)
      BY <1>1, <2>1, Decided DEF GoneX, dx
    <3>2. x' = x + (IF x0 < target_x THEN 1 ELSE -1)
      BY <1>4, <2>1 DEF step_x
    <3>3. x0 \in Int /\ target_x \in Int /\ x \in Int
      BY <1>2 DEF LineTypes
    <3> QED
      BY <1>3, <2>1, <3>1, <3>2, <3>3, OneStep
  <2>2. CASE ~StepH
    BY <1>2, <1>3, <1>4, <2>2 DEF LineTypes, Abs
  <2> QED
    BY <2>1, <2>2
<1>6. /\ y' \in Int
      /\ Abs(y' - y0) = Abs(y - y0) + (IF StepV THEN 1 ELSE 0)
      /\ Abs(target_y - y') = Abs(target_y - y0) - Abs(y' - y0)
  <2>1. CASE StepV
    <3>1. Abs(y - y0) < Abs(target_y - y0)
      BY <1>1, <1>2, <2>1, Decided DEF GoneY, dy, LineTypes, Abs
    <3>2. y' = y + (IF y0 < target_y THEN 1 ELSE -1)
      BY <1>4, <2>1 DEF step_y
    <3>3. y0 \in Int /\ target_y \in Int /\ y \in Int
      BY <1>2 DEF LineTypes
    <3> QED
      BY <1>3, <2>1, <3>1, <3>2, <3>3, OneStep
  <2>2. CASE ~StepV
    BY <1>2, <1>3, <1>4, <2>2 DEF LineTypes, Abs
  <2> QED
    BY <2>1, <2>2
<1>7. dx' = dx /\ dy' = dy
  BY <1>4 DEF dx, dy
<1>8. LineTypes'
  BY <1>2, <1>4, <1>5, <1>6 DEF LineTypes
<1>9. /\ GoneX' = GoneX + (IF StepH THEN 1 ELSE 0)
      /\ GoneY' = GoneY + (IF StepV THEN 1 ELSE 0)
      /\ Abs(target_x - x)' = dx - GoneX'
  BY <1>4, <1>5, <1>6 DEF GoneX, GoneY, dx
<1>10. Abs(target_y - y)' = -dy - GoneY'
  BY <1>2, <1>4, <1>6 DEF GoneY, dy, LineTypes, Abs
<1> QED
  BY <1>4, <1>7, <1>8, <1>9, <1>10

(* An iteration keeps the deviation within half a pixel. *)
LEMMA AdvanceKeeps ==
  ASSUME LineInv, Advance
  PROVE  LineInv'
<1> DEFINE D == dx
           E == -dy
           a == GoneX
           b == GoneY
           k == D * b - E * a
           h == IF StepH THEN 1 ELSE 0
           v == IF StepV THEN 1 ELSE 0
           l == D * (b + v) - E * (a + h)
<1>1. D \in Nat /\ E \in Nat /\ a \in Nat /\ b \in Nat /\ error \in Int /\ dy = -E
      /\ k \in Int /\ k = dx * GoneY + dy * GoneX
  BY Sides DEF LineInv, LineTypes
<1>2. drawing /\ ~AtTarget
  BY DEF Advance
<1>3. /\ LineTypes' /\ drawing' = drawing /\ dx' = D /\ dy' = -E
      /\ GoneX' = a + h /\ GoneY' = b + v
      /\ Abs(target_x - x)' = dx - GoneX'
      /\ Abs(target_y - y)' = -dy - GoneY'
      /\ error' = error + (IF StepH THEN dy ELSE 0) + (IF StepV THEN dx ELSE 0)
  BY <1>1, Moved
<1>4. /\ StepH => a < D
      /\ StepV => b < E
      /\ D >= E => StepH
      /\ D < E => StepV
      /\ a <= D /\ b <= E
  BY <1>1, <1>2, Decided DEF LineInv, InBox
<1>5. /\ D >= E => 2 * k <= D /\ -D <= 2 * k
      /\ D < E => 2 * k <= E /\ -E <= 2 * k
  BY <1>1, <1>2 DEF LineInv, HalfPixel, Longer, Abs
<1>6. error = k + D - E
  BY <1>1, <1>2 DEF LineInv, ErrorInv
<1>7. h \in {0, 1} /\ v \in {0, 1} /\ (StepH <=> h = 1) /\ (StepV <=> v = 1)
      /\ (StepH <=> 2 * error >= -E) /\ (StepV <=> 2 * error <= D)
  BY <1>1 DEF StepH, StepV
<1>8. error' = error - E * h + D * v
  BY <1>1, <1>3, <1>7
<1>9. l = k + D * v - E * h /\ l \in Int
  <2>1. D * (b + v) = D * b + D * v
    BY <1>1, <1>7
  <2>2. E * (a + h) = E * a + E * h
    BY <1>1, <1>7
  <2> QED
    BY <1>1, <1>7, <2>1, <2>2
<1>10. l = D * GoneY' + (-E) * GoneX'
  <2>1. ASSUME NEW m \in Nat, NEW n \in Nat PROVE (-m) * n = -(m * n)
    OBVIOUS
  <2>2. a + h \in Nat /\ E * (a + h) \in Int /\ D * (b + v) \in Int
    BY <1>1, <1>7
  <2>3. (-E) * (a + h) = -(E * (a + h))
    BY <1>1, <2>1, <2>2
  <2> QED
    BY <1>3, <2>2, <2>3
<1> HIDE DEF D, E, a, b, k, h, v, l
<1>11. /\ D >= E => 2 * l <= D /\ -D <= 2 * l
       /\ D < E => 2 * l <= E /\ -E <= 2 * l
  BY <1>1, <1>4, <1>5, <1>6, <1>7, <1>9
<1>12. error' = l + D - E
  <2>1. E * h \in Int /\ D * v \in Int
    BY <1>1, <1>7
  <2> QED
    BY <1>1, <1>6, <1>8, <1>9, <2>1
<1>13. InBox'
  BY <1>1, <1>3, <1>4, <1>7 DEF InBox, D, E
<1>14. HalfPixel'
  BY <1>1, <1>3, <1>9, <1>10, <1>11 DEF HalfPixel, Longer, Abs
<1>15. ErrorInv'
  BY <1>1, <1>3, <1>9, <1>10, <1>12 DEF ErrorInv
<1> QED
  BY <1>3, <1>13, <1>14, <1>15 DEF LineInv

(* A call starts on its first point, with no deviation. *)
LEMMA CallStarts ==
  ASSUME NEW px0 \in Int, NEW py0 \in Int, NEW px1 \in Int, NEW py1 \in Int,
         draw_line(px0, py0, px1, py1)
  PROVE  LineInv'
<1> DEFINE D == Abs(px1 - px0)
           E == Abs(py1 - py0)
<1>1. D \in Nat /\ E \in Nat /\ Abs(0) = 0 /\ px0 - px0 = 0 /\ py0 - py0 = 0
  BY DEF Abs
<1>2. /\ x0' = px0 /\ y0' = py0 /\ target_x' = px1 /\ target_y' = py1
      /\ x' = px0 /\ y' = py0 /\ error' = D - E /\ drawing' = TRUE
  BY DEF draw_line
<1>3. dx' = D /\ dy' = -E /\ GoneX' = 0 /\ GoneY' = 0
  BY <1>1, <1>2 DEF dx, dy, GoneX, GoneY
<1>4. Abs(target_x - x)' = D /\ Abs(target_y - y)' = E
  BY <1>2
<1> HIDE DEF D, E
<1>5. D * 0 + (-E) * 0 = 0 /\ -(-E) = E /\ D - 0 = D /\ E - 0 = E
      /\ 0 + D + (-E) = D - E /\ 2 * 0 = 0
  BY <1>1
<1>6. LineTypes'
  <2>1. D - E \in Int
    BY <1>1
  <2> QED
    BY <1>2, <2>1, Zenon DEF LineTypes
<1>7. InBox'
  <2>1. 0 <= D /\ 0 <= E
    BY <1>1
  <2> QED
    BY <1>3, <1>4, <1>5, <2>1, Zenon DEF InBox
<1>8. HalfPixel'
  <2>1. 0 <= (IF D >= E THEN D ELSE E)
    BY <1>1
  <2>2. Longer' = IF D >= E THEN D ELSE E
    BY <1>3, <1>5, Zenon DEF Longer
  <2>3. (2 * Abs(dx * GoneY + dy * GoneX))' = 0
    BY <1>1, <1>3, <1>5, Zenon
  <2> QED
    BY <2>1, <2>2, <2>3, Zenon DEF HalfPixel
<1>9. ErrorInv'
  BY <1>2, <1>3, <1>5, Zenon DEF ErrorInv
<1> QED
  BY <1>6, <1>7, <1>8, <1>9 DEF LineInv

LEMMA LineInvInductive ==
  LineInv /\ [LineNext]_lineVars => LineInv'
<1> SUFFICES ASSUME LineInv, [LineNext]_lineVars
             PROVE  LineInv'
  OBVIOUS
<1>1. ASSUME NEW px0 \in Byte, NEW py0 \in Byte, NEW px1 \in Byte, NEW py1 \in Byte,
             draw_line(px0, py0, px1, py1)
      PROVE  LineInv'
  <2>1. px0 \in Int /\ py0 \in Int /\ px1 \in Int /\ py1 \in Int
    BY DEF Byte
  <2> QED
    BY <1>1, <2>1, CallStarts
<1>2. CASE Arrive
  BY <1>2 DEF Arrive, LineInv, LineTypes, InBox, HalfPixel, ErrorInv
<1>3. CASE Advance
  BY <1>3, AdvanceKeeps
<1>4. CASE UNCHANGED lineVars
  BY <1>4 DEF lineVars, LineInv, LineTypes, InBox, HalfPixel, ErrorInv, dx, dy, GoneX,
              GoneY, Longer, Abs
<1> QED
  BY <1>1, <1>2, <1>3, <1>4 DEF LineNext, LineLoop

LEMMA LineInvStarts == LineInit => LineInv
<1> SUFFICES ASSUME LineInit PROVE LineInv
  OBVIOUS
<1>1. LineTypes
  <2>1. /\ x0 \in Int /\ y0 \in Int /\ target_x \in Int /\ target_y \in Int
        /\ x \in Int /\ y \in Int /\ error \in Int
    BY SMT DEF LineInit
  <2>2. drawing \in BOOLEAN
    BY Zenon DEF LineInit
  <2> QED
    BY <2>1, <2>2 DEF LineTypes
<1>2. ~drawing
  BY DEF LineInit
<1> QED
  BY <1>1, <1>2 DEF LineInv, InBox, HalfPixel, ErrorInv

LEMMA LineInvHolds ==
  LineSpec => []LineInv
BY LineInvStarts, LineInvInductive, PTL DEF LineSpec

(* For every two points draw_line stays inside the rectangle between them,
   never runs past its target and never wraps around the picture, and each
   pixel it visits is within half a pixel of the ideal line. *)
THEOREM LineStaysOnCourse == LineSpec => []OnCourse
<1>1. LineInv => OnCourse
  BY DEF LineInv, OnCourse
<1> QED
  BY <1>1, LineInvHolds, PTL

LEMMA AdvanceApproaches ==
  ASSUME LineInv, Advance
  PROVE  ToGo' = ToGo - 1
<1>1. dx \in Nat /\ -dy \in Nat /\ dy \in Int /\ GoneX \in Nat /\ GoneY \in Nat
  BY Sides DEF LineInv
<1>2. /\ Abs(target_x - x) = dx - GoneX
      /\ Abs(target_y - y) = -dy - GoneY
  BY DEF LineInv, InBox, Advance
<1>3. (dx >= -dy => StepH) /\ (dx < -dy => StepV)
  BY Decided DEF Advance
<1>4. /\ dx' = dx /\ dy' = dy
      /\ GoneX' = GoneX + (IF StepH THEN 1 ELSE 0)
      /\ GoneY' = GoneY + (IF StepV THEN 1 ELSE 0)
      /\ Abs(target_x - x)' = dx - GoneX'
      /\ Abs(target_y - y)' = -dy - GoneY'
  BY Moved
<1>5. CASE dx >= -dy
  <2>1. ToGo = dx - GoneX /\ ToGo' = dx - GoneX'
    BY <1>2, <1>4, <1>5 DEF ToGo
  <2> QED
    BY <1>1, <1>3, <1>4, <1>5, <2>1
<1>6. CASE ~(dx >= -dy)
  <2>1. ToGo = -dy - GoneY /\ ToGo' = -dy - GoneY'
    BY <1>2, <1>4, <1>6 DEF ToGo
  <2> QED
    BY <1>1, <1>3, <1>4, <1>6, <2>1
<1> QED
  BY <1>5, <1>6

(* For every two points each iteration of draw_line's unbounded loop that
   does not end it leaves one pixel less to go. *)
THEOREM LineApproaches == LineSpec => Approaches
<1>1. LineInv => [Advance => ToGo' = ToGo - 1]_lineVars
  BY AdvanceApproaches
<1> QED
  BY <1>1, LineInvHolds, PTL DEF LineSpec, Approaches
-----------------------------------------------------------------------------
(* The pixels of a call. *)

(* Pixels gone, and how far a pixel is from the first, along the longer axis. *)
Gone == IF dx >= -dy THEN GoneX ELSE GoneY
Along(p) == IF dx >= -dy THEN Abs(p[1] - x0) ELSE Abs(p[2] - y0)

(* What LineIsWhole needs by induction: the pixels set are one for each step
   gone along the longer axis, all of them behind the next one. *)
WholeInv ==
  drawing =>
    /\ x0 \in Byte /\ y0 \in Byte /\ target_x \in Byte /\ target_y \in Byte
    /\ IsFiniteSet(plotted) /\ Cardinality(plotted) = Gone
    /\ \A p \in plotted : Along(p) \in 0 .. Gone - 1
    /\ (x = x0 /\ y = y0) \/ <<x0, y0>> \in plotted

(* Between two bytes the cast to uint8_t changes nothing. *)
LEMMA Between ==
  ASSUME NEW p0 \in Int, NEW t \in Int, NEW p \in Int,
         0 <= p0, p0 <= 255, 0 <= t, t <= 255,
         Abs(p - p0) <= Abs(t - p0), Abs(t - p) = Abs(t - p0) - Abs(p - p0)
  PROVE  p % 256 = p
<1>1. 0 <= p /\ p <= 255
  BY SMT DEF Abs
<1> QED
  BY <1>1, SMT

(* The pixel of an iteration is new, and is counted. *)
LEMMA NewPixel ==
  ASSUME LineInv, WholeInv, drawing
  PROVE  /\ Pixel(x, y) = <<x, y>>
         /\ Along(Pixel(x, y)) = Gone /\ Gone \in Nat
         /\ LET after == plotted \cup {Pixel(x, y)}
            IN  /\ IsFiniteSet(after) /\ Cardinality(after) = Gone + 1
                /\ \A p \in after : Along(p) \in 0 .. Gone
                /\ <<x0, y0>> \in after
<1> DEFINE after == plotted \cup {Pixel(x, y)}
<1>1. /\ x0 \in Int /\ y0 \in Int /\ target_x \in Int /\ target_y \in Int
      /\ x \in Int /\ y \in Int
  BY DEF LineInv, LineTypes
<1>2. /\ 0 <= x0 /\ x0 <= 255 /\ 0 <= target_x /\ target_x <= 255
      /\ 0 <= y0 /\ y0 <= 255 /\ 0 <= target_y /\ target_y <= 255
  BY SMT DEF WholeInv, Byte
<1>3. /\ Abs(x - x0) <= Abs(target_x - x0)
      /\ Abs(target_x - x) = Abs(target_x - x0) - Abs(x - x0)
  BY <1>1 DEF LineInv, InBox, dx, GoneX
<1>4. /\ Abs(y - y0) <= Abs(target_y - y0)
      /\ Abs(target_y - y) = Abs(target_y - y0) - Abs(y - y0)
  BY <1>1 DEF LineInv, InBox, dy, GoneY, Abs
<1>5. x % 256 = x /\ y % 256 = y
  BY <1>1, <1>2, <1>3, <1>4, Between
<1>6. Pixel(x, y) = <<x, y>>
  BY <1>5 DEF Pixel, AsByte
<1>7. Along(Pixel(x, y)) = Gone
  BY <1>6 DEF Along, Gone, GoneX, GoneY
<1>8. Gone \in Nat
  BY Sides DEF Gone, LineInv
<1>9. /\ IsFiniteSet(plotted) /\ Cardinality(plotted) = Gone
      /\ \A p \in plotted : Along(p) \in 0 .. Gone - 1
      /\ (x = x0 /\ y = y0) \/ <<x0, y0>> \in plotted
  BY DEF WholeInv
<1>10. Pixel(x, y) \notin plotted
  BY <1>7, <1>8, <1>9
<1>11. IsFiniteSet(after) /\ Cardinality(after) = Gone + 1
  BY <1>9, <1>10, FS_AddElement
<1>12. \A p \in after : Along(p) \in 0 .. Gone
  BY <1>7, <1>8, <1>9
<1>13. <<x0, y0>> \in after
  BY <1>6, <1>9
<1> QED
  BY <1>6, <1>7, <1>8, <1>11, <1>12, <1>13

(* A call starts with nothing set. *)
LEMMA CallStartsEmpty ==
  ASSUME NEW px0 \in Byte, NEW py0 \in Byte, NEW px1 \in Byte, NEW py1 \in Byte,
         draw_line(px0, py0, px1, py1)
  PROVE  WholeInv'
<1>1. /\ x0' = px0 /\ y0' = py0 /\ target_x' = px1 /\ target_y' = py1
      /\ x' = px0 /\ y' = py0 /\ plotted' = {}
  BY DEF draw_line
<1>2. Abs(px0 - px0) = 0 /\ Abs(py0 - py0) = 0
  BY SMT DEF Abs, Byte
<1>3. Gone' = 0
  BY <1>1, <1>2 DEF Gone, GoneX, GoneY
<1>4. IsFiniteSet(plotted') /\ Cardinality(plotted') = 0
  BY <1>1, FS_EmptySet
<1> QED
  BY <1>1, <1>3, <1>4 DEF WholeInv

(* An iteration moves on along the longer axis. *)
LEMMA AdvanceGoesOn ==
  ASSUME LineInv, Advance
  PROVE  Gone' = Gone + 1
<1>1. dx \in Nat /\ dy \in Int /\ GoneX \in Nat /\ GoneY \in Nat
  BY Sides DEF LineInv
<1>2. (dx >= -dy => StepH) /\ (dx < -dy => StepV)
  BY Decided DEF Advance
<1>3. /\ dx' = dx /\ dy' = dy
      /\ GoneX' = GoneX + (IF StepH THEN 1 ELSE 0)
      /\ GoneY' = GoneY + (IF StepV THEN 1 ELSE 0)
  BY Moved
<1> QED
  BY <1>1, <1>2, <1>3 DEF Gone

LEMMA AdvanceSetsOne ==
  ASSUME LineInv, WholeInv, Advance
  PROVE  WholeInv'
<1>1. /\ drawing /\ plotted' = plotted \cup {Pixel(x, y)}
      /\ x0' = x0 /\ y0' = y0 /\ target_x' = target_x /\ target_y' = target_y
  BY DEF Advance
<1>2. /\ IsFiniteSet(plotted') /\ Cardinality(plotted') = Gone + 1 /\ Gone \in Nat
      /\ \A p \in plotted' : Along(p) \in 0 .. Gone
      /\ <<x0, y0>> \in plotted'
  BY <1>1, NewPixel
<1>3. Gone' = Gone + 1
  BY AdvanceGoesOn
<1>4. \A p : Along(p)' = Along(p)
  BY <1>1 DEF Along, dx, dy
<1>5. \A p \in plotted' : Along(p)' \in 0 .. Gone' - 1
  BY <1>2, <1>3, <1>4
<1> QED
  BY <1>1, <1>2, <1>3, <1>5 DEF WholeInv

(* At the target both sides of the box are gone. *)
LEMMA ArriveEndsWhole ==
  ASSUME LineInv, WholeInv, Arrive
  PROVE  /\ {<<x0, y0>>, <<target_x, target_y>>} \subseteq plotted'
         /\ Cardinality(plotted') = Longer + 1
<1>1. /\ drawing /\ x = target_x /\ y = target_y
      /\ plotted' = plotted \cup {Pixel(x, y)}
  BY DEF Arrive, AtTarget
<1>2. /\ Pixel(x, y) = <<x, y>> /\ Cardinality(plotted') = Gone + 1
      /\ <<x0, y0>> \in plotted'
  BY <1>1, NewPixel
<1>3. Gone = Longer
  <2>1. /\ x0 \in Int /\ y0 \in Int /\ target_x \in Int /\ target_y \in Int
    BY DEF LineInv, LineTypes
  <2> QED
    BY <1>1, <2>1 DEF Gone, Longer, GoneX, GoneY, dx, dy, Abs
<1> QED
  BY <1>1, <1>2, <1>3

LEMMA WholeInvStarts == LineInit => WholeInv
BY DEF LineInit, WholeInv

LEMMA WholeInvInductive ==
  ASSUME LineInv, WholeInv, [LineNext]_lineVars
  PROVE  WholeInv'
<1>1. CASE Arrive
  BY <1>1 DEF Arrive, WholeInv
<1>2. CASE UNCHANGED lineVars
  <2>1. Gone' = Gone /\ \A p : Along(p)' = Along(p)
    BY <1>2 DEF lineVars, Gone, Along, GoneX, GoneY, dx, dy
  <2> QED
    BY <1>2, <2>1 DEF WholeInv, lineVars
<1> QED
  BY <1>1, <1>2, CallStartsEmpty, AdvanceSetsOne DEF LineNext, LineLoop

LEMMA WholeInvHolds == LineSpec => []WholeInv
<1>1. LineInv /\ WholeInv /\ [LineNext]_lineVars => WholeInv'
  BY WholeInvInductive
<1> QED
  BY <1>1, WholeInvStarts, LineInvHolds, PTL DEF LineSpec

(* For every two points a returning draw_line has set both of them and as
   many pixels as the longer side of its box has columns or rows. *)
THEOREM LineDrawnWhole == LineSpec => LineIsWhole
<1>1. LineInv /\ WholeInv /\ [LineNext]_lineVars =>
        [drawing /\ ~drawing' =>
           /\ {<<x0, y0>>, <<target_x, target_y>>} \subseteq plotted'
           /\ Cardinality(plotted') = Longer + 1]_lineVars
  <2> SUFFICES ASSUME LineInv, WholeInv, LineNext, drawing, ~drawing'
               PROVE  /\ {<<x0, y0>>, <<target_x, target_y>>} \subseteq plotted'
                      /\ Cardinality(plotted') = Longer + 1
    OBVIOUS
  <2>1. Arrive
    BY DEF LineNext, LineLoop, draw_line, Advance
  <2> QED
    BY <2>1, ArriveEndsWhole
<1> QED
  BY <1>1, LineInvHolds, WholeInvHolds, PTL DEF LineSpec, LineIsWhole

-----------------------------------------------------------------------------
(* The ring of keys is well formed, and implements a bounded FIFO. *)

(* An index below the capacity is its own position in the ring. *)
LEMMA ModSmall ==
  ASSUME NEW N \in Nat \ {0}, NEW a \in 0 .. N - 1
  PROVE  a % N = a
  OBVIOUS

(* An index at most one lap ahead wraps by one capacity. *)
LEMMA ModWrap ==
  ASSUME NEW N \in Nat \ {0}, NEW a \in N .. 2 * N - 1
  PROVE  a % N = a - N
  OBVIOUS

(* The slot reached i positions after r, without the modulus. *)
LEMMA SlotAfter ==
  ASSUME NEW N \in Nat \ {0}, NEW r \in 0 .. N - 1, NEW i \in 0 .. N
  PROVE  /\ (r + i) % N \in 0 .. N - 1
         /\ (r + i) % N = IF r + i < N THEN r + i ELSE r + i - N
<1>1. CASE r + i < N
  BY <1>1, ModSmall, r + i \in 0 .. N - 1
<1>2. CASE r + i >= N
  BY <1>2, ModWrap, r + i \in N .. 2 * N - 1
<1> QED
  BY <1>1, <1>2

(* Advancing the read index by one and counting one less from it names the
   same slots. *)
LEMMA SlotAfterNext ==
  ASSUME NEW N \in Nat \ {0}, NEW r \in 0 .. N - 1, NEW i \in 0 .. N - 1
  PROVE  (((r + 1) % N) + i) % N = (r + (i + 1)) % N
<1>1. /\ (r + 1) % N \in 0 .. N - 1
      /\ (r + 1) % N = IF r + 1 < N THEN r + 1 ELSE r + 1 - N
  BY SlotAfter, 1 \in 0 .. N
<1>2. /\ (r + (i + 1)) % N = IF r + (i + 1) < N THEN r + (i + 1)
                                               ELSE r + (i + 1) - N
  BY SlotAfter, i + 1 \in 0 .. N
<1> DEFINE s == (r + 1) % N
<1>3. (s + i) % N = IF s + i < N THEN s + i ELSE s + i - N
  BY <1>1, SlotAfter, i \in 0 .. N
<1> QED
  BY <1>1, <1>2, <1>3

(* Two positions of the occupied segment that are less than a lap apart are
   different slots. *)
LEMMA SlotsDiffer ==
  ASSUME NEW N \in Nat \ {0}, NEW r \in 0 .. N - 1,
         NEW i \in 0 .. N - 1, NEW j \in 0 .. N - 1, i # j
  PROVE  (r + i) % N # (r + j) % N
<1>1. (r + i) % N = IF r + i < N THEN r + i ELSE r + i - N
  BY SlotAfter, i \in 0 .. N
<1>2. (r + j) % N = IF r + j < N THEN r + j ELSE r + j - N
  BY SlotAfter, j \in 0 .. N
<1> QED
  BY <1>1, <1>2

-----------------------------------------------------------------------------
(* The three parts of IInv hold initially. *)
LEMMA InitIInv == Init => IInv
<1> SUFFICES ASSUME Init PROVE IInv
  OBVIOUS
<1> USE QueueSizeAssumption DEF Init
<1>1. TypeOK
  <2>1. queue \in [Slots -> Codes]
    BY DEF Codes
  <2>2. read_idx \in Slots /\ write_idx \in Slots /\ count \in 0 .. QUEUE_SIZE
    BY DEF Slots
  <2>3. answer \in Codes /\ key_state \subseteq KeyBits
    BY DEF Codes
  <2> QED
    BY <2>1, <2>2, <2>3 DEF TypeOK
<1>2. RingInv
  BY ModSmall, 0 \in 0 .. QUEUE_SIZE - 1 DEF RingInv
<1>3. OccupiedSlotsHoldKeys
  BY DEF OccupiedSlotsHoldKeys
<1> QED
  BY <1>1, <1>2, <1>3 DEF IInv

(* Every operation of the device keeps the ring well formed; only inject_key
   and a DATA read touch it. *)
LEMMA StepIInv == IInv /\ [Next]_vars => IInv'
<1> SUFFICES ASSUME IInv, [Next]_vars PROVE IInv'
  OBVIOUS
<1> USE QueueSizeAssumption
<1>0. TypeOK /\ RingInv /\ OccupiedSlotsHoldKeys
  BY DEF IInv
<1>1. ASSUME NEW k \in Keys, inject_key(k) PROVE IInv'
  <2>0. count \in 0 .. QUEUE_SIZE - 1 /\ count' = count + 1
    BY <1>0, <1>1 DEF TypeOK, inject_key, Enqueue, full
  <2>1. write_idx' = (write_idx + 1) % QUEUE_SIZE
    BY <1>1 DEF inject_key, Enqueue, NextSlot
  <2>2. write_idx' \in Slots
    BY <1>0, <2>1, SlotAfter, 1 \in 0 .. QUEUE_SIZE DEF TypeOK, Slots
  <2>3. queue' = [queue EXCEPT ![write_idx] = k] /\ read_idx' = read_idx
    BY <1>1 DEF inject_key, Enqueue
  <2>4. queue' \in [Slots -> Codes]
    BY <1>0, <2>3 DEF TypeOK, Codes
  <2>5. TypeOK'
    BY <1>0, <1>1, <2>0, <2>2, <2>4 DEF TypeOK, inject_key, Enqueue
  <2>6. RingInv'
    <3>1. write_idx = IF read_idx + count < QUEUE_SIZE
                        THEN read_idx + count ELSE read_idx + count - QUEUE_SIZE
      BY <1>0, <2>0, SlotAfter DEF RingInv, TypeOK, Slots
    <3>2. write_idx' = IF write_idx + 1 < QUEUE_SIZE
                         THEN write_idx + 1 ELSE write_idx + 1 - QUEUE_SIZE
      BY <1>0, <2>1, SlotAfter, 1 \in 0 .. QUEUE_SIZE DEF TypeOK, Slots
    <3>3. (read_idx + (count + 1)) % QUEUE_SIZE =
            IF read_idx + (count + 1) < QUEUE_SIZE
              THEN read_idx + (count + 1)
              ELSE read_idx + (count + 1) - QUEUE_SIZE
      BY <1>0, <2>0, SlotAfter, count + 1 \in 0 .. QUEUE_SIZE
      DEF TypeOK, Slots
    <3> QED
      BY <1>0, <2>0, <2>3, <3>1, <3>2, <3>3 DEF RingInv, TypeOK, Slots
  <2>7. OccupiedSlotsHoldKeys'
    <3> SUFFICES ASSUME NEW i \in 0 .. count
                 PROVE  queue'[(read_idx + i) % QUEUE_SIZE] \in Keys
      BY <1>0, <2>0, <2>3 DEF OccupiedSlotsHoldKeys, TypeOK
    <3>1. CASE i = count
      BY <1>0, <2>0, <2>3, <3>1 DEF RingInv, TypeOK
    <3>2. CASE i # count
      <4>1. i \in 0 .. count - 1 /\ i \in 0 .. QUEUE_SIZE - 1
        BY <1>0, <2>0, <3>2 DEF TypeOK
      <4>2. (read_idx + i) % QUEUE_SIZE # write_idx
        BY <1>0, <2>0, <3>2, <4>1, SlotsDiffer DEF RingInv, TypeOK, Slots
      <4>3. (read_idx + i) % QUEUE_SIZE \in Slots
        BY <1>0, <4>1, SlotAfter, i \in 0 .. QUEUE_SIZE DEF TypeOK, Slots
      <4> QED
        BY <1>0, <2>3, <4>1, <4>2, <4>3 DEF OccupiedSlotsHoldKeys, TypeOK
    <3> QED
      BY <3>1, <3>2
  <2> QED
    BY <2>5, <2>6, <2>7 DEF IInv
<1>2. ASSUME ReadData PROVE IInv'
  <2>1. CASE empty
    <3>1. answer' = NoKey /\ read_idx' = read_idx /\ count' = count
      BY <1>2, <2>1 DEF ReadData, Front
    <3> QED
      BY <1>0, <1>2, <3>1
      DEF IInv, ReadData, TypeOK, RingInv, OccupiedSlotsHoldKeys, Codes
  <2>2. CASE ~empty
    <3>0. count \in 1 .. QUEUE_SIZE
      BY <1>0, <2>2 DEF TypeOK, empty
    <3>1. /\ answer' = queue[read_idx]
          /\ read_idx' = (read_idx + 1) % QUEUE_SIZE
          /\ count' = count - 1
          /\ UNCHANGED <<queue, write_idx, irq_enabled, key_state, irq_line>>
      BY <1>2, <2>2 DEF ReadData, Front, NextSlot
    <3>2. read_idx' \in Slots
      BY <1>0, <3>1, SlotAfter, 1 \in 0 .. QUEUE_SIZE DEF TypeOK, Slots
    <3>3. TypeOK'
      BY <1>0, <3>0, <3>1, <3>2 DEF TypeOK
    <3>4. ASSUME NEW i \in 0 .. count - 1
          PROVE (read_idx' + i) % QUEUE_SIZE
                  = (read_idx + (i + 1)) % QUEUE_SIZE
      BY <1>0, <3>0, <3>1, SlotAfterNext, i \in 0 .. QUEUE_SIZE - 1
      DEF TypeOK, Slots
    <3>5. RingInv'
      <4>1. (read_idx' + (count - 1)) % QUEUE_SIZE
              = (read_idx + ((count - 1) + 1)) % QUEUE_SIZE
        BY <3>0, <3>4, count - 1 \in 0 .. count - 1
      <4> QED
        BY <1>0, <3>0, <3>1, <4>1 DEF RingInv, TypeOK, Slots
    <3>6. OccupiedSlotsHoldKeys'
      <4> SUFFICES ASSUME NEW i \in 0 .. (count - 1) - 1
                   PROVE  queue[(read_idx' + i) % QUEUE_SIZE] \in Keys
        BY <3>1 DEF OccupiedSlotsHoldKeys
      <4>1. i \in 0 .. count - 1 /\ i + 1 \in 0 .. count - 1
        BY <3>0
      <4> QED
        BY <1>0, <3>4, <4>1 DEF OccupiedSlotsHoldKeys
    <3> QED
      BY <3>3, <3>5, <3>6 DEF IInv
  <2> QED
    BY <2>1, <2>2
<1>3. ASSUME NEW b \in KeyBits, set_key_down(b) \/ set_key_up(b) PROVE IInv'
  BY <1>0, <1>3 DEF IInv, TypeOK, RingInv, OccupiedSlotsHoldKeys, ringVars,
                    set_key_down, set_key_up
<1>4. ASSUME NEW e \in BOOLEAN, WriteControl(e) PROVE IInv'
  BY <1>0, <1>4 DEF IInv, TypeOK, RingInv, OccupiedSlotsHoldKeys, ringVars,
                    WriteControl
<1>5. ASSUME TickControl PROVE IInv'
  <2>1. irq_line' \in BOOLEAN
    BY <1>0, <1>5, Zenon DEF TickControl, irq_pending, TypeOK
  <2> QED
    BY <1>0, <1>5, <2>1 DEF IInv, TypeOK, RingInv, OccupiedSlotsHoldKeys,
                            ringVars, TickControl
<1>6. ASSUME drop_key \/ UNCHANGED vars PROVE IInv'
  BY <1>0, <1>6 DEF IInv, TypeOK, RingInv, OccupiedSlotsHoldKeys, vars, drop_key
<1> QED
  BY <1>1, <1>2, <1>3, <1>4, <1>5, <1>6 DEF Next, Frontend, Program

(* Under every interleaving of frontend calls, register accesses and ticks
   and for every capacity inject_key and pop keep indices, counter and slots
   of the ring in agreement, and a pop only ever returns an injected key. *)
THEOREM RingIsSound == Spec => []IInv
  BY InitIInv, StepIInv, PTL DEF Spec

-----------------------------------------------------------------------------
(* A segment of a ring is a sequence of codes of the segment's length. *)
LEMMA SegmentSeq ==
  ASSUME NEW q \in [Slots -> Codes], NEW r \in Slots, NEW n \in 0 .. QUEUE_SIZE
  PROVE  /\ Segment(q, r, n) \in Seq(Codes)
         /\ Len(Segment(q, r, n)) = n
         /\ \A i \in 1 .. n : Segment(q, r, n)[i] = q[(r + (i - 1)) % QUEUE_SIZE]
<1> USE QueueSizeAssumption
<1>1. ASSUME NEW i \in 1 .. n
      PROVE q[(r + (i - 1)) % QUEUE_SIZE] \in Codes
  BY SlotAfter, i - 1 \in 0 .. QUEUE_SIZE DEF Slots
<1>2. Segment(q, r, n) \in [1 .. n -> Codes]
  BY <1>1 DEF Segment
<1> QED
  BY <1>2 DEF Segment

(* Writing the slot after a segment that does not fill the ring appends. *)
LEMMA SegmentAppend ==
  ASSUME NEW q \in [Slots -> Codes], NEW r \in Slots,
         NEW n \in 0 .. QUEUE_SIZE - 1, NEW k \in Keys
  PROVE  Segment([q EXCEPT ![(r + n) % QUEUE_SIZE] = k], r, n + 1)
           = Append(Segment(q, r, n), k)
<1> USE QueueSizeAssumption
<1> DEFINE p == [q EXCEPT ![(r + n) % QUEUE_SIZE] = k]
<1>0. n \in 0 .. QUEUE_SIZE /\ n + 1 \in 0 .. QUEUE_SIZE
  OBVIOUS
<1>1. (r + n) % QUEUE_SIZE \in Slots
  BY <1>0, SlotAfter DEF Slots
<1>2. p \in [Slots -> Codes]
  BY <1>1 DEF Codes
<1>3. /\ Segment(p, r, n + 1) \in Seq(Codes)
      /\ Len(Segment(p, r, n + 1)) = n + 1
      /\ \A i \in 1 .. n + 1 :
           Segment(p, r, n + 1)[i] = p[(r + (i - 1)) % QUEUE_SIZE]
  BY <1>0, <1>2, SegmentSeq
<1>4. /\ Segment(q, r, n) \in Seq(Codes)
      /\ Len(Segment(q, r, n)) = n
      /\ \A i \in 1 .. n : Segment(q, r, n)[i] = q[(r + (i - 1)) % QUEUE_SIZE]
  BY <1>0, SegmentSeq
<1> HIDE DEF p
<1>5. ASSUME NEW i \in 1 .. n
      PROVE p[(r + (i - 1)) % QUEUE_SIZE] = q[(r + (i - 1)) % QUEUE_SIZE]
  <2>1. i - 1 \in 0 .. QUEUE_SIZE - 1 /\ i - 1 # n /\ n \in 0 .. QUEUE_SIZE - 1
    OBVIOUS
  <2>2. (r + (i - 1)) % QUEUE_SIZE # (r + n) % QUEUE_SIZE
    BY <2>1, SlotsDiffer DEF Slots
  <2>3. (r + (i - 1)) % QUEUE_SIZE \in Slots
    BY <2>1, SlotAfter, i - 1 \in 0 .. QUEUE_SIZE DEF Slots
  <2> QED
    BY <2>2, <2>3 DEF p
<1>6. p[(r + n) % QUEUE_SIZE] = k
  BY <1>1 DEF p
<1>7. ASSUME NEW i \in 1 .. n + 1
      PROVE Segment(p, r, n + 1)[i] = Append(Segment(q, r, n), k)[i]
  <2>1. CASE i \in 1 .. n
    <3>1. Append(Segment(q, r, n), k)[i] = Segment(q, r, n)[i]
      BY <2>1, <1>4, AppendProperties, k \in Codes DEF Codes
    <3>2. Segment(p, r, n + 1)[i] = p[(r + (i - 1)) % QUEUE_SIZE]
      BY <1>3
    <3>3. Segment(q, r, n)[i] = q[(r + (i - 1)) % QUEUE_SIZE]
      BY <2>1, <1>4
    <3> QED
      BY <2>1, <1>5, <3>1, <3>2, <3>3
  <2>2. CASE i = n + 1
    <3>1. Append(Segment(q, r, n), k)[n + 1] = k
      BY <1>4, AppendProperties, k \in Codes DEF Codes
    <3>2. i - 1 = n
      BY <2>2
    <3> QED
      BY <2>2, <3>1, <3>2, <1>3, <1>6
  <2> QED
    BY <2>1, <2>2, i \in 1 .. n \/ i = n + 1
<1>8. /\ Append(Segment(q, r, n), k) \in Seq(Codes)
      /\ Len(Append(Segment(q, r, n), k)) = n + 1
  BY <1>4, AppendProperties, k \in Codes DEF Codes
<1>9. Segment(p, r, n + 1) = Append(Segment(q, r, n), k)
  BY <1>3, <1>7, <1>8, SeqEqual
<1> QED
  BY <1>9 DEF p

(* Moving the read index to the next slot drops the head of the segment. *)
LEMMA SegmentTail ==
  ASSUME NEW q \in [Slots -> Codes], NEW r \in Slots, NEW n \in 1 .. QUEUE_SIZE
  PROVE  /\ Segment(q, r, n) # <<>>
         /\ Head(Segment(q, r, n)) = q[r]
         /\ Tail(Segment(q, r, n)) = Segment(q, (r + 1) % QUEUE_SIZE, n - 1)
<1> USE QueueSizeAssumption
<1> DEFINE s == Segment(q, r, n)
           t == Segment(q, (r + 1) % QUEUE_SIZE, n - 1)
<1>0. (r + 1) % QUEUE_SIZE \in Slots /\ n - 1 \in 0 .. QUEUE_SIZE /\ n \in 0 .. QUEUE_SIZE
  BY SlotAfter, 1 \in 0 .. QUEUE_SIZE DEF Slots
<1>1. /\ s \in Seq(Codes) /\ Len(s) = n
      /\ \A i \in 1 .. n : s[i] = q[(r + (i - 1)) % QUEUE_SIZE]
  BY <1>0, SegmentSeq
<1>2. /\ t \in Seq(Codes) /\ Len(t) = n - 1
      /\ \A i \in 1 .. n - 1 :
           t[i] = q[(((r + 1) % QUEUE_SIZE) + (i - 1)) % QUEUE_SIZE]
  BY <1>0, SegmentSeq
<1> HIDE DEF s, t
<1>3. s # <<>>
  BY <1>1, EmptySeq
<1>4. Head(s) = q[r]
  <2>1. r \in 0 .. QUEUE_SIZE - 1 /\ r + (1 - 1) = r
    BY DEF Slots
  <2>2. r % QUEUE_SIZE = r
    BY <2>1, ModSmall
  <2>3. s[1] = q[r]
    BY <1>1, <2>1, <2>2, 1 \in 1 .. n
  <2> QED
    BY <1>1, <1>3, <2>3, HeadTailProperties
<1>5. /\ Tail(s) \in Seq(Codes) /\ Len(Tail(s)) = n - 1
      /\ \A i \in 1 .. Len(Tail(s)) : Tail(s)[i] = s[i + 1]
  BY <1>1, <1>3, HeadTailProperties
<1>6. ASSUME NEW i \in 1 .. n - 1 PROVE Tail(s)[i] = t[i]
  <2>1. i - 1 \in 0 .. QUEUE_SIZE - 1 /\ (i - 1) + 1 = i /\ (i + 1) - 1 = i
    BY <1>0
  <2>2. (((r + 1) % QUEUE_SIZE) + (i - 1)) % QUEUE_SIZE = (r + i) % QUEUE_SIZE
    BY <2>1, SlotAfterNext DEF Slots
  <2>3. s[i + 1] = q[(r + i) % QUEUE_SIZE]
    BY <1>1, <2>1, i + 1 \in 1 .. n
  <2> QED
    BY <1>2, <1>5, <2>2, <2>3
<1>7. Tail(s) = t
  BY <1>2, <1>5, <1>6, SeqEqual
<1> QED
  BY <1>3, <1>4, <1>7 DEF s, t

(* The empty segment is the empty queue. *)
LEMMA SegmentEmpty ==
  ASSUME NEW q, NEW r
  PROVE  Segment(q, r, 0) = <<>>
  BY DEF Segment

(* Every step of the device is a step of the bounded FIFO or leaves it
   unchanged. *)
LEMMA StepRefines == IInv /\ [Next]_vars => [Fifo!Next]_(Fifo!fifoVars)
<1> SUFFICES ASSUME IInv, [Next]_vars PROVE [Fifo!Next]_(Fifo!fifoVars)
  OBVIOUS
<1> USE QueueSizeAssumption
<1>0. /\ queue \in [Slots -> Codes] /\ read_idx \in Slots
      /\ count \in 0 .. QUEUE_SIZE /\ write_idx = (read_idx + count) % QUEUE_SIZE
  BY DEF IInv, TypeOK, RingInv
<1>1. ASSUME NEW k \in Keys, inject_key(k) PROVE Fifo!Accept(k)
  <2>1. count \in 0 .. QUEUE_SIZE - 1
    BY <1>0, <1>1 DEF inject_key, Enqueue, full
  <2>2. Contents' = Append(Contents, k)
    BY <1>0, <1>1, <2>1, SegmentAppend DEF inject_key, Enqueue, Contents
  <2>3. Len(Contents) < QUEUE_SIZE
    BY <1>0, <2>1, SegmentSeq DEF Contents
  <2> QED
    BY <1>1, <2>2, <2>3 DEF Fifo!Accept, inject_key, Enqueue
<1>2. ASSUME ReadData, ~empty PROVE Fifo!Take
  <2>1. count \in 1 .. QUEUE_SIZE
    BY <1>0, <1>2 DEF empty
  <2>2. /\ answer' = queue[read_idx] /\ queue' = queue /\ count' = count - 1
        /\ read_idx' = (read_idx + 1) % QUEUE_SIZE
    BY <1>2 DEF ReadData, Front, NextSlot
  <2> QED
    BY <1>0, <2>1, <2>2, SegmentTail DEF Contents, Fifo!Take
<1>3. ASSUME ReadData, empty PROVE Fifo!TakeNothing
  <2>1. /\ answer' = NoKey /\ queue' = queue /\ count' = count
        /\ read_idx' = read_idx /\ count = 0
    BY <1>3 DEF ReadData, Front, empty
  <2> QED
    BY <2>1, SegmentEmpty DEF Contents, Fifo!TakeNothing
<1>4. ASSUME UNCHANGED <<ringVars, answer>> PROVE UNCHANGED Fifo!fifoVars
  BY <1>4 DEF Fifo!fifoVars, Contents, ringVars
<1>5. ASSUME NEW b \in KeyBits, set_key_down(b) \/ set_key_up(b)
      PROVE UNCHANGED <<ringVars, answer>>
  BY <1>5 DEF set_key_down, set_key_up
<1>6. ASSUME NEW e \in BOOLEAN, WriteControl(e)
      PROVE UNCHANGED <<ringVars, answer>>
  BY <1>6 DEF WriteControl
<1>7. ASSUME TickControl \/ drop_key \/ UNCHANGED vars
      PROVE UNCHANGED <<ringVars, answer>>
  BY <1>7 DEF TickControl, drop_key, vars, ringVars
<1> QED
  BY <1>1, <1>2, <1>3, <1>4, <1>5, <1>6, <1>7
  DEF Next, Frontend, Program, Fifo!Next

(* The keyboard ring implements the bounded FIFO of KeyFifo for every
   capacity and every set of keys: keys come out in the order they went in,
   each once, and only arrivals at a full ring are lost. *)
THEOREM RingImplementsFifo == Spec => ImplementsFifo
<1>1. Init => Fifo!Init
  BY SegmentEmpty DEF Init, Fifo!Init, Contents
<1> QED
  BY <1>1, InitIInv, StepIInv, StepRefines, PTL
  DEF Spec, ImplementsFifo, Fifo!Spec

-----------------------------------------------------------------------------
(* Memory. *)

(* The powers of two are what doubling makes of 1. *)
IsDoubling(g, n) == g = [k \in 0 .. n |-> IF k = 0 THEN 1 ELSE 2 * g[k - 1]]

LEMMA DoublingExists ==
  ASSUME NEW n \in Nat
  PROVE  \E g \in [0 .. n -> Nat \ {0}] : IsDoubling(g, n)
<1> DEFINE S == {m \in Nat : \E g \in [0 .. m -> Nat \ {0}] : IsDoubling(g, m)}
<1>1. 0 \in S
  <2> DEFINE g == [k \in 0 .. 0 |-> 1]
  <2>1. g \in [0 .. 0 -> Nat \ {0}] /\ IsDoubling(g, 0)
    BY DEF IsDoubling
  <2> QED
    BY <2>1
<1>2. ASSUME NEW m \in Nat, m \in S PROVE m + 1 \in S
  <2>1. PICK g \in [0 .. m -> Nat \ {0}] : IsDoubling(g, m)
    BY <1>2
  <2> DEFINE h == [k \in 0 .. m + 1 |-> IF k = m + 1 THEN 2 * g[m] ELSE g[k]]
  <2>2. g[m] \in Nat \ {0}
    OBVIOUS
  <2>3. h \in [0 .. m + 1 -> Nat \ {0}]
    BY <2>2
  <2>4. ASSUME NEW k \in 0 .. m + 1
        PROVE  h[k] = IF k = 0 THEN 1 ELSE 2 * h[k - 1]
    <3>1. CASE k = m + 1
      <4>1. h[k] = 2 * g[m] /\ h[k - 1] = g[m] /\ k # 0
        BY <3>1
      <4> QED
        BY <4>1
    <3>2. CASE k # m + 1
      <4>1. k \in 0 .. m /\ h[k] = g[k] /\ (k # 0 => h[k - 1] = g[k - 1])
        BY <3>2
      <4>2. g[k] = IF k = 0 THEN 1 ELSE 2 * g[k - 1]
        BY <2>1, <4>1 DEF IsDoubling
      <4> QED
        BY <4>1, <4>2
    <3> QED
      BY <3>1, <3>2
  <2>5. IsDoubling(h, m + 1)
    <3>1. h = [k \in 0 .. m + 1 |-> h[k]]
      OBVIOUS
    <3> HIDE DEF h
    <3>2. [k \in 0 .. m + 1 |-> h[k]]
            = [k \in 0 .. m + 1 |-> IF k = 0 THEN 1 ELSE 2 * h[k - 1]]
      BY <2>4
    <3> QED
      BY <3>1, <3>2 DEF IsDoubling
  <2> QED
    BY <2>3, <2>5
<1>3. Nat \subseteq S
  <2> HIDE DEF S
  <2> QED
    BY <1>1, <1>2, Induction
<1> QED
  BY <1>3

LEMMA Powers ==
  /\ SizeBits \in Nat
  /\ \A k \in 0 .. SizeBits :
       PowerOfTwo[k] = IF k = 0 THEN 1 ELSE 2 * PowerOfTwo[k - 1]
<1>1. SizeBits \in Nat
  BY WidthsAssumption
<1>2. \E g : g = [k \in 0 .. SizeBits |-> IF k = 0 THEN 1 ELSE 2 * g[k - 1]]
  BY <1>1, DoublingExists DEF IsDoubling
<1>3. PowerOfTwo = [k \in 0 .. SizeBits |->
                      IF k = 0 THEN 1 ELSE 2 * PowerOfTwo[k - 1]]
  BY <1>2, Zenon DEF PowerOfTwo
<1>4. ASSUME NEW k \in 0 .. SizeBits
      PROVE  PowerOfTwo[k] = IF k = 0 THEN 1 ELSE 2 * PowerOfTwo[k - 1]
  BY <1>3, <1>4, Zenon
<1> QED
  BY <1>1, <1>4

(* A power of two is a multiple of every smaller one. *)
LEMMA PowersDivide ==
  ASSUME NEW j \in Nat, NEW k \in Nat, j <= k, k <= SizeBits
  PROVE  /\ PowerOfTwo[j] \in Nat \ {0}
         /\ \E q \in Nat \ {0} : PowerOfTwo[k] = PowerOfTwo[j] * q
<1> DEFINE S == {m \in Nat : m <= SizeBits => PowerOfTwo[m] \in Nat \ {0}}
           p == PowerOfTwo[j]
           T == {m \in Nat : j + m <= SizeBits =>
                                \E q \in Nat \ {0} : PowerOfTwo[j + m] = p * q}
<1>1. 0 \in S
  BY Powers
<1>2. ASSUME NEW m \in Nat, m \in S PROVE m + 1 \in S
  <2> SUFFICES ASSUME m + 1 <= SizeBits PROVE PowerOfTwo[m + 1] \in Nat \ {0}
    OBVIOUS
  <2>1. PowerOfTwo[m] \in Nat \ {0}
    BY <1>2, Powers
  <2>2. PowerOfTwo[m + 1] = 2 * PowerOfTwo[m]
    BY Powers
  <2> QED
    BY <2>1, <2>2
<1>3. Nat \subseteq S
  <2> HIDE DEF S
  <2> QED
    BY <1>1, <1>2, Induction
<1>4. p \in Nat \ {0}
  BY <1>3, Powers
<1>5. 0 \in T
  <2>1. PowerOfTwo[j + 0] = p * 1
    BY <1>4
  <2> QED
    BY <2>1
<1>6. ASSUME NEW m \in Nat, m \in T PROVE m + 1 \in T
  <2> SUFFICES ASSUME j + (m + 1) <= SizeBits
               PROVE  \E q \in Nat \ {0} : PowerOfTwo[j + (m + 1)] = p * q
    OBVIOUS
  <2>1. PICK q \in Nat \ {0} : PowerOfTwo[j + m] = p * q
    BY <1>6, Powers
  <2>2. PowerOfTwo[j + (m + 1)] = 2 * PowerOfTwo[j + m]
    <3>1. j + (m + 1) \in 0 .. SizeBits /\ j + (m + 1) # 0 /\ (j + (m + 1)) - 1 = j + m
      BY Powers
    <3> QED
      BY <3>1, Powers
  <2> HIDE DEF p
  <2>3. p * (2 * q) = 2 * (p * q)
    BY <1>4
  <2> QED
    BY <2>1, <2>2, <2>3
<1>7. Nat \subseteq T
  <2> HIDE DEF T
  <2> QED
    BY <1>5, <1>6, Induction
<1>8. k - j \in T /\ j + (k - j) = k
  BY <1>7
<1> QED
  BY <1>4, <1>8

LEMMA AddressSpace ==
  17 <= SizeBits /\ PowerOfTwo[16] = 65536 /\ PowerOfTwo[17] = 131072
<1>1. SizeBits \in Nat /\ 17 <= SizeBits
  BY WidthsAssumption
<1> DEFINE p(k) == PowerOfTwo[k]
<1>2. p(0) = 1
  BY <1>1, Powers
<1>3. \A k \in 1 .. 17 : p(k) = 2 * p(k - 1)
  BY <1>1, Powers
<1> HIDE DEF p
<1>4. p(1) = 2 /\ p(2) = 4 /\ p(3) = 8 /\ p(4) = 16
  BY <1>2, <1>3
<1>5. p(5) = 32 /\ p(6) = 64 /\ p(7) = 128 /\ p(8) = 256
  BY <1>3, <1>4
<1>6. p(9) = 512 /\ p(10) = 1024 /\ p(11) = 2048 /\ p(12) = 4096
  BY <1>3, <1>5
<1>7. p(13) = 8192 /\ p(14) = 16384 /\ p(15) = 32768 /\ p(16) = 65536 /\ p(17) = 131072
  BY <1>3, <1>6
<1> QED
  BY <1>1, <1>7 DEF p

LEMMA TimesAtLeast ==
  ASSUME NEW a \in Nat \ {0}, NEW q \in Nat \ {0}
  PROVE  a * q >= a
<1>1. a * (q - 1) >= 0
  BY SMT
<1> QED
  BY <1>1, SMT

(* The sizes Region's constructor accepts divide the address space, or exceed
   it; a uint32_t holds them, or nothing of them. *)
LEMMA SizesDivide ==
  ASSUME NEW z, IsPowerOfTwo(z)
  PROVE  /\ z \in Nat /\ z > 0
         /\ z > 65536 \/ \E p \in Int : z * p = 65536
         /\ UintRange \in Int /\ UintRange >= 131072
         /\ AsUint32(z) = 0 \/ (z < UintRange /\ AsUint32(z) = z)
<1>1. PICK k \in 0 .. SizeBits - 1 : z = PowerOfTwo[k]
  BY Zenon DEF IsPowerOfTwo
<1>2. PICK u \in 17 .. SizeBits : UintRange = PowerOfTwo[u]
  BY WidthsAssumption
<1>3. k \in Nat /\ u \in Nat /\ k <= SizeBits /\ u <= SizeBits
  BY Powers
<1>4. z \in Nat \ {0} /\ UintRange \in Nat \ {0}
  BY <1>1, <1>2, <1>3, PowersDivide
<1>5. UintRange >= 131072
  <2>1. \E q \in Nat \ {0} : UintRange = 131072 * q
    BY <1>2, <1>3, AddressSpace, PowersDivide
  <2> QED
    BY <2>1, TimesAtLeast
<1>6. z > 65536 \/ \E p \in Int : z * p = 65536
  <2>1. CASE k <= 16
    <3> DEFINE j == 16
    <3>3. j \in Nat /\ k <= j /\ j <= SizeBits
      BY <1>3, <2>1, AddressSpace, Powers
    <3> HIDE DEF j
    <3>1. PICK q \in Nat \ {0} : PowerOfTwo[j] = PowerOfTwo[k] * q
      BY <1>3, <3>3, PowersDivide
    <3>2. z * q = 65536
      BY <1>1, <3>1, AddressSpace DEF j
    <3> QED
      BY <3>2
  <2>2. CASE k >= 17
    <3>1. \E q \in Nat \ {0} : z = 131072 * q
      BY <1>1, <1>3, <2>2, AddressSpace, PowersDivide
    <3> QED
      BY <3>1, TimesAtLeast
  <2> QED
    BY <1>3, <2>1, <2>2
<1>7. AsUint32(z) = 0 \/ (z < UintRange /\ AsUint32(z) = z)
  <2>1. CASE u <= k
    <3>1. PICK q \in Nat \ {0} : z = UintRange * q
      BY <1>1, <1>2, <1>3, <2>1, PowersDivide
    <3>2. (UintRange * q) % UintRange = 0
      BY <1>4, SMT
    <3> QED
      BY <3>1, <3>2 DEF AsUint32
  <2>2. CASE k < u
    <3>1. z < UintRange
      <4>1. PowerOfTwo[k + 1] = 2 * z
        BY <1>1, <1>3, <2>2, Powers
      <4>2. PICK q \in Nat \ {0} : UintRange = (2 * z) * q
        BY <1>2, <1>3, <2>2, <4>1, PowersDivide
      <4>3. (2 * z) * q >= 2 * z
        BY <1>4, TimesAtLeast
      <4> QED
        BY <1>4, <4>2, <4>3
    <3> QED
      BY <1>4, <3>1 DEF AsUint32
  <2> QED
    BY <1>3, <2>1, <2>2
<1> QED
  BY <1>4, <1>5, <1>6, <1>7

LEMMA Divides ==
  ASSUME NEW o \in Int, NEW z \in Int, z > 0, o % z = 0
  PROVE  \E q \in Int : o = z * q
  OBVIOUS

LEMMA NextMultiple ==
  ASSUME NEW p \in Int, NEW q \in Int, NEW z \in Int, z > 0, z * q < z * p
  PROVE  z * q + z <= z * p
<1>1. q + 1 <= p
  OBVIOUS
<1> QED
  BY <1>1

LEMMA WordRange ==
  ASSUME NEW w \in Word
  PROVE  w \in Int /\ 0 <= w /\ w < 65536
  BY SMT DEF Word

LEMMA InWord ==
  ASSUME NEW o \in Int, NEW z \in Int, 0 <= o, 0 < z, o + z <= 65536
  PROVE  o + z - 1 \in Word
<1> DEFINE top == 65535
<1>1. top \in Int /\ o + z - 1 \in Int /\ 0 <= o + z - 1 /\ o + z - 1 <= top
  BY SMT
<1>2. Word = 0 .. top
  BY DEF Word
<1> HIDE DEF top
<1> QED
  BY <1>1, <1>2, SMT

LEMMA FactoryTypes ==
  ASSUME NEW r \in Factory
  PROVE  /\ r.offset \in Int /\ 0 <= r.offset /\ r.offset < 65536
         /\ r.size \in Int
<1>1. r.offset \in Word /\ r.size \in Nat
  BY DEF Factory
<1> QED
  BY <1>1, WordRange, SMT

(* A region ends in the address space, starts at 0 and exceeds it, or has lost
   its size. *)
LEMMA RegionEnds ==
  ASSUME NEW r \in Factory, WellPlaced(r)
  PROVE  /\ r.offset \in Int /\ 0 <= r.offset /\ r.offset < 65536
         /\ r.size \in Int /\ 0 < r.size
         /\ \/ AsUint32(r.size) = 0 /\ r.offset = 0 /\ Upper(r) = 0
            \/ /\ AsUint32(r.size) # 0
               /\ Upper(r) = r.offset + r.size
               /\ r.offset + r.size <= 65536 \/ (r.offset = 0 /\ r.size > 65536)
<1> DEFINE o == r.offset
           z == r.size
<1>1. o \in Int /\ 0 <= o /\ o < 65536
  BY FactoryTypes
<1>2. /\ z \in Int /\ z > 0
      /\ z > 65536 \/ \E p \in Int : z * p = 65536
      /\ UintRange \in Int /\ UintRange >= 131072
      /\ AsUint32(z) = 0 \/ (z < UintRange /\ AsUint32(z) = z)
  BY SizesDivide DEF WellPlaced
<1>3. o % z = 0
  BY DEF WellPlaced
<1>4. Upper(r) = (o + AsUint32(z)) % UintRange
  BY DEF Upper, AsUint32
<1> HIDE DEF o, z
<1>5. CASE z > 65536
  <2>1. o = 0
    BY <1>1, <1>2, <1>3, <1>5
  <2>2. CASE AsUint32(z) = 0
    BY <1>1, <1>2, <1>4, <2>1, <2>2 DEF o, z
  <2>3. CASE z < UintRange /\ AsUint32(z) = z
    <3>1. Upper(r) = z
      BY <1>2, <1>4, <2>1, <2>3
    <3> QED
      BY <1>2, <1>5, <2>1, <2>3, <3>1 DEF o, z
  <2> QED
    BY <1>2, <2>2, <2>3
<1>6. CASE z <= 65536
  <2>1. PICK p \in Int : z * p = 65536
    BY <1>2, <1>6
  <2>2. PICK q \in Int : o = z * q
    BY <1>1, <1>2, <1>3, Divides
  <2>3. z * q + z <= z * p
    <3>1. z * q < z * p
      BY <1>1, <2>1, <2>2
    <3> QED
      BY <1>2, <3>1, NextMultiple
  <2>4. o + z <= 65536
    BY <2>1, <2>2, <2>3
  <2>5. AsUint32(z) = z
    BY <1>2, <1>6 DEF AsUint32
  <2>6. Upper(r) = o + z
    BY <1>1, <1>2, <1>4, <2>4, <2>5
  <2> QED
    BY <1>1, <1>2, <2>4, <2>5, <2>6 DEF o, z
<1> QED
  BY <1>2, <1>5, <1>6

(* FindRegion finds a region that has the address, if there is one. *)
LEMMA Found ==
  ASSUME NEW a, regions \in Seq(Factory)
  PROVE  /\ FindRegion(a) # 0 => /\ FindRegion(a) \in DOMAIN regions
                                 /\ Contains(regions[FindRegion(a)], a)
         /\ \A i \in DOMAIN regions : Contains(regions[i], a) => FindRegion(a) # 0
<1> DEFINE found == {i \in DOMAIN regions : Contains(regions[i], a)}
<1>1. DOMAIN regions = 1 .. Len(regions) /\ Len(regions) \in Nat
  OBVIOUS
<1>2. found \subseteq Nat \ {0}
  BY <1>1
<1>3. ASSUME found # {}
      PROVE  FindRegion(a) \in found
  <2>1. \E i \in found : \A j \in found : i <= j
    BY <1>2, <1>3, LeastNatural
  <2>2. FindRegion(a) = CHOOSE i \in found : \A j \in found : i <= j
    BY <1>3 DEF FindRegion
  <2> QED
    BY <2>1, <2>2, Zenon
<1>4. found = {} => FindRegion(a) = 0
  BY DEF FindRegion
<1> QED
  BY <1>2, <1>3, <1>4

LEMMA BothContain ==
  ASSUME NEW a \in Int, NEW r \in Factory, NEW t \in Factory,
         WellPlaced(r), WellPlaced(t), Contains(r, a), Contains(t, a)
  PROVE  Overlaps(r, t)
<1>1. r.offset \in Int /\ Upper(r) \in Int /\ t.offset \in Int /\ Upper(t) \in Int
  BY RegionEnds
<1> QED
  BY <1>1 DEF Contains, Overlaps

(* Without overlaps the region with an address is unique, and FindRegion
   finds it. *)
LEMMA FindsRegion ==
  ASSUME regions \in Seq(Factory), ~SomeOverlap,
         \A i \in DOMAIN regions : WellPlaced(regions[i]),
         NEW a \in Int, NEW i \in DOMAIN regions, Contains(regions[i], a)
  PROVE  FindRegion(a) = i
<1> DEFINE f == FindRegion(a)
<1>1. f \in DOMAIN regions /\ Contains(regions[f], a)
  BY Found
<1> HIDE DEF f
<1>2. /\ i \in Int /\ f \in Int
      /\ regions[i] \in Factory /\ WellPlaced(regions[i])
      /\ regions[f] \in Factory /\ WellPlaced(regions[f])
  BY <1>1
<1>3. Overlaps(regions[i], regions[f]) /\ Overlaps(regions[f], regions[i])
  BY <1>1, <1>2, BothContain
<1>4. ~(i < f) /\ ~(f < i)
  BY <1>1, <1>3 DEF SomeOverlap
<1>5. i = f
  BY <1>2, <1>4
<1> QED
  BY <1>5 DEF f

LEMMA SmallRemainder ==
  ASSUME NEW d \in Int, NEW e \in Int, 0 <= d, d <= 65535, 0 <= e, e <= 65535,
         d % 65536 = e % 65536
  PROVE  d = e
  OBVIOUS

(* No two addresses share a cell. *)
LEMMA CellsDiffer ==
  ASSUME regions \in Seq(Factory), \A i \in DOMAIN regions : WellPlaced(regions[i]),
         NEW a \in Word, NEW b \in Word,
         FindRegion(a) # 0, FindRegion(b) # 0, Cell(a) = Cell(b)
  PROVE  a = b
<1> DEFINE f == FindRegion(a)
           r == regions[f]
<1>1. FindRegion(b) = f /\ Translate(r, a) = Translate(r, b)
  BY DEF Cell
<1>2. f \in DOMAIN regions /\ Contains(r, a) /\ Contains(r, b)
  BY <1>1, Found
<1>3. r \in Factory /\ WellPlaced(r)
  BY <1>2
<1> HIDE DEF f, r
<1>4. r.offset \in Int /\ 0 <= r.offset
  BY <1>3, RegionEnds
<1>5. a \in Int /\ a < 65536 /\ b \in Int /\ b < 65536
  BY WordRange
<1>6. /\ a - r.offset \in Int /\ 0 <= a - r.offset /\ a - r.offset <= 65535
      /\ b - r.offset \in Int /\ 0 <= b - r.offset /\ b - r.offset <= 65535
  BY <1>2, <1>4, <1>5, SMT DEF Contains
<1>7. (a - r.offset) % 65536 = (b - r.offset) % 65536
  BY <1>1 DEF Translate, AsWord
<1>8. a - r.offset = b - r.offset
  BY <1>6, <1>7, SmallRemainder
<1> QED
  BY <1>4, <1>5, <1>8

(* What a step of the machine is for Memory. *)
LEMMA MapSteps ==
  ASSUME factories \in Layouts, [DevNext]_devVars
  PROVE  \/ BuildRegion
         \/ CheckOverlaps
         \/ machine = "running" /\ \E a \in Word, v \in Byte : RamWrite(a, v)
         \/ machine = "running" /\ \E a \in Word : WriteThrows(a)
         \/ UNCHANGED mapVars
<1>1. CASE Construct
  BY <1>1 DEF Construct
<1>2. CASE ControlPhase
  BY <1>2 DEF ControlPhase
<1>3. CASE AccessPhase
  <2>1. ASSUME NEW a, Load(a) PROVE UNCHANGED mapVars
    BY <2>1 DEF Load, mapVars
  <2>2. ASSUME NEW t \in Stores(factories), Store(t[1], t[2])
        PROVE  \/ \E a \in Word, v \in Byte : RamWrite(a, v)
               \/ \E a \in Word : WriteThrows(a)
               \/ UNCHANGED mapVars
    <3>1. t[1] \in Word /\ t[2] \in Byte
      BY <2>2, ProgramAssumption
    <3>2. StoreToDevice(t[1], t[2]) => UNCHANGED mapVars
      BY DEF StoreToDevice
    <3> QED
      BY <2>2, <3>1, <3>2 DEF Store
  <2> QED
    BY <1>3, <2>1, <2>2 DEF AccessPhase
<1>4. CASE Drawing
  BY <1>4 DEF Drawing
<1>5. CASE Events
  BY <1>5 DEF Events
<1>6. CASE UNCHANGED devVars
  BY <1>6 DEF devVars
<1> QED
  BY <1>1, <1>2, <1>3, <1>4, <1>5, <1>6 DEF DevNext

LEMMA MapInvInit == DevInit => MapInv
<1> SUFFICES ASSUME MapInit PROVE MapInv
  BY DEF DevInit
<1>1. DOMAIN regions = {} /\ DOMAIN written = {} /\ regions \in Seq(Factory)
  BY DEF MapInit
<1> QED
  BY <1>1 DEF MapInit, MapInv

LEMMA SameRegions ==
  ASSUME regions' = regions
  PROVE  /\ \A b : FindRegion(b)' = FindRegion(b) /\ Cell(b)' = Cell(b)
         /\ SomeOverlap' = SomeOverlap
  BY DEF FindRegion, Cell, Translate, SomeOverlap

(* A store leaves the cells of other addresses alone. *)
LEMMA RamWriteKeeps ==
  ASSUME MapInv, machine = "running", NEW a \in Word, NEW v, RamWrite(a, v)
  PROVE  MapInv'
<1>1. /\ UNCHANGED <<factories, regions, machine>>
      /\ ram' = With(ram, Cell(a), v) /\ written' = With(written, a, v)
      /\ FindRegion(a) # 0
  BY DEF RamWrite, Kind
<1>2. \A b : FindRegion(b)' = FindRegion(b) /\ Cell(b)' = Cell(b)
  BY <1>1, SameRegions
<1>3. ~SomeOverlap'
  BY <1>1, SameRegions DEF MapInv
<1>4. ASSUME NEW b \in DOMAIN written'
      PROVE  /\ b \in Word /\ FindRegion(b) # 0
             /\ Cell(b) \in DOMAIN ram' /\ ram'[Cell(b)] = written'[b]
  <2>1. CASE b = a
    BY <1>1, <2>1 DEF With
  <2>2. CASE b # a
    <3>1. b \in DOMAIN written /\ written'[b] = written[b]
      BY <1>1, <2>2 DEF With
    <3>2. /\ b \in Word /\ FindRegion(b) # 0
          /\ Cell(b) \in DOMAIN ram /\ ram[Cell(b)] = written[b]
      BY <3>1 DEF MapInv
    <3>3. Cell(b) # Cell(a)
      BY <1>1, <2>2, <3>2, CellsDiffer DEF MapInv
    <3> QED
      BY <1>1, <3>1, <3>2, <3>3 DEF With
  <2> QED
    BY <2>1, <2>2
<1> QED
  BY <1>1, <1>2, <1>3, <1>4 DEF MapInv

(* MapInv is kept. *)
LEMMA MapInvKept == MapInv /\ [DevNext]_devVars => MapInv'
<1> SUFFICES ASSUME MapInv, [DevNext]_devVars PROVE MapInv'
  OBVIOUS
<1>1. CASE BuildRegion
  <2>1. /\ machine = "building" /\ UNCHANGED <<factories, ram, written>>
        /\ DOMAIN written = {} /\ machine' \in {"building", "thrown"}
    BY <1>1 DEF BuildRegion, MapInv
  <2>2. CASE regions' = regions
    BY <2>1, <2>2 DEF MapInv
  <2>3. CASE regions' # regions
    <3> DEFINE r == factories[Len(regions) + 1]
    <3>1. regions' = Append(regions, r) /\ WellPlaced(r)
      BY <1>1, <2>3 DEF BuildRegion
    <3>2. r \in Factory
      <4>1. factories \in Seq(Factory) /\ regions \in Seq(Factory)
        BY LayoutsAssumption DEF MapInv
      <4>2. Len(regions) + 1 \in 1 .. Len(factories)
        BY <1>1, <4>1 DEF BuildRegion
      <4> QED
        BY <4>1, <4>2
    <3> HIDE DEF r
    <3>3. regions' \in Seq(Factory)
      BY <3>1, <3>2 DEF MapInv
    <3>4. \A i \in DOMAIN regions' : WellPlaced(regions'[i])
      BY <3>1, <3>2 DEF MapInv
    <3> QED
      BY <2>1, <3>3, <3>4 DEF MapInv
  <2> QED
    BY <2>2, <2>3
<1>2. CASE CheckOverlaps
  <2>1. /\ UNCHANGED <<factories, regions, ram, written>>
        /\ machine' \in {"running", "thrown"}
        /\ machine' = "running" => ~SomeOverlap
        /\ DOMAIN written = {}
    BY <1>2 DEF CheckOverlaps, MapInv
  <2>2. SomeOverlap' = SomeOverlap
    BY <2>1, SameRegions
  <2> QED
    BY <2>1, <2>2 DEF MapInv
<1>3. ASSUME machine = "running", NEW a \in Word, NEW v, RamWrite(a, v)
      PROVE  MapInv'
  BY <1>3, RamWriteKeeps
<1>4. ASSUME machine = "running", NEW a \in Word, WriteThrows(a)
      PROVE  MapInv'
  BY <1>4, SameRegions DEF WriteThrows, MapInv
<1>5. CASE UNCHANGED mapVars
  BY <1>5, SameRegions DEF mapVars, MapInv
<1>6. factories \in Layouts
  BY DEF MapInv
<1> QED
  BY <1>1, <1>2, <1>3, <1>4, <1>5, <1>6, MapSteps

LEMMA MapInvHolds == DevSpec => []MapInv
BY MapInvInit, MapInvKept, PTL DEF DevSpec

(* For every layout Memory's constructor accepts, whatever programs and users
   do: every cell with an address answers to it, no region hides it, and only
   a region at 0 that has the address space to itself runs past its end; a
   region whose size a uint32_t loses answers nothing. *)
THEOREM MemoryIsReached == DevSpec => []EveryCellIsReached
<1>1. MapInv => EveryCellIsReached
  <2> SUFFICES ASSUME MapInv, machine = "running", NEW i \in DOMAIN regions
               PROVE
      LET r == regions[i]
          others == {j \in DOMAIN regions : j # i /\ AsUint32(regions[j].size) # 0}
      IN  IF AsUint32(r.size) = 0 THEN \A a \in Probes : FindRegion(a) # i
          ELSE /\ \A a \in Probes :
                    r.offset <= a /\ a < r.offset + r.size => FindRegion(a) = i
               /\ r.offset + r.size - 1 \in Word \/ (r.offset = 0 /\ others = {})
    BY DEF EveryCellIsReached
  <2> DEFINE r == regions[i]
             others == {j \in DOMAIN regions : j # i /\ AsUint32(regions[j].size) # 0}
  <2>1. /\ regions \in Seq(Factory) /\ ~SomeOverlap
        /\ \A j \in DOMAIN regions : regions[j] \in Factory /\ WellPlaced(regions[j])
    BY DEF MapInv
  <2>2. /\ r.offset \in Int /\ 0 <= r.offset /\ r.offset < 65536
        /\ r.size \in Int /\ 0 < r.size
        /\ \/ AsUint32(r.size) = 0 /\ r.offset = 0 /\ Upper(r) = 0
           \/ /\ AsUint32(r.size) # 0
              /\ Upper(r) = r.offset + r.size
              /\ r.offset + r.size <= 65536 \/ (r.offset = 0 /\ r.size > 65536)
    BY <2>1, RegionEnds
  <2>3. CASE AsUint32(r.size) = 0
    <3> SUFFICES ASSUME NEW a \in Probes, FindRegion(a) = i PROVE FALSE
      BY <2>3
    <3>1. a \in Int /\ 0 <= a
      BY ProbesAssumption, WordRange
    <3>2. i # 0 /\ Contains(r, a)
      BY <2>1, Found
    <3> QED
      BY <2>2, <2>3, <3>1, <3>2 DEF Contains
  <2>4. CASE AsUint32(r.size) # 0
    <3>1. ASSUME NEW a \in Probes, r.offset <= a, a < r.offset + r.size
          PROVE  FindRegion(a) = i
      <4>1. a \in Int /\ Contains(r, a)
        BY <2>2, <2>4, <3>1, ProbesAssumption, WordRange DEF Contains
      <4> QED
        BY <2>1, <4>1, FindsRegion
    <3>2. CASE r.offset + r.size <= 65536
      <4>1. r.offset + r.size - 1 \in Word
        <5> HIDE DEF r
        <5> QED
          BY <2>2, <3>2, InWord
      <4> QED
        BY <2>4, <3>1, <4>1
    <3>3. CASE r.offset = 0 /\ r.size > 65536
      <4>1. ASSUME NEW j \in others PROVE FALSE
        <5>1. /\ j \in DOMAIN regions /\ i \in Int /\ j \in Int /\ j # i
              /\ AsUint32(regions[j].size) # 0
          BY <2>1
        <5> DEFINE t == regions[j]
        <5>2. /\ t.offset \in Int /\ 0 <= t.offset /\ t.offset < 65536
              /\ t.size \in Int /\ 0 < t.size /\ Upper(t) = t.offset + t.size
          BY <2>1, <5>1, RegionEnds
        <5>3. Overlaps(r, t) /\ Overlaps(t, r)
          BY <2>2, <2>4, <3>3, <5>2 DEF Overlaps
        <5>4. ~(i < j) /\ ~(j < i)
          BY <2>1, <5>1, <5>3 DEF SomeOverlap
        <5> QED
          BY <5>1, <5>4
      <4> HIDE DEF r
      <4>2. others = {}
        BY <4>1
      <4> QED
        BY <2>4, <3>1, <3>3, <4>2 DEF r
    <3> QED
      BY <2>2, <2>4, <3>2, <3>3
  <2> QED
    BY <2>3, <2>4
<1> QED
  BY <1>1, MapInvHolds, PTL

(* For every layout and every program a byte of RAM keeps what was last
   stored at its address: Region's translation and Ram's indexing lead no
   two addresses to one cell. *)
THEOREM RamIsKept == DevSpec => []RamKeepsWrites
<1>1. MapInv => RamKeepsWrites
  BY DEF MapInv, RamKeepsWrites, RamRead
<1> QED
  BY <1>1, MapInvHolds, PTL
-----------------------------------------------------------------------------
(* The keyboard. *)

(* What a step of the machine is for the keyboard. *)
LEMMA KeyboardSteps ==
  ASSUME factories \in Layouts, [DevNext]_devVars
  PROVE  [Next]_vars
<1>1. CASE Construct
  BY <1>1 DEF Construct
<1>2. CASE ControlPhase
  BY <1>2 DEF ControlPhase, Next
<1>3. CASE AccessPhase
  <2>1. ASSUME NEW a, Load(a) PROVE [Next]_vars
    BY <2>1 DEF Load, Next, Program
  <2>2. ASSUME NEW a, NEW v, StoreToDevice(a, v) PROVE [Next]_vars
    <3>1. CASE WriteControl(Bit(v, 0) = 1)
      BY <3>1, (Bit(v, 0) = 1) \in BOOLEAN DEF Next, Program
    <3> QED
      BY <2>2, <3>1 DEF StoreToDevice
  <2> QED
    BY <1>3, <2>1, <2>2 DEF AccessPhase, Store
<1>4. CASE Drawing
  BY <1>4 DEF Drawing
<1>5. CASE Events
  BY <1>5, ProgramAssumption DEF Events, Next, Frontend
<1>6. CASE UNCHANGED devVars
  BY <1>6 DEF devVars
<1> QED
  BY <1>1, <1>2, <1>3, <1>4, <1>5, <1>6 DEF DevNext

(* Driven by Memory, the frontend and the clock, whatever the layout, the
   program and the keys, the keyboard does what it does alone: its ring
   stays sound and is the bounded FIFO of KeyFifo. *)
THEOREM KeyboardInMachine == DevSpec => Spec /\ []IInv /\ ImplementsFifo
<1>1. DevInit => Init
  BY DEF DevInit
<1>2. MapInv => factories \in Layouts
  BY DEF MapInv
<1>3. factories \in Layouts /\ [DevNext]_devVars => [Next]_vars
  BY KeyboardSteps
<1>4. DevSpec => Spec
  BY <1>1, <1>2, <1>3, MapInvHolds, PTL DEF DevSpec, Spec
<1> QED
  BY <1>4, RingIsSound, RingImplementsFifo, PTL
-----------------------------------------------------------------------------
(* The coprocessor. *)

(* The latches hold bytes. *)
VgcInv == vgc \in [Latches -> Byte]

(* Between two calls of draw_line only clear and draw_point touch the
   picture. *)
Retouch ==
  /\ ~drawing
  /\ UNCHANGED <<x0, y0, target_x, target_y, x, y, error, drawing>>

LEMMA VgcWriteSteps ==
  ASSUME VgcInv, ~drawing, NEW r, NEW v \in Byte, VgcWrite(r, v)
  PROVE  /\ VgcInv'
         /\ \/ \E px0, py0, px1, py1 \in Byte : draw_line(px0, py0, px1, py1)
            \/ Retouch
            \/ UNCHANGED lineVars
<1>1. CASE r \in Latches /\ vgc' = [vgc EXCEPT ![r] = v] /\ UNCHANGED lineVars
  BY <1>1 DEF VgcInv
<1>2. ASSUME clear PROVE Retouch /\ vgc' = vgc
  BY <1>2 DEF clear, Retouch
<1>3. ASSUME draw_point PROVE Retouch /\ vgc' = vgc
  BY <1>3 DEF draw_point, Retouch
<1>4. /\ vgc[X0] \in Byte /\ vgc[Y0] \in Byte
      /\ vgc[X1] \in Byte /\ vgc[Y1] \in Byte
  BY DEF VgcInv, Latches, X0, Y0, X1, Y1, CMD, COLOR
<1>5. CASE ExecuteCommand
  BY <1>2, <1>3, <1>4, <1>5 DEF ExecuteCommand, VgcInv
<1>6. CASE ApplyControl(v)
  BY <1>2, <1>6 DEF ApplyControl, VgcInv
<1>7. CASE UNCHANGED <<lineVars, vgcVars>>
  BY <1>7 DEF vgcVars, VgcInv
<1> QED
  BY <1>1, <1>5, <1>6, <1>7 DEF VgcWrite

(* What a step of the machine is for draw_line. *)
LEMMA LineSteps ==
  ASSUME VgcInv, factories \in Layouts, [DevNext]_devVars
  PROVE  /\ VgcInv'
         /\ [LineNext]_lineVars \/ Retouch
<1>1. UNCHANGED <<lineVars, vgcVars>> => VgcInv' /\ [LineNext]_lineVars
  BY DEF vgcVars, VgcInv
<1>2. CASE Construct \/ ControlPhase \/ Events
  BY <1>1, <1>2 DEF Construct, ControlPhase, Events
<1>3. CASE Drawing
  BY <1>3 DEF Drawing, LineNext, vgcVars, VgcInv
<1>4. CASE UNCHANGED devVars
  BY <1>1, <1>4 DEF devVars
<1>5. CASE AccessPhase
  <2>1. ASSUME NEW a, Load(a) PROVE UNCHANGED <<lineVars, vgcVars>>
    BY <2>1 DEF Load
  <2>2. ASSUME NEW t \in Stores(factories), Store(t[1], t[2])
        PROVE  UNCHANGED <<lineVars, vgcVars>> \/ \E r : \E v \in Byte : VgcWrite(r, v)
    <3>1. t[2] \in Byte
      BY <2>2, ProgramAssumption
    <3> QED
      BY <2>2, <3>1 DEF Store, StoreToDevice
  <2>3. ~drawing
    BY <1>5 DEF AccessPhase
  <2> QED
    BY <1>1, <1>5, <2>1, <2>2, <2>3, VgcWriteSteps DEF AccessPhase, LineNext
<1> QED
  BY <1>2, <1>3, <1>4, <1>5 DEF DevNext

LEMMA RetouchKeeps ==
  ASSUME LineInv, Retouch
  PROVE  LineInv' /\ WholeInv'
<1>1. ~drawing'
  BY DEF Retouch
<1>2. LineTypes'
  BY DEF Retouch, LineInv, LineTypes
<1> QED
  BY <1>1, <1>2 DEF LineInv, WholeInv, InBox, HalfPixel, ErrorInv

LEMMA LineInvsHold == DevSpec => [](VgcInv /\ LineInv /\ WholeInv)
<1>1. DevInit => LineInit /\ VgcInv
  BY DEF DevInit, VgcInit, VgcInv, Byte
<1>2. LineInit => LineInv /\ WholeInv
  BY LineInvStarts, WholeInvStarts
<1>3. ASSUME VgcInv, LineInv, WholeInv, factories \in Layouts, [DevNext]_devVars
      PROVE  VgcInv' /\ LineInv' /\ WholeInv'
  <2>1. VgcInv' /\ ([LineNext]_lineVars \/ Retouch)
    BY <1>3, LineSteps
  <2> QED
    BY <1>3, <2>1, RetouchKeeps, LineInvInductive, WholeInvInductive
<1>4. MapInv => factories \in Layouts
  BY DEF MapInv
<1> QED
  BY <1>1, <1>2, <1>3, <1>4, MapInvHolds, PTL DEF DevSpec

(* Started by any program through the registers, with other stores, keys and
   ticks around it, draw_line stays on course, gets nearer to its target in
   every iteration and leaves both ends and one pixel per column or row. *)
THEOREM LinesInMachine == DevSpec => []OnCourse /\ Approaches /\ LineIsWhole
<1>1. LineInv => OnCourse
  BY DEF LineInv, OnCourse
<1>2. LineInv => [Advance => ToGo' = ToGo - 1]_lineVars
  BY AdvanceApproaches
<1>3. ASSUME VgcInv, LineInv, WholeInv, factories \in Layouts, [DevNext]_devVars
      PROVE  [drawing /\ ~drawing' =>
                /\ {<<x0, y0>>, <<target_x, target_y>>} \subseteq plotted'
                /\ Cardinality(plotted') = Longer + 1]_lineVars
  <2> SUFFICES ASSUME drawing, ~drawing'
               PROVE  /\ {<<x0, y0>>, <<target_x, target_y>>} \subseteq plotted'
                      /\ Cardinality(plotted') = Longer + 1
    OBVIOUS
  <2>1. [LineNext]_lineVars
    BY <1>3, LineSteps DEF Retouch
  <2>2. LineNext
    BY <2>1 DEF lineVars
  <2>3. Arrive
    BY <2>2 DEF LineNext, LineLoop, draw_line, Advance
  <2> QED
    BY <1>3, <2>3, ArriveEndsWhole
<1>4. MapInv => factories \in Layouts
  BY DEF MapInv
<1> QED
  BY <1>1, <1>2, <1>3, <1>4, LineInvsHold, MapInvHolds, PTL
     DEF DevSpec, Approaches, LineIsWhole
=============================================================================

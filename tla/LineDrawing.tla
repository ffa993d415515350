----------------------------- MODULE LineDrawing -----------------------------
(***************************************************************************)
(* ImageBackend::draw_line of sim/src/io/vgc_backend.cpp: one iteration of *)
(* its loop is one step.  The loop has no counter and no bound: it ends    *)
(* only when both coordinates hit the target in the same iteration.        *)
(***************************************************************************)
EXTENDS Bytes, FiniteSets

VARIABLES
  x0, y0,              \* the call's first point
  target_x, target_y,  \* the call's second point
  x, y,                \* the pixel of this iteration, as int
  error,
  drawing,             \* the call has not returned yet
  plotted              \* pixels of framebuffer_ this call has set

lineVars == <<x0, y0, target_x, target_y, x, y, error, drawing, plotted>>

Abs(n) == IF n < 0 THEN -n ELSE n

dx == Abs(target_x - x0)
dy == -Abs(target_y - y0)
step_x == IF x0 < target_x THEN 1 ELSE -1
step_y == IF y0 < target_y THEN 1 ELSE -1

(* draw_point: the coordinates are cast to uint8_t, so kWidth and kHeight,
   256 both, exclude nothing. *)
Pixel(px, py) == <<AsByte(px), AsByte(py)>>

LineInit ==
  /\ x0 = 0 /\ y0 = 0 /\ target_x = 0 /\ target_y = 0
  /\ x = 0 /\ y = 0 /\ error = 0
  /\ drawing = FALSE
  /\ plotted = {}

(* The call: the locals are set up before the loop. *)
draw_line(px0, py0, px1, py1) ==
  /\ ~drawing
  /\ x0' = px0 /\ y0' = py0
  /\ target_x' = px1 /\ target_y' = py1
  /\ x' = px0 /\ y' = py0
  /\ error' = Abs(px1 - px0) - Abs(py1 - py0)
  /\ drawing' = TRUE
  /\ plotted' = {}

AtTarget == x = target_x /\ y = target_y

(* Mutant: the loop leaves before it draws the last pixel. *)
ArriveUndrawn ==
  /\ drawing /\ AtTarget
  /\ drawing' = FALSE
  /\ UNCHANGED <<x0, y0, target_x, target_y, x, y, error, plotted>>

(* The last iteration draws the target and breaks. *)
Arrive ==
  /\ drawing /\ AtTarget
  /\ plotted' = plotted \cup {Pixel(x, y)}
  /\ drawing' = FALSE
  /\ UNCHANGED <<x0, y0, target_x, target_y, x, y, error>>

(* Mutant: the second test looks at the error the first one has changed. *)
AdvanceReread ==
  LET step_h == 2 * error >= dy
      moved  == error + (IF step_h THEN dy ELSE 0)
      step_v == 2 * moved <= dx
  IN  /\ drawing /\ ~AtTarget
      /\ plotted' = plotted \cup {Pixel(x, y)}
      /\ x' = x + (IF step_h THEN step_x ELSE 0)
      /\ y' = y + (IF step_v THEN step_y ELSE 0)
      /\ error' = moved + (IF step_v THEN dx ELSE 0)
      /\ UNCHANGED <<x0, y0, target_x, target_y, drawing>>

(* Any other iteration draws a pixel and moves along x, along y or both:
   both tests look at the error as it was before either move. *)
Advance ==
  LET error2 == 2 * error
      step_h == error2 >= dy
      step_v == error2 <= dx
  IN  /\ drawing /\ ~AtTarget
      /\ plotted' = plotted \cup {Pixel(x, y)}
      /\ x' = x + (IF step_h THEN step_x ELSE 0)
      /\ y' = y + (IF step_v THEN step_y ELSE 0)
      /\ error' = error + (IF step_h THEN dy ELSE 0)
                        + (IF step_v THEN dx ELSE 0)
      /\ UNCHANGED <<x0, y0, target_x, target_y, drawing>>

LineLoop == Arrive \/ Advance

LineNext ==
  \/ \E px0, py0, px1, py1 \in Byte : draw_line(px0, py0, px1, py1)
  \/ LineLoop

LineSpec == LineInit /\ [][LineNext]_lineVars

(***************************************************************************)
(* Properties.                                                             *)
(***************************************************************************)

(* Pixels gone along each axis, and the length of the longer one. *)
GoneX == Abs(x - x0)
GoneY == Abs(y - y0)
Longer == IF dx >= -dy THEN dx ELSE -dy

(* The walk of draw_line never leaves the rectangle between the two ends:
   past the target on one axis the loop's exit test could never hold again,
   and the uint8_t cast would wrap to the other side of the picture. *)
InBox ==
  drawing => /\ GoneX <= dx /\ Abs(target_x - x) = dx - GoneX
             /\ GoneY <= -dy /\ Abs(target_y - y) = -dy - GoneY

(* No pixel of draw_line is further than half a pixel from the ideal line,
   measured along the shorter axis: accumulated error never drifts. *)
HalfPixel == drawing => 2 * Abs(dx * GoneY + dy * GoneX) <= Longer

(* draw_line stays between its ends and on the line. *)
OnCourse == InBox /\ HalfPixel

(* Iterations left: pixels to go along the longer axis. *)
ToGo == IF dx >= -dy THEN Abs(target_x - x) ELSE Abs(target_y - y)

(* Every iteration of draw_line that does not end it brings it exactly one
   pixel nearer along the longer axis: the loop without a bound ends. *)
Approaches == [][Advance => ToGo' = ToGo - 1]_lineVars

(* A returning draw_line has set both ends and exactly one pixel per column
   (or row) of the longer axis: no gap and no double pixel. *)
LineIsWhole ==
  [][drawing /\ ~drawing' =>
       /\ {<<x0, y0>>, <<target_x, target_y>>} \subseteq plotted'
       /\ Cardinality(plotted') = Longer + 1]_lineVars
=============================================================================

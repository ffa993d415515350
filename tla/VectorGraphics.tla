---------------------------- MODULE VectorGraphics ----------------------------
(***************************************************************************)
(* The vector graphics coprocessor of                                      *)
(* sim/src/io/vector_graphics_coprocessor.cpp: latches the program fills   *)
(* through memory-mapped registers and a command it starts by writing 1 to *)
(* EXEC.  Commands run inside the write: the CPU's tick waits for them.    *)
(* framebuffer_ is reduced to the pixels of the last drawing call, their   *)
(* intensity and the intensity the picture was last cleared to.            *)
(***************************************************************************)
EXTENDS LineDrawing

VARIABLES
  vgc,              \* cmd_, x0_, y0_, x1_, y1_, color_
  vgc_irq_enabled,  \* irq_enabled_, written and never read
  ink,              \* intensity of the last drawing call
  background        \* intensity of the last clear

vgcVars == <<vgc, vgc_irq_enabled, ink, background>>

(* vgc_reg and vgc_cmd *)
CMD == 0
X0 == 1
Y0 == 2
X1 == 3
Y1 == 4
COLOR == 5
EXEC == 6
CONTROL == 7
CLEAR == 1
POINT == 2
LINE == 3

Latches == CMD .. COLOR

VgcInit ==
  /\ vgc = [r \in Latches |-> 0]
  /\ vgc_irq_enabled = FALSE
  /\ ink = 0
  /\ background = 0

intensity == vgc[COLOR] % 4

clear ==
  /\ background' = intensity
  /\ plotted' = {}
  /\ UNCHANGED <<x0, y0, target_x, target_y, x, y, error, drawing, vgc, ink>>

draw_point ==
  /\ plotted' = {Pixel(vgc[X0], vgc[Y0])}
  /\ ink' = intensity
  /\ UNCHANGED <<x0, y0, target_x, target_y, x, y, error, drawing, vgc,
                 background>>

(* ExecuteCommand; NOP and unknown commands do nothing. *)
ExecuteCommand ==
  /\ \/ vgc[CMD] = CLEAR /\ clear
     \/ vgc[CMD] = POINT /\ draw_point
     \/ /\ vgc[CMD] = LINE
        /\ draw_line(vgc[X0], vgc[Y0], vgc[X1], vgc[Y1])
        /\ ink' = intensity
        /\ UNCHANGED <<vgc, background>>
     \/ /\ vgc[CMD] \notin {CLEAR, POINT, LINE}
        /\ UNCHANGED <<lineVars, vgc, ink, background>>
  /\ UNCHANGED vgc_irq_enabled

(* ApplyControl: bit 7 is latched, bit 0 clears; the present of bit 1 is the
   backend's and leaves an image as it is. *)
ApplyControl(v) ==
  /\ vgc_irq_enabled' = (Bit(v, 7) = 1)
  /\ IF Bit(v, 0) = 1 THEN clear ELSE UNCHANGED <<lineVars, vgc, ink, background>>

(* Write of register r. *)
VgcWrite(r, v) ==
  \/ /\ r \in Latches
     /\ vgc' = [vgc EXCEPT ![r] = v]
     /\ UNCHANGED <<lineVars, vgc_irq_enabled, ink, background>>
  \/ r = EXEC /\ v = 1 /\ ExecuteCommand
  \/ r = CONTROL /\ ApplyControl(v)
  \/ /\ (r = EXEC /\ v # 1) \/ r > CONTROL
     /\ UNCHANGED <<lineVars, vgcVars>>
=============================================================================

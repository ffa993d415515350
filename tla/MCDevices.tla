------------------------------ MODULE MCDevices ------------------------------
EXTENDS Devices

Ram(offset, size) == [kind |-> "ram", offset |-> offset, size |-> size]
Rom(size) == [kind |-> "rom", offset |-> \h8000, size |-> size]
Input(offset) == [kind |-> "input", offset |-> offset, size |-> 16]
Vgc(offset) == [kind |-> "vgc", offset |-> offset, size |-> 16]

(* One machine per device, so that each can be driven hard, and the demo's
   with all of them. *)
Keyboard == <<Input(\h4000)>>
Graphics == <<Vgc(\h4100)>>
TwoRams == <<Ram(0, \h200), Rom(\h8000), Ram(\h2000, \h100)>>
Demo == <<Ram(0, \h2000), Rom(\h8000), Input(\h4000), Vgc(\h4100)>>

(* Layouts of tests and tools: small cartridges, and extra regions in every
   position against the first two. *)
Extended ==
  {<<Ram(0, \h2000), Rom(size), Ram(offset, extra)>> :
     size \in {0, \h4000, \h6000, \h8000, \h10000},
     offset \in {0, \h0FFF, \h1000, \h2000, \h6000, \h7FFF, \h8000, \hC000, \hFFFF},
     extra \in {0, 1, 3, 16, \h1000, \h8000, \h10000}}

(* RAMs larger than the address space, and so large that a uint32_t, here
   of 18 bits, cannot hold their size. *)
Large ==
  {<<Ram(0, size), second>> :
     size \in {\h20000, \h40000, \h80000},
     second \in {Ram(0, \h20000), Ram(0, \h40000), Ram(\h8000, \h1000), Rom(\h10000)}}
  \cup {<<Ram(0, size)>> : size \in {\h10000, \h20000, \h30000, \h40000}}

MCLayouts == {Keyboard, Graphics, TwoRams, Demo} \cup Extended \cup Large

MCProbes ==
  {0, \h0FFF, \h1000, \h1FFF, \h2000, \h200F, \h2010, \h6000, \h6FFF, \h7000, \h7FFF,
   \h8000, \h8FFF, \hBFFF, \hC000, \hCFFF, \hFFFF, \h4000, \h400F, \h4100, \h410F}

MCLoads(f) == IF f \in {Keyboard, Demo} THEN {\h4002, \h4003, \h3000} ELSE {}

(* Latches of the coprocessor and what the program puts there; 0xFF is the
   far edge and a command that does not exist. *)
Latched ==
  ({CMD} \X {1, 2, 3, 255}) \cup
  {<<X0, 0>>, <<X0, 4>>, <<X1, 0>>, <<X1, 5>>, <<Y0, 0>>, <<Y0, 2>>, <<Y1, 0>>,
   <<Y1, 7>>, <<COLOR, 6>>, <<EXEC, 0>>, <<EXEC, 1>>, <<CONTROL, \h83>>, <<8, 1>>}

MCStores(f) ==
  CASE f = Keyboard -> {<<\h4001, 1>>, <<\h4001, 2>>, <<\h4002, 1>>}
    [] f = Graphics -> {<<\h4100 + w[1], w[2]>> : w \in Latched}
    [] f = TwoRams -> {\h0, \h1, \h100, \h1FF, \h2000, \h2100, \h9000} \X {1, 2}
    [] f = <<Ram(0, \h20000)>> -> {0, \h8000, \hFFFF} \X {1}
    [] f = Demo -> {<<\h4001, 1>>, <<\h4100, 3>>, <<\h4103, 2>>,
                    <<\h4106, 1>>}
    [] OTHER -> {}

MCTyped(f) == IF f = Demo THEN CHOOSE s \in SUBSET Keys : Cardinality(s) = 1 ELSE Keys
=============================================================================

------------------------------ MODULE MemoryMap ------------------------------
(***************************************************************************)
(* sim/src/memory: the regions of the address space.  Memory's constructor *)
(* builds one region per factory, each of which may throw, and then        *)
(* compares every two of them; loads and stores find their region by the   *)
(* first match in that order.  Sizes and offsets are the code's, cells are *)
(* kept only where something was stored.                                   *)
(***************************************************************************)
EXTENDS Bytes, Sequences

CONSTANTS
  Layouts,  \* the sequences of factories Memory may be given
  Probes,   \* addresses EveryCellIsReached looks at
  Fill,     \* what RAM holds at first, 0x00
  SizeBits,   \* the width of size_t, 64
  UintRange   \* the numbers of a uint32_t, 2^32

(* What a factory gives Region's constructor: its offset is a Word, its size
   any size_t. *)
Factory == [kind : STRING, offset : Word, size : Nat]

ASSUME LayoutsAssumption == Layouts \subseteq Seq(Factory)
ASSUME ProbesAssumption == Probes \subseteq Word

VARIABLES
  factories,  \* region_factories: records of module kind, offset and size
  regions,    \* regions_
  machine,    \* "building", "running", or "thrown" once an exception is out
  ram,        \* data_ of the RAM modules: byte by <<region, index>>
  written     \* ghost: the byte last stored at each address of RAM

mapVars == <<factories, regions, machine, ram, written>>

MapInit ==
  /\ factories \in Layouts
  /\ regions = << >>
  /\ machine = "building"
  /\ ram = << >>
  /\ written = << >>

PowerOfTwo[k \in 0 .. SizeBits] == IF k = 0 THEN 1 ELSE 2 * PowerOfTwo[k - 1]
ASSUME WidthsAssumption ==
  SizeBits \in Nat /\ \E k \in 17 .. SizeBits : UintRange = PowerOfTwo[k]

IsPowerOfTwo(n) == \E k \in 0 .. SizeBits - 1 : n = PowerOfTwo[k]

(* Region: the constructor throws for a size that is no power of two and for
   an offset that is not aligned to it. *)
WellPlaced(r) == IsPowerOfTwo(r.size) /\ r.offset % r.size = 0

BuildRegion ==
  /\ machine = "building"
  /\ Len(regions) < Len(factories)
  /\ LET r == factories[Len(regions) + 1]
     IN  IF WellPlaced(r)
           THEN regions' = Append(regions, r) /\ UNCHANGED machine
           ELSE machine' = "thrown" /\ UNCHANGED regions
  /\ UNCHANGED <<factories, ram, written>>

(* The upper bound of a region: a size of 4 GiB or more is lost in the
   conversion to uint32_t. *)
AsUint32(n) == n % UintRange
Upper(r) == AsUint32(r.offset + AsUint32(r.size))

Contains(r, a) == r.offset <= a /\ a < Upper(r)

Overlaps(r, s) == r.offset < Upper(s) /\ s.offset < Upper(r)

(* Mutant: a region is compared only with the one built after it. *)
NeighboursOverlap ==
  \E i, j \in DOMAIN regions : j = i + 1 /\ Overlaps(regions[i], regions[j])

SomeOverlap == \E i, j \in DOMAIN regions : i < j /\ Overlaps(regions[i], regions[j])

CheckOverlaps ==
  /\ machine = "building"
  /\ Len(regions) = Len(factories)
  /\ machine' = IF SomeOverlap THEN "thrown" ELSE "running"
  /\ UNCHANGED <<factories, regions, ram, written>>

(* The first region with the address; 0 for none. *)
FindRegion(a) ==
  LET found == {i \in DOMAIN regions : Contains(regions[i], a)}
  IN  IF found = {} THEN 0 ELSE CHOOSE i \in found : \A j \in found : i <= j

Kind(a) == IF FindRegion(a) = 0 THEN "none" ELSE regions[FindRegion(a)].kind

(* Mutant: the module sees the low byte of the address only. *)
TranslateLow(r, a) == low(a - r.offset)

Translate(r, a) == AsWord(a - r.offset)

Cell(a) == <<FindRegion(a), Translate(regions[FindRegion(a)], a)>>

(* Ram::Read at an address of RAM. *)
RamRead(a) == IF Cell(a) \in DOMAIN ram THEN ram[Cell(a)] ELSE Fill

With(f, p, v) == [q \in DOMAIN f \cup {p} |-> IF q = p THEN v ELSE f[q]]

RamWrite(a, v) ==
  /\ Kind(a) = "ram"
  /\ ram' = With(ram, Cell(a), v)
  /\ written' = With(written, a, v)
  /\ UNCHANGED <<factories, regions, machine>>

(* Memory::WriteAt and Rom::Write throw for unmapped addresses and for ROM. *)
WriteThrows(a) ==
  /\ Kind(a) \in {"none", "rom"}
  /\ machine' = "thrown"
  /\ UNCHANGED <<factories, regions, ram, written>>

(***************************************************************************)
(* Properties.                                                             *)
(***************************************************************************)

(* Once Memory's constructor has accepted a layout, every cell of every region
   that has an address, boundaries included, answers to it, and FindRegion's
   first match hides none.  No check keeps a region from running past 0xFFFF,
   but one that does starts at 0 and has the address space to itself.  Where
   4 GiB make the region's upper bound 0, nothing answers. *)
EveryCellIsReached ==
  machine = "running" =>
    \A i \in DOMAIN regions :
      LET r == regions[i]
          others == {j \in DOMAIN regions : j # i /\ AsUint32(regions[j].size) # 0}
      IN  IF AsUint32(r.size) = 0 THEN \A a \in Probes : FindRegion(a) # i
          ELSE /\ \A a \in Probes :
                    r.offset <= a /\ a < r.offset + r.size => FindRegion(a) = i
               /\ r.offset + r.size - 1 \in Word \/ (r.offset = 0 /\ others = {})

(* A byte of RAM keeps what was last stored at its address, whatever was
   stored at other addresses of the same or of other regions. *)
RamKeepsWrites ==
  machine = "running" => \A a \in DOMAIN written : RamRead(a) = written[a]

(* What the two need by induction: only well placed regions are built, an
   accepted layout has no overlap, nothing is stored before, and every byte
   stored is in the cell its address leads to. *)
MapInv ==
  /\ machine \in {"building", "running", "thrown"}
  /\ factories \in Layouts
  /\ regions \in Seq(Factory)
  /\ \A i \in DOMAIN regions : WellPlaced(regions[i])
  /\ machine = "running" => ~SomeOverlap
  /\ machine = "building" => DOMAIN written = {}
  /\ \A a \in DOMAIN written :
       /\ a \in Word /\ FindRegion(a) # 0
       /\ Cell(a) \in DOMAIN ram /\ ram[Cell(a)] = written[a]
=============================================================================

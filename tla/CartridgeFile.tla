---------------------------- MODULE CartridgeFile ----------------------------
(***************************************************************************)
(* The cartridge as a file: the bytes that WriteCartridge and EncodeHeader *)
(* of the assembler put into it, and what LoadCartridge of the simulator   *)
(* (sim/src/cartridge.cpp) makes of the bytes it finds.                    *)
(***************************************************************************)
EXTENDS Integers, Sequences, Bytes

kCartridgeHeaderSize == 32
kCartridgeVersion == 1
Magic == <<73, 82, 84, 65>>  \* IRTA

AppendU16(n) == <<low(n), high(n)>>
AppendU32(n) == AppendU16(n % 65536) \o AppendU16(n \div 65536)

(* EncodeHeader, of a header with the given entry and rom_size. *)
EncodeHeader(entry, rom_size) ==
  Magic \o AppendU16(kCartridgeVersion) \o AppendU16(kCartridgeHeaderSize)
    \o AppendU16(entry) \o AppendU32(rom_size) \o [reserved \in 1 .. 18 |-> 0]

(* The contents WriteCartridge gives the file. *)
CartridgeBytes(entry, rom) == EncodeHeader(entry, Len(rom)) \o rom

ReadU16(data, offset) == MakeWord(data[offset + 2], data[offset + 1])
ReadU32(data, offset) == ReadU16(data, offset) + 65536 * ReadU16(data, offset + 2)

Refused == [ok |-> FALSE]

(* Mutant: the file is not compared with the size in its header. *)
LoadCartridgeTrusting(data) ==
  IF Len(data) < kCartridgeHeaderSize \/ SubSeq(data, 1, 4) # Magic THEN Refused
  ELSE [ok |-> TRUE, entry |-> ReadU16(data, 8),
        rom |-> SubSeq(data, ReadU16(data, 6) + 1, Len(data))]

(* LoadCartridge; where it throws, the file is refused. *)
LoadCartridge(data) ==
  IF Len(data) < kCartridgeHeaderSize \/ SubSeq(data, 1, 4) # Magic THEN Refused
  ELSE LET header_size == ReadU16(data, 6)
           rom_size == ReadU32(data, 10)
       IN  IF header_size < kCartridgeHeaderSize
              \/ Len(data) < header_size + rom_size
           THEN Refused
           ELSE [ok |-> TRUE, entry |-> ReadU16(data, 8),
                 rom |-> SubSeq(data, header_size + 1, header_size + rom_size)]
=============================================================================

-------------------------------- MODULE MCTarget --------------------------------
(* Operands at the edges of the scaled word and of a 12-bit immediate; offsets *)
(* around 2047, 4095 and 4095 words of eight bytes, the limits of the accesses *)
(* that fit one instruction.                                                   *)
EXTENDS M1Target

MCOperands(n) == IF n = 4 THEN {0, 1, 2, 5, 127, 128, 129, 255}
                 ELSE {0, 1, 2, 6, 127, 128, 255, 2047, 2048, 32767, 32768, 32769, 65534, 65535}
MCOffsets(arch) == IF arch = "i386" THEN {0, 4, 100}
                   ELSE {0, 8, 2040, 2048, 4088, 4096, 32760, 32768, 32776}
MCSlots(arch) == IF arch = "i386" THEN {0, 1, 10} ELSE {0, 1, 256, 300, 512, 1200}
MCOps == Compares \cup Shifts \cup Divisions \cup {"ADD", "SUB", "MUL", "AND", "OR", "XOR"}
=============================================================================

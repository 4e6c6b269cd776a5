---------------------------- MODULE MCCommands ----------------------------
(* Commands with a block of two parameters, one of one byte (the address)  *)
(* and one of two, bytes of 3 bits, and a CRC in which changes of two      *)
(* bytes can cancel each other.  The EEPROM starts with an old type of     *)
(* block, with lengths of 0 and beyond the end, or with a good block.     *)
EXTENDS Commands, TLC

MCByte == 0 .. 7
MCTable == << [index |-> 2, count |-> 1], [index |-> 3, count |-> 2] >>
MCDefault == (2 :> 0 @@ 3 :> 2 @@ 4 :> 1)
MCCrcUpdate(c, b) == (3 * c + b) % 8
MCComplement(b) == 7 - b

MCBlock(len, type, a, x, y, crc) ==
    [i \in Offsets |-> <<len, type, a, x, y, crc>>[i + 1]]

MCGood == MCBlock(6, 2, 1, 0, 1, CrcOf(Data(MCBlock(6, 2, 1, 0, 1, 0))))
MCFound == { MCBlock(4, 1, 1, 1, 1, 1), MCBlock(0, 2, 1, 1, 1, 1),
             MCBlock(7, 2, 1, 1, 1, 1), MCGood }

MCUid == <<2, 1>>
=============================================================================

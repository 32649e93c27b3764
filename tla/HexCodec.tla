------------------------------- MODULE HexCodec -------------------------------
(***************************************************************************)
(* src/src/Utility/Utility.h: the conversion between a salt, which is a    *)
(* vector of bytes, and the hex string kept in the users table.  A string  *)
(* is a sequence of digit values.                                          *)
(***************************************************************************)
EXTENDS Naturals, Sequences

Byte == 0 .. 255
Digit == 0 .. 15

\* Seeded fault: setw is set once, so only the first byte is padded.
toHexString_PadOnce(bytes) ==
    LET digits(i) == IF i > 1 /\ bytes[i] < 16 THEN <<bytes[i]>>
                     ELSE <<bytes[i] \div 16, bytes[i] % 16>>
        text[i \in 0 .. Len(bytes)] == IF i = 0 THEN <<>> ELSE text[i - 1] \o digits(i)
    IN  text[Len(bytes)]

\* Every byte is written with setw(2) and setfill('0').
toHexString(bytes) ==
    [k \in 1 .. 2 * Len(bytes) |->
        LET byte == bytes[(k + 1) \div 2]
        IN  IF k % 2 = 1 THEN byte \div 16 ELSE byte % 16]

\* stoi in base 16 of substr(i, 2), for i = 0, 2, ..., narrowed to uint8_t; the
\* last substring of a string of odd length has one digit.
fromHexString(hex) ==
    [i \in 1 .. (Len(hex) + 1) \div 2 |->
        (IF 2 * i <= Len(hex) THEN 16 * hex[2 * i - 1] + hex[2 * i] ELSE hex[2 * i - 1]) % 256]
===============================================================================

------------------------------ MODULE FatEntry ------------------------------
(***************************************************************************)
(* The entries of a file allocation table, as bytes: of 12 bits, three     *)
(* bytes holding two of them, or of 16.  A table f is a function from byte *)
(* offsets to bytes, and "at" is where one of its copies begins.           *)
(***************************************************************************)
EXTENDS Integers

Byte == 0..255

\* The first of the two bytes that hold the entry of cluster c.
Offset(type, at, c) == at + (IF type = 12 THEN (c * 3) \div 2 ELSE c * 2)

Word(f, o) == f[o] + 256 * f[o + 1]

ReadEntry(f, type, at, c) ==
  LET word == Word(f, Offset(type, at, c))
  IN IF type # 12 THEN word ELSE IF c % 2 = 0 THEN word % 4096 ELSE word \div 16

\* Mutant: the nibble of the neighbouring entry is not kept.
PackForgets(type, word, c, v) ==
  IF type # 12 THEN v ELSE IF c % 2 = 0 THEN v ELSE v * 16

\* A 12-bit entry is packed beside the nibble of its neighbour.
Pack(type, word, c, v) ==
  IF type # 12 THEN v
  ELSE IF c % 2 = 0 THEN (word \div 4096) * 4096 + v ELSE (word % 16) + v * 16

WriteEntry(f, type, at, c, v) ==
  LET o == Offset(type, at, c)
      word == Pack(type, Word(f, o), c, v)
  IN [f EXCEPT ![o] = word % 256, ![o + 1] = word \div 256]

\* The entry that ends a chain.
Eoc(type) == IF type = 12 THEN 4095 ELSE 65535

=============================================================================

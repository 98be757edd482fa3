--------------------------- MODULE FatImageProofs ---------------------------
(***************************************************************************)
(* FatImage, for every boot sector of a FAT12 or FAT16 volume and every    *)
(* set of files: an entry of a table reads back what was written to it and *)
(* no other entry changes (ReadsBack, OthersKept); the copies of the table *)
(* agree (Copies); a write that has room is carried out (Room); every file *)
(* is found on the image, with its bytes (Found).                          *)
(*                                                                         *)
(* Inductions run over the entries of a table or the steps of a chain, as  *)
(* the least step that goes wrong (LeastOf, UpTo).  The invariant Found    *)
(* rests on names a place in the directory and a chain for each file, the  *)
(* chains apart from each other (FilesInv).                                *)
(***************************************************************************)
EXTENDS FatImage, FiniteSetTheorems, WellFoundedInduction, TLAPS

\* A table of "size" bytes, and an entry of a copy at "at" that lies in it.
TableOf(f, size) == f \in [0..size - 1 -> Byte]

EntryIn(size, type, at, c) ==
  /\ size \in Nat /\ at \in Nat /\ c \in Nat
  /\ type \in {12, 16}
  /\ Offset(type, at, c) + 2 <= size

\* A word new that holds v where the entry of c is read, and what old had where
\* the neighbour's nibble is.
Fills(new, old, type, c, v) ==
  /\ new \in Int /\ 0 <= new /\ new <= 65535
  /\ type = 16 => new = v
  /\ type = 12 /\ c % 2 = 0 => new % 4096 = v /\ new \div 4096 = old \div 4096
  /\ type = 12 /\ c % 2 # 0 => new \div 16 = v /\ new % 16 = old % 16

\* The table g is f with the word at o.
Stored(g, f, size, o, word) ==
  /\ TableOf(g, size)
  /\ g[o] = word % 256 /\ g[o + 1] = word \div 256
  /\ Word(g, o) = word
  /\ \A p \in 0..size - 1 : p # o /\ p # o + 1 => g[p] = f[p]

-----------------------------------------------------------------------------
(* The entries of a table *)

(* A 16-bit word is its two bytes ... *)
LEMMA WordSplits ==
  ASSUME NEW w \in Int, 0 <= w, w <= 65535
  PROVE  /\ w % 256 \in Int /\ 0 <= w % 256 /\ w % 256 <= 255
         /\ w \div 256 \in Int /\ 0 <= w \div 256 /\ w \div 256 <= 255
         /\ (w % 256) + 256 * (w \div 256) = w
BY SMT

(* ... and two bytes are a 16-bit word. *)
LEMMA WordRange ==
  ASSUME NEW lo \in Int, 0 <= lo, lo <= 255, NEW hi \in Int, 0 <= hi, hi <= 255
  PROVE  lo + 256 * hi \in Int /\ 0 <= lo + 256 * hi /\ lo + 256 * hi <= 65535
BY SMT

(* An even 12-bit entry beside the nibble above it: a word, of which both are
   read back. *)
LEMMA EvenWord ==
  ASSUME NEW word \in Int, 0 <= word, word <= 65535, NEW v \in Int, 0 <= v, v <= 4095
  PROVE  /\ (word \div 4096) * 4096 + v \in Int
         /\ 0 <= (word \div 4096) * 4096 + v
         /\ (word \div 4096) * 4096 + v <= 65535
         /\ ((word \div 4096) * 4096 + v) % 4096 = v
         /\ ((word \div 4096) * 4096 + v) \div 4096 = word \div 4096
BY SMT

(* The same of an odd one and the nibble below it. *)
LEMMA OddWord ==
  ASSUME NEW word \in Int, 0 <= word, word <= 65535, NEW v \in Int, 0 <= v, v <= 4095
  PROVE  /\ (word % 16) + v * 16 \in Int
         /\ 0 <= (word % 16) + v * 16
         /\ (word % 16) + v * 16 <= 65535
         /\ ((word % 16) + v * 16) \div 16 = v
         /\ ((word % 16) + v * 16) % 16 = word % 16
BY SMT

(* The nibble of the byte two 12-bit entries share is the neighbour's own: that
   of an even one ... *)
LEMMA SharedHigh ==
  ASSUME NEW lo \in Int, 0 <= lo, lo <= 255, NEW hi \in Int, 0 <= hi, hi <= 255
  PROVE  (lo + 256 * hi) \div 4096 = hi \div 16
BY SMT

(* ... and so is that of an odd one. *)
LEMMA SharedLow ==
  ASSUME NEW lo \in Int, 0 <= lo, lo <= 255, NEW hi \in Int, 0 <= hi, hi <= 255
  PROVE  (lo + 256 * hi) % 16 = lo % 16
BY SMT

(* An odd entry is read from the high nibble of its first byte and its second
   byte; an even one from its first byte and the low nibble of its second. *)
LEMMA OddReads ==
  ASSUME NEW lo \in Int, 0 <= lo, lo <= 255, NEW hi \in Int, 0 <= hi, hi <= 255
  PROVE  (lo + 256 * hi) \div 16 = (lo \div 16) + 16 * hi
BY SMT

(* An entry at an even cluster reads the low 12 bits of its word. *)
LEMMA EvenReads ==
  ASSUME NEW lo \in Int, 0 <= lo, lo <= 255, NEW hi \in Int, 0 <= hi, hi <= 255
  PROVE  (lo + 256 * hi) % 4096 = lo + 256 * (hi % 16)
BY SMT

(* Two different entries share no byte, but for an even one and the odd one
   after it, of 12 bits. *)
LEMMA Apart ==
  ASSUME NEW type \in {12, 16}, NEW at \in Nat, NEW c \in Nat, NEW d \in Nat, c < d
  PROVE  \/ Offset(type, at, c) + 2 <= Offset(type, at, d)
         \/ /\ type = 12 /\ c % 2 = 0 /\ d % 2 # 0
            /\ Offset(type, at, d) = Offset(type, at, c) + 1
<1>1. CASE type = 12
  BY <1>1, SMT DEF Offset
<1>2. CASE type = 16
  BY <1>2, SMT DEF Offset
<1> QED
  BY <1>1, <1>2

(* The byte an entry begins at. *)
LEMMA OffsetIsNat ==
  ASSUME NEW type \in {12, 16}, NEW at \in Nat, NEW c \in Nat
  PROVE  Offset(type, at, c) \in Nat
<1>1. CASE type = 12
  BY <1>1, SMT DEF Offset
<1>2. CASE type = 16
  BY <1>2, SMT DEF Offset
<1> QED
  BY <1>1, <1>2

(* A table holds bytes. *)
LEMMA BytesOf ==
  ASSUME NEW f, NEW size \in Nat, TableOf(f, size), NEW o \in Nat, o + 1 <= size
  PROVE  f[o] \in Int /\ 0 <= f[o] /\ f[o] <= 255
<1>1. o \in 0..size - 1
  OBVIOUS
<1>2. f[o] \in Byte
  BY <1>1 DEF TableOf
<1> QED
  BY <1>2 DEF Byte

(* What Pack makes of a word. *)
LEMMA Packed ==
  ASSUME NEW word \in Int, 0 <= word, word <= 65535, NEW type \in {12, 16},
         NEW c \in Nat, NEW v \in 0..Eoc(type)
  PROVE  Fills(Pack(type, word, c, v), word, type, c, v)
<1>1. v \in Int /\ 0 <= v /\ v <= Eoc(type) /\ Eoc(type) \in Int
  BY DEF Eoc
<1>2. CASE type = 16
  BY <1>1, <1>2 DEF Pack, Eoc, Fills
<1>3. CASE type = 12 /\ c % 2 = 0
  <2>1. Pack(type, word, c, v) = (word \div 4096) * 4096 + v
    BY <1>3 DEF Pack
  <2>2. v <= 4095
    BY <1>1, <1>3 DEF Eoc
  <2> QED
    BY <1>1, <1>3, <2>1, <2>2, EvenWord DEF Fills
<1>4. CASE type = 12 /\ c % 2 # 0
  <2>1. Pack(type, word, c, v) = (word % 16) + v * 16
    BY <1>4 DEF Pack
  <2>2. v <= 4095
    BY <1>1, <1>4 DEF Eoc
  <2> QED
    BY <1>1, <1>4, <2>1, <2>2, OddWord DEF Fills
<1> QED
  BY <1>2, <1>3, <1>4

(* The two bytes written, and all the others, which stay. *)
LEMMA Written ==
  ASSUME NEW f, NEW size, NEW type, NEW at, NEW c, NEW v \in 0..Eoc(type),
         TableOf(f, size), EntryIn(size, type, at, c)
  PROVE  Stored(WriteEntry(f, type, at, c, v), f, size, Offset(type, at, c),
                Pack(type, Word(f, Offset(type, at, c)), c, v))
<1> DEFINE o == Offset(type, at, c)
           word == Pack(type, Word(f, o), c, v)
           g == WriteEntry(f, type, at, c, v)
<1>0. size \in Nat /\ type \in {12, 16} /\ c \in Nat
  BY DEF EntryIn
<1>1. o \in Nat /\ o + 2 <= size
  BY OffsetIsNat DEF EntryIn
<1>2. Word(f, o) \in Int /\ 0 <= Word(f, o) /\ Word(f, o) <= 65535
  <2>1. f[o] \in Int /\ 0 <= f[o] /\ f[o] <= 255
    BY <1>0, <1>1, BytesOf
  <2>2. f[o + 1] \in Int /\ 0 <= f[o + 1] /\ f[o + 1] <= 255
    BY <1>0, <1>1, BytesOf
  <2> QED
    BY <2>1, <2>2, WordRange DEF Word
<1>3. word \in Int /\ 0 <= word /\ word <= 65535
  BY <1>0, <1>2, Packed DEF Fills
<1>4. g = [f EXCEPT ![o] = word % 256, ![o + 1] = word \div 256]
  BY DEF WriteEntry
<1> HIDE DEF o, word, g
<1>5. word % 256 \in Byte /\ word \div 256 \in Byte
  <2>1. word % 256 \in Int /\ 0 <= word % 256 /\ word % 256 <= 255
    BY <1>3, WordSplits
  <2>2. word \div 256 \in Int /\ 0 <= word \div 256 /\ word \div 256 <= 255
    BY <1>3, WordSplits
  <2> QED
    BY <2>1, <2>2 DEF Byte
<1> DEFINE lo == word % 256
           hi == word \div 256
<1>6. g = [f EXCEPT ![o] = lo, ![o + 1] = hi] /\ lo \in Byte /\ hi \in Byte
  BY <1>4, <1>5
<1>6a. lo + 256 * hi = word
  BY <1>3, WordSplits
<1> HIDE DEF lo, hi
<1>7. /\ TableOf(g, size)
      /\ g[o] = lo /\ g[o + 1] = hi
      /\ \A p \in 0..size - 1 : p # o /\ p # o + 1 => g[p] = f[p]
  BY <1>0, <1>1, <1>6 DEF TableOf
<1>8. Word(g, o) = word
  BY <1>6a, <1>7 DEF Word
<1> QED
  BY <1>7, <1>8 DEF Stored, o, word, g, lo, hi

(* The value written into an entry is the value read from it. *)
THEOREM ReadsBack ==
  ASSUME NEW f, NEW size, NEW type, NEW at, NEW c, NEW v \in 0..Eoc(type),
         TableOf(f, size), EntryIn(size, type, at, c)
  PROVE  ReadEntry(WriteEntry(f, type, at, c, v), type, at, c) = v
<1> DEFINE o == Offset(type, at, c)
           word == Pack(type, Word(f, o), c, v)
           g == WriteEntry(f, type, at, c, v)
<1>0. size \in Nat /\ type \in {12, 16} /\ c \in Nat /\ o \in Nat /\ o + 2 <= size
  BY OffsetIsNat DEF EntryIn
<1>1. Word(g, o) = word
  <2>1. Stored(g, f, size, o, word)
    BY Written
  <2> HIDE DEF g, o, word
  <2> QED
    BY <2>1 DEF Stored
<1>2. Word(f, o) \in Int /\ 0 <= Word(f, o) /\ Word(f, o) <= 65535
  <2>1. f[o] \in Int /\ 0 <= f[o] /\ f[o] <= 255
    BY <1>0, BytesOf
  <2>2. f[o + 1] \in Int /\ 0 <= f[o + 1] /\ f[o + 1] <= 255
    BY <1>0, BytesOf
  <2> QED
    BY <2>1, <2>2, WordRange DEF Word
<1>3. /\ type = 16 => word = v
      /\ type = 12 /\ c % 2 = 0 => word % 4096 = v
      /\ type = 12 /\ c % 2 # 0 => word \div 16 = v
  BY <1>0, <1>2, Packed DEF Fills
<1>4. ReadEntry(g, type, at, c)
        = IF type # 12 THEN word ELSE IF c % 2 = 0 THEN word % 4096 ELSE word \div 16
  BY <1>1 DEF ReadEntry
<1> HIDE DEF g, word
<1>5. ReadEntry(g, type, at, c) = v
  BY <1>0, <1>3, <1>4
<1> QED
  BY <1>5 DEF g

(* Writing the entry of one cluster changes the entry of no other: of an
   allocation table two files' chains are never mixed up by the packing. *)
THEOREM OthersKept ==
  ASSUME NEW f, NEW size, NEW type, NEW at, NEW c, NEW d, NEW v \in 0..Eoc(type),
         TableOf(f, size), EntryIn(size, type, at, c), EntryIn(size, type, at, d), c # d
  PROVE  ReadEntry(WriteEntry(f, type, at, c, v), type, at, d) = ReadEntry(f, type, at, d)
<1> DEFINE o == Offset(type, at, c)
           p == Offset(type, at, d)
           old == Word(f, o)
           word == Pack(type, old, c, v)
           g == WriteEntry(f, type, at, c, v)
<1>0. /\ size \in Nat /\ type \in {12, 16} /\ c \in Nat /\ d \in Nat /\ at \in Nat
      /\ o \in Nat /\ o + 2 <= size /\ p \in Nat /\ p + 2 <= size
  BY OffsetIsNat DEF EntryIn
<1>1. /\ TableOf(g, size)
      /\ g[o] = word % 256 /\ g[o + 1] = word \div 256 /\ Word(g, o) = word
      /\ \A q \in 0..size - 1 : q # o /\ q # o + 1 => g[q] = f[q]
  <2>1. Stored(g, f, size, o, word)
    BY Written
  <2> HIDE DEF g, o, old, word
  <2> QED
    BY <2>1 DEF Stored
<1>2. /\ f[o] \in Int /\ 0 <= f[o] /\ f[o] <= 255
      /\ f[o + 1] \in Int /\ 0 <= f[o + 1] /\ f[o + 1] <= 255
      /\ f[p] \in Int /\ 0 <= f[p] /\ f[p] <= 255
      /\ f[p + 1] \in Int /\ 0 <= f[p + 1] /\ f[p + 1] <= 255
      /\ g[o] \in Int /\ 0 <= g[o] /\ g[o] <= 255
      /\ g[o + 1] \in Int /\ 0 <= g[o + 1] /\ g[o + 1] <= 255
      /\ g[p] \in Int /\ 0 <= g[p] /\ g[p] <= 255
      /\ g[p + 1] \in Int /\ 0 <= g[p + 1] /\ g[p + 1] <= 255
  <2> HIDE DEF o, p, g
  <2>1. o + 1 <= size /\ o + 1 + 1 <= size /\ o + 1 \in Nat
    BY <1>0
  <2>2. p + 1 <= size /\ p + 1 + 1 <= size /\ p + 1 \in Nat
    BY <1>0
  <2>3. size \in Nat /\ o \in Nat /\ p \in Nat /\ TableOf(g, size)
    BY <1>0, <1>1
  <2> QED
    BY <2>1, <2>2, <2>3, BytesOf
<1>3. old \in Int /\ 0 <= old /\ old <= 65535
  BY <1>2, WordRange DEF Word
<1>4. /\ type = 12 /\ c % 2 = 0 => word \div 4096 = old \div 4096
      /\ type = 12 /\ c % 2 # 0 => word % 16 = old % 16
  <2>1. Fills(word, old, type, c, v)
    BY <1>0, <1>3, Packed
  <2> QED
    BY <2>1 DEF Fills
<1>5. \/ o + 2 <= p \/ p + 2 <= o
      \/ type = 12 /\ c % 2 = 0 /\ d % 2 # 0 /\ p = o + 1
      \/ type = 12 /\ d % 2 = 0 /\ c % 2 # 0 /\ o = p + 1
  <2>1. CASE c < d
    BY <1>0, <2>1, Apart
  <2>2. CASE d < c
    BY <1>0, <2>2, Apart
  <2> QED
    BY <1>0, <2>1, <2>2
<1> HIDE DEF o, p, old, word, g
\* Apart: both bytes are as they were.
<1>6. CASE o + 2 <= p \/ p + 2 <= o
  <2>1. /\ p \in 0..size - 1 /\ p # o /\ p # o + 1
        /\ p + 1 \in 0..size - 1 /\ p + 1 # o /\ p + 1 # o + 1
    BY <1>0, <1>6
  <2>2. Word(g, p) = Word(f, p)
    BY <1>1, <2>1 DEF Word
  <2> QED
    BY <2>2 DEF ReadEntry, p, g
\* The odd entry after an even one: the shared byte keeps its high nibble.
<1>7. CASE type = 12 /\ c % 2 = 0 /\ d % 2 # 0 /\ p = o + 1
  <2>1. g[p + 1] = f[p + 1]
    <3>1. p + 1 \in 0..size - 1 /\ p + 1 # o /\ p + 1 # o + 1
      BY <1>0, <1>7
    <3> QED
      BY <1>1, <3>1
  <2>2. g[p] \div 16 = f[p] \div 16
    <3>1. (g[o] + 256 * g[o + 1]) \div 4096 = g[o + 1] \div 16
      BY <1>2, SharedHigh
    <3>2. (f[o] + 256 * f[o + 1]) \div 4096 = f[o + 1] \div 16
      BY <1>2, SharedHigh
    <3>3. g[o] + 256 * g[o + 1] = word /\ f[o] + 256 * f[o + 1] = old
      BY <1>1 DEF Word, old
    <3> QED
      BY <1>4, <1>7, <3>1, <3>2, <3>3
  <2>3. Word(g, p) \div 16 = Word(f, p) \div 16
    <3>1. (g[p] + 256 * g[p + 1]) \div 16 = (g[p] \div 16) + 16 * g[p + 1]
      BY <1>2, OddReads
    <3>2. (f[p] + 256 * f[p + 1]) \div 16 = (f[p] \div 16) + 16 * f[p + 1]
      BY <1>2, OddReads
    <3> QED
      BY <2>1, <2>2, <3>1, <3>2 DEF Word
  <2>4. ReadEntry(g, type, at, d) = Word(g, p) \div 16
    BY <1>7 DEF ReadEntry, p
  <2>5. ReadEntry(f, type, at, d) = Word(f, p) \div 16
    BY <1>7 DEF ReadEntry, p
  <2> QED
    BY <2>3, <2>4, <2>5 DEF g
\* The even entry before an odd one: the shared byte keeps its low nibble.
<1>8. CASE type = 12 /\ d % 2 = 0 /\ c % 2 # 0 /\ o = p + 1
  <2>1. g[p] = f[p]
    <3>1. p \in 0..size - 1 /\ p # o /\ p # o + 1
      BY <1>0, <1>8
    <3> QED
      BY <1>1, <3>1
  <2>2. g[p + 1] % 16 = f[p + 1] % 16
    <3>1. (g[o] + 256 * g[o + 1]) % 16 = g[o] % 16
      BY <1>2, SharedLow
    <3>2. (f[o] + 256 * f[o + 1]) % 16 = f[o] % 16
      BY <1>2, SharedLow
    <3>3. g[o] + 256 * g[o + 1] = word /\ f[o] + 256 * f[o + 1] = old
      BY <1>1 DEF Word, old
    <3> QED
      BY <1>4, <1>8, <3>1, <3>2, <3>3
  <2>3. Word(g, p) % 4096 = Word(f, p) % 4096
    <3>1. (g[p] + 256 * g[p + 1]) % 4096 = g[p] + 256 * (g[p + 1] % 16)
      <4> DEFINE a == g[p]  b == g[p + 1]
      <4>1. a \in Int /\ 0 <= a /\ a <= 255 /\ b \in Int /\ 0 <= b /\ b <= 255
        BY <1>2
      <4> HIDE DEF a, b
      <4>2. (a + 256 * b) % 4096 = a + 256 * (b % 16)
        BY <4>1, EvenReads
      <4> QED
        BY <4>2 DEF a, b
    <3>2. (f[p] + 256 * f[p + 1]) % 4096 = f[p] + 256 * (f[p + 1] % 16)
      <4> DEFINE a == f[p]  b == f[p + 1]
      <4>1. a \in Int /\ 0 <= a /\ a <= 255 /\ b \in Int /\ 0 <= b /\ b <= 255
        BY <1>2
      <4> HIDE DEF a, b
      <4>2. (a + 256 * b) % 4096 = a + 256 * (b % 16)
        BY <4>1, EvenReads
      <4> QED
        BY <4>2 DEF a, b
    <3> QED
      BY <2>1, <2>2, <3>1, <3>2 DEF Word
  <2>4. ReadEntry(g, type, at, d) = Word(g, p) % 4096
    BY <1>8 DEF ReadEntry, p
  <2>5. ReadEntry(f, type, at, d) = Word(f, p) % 4096
    BY <1>8 DEF ReadEntry, p
  <2> QED
    BY <2>3, <2>4, <2>5 DEF g
<1> QED
  BY <1>5, <1>6, <1>7, <1>8

-----------------------------------------------------------------------------
(* The numbers of a volume *)

(* Products and quotients of natural numbers. *)
LEMMA ProductIsNat ==
  ASSUME NEW a \in Nat, NEW k \in Nat
  PROVE  a * k \in Nat
BY SMT

(* A product of naturals grows with its factors. *)
LEMMA ProductGrows ==
  ASSUME NEW a \in Nat, NEW b \in Nat, NEW k \in Nat, a <= b
  PROVE  a * k <= b * k
<1>1. PICK e \in Nat : b = a + e
  <2>1. b - a \in Nat /\ b = a + (b - a)
    BY SMT
  <2> QED
    BY <2>1
<1>2. (a + e) * k = a * k + e * k
  BY SMT
<1>3. a * k \in Nat /\ e * k \in Nat
  BY ProductIsNat
<1> QED
  BY <1>1, <1>2, <1>3

(* Division by a natural that is not 0. *)
LEMMA QuotientIsNat ==
  ASSUME NEW a \in Nat, NEW k \in Nat \ {0}
  PROVE  /\ a \div k \in Nat
         /\ (a \div k) * k <= a
         /\ a < (a \div k) * k + k
BY SMT

(* ... and rounded up. *)
LEMMA CeilIsNat ==
  ASSUME NEW a \in Nat, NEW k \in Nat \ {0}
  PROVE  CeilDiv(a, k) \in Nat
<1>1. a + k - 1 \in Nat
  OBVIOUS
<1> QED
  BY <1>1, QuotientIsNat DEF CeilDiv

(* The offset of one of equally long blocks, and its remainder. *)
LEMMA Blocks ==
  ASSUME NEW size \in Nat \ {0}, NEW a \in Nat, NEW b \in Nat, a # b,
         NEW r \in Nat, NEW q \in Nat, r < size, q < size
  PROVE  a * size + r # b * size + q
<1>1. CASE a < b
  <2>1. (a + 1) * size <= b * size
    BY <1>1, ProductGrows
  <2>2. (a + 1) * size = a * size + size
    BY SMT
  <2>3. a * size \in Nat /\ b * size \in Nat
    BY ProductIsNat
  <2> QED
    BY <2>1, <2>2, <2>3
<1>2. CASE b < a
  <2>1. (b + 1) * size <= a * size
    BY <1>2, ProductGrows
  <2>2. (b + 1) * size = b * size + size
    BY SMT
  <2>3. a * size \in Nat /\ b * size \in Nat
    BY ProductIsNat
  <2> QED
    BY <2>1, <2>2, <2>3
<1> QED
  BY <1>1, <1>2

(* The remainder of an offset in one of equally long blocks. *)
LEMMA RemainderOf ==
  ASSUME NEW size \in Nat \ {0}, NEW a \in Nat, NEW r \in Nat, r < size
  PROVE  (a * size + r) % size = r
<1> DEFINE x == a * size + r
           q == x \div size
           m == x % size
<1>1. a * size \in Nat /\ x \in Nat
  BY ProductIsNat
<1>2. q \in Nat
  BY <1>1, QuotientIsNat
<1>3. m \in Nat /\ m < size /\ x = q * size + m
  BY <1>1, <1>2, SMT
<1>4. q * size + m = a * size + r
  BY <1>3
<1> HIDE DEF x, q, m
<1>5. q = a
  BY <1>2, <1>3, <1>4, Blocks
<1>6. q * size \in Nat
  BY <1>2, ProductIsNat
<1>7. m = r
  BY <1>1, <1>3, <1>4, <1>5, <1>6
<1> QED
  BY <1>7 DEF m, x

(* What is assumed of the constants, part by part. *)
LEMMA Limits ==
  /\ DirEntrySize \in Nat
  /\ Fat12Limit \in Nat /\ Fat12Limit >= 2 /\ Fat12Limit <= 4085
  /\ Fat16Limit \in Nat /\ Fat16Limit >= 2 /\ Fat16Limit <= 65525
BY LimitsAssumption, SMT

(* The numbers of a volume. *)
LEMMA Volume ==
  ASSUME NEW b \in BootSectors
  PROVE  /\ b.num_fats \in Nat \ {0} /\ b.root_entries \in Nat
         /\ FatBytes(b) \in Nat /\ ClusterSize(b) \in Nat \ {0}
         /\ b.num_fats * FatBytes(b) \in Nat
         /\ FatType(b) \in {12, 16}
         /\ LastCluster(b) \in Nat \ {0} /\ LastCluster(b) <= Eoc(FatType(b))
         /\ SearchEnd(b) \in Nat /\ LastCluster(b) <= SearchEnd(b)
         /\ Largest(b) <=> LastCluster(b) = SearchEnd(b)
         /\ TypeLimit(b) = SearchEnd(b)
         /\ Offset(FatType(b), 0, LastCluster(b)) + 2 <= FatBytes(b)
         /\ (b.total_sectors - FirstDataSector(b)) * b.bytes_per_sector \in Nat
         /\ Clusters(b) \in Nat
         /\ Clusters(b) * ClusterSize(b)
              <= (b.total_sectors - FirstDataSector(b)) * b.bytes_per_sector
<1> DEFINE bps == b.bytes_per_sector
           spc == b.sectors_per_cluster
           room == b.total_sectors - FirstDataSector(b)
<1>1. /\ bps \in Nat \ {0} /\ spc \in Nat \ {0} /\ b.num_fats \in Nat \ {0}
      /\ b.reserved_sectors \in Nat /\ b.root_entries \in Nat /\ b.sectors_per_fat \in Nat
      /\ b.total_sectors \in Nat /\ FirstDataSector(b) <= b.total_sectors
      /\ FatType(b) \in {12, 16}
      /\ Offset(FatType(b), 0, LastCluster(b)) + 2 <= FatBytes(b)
  BY BootAssumption DEF WellFormed
<1>2. FatBytes(b) \in Nat /\ b.num_fats * FatBytes(b) \in Nat
  BY <1>1, ProductIsNat DEF FatBytes
<1>3. ClusterSize(b) \in Nat \ {0}
  BY <1>1, SMT DEF ClusterSize
<1>4. room \in Nat
  <2>1. RootDirSectors(b) \in Nat
    BY <1>1, Limits, ProductIsNat, CeilIsNat DEF RootDirSectors
  <2>2. FirstRootDirSector(b) \in Nat
    BY <1>1, ProductIsNat DEF FirstRootDirSector
  <2> QED
    BY <1>1, <2>1, <2>2 DEF FirstDataSector
<1> HIDE DEF room
<1>5. Clusters(b) \in Nat /\ Clusters(b) * spc <= room
  BY <1>1, <1>4, QuotientIsNat DEF Clusters, room
<1>6. LastCluster(b) \in Nat \ {0} /\ LastCluster(b) <= Eoc(FatType(b))
  BY <1>1, <1>5, Limits DEF LastCluster, FatType, Eoc
<1>7. /\ SearchEnd(b) \in Nat /\ LastCluster(b) <= SearchEnd(b)
      /\ Largest(b) <=> LastCluster(b) = SearchEnd(b)
      /\ TypeLimit(b) = SearchEnd(b)
  <2>1. /\ TypeLimit(b) = SearchEnd(b)
        /\ SearchEnd(b) \in Nat /\ Clusters(b) < SearchEnd(b)
    BY <1>1, <1>5, Limits DEF SearchEnd, TypeLimit, FatType
  <2> QED
    BY <1>5, <2>1 DEF LastCluster, Largest
<1>8. room * bps \in Nat
  BY <1>1, <1>4, ProductIsNat
<1>9. Clusters(b) * ClusterSize(b) <= room * bps
  <2>1. (Clusters(b) * spc) * bps <= room * bps
    BY <1>1, <1>4, <1>5, ProductIsNat, ProductGrows
  <2>2. \A x \in Nat : x * (bps * spc) = (x * spc) * bps
    BY <1>1, SMT
  <2> QED
    BY <1>5, <2>1, <2>2 DEF ClusterSize
<1> QED
  BY <1>1, <1>2, <1>3, <1>5, <1>6, <1>7, <1>8, <1>9 DEF room

-----------------------------------------------------------------------------
(* A chain in one copy of the table *)

(* A chain of clusters of the volume, of length k. *)
ChainIn(b, clusters, k) ==
  /\ k \in Nat \ {0}
  /\ clusters \in [1..k -> 2..LastCluster(b)]
  /\ Len(clusters) = k

(* The length of a function that is a sequence ... *)
LEMMA LenOf ==
  ASSUME NEW S, NEW k \in Nat, NEW s \in [1..k -> S]
  PROVE  Len(s) = k /\ DOMAIN s = 1..k
<1>1. s \in Seq(S) /\ DOMAIN s = 1..k
  OBVIOUS
<1> QED
  BY <1>1

(* ... and of one whose range is not known. *)
LEMMA LenOfFunction ==
  ASSUME NEW k \in Nat, NEW s, s = [i \in 1..k |-> s[i]]
  PROVE  Len(s) = k /\ DOMAIN s = 1..k
<1>1. s \in [1..k -> {s[i] : i \in 1..k}]
  OBVIOUS
<1> QED
  BY <1>1, LenOf

(* The least element of a set of numbers that is not empty. *)
LEMMA LeastOf ==
  ASSUME NEW T, T \subseteq Nat, T # {}
  PROVE  \E x \in T : \A y \in T : x <= y
<1> DEFINE R == {ss \in Nat \X Nat : ss[1] < ss[2]}
<1>1. IsWellFoundedOn(R, Nat)
  BY NatLessThanWellFounded DEF OpToRel
<1>2. \E x \in T : \A y \in T : ~ (<<y, x>> \in R)
  <2> HIDE DEF R
  <2> QED
    BY <1>1, WFMin
<1>3. \A x, y \in Nat : y < x => <<y, x>> \in R
  OBVIOUS
<1> HIDE DEF R
<1>4. PICK x \in T : \A y \in T : ~ (<<y, x>> \in R)
  BY <1>2
<1>5. \A y \in T : ~ (y < x)
  BY <1>3, <1>4
<1>6. \A y \in Nat : ~ (y < x) => x <= y
  BY <1>4
<1> QED
  BY <1>4, <1>5, <1>6

(* The table after the first links of a chain. *)
LinksOf(g, b, table, at, clusters, k) ==
  g = [i \in 0..k |-> IF i = 0 THEN table ELSE Link(b, g[i - 1], at, clusters, i)]

(* The recursive function of ChainCopy is one: by induction over its steps. *)
LEMMA LinksExist ==
  ASSUME NEW b, NEW table, NEW at, NEW clusters, NEW k \in Nat
  PROVE  \E g : LinksOf(g, b, table, at, clusters, k)
<1> DEFINE Bad == {m \in Nat : ~ \E g : LinksOf(g, b, table, at, clusters, m)}
<1>1. SUFFICES ASSUME Bad # {}
               PROVE  FALSE
  OBVIOUS
<1>2. PICK m \in Bad : \A y \in Bad : m <= y
  <2>1. Bad \subseteq Nat
    OBVIOUS
  <2> HIDE DEF Bad
  <2> QED
    BY <1>1, <2>1, LeastOf
<1>3. CASE m = 0
  <2> DEFINE g == [i \in 0..0 |-> table]
  <2>1. LinksOf(g, b, table, at, clusters, 0)
    BY DEF LinksOf
  <2> QED
    BY <1>2, <1>3, <2>1
<1>4. CASE m # 0
  <2>1. m \in Nat /\ m - 1 \in Nat /\ ~ (m <= m - 1)
    BY <1>2, <1>4
  <2>2. PICK g : LinksOf(g, b, table, at, clusters, m - 1)
    BY <1>2, <2>1
  <2> DEFINE h == [i \in 0..m |-> IF i < m THEN g[i] ELSE Link(b, g[m - 1], at, clusters, m)]
  <2>3. \A i \in 0..m - 1 : g[i] = IF i = 0 THEN table ELSE Link(b, g[i - 1], at, clusters, i)
    BY <2>1, <2>2 DEF LinksOf
  <2>4. \A i \in 0..m - 1 : h[i] = g[i]
    BY <2>1
  <2>5. h[m] = Link(b, g[m - 1], at, clusters, m)
    BY <2>1
  <2>6. h = [i \in 0..m |-> h[i]]
    BY <2>1
  <2> HIDE DEF h
  <2>7. \A i \in 0..m : h[i] = IF i = 0 THEN table ELSE Link(b, h[i - 1], at, clusters, i)
    <3> SUFFICES ASSUME NEW i \in 0..m
                 PROVE  h[i] = IF i = 0 THEN table ELSE Link(b, h[i - 1], at, clusters, i)
      OBVIOUS
    <3>1. CASE i = m
      <4>1. h[m - 1] = g[m - 1]
        BY <2>1, <2>4
      <4> QED
        BY <3>1, <1>4, <2>5, <4>1
    <3>2. CASE i # m /\ i = 0
      <4>1. i \in 0..m - 1
        BY <3>2, <2>1
      <4> QED
        BY <3>2, <2>3, <2>4, <4>1
    <3>3. CASE i # m /\ i # 0
      <4>1. i \in 0..m - 1 /\ i - 1 \in 0..m - 1
        BY <3>3, <2>1
      <4>2. h[i] = g[i] /\ h[i - 1] = g[i - 1]
        BY <4>1, <2>4
      <4> QED
        BY <3>3, <2>3, <4>1, <4>2
    <3> QED
      BY <3>1, <3>2, <3>3
  <2>8. LinksOf(h, b, table, at, clusters, m)
    BY <2>6, <2>7 DEF LinksOf
  <2> QED
    BY <1>2, <2>8
<1> QED
  BY <1>3, <1>4

(* ChainCopy is its last value. *)
LEMMA ChainCopyIs ==
  ASSUME NEW b, NEW table, NEW at, NEW clusters, NEW k \in Nat, Len(clusters) = k
  PROVE  \E g : LinksOf(g, b, table, at, clusters, k) /\ ChainCopy(b, table, at, clusters) = g[k]
<1> DEFINE g == CHOOSE g : LinksOf(g, b, table, at, clusters, k)
<1>1. LinksOf(g, b, table, at, clusters, k)
  BY LinksExist
<1>2. ChainCopy(b, table, at, clusters) = g[k]
  BY DEF ChainCopy, LinksOf
<1> QED
  BY <1>1, <1>2

(* The copies of a table: the bytes of the n-th one, and where they lie. *)
View(b, table, n) == [o \in 0..FatBytes(b) - 1 |-> table[n * FatBytes(b) + o]]

TablesOf(b, table) == TableOf(table, b.num_fats * FatBytes(b))

(* A byte of a copy is a byte of the tables. *)
LEMMA CopyFits ==
  ASSUME NEW b \in BootSectors, NEW n \in Nat, n < b.num_fats,
         NEW o \in 0..FatBytes(b) - 1
  PROVE  n * FatBytes(b) + o \in 0..b.num_fats * FatBytes(b) - 1
<1> DEFINE F == FatBytes(b)
<1>1. F \in Nat /\ b.num_fats \in Nat /\ n * F \in Nat /\ b.num_fats * F \in Nat
  BY Volume, ProductIsNat
<1>2. (n + 1) * F <= b.num_fats * F
  BY <1>1, ProductGrows
<1>3. (n + 1) * F = n * F + F
  BY <1>1, SMT
<1> HIDE DEF F
<1>4. o \in Nat /\ o < F
  BY <1>1 DEF F
<1>5. n * F + o \in Nat /\ n * F + o < b.num_fats * F
  BY <1>1, <1>2, <1>3, <1>4
<1> QED
  BY <1>1, <1>5 DEF F

(* The two bytes of an entry, in a copy of the table and from its beginning. *)
LEMMA EntryFits ==
  ASSUME NEW b \in BootSectors, NEW c \in 0..LastCluster(b)
  PROVE  /\ Offset(FatType(b), 0, c) \in 0..FatBytes(b) - 1
         /\ Offset(FatType(b), 0, c) + 1 \in 0..FatBytes(b) - 1
         /\ EntryIn(FatBytes(b), FatType(b), 0, c)
         /\ \A at \in Nat : Offset(FatType(b), at, c) = at + Offset(FatType(b), 0, c)
<1>0. FatType(b) \in {12, 16} /\ FatBytes(b) \in Nat /\ LastCluster(b) \in Nat
  BY Volume
<1>1. c \in Nat /\ c <= LastCluster(b)
  BY <1>0
<1>2. Offset(FatType(b), 0, LastCluster(b)) + 2 <= FatBytes(b)
  BY Volume
<1>3. Offset(FatType(b), 0, c) \in Nat /\ Offset(FatType(b), 0, LastCluster(b)) \in Nat
  BY <1>0, <1>1, OffsetIsNat
<1>4. Offset(FatType(b), 0, c) <= Offset(FatType(b), 0, LastCluster(b))
  <2>1. CASE FatType(b) = 12
    BY <1>0, <1>1, <2>1, SMT DEF Offset
  <2>2. CASE FatType(b) = 16
    BY <1>0, <1>1, <2>2, SMT DEF Offset
  <2> QED
    BY <1>0, <2>1, <2>2
<1>5. \A at \in Nat : Offset(FatType(b), at, c) = at + Offset(FatType(b), 0, c)
  <2>1. CASE FatType(b) = 12
    BY <1>1, <2>1, SMT DEF Offset
  <2>2. CASE FatType(b) = 16
    BY <1>1, <2>2, SMT DEF Offset
  <2> QED
    BY <1>0, <2>1, <2>2
<1>6. Offset(FatType(b), 0, c) + 2 <= FatBytes(b)
  BY <1>0, <1>2, <1>3, <1>4
<1> QED
  BY <1>0, <1>1, <1>3, <1>5, <1>6 DEF EntryIn

(* An entry of a copy lies in the tables. *)
LEMMA EntryInCopy ==
  ASSUME NEW b \in BootSectors, NEW c \in 0..LastCluster(b), NEW n \in Nat, n < b.num_fats
  PROVE  /\ n * FatBytes(b) \in Nat
         /\ EntryIn(b.num_fats * FatBytes(b), FatType(b), n * FatBytes(b), c)
<1> DEFINE o == Offset(FatType(b), 0, c)
<1>0. /\ FatType(b) \in {12, 16} /\ FatBytes(b) \in Nat /\ c \in Nat
      /\ b.num_fats * FatBytes(b) \in Nat /\ n * FatBytes(b) \in Nat
  BY Volume, ProductIsNat
<1>1. Offset(FatType(b), n * FatBytes(b), c) = n * FatBytes(b) + o /\ o \in Nat
  BY <1>0, EntryFits
<1>2. n * FatBytes(b) + (o + 1) \in 0..b.num_fats * FatBytes(b) - 1
  BY EntryFits, CopyFits
<1> HIDE DEF o
<1>3. n * FatBytes(b) + o + 2 <= b.num_fats * FatBytes(b)
  BY <1>0, <1>1, <1>2
<1> QED
  BY <1>0, <1>1, <1>3 DEF EntryIn

(* A copy is a table. *)
LEMMA ViewIsTable ==
  ASSUME NEW b \in BootSectors, NEW table, TablesOf(b, table), NEW n \in Nat, n < b.num_fats
  PROVE  TableOf(View(b, table, n), FatBytes(b))
<1>1. \A o \in 0..FatBytes(b) - 1 : table[n * FatBytes(b) + o] \in Byte
  <2> SUFFICES ASSUME NEW o \in 0..FatBytes(b) - 1
               PROVE  table[n * FatBytes(b) + o] \in Byte
    OBVIOUS
  <2>1. n * FatBytes(b) + o \in 0..b.num_fats * FatBytes(b) - 1
    BY CopyFits
  <2> QED
    BY <2>1 DEF TablesOf, TableOf
<1> QED
  BY <1>1 DEF View, TableOf

(* An entry is read in the view of a copy. *)
LEMMA WordInView ==
  ASSUME NEW b \in BootSectors, NEW table, NEW n \in Nat, n < b.num_fats,
         NEW c \in 0..LastCluster(b)
  PROVE  Word(table, Offset(FatType(b), n * FatBytes(b), c))
           = Word(View(b, table, n), Offset(FatType(b), 0, c))
<1> DEFINE o == Offset(FatType(b), 0, c)
           at == n * FatBytes(b)
<1>1. o \in 0..FatBytes(b) - 1 /\ o + 1 \in 0..FatBytes(b) - 1
  BY EntryFits
<1>2. at \in Nat /\ Offset(FatType(b), at, c) = at + o
  BY EntryFits, EntryInCopy
<1>3. View(b, table, n)[o] = table[at + o] /\ View(b, table, n)[o + 1] = table[at + (o + 1)]
  BY <1>1 DEF View
<1>4. at + (o + 1) = at + o + 1
  BY <1>1, <1>2
<1> QED
  BY <1>2, <1>3, <1>4 DEF Word

(* A write to a copy is a write to its view, and leaves the other copies. *)
LEMMA WriteInCopy ==
  ASSUME NEW b \in BootSectors, NEW table, TablesOf(b, table), NEW n \in Nat, n < b.num_fats,
         NEW c \in 0..LastCluster(b), NEW v \in 0..Eoc(FatType(b)),
         NEW g, g = WriteEntry(table, FatType(b), n * FatBytes(b), c, v)
  PROVE  /\ TablesOf(b, g)
         /\ View(b, g, n) = WriteEntry(View(b, table, n), FatType(b), 0, c, v)
         /\ \A m \in Nat : m < b.num_fats /\ m # n => View(b, g, m) = View(b, table, m)
<1> DEFINE F == FatBytes(b)
           o == Offset(FatType(b), 0, c)
           at == n * F
           word == Pack(FatType(b), Word(table, Offset(FatType(b), at, c)), c, v)
           view == View(b, table, n)
           h == WriteEntry(view, FatType(b), 0, c, v)
<1>0. /\ F \in Nat /\ b.num_fats * F \in Nat /\ at \in Nat
      /\ o \in 0..F - 1 /\ o + 1 \in 0..F - 1
      /\ Offset(FatType(b), at, c) = at + o
  BY Volume, EntryFits, EntryInCopy
<1>1. Stored(g, table, b.num_fats * F, at + o, word)
  <2>1. EntryIn(b.num_fats * F, FatType(b), at, c)
    BY EntryInCopy
  <2> QED
    BY <1>0, <2>1, Written DEF TablesOf
<1>2. Stored(h, view, F, o, word)
  <2>1. EntryIn(F, FatType(b), 0, c) /\ TableOf(view, F)
    BY EntryFits, ViewIsTable
  <2>2. Word(table, Offset(FatType(b), at, c)) = Word(view, o)
    BY WordInView
  <2>3. Stored(h, view, F, o, Pack(FatType(b), Word(view, o), c, v))
    BY <2>1, Written
  <2> QED
    BY <2>2, <2>3
<1> HIDE DEF word, h
<1>3. /\ TableOf(g, b.num_fats * F)
      /\ g[at + o] = word % 256 /\ g[at + o + 1] = word \div 256
      /\ \A p \in 0..b.num_fats * F - 1 : p # at + o /\ p # at + o + 1 => g[p] = table[p]
  BY <1>1 DEF Stored
<1>4. /\ TableOf(h, F)
      /\ h[o] = word % 256 /\ h[o + 1] = word \div 256
      /\ \A p \in 0..F - 1 : p # o /\ p # o + 1 => h[p] = view[p]
  BY <1>2 DEF Stored
<1>5. TablesOf(b, g)
  BY <1>3 DEF TablesOf
<1>6. View(b, g, n) = h
  <2>1. \A p \in 0..F - 1 : g[at + p] = h[p]
    <3> SUFFICES ASSUME NEW p \in 0..F - 1
                 PROVE  g[at + p] = h[p]
      OBVIOUS
    <3>1. at + p \in 0..b.num_fats * F - 1
      BY CopyFits
    <3>2. view[p] = table[at + p]
      BY DEF View
    <3> HIDE DEF F, o, at, view
    <3>3. CASE p = o
      BY <1>3, <1>4, <3>3
    <3>4. CASE p = o + 1
      <4>1. at + p = at + o + 1
        BY <1>0, <3>4
      <4> QED
        BY <1>3, <1>4, <3>4, <4>1
    <3>5. CASE p # o /\ p # o + 1
      <4>1. at + p # at + o /\ at + p # at + o + 1
        BY <1>0, <3>5
      <4> QED
        BY <1>3, <1>4, <3>1, <3>2, <3>5, <4>1
    <3> QED
      BY <3>3, <3>4, <3>5
  <2>2. h = [p \in 0..F - 1 |-> h[p]]
    BY <1>4 DEF TableOf
  <2>3. [p \in 0..F - 1 |-> h[p]] = [p \in 0..F - 1 |-> g[at + p]]
    BY <2>1
  <2> QED
    BY <2>2, <2>3 DEF View
<1>7. \A m \in Nat : m < b.num_fats /\ m # n => View(b, g, m) = View(b, table, m)
  <2> SUFFICES ASSUME NEW m \in Nat, m < b.num_fats, m # n
               PROVE  View(b, g, m) = View(b, table, m)
    OBVIOUS
  <2>1. \A p \in 0..F - 1 : g[m * F + p] = table[m * F + p]
    <3> SUFFICES ASSUME NEW p \in 0..F - 1
                 PROVE  g[m * F + p] = table[m * F + p]
      OBVIOUS
    <3>1. m * F + p \in 0..b.num_fats * F - 1
      BY CopyFits
    <3>2. m * F + p # at + o /\ m * F + p # at + (o + 1)
      <4>1. F \in Nat \ {0} /\ p \in Nat /\ p < F /\ o \in Nat /\ o < F /\ o + 1 \in Nat /\ o + 1 < F
        BY <1>0
      <4> HIDE DEF F, o
      <4> QED
        BY <4>1, Blocks
    <3>3. at + (o + 1) = at + o + 1
      BY <1>0
    <3> HIDE DEF F, o, at
    <3> QED
      BY <1>3, <3>1, <3>2, <3>3
  <2> QED
    BY <2>1 DEF View
<1> QED
  BY <1>5, <1>6, <1>7 DEF h

(* What a copy holds of a cluster. *)
EntryAt(b, table, n, c) == ReadEntry(View(b, table, n), FatType(b), 0, c)

(* The writer, and a driver, read the first copy. *)
LEMMA EntryInFirst ==
  ASSUME NEW b \in BootSectors, NEW table, NEW c \in 0..LastCluster(b)
  PROVE  ReadEntry(table, FatType(b), 0, c) = EntryAt(b, table, 0, c)
<1>1. 0 < b.num_fats /\ 0 * FatBytes(b) = 0
  BY Volume
<1>2. Word(table, Offset(FatType(b), 0, c)) = Word(View(b, table, 0), Offset(FatType(b), 0, c))
  BY <1>1, WordInView
<1> QED
  BY <1>2 DEF ReadEntry, EntryAt

(* Induction up to k, over a set of numbers. *)
LEMMA UpTo ==
  ASSUME NEW k \in Nat, NEW P, 0 \in P, \A i \in 0..k - 1 : i \in P => i + 1 \in P
  PROVE  \A i \in 0..k : i \in P
<1> DEFINE Bad == {i \in 0..k : i \notin P}
<1>1. SUFFICES ASSUME Bad # {}
               PROVE  FALSE
  OBVIOUS
<1>2. PICK m \in Bad : \A y \in Bad : m <= y
  <2>1. Bad \subseteq Nat
    OBVIOUS
  <2> HIDE DEF Bad
  <2> QED
    BY <1>1, <2>1, LeastOf
<1>3. m \in 0..k /\ m \notin P /\ m # 0
  BY <1>2
<1>4. m - 1 \in 0..k - 1 /\ m - 1 \in 0..k /\ ~ (m <= m - 1) /\ (m - 1) + 1 = m
  BY <1>3
<1>5. m - 1 \in P
  BY <1>2, <1>4
<1> QED
  BY <1>3, <1>4, <1>5

(* The value of the i-th link of a chain. *)
LinkTo(b, clusters, i, k) == IF i < k THEN clusters[i + 1] ELSE Eoc(FatType(b))

(* A link is a value an entry can hold, and never the 0 of a free one. *)
LEMMA LinkIs ==
  ASSUME NEW b \in BootSectors, NEW clusters, NEW k, ChainIn(b, clusters, k), NEW i \in 1..k
  PROVE  /\ clusters[i] \in 0..LastCluster(b) /\ clusters[i] \in 2..LastCluster(b)
         /\ LinkTo(b, clusters, i, k) \in 0..Eoc(FatType(b))
         /\ LinkTo(b, clusters, i, k) # 0
         /\ \A table, at : Link(b, table, at, clusters, i)
              = WriteEntry(table, FatType(b), at, clusters[i], LinkTo(b, clusters, i, k))
<1>0. LastCluster(b) \in Nat /\ LastCluster(b) <= Eoc(FatType(b)) /\ k \in Nat
  BY Volume DEF ChainIn
<1>1. clusters[i] \in 2..LastCluster(b)
  BY DEF ChainIn
<1>2. clusters[i] \in 0..LastCluster(b)
  BY <1>0, <1>1
<1>3. Eoc(FatType(b)) \in Nat \ {0}
  BY SMT DEF Eoc
<1>4. LinkTo(b, clusters, i, k) \in 0..Eoc(FatType(b)) /\ LinkTo(b, clusters, i, k) # 0
  <2>1. CASE i < k
    <3>1. i + 1 \in 1..k
      BY <1>0, <2>1
    <3>2. clusters[i + 1] \in 2..LastCluster(b)
      BY <3>1 DEF ChainIn
    <3>3. clusters[i + 1] \in 0..Eoc(FatType(b)) /\ clusters[i + 1] # 0
      BY <1>0, <1>3, <3>2
    <3> QED
      BY <2>1, <3>3 DEF LinkTo
  <2>2. CASE ~ (i < k)
    BY <1>3, <2>2 DEF LinkTo
  <2> QED
    BY <2>1, <2>2
<1>5. \A table, at : Link(b, table, at, clusters, i)
        = WriteEntry(table, FatType(b), at, clusters[i], LinkTo(b, clusters, i, k))
  BY DEF Link, LinkTo, ChainIn
<1> QED
  BY <1>1, <1>2, <1>4, <1>5

(* The steps of a chain. *)
LEMMA LinkStep ==
  ASSUME NEW g, NEW b, NEW table, NEW at, NEW clusters, NEW k \in Nat,
         LinksOf(g, b, table, at, clusters, k)
  PROVE  /\ g[0] = table
         /\ \A i \in 0..k - 1 : g[i + 1] = Link(b, g[i], at, clusters, i + 1)
<1>1. \A i \in 0..k : g[i] = IF i = 0 THEN table ELSE Link(b, g[i - 1], at, clusters, i)
  BY DEF LinksOf
<1>2. \A i \in 0..k - 1 : i + 1 \in 0..k /\ i + 1 # 0 /\ (i + 1) - 1 = i
  OBVIOUS
<1> QED
  BY <1>1, <1>2

(* A chain written into a copy is a chain written into its view. *)
LEMMA ChainInCopy ==
  ASSUME NEW b \in BootSectors, NEW table, TablesOf(b, table), NEW n \in Nat, n < b.num_fats,
         NEW clusters, NEW k, ChainIn(b, clusters, k),
         NEW g, g = ChainCopy(b, table, n * FatBytes(b), clusters)
  PROVE  /\ TablesOf(b, g)
         /\ View(b, g, n) = ChainCopy(b, View(b, table, n), 0, clusters)
         /\ \A m \in Nat : m < b.num_fats /\ m # n => View(b, g, m) = View(b, table, m)
<1> DEFINE at == n * FatBytes(b)
           view == View(b, table, n)
<1>0. k \in Nat /\ k \in 0..k /\ Len(clusters) = k
  BY DEF ChainIn
<1>1. PICK t : LinksOf(t, b, table, at, clusters, k) /\ g = t[k]
  BY <1>0, ChainCopyIs
<1>2. PICK w : LinksOf(w, b, view, 0, clusters, k) /\ ChainCopy(b, view, 0, clusters) = w[k]
  BY <1>0, ChainCopyIs
<1>3. /\ t[0] = table /\ \A i \in 0..k - 1 : t[i + 1] = Link(b, t[i], at, clusters, i + 1)
      /\ w[0] = view /\ \A i \in 0..k - 1 : w[i + 1] = Link(b, w[i], 0, clusters, i + 1)
  BY <1>0, <1>1, <1>2, LinkStep
<1> DEFINE Same(i) == /\ TablesOf(b, t[i])
                      /\ View(b, t[i], n) = w[i]
                      /\ \A m \in Nat : m < b.num_fats /\ m # n =>
                           View(b, t[i], m) = View(b, table, m)
           P == {i \in 0..k : Same(i)}
<1>4. 0 \in P
  BY <1>0, <1>3
<1>5. ASSUME NEW i \in 0..k - 1, Same(i)
      PROVE  Same(i + 1)
  <2>1. i + 1 \in 1..k
    BY <1>0
  <2> DEFINE c == clusters[i + 1]
             v == LinkTo(b, clusters, i + 1, k)
  <2>2. /\ c \in 0..LastCluster(b) /\ v \in 0..Eoc(FatType(b))
        /\ t[i + 1] = WriteEntry(t[i], FatType(b), at, c, v)
        /\ w[i + 1] = WriteEntry(w[i], FatType(b), 0, c, v)
    BY <1>3, <2>1, LinkIs
  <2> HIDE DEF c, v
  <2>3. TablesOf(b, t[i]) /\ View(b, t[i], n) = w[i]
    BY <1>5
  <2>4. /\ TablesOf(b, t[i + 1])
        /\ View(b, t[i + 1], n) = WriteEntry(View(b, t[i], n), FatType(b), 0, c, v)
        /\ \A m \in Nat : m < b.num_fats /\ m # n =>
             View(b, t[i + 1], m) = View(b, t[i], m)
    BY <2>2, <2>3, WriteInCopy
  <2> QED
    BY <1>5, <2>2, <2>3, <2>4
<1>6. \A i \in 0..k : i \in P
  <2>1. \A i \in 0..k - 1 : i \in P => i + 1 \in P
    <3>1. \A i \in 0..k - 1 : i + 1 \in 0..k
      BY <1>0
    <3> HIDE DEF Same
    <3> QED
      BY <1>5, <3>1
  <2> HIDE DEF P
  <2> QED
    BY <1>0, <1>4, <2>1, UpTo
<1>7. Same(k)
  BY <1>0, <1>6
<1> QED
  BY <1>1, <1>2, <1>7

(* The entries of a table after a chain: its own, and the others, as they were. *)
LEMMA ChainRead ==
  ASSUME NEW b \in BootSectors, NEW table, TableOf(table, FatBytes(b)),
         NEW clusters, NEW k, ChainIn(b, clusters, k),
         \A i, j \in 1..k : clusters[i] = clusters[j] => i = j,
         NEW g, g = ChainCopy(b, table, 0, clusters)
  PROVE  /\ TableOf(g, FatBytes(b))
         /\ \A i \in 1..k :
              ReadEntry(g, FatType(b), 0, clusters[i]) = LinkTo(b, clusters, i, k)
         /\ \A c \in 0..LastCluster(b) : (\A i \in 1..k : clusters[i] # c) =>
              ReadEntry(g, FatType(b), 0, c) = ReadEntry(table, FatType(b), 0, c)
<1>0. k \in Nat /\ k \in 0..k /\ Len(clusters) = k
  BY DEF ChainIn
<1>1. PICK t : LinksOf(t, b, table, 0, clusters, k) /\ g = t[k]
  BY <1>0, ChainCopyIs
<1>2. t[0] = table /\ \A i \in 0..k - 1 : t[i + 1] = Link(b, t[i], 0, clusters, i + 1)
  BY <1>0, <1>1, LinkStep
<1> DEFINE Entry(i, c) == ReadEntry(t[i], FatType(b), 0, c)
           Old(c) == ReadEntry(table, FatType(b), 0, c)
           Right(i) ==
             /\ TableOf(t[i], FatBytes(b))
             /\ \A j \in 1..i : Entry(i, clusters[j]) = LinkTo(b, clusters, j, k)
             /\ \A c \in 0..LastCluster(b) :
                  (\A j \in 1..i : clusters[j] # c) => Entry(i, c) = Old(c)
           P == {i \in 0..k : Right(i)}
<1>3. 0 \in P
  BY <1>0, <1>2
<1>4. ASSUME NEW i \in 0..k - 1, Right(i)
      PROVE  Right(i + 1)
  <2>0. i \in Nat /\ i + 1 \in 1..k
    BY <1>0
  <2> DEFINE c == clusters[i + 1]
             v == LinkTo(b, clusters, i + 1, k)
  <2>1. /\ c \in 0..LastCluster(b) /\ v \in 0..Eoc(FatType(b))
        /\ t[i + 1] = WriteEntry(t[i], FatType(b), 0, c, v)
    BY <1>2, <2>0, LinkIs
  <2>2. EntryIn(FatBytes(b), FatType(b), 0, c) /\ TableOf(t[i], FatBytes(b))
    BY <1>4, <2>1, EntryFits
  <2>3. TableOf(t[i + 1], FatBytes(b))
    BY <2>1, <2>2, Written DEF Stored
  <2>4. Entry(i + 1, c) = v
    BY <2>1, <2>2, ReadsBack
  <2>5. \A d \in 0..LastCluster(b) : d # c => Entry(i + 1, d) = Entry(i, d)
    <3> SUFFICES ASSUME NEW d \in 0..LastCluster(b), d # c
                 PROVE  Entry(i + 1, d) = Entry(i, d)
      OBVIOUS
    <3>1. EntryIn(FatBytes(b), FatType(b), 0, d)
      BY EntryFits
    <3> HIDE DEF c, v
    <3> QED
      BY <2>1, <2>2, <3>1, OthersKept
  <2> HIDE DEF Entry, Old
  <2>6. \A j \in 1..i + 1 : Entry(i + 1, clusters[j]) = LinkTo(b, clusters, j, k)
    <3> SUFFICES ASSUME NEW j \in 1..i + 1
                 PROVE  Entry(i + 1, clusters[j]) = LinkTo(b, clusters, j, k)
      OBVIOUS
    <3>1. CASE j = i + 1
      BY <2>4, <3>1
    <3>2. CASE j # i + 1
      <4>1. j \in 1..i /\ j \in 1..k
        BY <1>0, <2>0, <3>2
      <4>2. clusters[j] # c /\ clusters[j] \in 0..LastCluster(b)
        BY <2>0, <3>2, <4>1, LinkIs
      <4>3. Entry(i, clusters[j]) = LinkTo(b, clusters, j, k)
        BY <1>4, <4>1
      <4> QED
        BY <2>5, <4>2, <4>3
    <3> QED
      BY <3>1, <3>2
  <2>7. \A d \in 0..LastCluster(b) :
          (\A j \in 1..i + 1 : clusters[j] # d) => Entry(i + 1, d) = Old(d)
    <3> SUFFICES ASSUME NEW d \in 0..LastCluster(b), \A j \in 1..i + 1 : clusters[j] # d
                 PROVE  Entry(i + 1, d) = Old(d)
      OBVIOUS
    <3>1. i + 1 \in 1..i + 1 /\ \A j \in 1..i : j \in 1..i + 1
      BY <2>0
    <3>2. d # c /\ \A j \in 1..i : clusters[j] # d
      BY <3>1
    <3>3. Entry(i, d) = Old(d)
      BY <1>4, <3>2
    <3>4. Entry(i + 1, d) = Entry(i, d)
      BY <2>5, <3>2
    <3> QED
      BY <3>3, <3>4
  <2> QED
    BY <2>3, <2>6, <2>7
<1>5. \A i \in 0..k : i \in P
  <2>1. \A i \in 0..k - 1 : i \in P => i + 1 \in P
    <3>1. \A i \in 0..k - 1 : i + 1 \in 0..k
      BY <1>0
    <3> HIDE DEF Right
    <3> QED
      BY <1>4, <3>1
  <2> HIDE DEF P
  <2> QED
    BY <1>0, <1>3, <2>1, UpTo
<1>6. Right(k)
  BY <1>0, <1>5
<1> QED
  BY <1>1, <1>6

-----------------------------------------------------------------------------
(* A chain in all copies *)

(* The tables after the chain went into the first copies. *)
CopiesOf(g, b, table, clusters, k) ==
  g = [n \in 0..k |->
         IF n = 0 THEN table ELSE ChainCopy(b, g[n - 1], (n - 1) * FatBytes(b), clusters)]

(* The recursive function of UpdateChain is one: by induction over its steps. *)
LEMMA CopiesExist ==
  ASSUME NEW b, NEW table, NEW clusters, NEW k \in Nat
  PROVE  \E g : CopiesOf(g, b, table, clusters, k)
<1> DEFINE P == {m \in 0..k : \E g : CopiesOf(g, b, table, clusters, m)}
<1>1. 0 \in P
  <2> DEFINE g == [i \in 0..0 |-> table]
  <2>1. CopiesOf(g, b, table, clusters, 0)
    BY DEF CopiesOf
  <2> QED
    BY <2>1
<1>2. ASSUME NEW m \in 0..k - 1, m \in P
      PROVE  m + 1 \in P
  <2>1. m \in Nat /\ m + 1 \in 0..k
    OBVIOUS
  <2>2. PICK g : CopiesOf(g, b, table, clusters, m)
    BY <1>2
  <2> DEFINE top == ChainCopy(b, g[m], m * FatBytes(b), clusters)
             h == [i \in 0..m + 1 |-> IF i < m + 1 THEN g[i] ELSE top]
  <2>3. \A i \in 0..m : g[i] = IF i = 0 THEN table
                               ELSE ChainCopy(b, g[i - 1], (i - 1) * FatBytes(b), clusters)
    BY <2>1, <2>2 DEF CopiesOf
  <2>4. \A i \in 0..m : h[i] = g[i]
    BY <2>1
  <2>5. h[m + 1] = top /\ h = [i \in 0..m + 1 |-> h[i]]
    BY <2>1
  <2> HIDE DEF h
  <2>6. \A i \in 0..m + 1 : h[i] = IF i = 0 THEN table
                                   ELSE ChainCopy(b, h[i - 1], (i - 1) * FatBytes(b), clusters)
    <3> SUFFICES ASSUME NEW i \in 0..m + 1
                 PROVE  h[i] = IF i = 0 THEN table
                               ELSE ChainCopy(b, h[i - 1], (i - 1) * FatBytes(b), clusters)
      OBVIOUS
    <3>1. CASE i = m + 1
      <4>1. i # 0 /\ i - 1 = m /\ h[m] = g[m]
        BY <2>1, <2>4, <3>1
      <4> QED
        BY <3>1, <2>5, <4>1
    <3>2. CASE i = 0
      BY <3>2, <2>1, <2>3, <2>4
    <3>3. CASE i # m + 1 /\ i # 0
      <4>1. i \in 0..m /\ i - 1 \in 0..m
        BY <3>3, <2>1
      <4>2. h[i] = g[i] /\ h[i - 1] = g[i - 1]
        BY <4>1, <2>4
      <4> QED
        BY <3>3, <2>3, <4>1, <4>2
    <3> QED
      BY <3>1, <3>2, <3>3
  <2>7. CopiesOf(h, b, table, clusters, m + 1)
    BY <2>5, <2>6 DEF CopiesOf
  <2> QED
    BY <2>1, <2>7
<1>3. \A m \in 0..k : m \in P
  <2>1. \A m \in 0..k - 1 : m \in P => m + 1 \in P
    BY <1>2
  <2> HIDE DEF P
  <2> QED
    BY <1>1, <2>1, UpTo
<1>4. k \in 0..k
  OBVIOUS
<1> QED
  BY <1>3, <1>4

(* UpdateChain is its last value. *)
LEMMA UpdateChainIs ==
  ASSUME NEW b \in BootSectors, NEW table, NEW clusters
  PROVE  \E g : /\ CopiesOf(g, b, table, clusters, b.num_fats)
                /\ UpdateChain(b, table, clusters) = g[b.num_fats]
<1> DEFINE g == CHOOSE g : CopiesOf(g, b, table, clusters, b.num_fats)
<1>1. CopiesOf(g, b, table, clusters, b.num_fats)
  BY Volume, CopiesExist
<1>2. UpdateChain(b, table, clusters) = g[b.num_fats]
  BY DEF UpdateChain, CopiesOf
<1> QED
  BY <1>1, <1>2

(* Every copy gets the chain. *)
LEMMA ChainInAll ==
  ASSUME NEW b \in BootSectors, NEW table, TablesOf(b, table),
         NEW clusters, NEW k, ChainIn(b, clusters, k),
         NEW g, g = UpdateChain(b, table, clusters)
  PROVE  /\ TablesOf(b, g)
         /\ \A n \in 0..b.num_fats - 1 :
              View(b, g, n) = ChainCopy(b, View(b, table, n), 0, clusters)
<1> DEFINE N == b.num_fats
           Chained(n) == ChainCopy(b, View(b, table, n), 0, clusters)
<1>0. N \in Nat /\ N \in 0..N
  BY Volume
<1>1. PICK t : CopiesOf(t, b, table, clusters, N) /\ g = t[N]
  BY UpdateChainIs
<1>2. /\ t[0] = table
      /\ \A n \in 0..N - 1 : t[n + 1] = ChainCopy(b, t[n], n * FatBytes(b), clusters)
  <2>1. \A n \in 0..N : t[n] = IF n = 0 THEN table
                               ELSE ChainCopy(b, t[n - 1], (n - 1) * FatBytes(b), clusters)
    BY <1>1 DEF CopiesOf
  <2>2. \A n \in 0..N - 1 : n + 1 \in 0..N /\ n + 1 # 0 /\ (n + 1) - 1 = n
    BY <1>0
  <2>3. 0 \in 0..N
    BY <1>0
  <2> HIDE DEF N
  <2> QED
    BY <2>1, <2>2, <2>3
<1> DEFINE Right(i) ==
             /\ TablesOf(b, t[i])
             /\ \A n \in 0..N - 1 :
                  View(b, t[i], n) = IF n < i THEN Chained(n) ELSE View(b, table, n)
           P == {i \in 0..N : Right(i)}
<1>3. 0 \in P
  BY <1>0, <1>2
<1>4. ASSUME NEW i \in 0..N - 1, Right(i)
      PROVE  Right(i + 1)
  <2>0. i \in Nat /\ i < b.num_fats
    BY <1>0
  <2>1. TablesOf(b, t[i]) /\ View(b, t[i], i) = View(b, table, i)
    BY <1>4, <2>0
  <2>2. t[i + 1] = ChainCopy(b, t[i], i * FatBytes(b), clusters)
    BY <1>2
  <2>3. /\ TablesOf(b, t[i + 1])
        /\ View(b, t[i + 1], i) = ChainCopy(b, View(b, t[i], i), 0, clusters)
        /\ \A m \in Nat : m < b.num_fats /\ m # i => View(b, t[i + 1], m) = View(b, t[i], m)
    BY <2>0, <2>1, <2>2, ChainInCopy
  <2>4. \A n \in 0..N - 1 :
          View(b, t[i + 1], n) = IF n < i + 1 THEN Chained(n) ELSE View(b, table, n)
    <3> SUFFICES ASSUME NEW n \in 0..N - 1
                 PROVE  View(b, t[i + 1], n) = IF n < i + 1 THEN Chained(n) ELSE View(b, table, n)
      OBVIOUS
    <3>1. n \in Nat /\ n < b.num_fats
      BY <1>0
    <3>2. CASE n = i
      <4>1. n < i + 1
        BY <2>0, <3>2
      <4> QED
        BY <2>1, <2>3, <3>2, <4>1
    <3>3. CASE n # i
      <4>1. (n < i + 1) = (n < i)
        BY <2>0, <3>1, <3>3
      <4>2. View(b, t[i + 1], n) = View(b, t[i], n)
        BY <2>3, <3>1, <3>3
      <4>3. View(b, t[i], n) = IF n < i THEN Chained(n) ELSE View(b, table, n)
        BY <1>4
      <4> HIDE DEF Chained
      <4> QED
        BY <4>1, <4>2, <4>3
    <3> QED
      BY <3>2, <3>3
  <2> QED
    BY <2>3, <2>4
<1>5. \A i \in 0..N : i \in P
  <2>1. \A i \in 0..N - 1 : i \in P => i + 1 \in P
    <3>1. \A i \in 0..N - 1 : i + 1 \in 0..N
      BY <1>0
    <3> HIDE DEF Right
    <3> QED
      BY <1>4, <3>1
  <2> HIDE DEF P, N
  <2> QED
    BY <1>0, <1>3, <2>1, UpTo
<1>6. Right(N)
  BY <1>0, <1>5
<1>7. \A n \in 0..N - 1 : n < N
  BY <1>0
<1> HIDE DEF Chained
<1> QED
  BY <1>1, <1>6, <1>7 DEF Chained

-----------------------------------------------------------------------------
(* The copies agree *)

(* What the search for free clusters finds. *)
FreeOf(b, table) == {c \in 2..SearchEnd(b) - 1 : ReadEntry(table, FatType(b), 0, c) = 0}

(* FindFreeClusters gives the lowest free clusters, as many as asked for or as there are. *)
LEMMA FreeFound ==
  ASSUME NEW b \in BootSectors, NEW table, NEW count \in Nat,
         NEW s \in FindFreeClusters(b, table, count)
  PROVE  \E k \in Nat :
           /\ k = Least(Greatest(count, 1), Cardinality(FreeOf(b, table)))
           /\ s \in [1..k -> FreeOf(b, table)] /\ Len(s) = k /\ DOMAIN s = 1..k
           /\ \A i, j \in 1..k : i < j => s[i] < s[j]
           /\ \A c \in FreeOf(b, table) :
                (\E i \in 1..k : s[i] = c) \/ (\A i \in 1..k : s[i] < c)
<1> DEFINE Free == FreeOf(b, table)
           k == Least(Greatest(count, 1), Cardinality(Free))
<1>1. IsFiniteSet(Free) /\ Cardinality(Free) \in Nat
  <2>1. IsFiniteSet(2..SearchEnd(b) - 1)
    BY Volume, FS_Interval
  <2>2. Free \subseteq 2..SearchEnd(b) - 1
    BY DEF FreeOf
  <2> HIDE DEF Free
  <2> QED
    BY <2>1, <2>2, FS_Subset, FS_CardinalityType
<1>2. k \in Nat
  BY <1>1 DEF Least, Greatest
<1>3. /\ s \in [1..k -> Free]
      /\ \A i, j \in 1..k : i < j => s[i] < s[j]
      /\ \A c \in Free : (\E i \in 1..k : s[i] = c) \/ (\A i \in 1..k : s[i] < c)
  BY DEF FindFreeClusters, FreeOf
<1> HIDE DEF k, Free
<1>4. Len(s) = k /\ DOMAIN s = 1..k
  BY <1>2, <1>3, LenOf
<1> QED
  BY <1>2, <1>3, <1>4 DEF k, Free

(* What the state keeps of the volume, and its tables as long as no write was
   given clusters past the end. *)
VolumeInv ==
  /\ boot \in BootSectors
  /\ overrun \in BOOLEAN
  /\ dir = [j \in 1..boot.root_entries |-> dir[j]]

TablesInv ==
  ~overrun => /\ TablesOf(boot, fat)
              /\ \A n \in 0..boot.num_fats - 1 : View(boot, fat, n) = View(boot, fat, 0)

(* The lengths of files. *)
LEMMA FileLens ==
  /\ \A f \in Files : f.len \in Nat
  /\ OldFile.len \in Nat
<1>1. \A f \in Files \cup {OldFile} : f.len \in Nat
  BY FilesAssumption
<1> QED
  BY <1>1

(* How many clusters a file needs, and how many it takes. *)
LEMMA NeedIsNat ==
  ASSUME NEW b \in BootSectors, NEW len \in Nat
  PROVE  /\ ClustersNeeded(b, len) \in Nat
         /\ Greatest(ClustersNeeded(b, len), 1) \in Nat \ {0}
<1>1. ClustersNeeded(b, len) \in Nat
  BY Volume, CeilIsNat DEF ClustersNeeded
<1> QED
  BY <1>1 DEF Greatest

(* A sequence of no elements. *)
LEMMA NoneIsEmpty ==
  ASSUME NEW S, NEW s \in [1..0 -> S]
  PROVE  s = <<>>
<1>1. s \in Seq(S) /\ Len(s) = 0
  BY LenOf
<1> QED
  BY <1>1

(* A write within the volume has a chain of clusters that are free. *)
LEMMA Allotted ==
  ASSUME VolumeInv, NEW f \in Files,
         NEW free \in FindFreeClusters(boot, fat, ClustersNeeded(boot, f.len)),
         Len(free) >= ClustersNeeded(boot, f.len), free # <<>>,
         Store(f, free), ~ overrun'
  PROVE  /\ ~ overrun
         /\ ChainIn(boot, free, Greatest(ClustersNeeded(boot, f.len), 1))
         /\ \A i \in 1..Len(free) : ReadEntry(fat, FatType(boot), 0, free[i]) = 0
         /\ \A i, j \in 1..Len(free) : free[i] = free[j] => i = j
<1> DEFINE need == ClustersNeeded(boot, f.len)
           Free == FreeOf(boot, fat)
<1>0. boot \in BootSectors /\ overrun \in BOOLEAN /\ f.len \in Nat
  BY FileLens DEF VolumeInv
<1>1. need \in Nat /\ Greatest(need, 1) \in Nat \ {0}
  BY <1>0, NeedIsNat
<1>2. PICK k \in Nat :
        /\ k = Least(Greatest(need, 1), Cardinality(Free))
        /\ free \in [1..k -> Free] /\ Len(free) = k /\ DOMAIN free = 1..k
        /\ \A i, j \in 1..k : i < j => free[i] < free[j]
  BY <1>0, <1>1, FreeFound
<1>3. ~ overrun /\ \A i \in 1..k : ~ (free[i] > LastCluster(boot))
  BY <1>0, <1>2 DEF Store
<1> HIDE DEF need
<1>4. k = Greatest(need, 1) /\ k \in Nat \ {0}
  <2>1. k # 0
    BY <1>2, NoneIsEmpty
  <2>2. k >= need
    BY <1>2 DEF need
  <2>3. k <= Greatest(need, 1)
    <3>1. Cardinality(Free) \in Nat
      <4>1. IsFiniteSet(2..SearchEnd(boot) - 1)
        BY <1>0, Volume, FS_Interval
      <4>2. Free \subseteq 2..SearchEnd(boot) - 1
        BY DEF FreeOf
      <4> HIDE DEF Free
      <4> QED
        BY <4>1, <4>2, FS_Subset, FS_CardinalityType
    <3> QED
      BY <1>1, <1>2, <3>1 DEF Least
  <2> QED
    BY <1>1, <1>2, <2>1, <2>2, <2>3 DEF Greatest
<1>5. /\ Free \subseteq Nat
      /\ \A c \in Free : c >= 2 /\ ReadEntry(fat, FatType(boot), 0, c) = 0
  <2>1. SearchEnd(boot) \in Nat
    BY <1>0, Volume
  <2> QED
    BY <2>1 DEF FreeOf
<1>6. LastCluster(boot) \in Nat
  BY <1>0, Volume
<1> HIDE DEF Free
<1>7. \A i \in 1..k : free[i] \in Free /\ free[i] \in 2..LastCluster(boot)
  <2> SUFFICES ASSUME NEW i \in 1..k
               PROVE  free[i] \in Free /\ free[i] \in 2..LastCluster(boot)
    OBVIOUS
  <2>1. free[i] \in Free /\ ~ (free[i] > LastCluster(boot))
    BY <1>2, <1>3
  <2>2. free[i] \in Nat /\ free[i] >= 2
    BY <1>5, <2>1
  <2> QED
    BY <1>6, <2>1, <2>2
<1>8. free \in [1..k -> 2..LastCluster(boot)]
  <2>1. free = [i \in 1..k |-> free[i]]
    BY <1>2
  <2> QED
    BY <1>7, <2>1
<1>9. \A i, j \in 1..k : free[i] = free[j] => i = j
  <2> SUFFICES ASSUME NEW i \in 1..k, NEW j \in 1..k, free[i] = free[j], i # j
               PROVE  FALSE
    OBVIOUS
  <2>1. free[i] \in Nat /\ free[j] \in Nat
    BY <1>5, <1>7
  <2>2. i < j \/ j < i
    BY <1>2
  <2> QED
    BY <1>2, <2>1, <2>2
<1> QED
  BY <1>2, <1>3, <1>4, <1>5, <1>7, <1>8, <1>9 DEF ChainIn, need

(* The tables of a new image ... *)
Zeros(b) == [o \in 0..FatBytes(b) - 1 |-> 0]

(* ... are zeros ... *)
LEMMA ZerosTable ==
  ASSUME NEW b \in BootSectors
  PROVE  TableOf(Zeros(b), FatBytes(b))
BY Volume DEF Zeros, TableOf, Byte

(* ... in every copy. *)
LEMMA FormattedViews ==
  ASSUME NEW b \in BootSectors
  PROVE  /\ TablesOf(b, Formatted(b))
         /\ \A n \in 0..b.num_fats - 1 : View(b, Formatted(b), n) = Zeros(b)
<1>1. TablesOf(b, Formatted(b))
  BY Volume DEF TablesOf, TableOf, Formatted, Byte
<1>2. ASSUME NEW n \in 0..b.num_fats - 1
      PROVE  View(b, Formatted(b), n) = Zeros(b)
  <2>1. n \in Nat /\ n < b.num_fats
    BY Volume
  <2>2. \A o \in 0..FatBytes(b) - 1 : Formatted(b)[n * FatBytes(b) + o] = 0
    BY <2>1, CopyFits DEF Formatted
  <2> QED
    BY <2>2 DEF View, Zeros
<1> QED
  BY <1>1, <1>2

(* ... and of one with a file on it: each copy has its chain. *)
LEMMA OldViews ==
  ASSUME NEW b \in BootSectors, NEW chain, NEW k, ChainIn(b, chain, k)
  PROVE  /\ TablesOf(b, OldTables(b, chain))
         /\ \A n \in 0..b.num_fats - 1 :
              View(b, OldTables(b, chain), n) = ChainCopy(b, Zeros(b), 0, chain)
<1> DEFINE F == FatBytes(b)
           N == b.num_fats
           copy == ChainCopy(b, Zeros(b), 0, chain)
           T == OldTables(b, chain)
<1>0. F \in Nat \ {0} /\ N \in Nat /\ N * F \in Nat
  <2>1. 0 \in 0..LastCluster(b)
    BY Volume
  <2>2. Offset(FatType(b), 0, 0) \in 0..F - 1
    BY <2>1, EntryFits
  <2> QED
    BY <2>2, Volume
<1>1. TableOf(copy, F)
  <2>1. 0 < N /\ 0 \in Nat /\ 0 * F = 0
    BY <1>0, Volume
  <2>2. TablesOf(b, Formatted(b)) /\ View(b, Formatted(b), 0) = Zeros(b)
    BY <2>1, <1>0, FormattedViews
  <2> DEFINE g == ChainCopy(b, Formatted(b), 0, chain)
  <2>3. TablesOf(b, g) /\ View(b, g, 0) = copy
    BY <2>1, <2>2, ChainInCopy
  <2> HIDE DEF g
  <2> QED
    BY <2>1, <2>3, ViewIsTable
<1>2. T = [o \in 0..N * F - 1 |-> copy[o % F]]
  BY DEF OldTables, Zeros
<1> HIDE DEF copy, T, F, N
<1>3. TablesOf(b, T)
  <2>1. \A o \in 0..N * F - 1 : o % F \in 0..F - 1
    <3> SUFFICES ASSUME NEW o \in 0..N * F - 1
                 PROVE  o % F \in 0..F - 1
      OBVIOUS
    <3>1. o \in Nat
      BY <1>0
    <3> QED
      BY <3>1, <1>0, SMT
  <2>2. \A o \in 0..N * F - 1 : copy[o % F] \in Byte
    BY <1>1, <2>1 DEF TableOf
  <2>3. T \in [0..N * F - 1 -> Byte]
    BY <1>2, <2>2
  <2> QED
    BY <2>3 DEF TablesOf, TableOf, N, F
<1>4. ASSUME NEW n \in 0..N - 1
      PROVE  View(b, T, n) = copy
  <2>1. n \in Nat /\ n < N
    BY <1>0
  <2>2. \A o \in 0..F - 1 : T[n * F + o] = copy[o]
    <3> SUFFICES ASSUME NEW o \in 0..F - 1
                 PROVE  T[n * F + o] = copy[o]
      OBVIOUS
    <3>1. n * F + o \in 0..N * F - 1
      BY <2>1, CopyFits DEF N, F
    <3>2. o \in Nat /\ o < F
      BY <1>0
    <3>3. (n * F + o) % F = o
      BY <1>0, <2>1, <3>2, RemainderOf
    <3> QED
      BY <1>2, <3>1, <3>3
  <2>3. copy = [o \in 0..F - 1 |-> copy[o]]
    BY <1>1 DEF TableOf
  <2>4. [o \in 0..F - 1 |-> copy[o]] = [o \in 0..F - 1 |-> T[n * F + o]]
    BY <2>2
  <2> QED
    BY <2>3, <2>4 DEF View, F
<1> QED
  BY <1>3, <1>4 DEF copy, T, N

(* The actions, and what each leaves alone. *)
Refused(f, free) ==
  /\ \/ FreeRuns(dir, Len(f.chunks) + 1) = {}
     \/ Len(free) < ClustersNeeded(boot, f.len)
     \/ free = <<>>
  /\ last'.file = f /\ last'.result # "written"
  /\ UNCHANGED <<boot, fat, dir, data, written, overrun>>

Stores(f, free) ==
  /\ FreeRuns(dir, Len(f.chunks) + 1) # {}
  /\ Len(free) >= ClustersNeeded(boot, f.len) /\ free # <<>>
  /\ Store(f, free)

(* A step is a refusal or a write. *)
LEMMA Cases ==
  ASSUME Next
  PROVE  \E f \in Files :
           /\ \A g \in written : g.name # f.name
           /\ \E free \in FindFreeClusters(boot, fat, ClustersNeeded(boot, f.len)) :
                Refused(f, free) \/ Stores(f, free)
<1>1. PICK f \in Files : (\A g \in written : g.name # f.name) /\ WriteFile(f)
  BY DEF Next
<1>2. PICK free \in FindFreeClusters(boot, fat, ClustersNeeded(boot, f.len)) :
        \/ FreeRuns(dir, Len(f.chunks) + 1) = {} /\ Refuse(f, "no directory entries")
        \/ Len(free) < ClustersNeeded(boot, f.len) /\ Refuse(f, "not enough space")
        \/ free = <<>> /\ Refuse(f, "IndexError")
        \/ Stores(f, free)
  BY <1>1, Zenon DEF WriteFile, Stores
<1>3. ASSUME NEW r, Refuse(f, r), r # "written"
      PROVE  /\ last'.file = f /\ last'.result # "written"
             /\ UNCHANGED <<boot, fat, dir, data, written, overrun>>
  BY <1>3 DEF Refuse, Note
<1>4. Refused(f, free) \/ Stores(f, free)
  BY <1>2, <1>3 DEF Refused
<1> QED
  BY <1>1, <1>4

(* The volume is as it should be at first ... *)
LEMMA VolumeInit == Init => VolumeInv
BY DEF Init, VolumeInv, OldDir

(* ... and after every step: a write keeps the length of the directory. *)
LEMMA VolumeStep == VolumeInv /\ [Next]_vars => VolumeInv'
<1> SUFFICES ASSUME VolumeInv, [Next]_vars
             PROVE  VolumeInv'
  OBVIOUS
<1>1. CASE UNCHANGED vars
  BY <1>1 DEF vars, VolumeInv
<1>2. CASE Next
  <2>1. PICK f \in Files :
          \/ UNCHANGED <<boot, fat, dir, data, written, overrun>>
          \/ \E free \in FindFreeClusters(boot, fat, ClustersNeeded(boot, f.len)) : Store(f, free)
    BY <1>2, Cases DEF Refused, Stores
  <2>2. CASE UNCHANGED <<boot, fat, dir, data, written, overrun>>
    BY <2>2 DEF VolumeInv
  <2>3. ASSUME NEW free, Store(f, free)
        PROVE  VolumeInv'
    <3>1. boot' = boot
      BY <2>3 DEF Store
    <3>2. overrun' \in BOOLEAN
      BY <2>3 DEF Store, VolumeInv
    <3>3. dir' = [j \in 1..boot'.root_entries |-> dir'[j]]
      <4>1. boot.root_entries \in Nat
        BY Volume DEF VolumeInv
      <4>2. Len(dir) = boot.root_entries
        BY <4>1, LenOfFunction DEF VolumeInv
      <4> QED
        BY <2>3, <3>1, <4>2 DEF Store, PutEntries
    <3> QED
      BY <3>1, <3>2, <3>3 DEF VolumeInv
  <2> QED
    BY <2>1, <2>2, <2>3
<1> QED
  BY <1>1, <1>2

(* The tables are bytes and their copies agree at first ... *)
LEMMA TablesInit == Init => TablesInv
<1> SUFFICES ASSUME Init
             PROVE  TablesInv
  OBVIOUS
<1>0. boot \in BootSectors /\ 0 \in 0..boot.num_fats - 1
  BY Volume DEF Init
<1>1. CASE fat = Formatted(boot)
  BY <1>0, <1>1, FormattedViews DEF TablesInv
<1>2. CASE \E chain \in [1..Greatest(ClustersNeeded(boot, OldFile.len), 1) -> 2..LastCluster(boot)] :
             fat = OldTables(boot, chain)
  <2>1. PICK chain \in [1..Greatest(ClustersNeeded(boot, OldFile.len), 1) -> 2..LastCluster(boot)] :
             fat = OldTables(boot, chain)
    BY <1>2
  <2> DEFINE k == Greatest(ClustersNeeded(boot, OldFile.len), 1)
  <2>2. k \in Nat \ {0}
    BY <1>0, FileLens, NeedIsNat
  <2> HIDE DEF k
  <2>3. ChainIn(boot, chain, k)
    BY <2>1, <2>2, LenOf DEF ChainIn, k
  <2> QED
    BY <1>0, <2>1, <2>3, OldViews DEF TablesInv
<1> QED
  BY <1>1, <1>2, Zenon DEF Init

(* ... and after every step: the chain goes into each copy, in the same way. *)
LEMMA TablesStep == VolumeInv /\ TablesInv /\ [Next]_vars => TablesInv'
<1> SUFFICES ASSUME VolumeInv, TablesInv, [Next]_vars
             PROVE  TablesInv'
  OBVIOUS
<1>1. CASE UNCHANGED vars
  BY <1>1 DEF vars, TablesInv
<1>2. CASE Next
  <2>1. PICK f \in Files :
          \/ UNCHANGED <<boot, fat, dir, data, written, overrun>>
          \/ \E free \in FindFreeClusters(boot, fat, ClustersNeeded(boot, f.len)) :
                /\ Len(free) >= ClustersNeeded(boot, f.len) /\ free # <<>>
                /\ Store(f, free)
    BY <1>2, Cases DEF Refused, Stores
  <2>2. CASE UNCHANGED <<boot, fat, dir, data, written, overrun>>
    BY <2>2 DEF TablesInv
  <2>3. ASSUME NEW free \in FindFreeClusters(boot, fat, ClustersNeeded(boot, f.len)),
               Len(free) >= ClustersNeeded(boot, f.len), free # <<>>,
               Store(f, free), ~ overrun'
        PROVE  /\ TablesOf(boot', fat')
               /\ \A n \in 0..boot'.num_fats - 1 : View(boot', fat', n) = View(boot', fat', 0)
    <3>1. ~ overrun /\ ChainIn(boot, free, Greatest(ClustersNeeded(boot, f.len), 1))
      BY <2>3, Allotted
    <3>2. boot \in BootSectors /\ boot' = boot /\ fat' = UpdateChain(boot, fat, free)
      BY <2>3 DEF VolumeInv, Store
    <3>3. TablesOf(boot, fat) /\ \A n \in 0..boot.num_fats - 1 : View(boot, fat, n) = View(boot, fat, 0)
      BY <3>1 DEF TablesInv
    <3>4. PICK g : g = fat'
      OBVIOUS
    <3>5. /\ TablesOf(boot, g)
          /\ \A n \in 0..boot.num_fats - 1 :
               View(boot, g, n) = ChainCopy(boot, View(boot, fat, n), 0, free)
      BY <3>1, <3>2, <3>3, <3>4, ChainInAll
    <3>6. 0 \in 0..boot.num_fats - 1
      BY <3>2, Volume
    <3>7. \A n \in 0..boot.num_fats - 1 : View(boot, g, n) = View(boot, g, 0)
      BY <3>3, <3>5, <3>6
    <3> QED
      BY <3>2, <3>4, <3>5, <3>7
  <2> QED
    BY <2>1, <2>2, <2>3 DEF TablesInv
<1> QED
  BY <1>1, <1>2

(* The bytes of the copies are those of their views. *)
LEMMA CopiesFollow == VolumeInv /\ TablesInv => CopiesAgree
<1> SUFFICES ASSUME VolumeInv, TablesInv, ~ overrun,
                    NEW n \in 1..boot.num_fats - 1, NEW o \in 0..FatBytes(boot) - 1
             PROVE  fat[n * FatBytes(boot) + o] = fat[o]
  BY DEF CopiesAgree
<1>1. /\ boot.num_fats \in Nat /\ FatBytes(boot) \in Nat
      /\ n \in 0..boot.num_fats - 1
  BY Volume DEF VolumeInv
<1>2. View(boot, fat, n) = View(boot, fat, 0)
  BY <1>1 DEF TablesInv
<1>3. View(boot, fat, n)[o] = fat[n * FatBytes(boot) + o]
  BY DEF View
<1>4. View(boot, fat, 0)[o] = fat[0 * FatBytes(boot) + o] /\ 0 * FatBytes(boot) + o = o
  BY <1>1 DEF View
<1> QED
  BY <1>2, <1>3, <1>4

(* The copies of the table never differ, however long the chains and wherever
   their clusters are, on every volume and after every sequence of writes. *)
THEOREM Copies == Spec => []CopiesAgree
<1>1. Init => VolumeInv /\ TablesInv
  BY VolumeInit, TablesInit
<1>2. VolumeInv /\ TablesInv /\ [Next]_vars => (VolumeInv /\ TablesInv)'
  BY VolumeStep, TablesStep
<1>3. VolumeInv /\ TablesInv => CopiesAgree
  BY CopiesFollow
<1> QED
  BY <1>1, <1>2, <1>3, PTL DEF Spec

-----------------------------------------------------------------------------
(* Room is used *)

(* The slots of the directory. *)
LEMMA DirLen ==
  ASSUME VolumeInv
  PROVE  Len(dir) = boot.root_entries /\ DOMAIN dir = 1..boot.root_entries
         /\ boot.root_entries \in Nat
<1>1. boot.root_entries \in Nat
  BY Volume DEF VolumeInv
<1> QED
  BY <1>1, LenOfFunction DEF VolumeInv

(* A write finds a run of slots where HasRoom sees one. *)
LEMMA RunsSeen ==
  ASSUME VolumeInv, NEW f \in Files
  PROVE  FreeRuns(dir, Len(f.chunks) + 1) # {}
           <=> \E i \in DOMAIN dir :
                 /\ i + Len(f.chunks) <= Len(dir)
                 /\ \A j \in i..i + Len(f.chunks) : dir[j].kind \in {"end", "deleted"}
<1> DEFINE n == Len(f.chunks)
           Free(j) == dir[j].kind \in {"end", "deleted"}
<1>1. n \in Nat /\ Len(dir) \in Nat /\ DOMAIN dir = 1..Len(dir)
  BY DirLen, FilesAssumption
<1>2. FreeRuns(dir, n + 1)
        = {i \in 1..Len(dir) - (n + 1) + 1 : \A j \in i..i + (n + 1) - 1 : Free(j)}
  BY DEF FreeRuns
<1> HIDE DEF n, Free
<1>3. \A i : i \in 1..Len(dir) - (n + 1) + 1 <=> i \in 1..Len(dir) /\ i + n <= Len(dir)
  BY <1>1
<1>4. \A i \in 1..Len(dir) : i + (n + 1) - 1 = i + n
  BY <1>1
<1>5. FreeRuns(dir, n + 1) # {}
        <=> \E i \in 1..Len(dir) : i + n <= Len(dir) /\ \A j \in i..i + n : Free(j)
  BY <1>2, <1>3, <1>4
<1> QED
  BY <1>1, <1>5 DEF n, Free

(* There are finitely many free clusters. *)
LEMMA FreeIsFinite ==
  ASSUME NEW b \in BootSectors, NEW table
  PROVE  /\ IsFiniteSet(FreeOf(b, table)) /\ Cardinality(FreeOf(b, table)) \in Nat
         /\ FreeOf(b, table) \subseteq Nat
<1>1. SearchEnd(b) \in Nat
  BY Volume
<1>2. IsFiniteSet(2..SearchEnd(b) - 1)
  BY <1>1, FS_Interval
<1>3. FreeOf(b, table) \subseteq 2..SearchEnd(b) - 1
  BY DEF FreeOf
<1>4. 2..SearchEnd(b) - 1 \subseteq Nat
  BY <1>1
<1> QED
  BY <1>2, <1>3, <1>4, FS_Subset, FS_CardinalityType

(* The lowest of enough free clusters are within the volume. *)
LEMMA LowestWithin ==
  ASSUME NEW Free, Free \subseteq Nat, NEW top \in Nat,
         NEW Low, IsFiniteSet(Low), Low = {c \in Free : c <= top},
         NEW k \in Nat, k <= Cardinality(Low), NEW s \in [1..k -> Free],
         \A i, j \in 1..k : i < j => s[i] < s[j],
         \A c \in Free : (\E i \in 1..k : s[i] = c) \/ (\A i \in 1..k : s[i] < c)
  PROVE  \A i \in 1..k : s[i] <= top
<1> SUFFICES ASSUME NEW i \in 1..k, ~ (s[i] <= top)
             PROVE  FALSE
  OBVIOUS
<1>1. \A j \in 1..k : s[j] \in Nat
  OBVIOUS
<1>2. \A c \in Low : \E j \in 1..i - 1 : s[j] = c
  <2> SUFFICES ASSUME NEW c \in Low
               PROVE  \E j \in 1..i - 1 : s[j] = c
    OBVIOUS
  <2>1. c \in Free /\ c \in Nat /\ c <= top
    OBVIOUS
  <2>2. ~ (s[i] < c)
    BY <1>1, <2>1
  <2>3. PICK j \in 1..k : s[j] = c
    BY <2>1, <2>2
  <2>4. j # i /\ ~ (i < j)
    BY <1>1, <2>1, <2>3
  <2>5. j \in 1..i - 1
    BY <2>4
  <2> QED
    BY <2>3, <2>5
<1> DEFINE T == {s[j] : j \in 1..i - 1}
           t == [j \in 1..i - 1 |-> s[j]]
<1>3. t \in Surjection(1..i - 1, T)
  BY DEF Surjection
<1>4. IsFiniteSet(1..i - 1) /\ Cardinality(1..i - 1) = i - 1
  BY FS_Interval
<1>5. IsFiniteSet(T) /\ Cardinality(T) <= Cardinality(1..i - 1)
  <2> HIDE DEF T, t
  <2> QED
    BY <1>3, <1>4, FS_Surjection
<1>6. Low \subseteq T
  BY <1>2
<1> HIDE DEF T
<1>7. Cardinality(Low) <= Cardinality(T)
  BY <1>5, <1>6, FS_Subset
<1>8. Cardinality(Low) \in Nat /\ Cardinality(T) \in Nat
  BY <1>5, FS_CardinalityType
<1> QED
  BY <1>4, <1>5, <1>7, <1>8

(* A step that has room is a write within the volume. *)
LEMMA RoomStep == VolumeInv /\ [Next]_vars => [UsesRoom]_vars
<1> SUFFICES ASSUME VolumeInv, Next
             PROVE  UsesRoom
  OBVIOUS
<1> DEFINE Free == FreeOf(boot, fat)
<1>0. /\ boot \in BootSectors /\ LastCluster(boot) \in Nat \ {0} /\ SearchEnd(boot) \in Nat
      /\ LastCluster(boot) <= SearchEnd(boot)
      /\ Largest(boot) <=> LastCluster(boot) = SearchEnd(boot)
      /\ TypeLimit(boot) = SearchEnd(boot)
  BY Volume DEF VolumeInv
<1>1. PICK f \in Files :
        \E free \in FindFreeClusters(boot, fat, ClustersNeeded(boot, f.len)) :
          Refused(f, free) \/ Stores(f, free)
  BY Cases
<1>2. PICK free \in FindFreeClusters(boot, fat, ClustersNeeded(boot, f.len)) :
        Refused(f, free) \/ Stores(f, free)
  BY <1>1
<1> DEFINE need == ClustersNeeded(boot, f.len)
           want == Greatest(need, 1)
<1>3. need \in Nat /\ want \in Nat \ {0} /\ want >= need
      /\ \A n \in Nat : n >= need /\ n # 0 => n >= want
  <2>1. need \in Nat
    BY <1>0, FileLens, NeedIsNat
  <2> HIDE DEF need
  <2> QED
    BY <2>1 DEF Greatest
<1>4. PICK k \in Nat :
        /\ k = Least(want, Cardinality(Free))
        /\ free \in [1..k -> Free] /\ Len(free) = k /\ DOMAIN free = 1..k
        /\ \A i, j \in 1..k : i < j => free[i] < free[j]
        /\ \A c \in Free : (\E i \in 1..k : free[i] = c) \/ (\A i \in 1..k : free[i] < c)
  BY <1>0, <1>3, FreeFound
<1>5. IsFiniteSet(Free) /\ Cardinality(Free) \in Nat /\ Free \subseteq Nat
  BY <1>0, FreeIsFinite
<1>6. /\ Usable = {c \in Free : c <= LastCluster(boot)}
      /\ LastCluster(boot) >= TypeLimit(boot) - 1 => Usable = Free
  <2>1. \A c : c \in 2..LastCluster(boot) /\ (Largest(boot) => c < LastCluster(boot))
                <=> c \in 2..SearchEnd(boot) - 1 /\ c <= LastCluster(boot)
    BY <1>0
  <2>2. LastCluster(boot) >= TypeLimit(boot) - 1 =>
          \A c \in 2..SearchEnd(boot) - 1 : c <= LastCluster(boot)
    BY <1>0
  <2>3. Usable = {c \in 2..LastCluster(boot) :
                    /\ ReadEntry(fat, FatType(boot), 0, c) = 0
                    /\ Largest(boot) => c < LastCluster(boot)}
    BY DEF Usable, FreeInVolume, EntryOf
  <2>4. Usable = {c \in Free : c <= LastCluster(boot)}
    BY <2>1, <2>3 DEF FreeOf
  <2> QED
    BY <2>2, <2>4 DEF FreeOf
<1>7. IsFiniteSet(Usable) /\ Cardinality(Usable) \in Nat
      /\ Cardinality(Usable) <= Cardinality(Free)
  <2>1. Usable \in SUBSET Free
    BY <1>6
  <2> HIDE DEF Free
  <2> QED
    BY <1>5, <2>1, FS_Subset, FS_CardinalityType
<1>8. last'.file = f
  BY <1>2 DEF Refused, Stores, Store, Note
<1>9. HasRoom(f) <=> Cardinality(Usable) >= want /\ FreeRuns(dir, Len(f.chunks) + 1) # {}
  BY RunsSeen DEF HasRoom
<1> HIDE DEF Free, need, want
<1>10. CASE HasRoom(f)
  <2>1. k = want
    BY <1>3, <1>5, <1>7, <1>9, <1>10, <1>4 DEF Least
  <2>2. ~ Refused(f, free)
    <3>1. k >= need /\ k # 0
      BY <1>3, <2>1
    <3>2. ~ (k < need)
      BY <1>3, <3>1
    <3>3. free # <<>>
      BY <1>4, <3>1
    <3> QED
      BY <1>4, <1>9, <1>10, <3>2, <3>3 DEF Refused, need
  <2>3. Stores(f, free)
    BY <1>2, <2>2
  <2>4. \A i \in 1..k : free[i] <= LastCluster(boot)
    <3>1. k <= Cardinality(Usable)
      BY <1>3, <1>7, <1>9, <1>10, <2>1
    <3> QED
      BY <1>0, <1>4, <1>5, <1>6, <1>7, <3>1, LowestWithin
  <2>5. ~ \E i \in DOMAIN free : free[i] > LastCluster(boot)
    <3>1. \A i \in 1..k : free[i] \in Nat
      BY <1>4, <1>5
    <3> QED
      BY <1>0, <1>4, <2>4, <3>1
  <2>6. last'.result = "written"
    BY <2>3 DEF Stores, Store, Note
  <2>7. overrun' = overrun
    <3>1. overrun' = (overrun \/ \E i \in DOMAIN free : free[i] > LastCluster(boot))
      BY <2>3 DEF Stores, Store
    <3>2. overrun \in BOOLEAN
      BY DEF VolumeInv
    <3> QED
      BY <2>5, <3>1, <3>2, Zenon
  <2> QED
    BY <1>8, <1>10, <2>6, <2>7 DEF UsesRoom
<1>11. CASE ~ HasRoom(f) /\ LastCluster(boot) >= TypeLimit(boot) - 1
  <2>1. ~ Stores(f, free)
    <3> SUFFICES ASSUME Stores(f, free)
                 PROVE  FALSE
      OBVIOUS
    <3>1. k >= need /\ free # <<>> /\ FreeRuns(dir, Len(f.chunks) + 1) # {}
      BY <1>4 DEF Stores, need
    <3>2. k # 0
      BY <1>4, <3>1, NoneIsEmpty
    <3>3. k >= want
      BY <1>3, <3>1, <3>2
    <3>4. Cardinality(Free) >= want
      BY <1>3, <1>4, <1>5, <3>3 DEF Least
    <3> QED
      BY <1>6, <1>9, <1>11, <3>1, <3>4
  <2> QED
    BY <1>2, <1>8, <1>11, <2>1 DEF Refused, UsesRoom
<1>12. CASE ~ HasRoom(f) /\ ~ (LastCluster(boot) >= TypeLimit(boot) - 1)
  BY <1>8, <1>12 DEF UsesRoom
<1> QED
  BY <1>10, <1>11, <1>12

(* A file for which there is room is written, and into clusters of the volume,
   the one cluster aside that is never used; one for which there is none is
   refused as a whole, on every volume of the two largest sizes of its type. *)
THEOREM Room == Spec => RoomIsUsed
<1>1. Init => VolumeInv
  BY VolumeInit
<1>2. VolumeInv /\ [Next]_vars => VolumeInv'
  BY VolumeStep
<1>3. VolumeInv /\ [Next]_vars => [UsesRoom]_vars
  BY RoomStep
<1> QED
  BY <1>1, <1>2, <1>3, PTL DEF Spec, RoomIsUsed

-----------------------------------------------------------------------------
(* The data area *)

(* The data area of a volume, and the bytes of a cluster in it. *)
DataBytes(b) == (b.total_sectors - FirstDataSector(b)) * b.bytes_per_sector

DataOf(b, bytes) == bytes = [p \in 1..DataBytes(b) |-> bytes[p]]

(* A cluster lies in the data area ... *)
LEMMA ClusterFits ==
  ASSUME NEW b \in BootSectors, NEW c \in 2..LastCluster(b)
  PROVE  /\ DataBytes(b) \in Nat /\ DataOffset(b, c) \in Nat
         /\ DataOffset(b, c) + ClusterSize(b) <= DataBytes(b)
<1> DEFINE S == ClusterSize(b)
           L == DataBytes(b)
           C == Clusters(b)
<1>0. S \in Nat \ {0} /\ L \in Nat /\ C \in Nat /\ C * S <= L
  BY Volume DEF DataBytes
<1>1. c - 2 \in Nat /\ (c - 2) + 1 \in Nat /\ (c - 2) + 1 <= C
  BY <1>0 DEF LastCluster
<1>2. DataOffset(b, c) = (c - 2) * S
  BY DEF DataOffset
<1> DEFINE d == c - 2
<1> HIDE DEF S, L, C, d
<1>3. d \in Nat /\ d + 1 \in Nat /\ d + 1 <= C
  BY <1>1 DEF d
<1>4. (d + 1) * S = d * S + S
  BY <1>0, <1>3, SMT
<1>5. (d + 1) * S <= C * S
  BY <1>0, <1>3, ProductGrows
<1>6. d * S \in Nat /\ C * S \in Nat
  BY <1>0, <1>3, ProductIsNat
<1>7. d * S \in Nat /\ d * S + S <= L
  BY <1>0, <1>4, <1>5, <1>6
<1> QED
  BY <1>0, <1>2, <1>7 DEF S, L, d

(* ... and shares no byte with another one. *)
LEMMA ClustersApart ==
  ASSUME NEW b \in BootSectors, NEW c \in 2..LastCluster(b), NEW d \in 2..LastCluster(b), c # d,
         NEW r \in 1..ClusterSize(b), NEW q \in 1..ClusterSize(b)
  PROVE  DataOffset(b, c) + r # DataOffset(b, d) + q
<1> DEFINE S == ClusterSize(b)
           x == c - 2
           y == d - 2
           r0 == r - 1
           q0 == q - 1
<1>0. S \in Nat \ {0} /\ LastCluster(b) \in Nat
  BY Volume
<1>1. /\ x \in Nat /\ y \in Nat /\ x # y
      /\ r0 \in Nat /\ r0 < S /\ q0 \in Nat /\ q0 < S /\ r = r0 + 1 /\ q = q0 + 1
  BY <1>0
<1>2. DataOffset(b, c) = x * S /\ DataOffset(b, d) = y * S
  BY DEF DataOffset
<1> HIDE DEF S, x, y, r0, q0
<1>3. x * S + r0 # y * S + q0
  BY <1>0, <1>1, Blocks
<1>4. x * S \in Nat /\ y * S \in Nat
  BY <1>0, <1>1, ProductIsNat
<1>5. x * S + r # y * S + q
  BY <1>1, <1>3, <1>4
<1> QED
  BY <1>2, <1>5

(* A slice written within the bytes there are. *)
LEMMA AssignWithin ==
  ASSUME NEW b, DataBytes(b) \in Nat, NEW bytes, DataOf(b, bytes),
         NEW o \in Nat, NEW m \in Nat, o + m <= DataBytes(b), NEW chunk, Len(chunk) = m,
         NEW g, g = Assign(bytes, o, chunk)
  PROVE  /\ DataOf(b, g)
         /\ \A p \in 1..DataBytes(b) :
              g[p] = IF o < p /\ p <= o + m THEN chunk[p - o] ELSE bytes[p]
<1>1. Len(bytes) = DataBytes(b)
  BY LenOfFunction DEF DataOf
<1>2. Least(o, DataBytes(b)) = o /\ Greatest(DataBytes(b), o + m) = DataBytes(b)
  BY DEF Least, Greatest
<1>3. g = [p \in 1..DataBytes(b) |->
             IF o < p /\ p <= o + m THEN chunk[p - o] ELSE bytes[p]]
  BY <1>1, <1>2 DEF Assign
<1> QED
  BY <1>3 DEF DataOf

(* The part of a file for a cluster fits into it. *)
LEMMA PartIs ==
  ASSUME NEW b \in BootSectors, NEW f, f.len \in Nat, NEW i \in Nat \ {0}
  PROVE  \E m \in Nat :
           /\ m <= ClusterSize(b)
           /\ Len(Part(b, f, i)) = m
           /\ \A r \in 1..ClusterSize(b) : (i - 1) * ClusterSize(b) + r <= f.len =>
                r <= m /\ Part(b, f, i)[r] = Content(f)[(i - 1) * ClusterSize(b) + r]
<1> DEFINE S == ClusterSize(b)
           a == (i - 1) * S
           len == f.len
           m == Greatest(Least(S, len - a), 0)
           part == Part(b, f, i)
<1>0. S \in Nat /\ len \in Nat /\ a \in Nat
  <2>1. S \in Nat /\ i - 1 \in Nat
    BY Volume
  <2> QED
    BY <2>1, ProductIsNat
<1>1. part = [r \in 1..Least(S, len - a) |-> Content(f)[a + r]]
  BY DEF Part
<1> HIDE DEF S, a, part, len
<1>2. m \in Nat /\ m <= S
  BY <1>0 DEF Least, Greatest
<1>3. 1..Least(S, len - a) = 1..m
  BY <1>0 DEF Least, Greatest
<1>4. part = [r \in 1..m |-> Content(f)[a + r]]
  BY <1>1, <1>3
<1>5. \A r \in 1..S : a + r <= len => r \in 1..m
  BY <1>0 DEF Least, Greatest
<1> HIDE DEF m
<1>6. part = [r \in 1..m |-> part[r]]
  BY <1>4
<1>7. Len(part) = m
  BY <1>2, <1>6, LenOfFunction
<1>8. \A r \in 1..S : a + r <= len => r <= m /\ part[r] = Content(f)[a + r]
  BY <1>2, <1>4, <1>5
<1> QED
  BY <1>2, <1>7, <1>8 DEF S, a, part, len

(* The bytes after the first parts of a file. *)
PartsOf(g, b, bytes, f, clusters, k) ==
  g = [i \in 0..k |->
         IF i = 0 THEN bytes
         ELSE Assign(g[i - 1], DataOffset(b, clusters[i]), Part(b, f, i))]

(* The recursive function of WriteData is one: by induction over its steps. *)
LEMMA PartsExist ==
  ASSUME NEW b, NEW bytes, NEW f, NEW clusters, NEW k \in Nat
  PROVE  \E g : PartsOf(g, b, bytes, f, clusters, k)
<1> DEFINE P == {m \in 0..k : \E g : PartsOf(g, b, bytes, f, clusters, m)}
<1>1. 0 \in P
  <2> DEFINE g == [i \in 0..0 |-> bytes]
  <2>1. PartsOf(g, b, bytes, f, clusters, 0)
    BY DEF PartsOf
  <2> QED
    BY <2>1
<1>2. ASSUME NEW m \in 0..k - 1, m \in P
      PROVE  m + 1 \in P
  <2>1. m \in Nat /\ m + 1 \in 0..k
    OBVIOUS
  <2>2. PICK g : PartsOf(g, b, bytes, f, clusters, m)
    BY <1>2
  <2> DEFINE top == Assign(g[m], DataOffset(b, clusters[m + 1]), Part(b, f, m + 1))
             h == [i \in 0..m + 1 |-> IF i < m + 1 THEN g[i] ELSE top]
  <2>3. \A i \in 0..m : g[i] = IF i = 0 THEN bytes
                               ELSE Assign(g[i - 1], DataOffset(b, clusters[i]), Part(b, f, i))
    BY <2>1, <2>2 DEF PartsOf
  <2>4. \A i \in 0..m : h[i] = g[i]
    BY <2>1
  <2>5. h[m + 1] = top /\ h = [i \in 0..m + 1 |-> h[i]]
    BY <2>1
  <2> HIDE DEF h
  <2>6. \A i \in 0..m + 1 : h[i] = IF i = 0 THEN bytes
                                   ELSE Assign(h[i - 1], DataOffset(b, clusters[i]), Part(b, f, i))
    <3> SUFFICES ASSUME NEW i \in 0..m + 1
                 PROVE  h[i] = IF i = 0 THEN bytes
                               ELSE Assign(h[i - 1], DataOffset(b, clusters[i]), Part(b, f, i))
      OBVIOUS
    <3>1. CASE i = m + 1
      <4>1. i # 0 /\ i - 1 = m /\ h[m] = g[m]
        BY <2>1, <2>4, <3>1
      <4> QED
        BY <3>1, <2>5, <4>1
    <3>2. CASE i = 0
      BY <3>2, <2>1, <2>3, <2>4
    <3>3. CASE i # m + 1 /\ i # 0
      <4>1. i \in 0..m /\ i - 1 \in 0..m
        BY <3>3, <2>1
      <4>2. h[i] = g[i] /\ h[i - 1] = g[i - 1]
        BY <4>1, <2>4
      <4> QED
        BY <3>3, <2>3, <4>1, <4>2
    <3> QED
      BY <3>1, <3>2, <3>3
  <2>7. PartsOf(h, b, bytes, f, clusters, m + 1)
    BY <2>5, <2>6 DEF PartsOf
  <2> QED
    BY <2>1, <2>7
<1>3. \A m \in 0..k : m \in P
  <2>1. \A m \in 0..k - 1 : m \in P => m + 1 \in P
    BY <1>2
  <2> HIDE DEF P
  <2> QED
    BY <1>1, <2>1, UpTo
<1>4. k \in 0..k
  OBVIOUS
<1> QED
  BY <1>3, <1>4

(* WriteData is its last value. *)
LEMMA WriteDataIs ==
  ASSUME NEW b, NEW bytes, NEW f, NEW clusters, NEW k \in Nat, Len(clusters) = k
  PROVE  \E g : PartsOf(g, b, bytes, f, clusters, k) /\ WriteData(b, bytes, f, clusters) = g[k]
<1> DEFINE g == CHOOSE g : PartsOf(g, b, bytes, f, clusters, k)
<1>1. PartsOf(g, b, bytes, f, clusters, k)
  BY PartsExist
<1>2. WriteData(b, bytes, f, clusters) = g[k]
  BY DEF WriteData, PartsOf
<1> QED
  BY <1>1, <1>2

(* The data area after a file: its bytes are in its clusters, and the others
   are as they were. *)
Carries(b, bytes, f, clusters, i) ==
  \A r \in 1..ClusterSize(b) : (i - 1) * ClusterSize(b) + r <= f.len =>
    bytes[DataOffset(b, clusters[i]) + r] = Content(f)[(i - 1) * ClusterSize(b) + r]

SameCluster(b, new, old, d) ==
  \A r \in 1..ClusterSize(b) : new[DataOffset(b, d) + r] = old[DataOffset(b, d) + r]

(* One part. *)
LEMMA PartWritten ==
  ASSUME NEW b \in BootSectors, NEW bytes, DataOf(b, bytes), NEW f, f.len \in Nat,
         NEW clusters, NEW i \in Nat \ {0}, clusters[i] \in 2..LastCluster(b),
         NEW g, g = Assign(bytes, DataOffset(b, clusters[i]), Part(b, f, i))
  PROVE  /\ DataOf(b, g)
         /\ Carries(b, g, f, clusters, i)
         /\ \A d \in 2..LastCluster(b) : d # clusters[i] => SameCluster(b, g, bytes, d)
<1> DEFINE c == clusters[i]
           o == DataOffset(b, c)
           S == ClusterSize(b)
           L == DataBytes(b)
           part == Part(b, f, i)
<1>0. S \in Nat /\ L \in Nat /\ o \in Nat /\ o + S <= L
  BY Volume, ClusterFits
<1>1. PICK m \in Nat :
        /\ m <= S
        /\ Len(part) = m
        /\ \A r \in 1..S : (i - 1) * S + r <= f.len =>
             r <= m /\ part[r] = Content(f)[(i - 1) * S + r]
  BY PartIs
<1>2. DataOf(b, g) /\ \A p \in 1..L : g[p] = IF o < p /\ p <= o + m THEN part[p - o] ELSE bytes[p]
  <2>1. g = Assign(bytes, o, part) /\ L \in Nat /\ o \in Nat /\ m \in Nat /\ Len(part) = m
    BY <1>0, <1>1
  <2>2. o + m <= L
    BY <1>0, <1>1
  <2> HIDE DEF o, part
  <2> QED
    BY <2>1, <2>2, AssignWithin
<1>3. DataOf(b, g)
  BY <1>2
<1>4. Carries(b, g, f, clusters, i)
  <2> SUFFICES ASSUME NEW r \in 1..S, (i - 1) * S + r <= f.len
               PROVE  g[o + r] = Content(f)[(i - 1) * S + r]
    BY DEF Carries
  <2>1. r <= m /\ part[r] = Content(f)[(i - 1) * S + r]
    BY <1>1
  <2> HIDE DEF o, S, L, part
  <2>2. r \in Nat \ {0} /\ r <= m /\ m \in Nat /\ m <= S
    BY <1>0, <1>1, <2>1
  <2>3. o + r \in 1..L /\ o < o + r /\ o + r <= o + m /\ (o + r) - o = r
    BY <1>0, <2>2
  <2>4. g[o + r] = part[(o + r) - o]
    BY <1>2, <2>3
  <2> QED
    BY <2>1, <2>3, <2>4
<1>5. ASSUME NEW d \in 2..LastCluster(b), d # c
      PROVE  SameCluster(b, g, bytes, d)
  <2> SUFFICES ASSUME NEW r \in 1..S
               PROVE  g[DataOffset(b, d) + r] = bytes[DataOffset(b, d) + r]
    BY DEF SameCluster
  <2> DEFINE p == DataOffset(b, d) + r
  <2>1. p \in 1..L
    <3>1. DataOffset(b, d) \in Nat /\ DataOffset(b, d) + S <= L
      BY ClusterFits
    <3> QED
      BY <1>0, <3>1
  <2>2. ~ (o < p /\ p <= o + m)
    <3> SUFFICES ASSUME o < p, p <= o + m
                 PROVE  FALSE
      OBVIOUS
    <3> DEFINE q == p - o
    <3>1. q \in 1..S /\ p = o + q
      <4> HIDE DEF p, o, S, L
      <4> QED
        BY <1>0, <1>1, <2>1
    <3>2. o + q # p
      <4> HIDE DEF q
      <4> QED
        BY <1>5, <3>1, ClustersApart
    <3> QED
      BY <3>1, <3>2
  <2> HIDE DEF p, o, S, L
  <2>3. g[p] = bytes[p]
    BY <1>2, <2>1, <2>2
  <2> QED
    BY <2>3 DEF p
<1> QED
  BY <1>3, <1>4, <1>5

(* All parts. *)
LEMMA DataWritten ==
  ASSUME NEW b \in BootSectors, NEW bytes, DataOf(b, bytes), NEW f, f.len \in Nat,
         NEW clusters, NEW k, ChainIn(b, clusters, k),
         \A i, j \in 1..k : clusters[i] = clusters[j] => i = j,
         NEW g, g = WriteData(b, bytes, f, clusters)
  PROVE  /\ DataOf(b, g)
         /\ \A i \in 1..k : Carries(b, g, f, clusters, i)
         /\ \A d \in 2..LastCluster(b) : (\A i \in 1..k : clusters[i] # d) =>
              SameCluster(b, g, bytes, d)
<1>0. k \in Nat /\ k \in 0..k /\ Len(clusters) = k
  BY DEF ChainIn
<1>1. PICK t : PartsOf(t, b, bytes, f, clusters, k) /\ g = t[k]
  BY <1>0, WriteDataIs
<1>2. /\ t[0] = bytes
      /\ \A i \in 0..k - 1 :
           t[i + 1] = Assign(t[i], DataOffset(b, clusters[i + 1]), Part(b, f, i + 1))
  <2>1. \A i \in 0..k : t[i] = IF i = 0 THEN bytes
                               ELSE Assign(t[i - 1], DataOffset(b, clusters[i]), Part(b, f, i))
    BY <1>1 DEF PartsOf
  <2>2. \A i \in 0..k - 1 : i + 1 \in 0..k /\ i + 1 # 0 /\ (i + 1) - 1 = i
    BY <1>0
  <2>3. 0 \in 0..k
    BY <1>0
  <2> QED
    BY <2>1, <2>2, <2>3
<1> DEFINE Right(i) ==
             /\ DataOf(b, t[i])
             /\ \A j \in 1..i : Carries(b, t[i], f, clusters, j)
             /\ \A d \in 2..LastCluster(b) : (\A j \in 1..i : clusters[j] # d) =>
                  SameCluster(b, t[i], bytes, d)
           P == {i \in 0..k : Right(i)}
<1>3. 0 \in P
  BY <1>0, <1>2 DEF SameCluster
<1>4. ASSUME NEW i \in 0..k - 1, Right(i)
      PROVE  Right(i + 1)
  <2>0. i \in Nat /\ i + 1 \in 1..k /\ i + 1 \in Nat \ {0}
    BY <1>0
  <2>1. clusters[i + 1] \in 2..LastCluster(b)
    BY <2>0 DEF ChainIn
  <2>2. t[i + 1] = Assign(t[i], DataOffset(b, clusters[i + 1]), Part(b, f, i + 1))
        /\ DataOf(b, t[i])
    BY <1>2, <1>4
  <2>3. /\ DataOf(b, t[i + 1])
        /\ Carries(b, t[i + 1], f, clusters, i + 1)
        /\ \A d \in 2..LastCluster(b) : d # clusters[i + 1] => SameCluster(b, t[i + 1], t[i], d)
    BY <2>0, <2>1, <2>2, PartWritten
  <2>4. ASSUME NEW j \in 1..i + 1
        PROVE  Carries(b, t[i + 1], f, clusters, j)
    <3>1. CASE j = i + 1
      BY <2>3, <3>1
    <3>2. CASE j # i + 1
      <4>1. j \in 1..i /\ j \in 1..k
        BY <1>0, <2>0, <3>2
      <4>2. clusters[j] # clusters[i + 1] /\ clusters[j] \in 2..LastCluster(b)
        BY <2>0, <3>2, <4>1 DEF ChainIn
      <4>3. Carries(b, t[i], f, clusters, j)
        BY <1>4, <4>1
      <4>4. SameCluster(b, t[i + 1], t[i], clusters[j])
        BY <2>3, <4>2
      <4> QED
        BY <4>3, <4>4 DEF Carries, SameCluster
    <3> QED
      BY <3>1, <3>2
  <2>5. ASSUME NEW d \in 2..LastCluster(b), \A j \in 1..i + 1 : clusters[j] # d
        PROVE  SameCluster(b, t[i + 1], bytes, d)
    <3>1. i + 1 \in 1..i + 1 /\ \A j \in 1..i : j \in 1..i + 1
      BY <2>0
    <3>2. d # clusters[i + 1] /\ \A j \in 1..i : clusters[j] # d
      BY <2>5, <3>1
    <3>3. SameCluster(b, t[i], bytes, d) /\ SameCluster(b, t[i + 1], t[i], d)
      BY <1>4, <2>3, <3>2
    <3> QED
      BY <3>3 DEF SameCluster
  <2> QED
    BY <2>3, <2>4, <2>5
<1>5. \A i \in 0..k : i \in P
  <2>1. \A i \in 0..k - 1 : i \in P => i + 1 \in P
    <3>1. \A i \in 0..k - 1 : i + 1 \in 0..k
      BY <1>0
    <3> HIDE DEF Right
    <3> QED
      BY <1>4, <3>1
  <2> HIDE DEF P
  <2> QED
    BY <1>0, <1>3, <2>1, UpTo
<1>6. Right(k)
  BY <1>0, <1>5
<1> QED
  BY <1>1, <1>6

-----------------------------------------------------------------------------
(* The files on an image *)

(* The clusters a file takes; its chain in the first table, apart from those of
   the other files; its bytes; its slots. *)
Span(b, f) == Greatest(ClustersNeeded(b, f.len), 1)

ChainsOk(b, table, files, chains) ==
  /\ \A f \in files : ChainIn(b, chains[f], Span(b, f))
  /\ \A f \in files : \A i \in 1..Span(b, f) :
       ReadEntry(table, FatType(b), 0, chains[f][i]) = LinkTo(b, chains[f], i, Span(b, f))
  /\ \A f, g \in files : \A i \in 1..Span(b, f), j \in 1..Span(b, g) :
       chains[f][i] = chains[g][j] => f = g /\ i = j

BytesOk(b, bytes, files, chains) ==
  /\ DataOf(b, bytes)
  /\ \A f \in files : \A i \in 1..Span(b, f) : Carries(b, bytes, f, chains[f], i)

\* The files on an image: of those known, each name once.
FilesOk(files) ==
  /\ files \subseteq Files \cup {OldFile}
  /\ \A f, g \in files : f.name = g.name => f = g

With(chains, files, f, free) ==
  [h \in files \cup {f} |-> IF h = f THEN free ELSE chains[h]]

(* A file takes at least one cluster. *)
LEMMA SpanIsNat ==
  ASSUME NEW b \in BootSectors, NEW f \in Files \cup {OldFile}
  PROVE  Span(b, f) \in Nat \ {0} /\ f.len \in Nat
<1>1. f.len \in Nat
  BY FileLens
<1> QED
  BY <1>1, NeedIsNat DEF Span

(* The first table after a chain went into all of them. *)
LEMMA TableRead ==
  ASSUME NEW b \in BootSectors, NEW table, TablesOf(b, table),
         NEW clusters, NEW k, ChainIn(b, clusters, k),
         \A i, j \in 1..k : clusters[i] = clusters[j] => i = j,
         NEW g, g = UpdateChain(b, table, clusters)
  PROVE  /\ \A i \in 1..k :
              ReadEntry(g, FatType(b), 0, clusters[i]) = LinkTo(b, clusters, i, k)
         /\ \A c \in 0..LastCluster(b) : (\A i \in 1..k : clusters[i] # c) =>
              ReadEntry(g, FatType(b), 0, c) = ReadEntry(table, FatType(b), 0, c)
<1>0. 0 \in 0..b.num_fats - 1 /\ 0 \in Nat /\ 0 < b.num_fats
  BY Volume
<1>1. View(b, g, 0) = ChainCopy(b, View(b, table, 0), 0, clusters)
  BY <1>0, ChainInAll
<1>2. TableOf(View(b, table, 0), FatBytes(b))
  BY <1>0, ViewIsTable
<1>3. PICK old : old = View(b, table, 0)
  OBVIOUS
<1>4. PICK new : new = View(b, g, 0)
  OBVIOUS
<1>5. /\ \A i \in 1..k :
           ReadEntry(new, FatType(b), 0, clusters[i]) = LinkTo(b, clusters, i, k)
      /\ \A c \in 0..LastCluster(b) : (\A i \in 1..k : clusters[i] # c) =>
           ReadEntry(new, FatType(b), 0, c) = ReadEntry(old, FatType(b), 0, c)
  BY <1>1, <1>2, <1>3, <1>4, ChainRead
<1>6. \A c \in 0..LastCluster(b) :
        /\ ReadEntry(g, FatType(b), 0, c) = ReadEntry(new, FatType(b), 0, c)
        /\ ReadEntry(table, FatType(b), 0, c) = ReadEntry(old, FatType(b), 0, c)
  BY <1>3, <1>4, EntryInFirst DEF EntryAt
<1>7. \A i \in 1..k : clusters[i] \in 0..LastCluster(b)
  BY LinkIs
<1> QED
  BY <1>5, <1>6, <1>7

(* Free clusters for a new chain, none of them twice. *)
Unused(b, table, free, k) ==
  /\ ChainIn(b, free, k)
  /\ \A i, j \in 1..k : free[i] = free[j] => i = j
  /\ \A i \in 1..k : ReadEntry(table, FatType(b), 0, free[i]) = 0

(* They are not clusters of the files there are. *)
Elsewhere(b, f, free, files, chains) ==
  \A h \in files : \A i \in 1..Span(b, h), j \in 1..Span(b, f) : free[j] # chains[h][i]

(* A chain in free clusters leaves the others as they were ... *)
LEMMA ChainsKept ==
  ASSUME NEW b \in BootSectors, NEW table, TablesOf(b, table),
         NEW files, NEW chains, ChainsOk(b, table, files, chains),
         NEW f, f \notin files,
         NEW free, Unused(b, table, free, Span(b, f)),
         NEW g, g = UpdateChain(b, table, free)
  PROVE  /\ ChainsOk(b, g, files \cup {f}, With(chains, files, f, free))
         /\ Elsewhere(b, f, free, files, chains)
<1> DEFINE all == With(chains, files, f, free)
<1>1. all[f] = free /\ \A h \in files : all[h] = chains[h]
  BY DEF With
<1> HIDE DEF all
<1>2. /\ \A i \in 1..Span(b, f) :
           ReadEntry(g, FatType(b), 0, free[i]) = LinkTo(b, free, i, Span(b, f))
      /\ \A c \in 0..LastCluster(b) : (\A i \in 1..Span(b, f) : free[i] # c) =>
           ReadEntry(g, FatType(b), 0, c) = ReadEntry(table, FatType(b), 0, c)
  BY TableRead DEF Unused
<1>3. ASSUME NEW h \in files, NEW i \in 1..Span(b, h)
      PROVE  /\ chains[h][i] \in 0..LastCluster(b)
             /\ ReadEntry(table, FatType(b), 0, chains[h][i]) = LinkTo(b, chains[h], i, Span(b, h))
             /\ \A j \in 1..Span(b, f) : free[j] # chains[h][i]
  <2>1. ChainIn(b, chains[h], Span(b, h))
    BY DEF ChainsOk
  <2>2. chains[h][i] \in 0..LastCluster(b) /\ LinkTo(b, chains[h], i, Span(b, h)) # 0
    BY <2>1, LinkIs
  <2>3. ReadEntry(table, FatType(b), 0, chains[h][i]) = LinkTo(b, chains[h], i, Span(b, h))
    BY DEF ChainsOk
  <2> QED
    BY <2>2, <2>3 DEF Unused
<1>4. \A h \in files \cup {f} : ChainIn(b, all[h], Span(b, h))
  BY <1>1 DEF ChainsOk, Unused
<1>5. ASSUME NEW h \in files \cup {f}, NEW i \in 1..Span(b, h)
      PROVE  ReadEntry(g, FatType(b), 0, all[h][i]) = LinkTo(b, all[h], i, Span(b, h))
  <2>1. CASE h = f
    BY <1>1, <1>2, <2>1
  <2>2. CASE h \in files
    BY <1>1, <1>2, <1>3, <2>2
  <2> QED
    BY <2>1, <2>2
<1>6. ASSUME NEW h1 \in files \cup {f}, NEW h2 \in files \cup {f},
             NEW i \in 1..Span(b, h1), NEW j \in 1..Span(b, h2), all[h1][i] = all[h2][j]
      PROVE  h1 = h2 /\ i = j
  <2>1. CASE h1 = f /\ h2 = f
    BY <1>1, <1>6, <2>1 DEF Unused
  <2>2. CASE h1 = f /\ h2 \in files
    BY <1>1, <1>3, <1>6, <2>2
  <2>3. CASE h1 \in files /\ h2 = f
    BY <1>1, <1>3, <1>6, <2>3
  <2>4. CASE h1 \in files /\ h2 \in files
    BY <1>1, <1>6, <2>4 DEF ChainsOk
  <2> QED
    BY <2>1, <2>2, <2>3, <2>4
<1>7. ChainsOk(b, g, files \cup {f}, all)
  BY <1>4, <1>5, <1>6 DEF ChainsOk
<1> QED
  BY <1>3, <1>7 DEF all, Elsewhere

(* ... and so do the bytes written to it. *)
LEMMA BytesKept ==
  ASSUME NEW b \in BootSectors, NEW table, NEW bytes,
         NEW files, NEW chains, ChainsOk(b, table, files, chains), BytesOk(b, bytes, files, chains),
         NEW f, f \notin files, f.len \in Nat,
         NEW free, ChainIn(b, free, Span(b, f)),
         \A i, j \in 1..Span(b, f) : free[i] = free[j] => i = j,
         Elsewhere(b, f, free, files, chains),
         NEW g, g = WriteData(b, bytes, f, free)
  PROVE  BytesOk(b, g, files \cup {f}, With(chains, files, f, free))
<1> DEFINE all == With(chains, files, f, free)
<1>1. all[f] = free /\ \A h \in files : all[h] = chains[h]
  BY DEF With
<1> HIDE DEF all
<1>2. /\ DataOf(b, g)
      /\ \A i \in 1..Span(b, f) : Carries(b, g, f, free, i)
      /\ \A d \in 2..LastCluster(b) : (\A i \in 1..Span(b, f) : free[i] # d) =>
           SameCluster(b, g, bytes, d)
  BY DataWritten DEF BytesOk
<1>3. ASSUME NEW h \in files \cup {f}, NEW i \in 1..Span(b, h)
      PROVE  Carries(b, g, h, all[h], i)
  <2>1. CASE h = f
    BY <1>1, <1>2, <2>1
  <2>2. CASE h \in files
    <3>1. Carries(b, bytes, h, chains[h], i)
      BY <2>2 DEF BytesOk
    <3>2. ChainIn(b, chains[h], Span(b, h))
      BY <2>2 DEF ChainsOk
    <3>3. chains[h][i] \in 2..LastCluster(b)
      BY <3>2, LinkIs
    <3>4. SameCluster(b, g, bytes, chains[h][i])
      BY <1>2, <2>2, <3>3 DEF Elsewhere
    <3>5. Carries(b, g, h, chains[h], i)
      BY <3>1, <3>4 DEF Carries, SameCluster
    <3> QED
      BY <1>1, <2>2, <3>5
  <2> QED
    BY <2>1, <2>2
<1> QED
  BY <1>2, <1>3 DEF BytesOk, all

-----------------------------------------------------------------------------
(* The directory *)

(* The slots of a file, the short one at s. *)
Named(b, slots, f, s, start) ==
  /\ s \in 1..b.root_entries /\ Len(f.chunks) < s
  /\ slots[s].kind = "short" /\ slots[s].name = f.short
  /\ slots[s].start = start /\ slots[s].size = f.len
  /\ \A j \in 1..Len(f.chunks) :
       /\ slots[s - j].kind = "lfn" /\ slots[s - j].seq = j
       /\ slots[s - j].last = (j = Len(f.chunks))
       /\ slots[s - j].sum = Sum(f.short) /\ slots[s - j].chunk = f.chunks[j]

SlotsOk(b, slots, files, place, chains) ==
  /\ \A f \in files : Named(b, slots, f, place[f], chains[f][1])
  /\ \A s \in 1..b.root_entries : slots[s].kind = "short" => \E f \in files : place[f] = s
  /\ \A s \in 1..b.root_entries : slots[s].kind = "lfn" =>
       \E f \in files : \E j \in 1..Len(f.chunks) : s = place[f] - j
  /\ \A s, t \in 1..b.root_entries : s < t /\ slots[s].kind = "end" => slots[t].kind = "end"

(* An element appended to a sequence. *)
LEMMA PushIs ==
  ASSUME NEW S, NEW s \in Seq(S), NEW x \in S
  PROVE  /\ Len(s \o <<x>>) = Len(s) + 1
         /\ \A i \in 1..Len(s) : (s \o <<x>>)[i] = s[i]
         /\ (s \o <<x>>)[Len(s) + 1] = x
<1>1. <<x>> \in Seq(S) /\ Len(<<x>>) = 1 /\ <<x>>[1] = x
  OBVIOUS
<1> QED
  BY <1>1

(* The entries of a file: the pieces of its long name from the last to the
   first, and the short one. *)
LEMMA EntriesAre ==
  ASSUME NEW f \in Files, NEW start
  PROVE  LET n == Len(f.chunks)
             E == Entries(f, start)
         IN /\ n \in Nat \ {0} /\ Len(E) = n + 1
            /\ \A j \in 1..n :
                 /\ E[n - j + 1].kind = "lfn" /\ E[n - j + 1].seq = j
                 /\ E[n - j + 1].last = (j = n)
                 /\ E[n - j + 1].sum = Sum(f.short) /\ E[n - j + 1].chunk = f.chunks[j]
            /\ E[n + 1].kind = "short" /\ E[n + 1].name = f.short
            /\ E[n + 1].start = start /\ E[n + 1].size = f.len
<1> DEFINE n == Len(f.chunks)
           E == Entries(f, start)
           piece(j) == [kind |-> "lfn", seq |-> n - j + 1, last |-> j = 1,
                        sum |-> Sum(f.short), chunk |-> f.chunks[n - j + 1]]
           long == [j \in 1..n |-> piece(j)]
           short == [kind |-> "short", name |-> f.short, start |-> start, size |-> f.len]
           S == {piece(j) : j \in 1..n} \cup {short}
<1>1. n \in Nat \ {0}
  BY FilesAssumption
<1>2. E = long \o <<short>>
  BY DEF Entries
<1> HIDE DEF n, E
<1>3. long \in [1..n -> S] /\ short \in S
  <2> HIDE DEF piece, short
  <2> QED
    OBVIOUS
<1>4. long \in Seq(S) /\ Len(long) = n
  <2> HIDE DEF long, S
  <2> QED
    BY <1>1, <1>3, LenOf
<1>5. \A i \in 1..n : long[i] = piece(i)
  <2> HIDE DEF piece
  <2> QED
    OBVIOUS
<1> HIDE DEF long, S
<1>6. Len(E) = n + 1 /\ (\A i \in 1..n : E[i] = piece(i)) /\ E[n + 1] = short
  <2> HIDE DEF piece, short
  <2>1. /\ Len(long \o <<short>>) = Len(long) + 1
        /\ \A i \in 1..Len(long) : (long \o <<short>>)[i] = long[i]
        /\ (long \o <<short>>)[Len(long) + 1] = short
    BY <1>3, <1>4, PushIs
  <2> QED
    BY <1>2, <1>4, <1>5, <2>1
<1>7. ASSUME NEW j \in 1..n
      PROVE  /\ E[n - j + 1].kind = "lfn" /\ E[n - j + 1].seq = j
             /\ E[n - j + 1].last = (j = n)
             /\ E[n - j + 1].sum = Sum(f.short) /\ E[n - j + 1].chunk = f.chunks[j]
  <2> DEFINE m == n - j + 1
  <2>1. m \in 1..n /\ n - m + 1 = j /\ (m = 1 <=> j = n)
    BY <1>1
  <2> HIDE DEF m
  <2>2. E[m] = piece(m)
    BY <1>6, <2>1
  <2>3. piece(m).kind = "lfn" /\ piece(m).seq = n - m + 1 /\ piece(m).last = (m = 1)
        /\ piece(m).sum = Sum(f.short) /\ piece(m).chunk = f.chunks[n - m + 1]
    BY Zenon
  <2> HIDE DEF piece
  <2>4. (m = 1) = (j = n)
    BY <2>1, Zenon
  <2>5. E[m].kind = "lfn" /\ E[m].sum = Sum(f.short) /\ E[m].seq = j /\ E[m].chunk = f.chunks[j]
    BY <2>1, <2>2, <2>3, Zenon
  <2>6. E[m].last = (j = n)
    BY <2>2, <2>3, <2>4, Zenon
  <2> QED
    BY <2>5, <2>6 DEF m
<1> QED
  BY <1>1, <1>6, <1>7 DEF n, E

FreeSlot(slots, j) == slots[j].kind \in {"end", "deleted"}

(* The first run of free slots. *)
LEMMA FirstRunIs ==
  ASSUME NEW slots, NEW L \in Nat, Len(slots) = L, NEW n \in Nat, FreeRuns(slots, n + 1) # {}
  PROVE  LET i == FirstRun(slots, n + 1)
         IN /\ i \in Nat \ {0} /\ i + n <= L
            /\ \A j \in i..i + n : FreeSlot(slots, j)
            /\ ~ (i > 1 /\ FreeSlot(slots, i - 1))
<1> DEFINE Runs == FreeRuns(slots, n + 1)
           i == FirstRun(slots, n + 1)
<1>1. Runs = {x \in 1..L - (n + 1) + 1 : \A j \in x..x + (n + 1) - 1 : FreeSlot(slots, j)}
  BY DEF FreeRuns, FreeSlot
<1>2. \A x : x \in Runs <=> x \in Nat \ {0} /\ x + n <= L /\ \A j \in x..x + n : FreeSlot(slots, j)
  <2> HIDE DEF Runs
  <2>1. \A x : x \in 1..L - (n + 1) + 1 <=> x \in Nat \ {0} /\ x + n <= L
    OBVIOUS
  <2>2. \A x \in Nat : x + (n + 1) - 1 = x + n
    OBVIOUS
  <2> QED
    BY <1>1, <2>1, <2>2
<1>3. \E x \in Runs : \A y \in Runs : x <= y
  <2>1. Runs \subseteq Nat /\ Runs # {}
    BY <1>2
  <2> HIDE DEF Runs
  <2> QED
    BY <2>1, LeastOf
<1>4. i \in Runs /\ \A y \in Runs : i <= y
  BY <1>3 DEF FirstRun
<1> HIDE DEF i, Runs
<1>5. i \in Nat \ {0} /\ i + n <= L /\ \A j \in i..i + n : FreeSlot(slots, j)
  BY <1>2, <1>4
<1>6. ASSUME i > 1, FreeSlot(slots, i - 1)
      PROVE  FALSE
  <2>1. i - 1 \in Nat \ {0} /\ (i - 1) + n <= L /\ ~ (i <= i - 1)
    BY <1>5, <1>6
  <2>2. \A j \in i - 1..(i - 1) + n : j = i - 1 \/ j \in i..i + n
    BY <1>5
  <2>3. \A j \in i - 1..(i - 1) + n : FreeSlot(slots, j)
    BY <1>5, <1>6, <2>2
  <2>4. i - 1 \in Runs
    BY <1>2, <2>1, <2>3
  <2> QED
    BY <1>4, <2>1, <2>4
<1> QED
  BY <1>5, <1>6 DEF i

(* The entries put into the first run of free slots: the other files keep
   theirs, none of which is free, and no end mark is left before the new ones. *)
LEMMA SlotsKept ==
  ASSUME NEW b, NEW re \in Nat, re = b.root_entries,
         NEW slots, slots = [j \in 1..re |-> slots[j]],
         NEW files, NEW place, NEW chains, SlotsOk(b, slots, files, place, chains),
         \A h \in files : Len(h.chunks) \in Nat,
         NEW f \in Files, f \notin files, NEW free,
         FreeRuns(slots, Len(f.chunks) + 1) # {},
         NEW new,
         new = PutEntries(slots, FirstRun(slots, Len(f.chunks) + 1), Entries(f, free[1]))
  PROVE  \E s : SlotsOk(b, new, files \cup {f}, With(place, files, f, s),
                        With(chains, files, f, free))
<1> DEFINE n == Len(f.chunks)
           i == FirstRun(slots, n + 1)
           E == Entries(f, free[1])
           s0 == i + n
           placed == With(place, files, f, s0)
           all == With(chains, files, f, free)
<1>0. placed[f] = s0 /\ all[f] = free
      /\ \A h \in files : placed[h] = place[h] /\ all[h] = chains[h]
  BY DEF With
<1>1. /\ n \in Nat \ {0} /\ Len(E) = n + 1
      /\ \A j \in 1..n :
           /\ E[n - j + 1].kind = "lfn" /\ E[n - j + 1].seq = j
           /\ E[n - j + 1].last = (j = n)
           /\ E[n - j + 1].sum = Sum(f.short) /\ E[n - j + 1].chunk = f.chunks[j]
      /\ E[n + 1].kind = "short" /\ E[n + 1].name = f.short
      /\ E[n + 1].start = free[1] /\ E[n + 1].size = f.len
  BY EntriesAre
<1>2. Len(slots) = re
  BY LenOfFunction
<1>3. /\ i \in Nat \ {0} /\ i + n <= re
      /\ \A j \in i..i + n : FreeSlot(slots, j)
      /\ ~ (i > 1 /\ FreeSlot(slots, i - 1))
  BY <1>1, <1>2, FirstRunIs
<1>4. \A j \in 1..re : new[j] = IF j \in i..i + (n + 1) - 1 THEN E[j - i + 1] ELSE slots[j]
  BY <1>1, <1>2 DEF PutEntries
<1> HIDE DEF n, i, E, placed, all
<1>5. i..i + (n + 1) - 1 = i..s0
  BY <1>1, <1>3
<1>6. \A j \in 1..re : j \notin i..s0 => new[j] = slots[j]
  BY <1>4, <1>5
<1>7. s0 \in 1..re /\ n < s0 /\ new[s0] = E[n + 1]
  <2>1. s0 \in 1..re /\ n < s0 /\ s0 \in i..s0 /\ s0 - i + 1 = n + 1
    BY <1>1, <1>3
  <2> QED
    BY <1>4, <1>5, <2>1
<1>8. ASSUME NEW j \in 1..n
      PROVE  s0 - j \in 1..re /\ s0 - j \in i..s0 /\ new[s0 - j] = E[n - j + 1]
  <2>1. s0 - j \in 1..re /\ s0 - j \in i..s0 /\ (s0 - j) - i + 1 = n - j + 1
    BY <1>1, <1>3
  <2>2. new[s0 - j] = E[(s0 - j) - i + 1]
    BY <1>4, <1>5, <2>1
  <2> QED
    BY <2>1, <2>2
<1>9. \A j \in i..s0 : j = s0 \/ \E m \in 1..n : j = s0 - m
  <2> SUFFICES ASSUME NEW j \in i..s0, j # s0
               PROVE  \E m \in 1..n : j = s0 - m
    OBVIOUS
  <2>0. i \in Nat /\ n \in Nat
    BY <1>1, <1>3
  <2>1. s0 - j \in 1..n /\ j = s0 - (s0 - j)
    BY <2>0
  <2> HIDE DEF s0
  <2> DEFINE m == s0 - j
  <2>2. m \in 1..n /\ j = s0 - m
    BY <2>1
  <2> HIDE DEF m
  <2> QED
    BY <2>2
<1>10. \A j \in i..s0 : slots[j].kind \in {"end", "deleted"}
  BY <1>3 DEF FreeSlot
<1> HIDE DEF s0
\* The new file has its slots, and the others keep theirs.
<1>11. Named(b, new, f, s0, free[1])
  <2>1. \A j \in 1..n :
          /\ new[s0 - j].kind = "lfn" /\ new[s0 - j].seq = j
          /\ new[s0 - j].last = (j = n)
          /\ new[s0 - j].sum = Sum(f.short) /\ new[s0 - j].chunk = f.chunks[j]
    <3> SUFFICES ASSUME NEW j \in 1..n
                 PROVE  /\ new[s0 - j].kind = "lfn" /\ new[s0 - j].seq = j
                        /\ new[s0 - j].last = (j = n)
                        /\ new[s0 - j].sum = Sum(f.short) /\ new[s0 - j].chunk = f.chunks[j]
      OBVIOUS
    <3>1. new[s0 - j] = E[n - j + 1]
      BY <1>8
    <3>2. /\ E[n - j + 1].kind = "lfn" /\ E[n - j + 1].seq = j
          /\ E[n - j + 1].last = (j = n)
          /\ E[n - j + 1].sum = Sum(f.short) /\ E[n - j + 1].chunk = f.chunks[j]
      BY <1>1
    <3> QED
      BY <3>1, <3>2, Zenon
  <2>2. /\ new[s0].kind = "short" /\ new[s0].name = f.short
        /\ new[s0].start = free[1] /\ new[s0].size = f.len
    BY <1>1, <1>7
  <2>3. s0 \in 1..b.root_entries /\ n < s0
    BY <1>7
  <2> QED
    BY <2>1, <2>2, <2>3, Zenon DEF Named, n
<1>12. ASSUME NEW h \in files
       PROVE  Named(b, new, h, place[h], chains[h][1])
  <2> DEFINE s == place[h]
             m == Len(h.chunks)
  <2>1. Named(b, slots, h, s, chains[h][1]) /\ m \in Nat
    BY DEF SlotsOk
  <2>2. s \in 1..re /\ m < s /\ slots[s].kind = "short"
        /\ \A j \in 1..m : slots[s - j].kind = "lfn"
    BY <2>1 DEF Named
  <2> HIDE DEF s, m
  <2>3. \A j \in 1..m : s - j \in 1..re
    BY <2>1, <2>2
  <2>4. new[s] = slots[s]
    BY <1>6, <1>10, <2>2
  <2>5. \A j \in 1..m : new[s - j] = slots[s - j]
    BY <1>6, <1>10, <2>2, <2>3
  <2>6. /\ slots[s].kind = "short" /\ slots[s].name = h.short
        /\ slots[s].start = chains[h][1] /\ slots[s].size = h.len
        /\ s \in 1..b.root_entries /\ m < s
    BY <2>1 DEF Named, s, m
  <2>7. \A j \in 1..m :
          /\ slots[s - j].kind = "lfn" /\ slots[s - j].seq = j
          /\ slots[s - j].last = (j = m)
          /\ slots[s - j].sum = Sum(h.short) /\ slots[s - j].chunk = h.chunks[j]
    BY <2>1, Zenon DEF Named, s, m
  <2>8. /\ new[s].kind = "short" /\ new[s].name = h.short
        /\ new[s].start = chains[h][1] /\ new[s].size = h.len
    BY <2>4, <2>6, Zenon
  <2>9. \A j \in 1..m :
          /\ new[s - j].kind = "lfn" /\ new[s - j].seq = j
          /\ new[s - j].last = (j = m)
          /\ new[s - j].sum = Sum(h.short) /\ new[s - j].chunk = h.chunks[j]
    BY <2>5, <2>7, Zenon
  <2> QED
    BY <2>6, <2>8, <2>9, Zenon DEF Named, s, m
<1>13. \A h \in files \cup {f} : Named(b, new, h, placed[h], all[h][1])
  BY <1>0, <1>11, <1>12
<1>14. ASSUME NEW s \in 1..re, new[s].kind = "short"
       PROVE  \E h \in files \cup {f} : placed[h] = s
  <2>1. CASE s \in i..s0
    <3>1. \A m \in 1..n : s # s0 - m
      BY <1>1, <1>8, <1>14
    <3>2. s = s0
      BY <1>9, <2>1, <3>1
    <3> QED
      BY <1>0, <3>2
  <2>2. CASE s \notin i..s0
    <3>1. slots[s].kind = "short"
      BY <1>6, <1>14, <2>2
    <3>2. PICK h \in files : place[h] = s
      BY <3>1 DEF SlotsOk
    <3> QED
      BY <1>0, <3>2
  <2> QED
    BY <2>1, <2>2
<1>15. ASSUME NEW s \in 1..re, new[s].kind = "lfn"
       PROVE  \E h \in files \cup {f} : \E j \in 1..Len(h.chunks) : s = placed[h] - j
  <2>1. CASE s \in i..s0
    <3>1. s # s0
      BY <1>1, <1>7, <1>15
    <3>2. PICK m \in 1..n : s = s0 - m
      BY <1>9, <2>1, <3>1
    <3> QED
      BY <1>0, <3>2 DEF n
  <2>2. CASE s \notin i..s0
    <3>1. slots[s].kind = "lfn"
      BY <1>6, <1>15, <2>2
    <3>2. PICK h \in files : \E j \in 1..Len(h.chunks) : s = place[h] - j
      BY <3>1 DEF SlotsOk
    <3> QED
      BY <1>0, <3>2
  <2> QED
    BY <2>1, <2>2
\* No end mark is left in front of the entries.
<1>16. ASSUME NEW s \in 1..re, NEW t \in 1..re, s < t, new[s].kind = "end"
       PROVE  new[t].kind = "end"
  <2>1. s \notin i..s0
    <3> SUFFICES ASSUME s \in i..s0
                 PROVE  FALSE
      OBVIOUS
    <3>1. s = s0 \/ \E m \in 1..n : s = s0 - m
      BY <1>9
    <3> QED
      BY <1>1, <1>7, <1>8, <1>16, <3>1
  <2>2. slots[s].kind = "end"
    BY <1>6, <1>16, <2>1
  <2>3. slots[t].kind = "end"
    BY <1>16, <2>2 DEF SlotsOk
  <2>4. t \notin i..s0
    <3> SUFFICES ASSUME t \in i..s0
                 PROVE  FALSE
      OBVIOUS
    <3>1. s < i /\ i > 1 /\ i - 1 \in 1..re /\ (s = i - 1 \/ s < i - 1)
      BY <1>3, <1>7, <1>16, <2>1
    <3>2. slots[i - 1].kind = "end"
      BY <2>2, <3>1 DEF SlotsOk
    <3> QED
      BY <1>3, <3>1, <3>2 DEF FreeSlot
  <2> QED
    BY <1>6, <2>3, <2>4
<1>17. SlotsOk(b, new, files \cup {f}, placed, all)
  BY <1>13, <1>14, <1>15, <1>16 DEF SlotsOk
<1> QED
  BY <1>17 DEF placed, all

-----------------------------------------------------------------------------
(* Every file is found *)

(* Each file on the image has its slots, its chain and its bytes, as long as no
   write was given clusters past the end of the volume. *)
WrittenInv == FilesOk(written)

FilesInv ==
  ~overrun => \E place, chains :
    /\ ChainsOk(boot, fat, written, chains)
    /\ BytesOk(boot, data, written, chains)
    /\ SlotsOk(boot, dir, written, place, chains)

(* The files are known and have distinct names at first ... *)
LEMMA WrittenInit == Init => WrittenInv
BY DEF Init, WrittenInv, FilesOk

(* ... and after every step. *)
LEMMA WrittenStep == WrittenInv /\ [Next]_vars => WrittenInv'
<1> SUFFICES ASSUME WrittenInv, [Next]_vars
             PROVE  WrittenInv'
  OBVIOUS
<1>1. CASE UNCHANGED vars
  BY <1>1 DEF vars, WrittenInv
<1>2. CASE Next
  <2>1. PICK f \in Files :
          /\ \A g \in written : g.name # f.name
          /\ written' = written \/ written' = written \cup {f}
    BY <1>2, Cases DEF Refused, Stores, Store
  <2> QED
    BY <2>1 DEF WrittenInv, FilesOk
<1> QED
  BY <1>1, <1>2

(* A file put onto an image that holds none. *)
LEMMA AloneOk ==
  ASSUME NEW b \in BootSectors, NEW f \in Files \cup {OldFile},
         NEW chain, ChainIn(b, chain, Span(b, f)),
         \A i, j \in 1..Span(b, f) : chain[i] = chain[j] => i = j,
         NEW table, table = OldTables(b, chain),
         NEW bytes, bytes = WriteData(b, Blank(b), f, chain),
         NEW chains, chains = [h \in {f} |-> chain]
  PROVE  ChainsOk(b, table, {f}, chains) /\ BytesOk(b, bytes, {f}, chains)
<1>0. chains[f] = chain /\ f.len \in Nat
  BY SpanIsNat
<1>1. \A i \in 1..Span(b, f) :
        ReadEntry(table, FatType(b), 0, chain[i]) = LinkTo(b, chain, i, Span(b, f))
  <2>1. 0 \in 0..b.num_fats - 1
    BY Volume
  <2>2. View(b, table, 0) = ChainCopy(b, Zeros(b), 0, chain)
    BY <2>1, OldViews
  <2>3. TableOf(Zeros(b), FatBytes(b))
    BY ZerosTable
  <2>4. PICK view : view = View(b, table, 0)
    OBVIOUS
  <2>5. \A i \in 1..Span(b, f) :
          ReadEntry(view, FatType(b), 0, chain[i]) = LinkTo(b, chain, i, Span(b, f))
    <3>1. PICK zeros : zeros = Zeros(b)
      OBVIOUS
    <3> QED
      BY <2>2, <2>3, <2>4, <3>1, ChainRead
  <2>6. \A i \in 1..Span(b, f) : chain[i] \in 0..LastCluster(b)
    BY LinkIs
  <2> QED
    BY <2>4, <2>5, <2>6, EntryInFirst DEF EntryAt
<1>2. ChainsOk(b, table, {f}, chains)
  BY <1>0, <1>1 DEF ChainsOk
<1>3. DataOf(b, Blank(b))
  BY DEF DataOf, Blank, DataBytes
<1>4. DataOf(b, bytes) /\ \A i \in 1..Span(b, f) : Carries(b, bytes, f, chain, i)
  <2>1. PICK blank : blank = Blank(b)
    OBVIOUS
  <2> QED
    BY <1>0, <1>3, <2>1, DataWritten
<1>5. BytesOk(b, bytes, {f}, chains)
  BY <1>0, <1>4 DEF BytesOk
<1> QED
  BY <1>2, <1>5

(* An image as a driver leaves it has the slots, the chain and the bytes of its file ... *)
LEMMA FilesInit == Init => FilesInv
<1> SUFFICES ASSUME Init
             PROVE  FilesInv
  OBVIOUS
<1>0. boot \in BootSectors /\ boot.root_entries \in Nat
  BY Volume DEF Init
<1>1. CASE /\ data = Blank(boot)
           /\ dir = [j \in 1..boot.root_entries |-> [kind |-> "end"]]
           /\ written = {}
  <2>1. \A chains : ChainsOk(boot, fat, {}, chains)
    BY DEF ChainsOk
  <2>2. \A chains : BytesOk(boot, data, {}, chains)
    BY <1>1 DEF BytesOk, DataOf, Blank, DataBytes
  <2>3. \A place, chains : SlotsOk(boot, dir, {}, place, chains)
    <3>1. \A s \in 1..boot.root_entries : dir[s].kind = "end"
      BY <1>1
    <3> QED
      BY <3>1 DEF SlotsOk
  <2> QED
    BY <1>1, <2>1, <2>2, <2>3, Zenon DEF FilesInv
<1>2. ASSUME NEW chain \in [1..Greatest(ClustersNeeded(boot, OldFile.len), 1) -> 2..LastCluster(boot)],
             NEW slot \in 1..boot.root_entries, NEW deleted,
             \A i, j \in DOMAIN chain : i < j => chain[i] < chain[j],
             fat = OldTables(boot, chain),
             data = WriteData(boot, Blank(boot), OldFile, chain),
             dir = OldDir(boot, slot, deleted, chain[1]),
             written = {OldFile}
      PROVE  FilesInv
  <2> DEFINE k == Span(boot, OldFile)
             chains == [h \in {OldFile} |-> chain]
             place == [h \in {OldFile} |-> slot]
  <2>1. k \in Nat \ {0} /\ chain \in [1..k -> 2..LastCluster(boot)]
    BY <1>0, SpanIsNat DEF Span
  <2>2. DOMAIN chain = 1..k
    BY <2>1
  <2>3. ChainIn(boot, chain, k)
    <3> HIDE DEF k
    <3> QED
      BY <2>1, LenOf DEF ChainIn
  <2>4. \A i, j \in 1..k : chain[i] = chain[j] => i = j
    <3> SUFFICES ASSUME NEW i \in 1..k, NEW j \in 1..k, chain[i] = chain[j], i # j
                 PROVE  FALSE
      OBVIOUS
    <3>1. LastCluster(boot) \in Nat
      BY <1>0, Volume
    <3>2. k \in Nat
      BY <2>1
    <3> HIDE DEF k
    <3>3. chain[i] \in 2..LastCluster(boot) /\ chain[j] \in 2..LastCluster(boot)
      BY <2>1, Zenon
    <3>4. chain[i] \in Nat /\ chain[j] \in Nat
      <4>1. \A c \in 2..LastCluster(boot) : c \in Nat
        BY <3>1
      <4> QED
        BY <3>3, <4>1
    <3>5. i < j \/ j < i
      BY <3>2
    <3> QED
      BY <1>2, <2>2, <3>4, <3>5
  <2>5. ChainsOk(boot, fat, written, chains) /\ BytesOk(boot, data, written, chains)
    <3> HIDE DEF k
    <3>1. PICK cs : cs = chains
      OBVIOUS
    <3>2. ChainsOk(boot, fat, {OldFile}, cs) /\ BytesOk(boot, data, {OldFile}, cs)
      BY <1>0, <1>2, <2>3, <2>4, <3>1, AloneOk DEF k
    <3> QED
      BY <1>2, <3>1, <3>2
  <2>6. SlotsOk(boot, dir, written, place, chains)
    <3>1. \A s \in 1..boot.root_entries :
            /\ s = slot => dir[s] = [kind |-> "short", name |-> OldFile.short,
                                     start |-> chain[1], size |-> OldFile.len]
            /\ s > slot => dir[s].kind = "end"
            /\ s < slot => dir[s].kind \in {"deleted", "label"}
      BY <1>0, <1>2 DEF OldDir
    <3>2. dir[slot].kind = "short" /\ dir[slot].name = OldFile.short
          /\ dir[slot].start = chain[1] /\ dir[slot].size = OldFile.len
      BY <3>1
    <3>3. Len(OldFile.chunks) = 0
      BY FilesAssumption
    <3>4. Named(boot, dir, OldFile, slot, chain[1])
      BY <1>0, <3>2, <3>3 DEF Named
    <3>5. place[OldFile] = slot /\ chains[OldFile] = chain
      OBVIOUS
    <3>6. \A s \in 1..boot.root_entries :
            /\ dir[s].kind = "short" => s = slot
            /\ dir[s].kind # "lfn"
            /\ dir[s].kind = "end" => s > slot
      <4>1. \A s \in 1..boot.root_entries : s = slot \/ s > slot \/ s < slot
        BY <1>0
      <4> QED
        BY <3>1, <3>2, <4>1
    <3>7. \A s, t \in 1..boot.root_entries : s < t /\ s > slot => t > slot
      BY <1>0
    <3> HIDE DEF place, chains
    <3> QED
      BY <1>2, <3>1, <3>4, <3>5, <3>6, <3>7 DEF SlotsOk
  <2> HIDE DEF place, chains
  <2> QED
    BY <2>5, <2>6, Zenon DEF FilesInv
<1> QED
  BY <1>1, <1>2, Zenon DEF Init

(* ... and a write keeps those of every file, and adds those of the new one. *)
LEMMA FilesStep ==
  VolumeInv /\ TablesInv /\ WrittenInv /\ FilesInv /\ [Next]_vars => FilesInv'
<1> SUFFICES ASSUME VolumeInv, TablesInv, WrittenInv, FilesInv, [Next]_vars
             PROVE  FilesInv'
  OBVIOUS
<1>1. CASE UNCHANGED vars
  BY <1>1 DEF vars, FilesInv
<1>2. CASE Next
  <2>1. PICK f \in Files :
          /\ \A g \in written : g.name # f.name
          /\ \E free \in FindFreeClusters(boot, fat, ClustersNeeded(boot, f.len)) :
               Refused(f, free) \/ Stores(f, free)
    BY <1>2, Cases
  <2>2. CASE UNCHANGED <<boot, fat, dir, data, written, overrun>>
    BY <2>2 DEF FilesInv
  <2>3. ASSUME NEW free \in FindFreeClusters(boot, fat, ClustersNeeded(boot, f.len)),
               Stores(f, free), ~ overrun'
        PROVE  \E place, chains :
                 /\ ChainsOk(boot', fat', written', chains)
                 /\ BytesOk(boot', data', written', chains)
                 /\ SlotsOk(boot', dir', written', place, chains)
    <3> DEFINE k == Span(boot, f)
    <3>0. boot \in BootSectors /\ f.len \in Nat /\ f \notin written
      BY <2>1, FileLens DEF VolumeInv
    <3>1. /\ FreeRuns(dir, Len(f.chunks) + 1) # {}
          /\ Len(free) >= ClustersNeeded(boot, f.len) /\ free # <<>>
          /\ Store(f, free)
      BY <2>3 DEF Stores
    <3>2. /\ ~ overrun
          /\ ChainIn(boot, free, k)
          /\ \A i \in 1..Len(free) : ReadEntry(fat, FatType(boot), 0, free[i]) = 0
          /\ \A i, j \in 1..Len(free) : free[i] = free[j] => i = j
      BY <2>3, <3>1, Allotted DEF Span
    <3>3. Len(free) = k
      BY <3>2 DEF ChainIn
    <3>4. TablesOf(boot, fat)
      BY <3>2 DEF TablesInv
    <3>5. PICK place, chains :
            /\ ChainsOk(boot, fat, written, chains)
            /\ BytesOk(boot, data, written, chains)
            /\ SlotsOk(boot, dir, written, place, chains)
      BY <3>2 DEF FilesInv
    <3>6. /\ boot' = boot /\ written' = written \cup {f}
          /\ fat' = UpdateChain(boot, fat, free)
          /\ data' = WriteData(boot, data, f, free)
          /\ dir' = PutEntries(dir, FirstRun(dir, Len(f.chunks) + 1), Entries(f, free[1]))
      BY <3>1 DEF Store
    <3>7. PICK table, bytes, slots : table = fat' /\ bytes = data' /\ slots = dir'
      OBVIOUS
    <3> DEFINE all == With(chains, written, f, free)
    <3> HIDE DEF k
    <3>8. ChainsOk(boot, table, written \cup {f}, all) /\ Elsewhere(boot, f, free, written, chains)
      <4>1. Unused(boot, fat, free, Span(boot, f))
        BY <3>2, <3>3 DEF k, Unused
      <4>2. table = UpdateChain(boot, fat, free) /\ ChainsOk(boot, fat, written, chains)
        BY <3>5, <3>6, <3>7
      <4> QED
        BY <3>0, <3>4, <4>1, <4>2, ChainsKept
    <3>9. BytesOk(boot, bytes, written \cup {f}, all)
      BY <3>0, <3>2, <3>3, <3>5, <3>6, <3>7, <3>8, BytesKept DEF k
    <3>10. \E s : SlotsOk(boot, slots, written \cup {f}, With(place, written, f, s), all)
      <4>1. boot.root_entries \in Nat
        BY <3>0, Volume
      <4>2. \A h \in written : Len(h.chunks) \in Nat
        <5>1. Len(OldFile.chunks) = 0 /\ \A h \in Files : Len(h.chunks) \in Nat
          BY FilesAssumption
        <5> QED
          BY <5>1 DEF WrittenInv, FilesOk
      <4>3. dir = [j \in 1..boot.root_entries |-> dir[j]]
        BY DEF VolumeInv
      <4> QED
        BY <3>0, <3>1, <3>5, <3>6, <3>7, <4>1, <4>2, <4>3, SlotsKept
    <3>11. PICK s : SlotsOk(boot, slots, written \cup {f}, With(place, written, f, s), all)
      BY <3>10
    <3> HIDE DEF all
    <3> QED
      BY <3>6, <3>7, <3>8, <3>9, <3>11
  <2>4. ASSUME NEW free \in FindFreeClusters(boot, fat, ClustersNeeded(boot, f.len)),
               Stores(f, free)
        PROVE  FilesInv'
    BY <2>3, <2>4 DEF FilesInv
  <2> QED
    BY <2>1, <2>2, <2>4 DEF Refused
<1> QED
  BY <1>1, <1>2

(* The pieces of a long name. *)
LEMMA ChunksAre ==
  ASSUME NEW f \in Files
  PROVE  /\ Len(f.chunks) \in Nat \ {0}
         /\ f.chunks = [j \in 1..Len(f.chunks) |-> f.chunks[j]]
BY FilesAssumption

(* No two files have the same slots: their chains start apart. *)
LEMMA PlacesApart ==
  ASSUME VolumeInv, WrittenInv,
         NEW place, NEW chains, ChainsOk(boot, fat, written, chains),
         SlotsOk(boot, dir, written, place, chains),
         NEW f \in written, NEW g \in written, place[f] = place[g]
  PROVE  f = g
<1>1. boot \in BootSectors /\ {f, g} \subseteq Files \cup {OldFile}
  BY DEF VolumeInv, WrittenInv, FilesOk
<1>2. 1 \in 1..Span(boot, f) /\ 1 \in 1..Span(boot, g)
  <2>1. Span(boot, f) \in Nat \ {0} /\ Span(boot, g) \in Nat \ {0}
    BY <1>1, SpanIsNat
  <2> QED
    BY <2>1
<1>3. dir[place[f]].start = chains[f][1] /\ dir[place[g]].start = chains[g][1]
  BY DEF SlotsOk, Named
<1> QED
  BY <1>2, <1>3 DEF ChainsOk

(* A driver finds the slot of each file, and no other. *)
LEMMA SlotsSeen ==
  ASSUME VolumeInv, NEW place, NEW chains, SlotsOk(boot, dir, written, place, chains)
  PROVE  /\ \A f \in written : place[f] \in ShortSlots
         /\ \A t \in ShortSlots : \E f \in written : place[f] = t
<1>0. DOMAIN dir = 1..boot.root_entries /\ boot.root_entries \in Nat
  BY DirLen
<1>1. ASSUME NEW f \in written
      PROVE  place[f] \in ShortSlots
  <2>1. PICK s : s = place[f]
    OBVIOUS
  <2>2. s \in 1..boot.root_entries /\ dir[s].kind = "short"
    BY <2>1 DEF SlotsOk, Named
  <2>3. ASSUME NEW j \in 1..s, dir[j].kind = "end"
        PROVE  FALSE
    <3>1. j \in 1..boot.root_entries /\ (j = s \/ j < s)
      BY <1>0, <2>2
    <3>2. j < s => dir[s].kind = "end"
      BY <2>2, <2>3, <3>1 DEF SlotsOk
    <3> QED
      BY <2>2, <2>3, <3>1, <3>2
  <2> QED
    BY <1>0, <2>1, <2>2, <2>3 DEF ShortSlots
<1>2. \A t \in ShortSlots : \E f \in written : place[f] = t
  BY <1>0 DEF ShortSlots, SlotsOk
<1> QED
  BY <1>1, <1>2

(* And reads its long name in front of it. *)
LEMMA NamesSeen ==
  ASSUME VolumeInv, WrittenInv,
         NEW place, NEW chains, ChainsOk(boot, fat, written, chains),
         SlotsOk(boot, dir, written, place, chains), NEW f \in written
  PROVE  LongName(place[f]) = f.chunks
<1> DEFINE s == place[f]
           lengths == {m \in 1..s - 1 : \A j \in 1..m : Precedes(s, j, m)}
           n == Len(f.chunks)
<1>0. s \in 1..boot.root_entries /\ boot.root_entries \in Nat /\ dir[s].kind = "short"
      /\ dir[s].name = f.short /\ n < s
  BY DirLen DEF SlotsOk, Named
<1>1. LongName(s) = IF lengths = {} THEN <<>>
                    ELSE [j \in 1..(CHOOSE m \in lengths : TRUE) |-> dir[s - j].chunk]
  BY DEF LongName
<1>2. CASE f \in Files
  <2>1. n \in Nat \ {0} /\ f.chunks = [j \in 1..n |-> f.chunks[j]]
    BY <1>2, ChunksAre
  <2>2. \A j \in 1..n :
          /\ dir[s - j].kind = "lfn" /\ dir[s - j].seq = j
          /\ dir[s - j].last = (j = n)
          /\ dir[s - j].sum = Sum(dir[s].name) /\ dir[s - j].chunk = f.chunks[j]
    <3>1. Named(boot, dir, f, s, chains[f][1])
      BY DEF SlotsOk
    <3> QED
      BY <1>0, <3>1, Zenon DEF Named
  <2>3. \A m \in 1..s - 1 : m \in lengths <=> \A j \in 1..m : Precedes(s, j, m)
    OBVIOUS
  <2> HIDE DEF s, n, lengths
  <2>4. n \in lengths
    <3>1. n \in 1..s - 1
      BY <1>0, <2>1
    <3>2. \A j \in 1..n : Precedes(s, j, n)
      BY <2>2, Zenon DEF Precedes
    <3> QED
      BY <2>3, <3>1, <3>2
  <2>5. ASSUME NEW m \in lengths
        PROVE  m = n
    <3>1. m \in 1..s - 1 /\ m \in Nat \ {0} /\ \A j \in 1..m : Precedes(s, j, m)
      BY <1>0 DEF lengths
    <3>2. CASE m < n
      <4>1. m \in 1..n /\ m \in 1..m
        BY <2>1, <3>1, <3>2
      <4>2. dir[s - m].last = (m = n) /\ dir[s - m].last = (m = m)
        BY <2>2, <3>1, <4>1, Zenon DEF Precedes
      <4> QED
        BY <4>2, Zenon
    <3>3. CASE n < m
      <4>1. n \in 1..n /\ n \in 1..m
        BY <2>1, <3>1, <3>3
      <4>2. dir[s - n].last = (n = n) /\ dir[s - n].last = (n = m)
        BY <2>2, <3>1, <4>1, Zenon DEF Precedes
      <4> QED
        BY <4>2, Zenon
    <3> QED
      BY <2>1, <3>1, <3>2, <3>3
  <2>6. (CHOOSE m \in lengths : TRUE) = n /\ lengths # {}
    BY <2>4, <2>5
  <2>7. LongName(s) = [j \in 1..n |-> dir[s - j].chunk]
    BY <1>1, <2>6
  <2>8. [j \in 1..n |-> dir[s - j].chunk] = [j \in 1..n |-> f.chunks[j]]
    BY <2>2
  <2> QED
    BY <2>1, <2>7, <2>8 DEF s
<1>3. CASE f = OldFile
  <2>1. f.chunks = <<>> /\ Len(f.chunks) = 0
    BY <1>3, FilesAssumption
  <2> HIDE DEF s, lengths
  <2>2. ASSUME NEW m \in lengths
        PROVE  FALSE
    <3>1. m \in 1..s - 1 /\ s - 1 \in 1..boot.root_entries /\ 1 \in 1..m
          /\ \A j \in 1..m : Precedes(s, j, m)
      BY <1>0 DEF lengths
    <3>2. dir[s - 1].kind = "lfn"
      BY <3>1 DEF Precedes
    <3>3. PICK g \in written : \E j \in 1..Len(g.chunks) : s - 1 = place[g] - j
      BY <3>1, <3>2 DEF SlotsOk
    <3>4. PICK j \in 1..Len(g.chunks) : s - 1 = place[g] - j
      BY <3>3
    <3>5. Named(boot, dir, g, place[g], chains[g][1]) /\ Len(g.chunks) \in Nat
      <4>1. Len(g.chunks) \in Nat
        <5>1. g \in Files \/ g = OldFile
          BY DEF WrittenInv, FilesOk
        <5>2. g = OldFile => Len(g.chunks) = 0
          BY FilesAssumption
        <5> QED
          BY <5>1, <5>2, ChunksAre
      <4> QED
        BY <4>1 DEF SlotsOk
    <3>6. PICK t, l : t = place[g] /\ l = Len(g.chunks)
      OBVIOUS
    <3>7. t \in 1..boot.root_entries /\ \A i \in 1..l : dir[t - i].kind = "lfn"
      BY <3>5, <3>6 DEF Named
    <3>8. j \in 1..l /\ l \in Nat /\ s - 1 = t - j
      BY <3>4, <3>5, <3>6
    <3>9. CASE j = 1
      <4>1. t = s
        BY <1>0, <3>7, <3>8, <3>9
      <4>2. g = f
        BY <3>6, <4>1, PlacesApart DEF s
      <4> QED
        BY <2>1, <3>6, <3>8, <4>2
    <3>10. CASE j # 1
      <4>1. j - 1 \in 1..l /\ t - (j - 1) = s
        BY <1>0, <3>7, <3>8, <3>10
      <4> QED
        BY <1>0, <3>7, <4>1
    <3> QED
      BY <3>9, <3>10
  <2>3. lengths = {}
    BY <2>2
  <2> QED
    BY <1>1, <2>1, <2>3 DEF s
<1> QED
  BY <1>2, <1>3 DEF WrittenInv, FilesOk

(* And its bytes, along the chain that starts where the slot says. *)
LEMMA BytesSeen ==
  ASSUME VolumeInv, WrittenInv,
         NEW place, NEW chains, ChainsOk(boot, fat, written, chains),
         BytesOk(boot, data, written, chains),
         SlotsOk(boot, dir, written, place, chains), NEW f \in written
  PROVE  Holds(place[f], f)
<1>1. PICK n : n = Greatest(ClustersNeeded(boot, f.len), 1)
  OBVIOUS
<1>2. PICK chain : chain = chains[f]
  OBVIOUS
<1>3. n = Span(boot, f)
  BY <1>1 DEF Span
<1>4. chain \in [1..n -> 2..LastCluster(boot)]
  BY <1>2, <1>3 DEF ChainsOk, ChainIn
<1>5. dir[place[f]].start = chain[1]
  BY <1>2 DEF SlotsOk, Named
<1>6. \A i \in 1..n :
        EntryOf(chain[i]) = IF i < n THEN chain[i + 1] ELSE Eoc(FatType(boot))
  BY <1>2, <1>3 DEF ChainsOk, EntryOf, LinkTo
<1>7. \A i \in 1..n, r \in 1..ClusterSize(boot) :
        (i - 1) * ClusterSize(boot) + r <= f.len =>
          data[DataOffset(boot, chain[i]) + r] = Content(f)[(i - 1) * ClusterSize(boot) + r]
  BY <1>2, <1>3, Zenon DEF BytesOk, Carries
<1> QED
  BY <1>1, <1>4, <1>5, <1>6, <1>7, Zenon DEF Holds

(* A driver then finds every file. *)
LEMMA FilesFollow == VolumeInv /\ WrittenInv /\ FilesInv => FilesReadBack
<1> SUFFICES ASSUME VolumeInv, WrittenInv, FilesInv, ~ overrun, NEW f \in written
             PROVE  \E s \in ShortSlots :
                      /\ LongName(s) = f.chunks /\ dir[s].name = f.short /\ dir[s].size = f.len
                      /\ Holds(s, f)
                      /\ \A t \in ShortSlots : LongName(t) = f.chunks => t = s
  BY DEF FilesReadBack
<1>1. PICK place, chains :
        /\ ChainsOk(boot, fat, written, chains)
        /\ BytesOk(boot, data, written, chains)
        /\ SlotsOk(boot, dir, written, place, chains)
  BY DEF FilesInv
<1>2. place[f] \in ShortSlots
  BY <1>1, SlotsSeen
<1>3. \A h \in written : LongName(place[h]) = h.chunks
  BY <1>1, NamesSeen
<1>4. dir[place[f]].name = f.short /\ dir[place[f]].size = f.len
  BY <1>1 DEF SlotsOk, Named
<1>5. Holds(place[f], f)
  BY <1>1, BytesSeen
<1>6. ASSUME NEW t \in ShortSlots, LongName(t) = f.chunks
      PROVE  t = place[f]
  <2>1. PICK g \in written : place[g] = t
    BY <1>1, SlotsSeen
  <2>2. g.chunks = f.chunks
    BY <1>3, <1>6, <2>1
  <2>3. {f, g} \subseteq Files \cup {OldFile}
    BY DEF WrittenInv, FilesOk
  <2>4. g.name = f.name
    BY <2>2, <2>3, FilesAssumption
  <2> QED
    BY <2>1, <2>4 DEF WrittenInv, FilesOk
<1> QED
  BY <1>2, <1>3, <1>4, <1>5, <1>6

(* Every file on an image, those written and the one there before, is found
   once, with its size, its chain and its bytes, on every volume and after every
   sequence of writes that stay within it. *)
THEOREM Found == Spec => []FilesReadBack
<1>1. Init => VolumeInv /\ TablesInv /\ WrittenInv /\ FilesInv
  BY VolumeInit, TablesInit, WrittenInit, FilesInit
<1>2. VolumeInv /\ TablesInv /\ WrittenInv /\ FilesInv /\ [Next]_vars
        => (VolumeInv /\ TablesInv /\ WrittenInv /\ FilesInv)'
  BY VolumeStep, TablesStep, WrittenStep, FilesStep
<1>3. VolumeInv /\ TablesInv /\ WrittenInv /\ FilesInv => FilesReadBack
  BY FilesFollow
<1> QED
  BY <1>1, <1>2, <1>3, PTL DEF Spec

=============================================================================

-------------------------------- MODULE Bitmap --------------------------------
(***************************************************************************)
(* Bitmaps (lib/bitmap.c): bytes of bits, in the struct itself while they  *)
(* are few.  A byte is the set of its bits that are 1.  The code works on  *)
(* whole bytes, and on words when it searches; what a bitmap means is only *)
(* its bits below its length.                                              *)
(*                                                                         *)
(* bitmap_append does not compile and is left out, and so is bitcpy, which *)
(* only it uses.  Offsets are not negative: those of bset are not tested,  *)
(* and offset + 1 wraps to 0.  bitmap_rexpand is called to grow only.      *)
(*                                                                         *)
(* A definition whose name says what it does wrong is a faulty variant of  *)
(* the one after it, which the specification does not use.                 *)
(***************************************************************************)
EXTENDS Stores, FiniteSets, Sequences

CONSTANTS
  BYTE,                (* bits in a byte: 8                                 *)
  WORD,                (* bytes in a word of the search: 8                  *)
  BIGNUM_SMALL_SIZE,   (* bytes within the struct: 32                       *)
  MaxBits,             (* bound: the length of a bitmap                     *)
  BitLiterals          (* the bit strings of the scripts: sequences of 0, 1 *)

ASSUME BitmapAssumption ==
  /\ BYTE \in Nat \ {0} /\ WORD \in Nat \ {0} /\ BIGNUM_SMALL_SIZE \in Nat
  /\ MaxBits \in Nat \ {0}
  /\ \A s \in BitLiterals : s \in Seq({0, 1}) /\ Len(s) <= MaxBits

VARIABLE bm   (* a bitmap: length, is_large, data *)

BitsOfByte == 0..(BYTE - 1)
BytesFor(bits) == (bits + BYTE - 1) \div BYTE
AllocatedBytes(bits) == IF BytesFor(bits) <= BIGNUM_SMALL_SIZE THEN BIGNUM_SMALL_SIZE ELSE BytesFor(bits)

Bitmap(length, data) ==
  [length |-> length, is_large |-> Cardinality(DOMAIN data) > BIGNUM_SMALL_SIZE, data |-> data]
(* Bytes whose bits are given by a set of positions. *)
FromPositions(length, positions) ==
  Bitmap(length, [k \in 0..(AllocatedBytes(length) - 1) |->
                   {j \in BitsOfByte : k * BYTE + j \in positions}])

bitmap_create == Bitmap(0, [k \in 0..(BIGNUM_SMALL_SIZE - 1) |-> {}])
bitmap_create_with_size(bits) == FromPositions(bits, {})
bitmap_create_from_string(s) ==
  FromPositions(Len(s), {i \in 0..(Len(s) - 1) : s[i + 1] = 1})

(* More bytes, cleared; within the same bytes nothing is touched. *)
bitmap_rexpand(b, length) ==
  Bitmap(length, [k \in 0..(AllocatedBytes(length) - 1) |->
                   IF k < BytesFor(b.length) THEN b.data[k] ELSE {}])
Grown(b, length) == IF length > b.length THEN bitmap_rexpand(b, length) ELSE b
PutBits(byte, bits, value) == IF value = 1 THEN byte \cup bits ELSE byte \ bits

bitmap_get(b, i) == IF i % BYTE \in b.data[i \div BYTE] THEN 1 ELSE 0
bitmap_set(b, i, value) ==
  [Grown(b, i + 1) EXCEPT !.data[i \div BYTE] = PutBits(@, {i % BYTE}, value)]

(* Part of a byte, or the end of one, whole bytes and the start of one. *)
bitmap_set_range(b, from, length, value) ==
  LET grown == Grown(b, from + length)
      last == from + length - 1
      s_byte == from \div BYTE
      e_byte == last \div BYTE
      head == {j \in BitsOfByte : j >= from % BYTE}
      tail == {j \in BitsOfByte : j <= last % BYTE}
  IN IF s_byte = e_byte
     THEN [grown EXCEPT !.data[s_byte] = PutBits(@, head \cap tail, value)]
     ELSE [grown EXCEPT !.data = [k \in DOMAIN @ |->
            CASE k = s_byte -> PutBits(@[k], head, value)
              [] k = e_byte -> PutBits(@[k], tail, value)
              [] s_byte < k /\ k < e_byte -> IF value = 1 THEN BitsOfByte ELSE {}
              [] OTHER -> @[k]]]

bitmap_set_from_stream(b, from, s) ==
  LET grown == Grown(b, from + Len(s))
      written[i \in 0..Len(s)] ==
        IF i = 0 THEN grown
        ELSE [written[i - 1] EXCEPT !.data[(from + i - 1) \div BYTE] =
                PutBits(@, {(from + i - 1) % BYTE}, s[i])]
  IN written[Len(s)]

bitmap_count(b, from, to) == Cardinality({i \in from..to : bitmap_get(b, i) = 1})

-----------------------------------------------------------------------------
(* bitmap_find compares words; the last word may reach beyond the memory of *)
(* a large bitmap, where anything may stand (junk).                         *)
BitsOfWord == 0..(WORD * BYTE - 1)
NotFound == -1
WordAt(b, w, junk) ==
  {j \in BitsOfWord :
     LET k == w * WORD + j \div BYTE
     IN IF k \in DOMAIN b.data THEN j % BYTE \in b.data[k] ELSE j \in junk}
Lowest(S) == CHOOSE i \in S : \A j \in S : i <= j

bitmap_find(b, value, from, to, junk) ==
  LET size == WORD * BYTE
      first == from \div size
      last == to \div size
      Searched(w) == IF value = 1 THEN WordAt(b, w, junk) ELSE BitsOfWord \ WordAt(b, w, junk)
      inFirst == {j \in Searched(first) : j >= from % size /\ first * size + j <= to}
      between == {w \in (first + 1)..(last - 1) : Searched(w) # {}}
      inLast == {j \in Searched(last) : j <= to % size}
  IN IF inFirst # {} THEN first * size + Lowest(inFirst)
     ELSE IF first = last THEN NotFound
     ELSE IF between # {} THEN Lowest(between) * size + Lowest(Searched(Lowest(between)))
     ELSE IF inLast # {} THEN last * size + Lowest(inLast) ELSE NotFound

-----------------------------------------------------------------------------
(* The bit operations make a new bitmap, byte by byte. *)
ByteOf(b, k) == IF k < BytesFor(b.length) THEN b.data[k] ELSE {}
Bytewise(length, bytes) ==
  Bitmap(length, [k \in 0..(AllocatedBytes(length) - 1) |->
                   IF k < BytesFor(length) THEN bytes[k] ELSE {}])
Shorter(a, b) == IF a.length < b.length THEN a.length ELSE b.length
Longer(a, b) == IF a.length > b.length THEN a.length ELSE b.length

Common(a, b) == [k \in 0..MaxBits |-> ByteOf(a, k) \cap ByteOf(b, k)]
Either(a, b) == [k \in 0..MaxBits |-> ByteOf(a, k) \cup ByteOf(b, k)]
bitmap_bitand(a, b) == Bytewise(Shorter(a, b), Common(a, b))
bitmap_bitor(a, b) == Bytewise(Longer(a, b), Either(a, b))
bitmap_bitxor(a, b) ==
  Bytewise(Longer(a, b), [k \in 0..MaxBits |-> Either(a, b)[k] \ Common(a, b)[k]])

(* The bits beyond the length are cleared again. *)
bitmap_bitnot_leaves_the_end(a) ==
  [a EXCEPT !.data = [k \in DOMAIN @ |-> IF k < BytesFor(a.length) THEN BitsOfByte \ @[k] ELSE @[k]]]
bitmap_bitnot(a) ==
  [a EXCEPT !.data = [k \in DOMAIN @ |->
     IF k >= BytesFor(a.length) THEN @[k]
     ELSE {j \in BitsOfByte \ @[k] : k * BYTE + j < a.length}]]

bitmap_bitshl(a, shift) ==
  IF shift = 0 THEN a
  ELSE FromPositions(a.length + shift,
         {i + shift : i \in {i \in 0..(a.length - 1) : bitmap_get(a, i) = 1}})
bitmap_bitshr(a, shift) ==
  IF shift >= a.length THEN bitmap_create_from_string(<<0>>)
  ELSE IF shift = 0 THEN a
  ELSE FromPositions(a.length - shift,
         {i - shift : i \in {i \in shift..(a.length - 1) : bitmap_get(a, i) = 1}})

-----------------------------------------------------------------------------
(* Without memory an operation that needs some changes nothing, except that *)
(* an assignment has given up the old bytes: then the bitmap has none, and  *)
(* only another assignment may be done with it.                             *)
Lost == [length |-> bm.length, is_large |-> TRUE, data |-> <<>>]
IsLost == DOMAIN bm.data = {}

bitmap_assign(s) ==
  \/ bm' = bitmap_create_from_string(s)
  \/ AllocFails /\ AllocatedBytes(Len(s)) > BIGNUM_SMALL_SIZE /\ bm' = Lost

Offsets == 0..(MaxBits - 1)
Modifies ==
  \/ \E i \in Offsets, value \in {0, 1} : bm' = bitmap_set(bm, i, value)
  \/ \E from \in Offsets, length \in 1..MaxBits, value \in {0, 1} :
       from + length <= MaxBits /\ bm' = bitmap_set_range(bm, from, length, value)
  \/ \E from \in Offsets, s \in BitLiterals :
       Len(s) > 0 /\ from + Len(s) <= MaxBits /\ bm' = bitmap_set_from_stream(bm, from, s)

Combines ==
  \/ \E s \in BitLiterals :
       LET b == bitmap_create_from_string(s)
       IN bm' \in {bitmap_bitand(bm, b), bitmap_bitor(bm, b), bitmap_bitxor(bm, b)}
  \/ bm' = bitmap_bitnot(bm)
  \/ \E shift \in 0..MaxBits :
       \/ bm.length + shift <= MaxBits /\ bm' = bitmap_bitshl(bm, shift)
       \/ bm' = bitmap_bitshr(bm, shift)

BitmapNext ==
  \/ \E s \in BitLiterals : bitmap_assign(s)
  \/ ~IsLost /\ (Modifies \/ Combines)

-----------------------------------------------------------------------------
(* What a bitmap means: its length and which of its bits are 1. *)
Shown(b) == [length |-> b.length, ones |-> {i \in 0..(b.length - 1) : bitmap_get(b, i) = 1}]
BitsAre(length, ones) == [length |-> length, ones |-> ones]
LongerOf(m, n) == IF m > n THEN m ELSE n

WrittenTo(m, span, value) ==
  BitsAre(LongerOf(m.length, Lowest({n \in 0..MaxBits : \A i \in span : i < n})),
           IF value = 1 THEN m.ones \cup span ELSE m.ones \ span)

RangesExact(m) ==
  \A from \in Offsets : \A last \in from..(MaxBits - 1) : \A value \in {0, 1} :
    Shown(bitmap_set_range(bm, from, last - from + 1, value)) = WrittenTo(m, from..last, value)

SearchesExact(m) ==
  \A from \in 0..(m.length - 1) : \A to \in from..(m.length - 1) :
    /\ bitmap_count(bm, from, to) = Cardinality(m.ones \cap from..to)
    /\ \A value \in {0, 1}, junk \in {{}, BitsOfWord} :
         LET hits == {i \in from..to : (i \in m.ones) <=> (value = 1)}
         IN bitmap_find(bm, value, from, to, junk) = IF hits = {} THEN NotFound ELSE Lowest(hits)

CombinationsExact(m) ==
  /\ Shown(bitmap_bitnot(bm)) = BitsAre(m.length, (0..(m.length - 1)) \ m.ones)
  /\ \A s \in BitLiterals :
       LET b == bitmap_create_from_string(s)
           n == Shown(b)
           long == LongerOf(m.length, n.length)
       IN /\ Shown(bitmap_bitand(bm, b)) = BitsAre(m.length + n.length - long, m.ones \cap n.ones)
          /\ Shown(bitmap_bitor(bm, b)) = BitsAre(long, m.ones \cup n.ones)
          /\ Shown(bitmap_bitxor(bm, b)) = BitsAre(long, (m.ones \cup n.ones) \ (m.ones \cap n.ones))

StreamsExact(m) ==
  \A from \in Offsets, s \in BitLiterals :
    LET len == Len(s)
    IN len > 0 /\ from + len <= MaxBits =>
         Shown(bitmap_set_from_stream(bm, from, s)) =
           BitsAre(LongerOf(m.length, from + len),
                   {i \in Offsets : IF from <= i /\ i < from + len THEN s[i - from + 1] = 1 ELSE i \in m.ones})

ShiftsExact(m) ==
  \A shift \in 0..MaxBits :
    /\ m.length + shift <= MaxBits =>
         Shown(bitmap_bitshl(bm, shift)) = BitsAre(m.length + shift, {i + shift : i \in m.ones})
    /\ Shown(bitmap_bitshr(bm, shift)) =
         IF shift >= m.length THEN BitsAre(1, {})
         ELSE BitsAre(m.length - shift, {i \in Offsets : i + shift \in m.ones})

(* However a bitmap has come about, by growing, shifting or combining, what *)
(* is done next to its bytes and words is what its bits mean: bits that     *)
(* come into range when it grows or is shifted are 0, masks end where they  *)
(* should, a stream changes the bits it has, and a search finds the first   *)
(* match, whatever lies behind the bitmap in memory.                        *)
BitmapExact ==
  ~IsLost => LET m == Shown(bm) IN /\ RangesExact(m) /\ StreamsExact(m) /\ ShiftsExact(m)
                                   /\ SearchesExact(m) /\ CombinationsExact(m)
==============================================================================

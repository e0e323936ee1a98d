------------------------------- MODULE Bitmap --------------------------------
(***************************************************************************)
(* The bitmaps of lib/kernel/bitmap.c.  A map is the set of the bits that  *)
(* are 1, those above its length included: the code can reach the bit just *)
(* after the last one.                                                     *)
(***************************************************************************)
EXTENDS Integers

CONSTANT Byte   \* bits in a byte, 8 in the code

ASSUME ByteAssumption == Byte \in Nat \ {0}

Least(S) == CHOOSE x \in S : \A y \in S : x <= y

bitmap_scan_test(map, b) == b \in map


\* bitmap_scan: the first byte that is not full, the first free bit in it, and
\* then, for more than one bit, a count of the free bits since the last one
\* that was set.  count[b] is the count after bit b was tested; the loop goes
\* round as often as there are bits from start on, and the last bit it tests
\* is the one just after the map.
bitmap_scan(map, len, cnt) ==
  LET Full(i) == \A b \in 0..(Byte - 1) : bitmap_scan_test(map, Byte * i + b)
      idx == Least({i \in 0..len : i = len \/ ~Full(i)})
      start == Least({b \in Byte * idx..Byte * (idx + 1) : ~bitmap_scan_test(map, b)})
      count[b \in start..Byte * len] ==
        IF b = start THEN 1 ELSE IF bitmap_scan_test(map, b) THEN 0 ELSE count[b - 1] + 1
      hits == {b \in (start + 1)..Byte * len : count[b] = cnt}
  IN IF idx = len THEN -1
     ELSE IF cnt = 1 THEN start
     ELSE IF hits = {} THEN -1
     ELSE Least(hits) - cnt + 1

\* What it computes: the first run of cnt free bits, where a run of more than
\* one bit may end with the bit after the map.
FirstRun(map, len, cnt) ==
  LET seen == Byte * len + IF cnt = 1 THEN 0 ELSE 1
      runs == {r \in 0..(seen - cnt) : \A b \in r..(r + cnt - 1) : b \notin map}
  IN IF runs = {} THEN -1 ELSE Least(runs)

\* bitmap_set, on every bit of a set
bitmap_set(map, S) == map \cup S
bitmap_clear(map, S) == map \ S
=============================================================================

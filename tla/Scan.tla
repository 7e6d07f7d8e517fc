-------------------------------- MODULE Scan --------------------------------
(***************************************************************************)
(* The delimiter searches of src/parser/scan.rs.  Short inputs are read a  *)
(* word of Lanes bytes at a time: a subtraction over the whole word marks  *)
(* the lanes that are zero, and its borrow may mark a lane that is not.    *)
(*                                                                         *)
(* A byte has Bits bits, eight in the code; an index is 0-based; Option is *)
(* a set of at most one element.                                           *)
(***************************************************************************)
EXTENDS Naturals, Sequences, FiniteSets
LOCAL INSTANCE FiniteSetsExt
LOCAL INSTANCE Bitwise

CONSTANTS Bits, Lanes,
          Threshold,   \* SWAR_THRESHOLD, 64 in the code
          Colon, Slash, Question, Hash, Backslash, At, Tab, Open, Close

ASSUME ScanAssumption ==
  /\ Bits \in Nat \ {0, 1} /\ Lanes \in Nat \ {0, 1} /\ Threshold \in Nat
  /\ {Colon, Slash, Question, Hash, Backslash, At, Tab, Open, Close} \subseteq 0..2^Bits - 1

ByteAt(h, i) == h[i + 1]
Prefix(h, end) == SubSeq(h, 1, end)
Suffix(h, start) == SubSeq(h, start + 1, Len(h))
-----------------------------------------------------------------------------
(* Words.                                                                  *)

(* Lane 0 holds the first byte: the word is little-endian.                 *)
WordOf(bytes) == SumSet({bytes[k] * 2^(Bits * (k - 1)) : k \in {j \in 1..Lanes : bytes[j] # 0}})

ONES == WordOf([k \in 1..Lanes |-> 1])

(* load_u64_le(h, i) ^ splat(needle)                                       *)
Xored(h, i, needle) == WordOf([k \in 1..Lanes |-> ByteAt(h, i + k - 1) ^^ needle])

HighBit(x, lane) == (x \div 2^(Bits * lane + Bits - 1)) % 2 = 1

WrappingSub(x, y) == IF x >= y THEN x - y ELSE (x + 2^(Bits * Lanes)) - y

(* Mutant: lanes that had their high bit from the start are not ruled out. *)
ZeroLanesUnmasked(x) == {lane \in 0..Lanes - 1 : HighBit(WrappingSub(x, ONES), lane)}

(* has_zero_byte: the lanes whose high bit is set in the mask.             *)
ZeroLanes(x) ==
  {lane \in 0..Lanes - 1 : HighBit(WrappingSub(x, ONES), lane) /\ ~HighBit(x, lane)}

Mask(h, i, needles) == UNION {ZeroLanes(Xored(h, i, n)) : n \in needles}
-----------------------------------------------------------------------------
(* Searches.                                                               *)

(* swar_find, swar_find2, swar_find3, swar_find4                           *)
SwarFind(h, needles) ==
  LET full  == Len(h) - (Len(h) % Lanes)
      words == {i \in 0..full - 1 : i % Lanes = 0}
      hits  == {i \in words : Mask(h, i, needles) # {}}
      tail  == {i \in full..Len(h) - 1 : ByteAt(h, i) \in needles}
  IN IF hits # {} THEN {Min(hits) + Min(Mask(h, Min(hits), needles))}
     ELSE IF tail # {} THEN {Min(tail)} ELSE {}

Verified(h, idx, needle) == ByteAt(h, idx) = needle

(* swar_rfind: words from the end, lanes from the highest.                 *)
SwarRfind(h, end, needle) ==
  LET words == {i \in 0..end : i + Lanes <= end /\ (end - i) % Lanes = 0}
      lanes == {idx \in UNION {{i + lane : lane \in Mask(h, i, {needle})} : i \in words} :
                  Verified(h, idx, needle)}
      head  == {i \in 0..(end % Lanes) - 1 : ByteAt(h, i) = needle}
  IN IF lanes # {} THEN {Max(lanes)} ELSE IF head # {} THEN {Max(head)} ELSE {}

(* memchr, memchr2, memchr3 and memrchr                                    *)
Matches(h, needles) == {i \in 0..Len(h) - 1 : ByteAt(h, i) \in needles}

Memchr(h, needles) == IF Matches(h, needles) = {} THEN {} ELSE {Min(Matches(h, needles))}

Memrchr(h, needle) == IF Matches(h, {needle}) = {} THEN {} ELSE {Max(Matches(h, {needle}))}

(* The smaller of two Options.                                             *)
Earlier(a, b) == IF a \cup b = {} THEN {} ELSE {Min(a \cup b)}

(* find1, find2, find3                                                     *)
Find(h, needles) ==
  IF Len(h) < Threshold THEN SwarFind(h, needles) ELSE Memchr(h, needles)

(* find4; n4 is the needle memchr3 has no room for.                        *)
Find4(h, needles, n4) ==
  IF Len(h) < Threshold THEN SwarFind(h, needles \cup {n4})
  ELSE Earlier(Memchr(h, needles), Memchr(h, {n4}))

OrEnd(h, found) == IF found = {} THEN Len(h) ELSE Min(found)
-----------------------------------------------------------------------------
(* The searches the parser calls.                                          *)

FindAuthorityEnd(h, special) ==
  OrEnd(h, IF special THEN Find4(h, {Slash, Question, Hash}, Backslash)
           ELSE Find(h, {Slash, Question, Hash}))

FindLastAt(h, end) ==
  LET e == Min({end, Len(h)})
  IN IF e < Threshold THEN SwarRfind(h, e, At) ELSE Memrchr(Prefix(h, e), At)

FindPathDelim(h, special) ==
  IF special THEN Find4(h, {Slash, Backslash, Question}, Hash)
  ELSE Find(h, {Slash, Question, Hash})

FindPathDelimSetter(h, special) ==
  IF special THEN Find(h, {Slash, Backslash}) ELSE Find(h, {Slash})

FindHash(h) == Find(h, {Hash})

FindQueryOrHash(h) == Find(h, {Question, Hash})

(* The three ignored characters are one byte here.                         *)
HasTab(h) == Find(h, {Tab}) # {}

FindFileHostEnd(h) ==
  LET end == OrEnd(h, Find4(h, {Slash, Backslash, Question}, Hash))
  IN <<end, HasTab(Prefix(h, end))>>

(* Is the byte at index i between brackets?                                *)
InsideFromOpen(h, i) == \E j \in 0..i - 1 : ByteAt(h, j) = Open   \* mutant: "]" is overlooked

Inside(h, i) ==
  \E j \in 0..i - 1 : ByteAt(h, j) = Open /\ \A k \in j..i - 1 : ByteAt(h, k) # Close

HostDelim(special) == {Colon, Slash, Question, Hash} \cup (IF special THEN {Backslash} ELSE {})

FindHostEndBracketed(h, special) ==
  LET stops == {i \in 0..Len(h) - 1 : ByteAt(h, i) \in HostDelim(special) /\ ~Inside(h, i)}
      end   == OrEnd(h, IF stops = {} THEN {} ELSE {Min(stops)})
  IN <<end, \E i \in 0..end - 1 : ByteAt(h, i) = Tab>>

FindHostEnd(h, special) ==
  LET start == OrEnd(h, {i \in 0..Len(h) - 1 : ByteAt(h, i) # Tab
                                               /\ \A j \in 0..i - 1 : ByteAt(h, j) = Tab})
      bracketed == FindHostEndBracketed(Suffix(h, start), special)
      plain == Find4(h, {Colon, Slash, Question}, Hash)
      end   == OrEnd(h, IF special THEN Earlier(plain, Find(h, {Backslash})) ELSE plain)
  IN IF start < Len(h) /\ ByteAt(h, start) = Open
     THEN <<start + bracketed[1], start > 0 \/ bracketed[2]>>
     ELSE <<end, start > 0 \/ HasTab(Prefix(h, end))>>
=============================================================================

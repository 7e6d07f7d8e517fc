----------------------------- MODULE NumberText -----------------------------
(***************************************************************************)
(* Numbers in texts: digits, u32::from_str_radix, and writing a number in  *)
(* decimal or in hexadecimal.  A token is one character.                   *)
(***************************************************************************)
EXTENDS UrlText
LOCAL INSTANCE SequencesExt
LOCAL INSTANCE FiniteSetsExt

HexDigit == <<"0", "1", "2", "3", "4", "5", "6", "7", "8", "9", "a", "b", "c", "d", "e", "f">>
UpperHex == <<"A", "B", "C", "D", "E", "F">>

DigitsBelow(radix) ==
  {HexDigit[i] : i \in 1..radix} \cup (IF radix = 16 THEN {UpperHex[i] : i \in 1..6} ELSE {})

(* char::to_digit                                                          *)
DigitValue == [d \in DigitsBelow(16) |->
  IF \E i \in 1..16 : HexDigit[i] = d THEN (CHOOSE i \in 1..16 : HexDigit[i] = d) - 1
  ELSE (CHOOSE i \in 1..6 : UpperHex[i] = d) + 9]

IsNumber(s, radix) == \A i \in DOMAIN s : s[i] \in DigitsBelow(radix)

(* from_str_radix into a type whose largest value is max; max + 1 when the *)
(* number does not fit.                                                    *)
NumberOf(s, radix, max) ==
  FoldLeft(LAMBDA n, d : IF n <= max /\ n <= (max - DigitValue[d]) \div radix
                         THEN n * radix + DigitValue[d] ELSE max + 1, 0, s)

(* The digits of n, without leading zeros.                                 *)
NumberText(n, radix) ==
  LET width == CHOOSE w \in 1..8 : n < radix^w /\ (w > 1 => n >= radix^(w - 1))
  IN [i \in 1..width |-> HexDigit[((n \div radix^(width - i)) % radix) + 1]]

(* The texts joined with a separator between them.                         *)
JoinWith(texts, separator) ==
  FoldLeftDomain(LAMBDA s, i : s \o (IF i = 1 THEN <<>> ELSE separator) \o texts[i], <<>>, texts)
=============================================================================

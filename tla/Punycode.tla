------------------------------ MODULE Punycode ------------------------------
(***************************************************************************)
(* RFC 3492 as src/parser/punycode.rs writes it: every addition and        *)
(* multiplication is checked, and a value above U32Max is an error.        *)
(*                                                                         *)
(* Labels and texts are sequences of code points.  An operator that may    *)
(* fail returns a set: {} is Err or None, {x} is Ok(x).                    *)
(***************************************************************************)
EXTENDS Naturals, Sequences
LOCAL INSTANCE SequencesExt
LOCAL INSTANCE FiniteSetsExt

CONSTANTS U32Max,          \* u32::MAX
          MaxCodePoint,    \* char::MAX, 0x10FFFF
          Surrogates,      \* 0xD800..0xDFFF
          MaxLabel,        \* MAX_LABEL_CODE_POINTS
          MaxAce           \* MAX_ACE_OCTETS

ASSUME PunycodeAssumption ==
  /\ {U32Max, MaxCodePoint, MaxLabel, MaxAce} \subseteq Nat \ {0}
  /\ Surrogates \subseteq 0..MaxCodePoint

Base == 36
TMin == 1
TMax == 26
Skew == 38
Damp == 700
InitialBias == 72
InitialN == 128

Hyphen == 45

Lower(b) == IF b \in 65..90 THEN b + 32 ELSE b
IsAscii(s) == \A i \in DOMAIN s : s[i] < 128
LowerAll(s) == [i \in DOMAIN s |-> Lower(s[i])]

(* digit_to_byte and byte_to_digit                                         *)
DigitToByte(d) == IF d <= 25 THEN 97 + d ELSE 48 + (d - 26)

ByteToDigit(b) ==
  CASE Lower(b) \in 97..122 -> {Lower(b) - 97}
    [] b \in 48..57 -> {(b - 48) + 26}
    [] OTHER -> {}

(* x * y + z, checked                                                      *)
Fits(x, y, z) == z <= U32Max /\ (y = 0 \/ x <= (U32Max - z) \div y)

Threshold(k, bias) == IF k <= bias THEN TMin ELSE Min({TMax, k - bias})

RECURSIVE Scaled(_, _)
Scaled(delta, k) ==
  IF delta > ((Base - TMin) * TMax) \div 2 THEN Scaled(delta \div (Base - TMin), k + Base)
  ELSE k + (((Base - TMin) + 1) * delta) \div (delta + Skew)

Adapt(delta, points, first) ==
  LET halved == IF first THEN delta \div Damp ELSE delta \div 2
  IN Scaled(halved + (halved \div points), 0)
-----------------------------------------------------------------------------
(* encode_punycode                                                         *)

(* One delta in digits, the least significant first.                       *)
RECURSIVE Digits(_, _, _)
Digits(q, k, bias) ==
  LET t == Threshold(k, bias)
  IN IF q < t THEN <<DigitToByte(q)>>
     ELSE <<DigitToByte(t + ((q - t) % (Base - t)))>> \o Digits((q - t) \div (Base - t), k + Base, bias)

EncodePointNeverFirst(s, cp) ==   \* mutant: the first delta is not damped
  CASE cp < s.n -> [s EXCEPT !.delta = @ + 1, !.ok = @ /\ s.delta < U32Max]
    [] cp = s.n -> [s EXCEPT !.out = @ \o Digits(s.delta, Base, s.bias),
                             !.bias = Adapt(s.delta, s.h + 1, FALSE),
                             !.delta = 0, !.h = @ + 1]
    [] OTHER -> s

(* One code point of the pass for s.n: those below count into the delta,   *)
(* s.n itself is written.                                                  *)
EncodePoint(s, cp) ==
  CASE cp < s.n -> [s EXCEPT !.delta = @ + 1, !.ok = @ /\ s.delta < U32Max]
    [] cp = s.n -> [s EXCEPT !.out = @ \o Digits(s.delta, Base, s.bias),
                             !.bias = Adapt(s.delta, s.h + 1, s.h = s.basic),
                             !.delta = 0, !.h = @ + 1]
    [] OTHER -> s

(* What skipping one value of n adds to the delta.                         *)
Weight(label, s) == s.h + 1

RECURSIVE EncodePasses(_, _)
EncodePasses(label, s) ==
  IF s.h = Len(label) THEN {s.out}
  ELSE LET m      == Min({label[i] : i \in {j \in DOMAIN label : label[j] >= s.n}})
           pass   == FoldLeft(EncodePoint, [s EXCEPT !.delta = @ + (m - s.n) * Weight(label, s),
                                               !.n = m], label)
       IN IF ~Fits(m - s.n, Weight(label, s), s.delta) \/ ~pass.ok \/ pass.delta = U32Max \/ m = U32Max
          THEN {} ELSE EncodePasses(label, [pass EXCEPT !.delta = @ + 1, !.n = @ + 1])

Encode(label) ==
  LET basic == LowerAll(SelectSeq(label, LAMBDA cp : cp < 128))
      start == [n |-> InitialN, delta |-> 0, bias |-> InitialBias, h |-> Len(basic),
                basic |-> Len(basic), ok |-> TRUE,
                out |-> IF basic = <<>> THEN <<>> ELSE Append(basic, Hyphen)]
  IN IF Len(label) > MaxLabel THEN {}
     ELSE {text \in EncodePasses(label, start) : Len(text) <= MaxAce}
-----------------------------------------------------------------------------
(* decode_punycode                                                         *)

(* One delta added to i: {} or {[pos, i]}; pos counts the digits read.     *)
RECURSIVE ReadDelta(_, _, _, _, _, _)
ReadDelta(rest, pos, i, w, k, bias) ==
  LET t == Threshold(k, bias)
      digits == IF pos = Len(rest) THEN {} ELSE ByteToDigit(rest[pos + 1])
  IN UNION { IF ~Fits(digit, w, i) THEN {}
             ELSE IF digit < t THEN {[pos |-> pos + 1, i |-> i + digit * w]}
             ELSE IF ~Fits(w, Base - t, 0) THEN {}
             ELSE ReadDelta(rest, pos + 1, i + digit * w, w * (Base - t), k + Base, bias)
             : digit \in digits }

RECURSIVE Insertions(_, _)
Insertions(rest, s) ==
  IF s.pos = Len(rest) THEN {s.out}
  ELSE UNION {
    LET len == Len(s.out) + 1
        n   == s.n + (r.i \div len)
        at  == r.i % len
    IN IF Len(s.out) >= MaxLabel \/ n > MaxCodePoint \/ n \in Surrogates THEN {}
       ELSE Insertions(rest, [pos |-> r.pos, i |-> at + 1, n |-> n,
                              bias |-> Adapt(r.i - s.i, len, s.i = 0),
                              out |-> InsertAt(s.out, at + 1, n)])
    : r \in ReadDelta(rest, s.pos, s.i, 1, Base, s.bias) }

(* The place of the last delimiter: what stands before it is basic.        *)
LastHyphen(text) == Max({0} \cup {i \in DOMAIN text : text[i] = Hyphen})

Decode(text) ==
  LET p == LastHyphen(text)
  IN Insertions(SubSeq(text, p + 1, Len(text)),
                [pos |-> 0, i |-> 0, n |-> InitialN, bias |-> InitialBias,
                 out |-> SubSeq(text, 1, p - 1)])
=============================================================================

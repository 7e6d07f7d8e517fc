----------------------------- MODULE HostParser -----------------------------
(***************************************************************************)
(* Hosts (src/parser/host.rs, and the parts of src/parser/mod.rs that cut  *)
(* them out): percent-decoding, domain to ASCII, the test for a number,    *)
(* addresses, and opaque hosts.  The URL parser appends a host to the      *)
(* href; the setters and file URLs parse it to a value first, through      *)
(* other entry points.                                                     *)
(*                                                                         *)
(* A text is a sequence of bytes here, the UTF-8 of a &str; a host is      *)
(* {[text, kind]}, or {} for Err.                                          *)
(***************************************************************************)
EXTENDS Idna
LOCAL INSTANCE SequencesExt

CONSTANTS AddressMax, ByteBits   \* see Ipv4

V4 == INSTANCE Ipv4 WITH Tokens <- STRING, U32Max <- AddressMax
V6 == INSTANCE Ipv6 WITH Tokens <- STRING, U32Max <- AddressMax, Pieces <- 8

Percent == 37
Open    == 91
Close   == 93
Ignored == {9, 10, 13}    \* tab, LF, CR

ForbiddenHost == {0, 9, 10, 13, 32, 35, 47, 58, 60, 62, 63, 64, 91, 92, 93, 94, 124}
C0Encode      == 0..31 \cup 127..255

WithoutIgnored(s) == SelectSeq(s, LAMBDA b : b \notin Ignored)

(* The characters of numbers and addresses; every other byte is alike.     *)
CharOf == [b \in 0..255 |->
  CASE b \in 48..57  -> V4!HexDigit[b - 47]
    [] b \in 97..102 -> V4!HexDigit[b - 86]
    [] b \in 65..70  -> V4!UpperHex[b - 64]
    [] b = 46  -> "."
    [] b = 58  -> ":"
    [] b = 120 -> "x"
    [] b = 88  -> "X"
    [] OTHER   -> "other"]

Chars(s) == [i \in DOMAIN s |-> CharOf[s[i]]]
Bytes(t) == [i \in DOMAIN t |-> CHOOSE b \in 0..255 : CharOf[b] = t[i]]
-----------------------------------------------------------------------------
(* percent_decode: a "%" without two hexadecimal digits stands for itself. *)

HexValue(b) == V4!DigitValue[CharOf[b]]
IsHex(b)    == CharOf[b] \in V4!DigitsBelow(16)

PercentDecodeShort(s) ==   \* mutant: i + 3 < len, a triple at the end is left
  FoldLeftDomain(
    LAMBDA w, i :
      IF w.skip > 0 THEN [w EXCEPT !.skip = @ - 1]
      ELSE IF s[i] = Percent /\ i + 2 < Len(s) /\ IsHex(s[i + 1]) /\ IsHex(s[i + 2])
      THEN [skip |-> 2, out |-> Append(w.out, 16 * HexValue(s[i + 1]) + HexValue(s[i + 2]))]
      ELSE [w EXCEPT !.out = Append(@, s[i])],
    [skip |-> 0, out |-> <<>>], s).out

PercentDecode(s) ==
  FoldLeftDomain(
    LAMBDA w, i :
      IF w.skip > 0 THEN [w EXCEPT !.skip = @ - 1]
      ELSE IF s[i] = Percent /\ i + 2 <= Len(s) /\ IsHex(s[i + 1]) /\ IsHex(s[i + 2])
      THEN [skip |-> 2, out |-> Append(w.out, 16 * HexValue(s[i + 1]) + HexValue(s[i + 2]))]
      ELSE [w EXCEPT !.out = Append(@, s[i])],
    [skip |-> 0, out |-> <<>>], s).out

(* append_percent                                                          *)
Triple(b) ==
  LET Upper16(n) == IF n < 10 THEN 48 + n ELSE 55 + n
  IN <<Percent, Upper16(b \div 16), Upper16(b % 16)>>

(* utf8_percent_encode                                                     *)
PercentEncode(s, set) ==
  FlattenSeq([i \in DOMAIN s |-> IF s[i] \in set THEN Triple(s[i]) ELSE <<s[i]>>])

(* core::str::from_utf8                                                    *)
Continuation == 128..191

Followers(b) == CASE b < 128 -> 0 [] b \in 194..223 -> 1 [] b \in 224..239 -> 2 [] OTHER -> 3

PointAt(s, i) ==
  LET n == Followers(s[i])
  IN FoldLeft(LAMBDA p, b : (p * 64) + (b % 64), IF n = 0 THEN s[i] ELSE s[i] % 2^(6 - n),
              SubSeq(s, i + 1, i + n))

FromUtf8(s) ==
  LET starts == {i \in DOMAIN s : s[i] \notin Continuation}
      Ends(i) == i + Followers(s[i])
      Formed(i) ==
        /\ s[i] \notin {192, 193} \cup 245..255
        /\ Ends(i) <= Len(s) /\ i + 1..Ends(i) \cap starts = {}
        /\ Followers(s[i]) = 2 => PointAt(s, i) >= 2048 /\ PointAt(s, i) \notin Surrogates
        /\ Followers(s[i]) = 3 => PointAt(s, i) \in 65536..MaxCodePoint
      order == SelectSeq([i \in DOMAIN s |-> i], LAMBDA i : i \in starts)
  IN IF /\ \A i \in starts : Formed(i)
        /\ \A i \in DOMAIN s \ starts : \E j \in starts : i \in j..Ends(j)
     THEN {[k \in DOMAIN order |-> PointAt(s, order[k])]} ELSE {}
-----------------------------------------------------------------------------
(* Hosts of special URLs.                                                  *)

InBrackets(s) == s # <<>> /\ s[1] = Open

Ipv6Host(s) ==
  IF Len(s) < 2 \/ s[Len(s)] # Close THEN {}
  ELSE {[text |-> <<Open>> \o Bytes(V6!WriteIpv6(a)) \o <<Close>>, kind |-> "ipv6"] :
          a \in V6!ParseIpv6(Chars(SubSeq(s, 2, Len(s) - 1)))}

Ipv4Host(ascii) ==
  {[text |-> Bytes(V4!WriteIpv4(ip)), kind |-> "ipv4"] : ip \in V4!ParseIpv4(Chars(ascii))}

DomainHost(ascii) ==
  IF V4!EndsInANumber(Chars(ascii)) THEN Ipv4Host(ascii) ELSE {[text |-> ascii, kind |-> "domain"]}

(* parse_host and domain_or_ipv4                                           *)
ParseHost(s) ==
  IF InBrackets(s) THEN Ipv6Host(s)
  ELSE UNION {DomainHost(ascii) : ascii \in UNION {ToAscii(d) : d \in FromUtf8(PercentDecode(s))}}

(* append_host and append_domain_or_ipv4: the domain is written behind     *)
(* `out`, and cut off again when it was an address.                        *)
AppendDomainOrIpv4(decoded, out) ==
  LET written == {w.out : w \in {v \in {AppendValidated(decoded, out)} : v.ok}}
      Ascii(t) == SubSeq(t, Len(out) + 1, Len(t))
      Kept(t)  == IF V4!EndsInANumber(Chars(Ascii(t)))
                  THEN {[h EXCEPT !.text = out \o @] : h \in Ipv4Host(Ascii(t))}
                  ELSE {[text |-> t, kind |-> "domain"]}
  IN UNION {Kept(t) : t \in written}

AppendHost(s, out) ==
  IF InBrackets(s) THEN {[h EXCEPT !.text = out \o @] : h \in Ipv6Host(s)}
  ELSE UNION {AppendDomainOrIpv4(d, out) : d \in FromUtf8(PercentDecode(s))}
-----------------------------------------------------------------------------
(* Opaque hosts.  Where a tab is dropped each byte becomes a char of its   *)
(* own, as `char::from` does: two bytes where the byte is no ASCII.        *)
Latin1(b) == IF b < 128 THEN <<b>> ELSE <<192 + (b \div 64), 128 + (b % 64)>>

ParseOpaqueHost(s) ==
  LET rest    == WithoutIgnored(s)
      cleaned == IF rest = s THEN s ELSE FlattenSeq([i \in DOMAIN rest |-> Latin1(rest[i])])
  IN IF InBrackets(cleaned) THEN Ipv6Host(cleaned)
     ELSE IF Has(cleaned, ForbiddenHost) THEN {}
     ELSE {[text |-> PercentEncode(cleaned, C0Encode), kind |-> "domain"]}

(* parse_host_input_append and append_opaque_host: what the URL parser     *)
(* does with the text find_host_end cut out.                               *)
HostInput(special, s, out) ==
  LET visible == WithoutIgnored(s)
  IN IF ~special THEN {[h EXCEPT !.text = out \o @] : h \in ParseOpaqueHost(visible)}
     ELSE IF visible = <<>> THEN {} ELSE AppendHost(visible, out)

(* parse_host_setter, behind find_host_end                                 *)
HostForSetter(special, s) ==
  LET visible == WithoutIgnored(s)
  IN IF ~special THEN ParseOpaqueHost(visible)
     ELSE IF visible = <<>> THEN {} ELSE ParseHost(visible)
=============================================================================

-------------------------------- MODULE Ipv4 --------------------------------
(***************************************************************************)
(* IPv4 addresses in special hosts (src/parser/host.rs), on the text that  *)
(* domain-to-ASCII returned.  A host whose last label looks like a number  *)
(* is an IPv4 address or an error, never a domain.                         *)
(*                                                                         *)
(* An address is a number of four bytes.  A byte has ByteBits bits, eight  *)
(* in the code; U32Max is the largest number of four bytes.                *)
(***************************************************************************)
EXTENDS NumberText
LOCAL INSTANCE SequencesExt

CONSTANT ByteBits

ASSUME ByteAssumption == ByteBits \in Nat \ {0} /\ U32Max = 2^(4 * ByteBits) - 1

ByteMax  == 2^ByteBits - 1
Overflow == U32Max + 1
-----------------------------------------------------------------------------
(* parse_ipv4_number: {} is Err, {Overflow} is Ok(None).                   *)
ParseIpv4Number(s) ==
  LET prefix == IF TextAt(s, 0, <<"0", "x">>) \/ TextAt(s, 0, <<"0", "X">>)
                THEN [len |-> 2, radix |-> 16]
                ELSE IF Len(s) >= 2 /\ s[1] = "0" THEN [len |-> 1, radix |-> 8]
                ELSE [len |-> 0, radix |-> 10]
      digits == From(s, prefix.len)
  IN IF s = <<>> \/ ~IsNumber(digits, prefix.radix) THEN {}
     ELSE {NumberOf(digits, prefix.radix, U32Max)}

(* s.split('.') without the empty part behind a trailing dot.              *)
Parts(s) == LET raw == SplitAt(s, ".")
            IN IF Last(raw) = <<>> THEN Front(raw) ELSE raw

LastPart(s) == IF Parts(s) = <<>> THEN <<>> ELSE Last(Parts(s))

(* ends_in_a_number                                                        *)
EndsInANumber(s) ==
  /\ LastPart(s) # <<>>
  /\ IsNumber(LastPart(s), 10) \/ ParseIpv4Number(LastPart(s)) # {}

LastTooLargeByte(last, before) == last > U32Max   \* mutant: no room is kept for the others

(* The last number fills the bytes the others leave.                       *)
LastTooLarge(last, before) == last > U32Max \div 2^(ByteBits * before)

(* parse_ipv4                                                              *)
ParseIpv4(s) ==
  LET parts   == Parts(s)
      numbers == [i \in DOMAIN parts |-> CHOOSE n \in ParseIpv4Number(parts[i]) : TRUE]
      last    == Last(numbers)
      before  == Front(numbers)
      Shifted(sum, i) == (sum + before[i] * 2^(ByteBits * (4 - i))) % (U32Max + 1)
  IN IF \/ Len(parts) \notin 1..4
        \/ \E i \in DOMAIN parts : ParseIpv4Number(parts[i]) \in {{}, {Overflow}}
        \/ LastTooLarge(last, Len(before))
        \/ \E i \in DOMAIN before : before[i] > ByteMax
     THEN {} ELSE {FoldLeftDomain(Shifted, last, before)}

(* Ipv4Addr::octets, i from 1 to 4                                         *)
Octet(ip, i) == (ip \div 2^(ByteBits * (4 - i))) % 2^ByteBits

Decimal(x) == HexDigit[(x % 10) + 1]   \* char::from(b'0' + x)

OctetText(o) ==
  IF o >= 100 THEN <<Decimal(o \div 100), Decimal(o \div 10), Decimal(o)>>
  ELSE IF o >= 10 THEN <<Decimal(o \div 10), Decimal(o)>>
  ELSE <<Decimal(o)>>

(* write_ipv4_to                                                           *)
WriteIpv4(ip) == JoinWith([i \in 1..4 |-> OctetText(Octet(ip, i))], <<".">>)

(* append_domain_or_ipv4: {} is Err, {[text, kind]} what stands in the href. *)
DomainOrIpv4(ascii) ==
  IF ascii = <<>> THEN {}
  ELSE IF EndsInANumber(ascii)
  THEN {[text |-> WriteIpv4(ip), kind |-> "ipv4"] : ip \in ParseIpv4(ascii)}
  ELSE {[text |-> ascii, kind |-> "domain"]}
=============================================================================

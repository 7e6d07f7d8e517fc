------------------------------- MODULE MCBytes -------------------------------
(***************************************************************************)
(* The code that works on bytes, each part a family of behaviours of its   *)
(* own, chosen by `part` in the initial state:                             *)
(*   "buffer"   every short history of calls on the copy-on-write buffer;  *)
(*   "scan"     every short text searched for delimiters;                  *)
(*   "ipv4"     every host of up to five labels of one alphabet;           *)
(*   "host"     every host of a few characters that the fast path sees;    *)
(*   "ipv6"     every short text between brackets;                         *)
(*   "address"  every IPv6 address of eight pieces of a few values.        *)
(* The last five are functions of a text: their behaviours grow it.        *)
(***************************************************************************)
EXTENDS CowBuffer, FastHost, Scan

CONSTANTS MaxHaystack, MaxHost, MaxWords, \* the lengths of the texts of a part
          Letter                          \* a byte that is no delimiter

VARIABLES part, text

bvars == <<part, text, vars>>

AnyString == STRING

Short   == INSTANCE Ipv6 WITH Pieces <- 3   \* six words fill it
Address == INSTANCE Ipv6 WITH Pieces <- 8

ASSUME Short!PiecesAssumption /\ Address!PiecesAssumption
-----------------------------------------------------------------------------
(* The buffer: chars of one byte and of two, two of which share their      *)
(* first byte; an input that repeats itself, so that equal bytes stand at  *)
(* two addresses.                                                          *)

BufferSource == {<<>>, <<"a", "c3", "a9", "a">>, <<"a", "a">>, <<"c3", "a8", "c3", "a9">>}
BufferChar   == {<<"a">>, <<"b">>, <<"c3", "a9">>, <<"c3", "a8">>}
BufferStr    == {<<>>, <<"a">>, <<"c3", "a9", "a">>, <<"b", "c3", "a8">>}

(* The delimiters and one letter, the neighbour of "@" (as "A" is),        *)
(* searched in words of two lanes below the threshold and by memchr above. *)
Delimiter == {Colon, Slash, Question, Hash, Backslash, At, Tab, Open, Close, Letter}

(* Numbers in three radixes at the borders of one, two, three and four     *)
(* bytes, empty labels, and letters that are no digits.  A byte has seven  *)
(* bits here, so that an address fits in the integers of the checker and   *)
(* an octet still has three digits.  A fifth label is empty or 0.          *)
Label(n) ==
  {<<>>, <<"0">>} \cup
  IF n = 5 THEN {}
  ELSE { <<"0", "x">>, <<"0", "X", "7", "F">>, <<"0", "8">>, <<"h">>,
         <<"1", "0", "0">>, <<"1", "2", "7">>, <<"1", "2", "8">>,
         <<"1", "6", "3", "8", "3">>, <<"1", "6", "3", "8", "4">>,
         <<"0", "x", "1", "f", "f", "f", "f", "f">>, <<"0", "1", "0", "0", "0", "0", "0", "0", "0">>,
         <<"2", "6", "8", "4", "3", "5", "4", "5", "6">> }

(* A decimal, an octal and a hexadecimal digit, the "x" of a prefix, a     *)
(* letter of no number, and the dots that make labels.                     *)
Character == {"0", "9", "f", "x", "g", ".", "-", "H"}

(* What the texts between brackets are made of.                            *)
Word == {<<":">>, <<":", ":">>, <<".">>, <<"0">>, <<"F", "f", "f", "f">>, <<"2", "5", "6">>,
         <<"1", ".", "0", ".">>}
-----------------------------------------------------------------------------
NoBuffer == source = <<>> /\ state = Borrowed(0) /\ last = [op |-> "new"] /\ result = {}

BInit == /\ \/ part = "buffer" /\ Init
            \/ part \in {"scan", "ipv4", "host", "ipv6", "address"} /\ NoBuffer
         /\ text = <<>>

Grow(p, max, more) == /\ part = p /\ Len(text) < max
                      /\ \E m \in more : text' = Append(text, m)
                      /\ UNCHANGED <<part, vars>>

BNext == \/ part = "buffer" /\ Next /\ UNCHANGED <<part, text>>
         \/ Grow("scan", MaxHaystack, Delimiter)
         \/ Grow("ipv4", 5, Label(Len(text) + 1))
         \/ Grow("host", MaxHost, Character)
         \/ Grow("ipv6", MaxWords, Word)
         \/ Grow("address", 8, {0, 1, 65535})

BSpec == BInit /\ [][BNext]_bvars
-----------------------------------------------------------------------------
(* Scans.  The index `found` (an Option) is the first place in h of a byte *)
(* of set.                                                                 *)
IsFirst(found, h, set) ==
  IF found = {} THEN \A i \in 1..Len(h) : h[i] \notin set
  ELSE \E k \in found : /\ k < Len(h) /\ h[k + 1] \in set
                        /\ \A i \in 1..k : h[i] \notin set

AuthorityDelim(special) == {Slash, Question, Hash} \cup (IF special THEN {Backslash} ELSE {})

(* Each search returns the first delimiter and no false match, whatever    *)
(* stands in the lanes behind it, and the same below and above the         *)
(* threshold; the userinfo ends at the last "@" before the given end: a    *)
(* lane marked by a borrow is never taken for it, and hides no earlier one. *)
FindsDelimiters ==
  part = "scan" =>
    /\ \A special \in BOOLEAN :
         /\ IsFirst({FindAuthorityEnd(text, special)} \ {Len(text)}, text, AuthorityDelim(special))
         /\ IsFirst(FindPathDelim(text, special), text, AuthorityDelim(special))
         /\ IsFirst(FindPathDelimSetter(text, special), text,
                    AuthorityDelim(special) \ {Question, Hash})
    /\ IsFirst(FindHash(text), text, {Hash})
    /\ IsFirst(FindQueryOrHash(text), text, {Question, Hash})
    /\ IsFirst({FindFileHostEnd(text)[1]} \ {Len(text)}, text, AuthorityDelim(TRUE))
    /\ \A end \in 0..Len(text) :
         LET found == FindLastAt(text, end)
         IN IF found = {} THEN \A i \in 1..end : text[i] # At
            ELSE \E k \in found : /\ k < end /\ text[k + 1] = At
                                  /\ \A i \in k + 2..end : text[i] # At

(* Where the standard's host state, which walks through the text with a    *)
(* flag for brackets, ends the host.                                       *)
StandardEnd(special) ==
  CHOOSE k \in 0..Len(text) :
    LET Stops(i) == text[i + 1] \in HostDelim(special) /\
          ~\E j \in 1..i : text[j] = Open /\ \A m \in j..i : text[m] # Close
    IN /\ \A i \in 0..k - 1 : ~Stops(i)
       /\ k = Len(text) \/ Stops(k)

(* The host ends where the standard says; only a text with a "[" that is   *)
(* not its first character may be cut earlier, and then that bracket is    *)
(* part of the host in both readings, which the host parser refuses.  The  *)
(* second result says whether the host has a tab to be skipped.            *)
EndsHostWhereTheStandardDoes ==
  part = "scan" =>
    \A special \in BOOLEAN :
      LET r       == FindHostEnd(text, special)
          visible == SelectSeq(SubSeq(text, 1, r[1]), LAMBDA b : b # Tab)
      IN /\ \/ r[1] = StandardEnd(special)
            \/ /\ r[1] < StandardEnd(special)
               /\ visible[1] # Open /\ \E i \in DOMAIN visible : visible[i] = Open
         /\ r[2] <=> Len(visible) < r[1]
         /\ FindFileHostEnd(text)[2]
              <=> \E i \in 1..FindFileHostEnd(text)[1] : text[i] = Tab
-----------------------------------------------------------------------------
(* IPv4 addresses.  `text` is the list of the labels.                      *)
Dotted == JoinWith(text, <<".">>)

(* Every number but the last is one byte of the address, and the last is   *)
(* the bytes that are left: nothing carries over into another byte.        *)
NumbersAreBytes ==
  part = "ipv4" =>
    \A ip \in ParseIpv4(Dotted) :
      LET n == Len(Parts(Dotted))
          NumberAt(i) == CHOOSE x \in ParseIpv4Number(Parts(Dotted)[i]) : TRUE
      IN /\ \A i \in 1..n - 1 : Octet(ip, i) = NumberAt(i)
         /\ ip % 2^(ByteBits * (5 - n)) = NumberAt(n)

(* No spelling of an address stays a domain.  In the general parser two    *)
(* functions read the labels apart: what parses as an address is known to  *)
(* be one.  In the fast path shortcuts decide: a host it keeps is a domain *)
(* for the host parser too, which writes it as it stands.                  *)
NoAddressIsADomain ==
  /\ part = "ipv4" => (ParseIpv4(Dotted) # {} => EndsInANumber(Dotted))
  /\ part = "host" => (FastKeepsHost(text) => DomainOrIpv4(text) = {[text |-> text, kind |-> "domain"]})
-----------------------------------------------------------------------------
(* IPv6 addresses: what a text denotes, by a definition that has no        *)
(* cursor.                                                                 *)
Bracketed == JoinWith(text, <<>>)

Byte(s) == /\ Len(s) \in 1..3 /\ IsNumber(s, 10) /\ NumberOf(s, 10, 999) <= 255
           /\ s[1] = "0" => Len(s) = 1

HexGroup(s) == Len(s) \in 1..4 /\ IsNumber(s, 16)

DottedBytes(s) == LET b == SplitAt(s, ".") IN Len(b) = 4 /\ \A i \in 1..4 : Byte(b[i])

DottedPieces(s) ==
  LET b == [i \in 1..4 |-> NumberOf(SplitAt(s, ".")[i], 10, 255)]
  IN <<b[1] * 256 + b[2], b[3] * 256 + b[4]>>

(* Groups separated by colons, the last of which may be an IPv4 address    *)
(* where the text ends with it.                                            *)
Groups(s, ends) ==
  LET g == SplitAt(s, ":")
      n == Len(g)
      Hex(k) == [i \in 1..k |-> NumberOf(g[i], 16, 65535)]
  IN IF s = <<>> THEN {<<>>}
     ELSE IF \E i \in 1..n - 1 : ~HexGroup(g[i]) THEN {}
     ELSE IF HexGroup(g[n]) THEN {Hex(n)}
     ELSE IF ends /\ DottedBytes(g[n]) THEN {Hex(n - 1) \o DottedPieces(g[n])}
     ELSE {}

(* At most one "::", which stands for one zero or more.                    *)
Denoted(s, pieces) ==
  LET double == {k \in 0..Len(s) - 2 : TextAt(s, k, <<":", ":">>)}
      Zeros(n) == [i \in 1..n |-> 0]
      sides == {<<left, right>> : left \in UNION {Groups(Upto(s, k), FALSE) : k \in double},
                                  right \in UNION {Groups(From(s, k + 2), TRUE) : k \in double}}
  IN IF double = {} THEN {a \in Groups(s, TRUE) : Len(a) = pieces}
     ELSE IF Cardinality(double) > 1 THEN {}
     ELSE {p[1] \o Zeros(pieces - Len(p[1]) - Len(p[2])) \o p[2] :
             p \in {q \in sides : Len(q[1]) + Len(q[2]) < pieces}}

(* The parser accepts exactly the texts that denote an address, and        *)
(* returns that address: no piece is lost, swapped or left from a "::".    *)
ParsesWhatIsDenoted == part = "ipv6" => Short!ParseIpv6(Bracketed) = Denoted(Bracketed, 3)

(* Among the zero runs of two or more pieces the longest is left out, and  *)
(* the first of the longest.                                               *)
LeavesOutLongest(a) ==
  LET runs == {<<i, n>> \in (1..8) \X (2..8) :
                 i + n - 1 <= 8 /\ \A j \in i..i + n - 1 : a[j] = 0}
      zeros == Address!LongestZeroSequence(a)
  IN IF runs = {} THEN zeros = Address!NoRun
     ELSE /\ <<zeros.start, zeros.len>> \in runs
          /\ \A r \in runs : r[2] < zeros.len \/ (r[2] = zeros.len /\ r[1] >= zeros.start)

(* A host is a fixed point: what is written for it, a domain or an address *)
(* in any spelling, is read back as the same host, and an IPv6 address has *)
(* one spelling.                                                           *)
HostIsAFixedPoint ==
  /\ part = "ipv4" => \A h \in DomainOrIpv4(Dotted) : DomainOrIpv4(h.text) = {h}
  /\ part = "address" /\ Len(text) = 8 =>
       /\ Address!ParseIpv6(Address!WriteIpv6(text)) = {text}
       /\ LeavesOutLongest(text)
=============================================================================

-------------------------------- MODULE Ipv6 --------------------------------
(***************************************************************************)
(* IPv6 addresses (src/parser/host.rs): the parser of the text between the *)
(* brackets, which keeps a cursor into the text, a cursor into the pieces  *)
(* and the place of "::", and the writer with its search for the longest   *)
(* run of zeros.  An address has Pieces pieces, eight in the code.         *)
(***************************************************************************)
EXTENDS NumberText
LOCAL INSTANCE SequencesExt
LOCAL INSTANCE FiniteSetsExt

CONSTANT Pieces

PiecesAssumption == Pieces \in Nat /\ Pieces >= 2

PieceMax == 65535
Absent   == Pieces + 1    \* compress_pointer is None
-----------------------------------------------------------------------------
(* The parser's locals: `at` and `piece` are the cursors, `next` is the    *)
(* part of the parser that goes on from there.                             *)

Start(s) ==
  LET p == [at |-> 0, piece |-> 0, compress |-> Absent, seen |-> 0, next |-> "pieces",
            pieces |-> [i \in 1..Pieces |-> 0]]
  IN IF Len(s) < 2 THEN [p EXCEPT !.next = "failure"]
     ELSE IF s[1] # ":" THEN p
     ELSE IF s[2] # ":" THEN [p EXCEPT !.next = "failure"]
     ELSE [p EXCEPT !.at = 2, !.piece = 1, !.compress = 1]

Fail(p) == [p EXCEPT !.next = "failure"]

(* Digits of the set from offset i on, at most `most` of them.             *)
Digits(s, i, set, most) ==
  Slice(s, i, Max({j \in i..Min({Len(s), i + most}) :
                     \A k \in i + 1..j : s[k] \in set}))

(* Mutant: an IPv4 address must leave a piece behind it.                   *)
TooFarForIpv4Early(p) == p.piece >= Pieces - 2

TooFarForIpv4(p) == p.piece > Pieces - 2

(* One round of the loop over pieces.                                      *)
PieceStep(s, p) ==
  LET digits == Digits(s, p.at, DigitsBelow(16), 4)
      behind == p.at + Len(digits)
      stored == [p EXCEPT !.pieces[p.piece + 1] = NumberOf(digits, 16, PieceMax),
                          !.piece = @ + 1, !.at = behind]
  IN IF p.at >= Len(s) THEN [p EXCEPT !.next = "shift"]
     ELSE IF p.piece = Pieces THEN Fail(p)
     ELSE IF TokenAt(s, p.at, ":")
     THEN IF p.compress # Absent THEN Fail(p)
          ELSE [p EXCEPT !.at = @ + 1, !.piece = @ + 1, !.compress = p.piece + 1]
     ELSE IF behind = Len(s) THEN stored
     ELSE IF TokenAt(s, behind, ".")
     THEN IF digits = <<>> \/ TooFarForIpv4(p) THEN Fail(p) ELSE [p EXCEPT !.next = "ipv4"]
     ELSE IF TokenAt(s, behind, ":") /\ behind + 1 < Len(s)
     THEN [stored EXCEPT !.at = behind + 1]
     ELSE Fail(p)

(* One round of the loop over the numbers of an embedded IPv4 address: two *)
(* numbers make a piece.                                                   *)
Ipv4Step(s, p) ==
  LET dotted == p.seen > 0
      start  == IF dotted THEN p.at + 1 ELSE p.at
      digits == Digits(s, start, DigitsBelow(10), Len(s))
      n      == NumberOf(digits, 10, 255)
  IN IF p.at >= Len(s) THEN IF p.seen = 4 THEN [p EXCEPT !.next = "shift"] ELSE Fail(p)
     ELSE IF dotted /\ ~(p.seen < 4 /\ TokenAt(s, p.at, ".")) THEN Fail(p)
     ELSE IF digits = <<>> \/ (Len(digits) > 1 /\ digits[1] = "0") \/ n > 255 THEN Fail(p)
     ELSE [p EXCEPT !.at = start + Len(digits),
                    !.pieces[p.piece + 1] = @ * 256 + n,
                    !.seen = @ + 1,
                    !.piece = IF p.seen + 1 \in {2, 4} THEN @ + 1 ELSE @]

(* The pieces behind "::" swapped to the end, the last one first.          *)
Shifted(p) ==
  LET swaps == p.piece - p.compress
      Swap(k, q) == LET a == Pieces - swaps + k
                        b == p.compress + k
                    IN [q EXCEPT ![a] = q[b], ![b] = q[a]]
  IN FoldRight(Swap, [k \in 1..swaps |-> k], p.pieces)

RECURSIVE Run(_, _)
Run(s, p) ==
  CASE p.next = "pieces"  -> Run(s, PieceStep(s, p))
    [] p.next = "ipv4"    -> Run(s, Ipv4Step(s, p))
    [] p.next = "shift"   -> IF p.compress # Absent THEN {Shifted(p)}
                             ELSE IF p.piece = Pieces THEN {p.pieces} ELSE {}
    [] p.next = "failure" -> {}

(* parse_ipv6: {} is Err, {pieces} an address.                             *)
ParseIpv6(s) == Run(s, Start(s))
-----------------------------------------------------------------------------
(* Writing.                                                                *)

(* One index of the loop of longest_zero_sequence.  A run of zeros is      *)
(* [start, len]; `best` is the longest that ended, `open` the one that did *)
(* not.                                                                    *)
NoRun == [start |-> 0, len |-> 0]

LongerLast(best, open) == IF open.len >= best.len THEN open ELSE best   \* mutant: the last one wins

Longer(best, open) == IF open.len > best.len THEN open ELSE best

ScanPiece(scan, i, piece) ==
  IF piece = 0
  THEN [scan EXCEPT !.open = IF @ = NoRun THEN [start |-> i, len |-> 1] ELSE [@ EXCEPT !.len = @ + 1]]
  ELSE [best |-> Longer(scan.best, scan.open), open |-> NoRun]

(* longest_zero_sequence; no run of one piece counts.                      *)
LongestZeroSequence(pieces) ==
  LET scan == FoldLeftDomain(LAMBDA q, i : ScanPiece(q, i, pieces[i]),
                             [best |-> NoRun, open |-> NoRun], pieces)
      longest == Longer(scan.best, scan.open)
  IN IF longest.len < 2 THEN NoRun ELSE longest

(* write_ipv6 and write_ipv6_to: what index i of the address writes.       *)
PieceText(pieces, zeros, i) ==
  IF zeros # NoRun /\ i \in zeros.start..zeros.start + zeros.len - 1
  THEN IF i # zeros.start THEN <<>> ELSE IF i = 1 THEN <<":", ":">> ELSE <<":">>
  ELSE NumberText(pieces[i], 16) \o (IF i < Pieces THEN <<":">> ELSE <<>>)

WriteIpv6(pieces) ==
  JoinWith([i \in 1..Pieces |-> PieceText(pieces, LongestZeroSequence(pieces), i)], <<>>)
=============================================================================

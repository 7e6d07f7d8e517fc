------------------------------ MODULE MCUnicode ------------------------------
(***************************************************************************)
(* Domain names beyond ASCII, each part a family of behaviours of its own, *)
(* chosen by `part` in the initial state:                                  *)
(*   "tables"   short builds of the tables of code points, from two rows   *)
(*              and two overlay lines over four code points, in two        *)
(*              sections that one status feeds together and one misspelt;  *)
(*   "label"    every short label over basic and other code points up to   *)
(*              the largest, which Punycode encodes;                       *)
(*   "ace"      every short text over digits of all sizes and delimiters,  *)
(*              which it decodes;                                          *)
(*   "mixed", "scripts", "kana"   every short domain over one alphabet, a  *)
(*              piece at a time;                                           *)
(*   "host"     every short host as it stands in a URL, in bytes.          *)
(* The tables of the last four hold what the vendored files say of the    *)
(* code points of the alphabets.                                           *)
(***************************************************************************)
EXTENDS IdnaTables, HostParser

CONSTANTS Part, MaxPieces, MaxPoints, MaxText

VARIABLES part, text, pieces

uvars == <<part, text, pieces, vars>>

RealSurrogates == 55296..57343

(* Integers and labels so small that the checked sums may fail.            *)
Small == INSTANCE Punycode WITH U32Max <- 4000000, MaxLabel <- 3, MaxAce <- 40

Grown == {"label", "ace", "mixed", "scripts", "kana", "host"}
-----------------------------------------------------------------------------
MCPoint   == 0..3
MCSection == {"uts46_ignored", "uts46_needs_map"}
MCStatus  == {"ignored", "mapped"}
MCName    == {"uts46_needs_map", "misspelt"}

MCTable ==
  [s \in Sections |->
    CASE s = "bidi_ignored"            -> {807, 824, 2207, 2381, 12441}
      [] s = "joining_letters"         -> {1576, 2160, 2229, 8205, 69316}
      [] s = "rtl_non_letters"         -> {2184}
      [] s = "rtl_alphabetic"          -> {1488, 1576, 1632, 2160, 2184, 2207, 2229, 69316}
      [] s = "bidi_numbers"            -> {48, 1632}
      [] s = "legacy_arabic"           -> {1576}
      [] s = "disallowed"              -> {65533}
      [] s = "ltr_letters"             -> {65, 78, 97, 110, 111, 223, 326, 65313}
      [] s = "arabic_ext_b_letters"    -> {2160}
      [] s = "arabic_ext_b_compatible" -> {2229}
      [] s = "arabic_ext_b_era_marks"  -> {2207}
      [] s = "arabic_ext_b_era_ok"     -> {2229}
      [] s = "nfkc_via_space"          -> {12443}
      [] s = "uts46_ignored"           -> {173}
      [] s = "uts46_needs_map"         -> {65, 78, 173, 8470, 12290, 12443, 12543, 65313}]

MCAlphabetic == {65, 78, 97, 110, 111, 223, 326, 1488, 1576, 2160, 2229, 2325, 12363, 12364,
                 12467, 12488, 12543, 65313, 69316}
MCDecomposition == 326 :> <<110, 807>> @@ 8814 :> <<60, 824>> @@ 12364 :> <<12363, 12441>>
MCCcc   == 807 :> 202 @@ 824 :> 1 @@ 2207 :> 230 @@ 2381 :> 9 @@ 12441 :> 8
MCNfkc  == 8470 :> <<78, 111>> @@ 12443 :> <<32, 12441>> @@ 12543 :> <<12467, 12488>>
           @@ 65313 :> <<65>>
MCLower == 65313 :> <<65345>>

Points == {97, 90, 45, 128, 129, 223, 12363, 55295, 57344, 1114111}
AceBytes == {97, 98, 121, 90, 48, 57, 45, 33}

(* Letters, capitals, dots, marks that compose, code points that are       *)
(* ignored, mapped or refused, and "xn--" with the encoding of U+DF.       *)
Mixed   == {<<97>>, <<65>>, <<Dot>>, <<60>>, <<824>>, <<223>>, <<173>>, <<12290>>, <<12363>>,
            <<12441>>, <<65313>>, Ace, <<122, 99, 97>>}

(* Hebrew, Arabic of several ages, digits, joiners and what they join.     *)
Scripts == {<<48>>, <<1488>>, <<1576>>, <<1632>>, <<Zwnj>>, <<Zwj>>, <<2381>>, <<2160>>,
            <<2184>>, <<2229>>, <<2207>>, <<69316>>, <<110>>, <<807>>}

(* Kana with the code points of their blocks that map to others.           *)
Kana == {<<97>>, <<12363>>, <<12441>>, <<12443>>, <<12467>>, <<12543>>}

(* Bytes of hosts: numbers, the dot, U+3002 which is mapped to a dot,      *)
(* percent triples, whole and halved, U+DF, brackets, colons, and a tab.   *)
HostWord == {<<48>>, <<48, 120, 55, 70>>, <<46>>, <<227, 128, 130>>,
             <<Percent>>, Triple(48), Triple(195), Triple(159), <<195, 159>>,
             <<Open>>, <<58, 58>>, <<Close>>, <<9>>}

Piece(p) == CASE p = "label"   -> {<<cp>> : cp \in Points}
              [] p = "ace"     -> {<<b>> : b \in AceBytes}
              [] p = "mixed"   -> Mixed
              [] p = "scripts" -> Scripts
              [] p = "kana"    -> Kana
              [] p = "host"    -> HostWord

Most(p) == CASE p = "label" -> MaxPoints
             [] p = "ace"   -> MaxText
             [] OTHER       -> MaxPieces
-----------------------------------------------------------------------------
UInit == part \in Part /\ text = <<>> /\ pieces = 0 /\ Init

Grow == /\ part \in Grown
        /\ pieces < Most(part)
        /\ \E piece \in Piece(part) : text' = text \o piece
        /\ pieces' = pieces + 1
        /\ UNCHANGED <<part, vars>>

Build == part = "tables" /\ Next /\ UNCHANGED <<part, text, pieces>>

UNext == Grow \/ Build

USpec == UInit /\ [][UNext]_uvars
-----------------------------------------------------------------------------
(* Punycode.  What is encoded decodes to the label, with its basic part in *)
(* lower case; a label of at most MaxLabel code points is never refused    *)
(* for overflow; and a text that decodes to a label which is not basic     *)
(* throughout (those ace_label_is_valid refuses) is the one encoding of    *)
(* that label, unless it begins with the delimiter and has no basic part   *)
(* (README, section 4).                                                    *)
EncodingIsOneToOne ==
  /\ part = "label" =>
       /\ \A t \in Small!Encode(text) : Small!Decode(t) = {LowerAll(text)}
       /\ Len(text) <= 3 => Small!Encode(text) # {}
  /\ part = "ace" /\ LastHyphen(text) # 1 =>
       \A l \in Small!Decode(text) : IsAscii(l) \/ Small!Encode(l) = {LowerAll(text)}
-----------------------------------------------------------------------------
(* Domains.                                                                *)
IsDomain == part \in {"mixed", "scripts", "kana"} /\ ~IsAscii(text)

(* The scripts are about the checks, which look at one label and know      *)
(* nothing of mapping.                                                     *)
IsMapped == IsDomain /\ part # "scripts"

SharpS    == <<Dot, 223>>             \* ".ß", which keeps a domain off the ASCII path
SharpSAce == <<Dot>> \o Ace \o <<122, 99, 97>>

(* Canonically equivalent domains are one host (the tests                  *)
(* kana_nfd_and_nfc_share_ace and nfc_cedilla, for every order of marks,   *)
(* letters, and ignored or mapped code points).                            *)
NormalFormsAgree ==
  IsDomain => \A n \in {Nfc(text)} \ {text} : ~IsAscii(n) => ToAscii(n) = ToAscii(text)

(* A domain and its UTS #46 mapping are one host, whichever of the three   *)
(* ways the scan takes for each.                                           *)
MappingDoesNotMatter ==
  IsMapped => \A m \in MapChecked(text) \ {text} : ~IsAscii(m) => ToAscii(m) = ToAscii(text)

(* "those code points cannot fail those checks": where the scan lets       *)
(* to_ascii skip normal form and checks, they would have changed nothing.  *)
(* And the entry points that write into the URL buffer agree with those    *)
(* that return a value, for domains and for whole hosts (the setters use   *)
(* the latter), and leave the buffer as it was when they fail.             *)
WaysAgree ==
  LET buffer == <<47, 47>>
  IN /\ IsMapped =>
          LET host == ToAscii(text)
          IN /\ ScanOf(text) = "simple" => host = Accepted(EncodeDomainLabels(text, <<>>))
             /\ AppendValidated(text, buffer) =
                  [ok |-> host # {}, out |-> IF host = {} THEN buffer
                                             ELSE buffer \o (CHOOSE h \in host : TRUE)]
     /\ part = "host" => \A special \in BOOLEAN :
          HostInput(special, text, buffer)
            = {[h EXCEPT !.text = buffer \o @] : h \in HostForSetter(special, text)}

(* The two spellings of a label get one verdict.  A host that to_ascii     *)
(* wrote is accepted when it is read again, also where a label behind it   *)
(* has the labels that come encoded decoded and checked; and what is       *)
(* refused as it stands is refused when it comes encoded.  A whole host    *)
(* is read back as it was written too, percent triples say the same as the *)
(* bytes they stand for, and tabs in an opaque host say nothing, if it is  *)
(* ASCII (README, section 4).                                              *)
SpellingsAgree ==
  /\ IsMapped =>
       \A host \in ToAscii(text) :
         ToAscii(host) = {host} /\ ToAscii(host \o SharpS) = {host \o SharpSAce}
  /\ IsDomain /\ Dot \notin PointsOf(text) /\ ~IsAcePrefixed(text)
         /\ MapChecked(text) = {text} /\ Nfc(text) = text =>
       \A ace \in Encode(text) : ToAscii(Ace \o ace \o SharpS) = ToAscii(text \o SharpS)
  /\ part = "host" =>
       LET visible == WithoutIgnored(text)
       IN /\ \A special \in BOOLEAN : \A h \in HostForSetter(special, text) :
               HostForSetter(special, h.text) = {h}
          /\ ~InBrackets(visible) /\ ~Has(text, {Percent}) =>
               ParseHost(PercentEncode(visible, 0..255)) = ParseHost(visible)
          /\ IsAscii(text) => ParseOpaqueHost(text) = ParseOpaqueHost(visible)
=============================================================================

-------------------------------- MODULE Idna --------------------------------
(***************************************************************************)
(* to_ascii of src/parser/punycode.rs: how the text of a domain becomes    *)
(* the ASCII host of a URL.  A scan chooses one of three ways: write the   *)
(* labels as they are and skip the checks, write them with all checks, or  *)
(* map the code points first.  A label that is an ACE label already is     *)
(* decoded and checked.                                                    *)
(*                                                                         *)
(* The generated tables are one function from section names to sets of     *)
(* code points (how build.rs makes them is module IdnaTables); what the    *)
(* Unicode libraries answer is given by the constants of the last line.    *)
(***************************************************************************)
EXTENDS Punycode, Nfc, TLC
LOCAL INSTANCE SequencesExt
LOCAL INSTANCE FiniteSetsExt

CONSTANTS
  Table,                       \* section -> code points (unicode_ranges.rs)
  Alphabetic, NfkcOf, LowerOf  \* char::is_alphabetic, nfkc, to_lowercase

Sections ==
  {"bidi_ignored", "joining_letters", "rtl_non_letters", "rtl_alphabetic", "bidi_numbers",
   "legacy_arabic", "disallowed", "ltr_letters", "arabic_ext_b_letters",
   "arabic_ext_b_compatible", "arabic_ext_b_era_marks", "arabic_ext_b_era_ok",
   "nfkc_via_space", "uts46_ignored", "uts46_needs_map"}

ASSUME IdnaAssumption == DOMAIN Table = Sections

Dot   == 46
Space == 32
Ace   == <<120, 110, 45, 45>>   \* "xn--"
Zwnj  == 8204
Zwj   == 8205

Upper == 65..90
Has(s, set) == \E i \in DOMAIN s : s[i] \in set
PointsOf(s) == {s[i] : i \in DOMAIN s}

(* str::split('.')                                                         *)
Labels(domain) ==
  FoldLeft(LAMBDA done, c : IF c = Dot THEN Append(done, <<>>)
                            ELSE [done EXCEPT ![Len(done)] = Append(@, c)], << <<>> >>, domain)

ForbiddenDomain == 0..31 \cup {32, 35, 37, 47, 58, 60, 62, 63, 64, 91, 92, 93, 94, 124, 127}

Disallowed(c) == \/ c \in Table["disallowed"]
                 \/ c \div 65536 \in 4..13
                 \/ c % 65536 >= 65534
-----------------------------------------------------------------------------
(* Mapping: char_needs_uts46_map, map_char, uts46_map_checked.             *)

Latin1Lower == 224..246 \cup 248..255 \cup {223}
Latin1Upper == 192..214 \cup 216..222

Ideograph  == 13312..19903
Ideograph2 == 19968..40959
Hangul     == 44032..55203

(* Latin-1 letters, ideographs, Hangul syllables, Hiragana and Katakana.   *)
SimpleIdentity(c) ==
  \/ c \in Latin1Lower \/ c \in Ideograph \/ c \in Ideograph2 \/ c \in Hangul
  \/ c \in 12353..12438 \/ c \in 12443..12447 \/ c \in 12448..12543

(* The letterlike symbols with an ASCII form.                              *)
Letterlike == 8448..8450 \cup {8453, 8454} \cup 8458..8462 \cup 8464..8467 \cup {8469, 8470}
  \cup 8473..8477 \cup 8480..8482 \cup {8484, 8488, 8490, 8492, 8493} \cup 8495..8497
  \cup {8499, 8500, 8505, 8507} \cup 8517..8521

Scriptlike == {178, 179, 185} \cup 8304..8351   \* superscripts and subscripts

Cherokee == 5024..5109

Ypogegrammeni == 837

Nfkc(c)  == IF c \in DOMAIN NfkcOf THEN NfkcOf[c] ELSE <<c>>
Lowercase(c) == IF c \in DOMAIN LowerOf THEN LowerOf[c] ELSE <<Lower(c)>>

NeedsMap(c) ==
  \/ c \in Table["uts46_needs_map"] \/ c \in Table["nfkc_via_space"] \/ c \in Letterlike
  \/ /\ c \notin Cherokee
     /\ IF c < 128 THEN c \in Upper
        ELSE /\ ~SimpleIdentity(c)
             /\ \/ c \in Latin1Upper
                \/ Has(Nfd(<<c>>), {Ypogegrammeni})
                \/ Nfkc(c) # <<c>>
                \/ Lowercase(c) # <<c>>

(* Single code points with another one of their own: Cyrillic Extended-C,  *)
(* small Cherokee, ypogegrammeni and the sigmas.                           *)
Rewrites ==
  7296 :> 1074 @@ 7297 :> 1076 @@ 7298 :> 1086 @@ 7299 :> 1089 @@ 7300 :> 1090 @@ 7301 :> 1090
  @@ 7302 :> 1098 @@ 7303 :> 1123 @@ 7304 :> 42571 @@ 7305 :> 7306
  @@ [c \in 5112..5117 |-> c - 8] @@ [c \in 43888..43967 |-> Min(Cherokee) + (c - 43888)]
  @@ Ypogegrammeni :> 953
  @@ [c \in {1010, 120531, 120589, 120647, 120705, 120763} |-> 963]

(* What the last arm of map_char does with each code point of the NFKC.    *)
Folded(c) ==
  CASE c \in Cherokee -> <<c>>
    [] c = 12290 -> <<Dot>>
    [] Has(Nfd(<<c>>), {Ypogegrammeni}) ->
         FoldLeft(LAMBDA done, d : done \o (IF d = Ypogegrammeni THEN <<953>> ELSE Lowercase(d)),
                  <<>>, Nfd(<<c>>))
    [] OTHER -> Lowercase(c)

MapChar(c) ==
  IF c \in Table["uts46_ignored"] THEN <<>>
  ELSE IF c \in 8192..8202 THEN <<Space>>
  ELSE IF c = 8209 THEN <<8208>>
  ELSE IF c \in {12290, 65377} THEN <<Dot>>
  ELSE IF c \in DOMAIN Rewrites THEN <<Rewrites[c]>>
  ELSE IF c = 8254 THEN <<Space, 773>>
  ELSE IF c \in Table["nfkc_via_space"] \/ c \in Scriptlike THEN Nfkc(c)
  ELSE IF c \in 65281..65374 THEN <<Lower(c - 65248)>>
  ELSE IF c \in 119808..119859 THEN <<97 + ((c - 119808) % 26)>>
  ELSE IF c \in Latin1Lower THEN <<c>>
  ELSE IF c \in Latin1Upper THEN <<c + 32>>
  ELSE FoldLeft(LAMBDA done, d : done \o Folded(d), <<>>, Nfkc(c))

Mapped(domain) == FlattenSeq([i \in DOMAIN domain |-> MapChar(domain[i])])

(* uts46_map_checked                                                       *)
MapChecked(domain) ==
  {m \in {Mapped(domain)} : m # <<>> /\ ~\E i \in DOMAIN m : Disallowed(m[i])}
-----------------------------------------------------------------------------
(* The checks of one label.                                                *)

Transparent   == Table["bidi_ignored"] \cup {Zwnj, Zwj}
RtlScript     == (Table["rtl_non_letters"] \cup (Alphabetic \cap Table["rtl_alphabetic"]))
                   \ Table["bidi_ignored"]
LtrLetter     == Alphabetic \cap (Upper \cup 97..122 \cup Table["ltr_letters"])
BidiNumber    == 48..57 \cup Table["bidi_numbers"]
JoiningLetter == Alphabetic \cap Table["joining_letters"]
ExtB          == Table["arabic_ext_b_letters"] \cup {2184}
ExtC          == 69314..69319
Rtl           == RtlScript \cup Table["legacy_arabic"]

Strong(label) == SelectSeq(label, LAMBDA c : c \notin Transparent)

FailsBidi(label) ==
  LET strong == Strong(label)
  IN /\ Has(strong, RtlScript)
     /\ \/ Has(strong, LtrLetter \ RtlScript)
        \/ label[1] \notin RtlScript
        \/ Last(strong) \notin RtlScript \cup BidiNumber

(* Letters of `own` stand beside strong code points other than `friends`.  *)
Mixes(label, own, others, friends) ==
  /\ Has(Strong(label), own)
  /\ \E i \in DOMAIN Strong(label) :
       LET c == Strong(label)[i] IN c >= 128 /\ c \in others /\ c \notin own \cup friends

FailsExtBMix(label) ==
  Mixes(label, ExtB, Rtl \cup LtrLetter, Table["arabic_ext_b_compatible"] \cup BidiNumber)

FailsExtCMix(label) ==
  Mixes(label, ExtC, Rtl,
        ExtB \cup Table["arabic_ext_b_compatible"] \cup BidiNumber \cup LtrLetter)

FailsEraMarkMix(label) ==
  /\ Has(label, Table["arabic_ext_b_era_marks"])
  /\ Has(Strong(label), Rtl \ (ExtB \cup Table["arabic_ext_b_era_marks"] \cup BidiNumber
                                \cup Table["arabic_ext_b_era_ok"] \cup LtrLetter \cup 0..127))

(* A ZWNJ stands between joining letters, a ZWJ right behind a virama.     *)
FailsJoiners(label) ==
  \E i \in DOMAIN label :
    \/ label[i] = Zwj /\ (i = 1 \/ ClassOf(label[i - 1]) # 9)
    \/ /\ label[i] = Zwnj
       /\ LET before == Strong(SubSeq(label, 1, i - 1))
              after  == Strong(SubSeq(label, i + 1, Len(label)))
          IN \/ before = <<>> \/ after = <<>>
             \/ Last(before) \notin JoiningLetter
             \/ after[1] \notin JoiningLetter

FailsMixes(label) == FailsExtBMix(label) \/ FailsExtCMix(label) \/ FailsEraMarkMix(label)

LabelIsValid(label) ==
  /\ ~Has(label, ForbiddenDomain)
  /\ label # <<>> => label[1] \notin Table["bidi_ignored"]
  /\ ~FailsBidi(label)
  /\ ~FailsMixes(label)
  /\ ~FailsJoiners(label)

IsAcePrefixed(label) == Len(label) >= 4 /\ LowerAll(SubSeq(label, 1, 4)) = Ace

DecodedIsValidButMixes(l) ==   \* mutant: the script mixes are not looked at
  /\ ~\E i \in DOMAIN l : Disallowed(l[i]) \/ NeedsMap(l[i]) \/ l[i] = Dot
  /\ Nfc(l) = l /\ ~Has(l, ForbiddenDomain) /\ l[1] \notin Table["bidi_ignored"]
  /\ ~FailsBidi(l) /\ ~FailsJoiners(l)

DecodedIsValid(l) ==
  /\ ~\E i \in DOMAIN l : Disallowed(l[i]) \/ NeedsMap(l[i]) \/ l[i] = Dot
  /\ Nfc(l) = l
  /\ LabelIsValid(l)

AceLabelIsValid(label) ==
  /\ IsAscii(label) /\ Len(label) > 4
  /\ \E l \in Decode(SubSeq(label, 5, Len(label))) :
       l # <<>> /\ ~IsAscii(l) /\ DecodedIsValid(l)
-----------------------------------------------------------------------------
(* Writing the labels.  LabelText and SimpleText are {} on an error.       *)

Encoded(label) == IF IsAscii(label) THEN {label} ELSE {Ace \o text : text \in Encode(label)}

SimpleText(label) ==
  IF ~IsAscii(label) /\ Has(label, ForbiddenDomain) THEN {} ELSE Encoded(label)

LabelTextOfUncomposed(label) ==   \* mutant: the checks see the label before NFC
  CASE label = <<>> -> {<<>>}
    [] IsAcePrefixed(label) -> IF AceLabelIsValid(label) THEN {LowerAll(label)} ELSE {}
    [] OTHER -> IF LabelIsValid(label) THEN Encoded(Nfc(label)) ELSE {}

LabelText(label) ==
  CASE label = <<>> -> {<<>>}
    [] IsAcePrefixed(label) -> IF AceLabelIsValid(label) THEN {LowerAll(label)} ELSE {}
    [] OTHER -> UNION {Encoded(nfc) : nfc \in {n \in {Nfc(label)} : LabelIsValid(n)}}

(* Texts are appended to `out` until a label is refused; what was written  *)
(* by then stays there.                                                    *)
Appended(w, text) ==
  LET out == IF w.first THEN w.out ELSE Append(w.out, Dot)
  IN IF ~w.ok THEN w
     ELSE [first |-> FALSE, ok |-> text # {},
           out |-> IF text = {} THEN out ELSE out \o (CHOOSE t \in text : TRUE)]

WriteTexts(texts, out) ==
  FoldLeft(Appended, [first |-> TRUE, ok |-> TRUE, out |-> out], texts)

EncodeDomainLabels(domain, out) ==
  WriteTexts([i \in DOMAIN Labels(domain) |-> LabelText(Labels(domain)[i])], out)
EncodeDomainLabelsSimple(domain, out) ==
  WriteTexts([i \in DOMAIN Labels(domain) |-> SimpleText(Labels(domain)[i])], out)

ScanOfNonAscii(domain) ==   \* mutant: capitals do not ask for mapping
  LET others == {c \in PointsOf(domain) : c >= 128 /\ ~SimpleIdentity(c)}
  IN IF \E c \in PointsOf(domain) : Disallowed(c) THEN "error"
     ELSE IF \E c \in others : NeedsMap(c) THEN "needs map"
     ELSE IF others = {} THEN "simple" ELSE "identity"

(* scan_non_ascii                                                          *)
ScanOf(domain) ==
  LET all == PointsOf(domain)
      others == {c \in all : c >= 128 /\ ~SimpleIdentity(c)}
  IN IF \E c \in all : Disallowed(c) THEN "error"
     ELSE IF all \cap Upper # {} \/ \E c \in others : NeedsMap(c) THEN "needs map"
     ELSE IF others = {} THEN "simple" ELSE "identity"

(* to_ascii_into                                                           *)
ToAsciiInto(domain, out) ==
  LET scan   == ScanOf(domain)
      hasAce == \E label \in PointsOf(Labels(domain)) : IsAcePrefixed(label)
      mapped == CASE scan = "error" -> {}
                  [] scan = "needs map" -> MapChecked(domain)
                  [] OTHER -> {domain}
  IN IF mapped = {} THEN [first |-> TRUE, ok |-> FALSE, out |-> out]
     ELSE IF scan = "simple" /\ ~hasAce THEN EncodeDomainLabelsSimple(domain, out)
     ELSE EncodeDomainLabels(CHOOSE m \in mapped : TRUE, out)

Accepted(w) == {host \in {v.out : v \in {v \in {w} : v.ok}} :
                  host # <<>> /\ ~Has(host, ForbiddenDomain)}

(* to_ascii: {} is Err, {host} is Ok(host).                                *)
ToAscii(domain) ==
  IF domain = <<>> THEN {}
  ELSE IF IsAscii(domain)
       THEN {host \in {LowerAll(domain)} : ~Has(host, ForbiddenDomain)}
  ELSE Accepted(ToAsciiInto(domain, <<>>))

AppendUntruncated(domain, out) ==   \* mutant: a partial write stays in the buffer
  IF domain = <<>> THEN [ok |-> FALSE, out |-> out]
  ELSE IF IsAscii(domain)
       THEN LET ok == ~Has(LowerAll(domain), ForbiddenDomain)
            IN [ok |-> ok, out |-> IF ok THEN out \o LowerAll(domain) ELSE out]
  ELSE LET w == ToAsciiInto(domain, out)
       IN [ok |-> w.ok, out |-> w.out]

(* to_ascii_append_validated                                               *)
AppendValidated(domain, out) ==
  IF domain = <<>> THEN [ok |-> FALSE, out |-> out]
  ELSE IF IsAscii(domain)
       THEN LET ok == ~Has(LowerAll(domain), ForbiddenDomain)
            IN [ok |-> ok, out |-> IF ok THEN out \o LowerAll(domain) ELSE out]
  ELSE LET Written(w) == Accepted([w EXCEPT !.out = SubSeq(@, Len(out) + 1, Len(@))])
           written == Written(ToAsciiInto(domain, out))
       IN [ok |-> written # {},
           out |-> IF written = {} THEN out ELSE out \o (CHOOSE t \in written : TRUE)]
=============================================================================

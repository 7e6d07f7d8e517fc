------------------------------ MODULE PathText ------------------------------
(***************************************************************************)
(* The hierarchical path parser (parse_path_start and parse_path in        *)
(* src/parser/mod.rs, as the setters call it: "?" and "#" are content).    *)
(*                                                                         *)
(* The code keeps no list of segments.  It writes straight into the href   *)
(* and undoes what it wrote: "." and ".." truncate the text at the start   *)
(* of the segment, and ".." finds its parent again by searching slashes.   *)
(* In p = [out, seg], `out` is the href from path_start on and `seg` is    *)
(* segment_start; c is the scheme type.  "p" and the other words stand for *)
(* two letters or more: a lone letter before ":" or "|" is a token of      *)
(* Drive.                                                                  *)
(***************************************************************************)
EXTENDS UrlText, SequencesExt

Drive == {"C|", "C:"}          \* one token for the two bytes of a drive letter

DotSegment    == {<<".">>, <<"%2e">>}
DotDotSegmentPlain == {<<".", ".">>}  \* mutant: the encoded dots are forgotten

DotDotSegment == [1..2 -> {".", "%2e"}]

IsSlash(c, t) == t = "/" \/ (t = "\\" /\ c # "other")

(* The 1-based place of the last slash, 0 when there is none (rfind).      *)
LastSlash(o) == Max({0} \cup {k \in 1..Len(o) : o[k] = "/"})

LastSlashCanBeRemoved(c, o) ==
  LET k == LastSlash(Front(o))
  IN k > 0 /\ ~(c = "file" /\ From(o, k) \in {<<d, "/">> : d \in Drive})

ShortenPath(c, o) ==
  LET k == LastSlash(o)
  IN IF c = "file" /\ From(o, k) = <<"C:">> THEN o ELSE Upto(o, k)

EnsureSlash(o) == IF EndsWith(o, "/") THEN o ELSE Append(o, "/")

(* Mutant: the parent is whatever stands before the last slash but one.    *)
EndSegmentAnySlash(c, p, slash) ==
  LET before == Front(Upto(p.out, p.seg))
  IN IF From(p.out, p.seg) \in DotDotSegment THEN Upto(before, LastSlash(before))
     ELSE p.out \o (IF slash THEN <<"/">> ELSE <<>>)

(* The match on seg_action: the text once the segment after `seg` ended.   *)
EndSegment(c, p, slash) ==
  LET before  == Upto(p.out, p.seg)
      segment == From(p.out, p.seg)
      tail    == IF slash THEN <<"/">> ELSE <<>>
  IN CASE segment \in DotDotSegment ->
            EnsureSlash(ShortenPath(c,
              IF EndsWith(before, "/") /\ LastSlashCanBeRemoved(c, before)
              THEN Front(before) ELSE before))
       [] segment \in DotSegment -> EnsureSlash(before)
       [] c = "file" /\ segment \in {<<d>> : d \in Drive}
                     /\ \A i \in DOMAIN before : before[i] = "/" ->
            before \o <<"C:">> \o tail
       [] OTHER -> p.out \o tail

At(o) == [out |-> o, seg |-> Len(o)]

(* Mutant: a tab starts a segment.                                        *)
ReadTokenTabStarts(c, p, t) ==
  IF t = TAB THEN At(p.out)
  ELSE IF IsSlash(c, t) THEN At(EndSegment(c, p, TRUE))
  ELSE [p EXCEPT !.out = @ \o Encode(<<t>>, PathSet)]

ReadToken(c, p, t) ==
  IF t = TAB THEN p
  ELSE IF IsSlash(c, t) THEN At(EndSegment(c, p, TRUE))
  ELSE [p EXCEPT !.out = @ \o Encode(<<t>>, PathSet)]

(* parse_path_start: the slash a path begins with, written before the loop. *)
PathStart(c, t) ==
  IF c # "other" THEN IF IsSlash(c, t) THEN At(<<"/">>) ELSE ReadToken(c, At(<<"/">>), t)
  ELSE ReadToken(c, At(IF t = "/" THEN <<>> ELSE <<"/">>), t)

NoText(c) == At(IF c = "other" THEN <<>> ELSE <<"/">>)

(* parse_path on a text that follows `start`.                              *)
PathFrom(c, start, s) ==
  EndSegment(c, FoldLeft(LAMBDA p, t : ReadToken(c, p, t), At(start), s), FALSE)

(* parse_path_start as one operator, for the modules that need its result. *)
ParsePathStart(c, text) ==
  LET s == Visible(text)
  IN IF s = <<>> THEN EndSegment(c, NoText(c), FALSE)
     ELSE EndSegment(c, FoldLeft(LAMBDA p, t : ReadToken(c, p, t),
                                 PathStart(c, s[1]), Tail(s)), FALSE)
=============================================================================

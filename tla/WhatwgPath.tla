----------------------------- MODULE WhatwgPath -----------------------------
(***************************************************************************)
(* What a path parser promises: the path of the WHATWG URL standard is a   *)
(* list of segments, and each segment that ends is appended to the list,   *)
(* dropped (".") or taken as a step to the parent ("..").  The text of the *)
(* path never appears here.                                                *)
(***************************************************************************)
EXTENDS UrlText

CONSTANTS Class,     \* the scheme types under test
          Alphabet(_) \* the alphabet of the raw path of a scheme type

VARIABLES class,     \* the scheme type of the URL
          list,      \* the segments completed so far
          buffer,    \* the segment being read
          done       \* the end of the input was read

wvars == <<class, list, buffer, done>>

Drive == {"C|", "C:"}

DotSegment    == {<<".">>, <<"%2e">>}
DotDotSegment == [1..2 -> {".", "%2e"}]

(* A path of a file URL never loses its drive letter.                      *)
Parent(c, l) ==
  IF l = <<>> \/ (c = "file" /\ l = << <<"C:">> >>)
  THEN l ELSE SubSeq(l, 1, Len(l) - 1)

Completed(c, l, b, last) ==
  CASE b \in DotDotSegment -> IF last THEN Append(Parent(c, l), <<>>) ELSE Parent(c, l)
    [] b \in DotSegment    -> IF last THEN Append(l, <<>>) ELSE l
    [] c = "file" /\ l = <<>> /\ b \in {<<d>> : d \in Drive} -> << <<"C:">> >>
    [] OTHER               -> Append(l, b)
-----------------------------------------------------------------------------
Init == /\ class \in Class
        /\ list = <<>>
        /\ buffer = <<>>
        /\ done = FALSE

ReadSlash == /\ list' = Completed(class, list, buffer, FALSE)
             /\ buffer' = <<>>
             /\ UNCHANGED <<class, done>>

ReadOther == /\ \E t \in Alphabet(class) : buffer' = buffer \o Encode(<<t>>, PathSet)
             /\ UNCHANGED <<class, list, done>>

(* A non-special path that was given no text at all stays empty.           *)
End == /\ \/ list' = Completed(class, list, buffer, TRUE)
          \/ class = "other" /\ list = <<>> /\ buffer = <<>> /\ list' = <<>>
       /\ buffer' = <<>>
       /\ done' = TRUE
       /\ UNCHANGED class

Next == ~done /\ (ReadSlash \/ ReadOther \/ End)

Spec == Init /\ [][Next]_wvars
=============================================================================

----------------------------- MODULE SegmentList -----------------------------
(***************************************************************************)
(* What PathSegmentsMut promises: while it is open, the path is a list of  *)
(* segments; there is no text, no offset and no marker.  <<>> is the empty *)
(* path, <<<<>>>> the path "/".                                            *)
(***************************************************************************)
EXTENDS UrlText
LOCAL INSTANCE SequencesExt

CONSTANT Segment    \* the segments that are pushed

VARIABLES class,    \* "special", "file" or "other"
          segments,
          open

svars == <<class, segments, open>>

Root == <<<<>>>>

Letter == {<<"C|">>, <<"C:">>}

(* A drive letter that is pushed first in a file URL is written with ":".  *)
Written(s) ==
  IF class = "file" /\ s \in Letter /\ \A i \in DOMAIN segments : segments[i] = <<>>
  THEN <<"C:">>
  ELSE Encode(s, IF class = "other" THEN PathSegmentSet ELSE SpecialPathSegmentSet)
-----------------------------------------------------------------------------
Init == ~open

(* Between two guards the setters do what they like with the URL.          *)
Outside == ~open /\ ~open'

Open  == ~open /\ open' /\ UNCHANGED <<class, segments>>
Close == open /\ ~open' /\ UNCHANGED <<class, segments>>

Edit(list) == open /\ segments' = list /\ UNCHANGED <<class, open>>

Clear == Edit(Root)

(* The last segment goes; the only one becomes empty.                      *)
Pop == Edit(IF Len(segments) > 1 THEN Front(segments)
            ELSE IF segments = <<>> THEN <<>> ELSE Root)

PopIfEmpty == Edit(IF Len(segments) > 1 /\ Last(segments) = <<>>
                   THEN Front(segments) ELSE segments)

(* "." and ".." are never pushed, and a segment replaces the empty one of  *)
(* the path "/".                                                           *)
Push == \E s \in Segment \ {<<".">>, <<".", ".">>} :
          Edit(IF segments \in {<<>>, Root} THEN <<Written(s)>>
               ELSE Append(segments, Written(s)))

Next == Outside \/ Open \/ Close \/ Clear \/ Pop \/ PopIfEmpty \/ Push

Spec == Init /\ [][Next]_svars
=============================================================================

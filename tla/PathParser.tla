----------------------------- MODULE PathParser -----------------------------
(***************************************************************************)
(* The loop of parse_path as a machine that reads its input token by token *)
(* and keeps the text it has written so far.                               *)
(***************************************************************************)
EXTENDS PathText

CONSTANTS Class,     \* the scheme types under test
          Alphabet(_),  \* the alphabet of the raw path of a scheme type
          MaxLen     \* the longest raw path read

ASSUME PathAssumption == /\ Class \subseteq {"special", "other", "file"}
                         /\ \A c \in Class : Alphabet(c) \subseteq Tokens
                         /\ MaxLen \in Nat

VARIABLES class,     \* scheme_type
          raw,       \* the input consumed so far
          path,      \* [out, seg]
          done       \* the loop has returned

pvars == <<class, raw, path, done>>

(* Nothing but tabs was read.                                              *)
Unread == \A i \in DOMAIN raw : raw[i] = TAB
-----------------------------------------------------------------------------
Init == /\ class \in Class
        /\ raw = <<>>
        /\ path = NoText(class)
        /\ done = FALSE

Read == /\ ~done
        /\ Len(raw) < MaxLen
        /\ \E t \in Alphabet(class) :
             /\ raw' = Append(raw, t)
             /\ path' = IF t # TAB /\ Unread THEN PathStart(class, t)
                        ELSE ReadToken(class, path, t)
        /\ UNCHANGED <<class, done>>

End == /\ ~done
       /\ done' = TRUE
       /\ path' = At(EndSegment(class, path, FALSE))
       /\ UNCHANGED <<class, raw>>

Next == Read \/ End

Spec == Init /\ [][Next]_pvars
-----------------------------------------------------------------------------
(* However many ".." are read, the truncations never reach past the slash  *)
(* at path_start: they would eat the authority.  Only a non-special path   *)
(* that was given no text has no slash.                                    *)
StaysBelowPathStart == StartsWith(path.out, "/") \/ (class = "other" /\ Unread)

DrivePath == <<"/", "C:", "/">>

(* ".." never takes the drive letter away from a path that starts with it. *)
DriveStays ==
  [][class = "file" /\ path.seg >= 3 /\ TextAt(path.out, 0, DrivePath)
       => TextAt(path'.out, 0, DrivePath)]_pvars
-----------------------------------------------------------------------------
(* The segments of a path text.  While the parser runs, the text after the *)
(* last slash is still the buffer; once it is done it is a segment.        *)
Slashes(o)    == {k \in 1..Len(o) : o[k] = "/"}
SlashesTo(o, k) == {j \in Slashes(o) : j <= k}

NthSlash(o, i) == CHOOSE k \in Slashes(o) : Cardinality(SlashesTo(o, k)) = i

ClosedSegments(o) ==
  [i \in 1..Cardinality(Slashes(o)) - 1 |->
     SubSeq(o, NthSlash(o, i) + 1, NthSlash(o, i + 1) - 1)]

Segments(o) ==
  IF Slashes(o) = {} THEN <<>> ELSE Append(ClosedSegments(o), From(o, LastSlash(o)))

(* The buffer reaches back to path.seg, so a text is cut there.            *)
SegmentsRead == IF done THEN Segments(path.out) ELSE ClosedSegments(Upto(path.out, path.seg))
Buffer       == From(path.out, path.seg)

Whatwg == INSTANCE WhatwgPath WITH list <- SegmentsRead, buffer <- Buffer

DriveAlone == {<<d>> : d \in Drive}

(* A segment b that ends behind the list l where a drive letter of a file  *)
(* URL is not the first segment.  There the code departs from the standard *)
(* (README, section 4): it writes "C|" behind empty segments as "C:", and  *)
(* ".." takes no drive letter back, wherever it stands.                    *)
LateDrive(c, l, b) ==
  /\ c = "file" /\ l \notin {<<>>, << <<"C:">> >>}
  /\ \/ b = <<"C|">> /\ \A i \in DOMAIN l : l[i] = <<>>
     \/ b \in DotDotSegment /\ Last(l) \in DriveAlone

(* But for that the parser, which only ever truncates and appends text,    *)
(* computes the list of segments of the standard, segment by segment.      *)
ImplementsWhatwg ==
  Whatwg!Init /\ [][LateDrive(class, SegmentsRead, Buffer) \/ Whatwg!Next]_(Whatwg!wvars)
=============================================================================

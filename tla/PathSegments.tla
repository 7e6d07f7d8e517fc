---------------------------- MODULE PathSegments ----------------------------
(***************************************************************************)
(* The guard PathSegmentsMut (src/path_segments.rs) on a Url record.       *)
(*                                                                         *)
(* Opening the guard cuts query and fragment off the href; while it is     *)
(* open the record's query_start and fragment_start point past the text.   *)
(* The edits cut and append at the end of the href, and move the place     *)
(* where the path starts when the marker "/." is no longer needed.  The    *)
(* drop appends what was cut and moves both offsets.  The borrow checker   *)
(* lets no setter run while the guard is open.                             *)
(***************************************************************************)
EXTENDS UrlLayout

CONSTANTS Segment,   \* the segments given to push
          MaxPath    \* no push on a path that is longer

VARIABLE guard       \* {} or {[first, tail, old]}: after_first_slash,
                     \* after_path and old_after_path_position

gvars == <<url, outcome, guard>>

DriveLetter == {<<"C|">>, <<"C:">>}
-----------------------------------------------------------------------------
(* Url::path_segments: None for a path without a slash in front.           *)
SegmentsOf(path) == IF StartsWith(path, "/") THEN SplitAt(Tail(path), "/") ELSE <<>>

PathSegmentsOf(u) ==
  IF CannotBeABase(u) \/ ~StartsWith(Path(u), "/") THEN {} ELSE {SegmentsOf(Path(u))}
-----------------------------------------------------------------------------
(* The edits work on [ser, start, first]: the href without its tail, the   *)
(* start of the path, and after_first_slash.                               *)

Marked(e, colon) == /\ e.start = colon + 3
                    /\ TokenAt(e.ser, colon + 1, "/") /\ TokenAt(e.ser, colon + 2, ".")

DropNoMarker(e, colon) == e   \* mutant: the marker outlives its path

(* drop_stale_anarchist_marker                                             *)
DropStaleMarker(e, colon) ==
  IF Marked(e, colon) /\ ~TextAt(e.ser, e.start, <<"/", "/">>)
  THEN [ser |-> Upto(e.ser, colon + 1) \o From(e.ser, colon + 3),
        start |-> colon + 1, first |-> e.first - 2]
  ELSE e

Cleared(e, colon) ==
  LET start == IF Marked(e, colon) THEN colon + 1 ELSE e.start
  IN [ser |-> Append(Upto(e.ser, start), "/"), start |-> start, first |-> start + 1]

PoppedIfEmpty(e, colon) ==
  IF e.first >= Len(e.ser) THEN e
  ELSE DropStaleMarker([e EXCEPT !.ser = IF EndsWith(@, "/") THEN Upto(@, Len(@) - 1) ELSE @],
                       colon)

(* The last slash behind the first one, or where the first segment begins. *)
LastSlash(e) ==
  CHOOSE k \in e.first..Len(e.ser) :
    /\ k = e.first \/ TokenAt(e.ser, k, "/")
    /\ \A j \in k + 1..Len(e.ser) - 1 : ~TokenAt(e.ser, j, "/")

(* Mutant: the slash before the last segment stays.                        *)
PoppedKeepsSlash(e, colon) ==
  IF e.first >= Len(e.ser) THEN e
  ELSE DropStaleMarker([e EXCEPT !.ser = Upto(@, LastSlash(e) + 1)], colon)

Popped(e, colon) ==
  IF e.first >= Len(e.ser) THEN e
  ELSE DropStaleMarker([e EXCEPT !.ser = Upto(@, LastSlash(e))], colon)

DotSegment == {<<".">>, <<".", ".">>}

(* One round of the loop of extend.                                        *)
Pushed(e, class, segment) ==
  LET slash == Len(e.ser) > e.start + 1 \/ Len(e.ser) = e.start
      ser   == IF slash THEN Append(e.ser, "/") ELSE e.ser
      drive == /\ class = "file" /\ segment \in DriveLetter
               /\ \A i \in e.start + 1..Len(ser) : ser[i] = "/"
  IN IF segment \in DotSegment THEN e
     ELSE [e EXCEPT
            !.ser = ser \o IF drive THEN <<"C:">>
                           ELSE Encode(segment, IF class = "other" THEN PathSegmentSet
                                                ELSE SpecialPathSegmentSet),
            !.first = IF slash /\ @ = e.start THEN e.start + 1 ELSE @]
-----------------------------------------------------------------------------
(* The guard on the record.                                                *)

(* Mutant: the query is not cut off.                                       *)
AfterQuery(u) == IF u.fragment_start # NONE THEN u.fragment_start ELSE Len(u.ser)

(* Where take_after_path cuts.                                             *)
AfterPath(u) ==
  IF u.query_start # NONE THEN u.query_start
  ELSE IF u.fragment_start # NONE THEN u.fragment_start ELSE Len(u.ser)

RestoreAfterPath(u, g) ==
  MoveQueryAndFragment([u EXCEPT !.ser = @ \o g.tail], g.old, Len(u.ser))

TheGuard == CHOOSE g \in guard : TRUE

GuardInit == Init /\ guard = {}

Setter == guard = {} /\ Next /\ UNCHANGED guard

(* path_segments_mut and take_after_path                                   *)
Open ==
  LET cut == Upto(url.ser, AfterPath(url))
  IN /\ guard = {} /\ outcome # "panic"
     /\ IF CannotBeABase(url) THEN Call(Err(url)) /\ UNCHANGED guard
        ELSE IF Len(cut) > U32Max THEN Call(Panic(url)) /\ UNCHANGED guard
        ELSE /\ Call(Ok([url EXCEPT !.ser = cut]))
             /\ guard' = {[first |-> url.path_start
                                       + IF TokenAt(cut, url.path_start, "/") THEN 1 ELSE 0,
                           tail |-> From(url.ser, AfterPath(url)), old |-> Len(cut)]}

(* drop                                                                    *)
Drop ==
  /\ guard # {}
  /\ IF Len(url.ser) > U32Max THEN Call(Panic(url))
     ELSE Call(Ok(RestoreAfterPath(url, TheGuard)))
  /\ guard' = {}

Edited == [ser |-> url.ser, start |-> url.path_start, first |-> TheGuard.first]

Edit(e) == /\ guard # {}
           /\ url' = [url EXCEPT !.ser = e.ser, !.path_start = e.start]
           /\ guard' = {[TheGuard EXCEPT !.first = e.first]}
           /\ UNCHANGED outcome

Clear      == Edit(Cleared(Edited, url.scheme_end))
PopIfEmpty == Edit(PoppedIfEmpty(Edited, url.scheme_end))
Pop        == Edit(Popped(Edited, url.scheme_end))
Push       == /\ Len(url.ser) <= url.path_start + MaxPath
              /\ \E s \in Segment : Edit(Pushed(Edited, Class(url), s))

GuardNext == Setter \/ Open \/ Drop \/ Clear \/ PopIfEmpty \/ Pop \/ Push

GuardSpec == GuardInit /\ [][GuardNext]_gvars
-----------------------------------------------------------------------------
(* The URL as a drop would leave it now.                                   *)
View == IF guard = {} THEN url ELSE RestoreAfterPath(url, TheGuard)

(* Whenever the guard is dropped, the record is laid out: the offsets of   *)
(* the tail match the text again, and the marker "/." stands where the     *)
(* path begins with "//" and nowhere else, after any sequence of edits.    *)
DropIsLaidOut == outcome # "panic" => LaidOut(View)

(* What is dropped parses to itself, whatever was pushed; only a path that *)
(* was empty before the guard was opened, and stayed so, does not.         *)
DropParses == guard # {} /\ (HasAuthority(View) \/ Path(View) # <<>>) =>
  {Shape(u) : u \in Parse(View.ser)} = {Shape(View)}

(* Whatever is edited, a drop restores every component but the path: the   *)
(* tail that was cut off comes back, and host, port and flags stay.        *)
ButPath(u) == <<[Components(u) EXCEPT !.path = <<>>], u.flags>>

EditsPathOnly ==
  [][(guard # {} \/ guard' # {}) /\ outcome' # "panic" => ButPath(View') = ButPath(View)]_gvars

S == INSTANCE SegmentList WITH
  class    <- Class(url),
  segments <- SegmentsOf(Path(View)),
  open     <- guard # {}

(* Cutting and appending text behind the first slash, the guard edits a    *)
(* list of segments.                                                       *)
ImplementsSegmentList == S!Spec
=============================================================================

----------------------------- MODULE UrlRelative -----------------------------
(***************************************************************************)
(* The URL parser with a base URL (Url::parse_with_base, Url::join), and   *)
(* Url::make_relative.  The base b is a record: what the reference leaves  *)
(* out is copied from its href, and the offsets with it.                   *)
(***************************************************************************)
EXTENDS UrlParser

BasePathEnd(b) == IF b.query_start # NONE THEN b.query_start
                  ELSE IF b.fragment_start # NONE THEN b.fragment_start ELSE Len(b.ser)

BasePath(b)   == Slice(b.ser, b.path_start, BasePathEnd(b))
BaseScheme(b) == Upto(b.ser, b.scheme_end)

Cut(b, end) == [b EXCEPT !.ser = Upto(@, end), !.query_start = NONE, !.fragment_start = NONE]

BasedKeepsMarker(b, path, rest) ==   \* mutant: the marker is written, never removed
  LET colon  == b.scheme_end + 1
      double == TokenAt(path, 0, "/") /\ TokenAt(path, 1, "/")
      head   == IF b.path_start = colon /\ double THEN Upto(b.ser, colon) \o <<"/", ".">>
                ELSE Upto(b.ser, b.path_start)
  IN Finish([Cut(b, 0) EXCEPT !.ser = head \o path, !.path_start = Len(head)], rest)

(* with_query_and_fragment behind the head of the base: the marker "/." is *)
(* written before a path that begins with "//", and removed from any other. *)
Based(b, path, rest) ==
  LET colon  == b.scheme_end + 1
      double == TokenAt(path, 0, "/") /\ TokenAt(path, 1, "/")
      marked == /\ b.path_start = b.scheme_end + 3
                /\ TextAt(b.ser, b.scheme_end, <<":", "/", ".">>)
      head   == CASE b.path_start = colon /\ double -> Upto(b.ser, colon) \o <<"/", ".">>
                  [] marked /\ ~double -> Upto(b.ser, colon)
                  [] OTHER -> Upto(b.ser, b.path_start)
  IN Finish([Cut(b, 0) EXCEPT !.ser = head \o path, !.path_start = Len(head)], rest)

PathPart(s) == Before(s, {"?", "#"})
Tails(s)    == Rest(s, {"?", "#"})
-----------------------------------------------------------------------------
(* References that keep the path of the base.                              *)

SameDocumentKeepsFragment(b, s) ==   \* mutant: the base is cut nowhere
  LET v == b
  IN IF s = <<>> THEN {v}
     ELSE {[v EXCEPT !.ser = @ \o <<"#">> \o EncodeFragment(Tail(s)),
                     !.fragment_start = Len(b.ser)]}

(* fragment_only, and the empty reference                                  *)
SameDocument(b, s) ==
  LET end == IF b.fragment_start = NONE THEN Len(b.ser) ELSE b.fragment_start
      v   == [Cut(b, end) EXCEPT !.query_start = b.query_start]
  IN IF s = <<>> THEN {v}
     ELSE {[v EXCEPT !.ser = @ \o <<"#">> \o EncodeFragment(Tail(s)), !.fragment_start = end]}

OtherQuery(b, s) == Finish(Cut(b, BasePathEnd(b)), s)
-----------------------------------------------------------------------------
(* References whose path continues the one of the base.                    *)

NoBoundary(o, s) == o   \* mutant: the new segment runs on in the last one

(* ensure_path_segment_boundary, for a reference that is not empty.        *)
Boundary(o, s) ==
  IF o = <<>> \/ (~EndsWith(o, "/") /\ ~StartsWith(s, "/")) THEN Append(o, "/") ELSE o

(* parse_relative_path and the last branch of parse_file                   *)
Continue(c, b, shortened, s) ==
  Based(b, PathFrom(c, Boundary(shortened, s), PathPart(s)), Tails(s))

(* starts_with_windows_drive_letter_segment                                *)
StartsWithDrive(s) == /\ s # <<>> /\ s[1] \in Drive
                      /\ Len(s) = 1 \/ s[2] \in PathEnd("file")

(* file_first_path_segment                                                 *)
FirstSegment(b) ==
  LET path == BasePath(b)
  IN Before(IF StartsWith(path, "/") THEN Tail(path) ELSE path, {"/"})

(* The file slash state: the host of the base, and its drive letter unless *)
(* the reference names one.                                                *)
FileSlash(b, s) ==
  LET host  == Slice(b.ser, b.host_start, b.host_end)
      drive == IF FirstSegment(b) = <<"C:">> /\ ~StartsWithDrive(Tail(s))
               THEN <<"/", "C:">> ELSE <<>>
      flags == {"SPECIAL"} \cup (b.flags \cap {"HOST_IPV4", "HOST_IPV6"})
                 \cup (IF host = <<>> THEN {"HAS_EMPTY_HOST"} ELSE {})
  IN Finish(Record(<<"file">>, NoCredentials, host, NoPort,
                   <<"file", ":", "/", "/">> \o host,
                   PathFrom("file", drive, PathPart(s)), flags), Tails(s))

(* parse_file with a base that is a file URL                               *)
ParseFileBased(b, s) ==
  LET slash(i) == Len(s) >= i /\ s[i] \in {"/", "\\"}
  IN CASE slash(1) /\ slash(2) -> ParseFile(<<"file">>, s)
       [] slash(1) -> FileSlash(b, s)
       [] s = <<>> \/ StartsWith(s, "#") -> SameDocument(b, s)
       [] StartsWith(s, "?") -> OtherQuery(b, s)
       [] OTHER -> Continue("file", b, IF StartsWithDrive(s) THEN <<>>
                                       ELSE ShortenPath("file", BasePath(b)), s)

(* parse_relative                                                          *)
ParseRelative(c, b, s) ==
  LET slash(i) == Len(s) >= i /\ IsSlash(c, s[i])
  IN CASE s = <<>> \/ StartsWith(s, "#") -> SameDocument(b, s)
       [] StartsWith(s, "?") -> OtherQuery(b, s)
       [] slash(1) /\ slash(2) -> AfterDoubleSlash(BaseScheme(b), From(s, 2))
       [] slash(1) -> Based(b, PathFrom(c, <<"/">>, PathPart(Tail(s))), Tails(s))
       [] OTHER -> Continue(c, b, ShortenPath(c, BasePath(b)), s)
-----------------------------------------------------------------------------
(* Url::parse_with_base                                                    *)

HasScheme(text) == LET s      == DriveIsScheme(text)
                       scheme == Visible(Before(s, {":"}))
                   IN /\ First(s, {":"}) <= Len(s) /\ scheme # <<>>
                      /\ \A i \in DOMAIN scheme : scheme[i] \in SchemeToken

(* parse_with_scheme: a file or special scheme is relative to a base of    *)
(* the same scheme, a special one only without "//".                       *)
SameScheme(b, s) ==
  LET scheme == Visible(Before(s, {":"}))
      r      == Visible(After(s, {":"}))
      class  == SchemeType(scheme)
      slash(i) == Len(r) >= i /\ r[i] \in {"/", "\\"}
  IN /\ BaseScheme(b) = scheme
     /\ class = "file" \/ (class = "special" /\ ~(slash(1) /\ slash(2)))

ParseUrlBased(b, text) ==
  LET s      == Trim(text)
      scheme == HasScheme(s)
      r      == Visible(IF scheme THEN After(s, {":"}) ELSE s)
      class  == SchemeType(BaseScheme(b))
  IN IF scheme /\ ~SameScheme(b, s) THEN ParseUrl(text)
     ELSE IF ~scheme /\ StartsWith(r, "#") THEN SameDocument(b, r)
     ELSE IF ~scheme /\ "OPAQUE_PATH" \in b.flags THEN {}
     ELSE IF class = "file" THEN ParseFileBased(b, r)
     ELSE ParseRelative(class, b, r)

ParseWithBase(b, text) ==
  IF Len(text) > U32Max THEN {} ELSE {v \in ParseUrlBased(b, text) : Len(v.ser) < U32Max}
-----------------------------------------------------------------------------
(* Url::make_relative.                                                     *)

BaseHost(b) == IF b.host_start = b.host_end /\ "HAS_EMPTY_HOST" \notin b.flags THEN {}
               ELSE {Slice(b.ser, b.host_start, b.host_end)}

(* extract_path_filename.  A path without "/" loses its first character.   *)
Directory(path) == Upto(path, Max({LastSlash(path), 1}) - 1)
Filename(path)  == From(path, Max({LastSlash(path), 1}))

PartBeginsWithSlash(relative, segment) == relative \o <<"/">> \o segment   \* mutant

Part(relative, segment) ==
  IF relative = <<>> THEN segment ELSE relative \o <<"/">> \o segment

(* The directories that are left of each path behind the common ones.      *)
Apart(b, u) ==
  LET from == SplitAt(Directory(BasePath(b)), "/")
      to   == SplitAt(Directory(BasePath(u)), "/")
      same == Max({n \in 0..Min({Len(from), Len(to)}) : \A i \in 1..n : from[i] = to[i]})
  IN [left |-> From(from, same), next |-> From(to, same)]

RelativePath(b, u) ==
  LET apart == Apart(b, u)
      ups   == Min({i \in DOMAIN apart.left : apart.left[i] = <<>>} \cup {Len(apart.left) + 1}) - 1
      dirs  == FoldLeft(Part, <<>>, [i \in 1..ups |-> <<".", ".">>] \o apart.next)
      file  == Filename(BasePath(u))
  IN IF dirs = <<>> /\ Filename(BasePath(b)) = file THEN <<>>
     ELSE IF file = <<>> THEN Append(dirs, "/") ELSE Part(dirs, file)

MakeRelative(b, u) ==
  IF \/ "OPAQUE_PATH" \in b.flags
     \/ BaseScheme(b) # BaseScheme(u) \/ BaseHost(b) # BaseHost(u) \/ b.port # u.port
  THEN {}
  ELSE {RelativePath(b, u) \o From(u.ser, BasePathEnd(u))}
=============================================================================

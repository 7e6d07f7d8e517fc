------------------------------- MODULE UrlJoin -------------------------------
(***************************************************************************)
(* A record that is replaced by what join makes of it and a reference,     *)
(* and changed by setters in between: every later base is a URL that was   *)
(* joined, parsed or built by setters.                                     *)
(***************************************************************************)
EXTENDS UrlLayout

CONSTANTS RefIn,     \* the references given to join
          MaxBase    \* the longest href that is joined onto

R == INSTANCE UrlRelative

Join(u, text) == R!ParseWithBase(u, text)

CallJoin == Len(url.ser) <= MaxBase /\ \E s \in RefIn : \E joined \in {Join(url, s)} :
  Call(IF joined = {} THEN Err(url) ELSE Ok(CHOOSE v \in joined : TRUE))

JoinNext == CallJoin \/ CallScheme \/ CallHost \/ CallPath \/ CallFragment

JoinSpec == Init /\ [][JoinNext]_vars
-----------------------------------------------------------------------------
Href(us) == {u.ser : u \in us}

(* What is joined is a URL like any other: its offsets delimit its         *)
(* components, it parses to itself, and read as a reference ("An absolute  *)
(* URL (with a scheme) as input replaces the whole base URL") it is the    *)
(* same URL on every base.                                                 *)
JoinedIsParsed ==
  /\ Layout
  /\ RoundTrip
  /\ \A s \in HrefIn : \A v \in Parse(s) : Join(url, v.ser) = Parse(v.ser)

(* Two ways to one URL.  A reference that is only a query or a fragment    *)
(* does what the setter of that component does, unless the path is opaque. *)
JoinAgreesWithSetters == ~CannotBeABase(url) => \A x \in {y \in FragmentIn : ~EndsWith(y, " ")} :
  LET bare    == SetFragment(url, {}).url
      answers == {[ref |-> <<>>, url |-> bare],
                  [ref |-> <<"#">> \o x, url |-> SetFragment(url, {x}).url]}
                 \cup {[ref |-> <<"?">> \o q, url |-> SetQuery(bare, {q}).url] :
                        q \in {q \in {x} : ~Has(q, {"#"})}}
  IN \A answer \in answers : LET joined == Join(url, answer.ref) IN
       /\ Href(joined) = {answer.url.ser}
       /\ answer.ref = <<>> => joined = {answer.url}

(* What resolving a reference with a path means: the directory of the base *)
(* is written before it, and the whole is parsed from scratch.  The drive  *)
(* letter of a file URL is a directory even without a slash behind it.     *)
BaseDirectory(u) ==
  IF Scheme(u) = <<"file">> /\ Path(u) = <<"/", "C:">> THEN <<"/", "C:", "/">>
  ELSE IF Path(u) = <<>> THEN <<"/">> ELSE Upto(Path(u), R!LastSlash(Path(u)))

PathReferences ==
  {s \in RefIn : /\ s = Visible(s) /\ s # <<>> /\ ~R!HasScheme(s)
                 /\ s[1] \notin {"/", "\\", "?", "#", " "} /\ ~R!StartsWithDrive(s)}

ResolvesAsWritten == HasAuthority(url) /\ ~Unparsable(url) => \A s \in PathReferences :
  LET written == Upto(url.ser, url.path_start) \o BaseDirectory(url) \o s
  IN {Shape(v) : v \in Join(url, s)} = {Shape(v) : v \in Parse(written)}
-----------------------------------------------------------------------------
(* make_relative and join.                                                 *)

(* Url::make_relative: "This is the inverse of Url::join".  It is for all  *)
(* targets but those that Misled names, and is for none of them: the path  *)
(* of the reference                                                        *)
(*   - leads from a URL without an authority to one with an empty host, or  *)
(*     back, which have no host both;                                      *)
(*   - is left out, though the paths differ, or the target has no query to *)
(*     take the place of the base's;                                       *)
(*   - is "/", and the target is not the root;                             *)
(*   - begins with a scheme or a drive letter, and reads as another URL;   *)
(*   - begins in the directory of the base with an empty name, which is    *)
(*     left out;                                                           *)
(*   - leaves a directory of the base that "..", as make_relative counts   *)
(*     them, cannot leave: behind an empty name, or one of a drive letter; *)
(*   - or always begins with a slash, and that of the target is empty.     *)
(* User and password are never carried over.                               *)
WithoutUserinfo(u) == [Components(u) EXCEPT !.username = <<>>, !.password = <<>>]

DriveNames(u) == IF Scheme(u) = <<"file">> THEN {<<d>> : d \in R!Drive} ELSE {}

(* The reference "/" keeps the drive of a file URL.                        *)
Root(u) == IF R!FirstSegment(u) \in DriveNames(u) THEN <<"/", "C:", "/">> ELSE <<"/">>

Misled(b, v) ==
  LET path  == R!RelativePath(b, v)
      apart == R!Apart(b, v)
      stays == R!ToSet(apart.left) \cup ({R!Filename(Path(b))} \cap {<<"C:">>})
  IN CASE CannotBeABase(v) \/ HasAuthority(b) # HasAuthority(v) -> TRUE
       [] path = <<>>      -> \/ Path(b) # Path(v)
                              \/ v.query_start = NONE /\ b.query_start # NONE
       [] path = <<"/">>   -> Path(v) # Root(b)
       [] OTHER            -> \/ R!HasScheme(path)
                              \/ R!Before(path, {"/"}) \in DriveNames(b)
                              \/ apart.left = <<>> /\ StartsWith(apart.next, <<>>)
                              \/ stays \cap ({<<>>} \cup DriveNames(b)) # {}
                              \/ Path(v) = <<>>

MakeRelativeUndone(targets) == outcome = "ok" =>
  \A v \in targets : \A s \in R!MakeRelative(url, v) :
    ({WithoutUserinfo(u) : u \in Join(url, s)} = {WithoutUserinfo(v)}) <=> ~Misled(url, v)
=============================================================================

------------------------------ MODULE UrlLayout ------------------------------
(***************************************************************************)
(* What the offsets of a Url record mean, and the properties of its        *)
(* setters.                                                                *)
(***************************************************************************)
EXTENDS UrlRecord

Offset == 0..U32Max

FlagNames == {"SPECIAL", "HAS_CREDENTIALS", "HAS_PASSWORD", "OPAQUE_PATH"} \cup HostFlagNames

Records == [ser : Text, scheme_end : Offset, username_end : Offset, host_start : Offset,
            host_end : Offset, port : 0..NoPort, path_start : Offset, query_start : Offset,
            fragment_start : Offset, flags : SUBSET FlagNames]

(* The record keeps its types: no offset leaves u32 and the href stays a   *)
(* text.                                                                   *)
TypeOK == url \in Records /\ outcome \in {"ok", "err", "panic"}
-----------------------------------------------------------------------------
(* The shapes of an href.                                                  *)

PathBegins(u, t) == u.path_start + Len(t) <= PathEndOf(u) /\ TextAt(u.ser, u.path_start, t)
Rooted(u)        == u.path_start = PathEndOf(u) \/ TokenAt(u.ser, u.path_start, "/")

(* scheme "://" userinfo host port path                                    *)
Userinfo(u) ==
  \/ /\ u.host_start = u.scheme_end + 3
     /\ u.username_end = u.host_start
  \/ /\ u.username_end > u.scheme_end + 3
     /\ u.host_start = u.username_end + 1
     /\ TokenAt(u.ser, u.username_end, "@")
  \/ /\ u.username_end >= u.scheme_end + 3
     /\ u.host_start >= u.username_end + 3
     /\ TokenAt(u.ser, u.username_end, ":")
     /\ TokenAt(u.ser, u.host_start - 1, "@")

(* What follows the userinfo is never read as a part of it, so an empty    *)
(* host has no port.                                                       *)
WithAuthority(u) ==
  /\ ~CannotBeABase(u)
  /\ HasAuthority(u)
  /\ Userinfo(u)
  /\ ~TokenAt(u.ser, u.host_start, "@") /\ ~TokenAt(u.ser, u.host_start, ":")
  /\ u.host_start <= u.host_end
  /\ u.path_start = u.host_end + Len(PortSuffix(u.port))
  /\ TextAt(u.ser, u.host_end, PortSuffix(u.port))
  /\ Rooted(u)

(* scheme ":" path, which no special URL is                                *)
WithoutAuthority(u) ==
  /\ ~IsSpecial(Scheme(u))
  /\ u.username_end = u.scheme_end + 1
  /\ u.host_start = u.scheme_end + 1
  /\ u.host_end = u.scheme_end + 1
  /\ u.port = NoPort
  /\ "HAS_EMPTY_HOST" \notin u.flags

OpaqueShape(u) == CannotBeABase(u) /\ u.path_start = u.scheme_end + 1

(* The marker "/." stands before a path that begins with "//", and nowhere *)
(* else; no other path looks like one with the marker.                     *)
PlainShape(u)  == /\ ~CannotBeABase(u)
                  /\ u.path_start = u.scheme_end + 1
                  /\ Rooted(u)
                  /\ ~PathBegins(u, <<"/", "/">>)
                  /\ ~PathBegins(u, <<"/", ".", "/">>)
MarkerShape(u) == /\ ~CannotBeABase(u)
                  /\ u.path_start = u.scheme_end + 3
                  /\ TextAt(u.ser, u.scheme_end + 1, <<"/", ".">>)
                  /\ PathBegins(u, <<"/", "/">>)

(* Query and fragment, each behind its delimiter, at the end of the href.  *)
Tails(u) ==
  /\ u.path_start <= PathEndOf(u)
  /\ PathEndOf(u) <= QueryEndOf(u)
  /\ QueryEndOf(u) <= Len(u.ser)
  /\ u.query_start # NONE =>
       u.query_start < QueryEndOf(u) /\ TokenAt(u.ser, u.query_start, "?")
  /\ u.fragment_start # NONE => TokenAt(u.ser, u.fragment_start, "#")

LaidOut(u) ==
  /\ u.scheme_end > 0
  /\ TokenAt(u.ser, u.scheme_end, ":")
  /\ Tails(u)
  /\ \/ WithAuthority(u)
     \/ WithoutAuthority(u) /\ (OpaqueShape(u) \/ PlainShape(u) \/ MarkerShape(u))

-----------------------------------------------------------------------------
(* What the components of one record have to do with each other.           *)

Has(s, set) == \E i \in DOMAIN s : s[i] \in set

Undelimited(u) ==
  /\ ~Has(Username(u), {"/", "?", "#", "@", ":"}) /\ ~Has(Password(u), {"/", "?", "#", "@", ":"})
  /\ ~Has(Path(u), {"?", "#"})
  /\ \A q \in Query(u) : ~Has(q, {"#"})

FlagsMatch(u) ==
  /\ "SPECIAL" \in u.flags <=> IsSpecial(Scheme(u))
  /\ "HAS_CREDENTIALS" \in u.flags <=> IncludesCredentials(u)
  /\ "HAS_PASSWORD" \in u.flags <=> Password(u) # <<>>
  /\ u.flags \cap HostFlagNames # {} =>
       ("HAS_EMPTY_HOST" \in u.flags <=> HostText(u) = <<>>)

PortBelongs(u) ==
  /\ IncludesCredentials(u) \/ u.port # NoPort => ~CannotHaveUsernamePasswordPort(u)
  /\ u.port = DefaultPort(Scheme(u)) => u.port = NoPort
-----------------------------------------------------------------------------
(* What the setters rely on in their inputs and in the parsers.  Only the  *)
(* inputs of the run or the theorem are concerned.                         *)

SchemeTypes == {"special", "file", "other"}

HostWord(s) == s \in Text /\ ~StartsWith(s, "@") /\ ~StartsWith(s, ":")
PathWord(s) == /\ s \in Text
               /\ s = <<>> \/ StartsWith(s, "/")
               /\ ~TextAt(s, 0, <<"/", ".", "/">>)

(* "." is resolved wherever a path is parsed, so no path begins with it.   *)
NoDotFirst(s) == TextAt(s, 0, <<"/", ".">>) => Len(s) > 2 /\ s[3] # "/"

WithTails(S)  == S \cup {Tail(s) : s \in S \ {<<>>}}
WithSlash(S) == S \cup {<<"/">> \o s : s \in S}
PortTexts == PortIn \cup WithTails({r.rest : r \in UNION {ParseHostSetter(c, s) : c \in SchemeTypes, s \in HostIn}})

ASSUME InputAssumption ==
  /\ SchemeIn \cup UserinfoIn \cup HostIn \cup PathIn \cup QueryIn \cup FragmentIn \subseteq Text
  /\ Port \subseteq 0..NoPort
  /\ \A h \in IpHost : HostWord(h.text) /\ h.text # <<>>

ASSUME VisibleAssumption ==
  \A s \in SchemeIn \cup {BeforeColon(x) : x \in SchemeIn} \cup WithTails(QueryIn \cup FragmentIn) :
    Visible(s) \in Text

ASSUME ParserAssumption ==
  /\ \A s \in HrefIn : \A r \in Parse(s) :
       r \in Records /\ LaidOut(r) /\ FlagsMatch(r) /\ PortBelongs(r) /\ Undelimited(r)
  /\ \A c \in SchemeTypes, s \in HostIn : \A r \in ParseHostSetter(c, s) :
       /\ HostWord(r.host.text) /\ r.rest \in Text
       /\ r.host.text = <<>> => c # "special" /\ r.host.kind = "domain"
       /\ c = "file" => ~StartsWith(r.rest, ":")
  /\ \A s \in PortTexts, d \in {21, 80, 443, NoPort} :
       ParsePortSetter(s, d) \subseteq (0..NoPort \ {d}) \cup {NoPort}
  /\ \A c \in SchemeTypes, s \in WithSlash(PathIn) :
       PathWord(ParsePath(c, s)) /\ ~Has(ParsePath(c, s), {"?", "#"})
  /\ \A s \in WithTails(PathIn) : ParseOpaquePath(s) \in Text /\ ~Has(ParseOpaquePath(s), {"?", "#"})

ASSUME DotAssumption ==
  /\ \A s \in HrefIn : \A r \in Parse(s) : CannotBeABase(r) \/ NoDotFirst(Path(r))
  /\ \A c \in SchemeTypes, s \in WithSlash(PathIn) : NoDotFirst(ParsePath(c, s))

(* After every sequence of calls the offsets delimit the components in     *)
(* order and the delimiters stand where the getters skip them: "://", "@", *)
(* ":port", the marker, "?" and "#".                                       *)
Layout == outcome # "panic" => LaidOut(url)
-----------------------------------------------------------------------------
(* No delimiter hides inside a component, so the href splits in one way.   *)
Unambiguous == outcome # "panic" => Undelimited(url)

(* The credential flags are caches of what the text says, SPECIAL of the   *)
(* scheme, and the host flags never name a host that is not there.         *)
FlagsAgree == outcome # "panic" => FlagsMatch(url)

(* Credentials and a port belong to a host that is not empty, never to a   *)
(* file URL, and the default port of the scheme is never written.          *)
PortAndCredentials == outcome # "panic" => PortBelongs(url)
-----------------------------------------------------------------------------
(* Parsing the href again.                                                 *)

Shape(u) == [u EXCEPT !.flags = @ \ HostFlagNames]

(* The hrefs the setters can build that the parser would not:              *)
(*  - a file URL whose host became "localhost" or kept a raw drive letter  *)
(*    when the scheme was set to file, or a path whose first segment did;  *)
(*  - a URL without authority whose path was set to "": it reads as opaque; *)
(*  - an opaque path with a leading "/" or a trailing space that set_path  *)
(*    let through because a tab hid it.                                    *)
Unparsable(u) ==
  \/ Scheme(u) = <<"file">> /\ (HostText(u) = <<"localhost">> \/ Has(Path(u), {"C|"}))
  \/ ~CannotBeABase(u) /\ ~HasAuthority(u) /\ Path(u) = <<>>
  \/ CannotBeABase(u) /\ (StartsWith(Path(u), "/") \/ EndsWith(Path(u), " "))

(* Every other href parses to the very record it was taken from: no later  *)
(* caller can tell a URL that was built by setters from one that was       *)
(* parsed, except by the host flags of a URL that is not special or file.  *)
RoundTrip == outcome # "panic" /\ ~Unparsable(url) =>
  /\ {Shape(u) : u \in Parse(url.ser)} = {Shape(url)}
  /\ Class(url) = "special" => Parse(url.ser) = {url}
(* A setter that is given what the getter of its component returns leaves  *)
(* the href alone (the "Idempotent" early returns of setters.rs, and the   *)
(* setters that have none).  No host is not the same as an empty host.     *)
FeedingBack == outcome # "panic" /\ ~Unparsable(url) =>
  LET same(result) == result.url.ser = url.ser
  IN /\ same(SetProtocol(url, Scheme(url) \o <<":">>))
     /\ same(SetUsername(url, Username(url)))
     /\ same(SetPassword(url, Password(url)))
     /\ HasHost(url) => /\ same(SetHost(url, HostWithPort(url)))
                        /\ same(SetHostname(url, Hostname(url)))
     /\ same(SetPort(url, url.port))
     /\ same(SetPathname(url, Path(url)))
     /\ same(SetPath(url, Path(url)))
     /\ same(SetSearch(url, Search(url)))
     /\ same(SetQuery(url, Query(url)))
     /\ same(SetHash(url, Hash(url)))
     /\ same(SetFragment(url, Fragment(url)))
-----------------------------------------------------------------------------
(* What the documentation promises and the code does not keep; each is     *)
(* refuted by a run of its own.                                            *)

(* CHANGELOG.md, 0.6.5: a setter panics when its result is longer than     *)
(* u32::MAX, so no href that long is ever left behind.                     *)
NeverTooLong == outcome # "panic" => Len(url.ser) <= U32Max

(* fuzz/fuzz_targets/url_mutate_fuzz.rs: after a mutation the href parses  *)
(* again, to the same href.                                                *)
Reparses == outcome # "panic" => {u.ser : u \in Parse(url.ser)} = {url.ser}

(* Url::domain: None when the host is an IPv4 or IPv6 address, which every *)
(* host of a special URL that is spelled like one is.                      *)
DomainIsNoAddress == outcome # "panic" /\ IsSpecial(Scheme(url)) =>
  Domain(url) \cap {<<"1.2.3.4">>, <<"[::1]">>} = {}

(* Url::authority: the text between "//" and the path, None when there is  *)
(* no "//"; the slice needs the path to start behind the "//".             *)
AuthorityIsBehindSlashes == outcome # "panic" =>
  (HasAuthority(url) => url.scheme_end + 3 <= url.path_start)
-----------------------------------------------------------------------------
(* The components a caller sees through the getters.                       *)

Components(u) ==
  [scheme |-> Scheme(u), username |-> Username(u), password |-> Password(u),
   host |-> IF u.host_start > u.scheme_end + 1 THEN {HostText(u)} ELSE {},
   port |-> u.port, path |-> Path(u), opaque |-> CannotBeABase(u),
   query |-> Query(u), fragment |-> Fragment(u)]

ParsedHrefs == {Components(u) : u \in UNION {Parse(s) : s \in HrefIn}}

C == INSTANCE UrlComponents WITH Hrefs <- ParsedHrefs, parts <- Components(url)

(* Cutting and moving text, every setter changes the component it is for   *)
(* and no other: the record implements the record of separate components.  *)
ImplementsComponents == C!Spec
=============================================================================

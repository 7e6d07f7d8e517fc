------------------------------ MODULE UrlRecord ------------------------------
(***************************************************************************)
(* The Url record of src/lib.rs and its setters (src/parser/setters.rs).   *)
(*                                                                         *)
(* The record owns one text, the href, and u32 offsets into it; there is   *)
(* no other copy of a component.  A setter cuts the text, writes the new   *)
(* component and moves every offset behind it by the difference, and it    *)
(* often decides what to do by looking at the character that happens to    *)
(* stand at an offset.                                                     *)
(*                                                                         *)
(* A setter is an operator from a record to [url, outcome]; outcome is     *)
(* "ok", "err" for Err(()), or "panic" when a length does not fit in u32.  *)
(***************************************************************************)
EXTENDS UrlInputs

VARIABLES url,      \* the record
          outcome   \* what the last call returned

vars == <<url, outcome>>

Ok(u)    == [url |-> u, outcome |-> "ok"]
Err(u)   == [url |-> u, outcome |-> "err"]
Panic(u) == [url |-> u, outcome |-> "panic"]

(* u32::try_from(len).unwrap_or_else(panic) for the lengths of these texts; *)
(* the record is not looked at again after it unwound.                      *)
Checked(texts, old, new) ==
  IF \E t \in texts : Len(t) > U32Max THEN Panic(old) ELSE Ok(new)
-----------------------------------------------------------------------------
(* Getters.                                                                *)

Scheme(u) == Upto(u.ser, u.scheme_end)
Class(u)  == SchemeType(Scheme(u))

HasAuthority(u) ==
  TokenAt(u.ser, u.scheme_end + 1, "/") /\ TokenAt(u.ser, u.scheme_end + 2, "/")

HasHost(u)  == u.host_start # u.host_end \/ "HAS_EMPTY_HOST" \in u.flags
HostText(u) == Slice(u.ser, u.host_start, u.host_end)
Hostname(u) == IF HasHost(u) THEN HostText(u) ELSE <<>>

Domain(u) ==
  IF u.flags \cap {"HOST_IPV4", "HOST_IPV6"} # {} \/ ~HasHost(u) THEN {}
  ELSE {HostText(u)}

HostWithPort(u) ==
  IF ~HasHost(u) THEN <<>>
  ELSE Slice(u.ser, u.host_start, IF u.port # NoPort THEN u.path_start ELSE u.host_end)

Username(u) ==
  IF HasAuthority(u) /\ u.username_end > u.scheme_end + 3
  THEN Slice(u.ser, u.scheme_end + 3, u.username_end) ELSE <<>>

(* password_opt: is there a ":" where the username ends?                   *)
HasPasswordSlot(u) == HasAuthority(u) /\ TokenAt(u.ser, u.username_end, ":")

Password(u) ==
  IF HasPasswordSlot(u) THEN Slice(u.ser, u.username_end + 1, u.host_start - 1) ELSE <<>>

PathEndOf(u) == IF u.query_start # NONE THEN u.query_start
                ELSE IF u.fragment_start # NONE THEN u.fragment_start ELSE Len(u.ser)
QueryEndOf(u) == IF u.fragment_start # NONE THEN u.fragment_start ELSE Len(u.ser)

Path(u)     == Slice(u.ser, u.path_start, PathEndOf(u))
Query(u)    == IF u.query_start = NONE THEN {}
               ELSE {Slice(u.ser, u.query_start + 1, QueryEndOf(u))}
Fragment(u) == IF u.fragment_start = NONE THEN {}
               ELSE {From(u.ser, u.fragment_start + 1)}

Search(u) == IF u.query_start = NONE \/ QueryEndOf(u) = u.query_start + 1 THEN <<>>
             ELSE Slice(u.ser, u.query_start, QueryEndOf(u))
Hash(u)   == IF u.fragment_start = NONE \/ u.fragment_start + 1 = Len(u.ser) THEN <<>>
             ELSE From(u.ser, u.fragment_start)

CannotBeABase(u)       == "OPAQUE_PATH" \in u.flags
IncludesCredentials(u) == Username(u) # <<>> \/ Password(u) # <<>>
HostIsNullOrEmpty(u)   == Hostname(u) = <<>>

CannotHaveUsernamePasswordPort(u) == HostIsNullOrEmpty(u) \/ Scheme(u) = <<"file">>
-----------------------------------------------------------------------------
(* Moving offsets and flags.                                               *)

MoveQueryAndFragment(u, old, new) ==
  [u EXCEPT !.query_start    = AdjustOpt(@, old, new),
            !.fragment_start = AdjustOpt(@, old, new)]

MovePath(u, old, new) ==
  MoveQueryAndFragment([u EXCEPT !.path_start = Adjust(@, old, new)], old, new)

MoveHost(u, old, new) ==
  MovePath([u EXCEPT !.host_start = Adjust(@, old, new),
                     !.host_end   = Adjust(@, old, new)], old, new)

(* Mutant: only one of the two flags is brought up to date.                *)
SyncOneFlag(u) ==
  [u EXCEPT !.flags = (@ \ {"HAS_CREDENTIALS"})
     \cup (IF IncludesCredentials(u) THEN {"HAS_CREDENTIALS"} ELSE {})]

SyncCredentialFlags(u) ==
  [u EXCEPT !.flags = (@ \ {"HAS_CREDENTIALS", "HAS_PASSWORD"})
     \cup (IF IncludesCredentials(u) THEN {"HAS_CREDENTIALS"} ELSE {})
     \cup (IF Password(u) # <<>> THEN {"HAS_PASSWORD"} ELSE {})]
-----------------------------------------------------------------------------
(* Ports.                                                                  *)

PortSuffix(p) == IF p = NoPort THEN <<>> ELSE <<":">> \o PortText(p)

SetPortInternal(u, port) ==
  LET head == Upto(u.ser, u.host_end) \o PortSuffix(port)
      v    == [u EXCEPT !.ser  = head \o From(u.ser, u.path_start),
                        !.port = port, !.path_start = Len(head)]
      gap  == u.path_start - u.host_end
  IN IF port = u.port THEN Ok(u)
     ELSE IF port = NoPort
     THEN Ok([v EXCEPT
            !.query_start    = IF @ = NONE THEN NONE ELSE @ - gap,
            !.fragment_start = IF @ = NONE THEN NONE ELSE @ - gap])
     ELSE Checked({head}, u, MoveQueryAndFragment(v, u.path_start, Len(head)))

(* Mutant: the default port of the scheme is written like any other.       *)
SetPortAsGiven(u, port) ==
  IF CannotHaveUsernamePasswordPort(u) THEN Err(u) ELSE SetPortInternal(u, port)

SetPort(u, port) ==
  LET p == IF port = DefaultPort(Scheme(u)) THEN NoPort ELSE port
  IN IF CannotHaveUsernamePasswordPort(u) THEN Err(u) ELSE SetPortInternal(u, p)

SetPortStr(u, text) ==
  LET parsed == ParsePortSetter(text, DefaultPort(Scheme(u)))
  IN IF CannotHaveUsernamePasswordPort(u) THEN Err(u)
     ELSE IF text = <<>> THEN SetPortInternal(u, NoPort)
     ELSE IF parsed = {} THEN Err(u)
     ELSE SetPortInternal(u, CHOOSE p \in parsed : TRUE)
-----------------------------------------------------------------------------
(* Scheme.                                                                 *)

(* Mutant: a URL with credentials or a port may become a file URL.         *)
SchemeRefusedLax(u, scheme, rest) ==
  \/ IsSpecial(scheme) # IsSpecial(Scheme(u))
  \/ rest # <<>>
  \/ HostIsNullOrEmpty(u) /\ (IsSpecial(scheme) \/ Scheme(u) = <<"file">>)

SchemeRefused(u, scheme, rest) ==
  \/ IsSpecial(scheme) # IsSpecial(Scheme(u))
  \/ scheme = <<"file">> /\ (IncludesCredentials(u) \/ u.port # NoPort)
  \/ Scheme(u) = <<"file">> /\ HostIsNullOrEmpty(u)
  \/ rest # <<>>
  \/ HostIsNullOrEmpty(u) /\ IsSpecial(scheme)
  \/ CannotBeABase(u) /\ IsSpecial(scheme)

(* The scheme replaced, before the port is looked at again.                *)
WithScheme(u, scheme) ==
  LET old == u.scheme_end
      new == Len(scheme)
  IN MoveHost([u EXCEPT !.ser = scheme \o From(u.ser, old),
                        !.scheme_end = new,
                        !.username_end = Adjust(@, old, new),
                        !.flags = IF IsSpecial(scheme) THEN @ \cup {"SPECIAL"}
                                  ELSE @ \ {"SPECIAL"}], old, new)

SetScheme(u, text) ==
  LET parsed == ParseSchemeSetter(text)
      s      == CHOOSE r \in parsed : TRUE
      v      == WithScheme(u, s.scheme)
      ported == SetPort(v, v.port)
  IN IF parsed = {} \/ SchemeRefused(u, s.scheme, s.rest) THEN Err(u)
     ELSE IF s.scheme = Scheme(u) THEN Ok(u)
     ELSE IF Len(s.scheme) > U32Max THEN Err(u)
     ELSE IF ported.outcome = "panic" THEN Panic(u)
     ELSE Ok(ported.url)

SetProtocol(u, text) == SetScheme(u, BeforeColon(text))
-----------------------------------------------------------------------------
(* Credentials.  Both setters keep or drop the "@" by looking at the       *)
(* character after the username.  A length that does not fit is an Err     *)
(* after the href was cut.                                                 *)

SetUsername(u, name) ==
  LET start == u.scheme_end + 3
      head  == Upto(u.ser, start) \o EncodeUserinfo(name)
      at    == TokenAt(u.ser, u.username_end, "@")
      named == IF Len(head) # start /\ ~at /\ ~TokenAt(u.ser, u.username_end, ":")
               THEN head \o <<"@">> ELSE head
      cut   == IF Len(head) = start /\ at THEN u.username_end + 1 ELSE u.username_end
      v     == MoveHost([u EXCEPT !.ser = named \o From(@, cut), !.username_end = Len(head)],
                        cut, Len(named))
  IN IF CannotHaveUsernamePasswordPort(u) THEN Err(u)
     ELSE IF Slice(u.ser, start, u.username_end) = name THEN Ok(u)
     ELSE IF Len(head) > U32Max THEN Err([u EXCEPT !.ser = head])
     ELSE Ok(SyncCredentialFlags(v))

(* The password slot cut out, with its "@" when no username is left.       *)
WithoutPassword(u) ==
  LET end == IF u.username_end = u.scheme_end + 3 THEN u.host_start ELSE u.host_start - 1
      gap == end - u.username_end
  IN [u EXCEPT !.ser = Upto(@, u.username_end) \o From(@, end),
               !.host_start = @ - gap, !.host_end = @ - gap, !.path_start = @ - gap,
               !.query_start    = IF @ = NONE THEN NONE ELSE @ - gap,
               !.fragment_start = IF @ = NONE THEN NONE ELSE @ - gap]

SetPassword(u, password) ==
  LET encoded == EncodeUserinfo(password)
      head == Upto(u.ser, u.username_end) \o (<<":">> \o encoded \o <<"@">>)
      v    == MovePath([u EXCEPT !.ser = head \o From(@, u.host_start),
                                 !.host_start = Len(head),
                                 !.host_end = Adjust(@, u.host_start, Len(head))],
                       u.host_start, Len(head))
  IN IF CannotHaveUsernamePasswordPort(u) THEN Err(u)
     ELSE IF password = <<>>
     THEN IF HasPasswordSlot(u) THEN Ok(SyncCredentialFlags(WithoutPassword(u))) ELSE Ok(u)
     ELSE IF HasPasswordSlot(u) /\ Password(u) = encoded THEN Ok(u)
     ELSE IF Len(head) > U32Max THEN Err([u EXCEPT !.ser = head])
     ELSE Ok(SyncCredentialFlags(v))
-----------------------------------------------------------------------------
(* Hosts.                                                                  *)

HostFlagNames == {"HOST_IPV4", "HOST_IPV6", "HOST_IDNA", "HAS_EMPTY_HOST"}

FlagsOfHost(host) ==
  CASE host.kind = "ipv4" -> {"HOST_IPV4"}
    [] host.kind = "ipv6" -> {"HOST_IPV6"}
    [] host.text = <<>>   -> {"HAS_EMPTY_HOST"}
    [] OTHER -> IF \E i \in DOMAIN host.text : host.text[i] = "xn--"
                THEN {"HOST_IDNA"} ELSE {}

(* newPort is Option<Option<u16>>: {} leaves the port, {NoPort} removes it. *)
(* A URL without authority gets its "//" here, and loses the marker "/."   *)
(* that kept its path apart from the scheme.                               *)
SetHostInternal(u, host, newPort) ==
  LET suffixPos == IF newPort = {} THEN u.host_end ELSE u.path_start
      slashes   == IF HasAuthority(u) THEN <<>> ELSE <<"/", "/">>
      skip      == IF ~HasAuthority(u) /\ TextAt(u.ser, suffixPos, <<"/", ".", "/", "/">>)
                   THEN 2 ELSE 0
      port      == IF newPort = {} THEN u.port ELSE CHOOSE p \in newPort : TRUE
      named     == Upto(u.ser, u.host_start) \o slashes \o host.text
      head      == named \o (IF newPort = {} THEN <<>> ELSE PortSuffix(port))
      v == MovePath([u EXCEPT !.ser = head \o From(@, suffixPos + skip),
                              !.username_end = @ + Len(slashes),
                              !.host_start   = @ + Len(slashes),
                              !.host_end     = Len(named),
                              !.port         = port,
                              !.flags = (@ \ HostFlagNames) \cup FlagsOfHost(host)],
                    suffixPos + skip, Len(head))
  IN Checked({named, head}, u, v)

EmptyDomain == [text |-> <<>>, kind |-> "domain"]

SetIpHost(u, host) == IF CannotBeABase(u) THEN Err(u) ELSE SetHostInternal(u, host, {})

(* The port after a host: a port that does not parse is left alone.        *)
PortAfterHost(u, rest) ==
  IF StartsWith(rest, ":") /\ Tail(rest) # <<>>
  THEN ParsePortSetter(Tail(rest), DefaultPort(Scheme(u))) ELSE {}

SetHost(u, text) ==
  LET parsed  == ParseHostSetter(Class(u), text)
      r       == CHOOSE x \in parsed : TRUE
      newPort == PortAfterHost(u, r.rest)
  IN IF CannotBeABase(u) THEN Err(u)
     ELSE IF text # <<>> /\ text = HostWithPort(u) THEN Ok(u)
     ELSE IF Class(u) = "file" /\ text = <<>> THEN SetHostInternal(u, EmptyDomain, {NoPort})
     ELSE IF parsed = {} THEN Err(u)
     ELSE IF r.host.text = <<>> /\ (IncludesCredentials(u) \/ u.port # NoPort
                                      \/ newPort \notin {{}, {NoPort}})
     THEN Err(u)
     ELSE SetHostInternal(u, r.host, newPort)

SetHostname(u, text) ==
  LET parsed == ParseHostSetter(Class(u), text)
      r      == CHOOSE x \in parsed : TRUE
  IN IF CannotBeABase(u) THEN Err(u)
     ELSE IF text # <<>> /\ text = Hostname(u) THEN Ok(u)
     ELSE IF Class(u) = "file" /\ text = <<>> THEN SetHostInternal(u, EmptyDomain, {NoPort})
     ELSE IF parsed = {} \/ StartsWith(r.rest, ":") THEN Err(u)
     ELSE IF r.host.text = <<>> /\ (Class(u) = "special" \/ u.port # NoPort
                                      \/ IncludesCredentials(u))
     THEN Err(u)
     ELSE SetHostInternal(u, r.host, {})
-----------------------------------------------------------------------------
(* Path.                                                                   *)

(* The marker "/." found where the path starts.                            *)
HasMarker(u) ==
  /\ ~CannotBeABase(u) /\ ~HasAuthority(u)
  /\ u.path_start = u.scheme_end + 3
  /\ TokenAt(u.ser, u.scheme_end + 1, "/") /\ TokenAt(u.ser, u.scheme_end + 2, ".")

WritePath(u, path) ==
  LET before == Upto(u.ser, PathEndOf(u))
      after  == From(u.ser, PathEndOf(u))
      bare   == [u EXCEPT !.ser = before]
      start  == IF HasMarker(bare) THEN u.scheme_end + 1 ELSE u.path_start
      marked == /\ ~CannotBeABase(u) /\ Class(u) = "other" /\ start = u.scheme_end + 1
                /\ TokenAt(path, 0, "/") /\ TokenAt(path, 1, "/")
      head   == Upto(before, start) \o (IF marked THEN <<"/", ".">> ELSE <<>>) \o path
  IN Checked({before, head}, u,
       MoveQueryAndFragment([u EXCEPT !.ser = head \o after,
                                      !.path_start = IF marked THEN start + 2 ELSE start],
                            Len(before), Len(head)))

SetPath(u, text) ==
  WritePath(u, IF ~CannotBeABase(u) THEN ParsePath(Class(u), text)
               ELSE IF StartsWith(text, "/") THEN <<"%2F">> \o ParseOpaquePath(Tail(text))
               ELSE ParseOpaquePath(text))

SetPathname(u, text) ==
  LET special == IsSpecial(Scheme(u))
      same == \/ StartsWith(text, "/") /\ text = Path(u)
              \/ text # <<>> /\ text[1] \notin {"/", "\\"} /\ Path(u) = <<"/">> \o text
              \/ text = <<>> /\ Path(u) = <<"/">> /\ (special \/ ~HasAuthority(u))
      rooted == StartsWith(text, "/") \/ (special /\ StartsWith(text, "\\"))
  IN IF CannotBeABase(u) \/ same THEN Ok(u)
     ELSE IF ~rooted /\ (special \/ text # <<>> \/ ~HasAuthority(u))
     THEN SetPath(u, <<"/">> \o text) ELSE SetPath(u, text)
-----------------------------------------------------------------------------
(* Query and fragment.                                                     *)

StripNothing(u) == u   \* mutant: the spaces a query or fragment hid stay

(* A URL that lost query and fragment must not end with spaces, or they    *)
(* would be trimmed when the href is parsed again.                         *)
StripTrailingSpaces(u) ==
  LET spaces == Cardinality({i \in DOMAIN u.ser : \A j \in i..Len(u.ser) : u.ser[j] = " "})
  IN IF ~CannotBeABase(u) \/ u.query_start # NONE \/ u.fragment_start # NONE
     THEN u
     ELSE [u EXCEPT !.ser = Upto(@, Len(@) - spaces)]

SetQuery(u, query) ==
  LET hash  == IF u.fragment_start = NONE THEN <<>> ELSE From(u.ser, u.fragment_start)
      path  == Upto(u.ser, PathEndOf(u))
      text  == CHOOSE q \in query : TRUE
      ser   == path \o (IF query = {} THEN <<>> ELSE <<"?">> \o EncodeQuery(Visible(text)))
      v     == [u EXCEPT !.ser = ser, !.fragment_start = NONE,
                         !.query_start = IF query = {} THEN NONE ELSE Len(path)]
  IN IF u.fragment_start = NONE
     THEN Checked(IF query = {} THEN {} ELSE {path}, u,
                  IF query = {} THEN StripTrailingSpaces(v) ELSE v)
     ELSE Checked(IF query = {} THEN {ser} ELSE {path, ser}, u,
                  [v EXCEPT !.ser = ser \o hash, !.fragment_start = Len(ser)])

SetFragment(u, fragment) ==
  LET head == Upto(u.ser, QueryEndOf(u))
      text == CHOOSE f \in fragment : TRUE
  IN IF fragment = {}
     THEN Ok(StripTrailingSpaces([u EXCEPT !.ser = head, !.fragment_start = NONE]))
     ELSE Checked({head}, u,
            [u EXCEPT !.ser = head \o <<"#">> \o EncodeFragment(Visible(text)),
                      !.fragment_start = Len(head)])

(* set_search and set_hash: a leading delimiter is optional, an empty text *)
(* removes the component, and nothing happens when the getter agrees.      *)
WithDelimiter(text, d) == IF StartsWith(text, d) THEN text ELSE <<d>> \o text

(* Mutant: the early return is missing.                                    *)
SetHashAlways(u, text) ==
  SetFragment(u, IF text = <<>> THEN {} ELSE {Tail(WithDelimiter(text, "#"))})

SetSearch(u, text) ==
  IF IF text = <<>> THEN Search(u) = <<>> ELSE Search(u) = WithDelimiter(text, "?")
  THEN Ok(u)
  ELSE SetQuery(u, IF text = <<>> THEN {} ELSE {Tail(WithDelimiter(text, "?"))})

SetHash(u, text) ==
  IF IF text = <<>> THEN Hash(u) = <<>> ELSE Hash(u) = WithDelimiter(text, "#")
  THEN Ok(u)
  ELSE SetFragment(u, IF text = <<>> THEN {} ELSE {Tail(WithDelimiter(text, "#"))})

(* set_href replaces the record only when the text parses.                 *)
Replaced(u, parsed) == IF parsed = {} THEN Err(u) ELSE Ok(CHOOSE v \in parsed : TRUE)

SetHref(u, text) == Replaced(u, Parse(text))
-----------------------------------------------------------------------------
(* The record under any sequence of calls.                                 *)

Init == /\ \E text \in HrefIn : url \in Parse(text)
        /\ outcome = "ok"

Call(result) == /\ outcome # "panic"
                /\ url' = result.url
                /\ outcome' = result.outcome

CallHref     == \E s \in HrefIn : Call(SetHref(url, s))
CallScheme   == \E s \in SchemeIn : Call(SetScheme(url, s))
CallProtocol == \E s \in SchemeIn : Call(SetProtocol(url, s))
CallUsername == \E s \in UserinfoIn : Call(SetUsername(url, s))
CallPassword == \E s \in UserinfoIn : Call(SetPassword(url, s))
CallIpHost   == \E h \in IpHost : Call(SetIpHost(url, h))
CallHost     == \E s \in HostIn : Call(SetHost(url, s))
CallHostname == \E s \in HostIn : Call(SetHostname(url, s))
CallPortStr  == \E s \in PortIn : Call(SetPortStr(url, s))
CallPort     == \E p \in Port : Call(SetPort(url, p))
CallPathname == \E s \in PathIn : Call(SetPathname(url, s))
CallPath     == \E s \in PathIn : Call(SetPath(url, s))
CallSearch   == \E s \in QueryIn : Call(SetSearch(url, s))
CallQuery    == \E q \in Option(QueryIn) : Call(SetQuery(url, q))
CallHash     == \E s \in FragmentIn : Call(SetHash(url, s))
CallFragment == \E f \in Option(FragmentIn) : Call(SetFragment(url, f))

Next == \/ CallHref \/ CallScheme \/ CallProtocol
        \/ CallUsername \/ CallPassword
        \/ CallIpHost \/ CallHost \/ CallHostname
        \/ CallPortStr \/ CallPort
        \/ CallPathname \/ CallPath
        \/ CallSearch \/ CallQuery \/ CallHash \/ CallFragment

Spec == Init /\ [][Next]_vars
=============================================================================

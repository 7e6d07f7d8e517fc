----------------------------- MODULE UrlParser -----------------------------
(***************************************************************************)
(* The basic URL parser for absolute texts (Parser in src/parser/mod.rs,   *)
(* no base URL) and the parsers the setters share with it.  A parser that  *)
(* may fail returns a set: {} is Err, {r} is Ok(r).                        *)
(*                                                                         *)
(* A parsed URL is the record of lib.rs: the href `ser` and the offsets    *)
(* into it.  Everywhere but in an opaque path the parser skips tabs, so it *)
(* is given the Visible text there.                                        *)
(***************************************************************************)
EXTENDS PathText

(* The place of the first token of `set` in s, Len(s) + 1 when none.       *)
First(s, set) == Min({i \in 1..Len(s) : s[i] \in set} \cup {Len(s) + 1})

Before(s, set) == Upto(s, First(s, set) - 1)
After(s, set)  == From(s, First(s, set))          \* the delimiter is dropped
Rest(s, set)   == From(s, First(s, set) - 1)      \* the delimiter is kept

PathEnd(class) == IF class = "other" THEN {"/", "?", "#"} ELSE {"/", "\\", "?", "#"}
-----------------------------------------------------------------------------
(* Hosts.  A host word is canonicalised by the special host parser         *)
(* (IDNA, IPv4 numbers), and kept by the opaque host parser.               *)

IPv6Word == {"[::1]"}
IPv4Word == {"1.2.3.4"}

CanonicalHost == [w \in {"h", "H", "localhost", "1.2.3.4", "0x1020304", "[::1]", "xn--"} |->
  CASE w = "H" -> "h" [] w = "0x1020304" -> "1.2.3.4" [] OTHER -> w]

EmptyHost == [text |-> <<>>, kind |-> "domain"]

(* parse_host, for a text that is not empty                                *)
SpecialHost(s) ==
  IF Len(s) = 1 /\ s[1] \in DOMAIN CanonicalHost
  THEN LET w == CanonicalHost[s[1]]
       IN {[text |-> <<w>>, kind |-> IF w \in IPv6Word THEN "ipv6"
                                     ELSE IF w \in IPv4Word THEN "ipv4" ELSE "domain"]}
  ELSE {}

(* parse_opaque_host                                                       *)
OpaqueHost(s) ==
  IF \E i \in DOMAIN s : s[i] \in {" ", "#", "/", ":", "?", "@", "\\", "|"} \cup Drive THEN {}
  ELSE {[text |-> s, kind |-> IF Len(s) = 1 /\ s[1] \in IPv6Word THEN "ipv6" ELSE "domain"]}

(* The host of a file URL: localhost is the empty host.                    *)
FileHost(s) ==
  IF s = <<>> THEN {EmptyHost}
  ELSE {IF h.text = <<"localhost">> THEN EmptyHost ELSE h : h \in SpecialHost(s)}

(* parse_host_setter: {[host, rest]}                                       *)
ParseHostForSetter(class, text) ==
  LET s    == Visible(text)
      stop == IF class = "file" THEN PathEnd(class) ELSE PathEnd(class) \cup {":"}
      name == Before(s, stop)
      rest == Rest(s, stop)
  IN CASE class = "file" /\ name \in {<<d>> : d \in Drive} -> {[host |-> EmptyHost, rest |-> s]}
       [] class = "file" -> {[host |-> h, rest |-> rest] : h \in FileHost(name)}
       [] class = "special" /\ name = <<>> -> {}
       [] class = "special" -> {[host |-> h, rest |-> rest] : h \in SpecialHost(name)}
       [] OTHER -> {[host |-> h, rest |-> rest] : h \in OpaqueHost(name)}
-----------------------------------------------------------------------------
(* Ports.                                                                  *)

Digits == {DigitToken[i] : i \in 1..10}

Value(d) == (CHOOSE i \in 1..10 : DigitToken[i] = d) - 1

(* The digits read so far stop growing once they are past u16::MAX.        *)
Number(s) == FoldLeft(LAMBDA n, d : IF n > 65535 THEN n ELSE n * 10 + Value(d), 0, s)

PortOrDefault(n, default) == IF n = default THEN NoPort ELSE n

LeadingDigits(s) == SelectInSeq(s, LAMBDA t : t \notin Digits)

(* parse_port_setter: digits up to the first other character.              *)
ParsePortForSetter(text, default) ==
  LET s == Visible(text)
      k == LeadingDigits(s)
      d == IF k = 0 THEN s ELSE Upto(s, k - 1)
  IN IF d = <<>> \/ Number(d) > 65535 THEN {}
     ELSE {PortOrDefault(Number(d), default)}

(* parse_port: {[port, rest]}, where only a path, query or fragment may    *)
(* follow the digits.                                                      *)
ParsePort(s, default) ==
  LET d == Before(s, {"/", "\\", "?", "#"})
  IN IF (\E i \in DOMAIN d : d[i] \notin Digits) \/ Number(d) > 65535 THEN {}
     ELSE {[port |-> IF d = <<>> THEN NoPort ELSE PortOrDefault(Number(d), default),
            rest |-> From(s, Len(d))]}
-----------------------------------------------------------------------------
(* Opaque paths.  Trailing spaces are dropped at the end of the input, and *)
(* the last one before "?" or "#" is percent-encoded.  The parser works in *)
(* stretches without tabs: up to the first visible character after the     *)
(* last tab it goes one by one, the remainder it takes at once.            *)

TrailingSpaces(s) ==
  Len(s) - Max({0} \cup {i \in 1..Len(s) : s[i] # " "})

StripTrailing(s) == Upto(s, Len(s) - TrailingSpaces(s))

Stretch(s, delimited) ==
  IF ~delimited THEN StripTrailing(s)
  ELSE IF EndsWith(s, " ") THEN Front(s) \o <<"%20">> ELSE s

LastTab(s) == Max({0} \cup {i \in 1..Len(s) : s[i] = TAB})

OpaqueText(s, k, delimited) ==   \* the last tab is the k-th character
  IF k \in {0, Len(s)} \/ (k + 1 = Len(s) /\ delimited) THEN Stretch(Visible(s), delimited)
  ELSE Visible(Upto(s, k + 1)) \o Stretch(From(s, k + 1), delimited)

OpaquePath(text) ==
  LET s == Before(text, {"?", "#"}) IN OpaqueText(s, LastTab(s), Len(s) < Len(text))
-----------------------------------------------------------------------------
(* The record.  `auth` is the text between "://" and the path.             *)

NoCredentials == [username |-> <<>>, password |-> <<>>]

(* parse_userinfo: {[cred, rest]}                                          *)
ParseUserinfo(class, s) ==
  LET auth == Before(s, PathEnd(class))
      at   == Max({0} \cup {i \in DOMAIN auth : auth[i] = "@"})
      info == Upto(auth, at - 1)
      rest == From(s, at)
  IN IF at = 0 THEN {[cred |-> NoCredentials, rest |-> s]}
     ELSE IF info = <<>>
     THEN IF rest = <<>> \/ rest[1] \in PathEnd(class) THEN {}
          ELSE {[cred |-> NoCredentials, rest |-> rest]}
     ELSE {[cred |-> [username |-> EncodeUserinfo(Before(info, {":"})),
                      password |-> EncodeUserinfo(After(info, {":"}))],
            rest |-> rest]}

UserinfoText(cred) ==
  IF cred = NoCredentials THEN <<>>
  ELSE cred.username \o (IF cred.password = <<>> THEN <<>> ELSE <<":">> \o cred.password) \o <<"@">>

CredentialFlags(cred) ==
  (IF cred = NoCredentials THEN {} ELSE {"HAS_CREDENTIALS"})
    \cup (IF cred.password = <<>> THEN {} ELSE {"HAS_PASSWORD"})

(* The flags of a host that is not empty.                                  *)
HostFlags(host) ==
  CASE host.kind = "ipv4" -> {"HOST_IPV4"} [] host.kind = "ipv6" -> {"HOST_IPV6"}
    [] OTHER -> IF \E i \in DOMAIN host.text : host.text[i] = "xn--" THEN {"HOST_IDNA"} ELSE {}

(* parse_query_and_fragment and the final length check of parse_with_base. *)
Finish(u, rest) ==
  LET query == IF StartsWith(rest, "?")
               THEN <<"?">> \o EncodeQuery(Before(Tail(rest), {"#"})) ELSE <<>>
      hash  == IF First(rest, {"#"}) <= Len(rest)
               THEN <<"#">> \o EncodeFragment(After(rest, {"#"})) ELSE <<>>
      v == [u EXCEPT !.ser = @ \o query \o hash,
                     !.query_start = IF query = <<>> THEN NONE ELSE Len(u.ser),
                     !.fragment_start = IF hash = <<>> THEN NONE ELSE Len(u.ser \o query)]
  IN IF Len(v.ser) >= U32Max THEN {} ELSE {v}

Record(scheme, cred, host, port, head, path, flags) ==
  LET start == Len(scheme) + 3
      hs    == start + Len(UserinfoText(cred))
  IN [ser |-> head \o path, scheme_end |-> Len(scheme),
      username_end |-> start + Len(cred.username), host_start |-> hs,
      host_end |-> hs + Len(host), port |-> port, path_start |-> Len(head),
      query_start |-> NONE, fragment_start |-> NONE, flags |-> flags]

(* after_double_slash: authority, path start.                              *)
AfterDoubleSlash(scheme, text) ==
  LET class == SchemeType(scheme)
      stop  == PathEnd(class) \cup {":"}
      s     == IF class = "other" THEN text
               ELSE From(text, First(text, {t \in {text[i] : i \in DOMAIN text} :
                                              t \notin {"/", "\\"}}) - 1)
      With(cred, host, port, rest) ==
        LET head == scheme \o <<":", "/", "/">> \o UserinfoText(cred) \o host.text
                      \o (IF port = NoPort THEN <<>> ELSE <<":">> \o PortText(port))
            path == ParsePathStart(class, Before(rest, {"?", "#"}))
        IN Finish(Record(scheme, cred, host.text, port, head, path,
                         (IF class = "other" THEN {} ELSE {"SPECIAL"})
                           \cup CredentialFlags(cred)
                           \cup (IF host.text = <<>> THEN {} ELSE HostFlags(host))),
                  Rest(rest, {"?", "#"}))
  IN UNION { UNION {
       LET name == Before(a.rest, stop)
           tail == Rest(a.rest, stop)
       IN IF name = <<>> /\ (class # "other" \/ StartsWith(tail, ":") \/ a.cred # NoCredentials)
          THEN {}
          ELSE UNION {With(a.cred, host, p.port, p.rest)
                        : p \in IF StartsWith(tail, ":")
                                THEN ParsePort(Tail(tail), DefaultPort(scheme))
                                ELSE {[port |-> NoPort, rest |-> tail]}}
         : host \in IF class = "other" THEN OpaqueHost(Before(a.rest, stop))
                    ELSE SpecialHost(Before(a.rest, stop)) }
       : a \in ParseUserinfo(class, s) }

(* parse_non_special without "//": no authority.  A path that begins with  *)
(* "//" is kept apart from the scheme by the marker "/.".                  *)
WithPath(scheme, path, opaque, rest) ==
  LET colon  == Len(scheme) + 1
      marker == IF ~opaque /\ TokenAt(path, 0, "/") /\ TokenAt(path, 1, "/")
                THEN <<"/", ".">> ELSE <<>>
  IN Finish([ser |-> scheme \o <<":">> \o marker \o path, scheme_end |-> Len(scheme),
             username_end |-> colon, host_start |-> colon, host_end |-> colon,
             port |-> NoPort, path_start |-> colon + Len(marker),
             query_start |-> NONE, fragment_start |-> NONE,
             flags |-> IF opaque THEN {"OPAQUE_PATH"} ELSE {}], rest)

NoAuthority(scheme, raw) ==
  LET s     == Visible(raw)
      slash == StartsWith(s, "/")
  IN WithPath(scheme, IF slash THEN ParsePathStart("other", Before(s, {"?", "#"}))
                      ELSE OpaquePath(raw),
              ~slash, Rest(s, {"?", "#"}))

(* parse_file without a base: a drive letter is no host.                   *)
ParseFile(scheme, s) ==
  LET stop      == PathEnd("file")
      slash(i)  == Len(s) >= i /\ s[i] \in {"/", "\\"}
      authority == slash(1) /\ slash(2)
      text      == IF authority THEN From(s, 2) ELSE s
      hosted    == authority /\ Before(text, stop) \notin {<<d>> : d \in Drive}
      path      == IF hosted THEN ParsePathStart("file", Before(Rest(text, stop), {"?", "#"}))
                   ELSE PathFrom("file", IF slash(1) /\ ~authority THEN <<>> ELSE <<"/">>,
                                 Before(text, {"?", "#"}))
  IN UNION {
       Finish(Record(scheme, NoCredentials, host, NoPort,
                     scheme \o <<":", "/", "/">> \o host, path,
                     {"SPECIAL"} \cup (IF host = <<>> THEN {"HAS_EMPTY_HOST"} ELSE {})),
              Rest(text, {"?", "#"}))
       : host \in IF hosted THEN {h.text : h \in FileHost(Before(text, stop))} ELSE {<<>>} }

(* trim_matches of the whole input                                         *)
Trim(s) ==
  LET kept == {i \in DOMAIN s : s[i] \notin {" ", TAB}}
  IN IF kept = {} THEN <<>> ELSE SubSeq(s, Min(kept), Max(kept))

(* A drive letter at the start of a text is a scheme and its colon.        *)
DriveIsScheme(s) == IF StartsWith(s, "C:") THEN <<"c", ":">> \o Tail(s) ELSE s

(* Url::parse: {} or {record}                                              *)
ParseUrl(text) ==
  LET s      == DriveIsScheme(Trim(text))
      scheme == Visible(Before(s, {":"}))
      rest   == After(s, {":"})
      r      == Visible(rest)
      special == SchemeType(scheme) = "special"
  IN IF Len(text) > U32Max \/ First(s, {":"}) > Len(s) \/ scheme = <<>>
        \/ \E i \in DOMAIN scheme : scheme[i] \notin SchemeToken
     THEN {}
     ELSE IF SchemeType(scheme) = "file" THEN ParseFile(scheme, r)
     ELSE IF special \/ (StartsWith(r, "/") /\ StartsWith(Tail(r), "/"))
     THEN AfterDoubleSlash(scheme, IF special THEN r ELSE From(r, 2))
     ELSE NoAuthority(scheme, rest)
=============================================================================

--------------------------- MODULE UrlComponents ---------------------------
(***************************************************************************)
(* What the setters promise: a URL is a record of separate components, a   *)
(* setter replaces its own component and leaves the others alone, and a    *)
(* refused setter changes nothing.  There is no href here and no offset.   *)
(*                                                                         *)
(* An optional component is {} or a set of one text.                       *)
(***************************************************************************)
EXTENDS UrlInputs

CONSTANT Hrefs      \* the components of the texts of HrefIn that parse

VARIABLE parts

Special  == IsSpecial(parts.scheme)
Type     == SchemeType(parts.scheme)
NoHost   == parts.host \in {{}, {<<>>}}
Bare     == parts.username = <<>> /\ parts.password = <<>> /\ parts.port = NoPort

(* Only a URL with a host that is not empty, and no file URL, has          *)
(* credentials and a port.                                                 *)
TakesCredentials == ~NoHost /\ parts.scheme # <<"file">>

StripSpaces(s) ==
  Upto(s, CHOOSE k \in 0..Len(s) : /\ \A i \in k + 1..Len(s) : s[i] = " "
                                   /\ k = 0 \/ s[k] # " ")

(* An opaque path ends with a space only where a query or fragment follows. *)
Trimmed(p) == IF p.opaque /\ p.query = {} /\ p.fragment = {}
              THEN [p EXCEPT !.path = StripSpaces(@)] ELSE p
-----------------------------------------------------------------------------
Init == parts \in Hrefs

Replace == parts' \in Hrefs

SetScheme ==
  \E text \in SchemeIn \cup {BeforeColon(s) : s \in SchemeIn} : \E r \in ParseSchemeSetter(text) :
    /\ r.rest = <<>>
    /\ r.scheme # parts.scheme
    /\ IsSpecial(r.scheme) = Special
    /\ r.scheme = <<"file">> => Bare
    /\ Special => ~NoHost
    /\ parts' = [parts EXCEPT !.scheme = r.scheme,
                              !.port = IF @ = DefaultPort(r.scheme) THEN NoPort ELSE @]

SetUsername ==
  /\ TakesCredentials
  /\ \E s \in UserinfoIn : parts' = [parts EXCEPT !.username = EncodeUserinfo(s)]

SetPassword ==
  /\ TakesCredentials
  /\ \E s \in UserinfoIn : parts' = [parts EXCEPT !.password = EncodeUserinfo(s)]

SetPort ==
  /\ TakesCredentials
  /\ \E p \in Port \cup {NoPort} \cup UNION {ParsePortSetter(s, DefaultPort(parts.scheme)) : s \in PortIn} :
       parts' = [parts EXCEPT !.port = IF p = DefaultPort(parts.scheme) THEN NoPort ELSE p]

(* The hosts a text stands for; a file URL takes an empty text as well.    *)
HostOf(text) ==
  ParseHostSetter(Type, text) \cup
    (IF Type = "file" /\ text = <<>> THEN {[host |-> [text |-> <<>>], rest |-> <<>>]} ELSE {})

(* A host may bring a port with it.  The host of a special URL is never    *)
(* empty, and credentials and a port need one that is not.                 *)
SetHost ==
  /\ ~parts.opaque
  /\ \E text \in HostIn : \E r \in HostOf(text) :
       /\ \E port \in {parts.port} \cup
                      (IF StartsWith(r.rest, ":")
                       THEN ParsePortSetter(Tail(r.rest), DefaultPort(parts.scheme)) ELSE {}) :
            parts' = [parts EXCEPT !.host = {r.host.text}, !.port = port]
       /\ r.host.text = <<>> => Bare /\ parts'.port = NoPort /\ Type # "special"

SetIpHost ==
  /\ ~parts.opaque
  /\ \E h \in IpHost : parts' = [parts EXCEPT !.host = {h.text}]

PathText(text) ==
  IF ~parts.opaque THEN ParsePath(Type, text)
  ELSE IF StartsWith(text, "/") THEN <<"%2F">> \o ParseOpaquePath(Tail(text))
  ELSE ParseOpaquePath(text)

SetPath ==
  \E text \in PathIn \cup {<<"/">> \o s : s \in PathIn} :
    parts' = [parts EXCEPT !.path = PathText(text)]

SetQuery ==
  \E q \in Option({EncodeQuery(Visible(s)) : s \in QueryIn \cup {Tail(x) : x \in QueryIn \ {<<>>}}}) :
    parts' = IF q = {} THEN Trimmed([parts EXCEPT !.query = q])
             ELSE [parts EXCEPT !.query = q]

SetFragment ==
  \E f \in Option({EncodeFragment(Visible(s)) : s \in FragmentIn \cup {Tail(x) : x \in FragmentIn \ {<<>>}}}) :
    parts' = IF f = {} THEN Trimmed([parts EXCEPT !.fragment = f])
             ELSE [parts EXCEPT !.fragment = f]

Next == \/ Replace \/ SetScheme \/ SetUsername \/ SetPassword \/ SetPort
        \/ SetHost \/ SetIpHost \/ SetPath \/ SetQuery \/ SetFragment

Spec == Init /\ [][Next]_parts
=============================================================================

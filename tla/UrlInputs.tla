------------------------------ MODULE UrlInputs ------------------------------
(***************************************************************************)
(* What the setters are called with, and the parsers they call.  The       *)
(* parsers are parameters: a run gives them the operators of UrlParser,    *)
(* and a theorem about the setters holds for every parser that keeps the   *)
(* assumptions of UrlLayout.                                               *)
(***************************************************************************)
EXTENDS UrlText, FiniteSets

CONSTANTS
  HrefIn,       \* texts given to Url::parse and set_href
  SchemeIn,     \* texts given to set_scheme
  UserinfoIn,   \* texts given to set_username and set_password
  HostIn,       \* texts given to set_host and set_hostname
  IpHost,       \* hosts given to set_ip_host
  PortIn,       \* texts given to set_port_str
  Port,         \* Option<u16> given to set_port, NoPort for None
  PathIn,       \* texts given to set_path and set_pathname
  QueryIn,      \* texts given to set_query and set_search
  FragmentIn,   \* texts given to set_fragment and set_hash
  Parse(_),               \* Url::parse: {} or {record}
  ParseHostSetter(_, _),  \* parse_host_setter: {} or {[host, rest]}
  ParsePortSetter(_, _),  \* parse_port_setter: {} or {port}
  ParsePath(_, _),        \* parse_path_start in a setter
  ParseOpaquePath(_)      \* parse_opaque_path

(* Option<&str>: {} is None, {s} is Some(s).                               *)
Option(S) == {{}} \cup {{s} : s \in S}

(* parse_scheme_setter: {} or {[scheme, rest]}; unlike in the URL parser a *)
(* scheme may end with the text.                                           *)
ParseSchemeSetter(text) ==
  LET s   == Visible(text)
      end == Cardinality({i \in DOMAIN s : \A j \in 1..i : s[j] \in SchemeToken})
  IN IF end = 0 \/ (end < Len(s) /\ s[end + 1] # ":") THEN {}
     ELSE {[scheme |-> Upto(s, end), rest |-> From(s, end + 1)]}

(* set_protocol keeps what precedes the first ":".                         *)
BeforeColon(text) ==
  LET colons == {i \in DOMAIN text : text[i] = ":"}
  IN IF colons = {} THEN text
     ELSE Upto(text, (CHOOSE i \in colons : \A j \in colons : i <= j) - 1)
=============================================================================

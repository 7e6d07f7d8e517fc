---------------------------- MODULE MCUrlRecord ----------------------------
(***************************************************************************)
(* The setters on small sets of texts, with the parsers of UrlParser.      *)
(*                                                                         *)
(* One run has two families of behaviours, chosen by `part` in the initial *)
(* state: "authority" has many inputs for the parts before the path and    *)
(* few for the rest, "path" the reverse.  The constants of the run are the *)
(* inputs of both, so the assumptions of UrlLayout are evaluated on all.   *)
(***************************************************************************)
EXTENDS UrlLayout

VARIABLE part

AnyString == STRING

P == INSTANCE UrlParser

MCParse(s) == P!ParseUrl(s)
MCParseHostSetter(c, s) == P!ParseHostForSetter(c, s)
MCParsePortSetter(s, d) == P!ParsePortForSetter(s, d)
MCParsePath(c, s) == P!ParsePathStart(c, s)
MCParseOpaquePath(s) == P!OpaquePath(s)

IPv4 == [text |-> <<"1.2.3.4">>, kind |-> "ipv4"]
IPv6 == [text |-> <<"[::1]">>, kind |-> "ipv6"]
-----------------------------------------------------------------------------
(* Inputs about the authority: every way to fill, empty and refuse it.     *)

AuthorityHref == {
  <<"http", ":", "/", "/", "h", "/", "p">>,
  <<"http", "s", ":", "/", "/", "u", ":", "w", "@", "1.2.3.4", ":", "8", "0", "/", "?", "q">>,
  <<"file", ":", "/", "/", "/", "C|", "/", "p", "#", "f">>,
  <<"foo", ":", "/", "/", "@", "h">>,
  <<"foo", ":", "/", "p">>,
  <<"foo", ":", "/", ".", "/", "/", "p">>,
  <<"http", ":", "/", "/", "@", "/", "p">>}
AuthorityScheme   == {<<"http">>, <<"http", "s", ":">>, <<"file">>, <<"foo">>, <<"ftp", "/">>}
AuthorityUserinfo == {<<>>, <<"u">>, <<"@", ":">>}
AuthorityHost     == {<<>>, <<"h">>, <<"H", ":", "8", "0">>, <<"localhost", ":", "p">>,
                      <<"1.2.3.4", "/">>, <<":">>, <<"C:">>, <<"h", " ">>}
AuthorityPort     == {<<>>, <<"0", "8", "0", "p">>, <<"4", "4", "3">>, <<"6", "5", "5", "3", "6">>}
AuthorityPath     == {<<"/", "/", "p">>, <<>>}
AuthorityIp         == {IPv6}
AuthorityPortNumber == {NoPort, 80}
AuthorityQuery      == {<<>>}
AuthorityFragment   == {<<>>}
-----------------------------------------------------------------------------
(* Inputs about what follows the authority.                                *)

PathHref == {
  <<"http", ":", "/", "/", "h">>,
  <<"file", ":", "/", "p", "?", "#">>,
  <<"foo", ":", "/", "/", "?", "q", "#", "f">>,
  <<"foo", ":", "/", "p">>,
  <<"foo", ":", "p", " ", "?", "q">>,
  <<"foo", ":", "p", " ", " ", "#">>}
PathPath == {<<>>, <<"/">>, <<"/", "/", "p">>, <<"p", "/", ".", ".">>, <<"\\", "p", "?">>,
             <<"/", ".", "/", "/", "p">>, <<"C|", "/", "#">>, <<"p", " ">>, <<TAB, "/", "/", "p">>,
             <<"p", TAB, " ">>}
PathQuery == {<<>>, <<"?">>, <<"q", "#">>, <<"?", " ", TAB>>}
PathScheme     == {<<"file">>, <<"http">>}
PathUserinfo   == {<<>>}
PathHost       == {<<>>, <<"h">>, <<"localhost">>}
PathIp         == {IPv4}
PathPort       == {<<>>}
PathPortNumber == {NoPort}
PathFragment == {<<>>, <<"#">>, <<"f", " ">>}
-----------------------------------------------------------------------------
(* The two families in one run.                                            *)

AllHref     == AuthorityHref \cup PathHref
AllScheme   == AuthorityScheme \cup PathScheme
AllUserinfo == AuthorityUserinfo \cup PathUserinfo
AllHost     == AuthorityHost \cup PathHost
AllIp       == AuthorityIp \cup PathIp
AllPort     == AuthorityPort \cup PathPort
AllPortNumber == AuthorityPortNumber \cup PathPortNumber
AllPath     == AuthorityPath \cup PathPath
AllQuery    == AuthorityQuery \cup PathQuery
AllFragment == AuthorityFragment \cup PathFragment

OnAuthority == INSTANCE UrlRecord WITH
  HrefIn <- AuthorityHref, SchemeIn <- AuthorityScheme, UserinfoIn <- AuthorityUserinfo,
  HostIn <- AuthorityHost, IpHost <- AuthorityIp, PortIn <- AuthorityPort,
  Port <- AuthorityPortNumber, PathIn <- AuthorityPath, QueryIn <- AuthorityQuery,
  FragmentIn <- AuthorityFragment

OnPath == INSTANCE UrlRecord WITH
  HrefIn <- PathHref, SchemeIn <- PathScheme, UserinfoIn <- PathUserinfo,
  HostIn <- PathHost, IpHost <- PathIp, PortIn <- PathPort,
  Port <- PathPortNumber, PathIn <- PathPath, QueryIn <- PathQuery,
  FragmentIn <- PathFragment

PartInit == \/ part = "authority" /\ OnAuthority!Init
            \/ part = "path" /\ OnPath!Init

PartNext == /\ \/ part = "authority" /\ OnAuthority!Next
               \/ part = "path" /\ OnPath!Next
            /\ UNCHANGED part

PartSpec == PartInit /\ [][PartNext]_<<vars, part>>

(* One family alone, the inputs given by the constants of the run.         *)
OneSpec == Init /\ part = "one" /\ [][Next /\ UNCHANGED part]_<<vars, part>>
-----------------------------------------------------------------------------
(* Inputs about addresses: the same host under two special schemes.        *)

DomainHref == {<<scheme, ":", "/", "/", host>> : scheme \in {"http", "file"},
                                                 host \in {"h", "0x1020304", "[::1]"}}
-----------------------------------------------------------------------------
(* Inputs for the limit: an href of eleven tokens where twelve are allowed. *)

OverflowHref == {<<"http", ":", "/", "/", "h", "/", "p", "/", "p", "/", "p">>}
OverflowScheme     == {<<"http", "s">>}
OverflowUserinfo   == {<<"u">>}
OverflowHost       == {<<"h">>}
OverflowIp         == {IPv6}
OverflowPort       == {<<"9">>}
OverflowPortNumber == {9}
OverflowPath       == {<<"p">>}
OverflowQuery      == {<<"q">>}
OverflowFragment   == {<<"f">>}
=============================================================================

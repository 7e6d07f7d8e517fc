------------------------------ MODULE MCHandle ------------------------------
(***************************************************************************)
(* One handle and two threads; the URLs, and what the setters are given,   *)
(* differ in their origins.                                                *)
(***************************************************************************)
EXTENDS Handle

AnyString == STRING

P == INSTANCE UrlParser

MCParseHostSetter(c, s) == P!ParseHostForSetter(c, s)
MCParsePortSetter(s, d) == P!ParsePortForSetter(s, d)
MCParsePath(c, s) == P!ParsePathStart(c, s)
MCParseOpaquePath(s) == P!OpaquePath(s)

HandleHref == {
  <<"http", ":", "/", "/", "u", "@", "h", ":", "9", "/", "p">>,
  <<"file", ":", "/", "/", "/", "p">>,
  <<"blob", ":", "http", "s", ":", "/", "/", "H", ":", "4", "4", "3", "/", "p">>,
  <<"blob", ":", "ftp", ":", "/", "/", "h">>,
  <<"p">>}
HandleScheme   == {<<"http", "s", ":">>, <<"foo">>}
HandleUserinfo == {<<>>}
HandleHost     == {<<"h">>, <<"localhost", ":", "8", "0">>}
HandlePort     == {<<"4", "4", "3">>}
HandlePath     == {<<"p">>}
HandleQuery    == {<<>>}
HandleFragment == {<<"f">>}
NoIp           == {}
NoPortNumber   == {NoPort}

(* The URLs above and the paths of the blob URLs, each parsed once.        *)
ParsedOnce == [s \in HandleHref \cup {From(x, 2) : x \in HandleHref} |-> P!ParseUrl(s)]

MCParse(s) == IF s \in DOMAIN ParsedOnce THEN ParsedOnce[s] ELSE P!ParseUrl(s)
=============================================================================

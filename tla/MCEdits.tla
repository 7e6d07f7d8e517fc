------------------------------- MODULE MCEdits -------------------------------
(***************************************************************************)
(* What edits a URL record beside the setters, each part a family of       *)
(* behaviours of its own, chosen by `part` in the initial state:           *)
(*   "segments"  the path segment guard between setters, on paths with and *)
(*               without authority, marker and tail, and segments that     *)
(*               must be encoded, skipped or rewritten;                    *)
(*   "pairs"     the query pair guard between setters, on queries with     *)
(*               every delimiter of the form syntax raw, encoded and       *)
(*               missing;                                                  *)
(*   "join"      joins onto bases of every class, with the setters that    *)
(*               give a base a shape the parser does not;                  *)
(*   "relative"  parsed URLs that nothing changes, each the base of        *)
(*               make_relative for all others of its family.               *)
(***************************************************************************)
EXTENDS PathSegments

CONSTANTS MaxPairs, MaxBase   \* see QueryPairs, UrlJoin

VARIABLES part, params

evars == <<part, url, outcome, guard, params>>

AnyString == STRING

P == INSTANCE UrlParser

MCParse(s) == P!ParseUrl(s)
MCParseHostSetter(c, s) == P!ParseHostForSetter(c, s)
MCParsePortSetter(s, d) == P!ParsePortForSetter(s, d)
MCParsePath(c, s) == P!ParsePathStart(c, s)
MCParseOpaquePath(s) == P!OpaquePath(s)
-----------------------------------------------------------------------------
(* The inputs of the path segment guard are the constants of the run; the  *)
(* other two parts replace those that they say here.                       *)

SegmentHref == {
  <<"http", ":", "/", "/", "h", "/", "p", "/", "?", "q", "#", "f">>,
  <<"file", ":", "/", "/", "/", "C:", "/", "#">>,
  <<"foo", ":", "/", "/", "h", "?">>,
  <<"foo", ":", "/", ".", "/", "/", "p">>,
  <<"foo", ":", "p", "#", "f">>}
SegmentHost == {<<"h">>}
SegmentPath == {<<>>, <<"/", "/">>}
NoText      == {<<>>}
NoPortOnly  == {NoPort}
SegmentTexts == {<<>>, <<".">>, <<".", ".">>, <<"p">>, <<"C|">>, <<"%2e">>, <<"/", "?">>,
                 <<"\\", "#">>}

Qry == INSTANCE QueryPairs WITH
  HrefIn <- {
    <<"http", ":", "/", "/", "h", "/", "?", "a", "&", "&", "b", "=", "=", "+", "&", "a", "=", "%2B", "#", "f">>,
    <<"foo", ":", "p", " ", " ", "?", "=", "&", "%FF", "=", "%">>,
    <<"foo", ":", "/", "p", "#", "f">>},
  SchemeIn <- {}, HostIn <- {}, PathIn <- {}, FragmentIn <- {},
  PairName <- {<<>>, <<"a">>}, PairValue <- {<<>>, <<"=", "&", "+", " ">>}

JoinHref == {
  <<"http", ":", "/", "/", "h", ":", "9", "/", "p", "/", "q">>,
  <<"file", ":", "/", "/", "/", "C:", "/", "p", "?", "q">>,
  <<"file", ":", "/", "/", "h", "/", "C:">>,
  <<"foo", ":", "/", "/", "u", "@", "h">>,
  <<"foo", ":", "/", ".", "/", "/", "p", "#", "f">>,
  <<"foo", ":", "p">>}

Joined == INSTANCE UrlJoin WITH
  HrefIn <- JoinHref,
  SchemeIn <- {<<"http", "s">>, <<"file">>}, HostIn <- {<<>>, <<"h">>},
  PathIn <- {<<>>, <<"/", "/", "p">>}, FragmentIn <- {<<>>, <<"f", " ">>, <<"q", "#">>},
  RefIn <- {
    <<>>, <<"#", "f">>, <<"?", "q", "#">>,
    <<"q", "?", "q">>, <<".", ".">>, <<".", ".", "/", ".", ".", "/", "q">>, <<".">>, <<"p", "/">>,
    <<"/">>, <<"/", "/", "h", "/", "p">>, <<"/", TAB, "/", "/", "q">>, <<"\\", "p">>,
    <<"/", "p", "/", ".", ".">>, <<"C|", "/", "q">>, <<"/", "C|">>, <<"C|", "p">>,
    <<"http", ":", "q">>, <<"http", "s", ":", "/", "/", "h">>, <<"file", ":", "q">>,
    <<"file", ":", "/", "p">>, <<"foo", ":", "q">>}

(* The pairs of make_relative: in each family all paths of up to three     *)
(* names that mean something there.                                        *)
Family(sites, names) ==
  LET one == {<<"/">> \o name : name \in names}
      two == one \cup {m \o n : m, n \in one} \cup {<<>>}
  IN UNION {P!ParseUrl(site \o tail) : site \in sites,
                                        tail \in {m \o n : m \in two, n \in one}
                                                 \cup {m \o q : m \in two, q \in {<<>>, <<"?", "q">>}}}

Families == {
  Family({<<"http", ":", "/", "/", "h">>}, {<<>>, <<"p">>, <<"q">>, <<"foo", ":">>}),
  Family({<<"file", ":", "/", "/">>}, {<<>>, <<"p">>, <<"q">>, <<"C:">>, <<"C|">>}),
  Family({<<"foo", ":", "/", "/", "h">>}, {<<>>, <<"p">>, <<"C:", "p">>}),
  Family({<<"foo", ":", "/", ".">>, <<"foo", ":", "/", "/">>}, {<<>>, <<"p">>, <<"q">>})}

JoinTargets == UNION {P!ParseUrl(s) : s \in JoinHref}
-----------------------------------------------------------------------------
EInit == \/ part = "segments" /\ GuardInit /\ params = {}
         \/ part = "pairs" /\ Qry!QInit /\ guard = {}
         \/ part = "join" /\ Joined!Init /\ guard = {} /\ params = {}
         \/ /\ part = "relative" /\ guard = {} /\ params = {} /\ outcome = "ok"
            /\ \E family \in Families : url \in family

ENext == /\ \/ part = "segments" /\ GuardNext /\ UNCHANGED params
            \/ part = "pairs" /\ Qry!QNext /\ UNCHANGED guard
            \/ part = "join" /\ Joined!JoinNext /\ UNCHANGED <<guard, params>>
         /\ UNCHANGED part

ESpec == EInit /\ [][ENext]_evars
-----------------------------------------------------------------------------
(* DropIsLaidOut, EditsPathOnly and ImplementsSegmentList are those of     *)
(* PathSegments.  The others are stated in words in the module they are    *)
(* about.  An open guard exists in its own part only.                      *)

(* QueryPairsMut edits lists of values.                                    *)
ImplementsValueLists == Qry!ImplementsValueLists

(* QueryPairsMut keeps the pairs that are not edited where they are, and   *)
(* writes its list once, to the query and nowhere else.                    *)
EditsInPlace == Qry!EditsInPlace /\ Qry!WritesQueryOnly

(* PathSegmentsMut and join: what the guard leaves parses to itself, and   *)
(* every URL that join returns is one that the parser returns.             *)
ResultIsParsed == DropParses /\ (part = "join" => Joined!JoinedIsParsed)

(* join: references that are a query or fragment act like the setters.     *)
JoinAgreesWithSetters == part = "join" => Joined!JoinAgreesWithSetters

(* join: a relative path is resolved in the directory of the base.         *)
ResolvesAsWritten == part = "join" => Joined!ResolvesAsWritten

(* make_relative: join undoes it where UrlJoin says so, and nowhere else:  *)
(* for every pair of a family, and for the bases that "join" reaches.      *)
MakeRelativeUndone ==
  /\ part = "join" => Joined!MakeRelativeUndone(JoinTargets)
  /\ part = "relative" => \A family \in Families :
       url \in family => Joined!MakeRelativeUndone(family)
=============================================================================

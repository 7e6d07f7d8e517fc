-------------------------- MODULE UrlLayoutProofs --------------------------
(***************************************************************************)
(* The layout of the record is an invariant of the specification, and with *)
(* it what the components of a record have to do with each other; and the  *)
(* record with its offsets implements the record of separate components.   *)
(* All this holds for every set of inputs and every parser that keeps the  *)
(* assumptions of UrlLayout, as long as no href comes near the limit of    *)
(* u32.  The limit is needed: a setter that meets it leaves a cut href     *)
(* behind.                                                                 *)
(***************************************************************************)
EXTENDS UrlSetterProofs

(* The layout is inductive together with the types of the record.          *)
IInv == TypeOK /\ Layout

LEMMA InitIInv == Init => IInv
<1> SUFFICES ASSUME NEW text \in HrefIn, url \in Parse(text), outcome = "ok"
             PROVE  IInv
  BY DEF Init
<1>1. url \in Records /\ LaidOut(url)
  BY ParserAssumption
<1> QED
  BY <1>1 DEF IInv, TypeOK, Layout

(* A call that returns a sound result keeps the invariant.                 *)
LEMMA SoundCall ==
  ASSUME NEW r, Sound(r), Call(r), Fits(url)'
  PROVE  IInv'
<1>1. url' = r.url /\ outcome' = r.outcome
  BY DEF Call
<1>2. Fits(r.url)
  BY <1>1
<1>3. /\ r.outcome \in {"ok", "err", "panic"} /\ r.url \in Records
      /\ r.outcome # "panic" => LaidOut(r.url)
  BY <1>2 DEF Sound
<1> QED
  BY <1>1, <1>3 DEF IInv, TypeOK, Layout

-----------------------------------------------------------------------------
(* What the calls do to the components, one disjunct per setter.           *)

HrefEdit(u, v) == \E s \in HrefIn : v \in Parse(s)

SchemeEdit(u, v) ==
  \E text \in SchemeIn \cup {BeforeColon(x) : x \in SchemeIn} :
    \E s \in ParseSchemeSetter(text) : SchemeChanged(u, v, s)

UsernameEdit(u, v) ==
  /\ ~CannotHaveUsernamePasswordPort(u)
  /\ \E s \in UserinfoIn : Gives(u, v, PutUsername(Components(u), EncodeUserinfo(s)))

PasswordEdit(u, v) ==
  /\ ~CannotHaveUsernamePasswordPort(u)
  /\ \E s \in UserinfoIn : Gives(u, v, PutPassword(Components(u), EncodeUserinfo(s)))

PortEdit(u, v) ==
  /\ ~CannotHaveUsernamePasswordPort(u)
  /\ \E p \in Port \cup {NoPort} \cup UNION {ParsePortSetter(s, DefaultPort(Scheme(u))) : s \in PortIn} :
       Gives(u, v, PutPort(Components(u), IF p = DefaultPort(Scheme(u)) THEN NoPort ELSE p))

IpHostEdit(u, v) ==
  /\ ~CannotBeABase(u)
  /\ \E h \in IpHost : Gives(u, v, PutHost(Components(u), {h.text}, u.port))

HostEdit(u, v) ==
  /\ ~CannotBeABase(u)
  /\ \E text \in HostIn : \E x \in HostsOf(u, text) : HostChanged(u, v, x)

PathEdit(u, v) ==
  \E x \in WithSlash(PathIn) :
    /\ x \in PathIn \/ ~CannotBeABase(u)
    /\ Gives(u, v, PutPath(Components(u), PathFor(u, x)))

QueryEdit(u, v)    == \E q \in QueryValues : QueryChanged(u, v, q)
FragmentEdit(u, v) == \E f \in FragmentValues : FragmentChanged(u, v, f)

ComponentEdit(u, v) ==
  \/ HrefEdit(u, v) \/ SchemeEdit(u, v) \/ UsernameEdit(u, v) \/ PasswordEdit(u, v)
  \/ PortEdit(u, v) \/ IpHostEdit(u, v) \/ HostEdit(u, v)
  \/ PathEdit(u, v) \/ QueryEdit(u, v) \/ FragmentEdit(u, v)

(* What a call returns: a sound result, whose record is the old one or one *)
(* with one component changed.                                             *)
Answers(u, r) == Sound(r) /\ (Fits(r.url) /\ PortBelongs(u) => r.url = u \/ ComponentEdit(u, r.url))

LEMMA NextAnswers ==
  ASSUME Next, outcome # "panic", url \in Records, LaidOut(url)
  PROVE  \E r : Call(r) /\ Answers(url, r)
<1>1. CASE CallHref
  <2>1. PICK s \in HrefIn : Call(SetHref(url, s))
    BY <1>1 DEF CallHref
  <2> DEFINE r == SetHref(url, s)
  <2>2. Sound(r) /\ (r.url = url \/ r.url \in Parse(s))
    BY SetHrefSound
  <2> HIDE DEF r
  <2> QED
    BY <2>1, <2>2 DEF r, Answers, ComponentEdit, HrefEdit
<1>2. CASE CallScheme \/ CallProtocol
  <2>1. PICK s \in SchemeIn \cup {BeforeColon(x) : x \in SchemeIn} : Call(SetScheme(url, s))
    BY <1>2 DEF CallScheme, CallProtocol, SetProtocol
  <2> DEFINE r == SetScheme(url, s)
  <2>2. Visible(s) \in Text
    BY VisibleAssumption
  <2>3. /\ Sound(r)
        /\ Fits(r.url) /\ PortBelongs(url) =>
             r.url = url \/ \E x \in ParseSchemeSetter(s) : SchemeChanged(url, r.url, x)
    BY <2>2, SetSchemeSound
  <2> HIDE DEF r
  <2> QED
    BY <2>1, <2>3 DEF r, Answers, ComponentEdit, SchemeEdit
<1>3. CASE CallUsername
  <2>1. PICK s \in UserinfoIn : Call(SetUsername(url, s))
    BY <1>3 DEF CallUsername
  <2> DEFINE r == SetUsername(url, s)
  <2>2. s \in Text
    BY InputAssumption
  <2>3. /\ Sound(r)
        /\ Fits(r.url) =>
             \/ r.url = url
             \/ /\ ~CannotHaveUsernamePasswordPort(url)
                /\ Gives(url, r.url, PutUsername(Components(url), EncodeUserinfo(s)))
    BY <2>2, SetUsernameSound
  <2> HIDE DEF r
  <2> QED
    BY <2>1, <2>3 DEF r, Answers, ComponentEdit, UsernameEdit
<1>4. CASE CallPassword
  <2>1. PICK s \in UserinfoIn : Call(SetPassword(url, s))
    BY <1>4 DEF CallPassword
  <2> DEFINE r == SetPassword(url, s)
  <2>2. s \in Text
    BY InputAssumption
  <2>3. /\ Sound(r)
        /\ Fits(r.url) =>
             \/ r.url = url
             \/ /\ ~CannotHaveUsernamePasswordPort(url)
                /\ Gives(url, r.url, PutPassword(Components(url), EncodeUserinfo(s)))
    BY <2>2, SetPasswordSound
  <2> HIDE DEF r
  <2> QED
    BY <2>1, <2>3 DEF r, Answers, ComponentEdit, PasswordEdit
<1>5. CASE CallIpHost
  <2>1. PICK h \in IpHost : Call(SetIpHost(url, h))
    BY <1>5 DEF CallIpHost
  <2> DEFINE r == SetIpHost(url, h)
  <2>2. /\ Sound(r)
        /\ Fits(r.url) =>
             \/ r.url = url
             \/ /\ ~CannotBeABase(url)
                /\ Gives(url, r.url, PutHost(Components(url), {h.text}, url.port))
    BY SetIpHostSound
  <2> HIDE DEF r
  <2> QED
    BY <2>1, <2>2 DEF r, Answers, ComponentEdit, IpHostEdit
<1>6. CASE CallHost \/ CallHostname
  <2>1. PICK s \in HostIn : Call(SetHost(url, s)) \/ Call(SetHostname(url, s))
    BY <1>6 DEF CallHost, CallHostname
  <2>2. PICK r \in {SetHost(url, s), SetHostname(url, s)} : Call(r)
    BY <2>1
  <2>3. /\ Sound(r)
        /\ Fits(r.url) /\ PortBelongs(url) =>
             \/ r.url = url
             \/ ~CannotBeABase(url) /\ \E x \in HostsOf(url, s) : HostChanged(url, r.url, x)
    BY SetHostSound, SetHostnameSound
  <2> QED
    BY <2>2, <2>3 DEF Answers, ComponentEdit, HostEdit
<1>7. CASE CallPortStr
  <2>1. PICK s \in PortIn : Call(SetPortStr(url, s))
    BY <1>7 DEF CallPortStr
  <2> DEFINE r == SetPortStr(url, s)
             d == DefaultPort(Scheme(url))
  <2>2. /\ Sound(r)
        /\ Fits(r.url) =>
             \/ r.url = url
             \/ /\ ~CannotHaveUsernamePasswordPort(url)
                /\ \E p \in {NoPort} \cup ParsePortSetter(s, d) :
                     (p = d => p = NoPort) /\ Gives(url, r.url, PutPort(Components(url), p))
    BY SetPortStrSound
  <2> HIDE DEF r
  <2>3. \/ r.url = url
        \/ ~Fits(r.url)
        \/ PortEdit(url, r.url)
    BY <2>2 DEF PortEdit
  <2> QED
    BY <2>1, <2>2, <2>3 DEF r, Answers, ComponentEdit
<1>8. CASE CallPort
  <2>1. PICK p \in Port : Call(SetPort(url, p))
    BY <1>8 DEF CallPort
  <2> DEFINE r == SetPort(url, p)
             d == DefaultPort(Scheme(url))
  <2>2. p \in 0..NoPort
    BY InputAssumption
  <2>3. /\ Sound(r)
        /\ Fits(r.url) =>
             \/ r.url = url
             \/ /\ ~CannotHaveUsernamePasswordPort(url)
                /\ Gives(url, r.url, PutPort(Components(url), IF p = d THEN NoPort ELSE p))
    BY <2>2, SetPortSound
  <2> HIDE DEF r
  <2> QED
    BY <2>1, <2>3 DEF r, Answers, ComponentEdit, PortEdit
<1>9. CASE CallPath
  <2>1. PICK s \in PathIn : Call(SetPath(url, s))
    BY <1>9 DEF CallPath
  <2> DEFINE r == SetPath(url, s)
  <2>2. /\ Sound(r)
        /\ Fits(r.url) => r.url = url \/ Gives(url, r.url, PutPath(Components(url), PathFor(url, s)))
    BY SetPathSound
  <2>3. s \in WithSlash(PathIn)
    BY DEF WithSlash
  <2> HIDE DEF r
  <2> QED
    BY <2>1, <2>2, <2>3 DEF r, Answers, ComponentEdit, PathEdit
<1>10. CASE CallPathname
  <2>1. PICK s \in PathIn : Call(SetPathname(url, s))
    BY <1>10 DEF CallPathname
  <2> DEFINE r == SetPathname(url, s)
  <2>2. /\ Sound(r)
        /\ Fits(r.url) =>
             \/ r.url = url
             \/ /\ ~CannotBeABase(url)
                /\ \E x \in {s, <<"/">> \o s} :
                     Gives(url, r.url, PutPath(Components(url), PathFor(url, x)))
    BY SetPathnameSound
  <2>3. {s, <<"/">> \o s} \subseteq WithSlash(PathIn)
    BY DEF WithSlash
  <2> HIDE DEF r
  <2> QED
    BY <2>1, <2>2, <2>3 DEF r, Answers, ComponentEdit, PathEdit
<1>11. CASE CallSearch
  <2>1. PICK s \in QueryIn : Call(SetSearch(url, s))
    BY <1>11 DEF CallSearch
  <2> DEFINE r == SetSearch(url, s)
  <2>2. /\ Sound(r)
        /\ Fits(r.url) => r.url = url \/ \E q \in QueryValues : QueryChanged(url, r.url, q)
    BY SetSearchSound
  <2> HIDE DEF r
  <2> QED
    BY <2>1, <2>2 DEF r, Answers, ComponentEdit, QueryEdit
<1>12. CASE CallQuery
  <2>1. PICK q \in Option(QueryIn) : Call(SetQuery(url, q))
    BY <1>12 DEF CallQuery
  <2> DEFINE r == SetQuery(url, q)
  <2>2. q = {} \/ \E t \in WithTails(QueryIn) : q = {t} /\ Visible(t) \in Text
    BY VisibleAssumption DEF Option, WithTails
  <2>3. Sound(r) /\ (Fits(r.url) => r.url = url \/ QueryChanged(url, r.url, NewQuery(q)))
    BY <2>2, SetQuerySound
  <2>4. NewQuery(q) \in QueryValues
    BY <2>2, NewQueryIn
  <2> HIDE DEF r
  <2> QED
    BY <2>1, <2>3, <2>4 DEF r, Answers, ComponentEdit, QueryEdit
<1>13. CASE CallHash
  <2>1. PICK s \in FragmentIn : Call(SetHash(url, s))
    BY <1>13 DEF CallHash
  <2> DEFINE r == SetHash(url, s)
  <2>2. /\ Sound(r)
        /\ Fits(r.url) => r.url = url \/ \E f \in FragmentValues : FragmentChanged(url, r.url, f)
    BY SetHashSound
  <2> HIDE DEF r
  <2> QED
    BY <2>1, <2>2 DEF r, Answers, ComponentEdit, FragmentEdit
<1>14. CASE CallFragment
  <2>1. PICK f \in Option(FragmentIn) : Call(SetFragment(url, f))
    BY <1>14 DEF CallFragment
  <2> DEFINE r == SetFragment(url, f)
  <2>2. f = {} \/ \E t \in WithTails(FragmentIn) : f = {t} /\ Visible(t) \in Text
    BY VisibleAssumption DEF Option, WithTails
  <2>3. Sound(r) /\ (Fits(r.url) => r.url = url \/ FragmentChanged(url, r.url, NewFragment(f)))
    BY <2>2, SetFragmentSound
  <2>4. NewFragment(f) \in FragmentValues
    BY <2>2, NewFragmentIn
  <2> HIDE DEF r
  <2> QED
    BY <2>1, <2>3, <2>4 DEF r, Answers, ComponentEdit, FragmentEdit
<1> QED
  BY <1>1, <1>2, <1>3, <1>4, <1>5, <1>6, <1>7, <1>8, <1>9, <1>10, <1>11, <1>12, <1>13, <1>14
     DEF Next

LEMMA CallsNeedNoPanic == Next => outcome # "panic"
BY DEF Next, Call, CallHref, CallScheme, CallProtocol, CallUsername, CallPassword,
       CallIpHost, CallHost, CallHostname, CallPortStr, CallPort, CallPathname,
       CallPath, CallSearch, CallQuery, CallHash, CallFragment

LEMMA NextIInv ==
  ASSUME IInv, [Next]_vars, Fits(url)'
  PROVE  IInv'
<1>1. CASE UNCHANGED vars
  BY <1>1 DEF vars, IInv, TypeOK, Layout
<1>2. CASE Next
  <2>1. outcome # "panic" /\ url \in Records /\ LaidOut(url)
    BY <1>2, CallsNeedNoPanic DEF IInv, TypeOK, Layout
  <2>2. PICK r : Call(r) /\ Answers(url, r)
    BY <1>2, <2>1, NextAnswers
  <2>3. Sound(r)
    BY <2>2 DEF Answers
  <2> QED
    BY <2>2, <2>3, SoundCall
<1> QED
  BY <1>1, <1>2

(* However the setters are called, the record keeps its types.             *)
THEOREM TypeInvariant == Spec /\ []Fits(url) => []TypeOK
<1>1. Init => IInv
  BY InitIInv
<1>2. IInv /\ [Next]_vars /\ Fits(url)' => IInv'
  BY NextIInv
<1>3. IInv => TypeOK
  BY DEF IInv
<1> QED
  BY <1>1, <1>2, <1>3, PTL DEF Spec

(* However the setters are called, the offsets delimit the components of   *)
(* the href and every delimiter stands where the getters skip it.          *)
THEOREM LayoutInvariant == Spec /\ []Fits(url) => []Layout
<1>1. Init => IInv
  BY InitIInv
<1>2. IInv /\ [Next]_vars /\ Fits(url)' => IInv'
  BY NextIInv
<1>3. IInv => Layout
  BY DEF IInv
<1> QED
  BY <1>1, <1>2, <1>3, PTL DEF Spec

-----------------------------------------------------------------------------
(* The components.                                                         *)

(* The properties of one record, said of its components.                   *)
Belongs(c) ==
  /\ c.username # <<>> \/ c.password # <<>> \/ c.port # NoPort =>
       c.host \notin {{}, {<<>>}} /\ c.scheme # <<"file">>
  /\ c.port = DefaultPort(c.scheme) => c.port = NoPort

Delimiters == {"/", "?", "#", "@", ":"}

Clean(c) ==
  /\ ~Has(c.username, Delimiters) /\ ~Has(c.password, Delimiters)
  /\ ~Has(c.path, {"?", "#"})
  /\ \A q \in c.query : ~Has(q, {"#"})

LEMMA ComponentsTell ==
  ASSUME NEW u \in Records, LaidOut(u)
  PROVE  LET c == Components(u)
         IN /\ PortBelongs(u) <=> Belongs(c)
            /\ Undelimited(u) <=> Clean(c)
            /\ CannotHaveUsernamePasswordPort(u) <=> c.host \in {{}, {<<>>}} \/ c.scheme = <<"file">>
<1>1. LET c == Components(u)
      IN /\ HostIsNullOrEmpty(u) <=> c.host \in {{}, {<<>>}}
         /\ IncludesCredentials(u) <=> c.username # <<>> \/ c.password # <<>>
         /\ c.scheme = Scheme(u) /\ c.port = u.port /\ c.opaque = CannotBeABase(u)
         /\ c.username = Username(u) /\ c.password = Password(u)
         /\ c.path = Path(u) /\ c.query = Query(u) /\ c.fragment = Fragment(u)
  BY ComponentTests
<1>2. CannotHaveUsernamePasswordPort(u)
        <=> Components(u).host \in {{}, {<<>>}} \/ Components(u).scheme = <<"file">>
  BY <1>1 DEF CannotHaveUsernamePasswordPort
<1>3. PortBelongs(u) <=> Belongs(Components(u))
  BY <1>1, <1>2 DEF PortBelongs, Belongs
<1>4. Undelimited(u) <=> Clean(Components(u))
  BY <1>1 DEF Undelimited, Clean, Delimiters
<1> QED
  BY <1>2, <1>3, <1>4

(* The fields of components of which one was replaced.                     *)
FieldsAre(c, sc, un, pw, ho, po, pa, op, qu, fr) ==
  /\ c.scheme = sc /\ c.username = un /\ c.password = pw /\ c.host = ho /\ c.port = po
  /\ c.path = pa /\ c.opaque = op /\ c.query = qu /\ c.fragment = fr

LEMMA PartsFields ==
  ASSUME NEW sc, NEW un, NEW pw, NEW ho, NEW po, NEW pa, NEW op, NEW qu, NEW fr
  PROVE  FieldsAre(PartsOf(sc, un, pw, ho, po, pa, op, qu, fr),
                   sc, un, pw, ho, po, pa, op, qu, fr)
BY DEF FieldsAre, PartsOf

LEMMA PutFields ==
  ASSUME NEW u, NEW x, NEW y
  PROVE  LET c == Components(u)
         IN /\ FieldsAre(PutScheme(c, x, y), x, c.username, c.password, c.host, y,
                         c.path, c.opaque, c.query, c.fragment)
            /\ FieldsAre(PutHost(c, x, y), c.scheme, c.username, c.password, x, y,
                         c.path, c.opaque, c.query, c.fragment)
            /\ FieldsAre(PutUsername(c, x), c.scheme, x, c.password, c.host, c.port,
                         c.path, c.opaque, c.query, c.fragment)
            /\ FieldsAre(PutPassword(c, x), c.scheme, c.username, x, c.host, c.port,
                         c.path, c.opaque, c.query, c.fragment)
            /\ FieldsAre(PutPort(c, x), c.scheme, c.username, c.password, c.host, x,
                         c.path, c.opaque, c.query, c.fragment)
            /\ FieldsAre(PutPath(c, x), c.scheme, c.username, c.password, c.host, c.port,
                         x, c.opaque, c.query, c.fragment)
            /\ FieldsAre(PutQuery(c, x), c.scheme, c.username, c.password, c.host, c.port,
                         c.path, c.opaque, x, c.fragment)
            /\ FieldsAre(PutFragment(c, x), c.scheme, c.username, c.password, c.host, c.port,
                         c.path, c.opaque, c.query, x)
<1>1. PICK sc, un, pw, ho, po, pa, op, qu, fr :
        Components(u) = PartsOf(sc, un, pw, ho, po, pa, op, qu, fr)
  BY ComponentsOf
<1>2. FieldsAre(Components(u), sc, un, pw, ho, po, pa, op, qu, fr)
  BY <1>1, PartsFields
<1>3. /\ FieldsAre(PutScheme(Components(u), x, y), x, un, pw, ho, y, pa, op, qu, fr)
      /\ FieldsAre(PutHost(Components(u), x, y), sc, un, pw, x, y, pa, op, qu, fr)
  BY <1>1, PartsFields, SchemePut, HostPut
<1>4. /\ FieldsAre(PutUsername(Components(u), x), sc, x, pw, ho, po, pa, op, qu, fr)
      /\ FieldsAre(PutPassword(Components(u), x), sc, un, x, ho, po, pa, op, qu, fr)
      /\ FieldsAre(PutPort(Components(u), x), sc, un, pw, ho, x, pa, op, qu, fr)
  BY <1>1, PartsFields, UsernamePut, PasswordPut, PortPut
<1>5. /\ FieldsAre(PutPath(Components(u), x), sc, un, pw, ho, po, x, op, qu, fr)
      /\ FieldsAre(PutQuery(Components(u), x), sc, un, pw, ho, po, pa, op, x, fr)
      /\ FieldsAre(PutFragment(Components(u), x), sc, un, pw, ho, po, pa, op, qu, x)
  BY <1>1, PartsFields, PathPut, QueryPut, FragmentPut
<1> QED
  BY <1>2, <1>3, <1>4, <1>5 DEF FieldsAre
-----------------------------------------------------------------------------
(* What the encoders hide, and what a text without its last spaces holds.  *)

LEMMA UserinfoIsClean == \A s : ~Has(EncodeUserinfo(s), Delimiters)
<1>1. \A t \in UserinfoSet : Encoding[t] \notin Delimiters
  BY DEF UserinfoSet, Encoding, Delimiters, TAB
<1>2. Delimiters \subseteq UserinfoSet
  BY DEF UserinfoSet, Delimiters
<1>3. ASSUME NEW s, NEW i \in DOMAIN EncodeUserinfo(s)
      PROVE  EncodeUserinfo(s)[i] \notin Delimiters
  <2>1. EncodeUserinfo(s)[i] = IF s[i] \in UserinfoSet THEN Encoding[s[i]] ELSE s[i]
    BY <1>3 DEF EncodeUserinfo, Encode
  <2> QED
    BY <1>1, <1>2, <2>1
<1> QED
  BY <1>3 DEF Has

LEMMA QueryIsClean == \A s : ~Has(EncodeQuery(s), {"#"})
<1>1. \A t \in QuerySet : Encoding[t] # "#"
  BY DEF QuerySet, Encoding, TAB
<1>2. "#" \in QuerySet
  BY DEF QuerySet
<1>3. ASSUME NEW s, NEW i \in DOMAIN EncodeQuery(s)
      PROVE  EncodeQuery(s)[i] # "#"
  <2>1. EncodeQuery(s)[i] = IF s[i] \in QuerySet THEN Encoding[s[i]] ELSE s[i]
    BY <1>3 DEF EncodeQuery, Encode
  <2> QED
    BY <1>1, <1>2, <2>1
<1> QED
  BY <1>3 DEF Has

(* A text holds what its beginning holds.                                  *)
LEMMA StripEndHas ==
  ASSUME NEW t \in Text, NEW set, Has(StripEnd(t), set)
  PROVE  Has(t, set)
<1>1. <<":">> \in Text /\ Len(<<":">>) = 1 /\ <<":">>[1] = ":"
  BY TokensAssumption DEF Text
<1>2. PICK m \in Nat : m = Len(t)
  BY LenProperties DEF Text
<1>3. PICK s : s = <<":">> \o t
  OBVIOUS
<1>4. /\ s \in Text /\ Len(s) = 1 + m /\ s[1] = ":"
      /\ \A i \in 1..m : s[1 + i] = t[i]
  BY <1>1, <1>2, <1>3, JoinFacts
<1>5. TokenAt(s, 0, ":")
  BY <1>2, <1>4 DEF TokenAt
<1>6. PICK n \in Nat : 1 <= n /\ n <= 1 + m /\ EndsAt(s, n)
  <2> DEFINE spaces == Cardinality({i \in DOMAIN s : \A j \in i..Len(s) : s[j] = " "})
  <2>1. /\ spaces \in Nat /\ 0 + 1 + spaces <= Len(s)
        /\ \A n \in Nat : n + spaces = Len(s) => EndsAt(s, n)
    BY <1>4, <1>5, SpacesFacts
  <2> HIDE DEF spaces
  <2>2. PICK n \in Nat : n + spaces = 1 + m /\ 1 <= n
    <3>1. (1 + m) - spaces \in Nat /\ ((1 + m) - spaces) + spaces = 1 + m /\ 1 <= (1 + m) - spaces
      BY <1>2, <1>4, <2>1
    <3> QED
      BY <3>1
  <2>3. n <= 1 + m
    BY <1>2, <2>1, <2>2
  <2> QED
    BY <1>4, <2>1, <2>2, <2>3
<1>7. PICK k \in Nat : n = 1 + k /\ k <= m
  <2>1. n - 1 \in Nat /\ n = 1 + (n - 1) /\ n - 1 <= m
    BY <1>2, <1>6
  <2> QED
    BY <2>1
<1>8. Spaced(t, k)
  <2>1. ASSUME NEW i \in k + 1..m PROVE t[i] = " "
    <3>1. i \in 1..m /\ 1 + i \in n + 1..1 + m
      BY <1>7
    <3> QED
      BY <1>4, <1>6, <3>1 DEF EndsAt
  <2>2. ASSUME k # 0 PROVE t[k] # " "
    <3>1. k \in 1..m
      BY <1>7, <2>2
    <3> QED
      BY <1>4, <1>6, <1>7, <3>1 DEF EndsAt
  <2> QED
    BY <1>2, <2>1, <2>2 DEF Spaced
<1>9. StripEnd(t) = Upto(t, k)
  BY <1>2, <1>7, <1>8, StripEndIs
<1>10. /\ Upto(t, k) \in Text /\ Len(Upto(t, k)) = k
       /\ \A i \in 1..k : Upto(t, k)[i] = t[i]
  BY <1>2, <1>7, UptoFacts
<1>11. PICK i \in DOMAIN Upto(t, k) : Upto(t, k)[i] \in set
  BY <1>9 DEF Has
<1>12. i \in 1..k
  BY <1>10, <1>11, LenProperties DEF Text
<1>13. i \in DOMAIN t /\ t[i] \in set
  BY <1>2, <1>7, <1>10, <1>11, <1>12, LenProperties DEF Text
<1> QED
  BY <1>13 DEF Has

(* An opaque path that would begin with "/" is written with "%2F".         *)
LEMMA PathForIsClean ==
  ASSUME NEW u, NEW x \in WithSlash(PathIn), x \in PathIn \/ ~CannotBeABase(u),
         Class(u) \in SchemeTypes
  PROVE  ~Has(PathFor(u, x), {"?", "#"})
<1>1. CASE ~CannotBeABase(u)
  BY <1>1, ParserAssumption DEF PathFor
<1>2. CASE CannotBeABase(u)
  <2>1. x \in WithTails(PathIn)
    BY <1>2 DEF WithTails
  <2>2. CASE ~StartsWith(x, "/")
    BY <1>2, <2>1, <2>2, ParserAssumption DEF PathFor
  <2>3. CASE StartsWith(x, "/")
    <3>1. x # <<>>
      BY <2>3 DEF StartsWith
    <3>2. Tail(x) \in WithTails(PathIn)
      BY <1>2, <3>1 DEF WithTails
    <3>3. PICK p \in Text : p = ParseOpaquePath(Tail(x)) /\ ~Has(p, {"?", "#"})
      BY <3>2, ParserAssumption
    <3>4. <<"%2F">> \in Text /\ Len(<<"%2F">>) = 1 /\ <<"%2F">>[1] = "%2F"
      BY TokensAssumption DEF Text
    <3>5. PICK m \in Nat : m = Len(p)
      BY LenProperties DEF Text
    <3>6. PICK w : w = <<"%2F">> \o p
      OBVIOUS
    <3>7. /\ w \in Text /\ Len(w) = 1 + m /\ w[1] = "%2F"
          /\ \A i \in 1..m : w[1 + i] = p[i]
      BY <3>4, <3>5, <3>6, JoinFacts
    <3>8. DOMAIN w = 1..1 + m /\ DOMAIN p = 1..m
      BY <3>5, <3>7, LenProperties DEF Text
    <3>9. ASSUME NEW i \in 1..1 + m PROVE w[i] \notin {"?", "#"}
      <4>1. CASE i = 1
        BY <3>7, <4>1
      <4>2. CASE i # 1
        <5>1. PICK j \in 1..m : i = 1 + j
          <6>1. i - 1 \in 1..m /\ i = 1 + (i - 1)
            BY <4>2
          <6> QED
            BY <6>1
        <5> QED
          BY <3>3, <3>7, <3>8, <5>1 DEF Has
      <4> QED
        BY <4>1, <4>2
    <3> QED
      BY <1>2, <2>3, <3>3, <3>6, <3>8, <3>9 DEF Has, PathFor
  <2> QED
    BY <2>2, <2>3
<1> QED
  BY <1>1, <1>2
-----------------------------------------------------------------------------
(* Every edit keeps what the components have to do with each other.        *)

LEMMA PathIsText ==
  ASSUME NEW u \in Records, LaidOut(u)
  PROVE  Path(u) \in Text
<1>1. u.ser \in Text /\ u.path_start \in Nat
  BY Fields
<1>2. PICK pe \in Nat, m \in Nat :
        pe = PathEndOf(u) /\ u.path_start <= pe /\ pe <= m /\ m = Len(u.ser)
  <2>1. /\ PathEndOf(u) \in Nat /\ QueryEndOf(u) \in Nat /\ u.path_start <= PathEndOf(u)
        /\ PathEndOf(u) <= QueryEndOf(u) /\ QueryEndOf(u) <= Len(u.ser)
    BY TailBounds
  <2>2. Len(u.ser) \in Nat
    BY <1>1, LenProperties DEF Text
  <2>3. PathEndOf(u) <= Len(u.ser)
    BY <2>1, <2>2
  <2> QED
    BY <2>1, <2>2, <2>3
<1>3. PICK k \in Nat : pe = u.path_start + k
  <2>1. pe - u.path_start \in Nat /\ pe = u.path_start + (pe - u.path_start)
    BY <1>1, <1>2
  <2> QED
    BY <2>1
<1>4. Slice(u.ser, u.path_start, u.path_start + k) \in Text
  BY <1>1, <1>2, <1>3, SliceFacts
<1> QED
  BY <1>2, <1>3, <1>4 DEF Path

LEMMA TypesOfUrl ==
  ASSUME NEW u
  PROVE  Class(u) \in SchemeTypes /\ DefaultPort(Scheme(u)) \in {21, 80, 443, NoPort}
BY DEF Class, SchemeType, SchemeTypes, DefaultPort

(* The properties of one record that hold between calls.                   *)
Coherent(u) == FlagsMatch(u) /\ PortBelongs(u) /\ Undelimited(u)

(* Components whose port and host fit and whose text is clean.             *)
Fit(c) == Belongs(c) /\ Clean(c)

LEMMA GivesCoherent ==
  ASSUME NEW u \in Records, LaidOut(u), Coherent(u), NEW v \in Records, LaidOut(v),
         NEW c, Gives(u, v, c), Fit(c)
  PROVE  Coherent(v)
<1>1. /\ PortBelongs(v) <=> Belongs(Components(v))
      /\ Undelimited(v) <=> Clean(Components(v))
  BY ComponentsTell
<1> QED
  BY <1>1 DEF Coherent, Gives, Fit

LEMMA CoherentFits ==
  ASSUME NEW u \in Records, LaidOut(u), Coherent(u)
  PROVE  Fit(Components(u))
<1>1. /\ PortBelongs(u) <=> Belongs(Components(u))
      /\ Undelimited(u) <=> Clean(Components(u))
  BY ComponentsTell
<1> QED
  BY <1>1 DEF Coherent, Fit

LEMMA SchemeKeeps ==
  ASSUME NEW u \in Records, LaidOut(u), Coherent(u), NEW v \in Records, LaidOut(v),
         SchemeEdit(u, v)
  PROVE  Coherent(v)
<1>1. PICK s : SchemeChanged(u, v, s)
  BY DEF SchemeEdit
<1> DEFINE c == Components(u)
           y == IF u.port = DefaultPort(s.scheme) THEN NoPort ELSE u.port
           d == PutScheme(c, s.scheme, y)
<1>2. Fit(c)
  BY CoherentFits
<1>3. /\ IncludesCredentials(u) <=> c.username # <<>> \/ c.password # <<>>
      /\ c.port = u.port
  BY ComponentTests
<1>4. /\ s.scheme = <<"file">> => ~IncludesCredentials(u) /\ u.port = NoPort
      /\ Gives(u, v, d)
  BY <1>1 DEF SchemeChanged
<1>5. FieldsAre(d, s.scheme, c.username, c.password, c.host, y, c.path, c.opaque, c.query, c.fragment)
  BY PutFields
<1>6. y # NoPort => u.port # NoPort /\ y # DefaultPort(s.scheme)
  OBVIOUS
<1> HIDE DEF c, d, y
<1>7. Fit(d)
  BY <1>2, <1>3, <1>4, <1>5, <1>6 DEF Fit, Belongs, Clean, FieldsAre
<1> QED
  BY <1>4, <1>7, GivesCoherent

LEMMA UserinfoKeeps ==
  ASSUME NEW u \in Records, LaidOut(u), Coherent(u), NEW v \in Records, LaidOut(v),
         UsernameEdit(u, v) \/ PasswordEdit(u, v)
  PROVE  Coherent(v)
<1> DEFINE c == Components(u)
<1>1. Fit(c)
  BY CoherentFits
<1>2. c.host \notin {{}, {<<>>}} /\ c.scheme # <<"file">>
  BY ComponentsTell DEF UsernameEdit, PasswordEdit
<1>3. CASE UsernameEdit(u, v)
  <2>1. PICK s : Gives(u, v, PutUsername(c, EncodeUserinfo(s)))
    BY <1>3 DEF UsernameEdit
  <2>2. PICK e : e = EncodeUserinfo(s) /\ ~Has(e, Delimiters)
    BY UserinfoIsClean
  <2>3. FieldsAre(PutUsername(c, e), c.scheme, e, c.password, c.host, c.port, c.path, c.opaque,
                  c.query, c.fragment)
    BY PutFields
  <2> HIDE DEF c
  <2>4. Fit(PutUsername(c, e))
    BY <1>1, <1>2, <2>2, <2>3 DEF Fit, Belongs, Clean, FieldsAre
  <2> QED
    BY <2>1, <2>2, <2>4, GivesCoherent
<1>4. CASE PasswordEdit(u, v)
  <2>1. PICK s : Gives(u, v, PutPassword(c, EncodeUserinfo(s)))
    BY <1>4 DEF PasswordEdit
  <2>2. PICK e : e = EncodeUserinfo(s) /\ ~Has(e, Delimiters)
    BY UserinfoIsClean
  <2>3. FieldsAre(PutPassword(c, e), c.scheme, c.username, e, c.host, c.port, c.path, c.opaque,
                  c.query, c.fragment)
    BY PutFields
  <2> HIDE DEF c
  <2>4. Fit(PutPassword(c, e))
    BY <1>1, <1>2, <2>2, <2>3 DEF Fit, Belongs, Clean, FieldsAre
  <2> QED
    BY <2>1, <2>2, <2>4, GivesCoherent
<1> QED
  BY <1>3, <1>4

LEMMA PortKeeps ==
  ASSUME NEW u \in Records, LaidOut(u), Coherent(u), NEW v \in Records, LaidOut(v),
         PortEdit(u, v)
  PROVE  Coherent(v)
<1> DEFINE c == Components(u)
           d == DefaultPort(Scheme(u))
<1>1. Fit(c)
  BY CoherentFits
<1>2. c.host \notin {{}, {<<>>}} /\ c.scheme # <<"file">> /\ c.scheme = Scheme(u)
  BY ComponentsTell, ComponentTests DEF PortEdit
<1>3. PICK p : Gives(u, v, PutPort(c, IF p = d THEN NoPort ELSE p))
  BY DEF PortEdit
<1>4. PICK x : x = (IF p = d THEN NoPort ELSE p) /\ (x = d => x = NoPort)
  OBVIOUS
<1>5. FieldsAre(PutPort(c, x), c.scheme, c.username, c.password, c.host, x, c.path, c.opaque,
                c.query, c.fragment)
  BY PutFields
<1> HIDE DEF c
<1>6. Fit(PutPort(c, x))
  BY <1>1, <1>2, <1>4, <1>5 DEF Fit, Belongs, Clean, FieldsAre
<1> QED
  BY <1>3, <1>4, <1>6, GivesCoherent

LEMMA IpHostKeeps ==
  ASSUME NEW u \in Records, LaidOut(u), Coherent(u), NEW v \in Records, LaidOut(v),
         IpHostEdit(u, v)
  PROVE  Coherent(v)
<1> DEFINE c == Components(u)
<1>1. Fit(c)
  BY CoherentFits
<1>2. PICK h \in IpHost : Gives(u, v, PutHost(c, {h.text}, u.port))
  BY DEF IpHostEdit
<1>13. h.text # <<>>
  BY InputAssumption
<1>3. PICK x : x = {h.text} /\ x \notin {{}, {<<>>}}
  BY <1>13
<1>4. c.port = u.port
  BY ComponentTests
<1>5. FieldsAre(PutHost(c, x, u.port), c.scheme, c.username, c.password, x, u.port,
                c.path, c.opaque, c.query, c.fragment)
  BY PutFields
<1> HIDE DEF c
<1>6. Fit(PutHost(c, x, u.port))
  BY <1>1, <1>3, <1>4, <1>5 DEF Fit, Belongs, Clean, FieldsAre
<1> QED
  BY <1>2, <1>3, <1>6, GivesCoherent

(* The port behind a host is never the default one, and a file URL reads   *)
(* none.                                                                   *)
LEMMA PortsBehindHost ==
  ASSUME NEW u, NEW text \in HostIn, NEW x \in HostsOf(u, text), StartsWith(x.rest, ":")
  PROVE  /\ Class(u) # "file"
         /\ \A p \in ParsePortSetter(Tail(x.rest), DefaultPort(Scheme(u))) :
              p = DefaultPort(Scheme(u)) => p = NoPort
<1>1. /\ Class(u) \in SchemeTypes /\ x.rest # <<>>
      /\ DefaultPort(Scheme(u)) \in {21, 80, 443, NoPort}
  BY TypesOfUrl DEF StartsWith
<1>2. x \in ParseHostSetter(Class(u), text)
  BY <1>1 DEF HostsOf, NoHostThere
<1>3. Class(u) # "file"
  BY <1>1, <1>2, ParserAssumption
<1>4. Tail(x.rest) \in PortTexts
  <2>1. ParseHostSetter(Class(u), text) \in {ParseHostSetter(k, s) : k \in SchemeTypes, s \in HostIn}
    BY <1>1
  <2>2. x \in UNION {ParseHostSetter(k, s) : k \in SchemeTypes, s \in HostIn}
    BY <1>2, <2>1
  <2>3. x.rest \in {y.rest : y \in UNION {ParseHostSetter(k, s) : k \in SchemeTypes, s \in HostIn}}
    BY <2>2
  <2> QED
    BY <1>1, <2>3 DEF PortTexts, WithTails
<1>5. \A s \in PortTexts, d \in {21, 80, 443, NoPort} :
        ParsePortSetter(s, d) \subseteq (0..NoPort \ {d}) \cup {NoPort}
  BY ParserAssumption
<1> QED
  BY <1>1, <1>3, <1>4, <1>5

LEMMA HostKeeps ==
  ASSUME NEW u \in Records, LaidOut(u), Coherent(u), NEW v \in Records, LaidOut(v),
         HostEdit(u, v)
  PROVE  Coherent(v)
<1> DEFINE c == Components(u)
           d == DefaultPort(Scheme(u))
<1>1. Fit(c)
  BY CoherentFits
<1>12. PICK text \in HostIn : \E x \in HostsOf(u, text) : HostChanged(u, v, x)
  BY DEF HostEdit
<1>2. PICK x \in HostsOf(u, text) : HostChanged(u, v, x)
  BY <1>12
<1>3. PICK p \in {u.port} \cup (IF StartsWith(x.rest, ":") THEN ParsePortSetter(Tail(x.rest), d) ELSE {}) :
        /\ x.host.text = <<>> => ~IncludesCredentials(u) /\ u.port = NoPort /\ p = NoPort
        /\ Gives(u, v, PutHost(c, {x.host.text}, p))
  BY <1>2 DEF HostChanged
<1>4. /\ IncludesCredentials(u) <=> c.username # <<>> \/ c.password # <<>>
      /\ c.port = u.port /\ c.scheme = Scheme(u)
  BY ComponentTests
<1>5. p # u.port => StartsWith(x.rest, ":") /\ p \in ParsePortSetter(Tail(x.rest), d)
  BY <1>3
<1>6. p # u.port => c.scheme # <<"file">> /\ (p = d => p = NoPort)
  <2>1. SchemeType(<<"file">>) = "file"
    BY DEF SchemeType, SpecialNotFile
  <2> QED
    BY <1>2, <1>4, <1>5, <2>1, PortsBehindHost DEF Class
<1>7. PICK h : h = {x.host.text} /\ h # {} /\ (h = {<<>>} <=> x.host.text = <<>>)
  OBVIOUS
<1>8. FieldsAre(PutHost(c, h, p), c.scheme, c.username, c.password, h, p,
                c.path, c.opaque, c.query, c.fragment)
  BY PutFields
<1> HIDE DEF c
<1>9. Belongs(PutHost(c, h, p))
  <2>1. Belongs(c)
    BY <1>1 DEF Fit
  <2>2. c.username # <<>> \/ c.password # <<>> \/ p # NoPort => h \notin {{}, {<<>>}} /\ c.scheme # <<"file">>
    BY <1>3, <1>4, <1>6, <1>7, <2>1 DEF Belongs
  <2>3. p = DefaultPort(c.scheme) => p = NoPort
    BY <1>4, <1>6, <2>1 DEF Belongs
  <2> QED
    BY <1>8, <2>2, <2>3 DEF Belongs, FieldsAre
<1>10. Clean(PutHost(c, h, p))
  BY <1>1, <1>8 DEF Fit, Clean, FieldsAre
<1>11. Fit(PutHost(c, h, p))
  BY <1>9, <1>10 DEF Fit
<1> QED
  BY <1>3, <1>7, <1>11, GivesCoherent

LEMMA PathKeeps ==
  ASSUME NEW u \in Records, LaidOut(u), Coherent(u), NEW v \in Records, LaidOut(v),
         PathEdit(u, v)
  PROVE  Coherent(v)
<1> DEFINE c == Components(u)
<1>1. Fit(c)
  BY CoherentFits
<1>2. PICK x \in WithSlash(PathIn) :
        (x \in PathIn \/ ~CannotBeABase(u)) /\ Gives(u, v, PutPath(c, PathFor(u, x)))
  BY DEF PathEdit
<1>3. PICK p : p = PathFor(u, x) /\ ~Has(p, {"?", "#"})
  BY <1>2, PathForIsClean, TypesOfUrl
<1>4. FieldsAre(PutPath(c, p), c.scheme, c.username, c.password, c.host, c.port,
                p, c.opaque, c.query, c.fragment)
  BY PutFields
<1> HIDE DEF c
<1>5. Fit(PutPath(c, p))
  BY <1>1, <1>3, <1>4 DEF Fit, Belongs, Clean, FieldsAre
<1> QED
  BY <1>2, <1>3, <1>5, GivesCoherent

(* The spaces that went from an opaque path hid no delimiter.              *)
LEMMA TrimKeeps ==
  ASSUME NEW u \in Records, LaidOut(u), NEW x, NEW c,
         c \in {PutQuery(Components(u), x), PutFragment(Components(u), x)}, Fit(c)
  PROVE  Fit(Trim(c))
<1> DEFINE p == StripEnd(c.path)
<1>1. c.path = Path(u)
  <2>1. Components(u).path = Path(u)
    BY ComponentTests
  <2>2. /\ PutQuery(Components(u), x).path = Components(u).path
        /\ PutFragment(Components(u), x).path = Components(u).path
    BY PutFields DEF FieldsAre
  <2> QED
    BY <2>1, <2>2
<1>2. ~Has(c.path, {"?", "#"}) => ~Has(p, {"?", "#"})
  BY <1>1, PathIsText, StripEndHas
<1>3. FieldsAre(PutPath(c, p), c.scheme, c.username, c.password, c.host, c.port,
                p, c.opaque, c.query, c.fragment)
  <2>4. PICK sc, un, pw, ho, po, pa, op, qu, fr :
          Components(u) = PartsOf(sc, un, pw, ho, po, pa, op, qu, fr)
    BY ComponentsOf
  <2>5. c \in {PartsOf(sc, un, pw, ho, po, pa, op, x, fr), PartsOf(sc, un, pw, ho, po, pa, op, qu, x)}
    BY <2>4, QueryPut, FragmentPut
  <2>1. PICK a, b : c = PartsOf(sc, un, pw, ho, po, pa, op, a, b)
    BY <2>5
  <2>2. FieldsAre(c, sc, un, pw, ho, po, pa, op, a, b)
    BY <2>1, PartsFields
  <2>3. FieldsAre(PutPath(c, p), sc, un, pw, ho, po, p, op, a, b)
    BY <2>1, PathPut, PartsFields
  <2> QED
    BY <2>2, <2>3 DEF FieldsAre
<1> HIDE DEF p
<1>4. Fit(PutPath(c, p))
  BY <1>2, <1>3 DEF Fit, Belongs, Clean, FieldsAre
<1> QED
  BY <1>4 DEF Trim, p

LEMMA QueryKeeps ==
  ASSUME NEW u \in Records, LaidOut(u), Coherent(u), NEW v \in Records, LaidOut(v),
         QueryEdit(u, v)
  PROVE  Coherent(v)
<1> DEFINE c == Components(u)
<1>1. Fit(c)
  BY CoherentFits
<1>2. PICK q \in QueryValues : QueryChanged(u, v, q)
  BY DEF QueryEdit
<1>3. \A x \in q : ~Has(x, {"#"})
  BY QueryIsClean DEF QueryValues, Option
<1>4. FieldsAre(PutQuery(c, q), c.scheme, c.username, c.password, c.host, c.port,
                c.path, c.opaque, q, c.fragment)
  BY PutFields
<1> HIDE DEF c
<1>5. Fit(PutQuery(c, q))
  BY <1>1, <1>3, <1>4 DEF Fit, Belongs, Clean, FieldsAre
<1>6. Fit(Trim(PutQuery(c, q)))
  BY <1>5, TrimKeeps DEF c
<1>7. Gives(u, v, PutQuery(c, q)) \/ Gives(u, v, Trim(PutQuery(c, q)))
  BY <1>2 DEF QueryChanged, c
<1> QED
  BY <1>5, <1>6, <1>7, GivesCoherent

LEMMA FragmentKeeps ==
  ASSUME NEW u \in Records, LaidOut(u), Coherent(u), NEW v \in Records, LaidOut(v),
         FragmentEdit(u, v)
  PROVE  Coherent(v)
<1> DEFINE c == Components(u)
<1>1. Fit(c)
  BY CoherentFits
<1>2. PICK f \in FragmentValues : FragmentChanged(u, v, f)
  BY DEF FragmentEdit
<1>3. FieldsAre(PutFragment(c, f), c.scheme, c.username, c.password, c.host, c.port,
                c.path, c.opaque, c.query, f)
  BY PutFields
<1> HIDE DEF c
<1>4. Fit(PutFragment(c, f))
  BY <1>1, <1>3 DEF Fit, Belongs, Clean, FieldsAre
<1>5. Fit(Trim(PutFragment(c, f)))
  BY <1>4, TrimKeeps DEF c
<1>6. Gives(u, v, PutFragment(c, f)) \/ Gives(u, v, Trim(PutFragment(c, f)))
  BY <1>2 DEF FragmentChanged, c
<1> QED
  BY <1>4, <1>5, <1>6, GivesCoherent

LEMMA EditKeeps ==
  ASSUME NEW u \in Records, LaidOut(u), Coherent(u), NEW v \in Records, LaidOut(v),
         ComponentEdit(u, v)
  PROVE  Coherent(v)
<1>1. CASE HrefEdit(u, v)
  BY <1>1, ParserAssumption DEF HrefEdit, Coherent
<1> QED
  BY <1>1, SchemeKeeps, UserinfoKeeps, PortKeeps, IpHostKeeps, HostKeeps, PathKeeps, QueryKeeps,
     FragmentKeeps DEF ComponentEdit
-----------------------------------------------------------------------------
(* The invariant: layout and coherence need each other, for a setter looks *)
(* at the port it finds and writes behind the host it finds.               *)

CInv == IInv /\ FlagsAgree /\ PortAndCredentials /\ Unambiguous

LEMMA InitCInv == Init => CInv
<1> SUFFICES ASSUME NEW text \in HrefIn, url \in Parse(text), Init
             PROVE  CInv
  BY DEF Init
<1>1. FlagsMatch(url) /\ PortBelongs(url) /\ Undelimited(url)
  BY ParserAssumption
<1> QED
  BY <1>1, InitIInv DEF CInv, FlagsAgree, PortAndCredentials, Unambiguous

LEMMA NextCInv ==
  ASSUME CInv, [Next]_vars, Fits(url)'
  PROVE  CInv'
<1>1. IInv'
  BY NextIInv DEF CInv
<1>2. CASE UNCHANGED vars
  BY <1>1, <1>2 DEF vars, CInv, FlagsAgree, PortAndCredentials, Unambiguous
<1>3. CASE Next
  <2>1. /\ outcome # "panic" /\ url \in Records /\ LaidOut(url) /\ Coherent(url)
    BY <1>3, CallsNeedNoPanic
       DEF CInv, IInv, TypeOK, Layout, FlagsAgree, PortAndCredentials, Unambiguous, Coherent
  <2>2. PICK r : Call(r) /\ Answers(url, r)
    BY <1>3, <2>1, NextAnswers
  <2>3. url' = r.url /\ Fits(r.url)
    BY <2>2 DEF Call
  <2>4. url' = url \/ ComponentEdit(url, url')
    BY <2>1, <2>2, <2>3 DEF Answers, Coherent
  <2>5. outcome' # "panic" => url' \in Records /\ LaidOut(url')
    BY <1>1 DEF IInv, TypeOK, Layout
  <2>6. outcome' # "panic" => Coherent(url')
    BY <2>1, <2>4, <2>5, EditKeeps
  <2> QED
    BY <1>1, <2>6 DEF CInv, FlagsAgree, PortAndCredentials, Unambiguous, Coherent
<1> QED
  BY <1>2, <1>3

(* However the setters are called, the credential flags say what the text  *)
(* says, SPECIAL what the scheme says, and no host flag names a host that  *)
(* is not there.                                                           *)
THEOREM FlagsNeverStale == Spec /\ []Fits(url) => []FlagsAgree
<1>1. Init => CInv
  BY InitCInv
<1>2. CInv /\ [Next]_vars /\ Fits(url)' => CInv'
  BY NextCInv
<1>3. CInv => FlagsAgree
  BY DEF CInv
<1> QED
  BY <1>1, <1>2, <1>3, PTL DEF Spec

(* However the setters are called, credentials and a port belong to a host *)
(* that is not empty and to no file URL, and the default port of the       *)
(* scheme is never written.                                                *)
THEOREM PortsHaveHosts == Spec /\ []Fits(url) => []PortAndCredentials
<1>1. Init => CInv
  BY InitCInv
<1>2. CInv /\ [Next]_vars /\ Fits(url)' => CInv'
  BY NextCInv
<1>3. CInv => PortAndCredentials
  BY DEF CInv
<1> QED
  BY <1>1, <1>2, <1>3, PTL DEF Spec

(* However the setters are called, no delimiter hides inside a component,  *)
(* so the href splits in one way.                                          *)
THEOREM SplitsOneWay == Spec /\ []Fits(url) => []Unambiguous
<1>1. Init => CInv
  BY InitCInv
<1>2. CInv /\ [Next]_vars /\ Fits(url)' => CInv'
  BY NextCInv
<1>3. CInv => Unambiguous
  BY DEF CInv
<1> QED
  BY <1>1, <1>2, <1>3, PTL DEF Spec
-----------------------------------------------------------------------------
(* The record implements the record of separate components.  The instance  *)
(* has operators of its own, which are those of the record.                *)

LEMMA SameSchemes ==
  /\ \A x : C!SchemeType(x) = SchemeType(x) /\ C!DefaultPort(x) = DefaultPort(x)
  /\ \A x : C!IsSpecial(x) = IsSpecial(x)
  /\ C!NoPort = NoPort
<1>1. \A x : C!SchemeType(x) = SchemeType(x)
  BY DEF C!SchemeType, SchemeType, C!SpecialNotFile, SpecialNotFile
<1>2. \A x : C!DefaultPort(x) = DefaultPort(x)
  BY DEF C!DefaultPort, DefaultPort, C!NoPort, NoPort
<1>3. \A x : C!IsSpecial(x) = IsSpecial(x)
  BY <1>1 DEF C!IsSpecial, IsSpecial
<1>4. C!NoPort = NoPort
  BY DEF C!NoPort, NoPort
<1> QED
  BY <1>1, <1>2, <1>3, <1>4

LEMMA SameTexts ==
  /\ \A x, y : C!StartsWith(x, y) = StartsWith(x, y)
  /\ \A x : C!BeforeColon(x) = BeforeColon(x)
  /\ \A x : C!Option(x) = Option(x)
  /\ \A x : C!StripSpaces(x) = StripEnd(x)
  /\ \A x : C!Visible(x) = Visible(x)
<1>1. \A x, y : C!StartsWith(x, y) = StartsWith(x, y)
  BY DEF C!StartsWith, StartsWith
<1>2. \A x : C!BeforeColon(x) = BeforeColon(x)
  BY DEF C!BeforeColon, BeforeColon, C!Upto, Upto
<1>3. \A x : C!Option(x) = Option(x)
  BY DEF C!Option, Option
<1>4. \A x : C!StripSpaces(x) = StripEnd(x)
  BY DEF C!StripSpaces, StripEnd, C!Upto, Upto, Spaced
<1>5. \A x : C!Visible(x) = Visible(x)
  BY DEF C!Visible, Visible, C!TAB, TAB
<1> QED
  BY <1>1, <1>2, <1>3, <1>4, <1>5

LEMMA SameEncodings ==
  /\ \A x : C!EncodeUserinfo(x) = EncodeUserinfo(x)
  /\ \A x : C!EncodeQuery(x) = EncodeQuery(x)
  /\ \A x : C!EncodeFragment(x) = EncodeFragment(x)
<1>1. \A x : C!EncodeUserinfo(x) = EncodeUserinfo(x)
  BY DEF C!EncodeUserinfo, EncodeUserinfo, C!UserinfoSet, UserinfoSet, C!Encode, Encode,
         C!Encoding, Encoding, C!TAB, TAB
<1>2. \A x : C!EncodeQuery(x) = EncodeQuery(x)
  BY DEF C!EncodeQuery, EncodeQuery, C!QuerySet, QuerySet, C!Encode, Encode,
         C!Encoding, Encoding, C!TAB, TAB
<1>3. \A x : C!EncodeFragment(x) = EncodeFragment(x)
  BY DEF C!EncodeFragment, EncodeFragment, C!FragmentSet, FragmentSet, C!Encode, Encode,
         C!Encoding, Encoding, C!TAB, TAB
<1> QED
  BY <1>1, <1>2, <1>3

LEMMA SameSchemeSetter == \A x : C!ParseSchemeSetter(x) = ParseSchemeSetter(x)
<1> SUFFICES ASSUME NEW x PROVE C!ParseSchemeSetter(x) = ParseSchemeSetter(x)
  OBVIOUS
<1>1. C!Visible(x) = Visible(x)
  BY SameTexts
<1>2. /\ \A s, k : C!Upto(s, k) = Upto(s, k) /\ C!From(s, k) = From(s, k)
      /\ C!SchemeToken = SchemeToken
  BY DEF C!Upto, Upto, C!From, From, C!SchemeToken, SchemeToken
<1>3. \A S : C!Cardinality(S) = Cardinality(S)
  BY DEF C!Cardinality, Cardinality
<1> QED
  BY <1>1, <1>2, <1>3 DEF C!ParseSchemeSetter, ParseSchemeSetter

(* What the guards of the components ask, asked of the record.             *)
LEMMA SameGuards ==
  ASSUME url \in Records, LaidOut(url)
  PROVE  /\ C!Special <=> IsSpecial(Scheme(url))
         /\ C!Special <=> IsSpecial(Components(url).scheme)
         /\ C!Type = Class(url)
         /\ C!NoHost <=> HostIsNullOrEmpty(url)
         /\ C!Bare <=> ~IncludesCredentials(url) /\ url.port = NoPort
         /\ C!TakesCredentials <=> ~CannotHaveUsernamePasswordPort(url)
         /\ Components(url).scheme = Scheme(url) /\ Components(url).port = url.port
         /\ Components(url).opaque = CannotBeABase(url)
<1>1. LET c == Components(url)
      IN /\ HostIsNullOrEmpty(url) <=> c.host \in {{}, {<<>>}}
         /\ IncludesCredentials(url) <=> c.username # <<>> \/ c.password # <<>>
         /\ c.scheme = Scheme(url) /\ c.port = url.port /\ c.opaque = CannotBeABase(url)
  BY ComponentTests
<1>2. C!Special <=> IsSpecial(Components(url).scheme)
  BY SameSchemes DEF C!Special
<1>3. C!Type = Class(url)
  BY <1>1, SameSchemes DEF C!Type, Class
<1>4. C!NoHost <=> HostIsNullOrEmpty(url)
  BY <1>1 DEF C!NoHost
<1>5. C!Bare <=> ~IncludesCredentials(url) /\ url.port = NoPort
  BY <1>1, SameSchemes DEF C!Bare
<1>6. C!TakesCredentials <=> ~CannotHaveUsernamePasswordPort(url)
  BY <1>1, <1>4 DEF C!TakesCredentials, CannotHaveUsernamePasswordPort
<1> QED
  BY <1>1, <1>2, <1>3, <1>4, <1>5, <1>6

(* Every edit is an action of the components.                              *)
LEMMA HrefRefines ==
  ASSUME HrefEdit(url, url')
  PROVE  C!Replace
<1>1. PICK s \in HrefIn : url' \in Parse(s)
  BY DEF HrefEdit
<1>2. url' \in UNION {Parse(x) : x \in HrefIn}
  BY <1>1
<1>3. Components(url') \in ParsedHrefs
  BY <1>2 DEF ParsedHrefs
<1> QED
  BY <1>3 DEF C!Replace

LEMMA SchemeRefines ==
  ASSUME url \in Records, LaidOut(url), SchemeEdit(url, url')
  PROVE  C!SetScheme
<1> DEFINE c == Components(url)
<1>1. PICK text \in SchemeIn \cup {BeforeColon(x) : x \in SchemeIn} :
        \E r \in ParseSchemeSetter(text) : SchemeChanged(url, url', r)
  BY DEF SchemeEdit
<1>2. PICK r \in ParseSchemeSetter(text) : SchemeChanged(url, url', r)
  BY <1>1
<1>3. text \in SchemeIn \cup {C!BeforeColon(x) : x \in SchemeIn} /\ r \in C!ParseSchemeSetter(text)
  BY <1>2, SameTexts, SameSchemeSetter
<1>4. /\ r.rest = <<>> /\ r.scheme # Scheme(url)
      /\ IsSpecial(r.scheme) = IsSpecial(Scheme(url))
      /\ r.scheme = <<"file">> => ~IncludesCredentials(url) /\ url.port = NoPort
      /\ IsSpecial(Scheme(url)) => ~HostIsNullOrEmpty(url)
      /\ Components(url') = PutScheme(c, r.scheme,
                                      IF url.port = DefaultPort(r.scheme) THEN NoPort ELSE url.port)
  BY <1>2 DEF SchemeChanged, Gives
<1>5. c.scheme = Scheme(url) /\ c.port = url.port
  BY SameGuards
<1>6. r.scheme # c.scheme /\ C!IsSpecial(r.scheme) = C!Special
  BY <1>4, <1>5, SameSchemes DEF C!Special
<1>7. (r.scheme = <<"file">> => C!Bare) /\ (C!Special => ~C!NoHost)
  BY <1>4, SameGuards
<1>8. Components(url') = [c EXCEPT !.scheme = r.scheme,
                                   !.port = IF @ = C!DefaultPort(r.scheme) THEN C!NoPort ELSE @]
  BY <1>4, <1>5, SameSchemes DEF PutScheme
<1> QED
  BY <1>3, <1>4, <1>6, <1>7, <1>8 DEF C!SetScheme

LEMMA UserinfoRefines ==
  ASSUME url \in Records, LaidOut(url)
  PROVE  /\ UsernameEdit(url, url') => C!SetUsername
         /\ PasswordEdit(url, url') => C!SetPassword
<1>1. ASSUME UsernameEdit(url, url') PROVE C!SetUsername
  <2>1. PICK s \in UserinfoIn : Gives(url, url', PutUsername(Components(url), EncodeUserinfo(s)))
    BY <1>1 DEF UsernameEdit
  <2>2. C!TakesCredentials
    BY <1>1, SameGuards DEF UsernameEdit
  <2>3. Components(url') = [Components(url) EXCEPT !.username = C!EncodeUserinfo(s)]
    BY <2>1, SameEncodings DEF Gives, PutUsername
  <2> QED
    BY <2>2, <2>3 DEF C!SetUsername
<1>2. ASSUME PasswordEdit(url, url') PROVE C!SetPassword
  <2>1. PICK s \in UserinfoIn : Gives(url, url', PutPassword(Components(url), EncodeUserinfo(s)))
    BY <1>2 DEF PasswordEdit
  <2>2. C!TakesCredentials
    BY <1>2, SameGuards DEF PasswordEdit
  <2>3. Components(url') = [Components(url) EXCEPT !.password = C!EncodeUserinfo(s)]
    BY <2>1, SameEncodings DEF Gives, PutPassword
  <2> QED
    BY <2>2, <2>3 DEF C!SetPassword
<1> QED
  BY <1>1, <1>2

LEMMA PortRefines ==
  ASSUME url \in Records, LaidOut(url), PortEdit(url, url')
  PROVE  C!SetPort
<1> DEFINE c == Components(url)
<1>1. Scheme(url) = c.scheme /\ C!NoPort = NoPort /\ \A x : C!DefaultPort(x) = DefaultPort(x)
  BY SameGuards, SameSchemes
<1>2. C!TakesCredentials
  BY SameGuards DEF PortEdit
<1>3. PICK p \in Port \cup {NoPort} \cup UNION {ParsePortSetter(s, DefaultPort(Scheme(url))) : s \in PortIn} :
        Gives(url, url', PutPort(c, IF p = DefaultPort(Scheme(url)) THEN NoPort ELSE p))
  BY DEF PortEdit
<1>4. Components(url') = [c EXCEPT !.port = IF p = C!DefaultPort(c.scheme) THEN C!NoPort ELSE p]
  BY <1>1, <1>3 DEF Gives, PutPort
<1>5. p \in Port \cup {C!NoPort} \cup UNION {ParsePortSetter(s, C!DefaultPort(c.scheme)) : s \in PortIn}
  BY <1>1, <1>3
<1> QED
  BY <1>2, <1>4, <1>5 DEF C!SetPort

LEMMA IpHostRefines ==
  ASSUME url \in Records, LaidOut(url), IpHostEdit(url, url')
  PROVE  C!SetIpHost
<1> DEFINE c == Components(url)
<1>1. PICK h \in IpHost : Gives(url, url', PutHost(c, {h.text}, url.port))
  BY DEF IpHostEdit
<1>2. c.port = url.port /\ ~c.opaque
  BY SameGuards DEF IpHostEdit
<1>3. c.port = c.port /\ PutHost(c, {h.text}, c.port) = [c EXCEPT !.host = {h.text}]
  <2>1. PICK sc, un, pw, ho, po, pa, op, qu, fr :
          c = PartsOf(sc, un, pw, ho, po, pa, op, qu, fr)
    BY ComponentsOf
  <2>2. c.port = po
    BY <2>1, PartsFields DEF FieldsAre
  <2>3. PutHost(c, {h.text}, c.port) = PartsOf(sc, un, pw, {h.text}, po, pa, op, qu, fr)
    BY <2>1, <2>2, HostPut
  <2>4. [PartsOf(sc, un, pw, ho, po, pa, op, qu, fr) EXCEPT !.host = {h.text}]
          = PartsOf(sc, un, pw, {h.text}, po, pa, op, qu, fr)
    BY DEF PartsOf
  <2> QED
    BY <2>1, <2>3, <2>4
<1>4. Components(url') = [c EXCEPT !.host = {h.text}]
  BY <1>1, <1>2, <1>3 DEF Gives
<1> QED
  BY <1>2, <1>4 DEF C!SetIpHost

LEMMA HostRefines ==
  ASSUME url \in Records, LaidOut(url), HostEdit(url, url')
  PROVE  C!SetHost
<1> DEFINE c == Components(url)
<1>1. PICK text \in HostIn : \E r \in HostsOf(url, text) : HostChanged(url, url', r)
  BY DEF HostEdit
<1>2. PICK r \in HostsOf(url, text) : HostChanged(url, url', r)
  BY <1>1
<1>3. PICK p \in {url.port} \cup (IF StartsWith(r.rest, ":")
                                  THEN ParsePortSetter(Tail(r.rest), DefaultPort(Scheme(url))) ELSE {}) :
        /\ r.host.text = <<>> => /\ ~IncludesCredentials(url) /\ url.port = NoPort /\ p = NoPort
                                 /\ Class(url) # "special"
        /\ Gives(url, url', PutHost(c, {r.host.text}, p))
  BY <1>2 DEF HostChanged
<1>4. /\ c.port = url.port /\ ~c.opaque /\ c.scheme = Scheme(url) /\ C!Type = Class(url)
      /\ C!Bare <=> ~IncludesCredentials(url) /\ url.port = NoPort
  BY SameGuards DEF HostEdit
<1>5. r \in C!HostOf(text)
  BY <1>2, <1>4 DEF HostsOf, C!HostOf, NoHostThere
<1>6. p \in {c.port} \cup (IF C!StartsWith(r.rest, ":")
                           THEN ParsePortSetter(Tail(r.rest), C!DefaultPort(c.scheme)) ELSE {})
  BY <1>3, <1>4, SameTexts, SameSchemes
<1>7. Components(url') = [c EXCEPT !.host = {r.host.text}, !.port = p]
  BY <1>3 DEF Gives, PutHost
<1>8. Components(url').port = p
  BY <1>3, PutFields DEF Gives, FieldsAre
<1>9. r.host.text = <<>> => C!Bare /\ Components(url').port = C!NoPort /\ C!Type # "special"
  BY <1>3, <1>4, <1>8, SameSchemes
<1> HIDE DEF c
<1> QED
  BY <1>4, <1>5, <1>6, <1>7, <1>9 DEF C!SetHost, c

LEMMA PathRefines ==
  ASSUME url \in Records, LaidOut(url), PathEdit(url, url')
  PROVE  C!SetPath
<1> DEFINE c == Components(url)
<1>1. PICK x \in WithSlash(PathIn) : Gives(url, url', PutPath(c, PathFor(url, x)))
  BY DEF PathEdit
<1>2. x \in PathIn \cup {<<"/">> \o s : s \in PathIn}
  BY <1>1 DEF WithSlash
<1>3. C!PathText(x) = PathFor(url, x)
  BY SameGuards, SameTexts DEF C!PathText, PathFor
<1>4. Components(url') = [c EXCEPT !.path = C!PathText(x)]
  BY <1>1, <1>3 DEF Gives, PutPath
<1> QED
  BY <1>2, <1>4 DEF C!SetPath

LEMMA SameTrim == \A p : C!Trimmed(p) = Trim(p)
<1>1. \A x : C!StripSpaces(x) = StripEnd(x)
  BY SameTexts
<1> QED
  BY <1>1 DEF C!Trimmed, Trim, PutPath

LEMMA QueryRefines ==
  ASSUME QueryEdit(url, url')
  PROVE  C!SetQuery
<1> DEFINE c == Components(url)
<1>1. PICK q \in QueryValues : QueryChanged(url, url', q)
  BY DEF QueryEdit
<1>2. q \in C!Option({C!EncodeQuery(C!Visible(s)) : s \in QueryIn \cup {Tail(x) : x \in QueryIn \ {<<>>}}})
  BY <1>1, SameTexts, SameEncodings DEF QueryValues, WithTails
<1>3. Components(url') = IF q = {} THEN C!Trimmed([c EXCEPT !.query = q]) ELSE [c EXCEPT !.query = q]
  BY <1>1, SameTrim DEF QueryChanged, Gives, PutQuery
<1> QED
  BY <1>2, <1>3 DEF C!SetQuery

LEMMA FragmentRefines ==
  ASSUME FragmentEdit(url, url')
  PROVE  C!SetFragment
<1> DEFINE c == Components(url)
<1>1. PICK f \in FragmentValues : FragmentChanged(url, url', f)
  BY DEF FragmentEdit
<1>2. f \in C!Option({C!EncodeFragment(C!Visible(s)) :
                        s \in FragmentIn \cup {Tail(x) : x \in FragmentIn \ {<<>>}}})
  BY <1>1, SameTexts, SameEncodings DEF FragmentValues, WithTails
<1>3. Components(url') = IF f = {} THEN C!Trimmed([c EXCEPT !.fragment = f])
                         ELSE [c EXCEPT !.fragment = f]
  BY <1>1, SameTrim DEF FragmentChanged, Gives, PutFragment
<1> QED
  BY <1>2, <1>3 DEF C!SetFragment

LEMMA InitRefines == Init => C!Init
<1> SUFFICES ASSUME NEW text \in HrefIn, url \in Parse(text)
             PROVE  C!Init
  BY DEF Init
<1>1. url \in UNION {Parse(x) : x \in HrefIn}
  OBVIOUS
<1>2. Components(url) \in ParsedHrefs
  BY <1>1 DEF ParsedHrefs
<1> QED
  BY <1>2 DEF C!Init

LEMMA NextRefines ==
  ASSUME CInv, [Next]_vars, Fits(url)'
  PROVE  [C!Next]_(Components(url))
<1>1. CASE UNCHANGED vars
  BY <1>1 DEF vars
<1>2. CASE Next
  <2>1. outcome # "panic" /\ url \in Records /\ LaidOut(url) /\ PortBelongs(url)
    BY <1>2, CallsNeedNoPanic DEF CInv, IInv, TypeOK, Layout, PortAndCredentials
  <2>2. PICK r : Call(r) /\ Answers(url, r)
    BY <1>2, <2>1, NextAnswers
  <2>3. url' = r.url /\ Fits(r.url)
    BY <2>2 DEF Call
  <2>4. url' = url \/ ComponentEdit(url, url')
    BY <2>1, <2>2, <2>3 DEF Answers
  <2>5. CASE url' = url
    BY <2>5
  <2>6. CASE ComponentEdit(url, url')
    <3>1. C!Replace \/ C!SetScheme \/ C!SetUsername \/ C!SetPassword \/ C!SetPort \/ C!SetHost
            \/ C!SetIpHost \/ C!SetPath \/ C!SetQuery \/ C!SetFragment
      BY <2>1, <2>6, HrefRefines, SchemeRefines, UserinfoRefines, PortRefines, IpHostRefines,
         HostRefines, PathRefines, QueryRefines, FragmentRefines DEF ComponentEdit
    <3> QED
      BY <3>1 DEF C!Next
  <2> QED
    BY <2>4, <2>5, <2>6
<1> QED
  BY <1>1, <1>2

(* Cutting and moving text, the setters do to the components a caller sees *)
(* what the record of separate components does: each changes its own, and  *)
(* a refused one changes nothing.                                          *)
THEOREM RecordImplementsComponents == Spec /\ []Fits(url) => ImplementsComponents
<1>1. Init => CInv /\ C!Init
  BY InitCInv, InitRefines
<1>2. CInv /\ [Next]_vars /\ Fits(url)' => CInv'
  BY NextCInv
<1>3. CInv /\ [Next]_vars /\ Fits(url)' => [C!Next]_(Components(url))
  BY NextRefines
<1> QED
  BY <1>1, <1>2, <1>3, PTL DEF Spec, ImplementsComponents, C!Spec
=============================================================================

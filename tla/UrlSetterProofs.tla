-------------------------- MODULE UrlSetterProofs --------------------------
(***************************************************************************)
(* Every setter keeps the layout of the record: for every set of inputs,   *)
(* and every parser that keeps the assumptions of UrlLayout, as long as no *)
(* href comes near the limit of u32.                                       *)
(***************************************************************************)
EXTENDS UrlRecordProofs, FiniteSetTheorems

(* Room for the longest port, which set_scheme rewrites before it drops it. *)
Fits(u) == Len(u.ser) + 6 < U32Max

(* What a call may return.                                                 *)
Sound(r) ==
  /\ r.outcome \in {"ok", "err", "panic"}
  /\ Fits(r.url) => /\ r.url \in Records
                    /\ r.outcome # "panic" => LaidOut(r.url)
-----------------------------------------------------------------------------
(* Small facts.                                                            *)

LEMMA PortSuffixFacts ==
  ASSUME NEW p \in 0..NoPort
  PROVE  /\ PortSuffix(p) \in Text /\ Len(PortSuffix(p)) \in 0..6
         /\ ~TokenAt(PortSuffix(p), 0, "@")
<1>1. p \in Nat
  OBVIOUS
<1>2. CASE p = NoPort
  <2>1. PortSuffix(p) = <<>>
    BY <1>2 DEF PortSuffix
  <2> QED
    BY <2>1 DEF Text, TokenAt
<1>3. CASE p # NoPort
  <2>1. PICK d \in Text : d = PortText(p)
    BY <1>1, PortTextFacts
  <2>2. Len(d) \in 1..5
    BY <1>1, <2>1, PortTextFacts
  <2>3. <<":">> \in Text /\ Len(<<":">>) = 1 /\ <<":">>[1] = ":"
    BY TokensAssumption DEF Text
  <2>4. <<":">> \o d \in Text /\ Len(<<":">> \o d) = 1 + Len(d) /\ (<<":">> \o d)[1] = ":"
    BY <2>1, <2>2, <2>3, JoinFacts
  <2>5. PortSuffix(p) = <<":">> \o d
    BY <1>3, <2>1 DEF PortSuffix
  <2> QED
    BY <2>2, <2>4, <2>5 DEF TokenAt
<1> QED
  BY <1>2, <1>3

LEMMA EmptySlice ==
  ASSUME NEW s \in Text, NEW a \in Nat
  PROVE  Slice(s, a, a) = <<>>
BY DEF Slice, Text

(* A host that is not empty stands behind "//".                            *)
LEMMA HostMeansAuthority ==
  ASSUME NEW u \in Records, LaidOut(u), ~HostIsNullOrEmpty(u)
  PROVE  WithAuthority(u) /\ u.host_start < u.host_end
<1>1. u.host_start \in Nat /\ u.host_end \in Nat /\ u.ser \in Text
  BY RecordShape DEF Offset
<1>2. u.host_start # u.host_end
  BY <1>1, EmptySlice DEF HostIsNullOrEmpty, Hostname, HostText
<1>3. ~WithoutAuthority(u)
  BY <1>2 DEF WithoutAuthority
<1>4. WithAuthority(u)
  BY <1>3 DEF LaidOut
<1> QED
  BY <1>1, <1>2, <1>4 DEF WithAuthority

(* The fields of a record.                                                 *)
LEMMA Fields ==
  ASSUME NEW u \in Records
  PROVE  /\ u = Rec(u.ser, u.scheme_end, u.username_end, u.host_start, u.host_end, u.port,
                    u.path_start, u.query_start, u.fragment_start, u.flags)
         /\ u.ser \in Text /\ Len(u.ser) \in Nat
         /\ u.port \in 0..NoPort /\ u.flags \in SUBSET FlagNames
         /\ u.scheme_end \in Nat /\ u.username_end \in Nat /\ u.host_start \in Nat
         /\ u.host_end \in Nat /\ u.path_start \in Nat
         /\ u.scheme_end \in Offset /\ u.username_end \in Offset /\ u.host_start \in Offset
         /\ u.host_end \in Offset /\ u.path_start \in Offset
         /\ u.query_start \in Offset /\ u.fragment_start \in Offset
BY RecordShape, U32MaxAssumption, LenProperties DEF Offset, Text

(* The offsets behind the host start, moved.                               *)
LEMMA MovedRec ==
  ASSUME NEW s, NEW se, NEW ue, NEW hs, NEW he, NEW pt, NEW ps, NEW qs, NEW fs, NEW fl,
         NEW old, NEW new
  PROVE  MoveHost(Rec(s, se, ue, hs, he, pt, ps, qs, fs, fl), old, new)
           = Rec(s, se, ue, Adjust(hs, old, new), Adjust(he, old, new), pt,
                 Adjust(ps, old, new), AdjustOpt(qs, old, new), AdjustOpt(fs, old, new), fl)
<1>1. PICK x1, x2, x3, x4, x5 :
        /\ x1 = Adjust(hs, old, new) /\ x2 = Adjust(he, old, new) /\ x3 = Adjust(ps, old, new)
        /\ x4 = AdjustOpt(qs, old, new) /\ x5 = AdjustOpt(fs, old, new)
  OBVIOUS
<1>2. PICK u : u = Rec(s, se, ue, hs, he, pt, ps, qs, fs, fl)
  OBVIOUS
<1>3. /\ u.host_start = hs /\ u.host_end = he /\ u.path_start = ps
      /\ u.query_start = qs /\ u.fragment_start = fs
  BY <1>2 DEF Rec
<1>4. PICK v : v = [u EXCEPT !.host_start = x1, !.host_end = x2]
  OBVIOUS
<1>5. v = Rec(s, se, ue, x1, x2, pt, ps, qs, fs, fl)
  <2>1. PICK v1 : v1 = [u EXCEPT !.host_start = x1]
    OBVIOUS
  <2>2. v1 = Rec(s, se, ue, x1, he, pt, ps, qs, fs, fl)
    BY <1>2, <2>1 DEF Rec
  <2>3. v = [v1 EXCEPT !.host_end = x2]
    BY <1>4, <2>1
  <2> QED
    BY <2>2, <2>3 DEF Rec
<1>6. PICK w : w = [v EXCEPT !.path_start = x3]
  OBVIOUS
<1>7. w = Rec(s, se, ue, x1, x2, pt, x3, qs, fs, fl)
  BY <1>5, <1>6 DEF Rec
<1>8. [w EXCEPT !.query_start = x4, !.fragment_start = x5]
        = Rec(s, se, ue, x1, x2, pt, x3, x4, x5, fl)
  <2>1. PICK w1 : w1 = [w EXCEPT !.query_start = x4]
    OBVIOUS
  <2>2. w1 = Rec(s, se, ue, x1, x2, pt, x3, x4, fs, fl)
    BY <1>7, <2>1 DEF Rec
  <2>3. [w EXCEPT !.query_start = x4, !.fragment_start = x5] = [w1 EXCEPT !.fragment_start = x5]
    BY <2>1
  <2> QED
    BY <2>2, <2>3 DEF Rec
<1>9. MoveHost(u, old, new) = MovePath(v, old, new)
  BY <1>1, <1>3, <1>4 DEF MoveHost
<1>10. v.path_start = ps /\ w.query_start = qs /\ w.fragment_start = fs
  BY <1>5, <1>7 DEF Rec
<1>11. MovePath(v, old, new) = MoveQueryAndFragment(w, old, new)
  BY <1>1, <1>6, <1>10 DEF MovePath
<1>12. MoveQueryAndFragment(w, old, new) = [w EXCEPT !.query_start = x4, !.fragment_start = x5]
  BY <1>1, <1>10 DEF MoveQueryAndFragment
<1> QED
  BY <1>1, <1>2, <1>8, <1>9, <1>11, <1>12

(* The fields of a record with an authority.                               *)
Hosted(s, se, ue, hs, he, pt, ps, qs, fs, fl) ==
  /\ s \in Text /\ se \in Nat /\ ue \in Nat /\ hs \in Nat /\ he \in Nat
  /\ pt \in 0..NoPort /\ ps \in Offset /\ qs \in Offset /\ fs \in Offset
  /\ fl \in SUBSET FlagNames /\ "OPAQUE_PATH" \notin fl
  /\ se > 0 /\ TokenAt(s, se, ":")
  /\ AuthorityAt(s, se, ue, hs, he, pt, ps)
  /\ Tails(Part(s, ps, qs, fs)) /\ Rooted(Part(s, ps, qs, fs))

LEMMA HostedFields ==
  ASSUME NEW u \in Records, WithAuthority(u), LaidOut(u)
  PROVE  Hosted(u.ser, u.scheme_end, u.username_end, u.host_start, u.host_end, u.port,
                u.path_start, u.query_start, u.fragment_start, u.flags)
<1> DEFINE w == Rec(u.ser, u.scheme_end, u.username_end, u.host_start, u.host_end, u.port,
                    u.path_start, u.query_start, u.fragment_start, u.flags)
<1>1. /\ u.scheme_end > 0 /\ TokenAt(u.ser, u.scheme_end, ":")
      /\ "OPAQUE_PATH" \notin u.flags /\ Rooted(u) /\ Tails(u)
  BY DEF LaidOut, WithAuthority, CannotBeABase
<1>2. AuthorityAt(u.ser, u.scheme_end, u.username_end, u.host_start, u.host_end, u.port,
                  u.path_start)
  BY DEF WithAuthority, HasAuthority, Userinfo, AuthorityAt, HostAt, UserinfoAt
<1>3. Tails(w) /\ Rooted(w)
  BY <1>1, Fields
<1>4. LET x == Part(u.ser, u.path_start, u.query_start, u.fragment_start)
      IN Tails(x) /\ Rooted(x)
  BY <1>3 DEF Tails, Rooted, PathEndOf, QueryEndOf, Rec, Part
<1> QED
  BY <1>1, <1>2, <1>4, Fields DEF Hosted

LEMMA HostedBounds ==
  ASSUME NEW s, NEW se, NEW ue, NEW hs, NEW he, NEW pt, NEW ps, NEW qs, NEW fs, NEW fl,
         Hosted(s, se, ue, hs, he, pt, ps, qs, fs, fl)
  PROVE  /\ se + 3 <= ue /\ ue <= hs /\ hs <= he /\ he <= ps /\ ps <= Len(s)
         /\ Len(s) \in Nat /\ ps \in Nat /\ ps <= U32Max
<1>1. Len(PortSuffix(pt)) \in Nat /\ U32Max \in Nat /\ Len(s) \in Nat
  BY PortSuffixFacts, U32MaxAssumption, LenProperties DEF Hosted, Text
<1>2. /\ se \in Nat /\ ue \in Nat /\ hs \in Nat /\ he \in Nat /\ ps \in Nat /\ ps <= U32Max
      /\ qs \in Nat /\ fs \in Nat
  BY <1>1 DEF Hosted, Offset
<1>3. se + 3 <= ue /\ ue <= hs /\ hs <= he /\ he <= ps
  BY <1>1, <1>2 DEF Hosted, AuthorityAt, UserinfoAt, HostAt
<1>4. ps <= Len(s)
  BY <1>1, <1>2 DEF Hosted, Tails, Part, PathEndOf, QueryEndOf
<1> QED
  BY <1>1, <1>2, <1>3, <1>4

LEMMA HostedRecord ==
  ASSUME NEW s, NEW se, NEW ue, NEW hs, NEW he, NEW pt, NEW ps, NEW qs, NEW fs, NEW fl,
         Hosted(s, se, ue, hs, he, pt, ps, qs, fs, fl)
  PROVE  LET v == Rec(s, se, ue, hs, he, pt, ps, qs, fs, fl)
         IN v \in Records /\ LaidOut(v)
<1>1. /\ se \in Nat /\ ue \in Nat /\ hs \in Nat /\ he \in Nat /\ ps \in Nat
      /\ se <= ue /\ ue <= hs /\ hs <= he /\ he <= ps /\ ps <= U32Max
  BY HostedBounds DEF Hosted
<1>2. se \in Offset /\ ue \in Offset /\ hs \in Offset /\ he \in Offset
  BY <1>1, U32MaxAssumption DEF Offset
<1>3. Rec(s, se, ue, hs, he, pt, ps, qs, fs, fl) \in Records
  BY <1>2, RecordOf DEF Hosted
<1> QED
  BY <1>3, LaidOutFields DEF Hosted

(* Host and port move with the text behind them.                           *)
LEMMA HostMoves ==
  ASSUME NEW s \in Text, NEW h \in Text, NEW b \in Nat, NEW hs \in Nat, NEW he \in Nat,
         NEW pt \in 0..NoPort, NEW ps \in Nat,
         b <= hs, ps <= Len(s), HostAt(s, hs, he, pt, ps)
  PROVE  HostAt(h \o From(s, b), Len(h) + (hs - b), Len(h) + (he - b), pt, Len(h) + (ps - b))
<1>1. PICK l \in Nat, m \in Nat, n \in Nat : l = Len(PortSuffix(pt)) /\ m = Len(h) /\ n = Len(s)
  BY PortSuffixFacts, LenProperties DEF Text
<1>2. hs <= he /\ ps = he + l /\ ps <= n /\ PortSuffix(pt) \in Text
  BY <1>1, PortSuffixFacts DEF HostAt
<1>3. PICK c \in Nat, d \in Nat : hs = b + c /\ he = b + d
  <2>1. hs - b \in Nat /\ he - b \in Nat /\ hs = b + (hs - b) /\ he = b + (he - b)
    BY <1>2
  <2> QED
    BY <2>1
<1>4. b <= n /\ b + d <= n /\ b + c <= n
  BY <1>2, <1>3
<1>5. PICK r \in Text : r = h \o From(s, b)
  BY <1>1, <1>4, CutTokens
<1>6. /\ \A t : \A k \in Nat : TokenAt(r, m + k, t) <=> TokenAt(s, b + k, t)
      /\ \A k \in Nat, w \in Text : b + k <= n => (TextAt(r, m + k, w) <=> TextAt(s, b + k, w))
  BY <1>1, <1>4, <1>5, CutTokens
<1>7. ~TokenAt(r, m + c, "@") /\ ~TokenAt(r, m + c, ":")
  BY <1>3, <1>6 DEF HostAt
<1>8. TextAt(r, m + d, PortSuffix(pt))
  BY <1>2, <1>3, <1>4, <1>6 DEF HostAt
<1>9. m + (hs - b) = m + c /\ m + (he - b) = m + d /\ m + (ps - b) = (m + d) + l /\ m + c <= m + d
  BY <1>2, <1>3
<1> QED
  BY <1>1, <1>5, <1>7, <1>8, <1>9 DEF HostAt

(* The credential flags are no part of the layout.                         *)
LEMMA FlagsSynced ==
  ASSUME NEW v \in Records, LaidOut(v)
  PROVE  LET w == SyncCredentialFlags(v)
         IN w \in Records /\ LaidOut(w) /\ w.ser = v.ser
<1> DEFINE fl == (v.flags \ {"HAS_CREDENTIALS", "HAS_PASSWORD"})
              \cup (IF IncludesCredentials(v) THEN {"HAS_CREDENTIALS"} ELSE {})
              \cup (IF Password(v) # <<>> THEN {"HAS_PASSWORD"} ELSE {})
           w == SyncCredentialFlags(v)
<1>1. v.flags \in SUBSET FlagNames
  BY RecordShape
<1>2. /\ fl \in SUBSET FlagNames
      /\ "OPAQUE_PATH" \in fl <=> "OPAQUE_PATH" \in v.flags
      /\ "HAS_EMPTY_HOST" \in fl <=> "HAS_EMPTY_HOST" \in v.flags
  BY <1>1 DEF FlagNames
<1>3. w = [v EXCEPT !.flags = fl]
  BY DEF SyncCredentialFlags
<1> HIDE DEF fl, w
<1>4. w \in Records
  BY <1>2, <1>3 DEF Records
<1>5. /\ w.ser = v.ser /\ w.scheme_end = v.scheme_end /\ w.username_end = v.username_end
      /\ w.host_start = v.host_start /\ w.host_end = v.host_end /\ w.port = v.port
      /\ w.path_start = v.path_start /\ w.query_start = v.query_start
      /\ w.fragment_start = v.fragment_start /\ w.flags = fl
  BY <1>3 DEF Records
<1>6. w = Rec(v.ser, v.scheme_end, v.username_end, v.host_start, v.host_end, v.port,
              v.path_start, v.query_start, v.fragment_start, fl)
  BY <1>4, <1>5, FieldsOf
<1>7. LaidOut(Rec(v.ser, v.scheme_end, v.username_end, v.host_start, v.host_end, v.port,
              v.path_start, v.query_start, v.fragment_start, v.flags))
  BY RecordShape
<1>8. LaidOut(w)
  BY <1>2, <1>6, <1>7, LaidOutFields DEF NoAuthorityAt
<1> QED
  BY <1>4, <1>5, <1>8 DEF w
-----------------------------------------------------------------------------
(* Components.                                                             *)

PasswordAt(s, ue, hs) == IF TokenAt(s, ue, ":") THEN Slice(s, ue + 1, hs - 1) ELSE <<>>

PartsOf(scheme, username, password, host, port, path, opaque, query, fragment) ==
  [scheme |-> scheme, username |-> username, password |-> password, host |-> host,
   port |-> port, path |-> path, opaque |-> opaque, query |-> query, fragment |-> fragment]

(* What a setter replaces.                                                 *)
PutScheme(c, x, y) == [c EXCEPT !.scheme = x, !.port = y]
PutHost(c, x, y)  == [c EXCEPT !.host = x, !.port = y]
PutUsername(c, x) == [c EXCEPT !.username = x]
PutPassword(c, x) == [c EXCEPT !.password = x]
PutPort(c, x)     == [c EXCEPT !.port = x]
PutPath(c, x)     == [c EXCEPT !.path = x]
PutQuery(c, x)    == [c EXCEPT !.query = x]
PutFragment(c, x) == [c EXCEPT !.fragment = x]

LEMMA SchemePut ==
  ASSUME NEW sc, NEW un, NEW pw, NEW ho, NEW po, NEW pa, NEW op, NEW qu, NEW fr, NEW x, NEW y
  PROVE  PutScheme(PartsOf(sc, un, pw, ho, po, pa, op, qu, fr), x, y)
           = PartsOf(x, un, pw, ho, y, pa, op, qu, fr)
<1> DEFINE c == PartsOf(sc, un, pw, ho, po, pa, op, qu, fr)
<1>1. [c EXCEPT !.scheme = x] = PartsOf(x, un, pw, ho, po, pa, op, qu, fr)
  BY DEF PartsOf
<1>2. [PartsOf(x, un, pw, ho, po, pa, op, qu, fr) EXCEPT !.port = y]
        = PartsOf(x, un, pw, ho, y, pa, op, qu, fr)
  BY DEF PartsOf
<1> HIDE DEF c
<1>3. [c EXCEPT !.scheme = x, !.port = y] = [[c EXCEPT !.scheme = x] EXCEPT !.port = y]
  OBVIOUS
<1>4. [c EXCEPT !.scheme = x, !.port = y] = PartsOf(x, un, pw, ho, y, pa, op, qu, fr)
  BY <1>1, <1>2, <1>3
<1> QED
  BY <1>4 DEF c, PutScheme

LEMMA HostPut ==
  ASSUME NEW sc, NEW un, NEW pw, NEW ho, NEW po, NEW pa, NEW op, NEW qu, NEW fr, NEW x, NEW y
  PROVE  PutHost(PartsOf(sc, un, pw, ho, po, pa, op, qu, fr), x, y)
           = PartsOf(sc, un, pw, x, y, pa, op, qu, fr)
<1> DEFINE c == PartsOf(sc, un, pw, ho, po, pa, op, qu, fr)
<1>1. [c EXCEPT !.host = x] = PartsOf(sc, un, pw, x, po, pa, op, qu, fr)
  BY DEF PartsOf
<1>2. [PartsOf(sc, un, pw, x, po, pa, op, qu, fr) EXCEPT !.port = y]
        = PartsOf(sc, un, pw, x, y, pa, op, qu, fr)
  BY DEF PartsOf
<1> HIDE DEF c
<1>3. [c EXCEPT !.host = x, !.port = y] = [[c EXCEPT !.host = x] EXCEPT !.port = y]
  OBVIOUS
<1>4. [c EXCEPT !.host = x, !.port = y] = PartsOf(sc, un, pw, x, y, pa, op, qu, fr)
  BY <1>1, <1>2, <1>3
<1> QED
  BY <1>4 DEF c, PutHost

LEMMA UsernamePut ==
  ASSUME NEW sc, NEW un, NEW pw, NEW ho, NEW po, NEW pa, NEW op, NEW qu, NEW fr, NEW x
  PROVE  PutUsername(PartsOf(sc, un, pw, ho, po, pa, op, qu, fr), x) = PartsOf(sc, x, pw, ho, po, pa, op, qu, fr)
BY DEF PutUsername, PartsOf

LEMMA PasswordPut ==
  ASSUME NEW sc, NEW un, NEW pw, NEW ho, NEW po, NEW pa, NEW op, NEW qu, NEW fr, NEW x
  PROVE  PutPassword(PartsOf(sc, un, pw, ho, po, pa, op, qu, fr), x) = PartsOf(sc, un, x, ho, po, pa, op, qu, fr)
BY DEF PutPassword, PartsOf

LEMMA PortPut ==
  ASSUME NEW sc, NEW un, NEW pw, NEW ho, NEW po, NEW pa, NEW op, NEW qu, NEW fr, NEW x
  PROVE  PutPort(PartsOf(sc, un, pw, ho, po, pa, op, qu, fr), x) = PartsOf(sc, un, pw, ho, x, pa, op, qu, fr)
BY DEF PutPort, PartsOf

LEMMA PathPut ==
  ASSUME NEW sc, NEW un, NEW pw, NEW ho, NEW po, NEW pa, NEW op, NEW qu, NEW fr, NEW x
  PROVE  PutPath(PartsOf(sc, un, pw, ho, po, pa, op, qu, fr), x) = PartsOf(sc, un, pw, ho, po, x, op, qu, fr)
BY DEF PutPath, PartsOf

LEMMA QueryPut ==
  ASSUME NEW sc, NEW un, NEW pw, NEW ho, NEW po, NEW pa, NEW op, NEW qu, NEW fr, NEW x
  PROVE  PutQuery(PartsOf(sc, un, pw, ho, po, pa, op, qu, fr), x) = PartsOf(sc, un, pw, ho, po, pa, op, x, fr)
BY DEF PutQuery, PartsOf

LEMMA FragmentPut ==
  ASSUME NEW sc, NEW un, NEW pw, NEW ho, NEW po, NEW pa, NEW op, NEW qu, NEW fr, NEW x
  PROVE  PutFragment(PartsOf(sc, un, pw, ho, po, pa, op, qu, fr), x) = PartsOf(sc, un, pw, ho, po, pa, op, qu, x)
BY DEF PutFragment, PartsOf

LEMMA ComponentsOf ==
  ASSUME NEW u
  PROVE  Components(u)
           = PartsOf(Scheme(u), Username(u), Password(u),
                     IF u.host_start > u.scheme_end + 1 THEN {HostText(u)} ELSE {}, u.port,
                     Path(u), CannotBeABase(u), Query(u), Fragment(u))
BY DEF Components, PartsOf

(* Named, for the provers take the value FALSE for a formula.              *)
NotOpaque == FALSE

HostedParts(s, se, ue, hs, he, pt, tail) ==
  PartsOf(Upto(s, se), Slice(s, se + 3, ue), PasswordAt(s, ue, hs), {Slice(s, hs, he)}, pt,
          Path(tail), NotOpaque, Query(tail), Fragment(tail))

LEMMA HostedComponents ==
  ASSUME NEW s, NEW se, NEW ue, NEW hs, NEW he, NEW pt, NEW ps, NEW qs, NEW fs, NEW fl,
         Hosted(s, se, ue, hs, he, pt, ps, qs, fs, fl)
  PROVE  Components(Rec(s, se, ue, hs, he, pt, ps, qs, fs, fl))
           = HostedParts(s, se, ue, hs, he, pt, Part(s, ps, qs, fs))
<1> DEFINE u == Rec(s, se, ue, hs, he, pt, ps, qs, fs, fl)
           w == Part(s, ps, qs, fs)
<1>1. /\ s \in Text /\ se \in Nat /\ ue \in Nat /\ hs \in Nat /\ se + 3 <= ue /\ ue <= hs
      /\ TokenAt(s, se + 1, "/") /\ TokenAt(s, se + 2, "/") /\ "OPAQUE_PATH" \notin fl
  BY HostedBounds DEF Hosted, AuthorityAt
<1>2. Path(u) = Path(w) /\ Query(u) = Query(w) /\ Fragment(u) = Fragment(w)
  BY DEF Path, Query, Fragment, PathEndOf, QueryEndOf, Rec, Part
<1>3. HasAuthority(u)
  BY <1>1 DEF HasAuthority, Rec
<1>4. Username(u) = Slice(s, se + 3, ue)
  <2>1. ue = se + 3 => Slice(s, se + 3, ue) = <<>>
    BY <1>1, EmptySlice
  <2> QED
    BY <1>1, <1>3, <2>1 DEF Username, Rec
<1>5. Password(u) = PasswordAt(s, ue, hs)
  BY <1>3 DEF Password, HasPasswordSlot, PasswordAt, Rec
<1>6. /\ Scheme(u) = Upto(s, se) /\ HostText(u) = Slice(s, hs, he) /\ u.port = pt
      /\ CannotBeABase(u) = NotOpaque /\ u.host_start > u.scheme_end + 1
  BY <1>1 DEF Scheme, HostText, CannotBeABase, Rec, NotOpaque
<1> HIDE DEF u, w
<1>7. Components(u) = PartsOf(Upto(s, se), Slice(s, se + 3, ue), PasswordAt(s, ue, hs),
                              {Slice(s, hs, he)}, pt, Path(w), NotOpaque, Query(w), Fragment(w))
  BY <1>2, <1>4, <1>5, <1>6, ComponentsOf
<1> QED
  BY <1>7 DEF HostedParts, u, w

(* The components of a record without an authority.                        *)
Opaque(fl) == "OPAQUE_PATH" \in fl

BareParts(s, se, fl, tail) ==
  PartsOf(Upto(s, se), <<>>, <<>>, {}, NoPort, Path(tail), Opaque(fl), Query(tail), Fragment(tail))

LEMMA BareComponents ==
  ASSUME NEW s \in Text, NEW se \in Nat, NEW ue, NEW hs, NEW he, NEW pt, NEW ps, NEW qs, NEW fs,
         NEW fl, NoAuthorityAt(s, se, ue, hs, he, pt, ps, qs, fs, fl)
  PROVE  Components(Rec(s, se, ue, hs, he, pt, ps, qs, fs, fl))
           = BareParts(s, se, fl, Part(s, ps, qs, fs))
<1> DEFINE u == Rec(s, se, ue, hs, he, pt, ps, qs, fs, fl)
           w == Part(s, ps, qs, fs)
<1>1. ue = se + 1 /\ hs = se + 1 /\ he = se + 1 /\ pt = NoPort
  BY DEF NoAuthorityAt
<1>2. Path(u) = Path(w) /\ Query(u) = Query(w) /\ Fragment(u) = Fragment(w)
  BY DEF Path, Query, Fragment, PathEndOf, QueryEndOf, Rec, Part
<1>3. Username(u) = <<>>
  BY <1>1 DEF Username, Rec
<1>4. Password(u) = <<>>
  BY <1>1 DEF Password, HasPasswordSlot, HasAuthority, TokenAt, Rec
<1>5. /\ Scheme(u) = Upto(s, se) /\ u.port = NoPort
      /\ ~(u.host_start > u.scheme_end + 1)
  BY <1>1 DEF Scheme, Rec
<1>6. CannotBeABase(u) = Opaque(fl)
  BY DEF CannotBeABase, Opaque, Rec
<1> HIDE DEF u, w
<1>7. Components(u) = PartsOf(Upto(s, se), <<>>, <<>>, {}, NoPort, Path(w), CannotBeABase(u),
                              Query(w), Fragment(w))
  BY <1>2, <1>3, <1>4, <1>5, ComponentsOf
<1> QED
  BY <1>6, <1>7 DEF BareParts, u, w

(* What a new username or password leaves alone.                           *)
LEMMA CredentialPuts ==
  ASSUME NEW s, NEW se, NEW ue, NEW hs, NEW he, NEW pt, NEW ps, NEW qs, NEW fs, NEW fl,
         Hosted(s, se, ue, hs, he, pt, ps, qs, fs, fl), NEW x
  PROVE  LET c == Components(Rec(s, se, ue, hs, he, pt, ps, qs, fs, fl))
         IN /\ PutPassword(PutUsername(c, x), PasswordAt(s, ue, hs)) = PutUsername(c, x)
            /\ PutPassword(PutUsername(c, Slice(s, se + 3, ue)), x) = PutPassword(c, x)
            /\ PutUsername(c, x).scheme = c.scheme /\ PutUsername(c, x).host = c.host
            /\ PutPassword(c, x).scheme = c.scheme /\ PutPassword(c, x).host = c.host
<1> DEFINE c == Components(Rec(s, se, ue, hs, he, pt, ps, qs, fs, fl))
           w == Part(s, ps, qs, fs)
<1>1. c = PartsOf(Upto(s, se), Slice(s, se + 3, ue), PasswordAt(s, ue, hs), {Slice(s, hs, he)}, pt,
                  Path(w), NotOpaque, Query(w), Fragment(w))
  BY HostedComponents DEF HostedParts
<1> HIDE DEF c, w
<1>2. PICK sc, un, pw, ho, pa, op, qu, fr :
        /\ c = PartsOf(sc, un, pw, ho, pt, pa, op, qu, fr)
        /\ un = Slice(s, se + 3, ue) /\ pw = PasswordAt(s, ue, hs)
  BY <1>1
<1>3. /\ PutUsername(c, x) = PartsOf(sc, x, pw, ho, pt, pa, op, qu, fr)
      /\ PutUsername(c, un) = c
      /\ PutPassword(c, x) = PartsOf(sc, un, x, ho, pt, pa, op, qu, fr)
      /\ PutPassword(PartsOf(sc, x, pw, ho, pt, pa, op, qu, fr), pw)
           = PartsOf(sc, x, pw, ho, pt, pa, op, qu, fr)
  BY <1>2, UsernamePut, PasswordPut
<1>4. /\ c.scheme = sc /\ c.host = ho
      /\ PutUsername(c, x).scheme = sc /\ PutUsername(c, x).host = ho
      /\ PutPassword(c, x).scheme = sc /\ PutPassword(c, x).host = ho
  BY <1>2, <1>3 DEF PartsOf
<1> QED
  BY <1>2, <1>3, <1>4 DEF c

(* The flags that cache what the components say.                           *)
FlagsFit(fl, c) ==
  /\ "SPECIAL" \in fl <=> IsSpecial(c.scheme)
  /\ "HAS_CREDENTIALS" \in fl <=> c.username # <<>> \/ c.password # <<>>
  /\ "HAS_PASSWORD" \in fl <=> c.password # <<>>
  /\ fl \cap HostFlagNames # {} => ("HAS_EMPTY_HOST" \in fl <=> c.host \in {{}, {<<>>}})

(* What the setters ask of a record, asked of its components.              *)
LEMMA ComponentTests ==
  ASSUME NEW u \in Records, LaidOut(u)
  PROVE  LET c == Components(u)
         IN /\ HostIsNullOrEmpty(u) <=> c.host \in {{}, {<<>>}}
            /\ IncludesCredentials(u) <=> c.username # <<>> \/ c.password # <<>>
            /\ FlagsMatch(u) <=> FlagsFit(u.flags, c)
            /\ c.scheme = Scheme(u) /\ c.port = u.port /\ c.opaque = CannotBeABase(u)
            /\ c.username = Username(u) /\ c.password = Password(u)
            /\ c.path = Path(u) /\ c.query = Query(u) /\ c.fragment = Fragment(u)
<1> DEFINE c == Components(u)
<1>1. /\ u.ser \in Text /\ u.scheme_end \in Nat /\ u.host_start \in Nat /\ u.host_end \in Nat
  BY Fields
<1>2. c.host \in {{}, {<<>>}} <=> HostText(u) = <<>>
  <2>1. CASE WithAuthority(u)
    <3>1. Hosted(u.ser, u.scheme_end, u.username_end, u.host_start, u.host_end, u.port,
                 u.path_start, u.query_start, u.fragment_start, u.flags)
      BY <2>1, HostedFields
    <3>2. u.scheme_end + 3 <= u.username_end /\ u.username_end <= u.host_start
      BY <3>1, HostedBounds
    <3>3. u.host_start > u.scheme_end + 1
      BY <1>1, <3>2, Fields
    <3> QED
      BY <3>3 DEF Components
  <2>2. CASE WithoutAuthority(u)
    <3>1. HostText(u) = <<>> /\ u.host_start = u.scheme_end + 1
      BY <1>1, <2>2, EmptySlice DEF WithoutAuthority, HostText
    <3> QED
      BY <1>1, <3>1 DEF Components
  <2> QED
    BY <2>1, <2>2 DEF LaidOut
<1>3. HostIsNullOrEmpty(u) <=> HostText(u) = <<>>
  <2>1. ASSUME ~HasHost(u) PROVE HostText(u) = <<>>
    BY <1>1, <2>1, EmptySlice DEF HasHost, HostText
  <2> QED
    BY <2>1 DEF HostIsNullOrEmpty, Hostname
<1>4. /\ c.scheme = Scheme(u) /\ c.port = u.port /\ c.opaque = CannotBeABase(u)
      /\ c.username = Username(u) /\ c.password = Password(u)
      /\ c.path = Path(u) /\ c.query = Query(u) /\ c.fragment = Fragment(u)
  BY DEF Components
<1> HIDE DEF c
<1>5. FlagsMatch(u) <=> FlagsFit(u.flags, c)
  BY <1>2, <1>4 DEF FlagsMatch, FlagsFit, IncludesCredentials
<1> QED
  BY <1>2, <1>3, <1>4, <1>5 DEF IncludesCredentials, c

(* What a setter that has done its work gives: the components, and flags   *)
(* that fit them if they fitted before.                                    *)
Gives(u, v, c) == Components(v) = c /\ (FlagsMatch(u) => FlagsMatch(v))

LEMMA FlagsStay ==
  ASSUME NEW u \in Records, LaidOut(u), NEW v \in Records, LaidOut(v), v.flags = u.flags,
         LET c == Components(u)
             d == Components(v)
         IN c.scheme = d.scheme /\ c.username = d.username /\ c.password = d.password
              /\ c.host = d.host
  PROVE  FlagsMatch(u) => FlagsMatch(v)
BY ComponentTests DEF FlagsFit

LEMMA SyncedGives ==
  ASSUME NEW u \in Records, LaidOut(u), NEW v \in Records, LaidOut(v), v.flags = u.flags,
         LET c == Components(u)
             d == Components(v)
         IN c.scheme = d.scheme /\ c.host = d.host
  PROVE  Gives(u, SyncCredentialFlags(v), Components(v))
<1> DEFINE w  == SyncCredentialFlags(v)
           fl == (v.flags \ {"HAS_CREDENTIALS", "HAS_PASSWORD"})
              \cup (IF IncludesCredentials(v) THEN {"HAS_CREDENTIALS"} ELSE {})
              \cup (IF Password(v) # <<>> THEN {"HAS_PASSWORD"} ELSE {})
<1>1. w \in Records /\ LaidOut(w)
  BY FlagsSynced
<1>2. /\ w.ser = v.ser /\ w.scheme_end = v.scheme_end /\ w.username_end = v.username_end
      /\ w.host_start = v.host_start /\ w.host_end = v.host_end /\ w.port = v.port
      /\ w.path_start = v.path_start /\ w.query_start = v.query_start
      /\ w.fragment_start = v.fragment_start /\ w.flags = fl
  BY DEF SyncCredentialFlags, Records
<1> HIDE DEF w
<1>3. /\ "OPAQUE_PATH" \in fl <=> "OPAQUE_PATH" \in v.flags
      /\ "SPECIAL" \in fl <=> "SPECIAL" \in v.flags
      /\ "HAS_EMPTY_HOST" \in fl <=> "HAS_EMPTY_HOST" \in v.flags
      /\ "HAS_CREDENTIALS" \in fl <=> IncludesCredentials(v)
      /\ "HAS_PASSWORD" \in fl <=> Password(v) # <<>>
      /\ fl \cap HostFlagNames = v.flags \cap HostFlagNames
  BY DEF HostFlagNames
<1> HIDE DEF fl
<1>4. Components(w) = Components(v)
  <2>1. HasAuthority(w) = HasAuthority(v) /\ Scheme(w) = Scheme(v) /\ HostText(w) = HostText(v)
    BY <1>2 DEF HasAuthority, Scheme, HostText
  <2>2. Username(w) = Username(v) /\ Password(w) = Password(v)
    BY <1>2, <2>1 DEF Username, Password, HasPasswordSlot
  <2>3. Path(w) = Path(v) /\ Query(w) = Query(v) /\ Fragment(w) = Fragment(v)
    BY <1>2 DEF Path, Query, Fragment, PathEndOf, QueryEndOf
  <2>4. CannotBeABase(w) = CannotBeABase(v)
    BY <1>2, <1>3 DEF CannotBeABase
  <2> QED
    BY <1>2, <2>1, <2>2, <2>3, <2>4 DEF Components
<1>5. FlagsFit(u.flags, Components(u)) => FlagsFit(fl, Components(v))
  <2>1. LET d == Components(v)
        IN /\ IncludesCredentials(v) <=> d.username # <<>> \/ d.password # <<>>
           /\ Password(v) = d.password
    BY ComponentTests
  <2> QED
    BY <1>3, <2>1 DEF FlagsFit
<1>6. FlagsMatch(u) => FlagsMatch(w)
  <2>1. /\ FlagsMatch(u) <=> FlagsFit(u.flags, Components(u))
        /\ FlagsMatch(w) <=> FlagsFit(w.flags, Components(w))
    BY <1>1, ComponentTests
  <2> QED
    BY <1>2, <1>4, <1>5, <2>1
<1> QED
  BY <1>4, <1>6 DEF Gives, w
-----------------------------------------------------------------------------
(* set_username.                                                           *)

(* The username is what was written, and the password is still the one     *)
(* behind it.                                                              *)
UsernameWritten(s, se, ue, hs, e) ==
  LET start == se + 3
      head  == Upto(s, start) \o e
      at    == TokenAt(s, ue, "@")
      named == IF Len(head) # start /\ ~at /\ ~TokenAt(s, ue, ":")
               THEN head \o <<"@">> ELSE head
      cut   == IF Len(head) = start /\ at THEN ue + 1 ELSE ue
      r     == named \o From(s, cut)
  IN /\ Slice(r, start, Len(head)) = e
     /\ PasswordAt(r, Len(head), Len(named) + (hs - cut)) = PasswordAt(s, ue, hs)

LEMMA UsernameSlices ==
  ASSUME NEW s \in Text, NEW se \in Nat, NEW ue \in Nat, NEW hs \in Nat, NEW e \in Text,
         hs <= Len(s), UserinfoAt(s, se, ue, hs),
         ~TokenAt(s, hs, "@"), ~TokenAt(s, hs, ":")
  PROVE  UsernameWritten(s, se, ue, hs, e)
<1> DEFINE start == se + 3
           head  == Upto(s, start) \o e
           at    == TokenAt(s, ue, "@")
           named == IF Len(head) # start /\ ~at /\ ~TokenAt(s, ue, ":")
                    THEN head \o <<"@">> ELSE head
           cut   == IF Len(head) = start /\ at THEN ue + 1 ELSE ue
           r     == named \o From(s, cut)
<1> SUFFICES /\ Slice(r, start, Len(head)) = e
             /\ PasswordAt(r, Len(head), Len(named) + (hs - cut)) = PasswordAt(s, ue, hs)
  BY DEF UsernameWritten
<1>1. PICK n \in Nat, c \in Nat : n = Len(s) /\ c = Len(e)
  BY LenProperties DEF Text
<1>2. start \in Nat /\ start <= ue /\ ue <= hs /\ hs <= n /\ (at => hs = ue + 1)
  BY <1>1 DEF UserinfoAt, TokenAt
<1>3. Upto(s, start) \in Text /\ Len(Upto(s, start)) = start
  BY <1>1, <1>2, UptoTokens
<1>4. head \in Text /\ Len(head) = start + c
  BY <1>1, <1>3, JoinTokens
<1>5. /\ head \o <<"@">> \in Text /\ Len(head \o <<"@">>) = (start + c) + 1
      /\ TokenAt(head \o <<"@">>, start + c, "@")
      /\ Kept(head \o <<"@">>, head, start + c)
  <2>1. <<"@">> \in Text /\ Len(<<"@">>) = 1 /\ TokenAt(<<"@">>, 0, "@")
    BY TokensAssumption DEF Text, TokenAt
  <2>2. (start + c) + 0 = start + c
    BY <1>1, <1>2
  <2> HIDE DEF head
  <2> QED
    BY <1>4, <2>1, <2>2, JoinTokens DEF Kept
<1>6. PICK m \in Nat : m = Len(named) /\ named \in Text /\ start + c <= m /\ Kept(named, head, start + c)
  <2>1. Kept(head, head, start + c)
    BY DEF Kept
  <2> HIDE DEF head, at
  <2> QED
    BY <1>1, <1>2, <1>4, <1>5, <2>1
<1>7. cut \in Nat /\ cut <= n
  BY <1>1, <1>2
<1>8. /\ r \in Text /\ Len(r) = m + (n - cut)
      /\ \A t : \A k \in Nat : k < m => (TokenAt(r, k, t) <=> TokenAt(named, k, t))
      /\ \A t : \A k \in Nat : TokenAt(r, m + k, t) <=> TokenAt(s, cut + k, t)
  <2>1. /\ r \in Text /\ Len(r) = Len(named) + (Len(s) - cut)
        /\ \A t : \A k \in Nat : k < Len(named) => (TokenAt(r, k, t) <=> TokenAt(named, k, t))
        /\ \A t : \A k \in Nat : TokenAt(r, Len(named) + k, t) <=> TokenAt(s, cut + k, t)
    <3>1. named \in Text /\ cut \in Nat /\ cut <= Len(s)
      BY <1>1, <1>6, <1>7
    <3> HIDE DEF named, cut
    <3> QED
      BY <3>1, CutTokens, Zenon
  <2> HIDE DEF r, named, cut
  <2> QED
    BY <1>1, <1>6, <2>1
<1>9. Slice(r, start, start + c) = e
  <2>1. Kept(r, head, start + c)
    <3> HIDE DEF head, named, r
    <3> QED
      BY <1>1, <1>2, <1>6, <1>8 DEF Kept
  <2>2. start + c <= Len(r)
    <3> HIDE DEF named, r, cut
    <3> QED
      BY <1>1, <1>2, <1>6, <1>7, <1>8
  <2>3. PICK x \in Text : x = Upto(s, start) /\ Len(x) = start
    BY <1>3
  <2>4. Kept(r, x \o e, start + c)
    BY <2>1, <2>3
  <2> HIDE DEF named, r, head, start
  <2>5. PICK b \in Nat : b = start + c /\ b = Len(x) + Len(e) /\ b <= Len(r)
    BY <1>1, <1>2, <2>2, <2>3
  <2>6. Kept(r, x \o e, b)
    BY <2>4, <2>5
  <2>7. r \in Text /\ start = Len(x)
    BY <1>8, <2>3
  <2>8. Slice(r, start, b) = e
    BY <2>5, <2>6, <2>7, WrittenSlice
  <2> QED
    BY <2>5, <2>8
<1>10. CASE TokenAt(s, ue, ":")
  <2>1. ~at
    BY <1>10 DEF TokenAt
  <2>2. named = head /\ cut = ue /\ m = start + c
    BY <1>4, <1>6, <1>10, <2>1
  <2>3. TokenAt(r, start + c, ":")
    <3>1. TokenAt(s, ue + 0, ":") /\ (start + c) + 0 = start + c
      BY <1>1, <1>2, <1>10
    <3> HIDE DEF named, r, cut
    <3> QED
      BY <1>8, <2>2, <3>1
  <2>4. ue + 1 <= hs - 1 /\ hs - 1 \in Nat
    BY <1>2, <1>10 DEF UserinfoAt, TokenAt
  <2>5. Slice(r, m + ((ue + 1) - ue), m + ((hs - 1) - ue)) = Slice(s, ue + 1, hs - 1)
    <3>1. ue <= ue + 1 /\ hs - 1 <= Len(s) /\ ue + 1 \in Nat
      BY <1>1, <1>2, <2>4
    <3>2. r = named \o From(s, ue)
      BY <2>2
    <3> HIDE DEF named, cut, head, r
    <3>3. PICK x \in Nat, y \in Nat : x = ue + 1 /\ y = hs - 1 /\ ue <= x /\ x <= y /\ y <= Len(s)
      BY <2>4, <3>1
    <3>4. PICK x2 \in Nat, y2 \in Nat : x2 = Len(named) + (x - ue) /\ y2 = Len(named) + (y - ue)
      <4>1. Len(named) + (x - ue) \in Nat /\ Len(named) + (y - ue) \in Nat
        BY <1>6, <3>3
      <4> QED
        BY <4>1
    <3>5. named \in Text
      BY <1>6
    <3>6. Slice(r, x2, y2) = Slice(s, x, y)
      <4>1. ue <= x /\ x <= y /\ y <= Len(s)
        BY <3>3
      <4> QED
        BY <3>2, <3>4, <3>5, <4>1, SliceMoves
    <3> QED
      BY <1>6, <3>2, <3>3, <3>4, <3>6
  <2>6. m + ((ue + 1) - ue) = (start + c) + 1 /\ m + ((hs - 1) - ue) = (m + (hs - ue)) - 1
    BY <1>2, <2>2, <2>4
  <2> HIDE DEF r, named, cut
  <2>7. PasswordAt(r, start + c, m + (hs - cut)) = PasswordAt(s, ue, hs)
    BY <1>10, <2>2, <2>3, <2>5, <2>6 DEF PasswordAt
  <2> QED
    BY <1>4, <1>6, <1>9, <2>7 DEF r, named, cut
<1>11. CASE ~TokenAt(s, ue, ":")
  <2>1. ~TokenAt(r, start + c, ":")
    <3>1. CASE c = 0
      <4>1. PICK x \in Nat : x = cut /\ ~TokenAt(s, x, ":") /\ named = head
        <5>1. CASE at
          BY <1>2, <1>4, <3>1, <5>1
        <5>2. CASE ~at
          BY <1>2, <1>4, <1>11, <3>1, <5>2
        <5> QED
          BY <5>1, <5>2
      <4>2. m = start + c /\ m + 0 = m /\ x + 0 = x
        BY <1>4, <1>6, <4>1
      <4> HIDE DEF r, named, cut
      <4> QED
        BY <1>8, <4>1, <4>2
    <3>2. CASE c # 0 /\ at
      <4>1. cut = ue /\ named = head
        BY <1>1, <1>2, <1>4, <3>2
      <4>2. m = start + c /\ m + 0 = m /\ ue + 0 = ue
        BY <1>4, <1>6, <4>1
      <4> HIDE DEF r, named, cut
      <4> QED
        BY <1>8, <1>11, <4>1, <4>2
    <3>3. CASE c # 0 /\ ~at
      <4>1. named = head \o <<"@">>
        BY <1>1, <1>2, <1>4, <1>11, <3>3
      <4>2. TokenAt(named, start + c, "@") /\ start + c < m
        BY <1>5, <1>6, <4>1
      <4>3. TokenAt(r, start + c, "@")
        <5> HIDE DEF r, named
        <5> QED
          BY <1>1, <1>2, <1>8, <4>2
      <4> QED
        BY <4>3 DEF TokenAt
    <3> QED
      BY <3>1, <3>2, <3>3
  <2> HIDE DEF r, named, cut
  <2>2. PasswordAt(r, start + c, m + (hs - cut)) = PasswordAt(s, ue, hs)
    BY <1>11, <2>1 DEF PasswordAt
  <2> QED
    BY <1>4, <1>6, <1>9, <2>2 DEF r, named, cut
<1> QED
  BY <1>10, <1>11

(* The text of a username e written before the host, and the "@" after it. *)
LEMMA UsernameText ==
  ASSUME NEW s \in Text, NEW se \in Nat, NEW ue \in Nat, NEW hs \in Nat, NEW e \in Text,
         hs <= Len(s), UserinfoAt(s, se, ue, hs),
         ~TokenAt(s, hs, "@"), ~TokenAt(s, hs, ":")
  PROVE  LET start == se + 3
             head  == Upto(s, start) \o e
             at    == TokenAt(s, ue, "@")
             named == IF Len(head) # start /\ ~at /\ ~TokenAt(s, ue, ":")
                      THEN head \o <<"@">> ELSE head
             cut   == IF Len(head) = start /\ at THEN ue + 1 ELSE ue
             r     == named \o From(s, cut)
         IN /\ named \in Text /\ Len(head) \in Nat /\ cut \in Nat /\ cut <= hs
            /\ start <= Len(head) /\ Len(head) <= Len(named)
            /\ Kept(r, s, start)
            /\ UserinfoAt(r, se, Len(head), Len(named) + (hs - cut))
<1> DEFINE start == se + 3
           head  == Upto(s, start) \o e
           at    == TokenAt(s, ue, "@")
           named == IF Len(head) # start /\ ~at /\ ~TokenAt(s, ue, ":")
                    THEN head \o <<"@">> ELSE head
           cut   == IF Len(head) = start /\ at THEN ue + 1 ELSE ue
           r     == named \o From(s, cut)
<1>1. PICK n \in Nat, c \in Nat : n = Len(s) /\ c = Len(e)
  BY LenProperties DEF Text
<1>2. start <= ue /\ ue <= hs /\ hs <= n /\ start \in Nat
  BY <1>1 DEF UserinfoAt
<1>3. /\ head \in Text /\ Len(head) = start + c
      /\ \A t : \A k \in Nat : k < start => (TokenAt(head, k, t) <=> TokenAt(s, k, t))
  <2>1. PICK x \in Text : x = Upto(s, start)
    BY <1>1, <1>2, UptoTokens
  <2>2. Len(x) = start /\ \A t : \A k \in Nat : k < start => (TokenAt(x, k, t) <=> TokenAt(s, k, t))
    BY <1>1, <1>2, <2>1, UptoTokens
  <2>3. /\ x \o e \in Text /\ Len(x \o e) = start + c
        /\ \A t : \A k \in Nat : k < start => (TokenAt(x \o e, k, t) <=> TokenAt(x, k, t))
    BY <1>1, <2>2, JoinTokens
  <2> QED
    BY <2>1, <2>2, <2>3
<1> HIDE DEF start, head
<1>4. /\ <<"@">> \in Text /\ Len(<<"@">>) = 1 /\ TokenAt(<<"@">>, 0, "@")
  BY TokensAssumption DEF Text, TokenAt
<1>5. /\ head \o <<"@">> \in Text /\ Len(head \o <<"@">>) = (start + c) + 1
      /\ \A t : \A k \in Nat : k < start + c => (TokenAt(head \o <<"@">>, k, t) <=> TokenAt(head, k, t))
      /\ TokenAt(head \o <<"@">>, start + c, "@")
  <2>1. TokenAt(head \o <<"@">>, Len(head) + 0, "@")
    BY <1>3, <1>4, JoinTokens
  <2> QED
    BY <1>1, <1>2, <1>3, <1>4, <2>1, JoinTokens
<1>6. /\ named \in Text /\ start + c <= Len(named) /\ Len(named) \in Nat
      /\ \A t : \A k \in Nat : k < start => (TokenAt(named, k, t) <=> TokenAt(s, k, t))
  BY <1>1, <1>2, <1>3, <1>5
<1>7. cut \in Nat /\ cut <= hs
  BY <1>2 DEF UserinfoAt
<1>8. /\ r \in Text
      /\ \A t : \A k \in Nat : k < Len(named) => (TokenAt(r, k, t) <=> TokenAt(named, k, t))
      /\ \A t : \A k \in Nat : TokenAt(r, Len(named) + k, t) <=> TokenAt(s, cut + k, t)
  <2>1. cut <= Len(s)
    BY <1>1, <1>2, <1>7
  <2> HIDE DEF named, cut
  <2> QED
    BY <1>6, <1>7, <2>1, CutTokens, Zenon
<1>9. \A t : \A k \in Nat : k < start => (TokenAt(r, k, t) <=> TokenAt(s, k, t))
  BY <1>1, <1>2, <1>6, <1>8
<1>10. UserinfoAt(r, se, start + c, Len(named) + (hs - cut))
  <2>1. CASE hs = se + 3 /\ ue = hs
    <3>1. ~at /\ ~TokenAt(s, ue, ":") /\ cut = ue
      BY <2>1
    <3>2. CASE c = 0
      <4>1. named = head
        BY <1>2, <1>3, <3>2
      <4> QED
        BY <1>3, <2>1, <3>1, <3>2, <4>1 DEF UserinfoAt, start
    <3>3. CASE c # 0
      <4>1. named = head \o <<"@">>
        BY <1>1, <1>2, <1>3, <3>1, <3>3
      <4>2. TokenAt(r, start + c, "@")
        BY <1>1, <1>2, <1>5, <1>8, <4>1
      <4>3. Len(named) + (hs - cut) = (start + c) + 1
        <5>1. Len(named) = (start + c) + 1
          BY <1>5, <4>1
        <5>2. hs - cut = 0
          BY <1>2, <2>1, <3>1
        <5>3. (start + c) + 1 \in Nat
          BY <1>1, <1>2
        <5> HIDE DEF named, cut
        <5> QED
          BY <5>1, <5>2, <5>3
      <4>4. start + c > se + 3
        BY <1>1, <3>3 DEF start
      <4> QED
        BY <4>2, <4>3, <4>4 DEF UserinfoAt
    <3> QED
      BY <3>2, <3>3
  <2>2. CASE hs = ue + 1 /\ at
    <3>1. named = head
      BY <2>2
    <3>2. CASE c = 0
      <4>1. cut = hs
        BY <1>3, <2>2, <3>2, <1>2
      <4> QED
        BY <1>3, <2>2, <3>1, <3>2, <4>1, <1>2 DEF UserinfoAt, start
    <3>3. CASE c # 0
      <4>1. cut = ue
        BY <1>1, <1>2, <1>3, <3>3
      <4>2. TokenAt(r, (start + c) + 0, "@")
        <5>1. TokenAt(s, ue + 0, "@")
          BY <1>2, <2>2
        <5> QED
          BY <1>3, <1>8, <3>1, <4>1, <5>1
      <4>3. Len(named) + (hs - cut) = (start + c) + 1
        BY <1>1, <1>2, <1>3, <2>2, <3>1, <4>1
      <4>4. TokenAt(r, start + c, "@") /\ start + c > se + 3
        BY <1>1, <1>2, <3>3, <4>2 DEF start
      <4> QED
        BY <4>3, <4>4 DEF UserinfoAt
    <3> QED
      BY <3>2, <3>3
  <2>3. CASE ue >= se + 3 /\ hs >= ue + 3 /\ TokenAt(s, ue, ":") /\ TokenAt(s, hs - 1, "@")
    <3>1. ~at
      BY <2>3 DEF TokenAt
    <3>2. named = head /\ cut = ue
      BY <2>3, <3>1
    <3>3. TokenAt(r, (start + c) + 0, ":")
      <4>1. TokenAt(s, ue + 0, ":")
        BY <2>3
      <4> QED
        BY <1>3, <1>8, <3>2, <4>1
    <3>4. PICK d \in Nat : hs - 1 = ue + d /\ d >= 2
      <4>1. (hs - 1) - ue \in Nat /\ hs - 1 = ue + ((hs - 1) - ue) /\ (hs - 1) - ue >= 2
        BY <2>3
      <4> QED
        BY <4>1
    <3>5. TokenAt(r, (start + c) + d, "@")
      BY <1>3, <1>8, <2>3, <3>2, <3>4
    <3>6. /\ (Len(named) + (hs - cut)) - 1 = (start + c) + d /\ (start + c) + 0 = start + c
          /\ start + c >= se + 3 /\ Len(named) + (hs - cut) >= (start + c) + 3
      BY <1>1, <1>2, <1>3, <3>2, <3>4 DEF start
    <3> QED
      BY <3>3, <3>5, <3>6 DEF UserinfoAt
  <2> QED
    BY <2>1, <2>2, <2>3 DEF UserinfoAt
<1>11. /\ named \in Text /\ Len(head) \in Nat /\ cut \in Nat /\ cut <= hs
       /\ start <= Len(head) /\ Len(head) <= Len(named)
  BY <1>1, <1>2, <1>3, <1>6, <1>7
<1>12. UserinfoAt(r, se, Len(head), Len(named) + (hs - cut))
  BY <1>3, <1>10
<1> QED
  BY <1>9, <1>11, <1>12 DEF start, head, Kept

(* The credentials rewritten in front of an offset b, at or before the     *)
(* host, with every later offset moved.                                    *)
LEMMA UserinfoRewritten ==
  ASSUME NEW s, NEW se, NEW ue, NEW hs, NEW he, NEW pt, NEW ps, NEW qs, NEW fs, NEW fl,
         NEW h \in Text, NEW b \in Nat, NEW ue2 \in Nat,
         Hosted(s, se, ue, hs, he, pt, ps, qs, fs, fl),
         b <= hs, Len(h \o From(s, b)) < U32Max,
         Kept(h \o From(s, b), s, se + 3),
         UserinfoAt(h \o From(s, b), se, ue2, Len(h) + (hs - b))
  PROVE  /\ Hosted(h \o From(s, b), se, ue2, Adjust(hs, b, Len(h)), Adjust(he, b, Len(h)), pt,
                   Adjust(ps, b, Len(h)), AdjustOpt(qs, b, Len(h)), AdjustOpt(fs, b, Len(h)), fl)
         /\ Adjust(hs, b, Len(h)) = Len(h) + (hs - b)
         /\ Adjust(he, b, Len(h)) = Len(h) + (he - b)
         /\ Adjust(ps, b, Len(h)) = Len(h) + (ps - b)
         /\ AdjustOpt(qs, b, Len(h)) = Moved(qs, ps, Len(h) + (ps - b))
         /\ AdjustOpt(fs, b, Len(h)) = Moved(fs, ps, Len(h) + (ps - b))
<1> DEFINE r == h \o From(s, b)
           a(x) == Adjust(x, b, Len(h))
           o(x) == AdjustOpt(x, b, Len(h))
<1>1. /\ s \in Text /\ se \in Nat /\ hs \in Nat /\ he \in Nat /\ ps \in Nat
      /\ pt \in 0..NoPort /\ qs \in Offset /\ fs \in Offset
      /\ Tails(Part(s, ps, qs, fs)) /\ Rooted(Part(s, ps, qs, fs))
      /\ AuthorityAt(s, se, ue, hs, he, pt, ps) /\ TokenAt(s, se, ":")
  BY HostedBounds DEF Hosted
<1>2. b <= ps /\ hs \in b..ps /\ he \in b..ps
  BY <1>1, HostedBounds
<1>3. /\ r \in Text /\ ps <= Len(s) /\ Len(h) \in Nat
      /\ a(hs) = Len(h) + (hs - b) /\ a(he) = Len(h) + (he - b)
      /\ a(hs) \in Offset /\ a(he) \in Offset
      /\ a(ps) = Len(h) + (ps - b) /\ a(ps) \in Offset
      /\ o(qs) \in Offset /\ o(fs) \in Offset
      /\ Tails(Part(r, a(ps), o(qs), o(fs)))
      /\ Rooted(Part(r, a(ps), o(qs), o(fs)))
      /\ o(qs) = Moved(qs, ps, a(ps)) /\ o(fs) = Moved(fs, ps, a(ps))
  <2>1. /\ r \in Text /\ ps <= Len(s) /\ Len(h) \in Nat
        /\ \A x \in b..ps : a(x) = Len(h) + (x - b) /\ a(x) \in Offset
        /\ a(ps) = Len(h) + (ps - b) /\ a(ps) \in Offset
        /\ o(qs) \in Offset /\ o(fs) \in Offset
        /\ o(qs) = Moved(qs, ps, a(ps)) /\ o(fs) = Moved(fs, ps, a(ps))
        /\ Tails(Part(r, a(ps), o(qs), o(fs)))
        /\ Rooted(Part(r, a(ps), o(qs), o(fs)))
    BY <1>1, <1>2, Rebuilt, SMTT(30)
  <2> HIDE DEF r, a, o
  <2> QED
    BY <1>2, <2>1
<1>4. a(hs) \in Nat /\ a(he) \in Nat
  BY <1>3, U32MaxAssumption DEF Offset
<1>5. HostAt(r, a(hs), a(he), pt, a(ps))
  <2>1. HostAt(r, Len(h) + (hs - b), Len(h) + (he - b), pt, Len(h) + (ps - b))
    <3>1. HostAt(s, hs, he, pt, ps)
      BY <1>1 DEF AuthorityAt
    <3> QED
      BY <1>1, <1>3, <3>1, HostMoves
  <2> HIDE DEF r, a
  <2> QED
    BY <1>3, <2>1
<1>6. TokenAt(r, se + 1, "/") /\ TokenAt(r, se + 2, "/") /\ TokenAt(r, se, ":")
  <2>1. \A k \in {se, se + 1, se + 2} : k \in Nat /\ k < se + 3
    BY <1>1
  <2> QED
    BY <1>1, <2>1 DEF AuthorityAt, Kept
<1>7. AuthorityAt(r, se, ue2, a(hs), a(he), pt, a(ps))
  BY <1>3, <1>5, <1>6 DEF AuthorityAt
<1> HIDE DEF r, a, o
<1>8. Hosted(r, se, ue2, a(hs), a(he), pt, a(ps), o(qs), o(fs), fl)
  BY <1>3, <1>4, <1>6, <1>7 DEF Hosted
<1> QED
  BY <1>3, <1>8 DEF r, a, o

(* The components of a record whose userinfo was rewritten.                *)
LEMMA UserinfoParts ==
  ASSUME NEW s, NEW se, NEW ue, NEW hs, NEW he, NEW pt, NEW ps, NEW qs, NEW fs, NEW fl,
         NEW h \in Text, NEW b \in Nat, NEW ue2 \in Nat,
         Hosted(s, se, ue, hs, he, pt, ps, qs, fs, fl),
         b <= hs, Len(h \o From(s, b)) < U32Max,
         Kept(h \o From(s, b), s, se + 3),
         UserinfoAt(h \o From(s, b), se, ue2, Len(h) + (hs - b)),
         NEW hs2, hs2 = Adjust(hs, b, Len(h)), NEW he2, he2 = Adjust(he, b, Len(h)),
         NEW ps2, ps2 = Adjust(ps, b, Len(h)),
         NEW qs2, qs2 = AdjustOpt(qs, b, Len(h)), NEW fs2, fs2 = AdjustOpt(fs, b, Len(h))
  PROVE  Components(Rec(h \o From(s, b), se, ue2, hs2, he2, pt, ps2, qs2, fs2, fl))
           = PutPassword(PutUsername(Components(Rec(s, se, ue, hs, he, pt, ps, qs, fs, fl)),
                                     Slice(h \o From(s, b), se + 3, ue2)),
                         PasswordAt(h \o From(s, b), ue2, hs2))
<1> DEFINE r == h \o From(s, b)
<1>1. /\ Hosted(r, se, ue2, hs2, he2, pt, ps2, qs2, fs2, fl)
      /\ hs2 = Len(h) + (hs - b) /\ he2 = Len(h) + (he - b) /\ ps2 = Len(h) + (ps - b)
      /\ qs2 = Moved(qs, ps, ps2) /\ fs2 = Moved(fs, ps, ps2)
  BY UserinfoRewritten
<1>2. /\ s \in Text /\ se \in Nat /\ hs \in Nat /\ he \in Nat /\ ps \in Nat
      /\ qs \in Offset /\ fs \in Offset /\ Tails(Part(s, ps, qs, fs))
      /\ se + 3 <= hs /\ hs <= he /\ he <= ps /\ ps <= Len(s) /\ Len(s) \in Nat
  BY HostedBounds DEF Hosted
<1>3. r \in Text /\ Len(r) \in Nat /\ se + 3 <= Len(r)
  <2>1. r \in Text /\ hs2 <= Len(r) /\ se + 3 <= hs2 /\ Len(r) \in Nat /\ hs2 \in Nat
    <3>1. /\ se + 3 <= ue2 /\ ue2 <= hs2 /\ hs2 <= he2 /\ he2 <= ps2 /\ ps2 <= Len(r)
          /\ Len(r) \in Nat /\ ps2 \in Nat
      BY <1>1, HostedBounds
    <3>2. r \in Text /\ hs2 \in Nat /\ he2 \in Nat
      BY <1>1 DEF Hosted
    <3> QED
      BY <1>2, <3>1, <3>2
  <2> QED
    BY <1>2, <2>1
<1>4. Upto(r, se) = Upto(s, se)
  <2>1. Kept(r, s, se) /\ se <= Len(r) /\ se <= Len(s)
    BY <1>2, <1>3 DEF Kept
  <2> HIDE DEF r
  <2> QED
    BY <1>2, <1>3, <2>1, UptoKept
<1>5. Slice(r, hs2, he2) = Slice(s, hs, he)
  <2>1. he <= Len(s)
    BY <1>2
  <2> QED
    BY <1>1, <1>2, <2>1, SliceMoves, SMTT(30)
<1>6. LET x == Part(s, ps, qs, fs)
          y == Part(r, ps2, qs2, fs2)
      IN Path(y) = Path(x) /\ Query(y) = Query(x) /\ Fragment(y) = Fragment(x)
  <2>1. qs \in Nat /\ fs \in Nat /\ b <= ps
    BY <1>2, U32MaxAssumption DEF Offset
  <2>2. SameTail(Part(r, ps2, qs2, fs2), Part(s, ps, qs, fs))
    BY <1>1, <1>2, <2>1, TailText
  <2> QED
    BY <2>2 DEF SameTail
<1> HIDE DEF r
<1>7. /\ Components(Rec(r, se, ue2, hs2, he2, pt, ps2, qs2, fs2, fl))
           = HostedParts(r, se, ue2, hs2, he2, pt, Part(r, ps2, qs2, fs2))
      /\ Components(Rec(s, se, ue, hs, he, pt, ps, qs, fs, fl))
           = HostedParts(s, se, ue, hs, he, pt, Part(s, ps, qs, fs))
  BY <1>1, HostedComponents
<1> DEFINE w == Part(s, ps, qs, fs)
<1>8. Components(Rec(s, se, ue, hs, he, pt, ps, qs, fs, fl))
        = PartsOf(Upto(s, se), Slice(s, se + 3, ue), PasswordAt(s, ue, hs), {Slice(s, hs, he)}, pt,
                  Path(w), NotOpaque, Query(w), Fragment(w))
  BY <1>7 DEF HostedParts
<1>9. Components(Rec(r, se, ue2, hs2, he2, pt, ps2, qs2, fs2, fl))
        = PartsOf(Upto(s, se), Slice(r, se + 3, ue2), PasswordAt(r, ue2, hs2), {Slice(s, hs, he)},
                  pt, Path(w), NotOpaque, Query(w), Fragment(w))
  BY <1>4, <1>5, <1>6, <1>7 DEF HostedParts
<1> HIDE DEF w
<1> DEFINE x == Slice(r, se + 3, ue2)
           y == PasswordAt(r, ue2, hs2)
<1> HIDE DEF x, y
<1>10. PutUsername(Components(Rec(s, se, ue, hs, he, pt, ps, qs, fs, fl)), x)
         = PartsOf(Upto(s, se), x, PasswordAt(s, ue, hs), {Slice(s, hs, he)}, pt,
                   Path(w), NotOpaque, Query(w), Fragment(w))
  BY <1>8, UsernamePut
<1>11. PutPassword(PartsOf(Upto(s, se), x, PasswordAt(s, ue, hs), {Slice(s, hs, he)}, pt,
                           Path(w), NotOpaque, Query(w), Fragment(w)), y)
         = PartsOf(Upto(s, se), x, y, {Slice(s, hs, he)}, pt,
                   Path(w), NotOpaque, Query(w), Fragment(w))
  BY PasswordPut
<1>12. Components(Rec(r, se, ue2, hs2, he2, pt, ps2, qs2, fs2, fl))
         = PutPassword(PutUsername(Components(Rec(s, se, ue, hs, he, pt, ps, qs, fs, fl)), x), y)
  BY <1>9, <1>10, <1>11 DEF x, y
<1> QED
  BY <1>12 DEF x, y, r

(* A refused call, and one that finds nothing to do.                       *)
LEMMA RefusedSound ==
  ASSUME NEW u \in Records, LaidOut(u)
  PROVE  Sound(Err(u)) /\ Sound(Ok(u)) /\ Sound(Panic(u))
BY DEF Sound, Err, Ok, Panic

(* The href an Err leaves behind when a length did not fit.                *)
LEMMA TruncatedSound ==
  ASSUME NEW u \in Records, NEW s, Len(s) \in Nat, Len(s) > U32Max
  PROVE  Sound(Err([u EXCEPT !.ser = s])) /\ ~Fits([u EXCEPT !.ser = s])
<1>1. [u EXCEPT !.ser = s].ser = s
  BY DEF Records
<1>2. ~Fits([u EXCEPT !.ser = s])
  BY <1>1, U32MaxAssumption DEF Fits
<1> QED
  BY <1>2 DEF Sound, Err

LEMMA SetUsernameSound ==
  ASSUME NEW u \in Records, LaidOut(u), NEW name \in Text
  PROVE  LET r == SetUsername(u, name)
         IN /\ Sound(r)
            /\ Fits(r.url) =>
                 \/ r.url = u
                 \/ /\ ~CannotHaveUsernamePasswordPort(u)
                    /\ Gives(u, r.url, PutUsername(Components(u), EncodeUserinfo(name)))
<1> DEFINE s == u.ser             se == u.scheme_end   ue == u.username_end
           hs == u.host_start     he == u.host_end     pt == u.port
           ps == u.path_start     qs == u.query_start  fs == u.fragment_start
           fl == u.flags
           e     == EncodeUserinfo(name)
           start == se + 3
           head  == Upto(s, start) \o e
           at    == TokenAt(s, ue, "@")
           named == IF Len(head) # start /\ ~at /\ ~TokenAt(s, ue, ":")
                    THEN head \o <<"@">> ELSE head
           cut   == IF Len(head) = start /\ at THEN ue + 1 ELSE ue
           r     == named \o From(s, cut)
           v     == MoveHost([u EXCEPT !.ser = r, !.username_end = Len(head)], cut, Len(named))
           w     == SyncCredentialFlags(v)
<1>1. \/ SetUsername(u, name) \in {Err(u), Ok(u)}
      \/ /\ ~HostIsNullOrEmpty(u) /\ ~CannotHaveUsernamePasswordPort(u)
         /\ \/ Len(head) > U32Max /\ SetUsername(u, name) = Err([u EXCEPT !.ser = head])
            \/ SetUsername(u, name) = Ok(w)
  BY DEF SetUsername, CannotHaveUsernamePasswordPort
<1>2. SUFFICES ASSUME ~HostIsNullOrEmpty(u)
               PROVE  /\ Len(head) > U32Max => /\ Sound(Err([u EXCEPT !.ser = head]))
                                               /\ ~Fits([u EXCEPT !.ser = head])
                      /\ Sound(Ok(w))
                      /\ Fits(w) => Gives(u, w, PutUsername(Components(u), e))
  <2>1. Err(u).url = u /\ Ok(u).url = u /\ Ok(w).url = w
    BY DEF Err, Ok
  <2>2. Err([u EXCEPT !.ser = head]).url = [u EXCEPT !.ser = head]
    BY DEF Err
  <2> HIDE DEF head, w
  <2> QED
    BY <1>1, <2>1, <2>2, RefusedSound
<1>3. u = Rec(s, se, ue, hs, he, pt, ps, qs, fs, fl) /\ se \in Offset
  BY Fields
<1>4. Hosted(s, se, ue, hs, he, pt, ps, qs, fs, fl)
  BY <1>2, HostMeansAuthority, HostedFields
<1> HIDE DEF s, se, ue, hs, he, pt, ps, qs, fs, fl
<1>5. e \in Text
  BY EncodeFacts DEF EncodeUserinfo, Encoding, UserinfoSet
<1>6. hs <= Len(s) /\ Len(s) \in Nat /\ hs \in Nat /\ s \in Text
  BY <1>4, HostedBounds DEF Hosted
<1>7. /\ named \in Text /\ Len(head) \in Nat /\ cut \in Nat /\ cut <= hs
      /\ Kept(r, s, start)
      /\ UserinfoAt(r, se, Len(head), Len(named) + (hs - cut))
      /\ Slice(r, start, Len(head)) = e
      /\ PasswordAt(r, Len(head), Len(named) + (hs - cut)) = PasswordAt(s, ue, hs)
  <2>1. /\ UserinfoAt(s, se, ue, hs) /\ ~TokenAt(s, hs, "@") /\ ~TokenAt(s, hs, ":")
        /\ se \in Nat /\ ue \in Nat
    BY <1>4 DEF Hosted, AuthorityAt, HostAt
  <2> HIDE DEF e
  <2>2. UsernameWritten(s, se, ue, hs, e)
    BY <1>5, <1>6, <2>1, UsernameSlices
  <2> QED
    BY <1>5, <1>6, <2>1, <2>2, UsernameText DEF UsernameWritten
<1>8. Len(head) > U32Max => /\ Sound(Err([u EXCEPT !.ser = head]))
                            /\ ~Fits([u EXCEPT !.ser = head])
  BY <1>7, TruncatedSound
<1> HIDE DEF e, head, at, named, cut
<1>9. ASSUME Fits(w)
      PROVE  w \in Records /\ LaidOut(w) /\ Gives(u, w, PutUsername(Components(u), e))
  <2>1. w.ser = r
    BY <1>3 DEF SyncCredentialFlags, MoveHost, MovePath, MoveQueryAndFragment, Rec
  <2>2. r \in Text /\ Len(r) < U32Max
    <3>1. r \in Text
      BY <1>6, <1>7, CutTokens
    <3>2. Len(r) \in Nat
      BY <3>1, LenProperties DEF Text
    <3> HIDE DEF r
    <3> QED
      BY <1>9, <2>1, <3>1, <3>2, U32MaxAssumption DEF Fits
  <2> DEFINE a(x) == Adjust(x, cut, Len(named))
             o(x) == AdjustOpt(x, cut, Len(named))
             z == Rec(r, se, Len(head), a(hs), a(he), pt, a(ps), o(qs), o(fs), fl)
  <2>3. /\ Hosted(r, se, Len(head), a(hs), a(he), pt, a(ps), o(qs), o(fs), fl)
        /\ a(hs) = Len(named) + (hs - cut)
    BY <1>4, <1>7, <2>2, UserinfoRewritten
  <2>6. Components(z) = PutUsername(Components(u), e)
    <3>1. Components(z) = PutPassword(PutUsername(Components(u), Slice(r, start, Len(head))),
                                      PasswordAt(r, Len(head), a(hs)))
      BY <1>3, <1>4, <1>7, <2>2, UserinfoParts
    <3> HIDE DEF r, a, z
    <3>2. Components(z) = PutPassword(PutUsername(Components(u), e), PasswordAt(s, ue, hs))
      BY <1>7, <2>3, <3>1
    <3> QED
      BY <1>3, <1>4, <3>2, CredentialPuts
  <2> HIDE DEF r
  <2>4. z \in Records /\ LaidOut(z)
    BY <2>3, HostedRecord
  <2>5. v = z
    <3>1. /\ Len(head) \in Offset /\ a(hs) \in Offset /\ a(he) \in Offset /\ a(ps) \in Offset
          /\ o(qs) \in Offset /\ o(fs) \in Offset
      BY <2>4 DEF Records, Rec
    <3>2. [u EXCEPT !.ser = r, !.username_end = Len(head)]
            = Rec(r, se, Len(head), hs, he, pt, ps, qs, fs, fl)
      <4> DEFINE x == [u EXCEPT !.ser = r, !.username_end = Len(head)]
      <4>1. x \in Records
        BY <2>2, <3>1 DEF Records
      <4>2. /\ x.ser = r /\ x.scheme_end = se /\ x.username_end = Len(head)
            /\ x.host_start = hs /\ x.host_end = he /\ x.port = pt /\ x.path_start = ps
            /\ x.query_start = qs /\ x.fragment_start = fs /\ x.flags = fl
        BY <1>3 DEF Rec
      <4> HIDE DEF x
      <4>3. x = Rec(r, se, Len(head), hs, he, pt, ps, qs, fs, fl)
        BY <4>1, <4>2, FieldsOf
      <4> QED
        BY <4>3 DEF x
    <3>3. Rec(r, se, Len(head), hs, he, pt, ps, qs, fs, fl) \in Records
      BY <2>2, <3>1, <3>2 DEF Records
    <3> QED
      BY <3>1, <3>2, <3>3, MovedRec
  <2>7. v.flags = u.flags
    BY <1>3, <2>5 DEF Rec
  <2>8. /\ Components(v).scheme = Components(u).scheme
        /\ Components(v).host = Components(u).host
    BY <1>3, <1>4, <2>5, <2>6, CredentialPuts
  <2> HIDE DEF v, z
  <2> QED
    BY <2>4, <2>5, <2>6, <2>7, <2>8, FlagsSynced, SyncedGives
<1> HIDE DEF w
<1> QED
  BY <1>8, <1>9 DEF Sound, Ok
-----------------------------------------------------------------------------
(* set_password.                                                           *)

(* The username is what it was, and the password what was written.        *)
PasswordWritten(s, se, ue, hs, e) ==
  LET head == Upto(s, ue) \o (<<":">> \o e \o <<"@">>)
      r    == head \o From(s, hs)
  IN /\ Slice(r, se + 3, ue) = Slice(s, se + 3, ue)
     /\ PasswordAt(r, ue, Len(head)) = e

PasswordGone(s, se, ue, hs) ==
  LET end == IF ue = se + 3 THEN hs ELSE hs - 1
      r   == Upto(s, ue) \o From(s, end)
  IN /\ Slice(r, se + 3, ue) = Slice(s, se + 3, ue)
     /\ \A x : PasswordAt(r, ue, x) = <<>>

(* The text of a password e written behind the username.                   *)
LEMMA PasswordText ==
  ASSUME NEW s \in Text, NEW se \in Nat, NEW ue \in Nat, NEW hs \in Nat, NEW e \in Text,
         se + 3 <= ue, ue <= hs, hs <= Len(s), e # <<>>
  PROVE  LET head == Upto(s, ue) \o (<<":">> \o e \o <<"@">>)
             r    == head \o From(s, hs)
         IN /\ head \in Text /\ Len(head) \in Nat
            /\ Kept(r, s, se + 3)
            /\ UserinfoAt(r, se, ue, Len(head) + (hs - hs))
            /\ PasswordWritten(s, se, ue, hs, e)
<1> DEFINE m == <<":">> \o e \o <<"@">>
           head == Upto(s, ue) \o m
           r    == head \o From(s, hs)
<1>1. PICK n \in Nat, c \in Nat : n = Len(s) /\ c = Len(e) /\ c >= 1
  BY LenProperties DEF Text
<1>2. m \in Text /\ Len(m) = c + 2 /\ TokenAt(m, 0, ":") /\ TokenAt(m, c + 1, "@")
  <2>1. <<":">> \in Text /\ Len(<<":">>) = 1 /\ TokenAt(<<":">>, 0, ":")
    BY TokensAssumption DEF Text, TokenAt
  <2>2. <<"@">> \in Text /\ Len(<<"@">>) = 1 /\ TokenAt(<<"@">>, 0, "@")
    BY TokensAssumption DEF Text, TokenAt
  <2>3. PICK x \in Text : x = <<":">> \o e
    BY <2>1, JoinTokens
  <2>4. Len(x) = 1 + c /\ TokenAt(x, 0, ":")
    <3>1. /\ Len(x) = Len(<<":">>) + Len(e)
          /\ \A t : \A k \in Nat : k < Len(<<":">>) => (TokenAt(x, k, t) <=> TokenAt(<<":">>, k, t))
      BY <2>1, <2>3, JoinTokens
    <3> QED
      BY <1>1, <2>1, <3>1
  <2>5. /\ x \o <<"@">> \in Text /\ Len(x \o <<"@">>) = (1 + c) + 1
        /\ TokenAt(x \o <<"@">>, 0, ":")
        /\ TokenAt(x \o <<"@">>, (1 + c) + 0, "@")
    BY <1>1, <2>2, <2>4, JoinTokens
  <2>6. (1 + c) + 1 = c + 2 /\ (1 + c) + 0 = c + 1
    OBVIOUS
  <2> QED
    BY <2>3, <2>5, <2>6
<1> HIDE DEF m
<1>3. /\ head \in Text /\ Len(head) = ue + (c + 2)
      /\ \A t : \A k \in Nat : k < ue => (TokenAt(head, k, t) <=> TokenAt(s, k, t))
      /\ TokenAt(head, ue + 0, ":") /\ TokenAt(head, ue + (c + 1), "@")
  <2>1. PICK x \in Text : x = Upto(s, ue)
    BY <1>1, UptoTokens
  <2>2. Len(x) = ue /\ \A t : \A k \in Nat : k < ue => (TokenAt(x, k, t) <=> TokenAt(s, k, t))
    BY <1>1, <2>1, UptoTokens
  <2>3. /\ x \o m \in Text /\ Len(x \o m) = ue + (c + 2)
        /\ \A t : \A k \in Nat : k < ue => (TokenAt(x \o m, k, t) <=> TokenAt(x, k, t))
        /\ \A t : \A k \in Nat : TokenAt(x \o m, ue + k, t) <=> TokenAt(m, k, t)
    BY <1>2, <2>2, JoinTokens
  <2>4. TokenAt(x \o m, ue + 0, ":") /\ TokenAt(x \o m, ue + (c + 1), "@")
    BY <1>2, <2>3
  <2> QED
    BY <2>1, <2>2, <2>3, <2>4
<1> HIDE DEF head
<1>4. \A t : \A k \in Nat : k < ue + (c + 2) => (TokenAt(r, k, t) <=> TokenAt(head, k, t))
  <2>1. \A t : \A k \in Nat : k < Len(head) => (TokenAt(r, k, t) <=> TokenAt(head, k, t))
    BY <1>3, CutTokens
  <2> QED
    BY <1>3, <2>1
<1>5. Kept(r, s, se + 3) /\ Kept(r, s, ue)
  BY <1>3, <1>4 DEF Kept
<1>6. TokenAt(r, ue, ":") /\ TokenAt(r, ue + (c + 1), "@")
  <2>1. ue + 0 = ue /\ ue < ue + (c + 2) /\ ue + (c + 1) < ue + (c + 2) /\ ue + (c + 1) \in Nat
    OBVIOUS
  <2> QED
    BY <1>3, <1>4, <2>1
<1>7. /\ Len(head) + (hs - hs) = ue + (c + 2) /\ (ue + (c + 2)) - 1 = ue + (c + 1)
      /\ ue + (c + 2) >= ue + 3
  BY <1>1, <1>3
<1>8. UserinfoAt(r, se, ue, ue + (c + 2))
  BY <1>6, <1>7 DEF UserinfoAt
<1>9. r \in Text /\ Len(r) \in Nat /\ ue + (c + 2) <= Len(r)
  <2>1. r \in Text /\ Len(r) = (ue + (c + 2)) + (n - hs)
    <3>1. head \in Text /\ Len(head) = ue + (c + 2)
      BY <1>3
    <3>2. r \in Text /\ Len(r) = Len(head) + (Len(s) - hs)
      <4>1. CutOf(s, head, hs)
        BY <1>1, <3>1, CutHolds
      <4> QED
        BY <4>1, Zenon DEF CutOf
    <3> HIDE DEF r
    <3> QED
      BY <1>1, <3>1, <3>2
  <2> HIDE DEF r
  <2> QED
    BY <1>1, <2>1
<1>10. Slice(r, se + 3, ue) = Slice(s, se + 3, ue)
  <2>1. ue <= Len(s) /\ ue <= Len(r) /\ ue <= ue /\ se + 3 \in Nat
    BY <1>1, <1>9
  <2> HIDE DEF r
  <2> QED
    BY <1>5, <1>9, <2>1, SliceKept
<1>11. PasswordAt(r, ue, Len(head)) = e
  <2>1. PICK x \in Text : x = Upto(s, ue) \o <<":">> /\ head = (x \o e) \o <<"@">> /\ Len(x) = ue + 1
    <3>1. PICK z \in Text : z = Upto(s, ue) /\ Len(z) = ue
      BY <1>1, UptoTokens
    <3>2. <<":">> \in Text /\ Len(<<":">>) = 1 /\ <<"@">> \in Text
      BY TokensAssumption DEF Text
    <3>3. z \o <<":">> \in Text /\ Len(z \o <<":">>) = ue + 1
      BY <3>1, <3>2, JoinTokens
    <3>4. z \o (<<":">> \o e \o <<"@">>) = ((z \o <<":">>) \o e) \o <<"@">>
      BY <3>1, <3>2, ConcatAssociative, ConcatProperties, SMTT(30) DEF Text
    <3> QED
      BY <3>1, <3>3, <3>4 DEF head, m
  <2>2. PICK b \in Nat : b = ue + (c + 1) /\ b = Len(x) + Len(e) /\ b <= Len(r) /\ b < ue + (c + 2)
    <3>1. ue + (c + 1) \in Nat /\ ue + (c + 1) = Len(x) + Len(e) /\ ue + (c + 1) < ue + (c + 2)
      <4>1. Len(x) = ue + 1 /\ c = Len(e)
        BY <1>1, <2>1
      <4> QED
        BY <4>1
    <3> HIDE DEF r
    <3> QED
      BY <1>9, <3>1
  <2>3. Kept(r, x \o e, b)
    <3>1. x \o e \in Text /\ Len(x \o e) = b
      BY <2>1, <2>2, JoinTokens
    <3>2. <<"@">> \in Text
      BY TokensAssumption DEF Text
    <3>3. Kept((x \o e) \o <<"@">>, x \o e, b)
      BY <3>1, <3>2, JoinTokens DEF Kept
    <3> HIDE DEF r
    <3> QED
      BY <1>4, <2>1, <2>2, <3>3 DEF Kept
  <2>4. PICK a \in Nat : a = ue + 1 /\ a = Len(x)
    <3>1. Len(x) = ue + 1
      BY <2>1
    <3> QED
      BY <3>1
  <2> HIDE DEF r
  <2>5. Slice(r, a, b) = e
    <3>1. r \in Text /\ a = Len(x) /\ b = Len(x) + Len(e) /\ b <= Len(r)
      BY <1>9, <2>2, <2>4
    <3> QED
      BY <2>3, <3>1, WrittenSlice
  <2>6. Len(head) - 1 = b
    BY <1>1, <1>3, <2>2
  <2> QED
    BY <1>6, <2>4, <2>5, <2>6 DEF PasswordAt
<1>12. PasswordWritten(s, se, ue, hs, e)
  BY <1>10, <1>11 DEF PasswordWritten, head, m
<1> QED
  BY <1>3, <1>5, <1>7, <1>8, <1>12 DEF head, m

(* The text without the password slot.                                     *)
LEMMA NoPasswordText ==
  ASSUME NEW s \in Text, NEW se \in Nat, NEW ue \in Nat, NEW hs \in Nat, hs <= Len(s),
         UserinfoAt(s, se, ue, hs), TokenAt(s, ue, ":"), ~TokenAt(s, hs, ":")
  PROVE  LET end == IF ue = se + 3 THEN hs ELSE hs - 1
             r   == Upto(s, ue) \o From(s, end)
         IN /\ Upto(s, ue) \in Text /\ Len(Upto(s, ue)) = ue
            /\ end \in Nat /\ ue <= end /\ end <= hs
            /\ Kept(r, s, se + 3)
            /\ UserinfoAt(r, se, ue, ue + (hs - end))
            /\ PasswordGone(s, se, ue, hs)
<1> DEFINE end == IF ue = se + 3 THEN hs ELSE hs - 1
           r   == Upto(s, ue) \o From(s, end)
<1>1. PICK n \in Nat : n = Len(s)
  BY LenProperties DEF Text
<1>2. ue >= se + 3 /\ hs >= ue + 3 /\ TokenAt(s, hs - 1, "@")
  BY DEF UserinfoAt, TokenAt
<1>3. end \in Nat /\ ue <= end /\ end <= hs /\ ue <= n /\ end <= n
  BY <1>1, <1>2
<1>4. PICK x \in Text : x = Upto(s, ue)
  BY <1>1, <1>3, UptoTokens
<1>5. Len(x) = ue /\ \A t : \A k \in Nat : k < ue => (TokenAt(x, k, t) <=> TokenAt(s, k, t))
  BY <1>1, <1>3, <1>4, UptoTokens
<1>6. /\ \A t : \A k \in Nat : k < ue => (TokenAt(r, k, t) <=> TokenAt(x, k, t))
      /\ \A t : \A k \in Nat : TokenAt(r, ue + k, t) <=> TokenAt(s, end + k, t)
  <2> HIDE DEF end
  <2>1. /\ \A t : \A k \in Nat : k < Len(x) => (TokenAt(x \o From(s, end), k, t) <=> TokenAt(x, k, t))
        /\ \A t : \A k \in Nat : TokenAt(x \o From(s, end), Len(x) + k, t) <=> TokenAt(s, end + k, t)
    BY <1>1, <1>3, CutTokens
  <2> QED
    BY <1>4, <1>5, <2>1
<1>7. Kept(r, s, se + 3) /\ Kept(r, s, ue)
  BY <1>2, <1>5, <1>6 DEF Kept
<1>9. Slice(r, se + 3, ue) = Slice(s, se + 3, ue)
  <2>1. r \in Text /\ Len(r) = ue + (n - end)
    <3> HIDE DEF end
    <3>1. x \o From(s, end) \in Text /\ Len(x \o From(s, end)) = Len(x) + (Len(s) - end)
      <4>1. end \in Nat /\ end <= Len(s)
        BY <1>1, <1>3
      <4> QED
        BY <4>1, CutTokens
    <3> QED
      BY <1>1, <1>4, <1>5, <3>1
  <2>2. ue <= Len(s) /\ ue <= Len(r) /\ ue <= ue /\ se + 3 \in Nat /\ se + 3 <= ue
    <3> HIDE DEF end, r
    <3> QED
      BY <1>1, <1>2, <1>3, <2>1
  <2> HIDE DEF r
  <2> QED
    BY <1>7, <2>1, <2>2, SliceKept
<1>10. ~TokenAt(r, ue, ":")
  <2>1. PICK k \in Nat : k = end /\ ~TokenAt(s, k, ":")
    BY <1>2, <1>3 DEF TokenAt
  <2>2. k + 0 = k /\ ue + 0 = ue
    OBVIOUS
  <2> HIDE DEF r, end
  <2> QED
    BY <1>6, <2>1, <2>2
<1>11. PasswordGone(s, se, ue, hs)
  BY <1>9, <1>10 DEF PasswordGone, PasswordAt
<1>8. UserinfoAt(r, se, ue, ue + (hs - end))
  <2>1. CASE ue = se + 3
    BY <2>1 DEF UserinfoAt
  <2>2. CASE ue # se + 3
    <3>1. TokenAt(r, ue + 0, "@")
      <4>1. end = hs - 1 /\ (hs - 1) + 0 = hs - 1
        BY <2>2
      <4>2. TokenAt(s, end + 0, "@")
        BY <1>2, <4>1
      <4> QED
        BY <1>6, <4>2
    <3>2. ue + 0 = ue /\ ue + (hs - end) = ue + 1 /\ ue > se + 3
      BY <1>2, <2>2
    <3> HIDE DEF end, r
    <3> QED
      BY <3>1, <3>2 DEF UserinfoAt
  <2> QED
    BY <2>1, <2>2
<1> QED
  BY <1>3, <1>4, <1>5, <1>7, <1>8, <1>11

LEMMA EncodeNothing == \A set : Encode(<<>>, set) = <<>>
BY DEF Encode

LEMMA WithoutPasswordSound ==
  ASSUME NEW u \in Records, LaidOut(u), WithAuthority(u), HasPasswordSlot(u),
         Fits(WithoutPassword(u))
  PROVE  /\ WithoutPassword(u) \in Records /\ LaidOut(WithoutPassword(u))
         /\ WithoutPassword(u).flags = u.flags
         /\ Components(WithoutPassword(u)) = PutPassword(Components(u), <<>>)
<1> DEFINE s == u.ser             se == u.scheme_end   ue == u.username_end
           hs == u.host_start     he == u.host_end     pt == u.port
           ps == u.path_start     qs == u.query_start  fs == u.fragment_start
           fl == u.flags
           end == IF ue = se + 3 THEN hs ELSE hs - 1
           h   == Upto(s, ue)
           r   == h \o From(s, end)
           v   == WithoutPassword(u)
           a(x) == Adjust(x, end, Len(h))
           o(x) == AdjustOpt(x, end, Len(h))
           z == Rec(r, se, ue, a(hs), a(he), pt, a(ps), o(qs), o(fs), fl)
<1>0. u = Rec(s, se, ue, hs, he, pt, ps, qs, fs, fl)
  BY Fields
<1>1. Hosted(s, se, ue, hs, he, pt, ps, qs, fs, fl) /\ TokenAt(s, ue, ":")
  BY HostedFields DEF HasPasswordSlot
<1>2. /\ v.ser = r /\ v.scheme_end = se /\ v.username_end = ue
      /\ v.host_start = hs - (end - ue) /\ v.host_end = he - (end - ue)
      /\ v.port = pt /\ v.path_start = ps - (end - ue)
      /\ v.query_start = (IF qs = NONE THEN NONE ELSE qs - (end - ue))
      /\ v.fragment_start = (IF fs = NONE THEN NONE ELSE fs - (end - ue)) /\ v.flags = fl
  BY DEF WithoutPassword, Records
<1>3. Len(v.ser) + 6 < U32Max
  BY DEF Fits
<1> HIDE DEF s, se, ue, hs, he, pt, ps, qs, fs, fl, v
<1>4. /\ s \in Text /\ Len(s) \in Nat /\ hs \in Nat /\ hs <= Len(s) /\ se \in Nat /\ ue \in Nat
      /\ he \in Nat /\ ps \in Nat /\ qs \in Nat /\ fs \in Nat /\ se \in Offset
  <2>1. /\ se + 3 <= ue /\ ue <= hs /\ hs <= he /\ he <= ps /\ ps <= Len(s)
        /\ Len(s) \in Nat /\ ps <= U32Max
    BY <1>1, HostedBounds
  <2>2. /\ s \in Text /\ se \in Nat /\ ue \in Nat /\ hs \in Nat /\ he \in Nat
        /\ ps \in Offset /\ qs \in Offset /\ fs \in Offset
    BY <1>1 DEF Hosted
  <2> QED
    BY <2>1, <2>2, U32MaxAssumption DEF Offset
<1>5. /\ h \in Text /\ Len(h) = ue /\ end \in Nat /\ ue <= end /\ end <= hs
      /\ Kept(r, s, se + 3) /\ UserinfoAt(r, se, ue, ue + (hs - end))
      /\ Slice(r, se + 3, ue) = Slice(s, se + 3, ue)
      /\ \A x : PasswordAt(r, ue, x) = <<>>
  <2>1. UserinfoAt(s, se, ue, hs) /\ ~TokenAt(s, hs, ":")
    BY <1>1 DEF Hosted, AuthorityAt, HostAt
  <2>2. PasswordGone(s, se, ue, hs)
    BY <1>1, <1>4, <2>1, NoPasswordText
  <2> QED
    BY <1>1, <1>4, <2>1, <2>2, NoPasswordText DEF PasswordGone
<1> HIDE DEF end, h
<1>6. r \in Text /\ Len(r) < U32Max
  <2>1. r \in Text
    BY <1>4, <1>5, CutTokens
  <2>2. Len(r) \in Nat
    BY <2>1, LenProperties DEF Text
  <2> HIDE DEF r
  <2> QED
    BY <1>2, <1>3, <2>1, <2>2, U32MaxAssumption
<1>7. /\ Hosted(r, se, ue, a(hs), a(he), pt, a(ps), o(qs), o(fs), fl)
      /\ a(hs) = Len(h) + (hs - end) /\ a(he) = Len(h) + (he - end)
      /\ a(ps) = Len(h) + (ps - end)
      /\ o(qs) = Moved(qs, ps, Len(h) + (ps - end)) /\ o(fs) = Moved(fs, ps, Len(h) + (ps - end))
  <2>1. UserinfoAt(r, se, ue, Len(h) + (hs - end))
    BY <1>5
  <2> QED
    <3>1. h \in Text /\ end \in Nat /\ end <= hs /\ Kept(r, s, se + 3) /\ ue \in Nat
      BY <1>4, <1>5
    <3> QED
      BY <1>1, <1>6, <2>1, <3>1, UserinfoRewritten
<1>12. Components(z) = PutPassword(Components(u), <<>>)
  <2>1. UserinfoAt(r, se, ue, Len(h) + (hs - end))
    BY <1>5
  <2>2. h \in Text /\ end \in Nat /\ end <= hs /\ Kept(r, s, se + 3) /\ ue \in Nat
    BY <1>4, <1>5
  <2>3. Components(z) = PutPassword(PutUsername(Components(u), Slice(r, se + 3, ue)),
                                    PasswordAt(r, ue, a(hs)))
    BY <1>0, <1>1, <1>6, <2>1, <2>2, UserinfoParts
  <2> HIDE DEF r, a, z
  <2>4. Components(z) = PutPassword(PutUsername(Components(u), Slice(s, se + 3, ue)), <<>>)
    BY <1>5, <2>3
  <2> QED
    BY <1>0, <1>1, <2>4, CredentialPuts
<1> HIDE DEF r, a, o
<1>8. z \in Records /\ LaidOut(z)
  BY <1>7, HostedRecord
<1>9. /\ v.host_start = a(hs) /\ v.host_end = a(he) /\ v.path_start = a(ps)
      /\ v.query_start = o(qs) /\ v.fragment_start = o(fs)
  BY <1>2, <1>4, <1>5, <1>7 DEF Moved
<1>10. v \in Records
  <2>1. /\ a(hs) \in Offset /\ a(he) \in Offset /\ a(ps) \in Offset
        /\ o(qs) \in Offset /\ o(fs) \in Offset
    BY <1>8 DEF Records, Rec
  <2>2. v = [u EXCEPT !.ser = v.ser, !.host_start = v.host_start, !.host_end = v.host_end,
                      !.path_start = v.path_start, !.query_start = v.query_start,
                      !.fragment_start = v.fragment_start]
    BY DEF v, WithoutPassword, Records
  <2> QED
    BY <1>2, <1>6, <1>9, <2>1, <2>2 DEF Records
<1>11. v = z
  BY <1>2, <1>9, <1>10, FieldsOf
<1> HIDE DEF z
<1> QED
  BY <1>2, <1>8, <1>11, <1>12 DEF v, fl

LEMMA SetPasswordSound ==
  ASSUME NEW u \in Records, LaidOut(u), NEW password \in Text
  PROVE  LET r == SetPassword(u, password)
         IN /\ Sound(r)
            /\ Fits(r.url) =>
                 \/ r.url = u
                 \/ /\ ~CannotHaveUsernamePasswordPort(u)
                    /\ Gives(u, r.url, PutPassword(Components(u), EncodeUserinfo(password)))
<1> DEFINE s == u.ser             se == u.scheme_end   ue == u.username_end
           hs == u.host_start     he == u.host_end     pt == u.port
           ps == u.path_start     qs == u.query_start  fs == u.fragment_start
           fl == u.flags
           e    == EncodeUserinfo(password)
           head == Upto(s, ue) \o (<<":">> \o e \o <<"@">>)
           r    == head \o From(s, hs)
           v    == MovePath([u EXCEPT !.ser = r, !.host_start = Len(head),
                                      !.host_end = Adjust(@, hs, Len(head))], hs, Len(head))
           w    == SyncCredentialFlags(v)
           v0   == WithoutPassword(u)
           w0   == SyncCredentialFlags(v0)
<1>1. \/ SetPassword(u, password) \in {Err(u), Ok(u)}
      \/ /\ ~HostIsNullOrEmpty(u) /\ ~CannotHaveUsernamePasswordPort(u)
         /\ \/ HasPasswordSlot(u) /\ password = <<>> /\ SetPassword(u, password) = Ok(w0)
            \/ /\ password # <<>>
               /\ \/ Len(head) > U32Max /\ SetPassword(u, password) = Err([u EXCEPT !.ser = head])
                  \/ SetPassword(u, password) = Ok(w)
  BY DEF SetPassword, CannotHaveUsernamePasswordPort
<1>2. SUFFICES ASSUME ~HostIsNullOrEmpty(u)
               PROVE  /\ HasPasswordSlot(u) /\ password = <<>> =>
                           /\ Sound(Ok(w0))
                           /\ Fits(w0) => Gives(u, w0, PutPassword(Components(u), e))
                      /\ password # <<>> =>
                           /\ Len(head) > U32Max => /\ Sound(Err([u EXCEPT !.ser = head]))
                                                    /\ ~Fits([u EXCEPT !.ser = head])
                           /\ Sound(Ok(w))
                           /\ Fits(w) => Gives(u, w, PutPassword(Components(u), e))
  <2>1. Err(u).url = u /\ Ok(u).url = u /\ Ok(w).url = w /\ Ok(w0).url = w0
    BY DEF Err, Ok
  <2>2. Err([u EXCEPT !.ser = head]).url = [u EXCEPT !.ser = head]
    BY DEF Err
  <2> HIDE DEF head, w, w0
  <2> QED
    BY <1>1, <2>1, <2>2, RefusedSound
<1>3. ASSUME HasPasswordSlot(u), password = <<>>
      PROVE  /\ Sound(Ok(w0))
             /\ Fits(w0) => Gives(u, w0, PutPassword(Components(u), e))
  <2>1. w0.ser = v0.ser
    BY DEF SyncCredentialFlags, WithoutPassword, Records
  <2>2. Fits(w0) => Fits(v0)
    BY <2>1 DEF Fits
  <2>3. SUFFICES ASSUME Fits(w0)
                 PROVE  /\ w0 \in Records /\ LaidOut(w0)
                        /\ Gives(u, w0, PutPassword(Components(u), e))
    BY DEF Sound, Ok
  <2>4. /\ v0 \in Records /\ LaidOut(v0) /\ v0.flags = u.flags
        /\ Components(v0) = PutPassword(Components(u), <<>>)
    BY <1>2, <1>3, <2>2, <2>3, HostMeansAuthority, WithoutPasswordSound
  <2>5. e = <<>>
    BY <1>3, EncodeNothing DEF EncodeUserinfo
  <2>6. /\ PutPassword(Components(u), <<>>).scheme = Components(u).scheme
        /\ PutPassword(Components(u), <<>>).host = Components(u).host
    BY <1>2, HostMeansAuthority, HostedFields, Fields, CredentialPuts
  <2> HIDE DEF v0, e
  <2> QED
    BY <2>4, <2>5, <2>6, FlagsSynced, SyncedGives
<1>4. u = Rec(s, se, ue, hs, he, pt, ps, qs, fs, fl) /\ se \in Offset /\ ue \in Offset
  BY Fields
<1>5. Hosted(s, se, ue, hs, he, pt, ps, qs, fs, fl)
  BY <1>2, HostMeansAuthority, HostedFields
<1> HIDE DEF s, se, ue, hs, he, pt, ps, qs, fs, fl
<1>6. SUFFICES ASSUME password # <<>>
               PROVE  /\ Len(head) > U32Max => /\ Sound(Err([u EXCEPT !.ser = head]))
                                               /\ ~Fits([u EXCEPT !.ser = head])
                      /\ Sound(Ok(w))
                      /\ Fits(w) => Gives(u, w, PutPassword(Components(u), e))
  BY <1>3
<1>7. e \in Text /\ e # <<>>
  <2>1. e \in Text /\ Len(e) = Len(password)
    BY EncodeFacts DEF EncodeUserinfo, Encoding, UserinfoSet
  <2>2. Len(password) # 0 /\ (e = <<>> => Len(e) = 0)
    BY <1>6, EmptySeq, LenProperties DEF Text
  <2> QED
    BY <2>1, <2>2
<1>8. /\ s \in Text /\ Len(s) \in Nat /\ hs \in Nat /\ hs <= Len(s) /\ se \in Nat /\ ue \in Nat
      /\ se + 3 <= ue /\ ue <= hs
  BY <1>5, HostedBounds DEF Hosted
<1>9. /\ head \in Text /\ Len(head) \in Nat
      /\ Kept(r, s, se + 3) /\ UserinfoAt(r, se, ue, Len(head) + (hs - hs))
      /\ Slice(r, se + 3, ue) = Slice(s, se + 3, ue)
      /\ PasswordAt(r, ue, Len(head)) = e
  <2> HIDE DEF e
  <2>1. PasswordWritten(s, se, ue, hs, e)
    BY <1>7, <1>8, PasswordText
  <2> QED
    BY <1>7, <1>8, <2>1, PasswordText DEF PasswordWritten
<1>10. Len(head) > U32Max => /\ Sound(Err([u EXCEPT !.ser = head]))
                             /\ ~Fits([u EXCEPT !.ser = head])
  BY <1>9, TruncatedSound
<1> HIDE DEF e, head
<1>11. ASSUME Fits(w)
       PROVE  w \in Records /\ LaidOut(w) /\ Gives(u, w, PutPassword(Components(u), e))
  <2>1. w.ser = r
    BY <1>4 DEF SyncCredentialFlags, MovePath, MoveQueryAndFragment, Rec
  <2>2. r \in Text /\ Len(r) < U32Max
    <3>1. r \in Text
      BY <1>8, <1>9, CutTokens
    <3>2. Len(r) \in Nat
      BY <3>1, LenProperties DEF Text
    <3> HIDE DEF r
    <3> QED
      BY <1>11, <2>1, <3>1, <3>2, U32MaxAssumption DEF Fits
  <2> DEFINE a(x) == Adjust(x, hs, Len(head))
             o(x) == AdjustOpt(x, hs, Len(head))
             z == Rec(r, se, ue, a(hs), a(he), pt, a(ps), o(qs), o(fs), fl)
  <2>3. /\ Hosted(r, se, ue, a(hs), a(he), pt, a(ps), o(qs), o(fs), fl)
        /\ a(hs) = Len(head) + (hs - hs)
    BY <1>5, <1>8, <1>9, <2>2, UserinfoRewritten
  <2>4. a(hs) = Len(head)
    BY <1>8, <1>9, <2>3
  <2>9. Components(z) = PutPassword(Components(u), e)
    <3>1. Components(z) = PutPassword(PutUsername(Components(u), Slice(r, se + 3, ue)),
                                      PasswordAt(r, ue, a(hs)))
      BY <1>4, <1>5, <1>8, <1>9, <2>2, UserinfoParts, SMTT(30)
    <3> HIDE DEF r, a, z
    <3>2. Components(z) = PutPassword(PutUsername(Components(u), Slice(s, se + 3, ue)), e)
      BY <1>9, <2>4, <3>1
    <3> QED
      BY <1>4, <1>5, <3>2, CredentialPuts
  <2> HIDE DEF r
  <2>5. z \in Records /\ LaidOut(z)
    BY <2>3, HostedRecord
  <2>6. v \in Records
    <3>1. /\ Len(head) \in Offset /\ a(he) \in Offset /\ a(ps) \in Offset
          /\ o(qs) \in Offset /\ o(fs) \in Offset
      BY <2>4, <2>5 DEF Records, Rec
    <3>2. he = u.host_end /\ ps = u.path_start /\ qs = u.query_start /\ fs = u.fragment_start
      BY DEF he, ps, qs, fs
    <3> QED
      BY <2>2, <3>1, <3>2 DEF MovePath, MoveQueryAndFragment, Records
  <2>7. /\ v.ser = r /\ v.scheme_end = se /\ v.username_end = ue
        /\ v.host_start = a(hs) /\ v.host_end = a(he) /\ v.port = pt
        /\ v.path_start = a(ps) /\ v.query_start = o(qs) /\ v.fragment_start = o(fs)
        /\ v.flags = fl
    BY <1>4, <2>4 DEF MovePath, MoveQueryAndFragment, Rec
  <2>8. v = z
    BY <2>6, <2>7, FieldsOf
  <2>10. v.flags = u.flags
    BY <2>7 DEF fl
  <2>11. /\ Components(v).scheme = Components(u).scheme
         /\ Components(v).host = Components(u).host
    BY <1>4, <1>5, <2>8, <2>9, CredentialPuts
  <2> HIDE DEF v, z
  <2> QED
    BY <2>5, <2>8, <2>9, <2>10, <2>11, FlagsSynced, SyncedGives
<1> HIDE DEF w
<1> QED
  BY <1>10, <1>11 DEF Sound, Ok
-----------------------------------------------------------------------------
(* set_port.                                                               *)

(* The userinfo lies in front of the host.                                 *)
LEMMA UserinfoKept ==
  ASSUME NEW s, NEW r, NEW se \in Nat, NEW ue \in Nat, NEW hs \in Nat, NEW n \in Nat,
         UserinfoAt(s, se, ue, hs), Kept(r, s, n), hs <= n
  PROVE  UserinfoAt(r, se, ue, hs)
<1>1. CASE hs = se + 3 /\ ue = hs
  BY <1>1 DEF UserinfoAt
<1>2. CASE ue > se + 3 /\ hs = ue + 1 /\ TokenAt(s, ue, "@")
  <2>1. TokenAt(r, ue, "@")
    BY <1>2 DEF Kept
  <2> QED
    BY <1>2, <2>1 DEF UserinfoAt
<1>3. CASE ue >= se + 3 /\ hs >= ue + 3 /\ TokenAt(s, ue, ":") /\ TokenAt(s, hs - 1, "@")
  <2>1. hs - 1 \in Nat /\ hs - 1 < n /\ ue < n
    BY <1>3
  <2>2. TokenAt(r, ue, ":") /\ TokenAt(r, hs - 1, "@")
    BY <1>3, <2>1 DEF Kept
  <2> QED
    BY <1>3, <2>2 DEF UserinfoAt
<1> QED
  BY <1>1, <1>2, <1>3 DEF UserinfoAt

(* Scheme, credentials and host of a record whose text was kept up to the *)
(* end of the host.                                                        *)
SameAuthority(r, s, se, ue, hs, he) ==
  /\ Upto(r, se) = Upto(s, se)
  /\ Slice(r, se + 3, ue) = Slice(s, se + 3, ue)
  /\ PasswordAt(r, ue, hs) = PasswordAt(s, ue, hs)
  /\ Slice(r, hs, he) = Slice(s, hs, he)

LEMMA KeptAuthority ==
  ASSUME NEW s \in Text, NEW r \in Text, NEW se \in Nat, NEW ue \in Nat, NEW hs \in Nat,
         NEW he \in Nat, se + 3 <= ue, ue <= hs, hs <= he, he <= Len(s), he <= Len(r),
         Kept(r, s, he), UserinfoAt(s, se, ue, hs),
         ~TokenAt(s, hs, ":"), ~TokenAt(r, hs, ":")
  PROVE  SameAuthority(r, s, se, ue, hs, he)
<1>1. Len(s) \in Nat /\ Len(r) \in Nat
  BY LenProperties DEF Text
<1>2. \A x, y \in Nat : x <= y /\ y <= he => Slice(r, x, y) = Slice(s, x, y)
  BY SliceKept
<1>3. Slice(r, se + 3, ue) = Slice(s, se + 3, ue)
  <2>1. PICK x \in Nat : x = se + 3 /\ x <= ue /\ ue <= he
    <3>1. se + 3 \in Nat /\ ue <= he
      OBVIOUS
    <3> QED
      BY <3>1
  <2> QED
    BY <1>2, <2>1
<1>4. Slice(r, hs, he) = Slice(s, hs, he)
  BY <1>2
<1>5. PasswordAt(r, ue, hs) = PasswordAt(s, ue, hs)
  <2>1. CASE ue = hs
    BY <2>1 DEF PasswordAt
  <2>2. CASE ue < hs
    <3>1. TokenAt(r, ue, ":") <=> TokenAt(s, ue, ":")
      <4>1. ue < he
        BY <2>2
      <4> QED
        BY <4>1 DEF Kept
    <3>2. CASE TokenAt(s, ue, ":")
      <4>1. PICK x \in Nat, y \in Nat : x = ue + 1 /\ y = hs - 1 /\ x <= y /\ y <= he
        <5>1. ue + 1 \in Nat /\ hs - 1 \in Nat /\ ue + 1 <= hs - 1 /\ hs - 1 <= he
          BY <2>2, <3>2 DEF UserinfoAt, TokenAt
        <5> QED
          BY <5>1
      <4>2. Slice(r, x, y) = Slice(s, x, y)
        BY <1>2, <4>1
      <4> QED
        BY <3>1, <3>2, <4>1, <4>2 DEF PasswordAt
    <3> QED
      BY <3>1, <3>2 DEF PasswordAt
  <2> QED
    BY <2>1, <2>2
<1>6. Upto(r, se) = Upto(s, se)
  <2>1. Kept(r, s, se) /\ se <= Len(r) /\ se <= Len(s)
    BY <1>1 DEF Kept
  <2> QED
    BY <2>1, UptoKept
<1> QED
  BY <1>3, <1>4, <1>5, <1>6 DEF SameAuthority

(* A setter of what stands behind the host and its port leaves everything  *)
(* in front of it alone.                                                   *)
SameFront(d, c) ==
  /\ d.scheme = c.scheme /\ d.username = c.username /\ d.password = c.password
  /\ d.host = c.host /\ d.port = c.port /\ d.opaque = c.opaque

TailIs(v, path, query, fragment) == Path(v) = path /\ Query(v) = query /\ Fragment(v) = fragment

LEMMA FrontGives ==
  ASSUME NEW u \in Records, LaidOut(u), NEW v \in Records, LaidOut(v), v.flags = u.flags,
         SameFront(Components(v), Components(u)), NEW x
  PROVE  /\ TailIs(v, x, Query(u), Fragment(u)) => Gives(u, v, PutPath(Components(u), x))
         /\ TailIs(v, Path(u), x, Fragment(u)) => Gives(u, v, PutQuery(Components(u), x))
         /\ TailIs(v, Path(u), Query(u), x) => Gives(u, v, PutFragment(Components(u), x))
<1> DEFINE c == Components(u)
           d == Components(v)
<1>1. /\ c = PartsOf(c.scheme, c.username, c.password, c.host, c.port, Path(u), c.opaque,
                     Query(u), Fragment(u))
      /\ d = PartsOf(d.scheme, d.username, d.password, d.host, d.port, Path(v), d.opaque,
                     Query(v), Fragment(v))
  BY DEF Components, PartsOf
<1>2. FlagsMatch(u) => FlagsMatch(v)
  BY FlagsStay DEF SameFront
<1> HIDE DEF c, d
<1>3. PICK sc, un, pw, ho, po, op :
        /\ c = PartsOf(sc, un, pw, ho, po, Path(u), op, Query(u), Fragment(u))
        /\ d = PartsOf(sc, un, pw, ho, po, Path(v), op, Query(v), Fragment(v))
  BY <1>1 DEF SameFront, c, d
<1>4. /\ PutPath(c, x) = PartsOf(sc, un, pw, ho, po, x, op, Query(u), Fragment(u))
      /\ PutQuery(c, x) = PartsOf(sc, un, pw, ho, po, Path(u), op, x, Fragment(u))
      /\ PutFragment(c, x) = PartsOf(sc, un, pw, ho, po, Path(u), op, Query(u), x)
  BY <1>3, PathPut, QueryPut, FragmentPut
<1> QED
  BY <1>2, <1>3, <1>4 DEF Gives, TailIs, c, d

FrontKept(v, u) == SameFront(Components(v), Components(u)) /\ Path(v) = Path(u)

LEMMA HostedFront ==
  ASSUME NEW s, NEW se, NEW ue, NEW hs, NEW he, NEW pt, NEW ps, NEW qs, NEW fs, NEW fl,
         Hosted(s, se, ue, hs, he, pt, ps, qs, fs, fl),
         NEW r, NEW ps2, NEW qs2, NEW fs2, NEW fl2,
         Hosted(r, se, ue, hs, he, pt, ps2, qs2, fs2, fl2),
         SameAuthority(r, s, se, ue, hs, he)
  PROVE  SameFront(Components(Rec(r, se, ue, hs, he, pt, ps2, qs2, fs2, fl2)),
                   Components(Rec(s, se, ue, hs, he, pt, ps, qs, fs, fl)))
<1> DEFINE c == Components(Rec(s, se, ue, hs, he, pt, ps, qs, fs, fl))
           d == Components(Rec(r, se, ue, hs, he, pt, ps2, qs2, fs2, fl2))
<1>1. c = HostedParts(s, se, ue, hs, he, pt, Part(s, ps, qs, fs))
  BY HostedComponents
<1>2. d = HostedParts(r, se, ue, hs, he, pt, Part(r, ps2, qs2, fs2))
  BY HostedComponents
<1> HIDE DEF c, d
<1>3. /\ c.scheme = Upto(s, se) /\ c.username = Slice(s, se + 3, ue)
      /\ c.password = PasswordAt(s, ue, hs) /\ c.host = {Slice(s, hs, he)}
      /\ c.port = pt /\ c.opaque = NotOpaque
  BY <1>1 DEF HostedParts, PartsOf
<1>4. /\ d.scheme = Upto(r, se) /\ d.username = Slice(r, se + 3, ue)
      /\ d.password = PasswordAt(r, ue, hs) /\ d.host = {Slice(r, hs, he)}
      /\ d.port = pt /\ d.opaque = NotOpaque
  BY <1>2 DEF HostedParts, PartsOf
<1> QED
  BY <1>3, <1>4 DEF SameFront, SameAuthority, c, d

LEMMA BareFront ==
  ASSUME NEW s \in Text, NEW se \in Nat, NEW ue, NEW hs, NEW he, NEW pt, NEW ps, NEW qs, NEW fs,
         NEW fl, NoAuthorityAt(s, se, ue, hs, he, pt, ps, qs, fs, fl),
         NEW r \in Text, NEW ps2, NEW qs2, NEW fs2,
         NoAuthorityAt(r, se, ue, hs, he, pt, ps2, qs2, fs2, fl),
         Upto(r, se) = Upto(s, se)
  PROVE  SameFront(Components(Rec(r, se, ue, hs, he, pt, ps2, qs2, fs2, fl)),
                   Components(Rec(s, se, ue, hs, he, pt, ps, qs, fs, fl)))
<1> DEFINE c == Components(Rec(s, se, ue, hs, he, pt, ps, qs, fs, fl))
           d == Components(Rec(r, se, ue, hs, he, pt, ps2, qs2, fs2, fl))
<1>1. c = BareParts(s, se, fl, Part(s, ps, qs, fs))
  BY BareComponents
<1>2. d = BareParts(r, se, fl, Part(r, ps2, qs2, fs2))
  BY BareComponents
<1> HIDE DEF c, d
<1>3. /\ c.scheme = Upto(s, se) /\ c.username = <<>> /\ c.password = <<>> /\ c.host = {}
      /\ c.port = NoPort /\ c.opaque = Opaque(fl)
  BY <1>1 DEF BareParts, PartsOf
<1>4. /\ d.scheme = Upto(r, se) /\ d.username = <<>> /\ d.password = <<>> /\ d.host = {}
      /\ d.port = NoPort /\ d.opaque = Opaque(fl)
  BY <1>2 DEF BareParts, PartsOf
<1> QED
  BY <1>3, <1>4 DEF SameFront, c, d

(* The port p rewritten behind a host that is not empty.                   *)
LEMMA PortRewritten ==
  ASSUME NEW s, NEW se, NEW ue, NEW hs, NEW he, NEW pt, NEW ps, NEW qs, NEW fs, NEW fl,
         Hosted(s, se, ue, hs, he, pt, ps, qs, fs, fl), hs < he, NEW p \in 0..NoPort,
         Len(Upto(s, he) \o PortSuffix(p) \o From(s, ps)) < U32Max
  PROVE  LET head == Upto(s, he) \o PortSuffix(p)
         IN /\ Hosted(head \o From(s, ps), se, ue, hs, he, p, Len(head),
                      AdjustOpt(qs, ps, Len(head)), AdjustOpt(fs, ps, Len(head)), fl)
            /\ Len(head) = he + Len(PortSuffix(p)) /\ Len(head) \in Offset
            /\ AdjustOpt(qs, ps, Len(head)) = Moved(qs, ps, Len(head))
            /\ AdjustOpt(fs, ps, Len(head)) = Moved(fs, ps, Len(head))
            /\ SameAuthority(head \o From(s, ps), s, se, ue, hs, he)
            /\ SameTail(Part(head \o From(s, ps), Len(head), AdjustOpt(qs, ps, Len(head)),
                              AdjustOpt(fs, ps, Len(head))), Part(s, ps, qs, fs))
<1> DEFINE head == Upto(s, he) \o PortSuffix(p)
           r == head \o From(s, ps)
           o(x) == AdjustOpt(x, ps, Len(head))
<1>1. /\ s \in Text /\ se \in Nat /\ ue \in Nat /\ hs \in Nat /\ he \in Nat /\ ps \in Nat
      /\ qs \in Offset /\ fs \in Offset /\ Tails(Part(s, ps, qs, fs))
      /\ Rooted(Part(s, ps, qs, fs)) /\ se + 3 <= ue /\ ue <= hs /\ he <= ps /\ ps <= Len(s)
      /\ Len(s) \in Nat
  BY HostedBounds DEF Hosted
<1>2. PICK l \in Nat : l = Len(PortSuffix(p))
  BY PortSuffixFacts
<1>3. PICK x \in Text : x = Upto(s, he)
  BY <1>1, UptoTokens
<1>4. Len(x) = he /\ \A t : \A k \in Nat : k < he => (TokenAt(x, k, t) <=> TokenAt(s, k, t))
  BY <1>1, <1>3, UptoTokens
<1>5. /\ head \in Text /\ Len(head) = he + l
      /\ \A t : \A k \in Nat : k < he => (TokenAt(head, k, t) <=> TokenAt(s, k, t))
      /\ TextAt(head, he, PortSuffix(p))
  <2>1. PortSuffix(p) \in Text
    BY PortSuffixFacts
  <2>2. /\ x \o PortSuffix(p) \in Text /\ Len(x \o PortSuffix(p)) = Len(x) + Len(PortSuffix(p))
        /\ \A t : \A k \in Nat : k < Len(x) => (TokenAt(x \o PortSuffix(p), k, t) <=> TokenAt(x, k, t))
        /\ TextAt(x \o PortSuffix(p), Len(x), PortSuffix(p))
    BY <2>1, JoinTokens, WrittenText
  <2> QED
    BY <1>2, <1>3, <1>4, <2>2
<1> HIDE DEF head
<1>6. /\ r \in Text /\ Len(r) \in Nat /\ Len(head) <= Len(r)
      /\ \A t : \A k \in Nat : k < Len(head) => (TokenAt(r, k, t) <=> TokenAt(head, k, t))
  <2>1. /\ r \in Text /\ Len(r) = Len(head) + (Len(s) - ps)
        /\ \A t : \A k \in Nat : k < Len(head) => (TokenAt(r, k, t) <=> TokenAt(head, k, t))
    BY <1>1, <1>5, CutTokens
  <2>2. Len(head) \in Nat
    BY <1>1, <1>5
  <2> QED
    BY <1>1, <2>1, <2>2
<1>7. Kept(r, s, he)
  BY <1>1, <1>2, <1>5, <1>6 DEF Kept
<1>8. /\ Adjust(ps, ps, Len(head)) = Len(head) + (ps - ps) /\ Adjust(ps, ps, Len(head)) \in Offset
      /\ o(qs) \in Offset /\ o(fs) \in Offset
      /\ o(qs) = Moved(qs, ps, Adjust(ps, ps, Len(head)))
      /\ o(fs) = Moved(fs, ps, Adjust(ps, ps, Len(head)))
      /\ Tails(Part(r, Adjust(ps, ps, Len(head)), o(qs), o(fs)))
      /\ Rooted(Part(r, Adjust(ps, ps, Len(head)), o(qs), o(fs)))
  <2>1. Len(head \o From(s, ps)) < U32Max /\ ps <= ps
    BY <1>1 DEF head
  <2>2. head \in Text
    BY <1>5
  <2> QED
    BY <1>1, <2>1, <2>2, Rebuilt
<1>9. Adjust(ps, ps, Len(head)) = Len(head)
  BY <1>1, <1>2, <1>5, <1>8
<1>10. UserinfoAt(r, se, ue, hs)
  BY <1>1, <1>7, UserinfoKept DEF Hosted, AuthorityAt
<1>11. HostAt(r, hs, he, p, Len(head))
  <2>1. ~TokenAt(r, hs, "@") /\ ~TokenAt(r, hs, ":")
    BY <1>1, <1>7 DEF Hosted, AuthorityAt, HostAt, Kept
  <2>2. TextAt(r, he, PortSuffix(p))
    <3>1. he + Len(PortSuffix(p)) <= Len(head) /\ PortSuffix(p) \in Text
      BY <1>1, <1>2, <1>5, PortSuffixFacts
    <3>2. TextAt(head, he, PortSuffix(p)) /\ head \in Text
      BY <1>5
    <3> HIDE DEF r
    <3> QED
      BY <1>1, <1>6, <3>1, <3>2, HeadText
  <2> QED
    BY <1>1, <1>2, <1>5, <2>1, <2>2 DEF HostAt
<1>12. AuthorityAt(r, se, ue, hs, he, p, Len(head)) /\ TokenAt(r, se, ":")
  <2>1. \A k \in {se, se + 1, se + 2} : k \in Nat /\ k < he
    BY <1>1
  <2>2. TokenAt(r, se, ":") /\ TokenAt(r, se + 1, "/") /\ TokenAt(r, se + 2, "/")
    BY <1>7, <2>1 DEF Kept, Hosted, AuthorityAt
  <2> QED
    BY <1>10, <1>11, <2>2 DEF AuthorityAt
<1>14. SameAuthority(r, s, se, ue, hs, he)
  <2>1. ~TokenAt(r, hs, ":") /\ ~TokenAt(s, hs, ":") /\ UserinfoAt(s, se, ue, hs)
    BY <1>11 DEF HostAt, Hosted, AuthorityAt
  <2>2. he <= Len(s) /\ he <= Len(r) /\ hs <= he
    <3> HIDE DEF r
    <3> QED
      BY <1>1, <1>2, <1>5, <1>6
  <2> HIDE DEF r
  <2> QED
    BY <1>1, <1>6, <1>7, <2>1, <2>2, KeptAuthority
<1>15. SameTail(Part(r, Len(head), o(qs), o(fs)), Part(s, ps, qs, fs))
  <2>1. /\ Len(head) = Len(head) + (ps - ps) /\ qs \in Nat /\ fs \in Nat /\ ps <= ps
        /\ Len(head \o From(s, ps)) < U32Max
    BY <1>1, <1>2, <1>5, U32MaxAssumption DEF Offset, head
  <2>2. /\ head \in Text
        /\ o(qs) = Moved(qs, ps, Len(head)) /\ o(fs) = Moved(fs, ps, Len(head))
    BY <1>5, <1>8, <1>9
  <2> HIDE DEF o
  <2> QED
    BY <1>1, <2>1, <2>2, TailText
<1> HIDE DEF r, o
<1>13. Hosted(r, se, ue, hs, he, p, Len(head), o(qs), o(fs), fl)
  BY <1>1, <1>6, <1>8, <1>9, <1>12 DEF Hosted
<1> QED
  BY <1>2, <1>5, <1>8, <1>9, <1>13, <1>14, <1>15 DEF head, r, o

LEMMA PortParts ==
  ASSUME NEW s, NEW se, NEW ue, NEW hs, NEW he, NEW pt, NEW ps, NEW qs, NEW fs, NEW fl,
         Hosted(s, se, ue, hs, he, pt, ps, qs, fs, fl),
         NEW r, NEW p, NEW ps2, NEW qs2, NEW fs2,
         Hosted(r, se, ue, hs, he, p, ps2, qs2, fs2, fl),
         SameAuthority(r, s, se, ue, hs, he),
         SameTail(Part(r, ps2, qs2, fs2), Part(s, ps, qs, fs))
  PROVE  LET c == Components(Rec(s, se, ue, hs, he, pt, ps, qs, fs, fl))
         IN /\ Components(Rec(r, se, ue, hs, he, p, ps2, qs2, fs2, fl)) = PutPort(c, p)
            /\ PutPort(c, p).scheme = c.scheme /\ PutPort(c, p).host = c.host
            /\ PutPort(c, p).username = c.username /\ PutPort(c, p).password = c.password
<1> DEFINE w == Part(s, ps, qs, fs)
           c == Components(Rec(s, se, ue, hs, he, pt, ps, qs, fs, fl))
           d == Components(Rec(r, se, ue, hs, he, p, ps2, qs2, fs2, fl))
<1>1. c = PartsOf(Upto(s, se), Slice(s, se + 3, ue), PasswordAt(s, ue, hs), {Slice(s, hs, he)}, pt,
                  Path(w), NotOpaque, Query(w), Fragment(w))
  BY HostedComponents DEF HostedParts
<1>2. d = PartsOf(Upto(s, se), Slice(s, se + 3, ue), PasswordAt(s, ue, hs), {Slice(s, hs, he)}, p,
                  Path(w), NotOpaque, Query(w), Fragment(w))
  BY HostedComponents DEF HostedParts, SameAuthority, SameTail
<1> HIDE DEF c, d, w
<1>3. PICK sc, un, pw, ho, pa, op, qu, fr :
        /\ c = PartsOf(sc, un, pw, ho, pt, pa, op, qu, fr)
        /\ d = PartsOf(sc, un, pw, ho, p, pa, op, qu, fr)
  BY <1>1, <1>2
<1>4. d = PutPort(c, p)
  BY <1>3, PortPut
<1>5. /\ d.scheme = c.scheme /\ d.host = c.host
      /\ d.username = c.username /\ d.password = c.password
  BY <1>3 DEF PartsOf
<1> QED
  BY <1>4, <1>5 DEF c, d

LEMMA SetPortInternalSound ==
  ASSUME NEW u \in Records, LaidOut(u), ~HostIsNullOrEmpty(u), NEW p \in 0..NoPort
  PROVE  LET r == SetPortInternal(u, p)
         IN /\ Sound(r)
            /\ Fits(r.url) => r.url = u \/ Gives(u, r.url, PutPort(Components(u), p))
<1> DEFINE s == u.ser             se == u.scheme_end   ue == u.username_end
           hs == u.host_start     he == u.host_end     pt == u.port
           ps == u.path_start     qs == u.query_start  fs == u.fragment_start
           fl == u.flags
           head == Upto(s, he) \o PortSuffix(p)
           r    == head \o From(s, ps)
           v    == [u EXCEPT !.ser = r, !.port = p, !.path_start = Len(head)]
           gap  == ps - he
           w0   == [v EXCEPT !.query_start    = IF @ = NONE THEN NONE ELSE @ - gap,
                             !.fragment_start = IF @ = NONE THEN NONE ELSE @ - gap]
           w1   == MoveQueryAndFragment(v, ps, Len(head))
           o(x) == AdjustOpt(x, ps, Len(head))
           z    == Rec(r, se, ue, hs, he, p, Len(head), o(qs), o(fs), fl)
<1>1. \/ SetPortInternal(u, p) \in {Ok(u), Panic(u), Ok(w1)}
      \/ p = NoPort /\ SetPortInternal(u, p) = Ok(w0)
  BY DEF SetPortInternal, Checked
<1>2. u = Rec(s, se, ue, hs, he, pt, ps, qs, fs, fl)
  BY Fields
<1>3. Hosted(s, se, ue, hs, he, pt, ps, qs, fs, fl) /\ hs < he
  BY HostMeansAuthority, HostedFields
<1> HIDE DEF s, se, ue, hs, he, pt, ps, qs, fs, fl
<1>4. /\ s \in Text /\ he \in Nat /\ ps \in Nat /\ he <= ps /\ ps <= Len(s) /\ Len(s) \in Nat
      /\ qs \in Nat /\ fs \in Nat
  BY <1>3, HostedBounds, U32MaxAssumption DEF Hosted, Offset
<1>5. w0.ser = r /\ w1.ser = r
  BY <1>2 DEF MoveQueryAndFragment, Rec
<1>6. SUFFICES ASSUME Fits(w0) \/ Fits(w1)
               PROVE  /\ p = NoPort => /\ w0 \in Records /\ LaidOut(w0)
                                       /\ Gives(u, w0, PutPort(Components(u), p))
                      /\ w1 \in Records /\ LaidOut(w1)
                      /\ Gives(u, w1, PutPort(Components(u), p))
  <2>1. /\ Ok(u).url = u /\ Panic(u).url = u /\ Ok(w1).url = w1 /\ Ok(w0).url = w0
        /\ Ok(w1).outcome = "ok" /\ Ok(w0).outcome = "ok"
    BY DEF Ok, Panic
  <2>2. Fits(w0) <=> Fits(w1)
    BY <1>5 DEF Fits
  <2> HIDE DEF w0, w1
  <2>3. CASE SetPortInternal(u, p) \in {Ok(u), Panic(u)}
    BY <2>1, <2>3, RefusedSound
  <2>4. CASE SetPortInternal(u, p) = Ok(w1)
    BY <2>1, <2>2, <2>4 DEF Sound
  <2>5. CASE p = NoPort /\ SetPortInternal(u, p) = Ok(w0)
    BY <2>1, <2>2, <2>5 DEF Sound
  <2> QED
    BY <1>1, <2>3, <2>4, <2>5
<1>7. r \in Text /\ Len(r) < U32Max
  <2>1. head \in Text
    BY <1>4, UptoTokens, PortSuffixFacts, JoinTokens
  <2> HIDE DEF head
  <2>2. r \in Text
    BY <1>4, <2>1, CutTokens
  <2>3. Len(r) \in Nat
    BY <2>2, LenProperties DEF Text
  <2> HIDE DEF r, w0, w1
  <2> QED
    BY <1>5, <1>6, <2>2, <2>3, U32MaxAssumption DEF Fits
<1>8. /\ Hosted(r, se, ue, hs, he, p, Len(head), o(qs), o(fs), fl)
      /\ Len(head) = he + Len(PortSuffix(p)) /\ Len(head) \in Offset
      /\ o(qs) = Moved(qs, ps, Len(head)) /\ o(fs) = Moved(fs, ps, Len(head))
      /\ SameAuthority(r, s, se, ue, hs, he)
      /\ SameTail(Part(r, Len(head), o(qs), o(fs)), Part(s, ps, qs, fs))
  BY <1>3, <1>7, PortRewritten
<1> HIDE DEF head, r
<1>9. z \in Records /\ LaidOut(z)
  BY <1>8, HostedRecord
<1>13. Gives(u, z, PutPort(Components(u), p))
  <2>1. LET c == Components(u)
        IN /\ Components(z) = PutPort(c, p)
           /\ PutPort(c, p).scheme = c.scheme /\ PutPort(c, p).host = c.host
           /\ PutPort(c, p).username = c.username /\ PutPort(c, p).password = c.password
    <3> HIDE DEF o
    <3> QED
      BY <1>2, <1>3, <1>8, PortParts
  <2>2. z.flags = u.flags
    BY <1>2 DEF Rec
  <2> HIDE DEF z
  <2> QED
    BY <1>9, <2>1, <2>2, FlagsStay DEF Gives
<1>10. o(qs) \in Offset /\ o(fs) \in Offset
  BY <1>8 DEF Hosted
<1>11. w1 = z
  <2>1. w1 \in Records
    <3>1. qs = u.query_start /\ fs = u.fragment_start
      BY DEF qs, fs
    <3> QED
      BY <1>7, <1>8, <1>10, <3>1 DEF MoveQueryAndFragment, Records
  <2>2. /\ w1.ser = r /\ w1.scheme_end = se /\ w1.username_end = ue /\ w1.host_start = hs
        /\ w1.host_end = he /\ w1.port = p /\ w1.path_start = Len(head)
        /\ w1.query_start = o(qs) /\ w1.fragment_start = o(fs) /\ w1.flags = fl
    BY <1>2 DEF MoveQueryAndFragment, Rec
  <2> HIDE DEF w1
  <2> QED
    BY <2>1, <2>2, FieldsOf
<1>12. ASSUME p = NoPort PROVE w0 = z
  <2>1. Len(head) = he
    BY <1>4, <1>8, <1>12 DEF PortSuffix
  <2>2. /\ o(qs) = IF qs = NONE THEN NONE ELSE qs - gap
        /\ o(fs) = IF fs = NONE THEN NONE ELSE fs - gap
    <3> HIDE DEF o
    <3> QED
      BY <1>4, <1>8, <2>1 DEF Moved
  <2>3. w0 = [u EXCEPT !.ser = r, !.port = p, !.path_start = Len(head),
                       !.query_start = o(qs), !.fragment_start = o(fs)]
    <3>1. qs = u.query_start /\ fs = u.fragment_start
      BY DEF qs, fs
    <3> QED
      BY <2>2, <3>1 DEF Records
  <2>4. w0 \in Records
    BY <1>7, <1>8, <1>10, <2>3 DEF Records
  <2>5. /\ w0.ser = r /\ w0.scheme_end = se /\ w0.username_end = ue /\ w0.host_start = hs
        /\ w0.host_end = he /\ w0.port = p /\ w0.path_start = Len(head)
        /\ w0.query_start = o(qs) /\ w0.fragment_start = o(fs) /\ w0.flags = fl
    BY <1>2, <2>3 DEF Rec
  <2> HIDE DEF w0
  <2> QED
    BY <2>4, <2>5, FieldsOf
<1> QED
  BY <1>9, <1>11, <1>12, <1>13

LEMMA NoPortInRange == NoPort \in 0..NoPort
<1>1. NoPort = 65536
  BY DEF NoPort
<1> QED
  BY <1>1

LEMMA SetPortSound ==
  ASSUME NEW u \in Records, LaidOut(u), NEW p \in 0..NoPort
  PROVE  LET r == SetPort(u, p)
             d == DefaultPort(Scheme(u))
         IN /\ Sound(r)
            /\ Fits(r.url) =>
                 \/ r.url = u
                 \/ /\ ~CannotHaveUsernamePasswordPort(u)
                    /\ Gives(u, r.url, PutPort(Components(u), IF p = d THEN NoPort ELSE p))
<1>1. NoPort \in 0..NoPort
  BY NoPortInRange
<1>2. CASE CannotHaveUsernamePasswordPort(u)
  BY <1>2, RefusedSound DEF SetPort, Err
<1>3. CASE ~CannotHaveUsernamePasswordPort(u)
  BY <1>1, <1>3, SetPortInternalSound DEF SetPort, CannotHaveUsernamePasswordPort
<1> QED
  BY <1>2, <1>3

LEMMA DefaultPortFacts ==
  ASSUME NEW scheme
  PROVE  DefaultPort(scheme) \in {21, 80, 443, NoPort}
BY DEF DefaultPort

LEMMA SetPortStrSound ==
  ASSUME NEW u \in Records, LaidOut(u), NEW text \in PortIn
  PROVE  LET r == SetPortStr(u, text)
             d == DefaultPort(Scheme(u))
         IN /\ Sound(r)
            /\ Fits(r.url) =>
                 \/ r.url = u
                 \/ /\ ~CannotHaveUsernamePasswordPort(u)
                    /\ \E p \in {NoPort} \cup ParsePortSetter(text, d) :
                         (p = d => p = NoPort) /\ Gives(u, r.url, PutPort(Components(u), p))
<1> DEFINE parsed == ParsePortSetter(text, DefaultPort(Scheme(u)))
           p      == CHOOSE x \in parsed : TRUE
<1>1. parsed \subseteq (0..NoPort \ {DefaultPort(Scheme(u))}) \cup {NoPort}
  <2>1. text \in PortTexts
    BY DEF PortTexts
  <2>2. DefaultPort(Scheme(u)) \in {21, 80, 443, NoPort}
    BY DefaultPortFacts
  <2> QED
    BY <2>1, <2>2, ParserAssumption
<1>3. NoPort \in 0..NoPort
  BY DEF NoPort
<1>2. parsed # {} => p \in parsed /\ p \in 0..NoPort /\ (p = DefaultPort(Scheme(u)) => p = NoPort)
  BY <1>1, <1>3
<1>4. \/ SetPortStr(u, text) = Err(u)
      \/ /\ ~HostIsNullOrEmpty(u) /\ ~CannotHaveUsernamePasswordPort(u)
         /\ \/ SetPortStr(u, text) = SetPortInternal(u, NoPort)
            \/ parsed # {} /\ SetPortStr(u, text) = SetPortInternal(u, p)
  BY DEF SetPortStr, CannotHaveUsernamePasswordPort
<1> HIDE DEF p
<1>5. CASE SetPortStr(u, text) = Err(u)
  BY <1>5, RefusedSound DEF Err
<1>6. ASSUME NEW x \in {NoPort} \cup parsed, x \in 0..NoPort,
             x = DefaultPort(Scheme(u)) => x = NoPort, ~HostIsNullOrEmpty(u),
             ~CannotHaveUsernamePasswordPort(u), SetPortStr(u, text) = SetPortInternal(u, x)
      PROVE  LET r == SetPortStr(u, text)
                 d == DefaultPort(Scheme(u))
             IN /\ Sound(r)
                /\ Fits(r.url) =>
                     \/ r.url = u
                     \/ /\ ~CannotHaveUsernamePasswordPort(u)
                        /\ \E y \in {NoPort} \cup ParsePortSetter(text, d) :
                             (y = d => y = NoPort) /\ Gives(u, r.url, PutPort(Components(u), y))
  BY <1>6, SetPortInternalSound
<1> QED
  BY <1>2, <1>3, <1>4, <1>5, <1>6
-----------------------------------------------------------------------------
(* set_scheme.                                                             *)

(* Where the fields of any record lie.                                     *)
LEMMA LaidOutBounds ==
  ASSUME NEW u \in Records, LaidOut(u)
  PROVE  /\ u.scheme_end <= u.username_end /\ u.username_end <= u.host_start
         /\ u.host_start <= u.host_end /\ u.host_end <= u.path_start
         /\ u.path_start <= u.host_end + 6 /\ u.path_start <= Len(u.ser)
         /\ u.scheme_end > 0 /\ TokenAt(u.ser, u.scheme_end, ":")
         /\ Tails(Part(u.ser, u.path_start, u.query_start, u.fragment_start))
<1> DEFINE s == u.ser             se == u.scheme_end   ue == u.username_end
           hs == u.host_start     he == u.host_end     pt == u.port
           ps == u.path_start     qs == u.query_start  fs == u.fragment_start
           fl == u.flags
<1>1. /\ LaidOut(Rec(s, se, ue, hs, he, pt, ps, qs, fs, fl))
      /\ Len(s) \in Nat /\ se \in Nat /\ ue \in Nat /\ hs \in Nat /\ he \in Nat /\ ps \in Nat
      /\ qs \in Nat /\ fs \in Nat
      /\ pt \in 0..NoPort
  BY Fields, U32MaxAssumption DEF Offset
<1> HIDE DEF s, se, ue, hs, he, pt, ps, qs, fs, fl
<1>2. /\ se > 0 /\ TokenAt(s, se, ":") /\ Tails(Part(s, ps, qs, fs))
      /\ \/ AuthorityAt(s, se, ue, hs, he, pt, ps)
         \/ NoAuthorityAt(s, se, ue, hs, he, pt, ps, qs, fs, fl)
  BY <1>1, LaidOutFields
<1>3. se <= ue /\ ue <= hs /\ hs <= he /\ he <= ps /\ ps <= he + 6
  <2>1. CASE AuthorityAt(s, se, ue, hs, he, pt, ps)
    <3>1. PICK l \in 0..6 : l = Len(PortSuffix(pt))
      BY <1>1, PortSuffixFacts
    <3>2. ps = he + l /\ hs <= he
      BY <2>1, <3>1 DEF AuthorityAt, HostAt
    <3>3. se <= ue /\ ue <= hs
      BY <1>1, <2>1 DEF AuthorityAt, UserinfoAt
    <3> QED
      BY <1>1, <3>2, <3>3
  <2>2. CASE NoAuthorityAt(s, se, ue, hs, he, pt, ps, qs, fs, fl)
    BY <1>1, <2>2 DEF NoAuthorityAt
  <2> QED
    BY <1>2, <2>1, <2>2
<1>4. ps <= Len(s)
  BY <1>1, <1>2 DEF Tails, Part, PathEndOf, QueryEndOf
<1> QED
  BY <1>2, <1>3, <1>4 DEF s, se, ue, hs, he, pt, ps, qs, fs, fl

LEMMA UserinfoMoves ==
  ASSUME NEW s \in Text, NEW h \in Text, NEW se \in Nat, NEW ue \in Nat, NEW hs \in Nat,
         hs <= Len(s), UserinfoAt(s, se, ue, hs)
  PROVE  UserinfoAt(h \o From(s, se), Len(h), Len(h) + (ue - se), Len(h) + (hs - se))
<1>1. PICK n \in Nat, m \in Nat : n = Len(h) /\ m = Len(s)
  BY LenProperties DEF Text
<1>2. se + 3 <= ue /\ ue <= hs
  BY DEF UserinfoAt
<1>3. PICK c \in Nat, d \in Nat : ue = se + c /\ hs = se + d
  <2>1. ue - se \in Nat /\ hs - se \in Nat /\ ue = se + (ue - se) /\ hs = se + (hs - se)
    BY <1>2
  <2> QED
    BY <2>1
<1>4. PICK r : r = h \o From(s, se)
  OBVIOUS
<1>5. \A t : \A k \in Nat : TokenAt(r, n + k, t) <=> TokenAt(s, se + k, t)
  <2>1. se <= Len(s)
    BY <1>1, <1>2
  <2>2. \A t : \A k \in Nat : TokenAt(h \o From(s, se), Len(h) + k, t) <=> TokenAt(s, se + k, t)
    BY <2>1, CutTokens
  <2> QED
    BY <1>1, <1>4, <2>2
<1>6. Len(h) + (ue - se) = n + c /\ Len(h) + (hs - se) = n + d
  BY <1>1, <1>3
<1>7. UserinfoAt(r, n, n + c, n + d)
  <2>1. CASE hs = se + 3 /\ ue = hs
    BY <1>3, <2>1 DEF UserinfoAt
  <2>2. CASE ue > se + 3 /\ hs = ue + 1 /\ TokenAt(s, ue, "@")
    <3>1. TokenAt(r, n + c, "@")
      BY <1>3, <1>5, <2>2
    <3> QED
      BY <1>3, <2>2, <3>1 DEF UserinfoAt
  <2>3. CASE ue >= se + 3 /\ hs >= ue + 3 /\ TokenAt(s, ue, ":") /\ TokenAt(s, hs - 1, "@")
    <3>1. TokenAt(r, n + c, ":")
      BY <1>3, <1>5, <2>3
    <3>2. d - 1 \in Nat /\ hs - 1 = se + (d - 1) /\ (n + d) - 1 = n + (d - 1)
      BY <1>2, <1>3
    <3>3. TokenAt(r, n + (d - 1), "@")
      BY <1>5, <2>3, <3>2
    <3> QED
      BY <1>3, <2>3, <3>1, <3>2, <3>3 DEF UserinfoAt
  <2> QED
    BY <2>1, <2>2, <2>3 DEF UserinfoAt
<1> QED
  BY <1>1, <1>4, <1>6, <1>7

(* The colon of a scheme setter's text, and what stands before it.         *)
LEMMA SchemeSetterFacts ==
  ASSUME NEW text, Visible(text) \in Text, NEW r \in ParseSchemeSetter(text)
  PROVE  r.scheme \in Text /\ Len(r.scheme) \in Nat \ {0}
<1> DEFINE s    == Visible(text)
           lead == {i \in DOMAIN s : \A j \in 1..i : s[j] \in SchemeToken}
           end  == Cardinality(lead)
<1>1. end # 0 /\ r.scheme = Upto(s, end)
  BY DEF ParseSchemeSetter
<1>2. Len(s) \in Nat /\ DOMAIN s = 1..Len(s)
  BY LenProperties DEF Text
<1>3. end \in Nat /\ end <= Len(s)
  <2>1. IsFiniteSet(1..Len(s)) /\ Cardinality(1..Len(s)) = Len(s)
    <3>1. 1 \in Int /\ Len(s) \in Int
      BY <1>2
    <3>2. /\ IsFiniteSet(1..Len(s))
          /\ Cardinality(1..Len(s)) = IF 1 > Len(s) THEN 0 ELSE Len(s) - 1 + 1
      BY ONLY <3>1, FS_Interval
    <3> HIDE DEF s
    <3> QED
      BY <1>2, <3>2
  <2>2. lead \subseteq 1..Len(s)
    BY <1>2
  <2> HIDE DEF lead
  <2>3. IsFiniteSet(lead) /\ Cardinality(lead) <= Cardinality(1..Len(s))
    BY <2>1, <2>2, FS_Subset
  <2> QED
    BY <2>1, <2>3, FS_CardinalityType
<1> HIDE DEF end, s
<1> QED
  BY <1>1, <1>3, UptoTokens DEF s

(* The authority that moved as a block behind a new scheme.                *)
MovedAuthority(r, n, ue2, hs2, he2, s, se, ue, hs, he) ==
  /\ Slice(r, n + 3, ue2) = Slice(s, se + 3, ue)
  /\ PasswordAt(r, ue2, hs2) = PasswordAt(s, ue, hs)
  /\ Slice(r, hs2, he2) = Slice(s, hs, he)

LEMMA AuthorityMoves ==
  ASSUME NEW s \in Text, NEW h \in Text, NEW se \in Nat, NEW ue \in Nat, NEW hs \in Nat,
         NEW he \in Nat, se + 3 <= ue, ue <= hs, hs <= he, he <= Len(s),
         UserinfoAt(s, se, ue, hs), ~TokenAt(s, hs, ":"),
         NEW n, n = Len(h), NEW ue2, ue2 = n + (ue - se), NEW hs2, hs2 = n + (hs - se),
         NEW he2, he2 = n + (he - se)
  PROVE  MovedAuthority(h \o From(s, se), n, ue2, hs2, he2, s, se, ue, hs, he)
<1> DEFINE r == h \o From(s, se)
<1>1. n \in Nat /\ Len(s) \in Nat /\ se <= Len(s)
  BY LenProperties DEF Text
<1>2. \A x, y \in Nat : se <= x /\ x <= y /\ y <= Len(s) =>
        Slice(r, n + (x - se), n + (y - se)) = Slice(s, x, y)
  BY SliceMoves
<1>3. \A t : \A k \in Nat : TokenAt(r, n + k, t) <=> TokenAt(s, se + k, t)
  BY <1>1, CutTokens
<1> HIDE DEF r
<1>4. Slice(r, n + 3, ue2) = Slice(s, se + 3, ue)
  <2>1. PICK x \in Nat : x = se + 3
    OBVIOUS
  <2>2. se <= x /\ x <= ue /\ ue <= Len(s) /\ n + (x - se) = n + 3
    BY <1>1, <2>1
  <2>3. Slice(r, n + (x - se), n + (ue - se)) = Slice(s, x, ue)
    BY <1>2, <2>2
  <2> QED
    BY <2>1, <2>2, <2>3
<1>5. Slice(r, hs2, he2) = Slice(s, hs, he)
  <2>1. se <= hs
    OBVIOUS
  <2> QED
    BY <1>2, <2>1
<1>6. TokenAt(r, ue2, ":") <=> TokenAt(s, ue, ":")
  <2>1. PICK d \in Nat : ue = se + d
    <3>1. ue - se \in Nat /\ ue = se + (ue - se)
      OBVIOUS
    <3> QED
      BY <3>1
  <2>2. ue2 = n + d
    BY <1>1, <2>1
  <2> QED
    BY <1>3, <2>1, <2>2
<1>7. PasswordAt(r, ue2, hs2) = PasswordAt(s, ue, hs)
  <2>1. CASE ~TokenAt(s, ue, ":")
    BY <1>6, <2>1 DEF PasswordAt
  <2>2. CASE TokenAt(s, ue, ":")
    <3>1. hs >= ue + 3
      BY <2>2 DEF UserinfoAt, TokenAt
    <3>2. PICK x \in Nat, y \in Nat : x = ue + 1 /\ y = hs - 1
      <4>1. ue + 1 \in Nat /\ hs - 1 \in Nat
        BY <3>1
      <4> QED
        BY <4>1
    <3>3. /\ se <= x /\ x <= y /\ y <= Len(s)
          /\ n + (x - se) = ue2 + 1 /\ n + (y - se) = hs2 - 1
      BY <1>1, <3>1, <3>2
    <3>4. Slice(r, n + (x - se), n + (y - se)) = Slice(s, x, y)
      BY <1>2, <3>3
    <3>5. Slice(r, ue2 + 1, hs2 - 1) = Slice(s, ue + 1, hs - 1)
      BY <3>2, <3>3, <3>4
    <3> QED
      BY <1>6, <2>2, <3>5 DEF PasswordAt
  <2> QED
    BY <2>1, <2>2
<1> QED
  BY <1>4, <1>5, <1>7 DEF MovedAuthority, r

(* The layout behind a scheme h that replaced the old one.                 *)
SchemeWritten(s, se, ue, hs, he, pt, ps, qs, fs, fl, fl2, h) ==
  LET a(x) == Adjust(x, se, Len(h))
      o(x) == AdjustOpt(x, se, Len(h))
      z    == Rec(h \o From(s, se), Len(h), a(ue), a(hs), a(he), pt, a(ps), o(qs), o(fs), fl2)
      c    == Components(Rec(s, se, ue, hs, he, pt, ps, qs, fs, fl))
  IN z \in Records /\ LaidOut(z) /\ Components(z) = PutScheme(c, h, pt)

LEMMA SchemeRewritten ==
  ASSUME NEW s \in Text, NEW se \in Nat, NEW ue \in Nat, NEW hs \in Nat, NEW he \in Nat,
         NEW pt \in 0..NoPort, NEW ps \in Nat, NEW qs \in Offset, NEW fs \in Offset,
         NEW fl \in SUBSET FlagNames, NEW fl2 \in SUBSET FlagNames,
         NEW h \in Text, Len(h) > 0, IsSpecial(h) = IsSpecial(Upto(s, se)),
         LaidOut(Rec(s, se, ue, hs, he, pt, ps, qs, fs, fl)),
         fl2 \ {"SPECIAL"} = fl \ {"SPECIAL"},
         se <= ue, ue <= hs, hs <= he, he <= ps, ps <= Len(s), ps <= U32Max,
         Len(h \o From(s, se)) < U32Max
  PROVE  SchemeWritten(s, se, ue, hs, he, pt, ps, qs, fs, fl, fl2, h)
<1> DEFINE r    == h \o From(s, se)
           a(x) == Adjust(x, se, Len(h))
           o(x) == AdjustOpt(x, se, Len(h))
<1>1. PICK n \in Nat : n = Len(h) /\ n > 0
  BY LenProperties DEF Text
<1>2. se <= ps /\ ue \in se..ps /\ hs \in se..ps /\ he \in se..ps /\ Len(s) \in Nat /\ se <= Len(s)
  BY LenProperties DEF Text
<1>3. /\ se > 0 /\ TokenAt(s, se, ":") /\ Tails(Part(s, ps, qs, fs))
      /\ \/ /\ "OPAQUE_PATH" \notin fl
            /\ AuthorityAt(s, se, ue, hs, he, pt, ps)
            /\ Rooted(Part(s, ps, qs, fs))
         \/ NoAuthorityAt(s, se, ue, hs, he, pt, ps, qs, fs, fl)
  BY LaidOutFields
<1>4. /\ r \in Text
      /\ \A x \in se..ps : a(x) = Len(h) + (x - se) /\ a(x) \in Offset
      /\ a(ps) = Len(h) + (ps - se) /\ a(ps) \in Offset
      /\ o(qs) \in Offset /\ o(fs) \in Offset
      /\ o(qs) = Moved(qs, ps, a(ps)) /\ o(fs) = Moved(fs, ps, a(ps))
      /\ Tails(Part(r, a(ps), o(qs), o(fs)))
      /\ Rooted(Part(s, ps, qs, fs)) => Rooted(Part(r, a(ps), o(qs), o(fs)))
      /\ \A t : Len(t) \in Nat =>
           (PathBegins(Part(r, a(ps), o(qs), o(fs)), t) <=> PathBegins(Part(s, ps, qs, fs), t))
  BY <1>2, <1>3, Rebuilt, SMTT(30)
<1>14. SameTail(Part(r, a(ps), o(qs), o(fs)), Part(s, ps, qs, fs))
  <2>2. qs \in Nat /\ fs \in Nat
    BY U32MaxAssumption DEF Offset
  <2> HIDE DEF a, o
  <2> QED
    BY <1>2, <1>3, <1>4, <2>2, TailText
<1> HIDE DEF a, o
<1>5. /\ \A t : \A k \in Nat : TokenAt(r, Len(h) + k, t) <=> TokenAt(s, se + k, t)
      /\ \A k \in Nat, w \in Text : se + k <= Len(s) => (TextAt(r, Len(h) + k, w) <=> TextAt(s, se + k, w))
  BY <1>2, CutTokens
<1>6. /\ a(ue) = n + (ue - se) /\ a(hs) = n + (hs - se) /\ a(he) = n + (he - se)
      /\ a(ps) = n + (ps - se)
      /\ a(ue) \in Offset /\ a(hs) \in Offset /\ a(he) \in Offset /\ n \in Offset
  <2>1. se \in se..ps /\ a(se) = n + (se - se) /\ a(se) = n /\ a(se) \in Offset
    BY <1>1, <1>2, <1>4
  <2> QED
    BY <1>1, <1>2, <1>4, <2>1
<1>7. TokenAt(r, n, ":")
  <2>2. TokenAt(s, se + 0, ":")
    BY <1>3
  <2>1. TokenAt(r, Len(h) + 0, ":")
    BY <1>5, <2>2
  <2> QED
    BY <1>1, <2>1
<1>8. Upto(r, n) = h
  <2>1. From(s, se) \in Text
    BY <1>2, FromTokens
  <2> QED
    BY <1>1, <2>1, UptoJoin
<1>9. /\ "OPAQUE_PATH" \in fl2 <=> "OPAQUE_PATH" \in fl
      /\ "HAS_EMPTY_HOST" \in fl2 <=> "HAS_EMPTY_HOST" \in fl
  OBVIOUS
<1>10. ASSUME AuthorityAt(s, se, ue, hs, he, pt, ps)
       PROVE  AuthorityAt(r, n, a(ue), a(hs), a(he), pt, a(ps))
  <2>1. TokenAt(r, n + 1, "/") /\ TokenAt(r, n + 2, "/")
    BY <1>1, <1>5, <1>10 DEF AuthorityAt
  <2>2. UserinfoAt(r, n, a(ue), a(hs))
    <3>1. UserinfoAt(s, se, ue, hs) /\ hs <= Len(s)
      BY <1>2, <1>10 DEF AuthorityAt
    <3>2. UserinfoAt(r, Len(h), Len(h) + (ue - se), Len(h) + (hs - se))
      BY <3>1, UserinfoMoves
    <3> HIDE DEF r
    <3> QED
      BY <1>1, <1>6, <3>2
  <2>3. HostAt(r, a(hs), a(he), pt, a(ps))
    <3>0. HostAt(s, hs, he, pt, ps) /\ se <= hs /\ ps <= Len(s)
      BY <1>2, <1>10 DEF AuthorityAt
    <3>1. HostAt(r, Len(h) + (hs - se), Len(h) + (he - se), pt, Len(h) + (ps - se))
      BY <3>0, HostMoves
    <3> HIDE DEF r
    <3> QED
      BY <1>1, <1>6, <3>1
  <2> QED
    BY <2>1, <2>2, <2>3 DEF AuthorityAt
<1>11. ASSUME NoAuthorityAt(s, se, ue, hs, he, pt, ps, qs, fs, fl)
       PROVE  NoAuthorityAt(r, n, a(ue), a(hs), a(he), pt, a(ps), o(qs), o(fs), fl2)
  <2>1. /\ ~IsSpecial(Upto(r, n))
        /\ a(ue) = n + 1 /\ a(hs) = n + 1 /\ a(he) = n + 1
        /\ pt = NoPort /\ "HAS_EMPTY_HOST" \notin fl2
    BY <1>1, <1>6, <1>8, <1>9, <1>11 DEF NoAuthorityAt
  <2>2. ps = se + 1 => a(ps) = n + 1
    BY <1>1, <1>6
  <2>3. ps = se + 3 => a(ps) = n + 3
    BY <1>1, <1>6
  <2>4. <<"/", "/">> \in Text /\ <<"/", ".">> \in Text /\ <<"/", ".", "/">> \in Text
    BY TokensAssumption DEF Text
  <2>5. Len(<<"/", "/">>) \in Nat /\ Len(<<"/", ".", "/">>) \in Nat
    OBVIOUS
  <2>6. TextAt(r, n + 1, <<"/", ".">>) <=> TextAt(s, se + 1, <<"/", ".">>)
    <3>1. se + 1 <= Len(s)
      BY <1>2, <1>3 DEF TokenAt
    <3>2. TextAt(r, Len(h) + 1, <<"/", ".">>) <=> TextAt(s, se + 1, <<"/", ".">>)
      BY <1>5, <2>4, <3>1
    <3> QED
      BY <1>1, <3>2
  <2> HIDE DEF r
  <2>7. \/ "OPAQUE_PATH" \in fl /\ ps = se + 1
        \/ /\ "OPAQUE_PATH" \notin fl /\ ps = se + 1 /\ Rooted(Part(s, ps, qs, fs))
           /\ ~PathBegins(Part(s, ps, qs, fs), <<"/", "/">>)
           /\ ~PathBegins(Part(s, ps, qs, fs), <<"/", ".", "/">>)
        \/ /\ "OPAQUE_PATH" \notin fl /\ ps = se + 3 /\ TextAt(s, se + 1, <<"/", ".">>)
           /\ PathBegins(Part(s, ps, qs, fs), <<"/", "/">>)
    BY <1>11 DEF NoAuthorityAt
  <2>8. /\ PathBegins(Part(r, a(ps), o(qs), o(fs)), <<"/", "/">>)
             <=> PathBegins(Part(s, ps, qs, fs), <<"/", "/">>)
        /\ PathBegins(Part(r, a(ps), o(qs), o(fs)), <<"/", ".", "/">>)
             <=> PathBegins(Part(s, ps, qs, fs), <<"/", ".", "/">>)
    BY <1>4, <2>5
  <2> QED
    BY <1>4, <1>9, <2>1, <2>2, <2>3, <2>6, <2>7, <2>8 DEF NoAuthorityAt
<1>15. ASSUME AuthorityAt(s, se, ue, hs, he, pt, ps)
       PROVE  MovedAuthority(r, n, a(ue), a(hs), a(he), s, se, ue, hs, he)
  <2>1. UserinfoAt(s, se, ue, hs) /\ ~TokenAt(s, hs, ":") /\ se + 3 <= ue /\ he <= Len(s)
    BY <1>2, <1>15 DEF AuthorityAt, HostAt, UserinfoAt
  <2> QED
    BY <1>1, <1>6, <2>1, AuthorityMoves
<1> HIDE DEF r
<1>12. Rec(r, n, a(ue), a(hs), a(he), pt, a(ps), o(qs), o(fs), fl2) \in Records
  BY <1>4, <1>6, RecordOf
<1>13. LaidOut(Rec(r, n, a(ue), a(hs), a(he), pt, a(ps), o(qs), o(fs), fl2))
  BY <1>1, <1>3, <1>4, <1>7, <1>9, <1>10, <1>11, LaidOutFields
<1> DEFINE c == Components(Rec(s, se, ue, hs, he, pt, ps, qs, fs, fl))
           d == Components(Rec(r, n, a(ue), a(hs), a(he), pt, a(ps), o(qs), o(fs), fl2))
           w == Part(s, ps, qs, fs)
<1>16. d = PutScheme(c, h, pt)
  <2>1. CASE AuthorityAt(s, se, ue, hs, he, pt, ps) /\ "OPAQUE_PATH" \notin fl /\ Rooted(w)
    <3>1. Hosted(s, se, ue, hs, he, pt, ps, qs, fs, fl)
      <4>1. ps \in Offset
        BY U32MaxAssumption DEF Offset
      <4> QED
        BY <1>3, <2>1, <4>1 DEF Hosted
    <3>2. Hosted(r, n, a(ue), a(hs), a(he), pt, a(ps), o(qs), o(fs), fl2)
      BY <1>1, <1>4, <1>6, <1>7, <1>9, <1>10, <2>1, U32MaxAssumption DEF Hosted, Offset
    <3> HIDE DEF w
    <3>5. c = HostedParts(s, se, ue, hs, he, pt, w)
      BY <3>1, HostedComponents DEF w
    <3>6. d = HostedParts(r, n, a(ue), a(hs), a(he), pt, Part(r, a(ps), o(qs), o(fs)))
      BY <3>2, HostedComponents
    <3> HIDE DEF c, d
    <3>3. c = PartsOf(Upto(s, se), Slice(s, se + 3, ue), PasswordAt(s, ue, hs), {Slice(s, hs, he)},
                      pt, Path(w), NotOpaque, Query(w), Fragment(w))
      BY <3>5 DEF HostedParts
    <3>4. d = PartsOf(h, Slice(s, se + 3, ue), PasswordAt(s, ue, hs), {Slice(s, hs, he)},
                      pt, Path(w), NotOpaque, Query(w), Fragment(w))
      BY <1>8, <1>14, <1>15, <2>1, <3>6 DEF HostedParts, MovedAuthority, SameTail, w
    <3> QED
      BY <3>3, <3>4, SchemePut
  <2>2. CASE NoAuthorityAt(s, se, ue, hs, he, pt, ps, qs, fs, fl)
    <3>1. c = PartsOf(Upto(s, se), <<>>, <<>>, {}, NoPort, Path(w), Opaque(fl), Query(w), Fragment(w))
      BY <2>2, BareComponents DEF BareParts
    <3>2. Opaque(fl2) = Opaque(fl) /\ pt = NoPort
      BY <1>9, <2>2 DEF Opaque, NoAuthorityAt
    <3>3. d = PartsOf(h, <<>>, <<>>, {}, NoPort, Path(w), Opaque(fl2), Query(w), Fragment(w))
      BY <1>4, <1>8, <1>11, <1>14, <2>2, BareComponents DEF BareParts, SameTail
    <3> HIDE DEF c, d, w
    <3> QED
      BY <3>1, <3>2, <3>3, SchemePut
  <2> QED
    BY <1>3, <2>1, <2>2
<1> QED
  BY <1>1, <1>12, <1>13, <1>16 DEF r, a, o, SchemeWritten

LEMMA WithSchemeSound ==
  ASSUME NEW u \in Records, LaidOut(u), NEW h \in Text, Len(h) > 0,
         IsSpecial(h) = IsSpecial(Scheme(u)), Len(WithScheme(u, h).ser) < U32Max
  PROVE  /\ WithScheme(u, h) \in Records /\ LaidOut(WithScheme(u, h))
         /\ Gives(u, WithScheme(u, h), PutScheme(Components(u), h, u.port))
<1> DEFINE s == u.ser             se == u.scheme_end   ue == u.username_end
           hs == u.host_start     he == u.host_end     pt == u.port
           ps == u.path_start     qs == u.query_start  fs == u.fragment_start
           fl == u.flags
           r    == h \o From(s, se)
           fl2  == IF IsSpecial(h) THEN fl \cup {"SPECIAL"} ELSE fl \ {"SPECIAL"}
           a(x) == Adjust(x, se, Len(h))
           o(x) == AdjustOpt(x, se, Len(h))
           z    == Rec(r, Len(h), a(ue), a(hs), a(he), pt, a(ps), o(qs), o(fs), fl2)
           v    == WithScheme(u, h)
<1>1. /\ u = Rec(s, se, ue, hs, he, pt, ps, qs, fs, fl)
      /\ s \in Text /\ pt \in 0..NoPort /\ fl \in SUBSET FlagNames
      /\ se \in Nat /\ ue \in Nat /\ hs \in Nat /\ he \in Nat /\ ps \in Nat
      /\ qs \in Offset /\ fs \in Offset
  BY Fields
<1>2. se <= ue /\ ue <= hs /\ hs <= he /\ he <= ps /\ ps <= Len(s) /\ ps <= U32Max
  <2>1. ps \in Offset
    BY Fields
  <2> QED
    BY <2>1, LaidOutBounds, U32MaxAssumption DEF Offset
<1>3. v.ser = r
  BY DEF WithScheme, MoveHost, MovePath, MoveQueryAndFragment, Records
<1>4. IsSpecial(h) = IsSpecial(Upto(s, se))
  BY DEF Scheme
<1> HIDE DEF s, se, ue, hs, he, pt, ps, qs, fs, fl
<1>5. fl2 \in SUBSET FlagNames /\ fl2 \ {"SPECIAL"} = fl \ {"SPECIAL"}
  BY <1>1 DEF FlagNames
<1> HIDE DEF fl2
<1>6. z \in Records /\ LaidOut(z) /\ Components(z) = PutScheme(Components(u), h, pt)
  <2>1. Len(h \o From(s, se)) < U32Max
    BY <1>3
  <2>2. LaidOut(Rec(s, se, ue, hs, he, pt, ps, qs, fs, fl))
    BY <1>1
  <2>3. /\ z \in Records /\ LaidOut(z)
        /\ Components(z) = PutScheme(Components(Rec(s, se, ue, hs, he, pt, ps, qs, fs, fl)), h, pt)
    <3>1. SchemeWritten(s, se, ue, hs, he, pt, ps, qs, fs, fl, fl2, h)
      BY <1>1, <1>2, <1>4, <1>5, <2>1, <2>2, SchemeRewritten
    <3> QED
      BY <3>1 DEF SchemeWritten
  <2> HIDE DEF z
  <2> QED
    BY <1>1, <2>3
<1>7. v = z
  <2>1. /\ r \in Text /\ Len(h) \in Offset /\ a(ue) \in Offset /\ a(hs) \in Offset
        /\ a(he) \in Offset /\ a(ps) \in Offset /\ o(qs) \in Offset /\ o(fs) \in Offset
    BY <1>6 DEF Records, Rec
  <2> HIDE DEF r
  <2> DEFINE x == [u EXCEPT !.ser = r, !.scheme_end = Len(h), !.username_end = a(ue),
                            !.flags = fl2]
  <2>2. x \in Records
    BY <1>5, <2>1 DEF Records
  <2>3. /\ x.ser = r /\ x.scheme_end = Len(h) /\ x.username_end = a(ue)
        /\ x.host_start = hs /\ x.host_end = he /\ x.port = pt /\ x.path_start = ps
        /\ x.query_start = qs /\ x.fragment_start = fs /\ x.flags = fl2
    BY <1>1 DEF Rec
  <2>4. v = MoveHost(x, se, Len(h))
    <3>1. se = u.scheme_end /\ ue = u.username_end /\ fl = u.flags /\ s = u.ser
      BY DEF se, ue, fl, s
    <3>2. x = [u EXCEPT !.ser = h \o From(u.ser, u.scheme_end), !.scheme_end = Len(h),
                        !.username_end = Adjust(@, u.scheme_end, Len(h)),
                        !.flags = IF IsSpecial(h) THEN @ \cup {"SPECIAL"} ELSE @ \ {"SPECIAL"}]
      BY <3>1 DEF r, fl2
    <3> QED
      BY <3>1, <3>2 DEF WithScheme
  <2> HIDE DEF x, v
  <2>5. x = Rec(r, Len(h), a(ue), hs, he, pt, ps, qs, fs, fl2)
    BY <2>2, <2>3, FieldsOf
  <2>6. Rec(r, Len(h), a(ue), hs, he, pt, ps, qs, fs, fl2) \in Records
    BY <2>2, <2>5
  <2> QED
    BY <2>1, <2>4, <2>5, <2>6, MovedRec
<1> HIDE DEF z, v
<1>8. Gives(u, z, PutScheme(Components(u), h, pt))
  <2>1. /\ Components(z).scheme = h /\ Components(z).username = Components(u).username
        /\ Components(z).password = Components(u).password
        /\ Components(z).host = Components(u).host
    <3>1. PICK sc, un, pw, ho, po, pa, op, qu, fr :
            Components(u) = PartsOf(sc, un, pw, ho, po, pa, op, qu, fr)
      BY ComponentsOf
    <3>2. Components(z) = PartsOf(h, un, pw, ho, pt, pa, op, qu, fr)
      BY <1>6, <3>1, SchemePut
    <3> QED
      BY <3>1, <3>2 DEF PartsOf
  <2>2. /\ FlagsMatch(u) <=> FlagsFit(u.flags, Components(u))
        /\ FlagsMatch(z) <=> FlagsFit(z.flags, Components(z))
    BY <1>6, ComponentTests
  <2>3. z.flags = fl2 /\ u.flags = fl
    BY DEF z, fl, Rec
  <2>4. /\ "SPECIAL" \in fl2 <=> IsSpecial(h)
        /\ "HAS_CREDENTIALS" \in fl2 <=> "HAS_CREDENTIALS" \in fl
        /\ "HAS_PASSWORD" \in fl2 <=> "HAS_PASSWORD" \in fl
        /\ "HAS_EMPTY_HOST" \in fl2 <=> "HAS_EMPTY_HOST" \in fl
        /\ fl2 \cap HostFlagNames = fl \cap HostFlagNames
    BY DEF fl2, HostFlagNames
  <2> QED
    BY <1>6, <2>1, <2>2, <2>3, <2>4 DEF FlagsFit, Gives
<1>9. pt = u.port
  BY DEF pt
<1> QED
  BY <1>6, <1>7, <1>8, <1>9 DEF v

(* Moved by wrapping arithmetic, two offsets less than seven apart stay so. *)
LEMMA WrappedGap ==
  ASSUME NEW x \in Nat, NEW y \in Nat, NEW old \in Nat, NEW new \in Nat,
         old <= x, x <= y, y <= x + 6, y <= U32Max, new <= U32Max
  PROVE  /\ Adjust(x, old, new) \in 0..U32Max /\ Adjust(y, old, new) \in 0..U32Max
         /\ Adjust(y, old, new) <= Adjust(x, old, new) + 6
BY U32MaxAssumption DEF Adjust, WrapSub, WrapAdd

(* A record with another scheme has all its fields.                        *)
LEMMA SchemeRec ==
  ASSUME NEW u \in Records, NEW h
  PROVE  LET v == WithScheme(u, h)
         IN v = Rec(v.ser, v.scheme_end, v.username_end, v.host_start, v.host_end, v.port,
                    v.path_start, v.query_start, v.fragment_start, v.flags)
<1> DEFINE old == u.scheme_end
           new == Len(h)
           s   == h \o From(u.ser, old)
           ue  == Adjust(u.username_end, old, new)
           hs  == Adjust(u.host_start, old, new)
           he  == Adjust(u.host_end, old, new)
           ps  == Adjust(u.path_start, old, new)
           qs  == AdjustOpt(u.query_start, old, new)
           fs  == AdjustOpt(u.fragment_start, old, new)
           fl  == IF IsSpecial(h) THEN u.flags \cup {"SPECIAL"} ELSE u.flags \ {"SPECIAL"}
           w   == Rec(s, new, ue, u.host_start, u.host_end, u.port, u.path_start,
                      u.query_start, u.fragment_start, fl)
<1> HIDE DEF old, new, s, ue, hs, he, ps, qs, fs, fl
<1>1. u = Rec(u.ser, old, u.username_end, u.host_start, u.host_end, u.port,
              u.path_start, u.query_start, u.fragment_start, u.flags)
  BY RecordShape DEF old
<1>2. PICK w1 : w1 = [u EXCEPT !.ser = s, !.scheme_end = new, !.username_end = ue, !.flags = fl]
  OBVIOUS
<1>3. w1 = w
  <2>1. PICK u1, u2, u3 : /\ u1 = [u EXCEPT !.ser = s] /\ u2 = [u1 EXCEPT !.scheme_end = new]
                          /\ u3 = [u2 EXCEPT !.username_end = ue]
    OBVIOUS
  <2>2. w1 = [u3 EXCEPT !.flags = fl]
    BY <1>2, <2>1
  <2>3. u1 = Rec(s, old, u.username_end, u.host_start, u.host_end, u.port,
                 u.path_start, u.query_start, u.fragment_start, u.flags)
    BY <1>1, <2>1 DEF Rec
  <2>4. u2 = Rec(s, new, u.username_end, u.host_start, u.host_end, u.port,
                 u.path_start, u.query_start, u.fragment_start, u.flags)
    BY <2>1, <2>3 DEF Rec
  <2>5. u3 = Rec(s, new, ue, u.host_start, u.host_end, u.port,
                 u.path_start, u.query_start, u.fragment_start, u.flags)
    BY <2>1, <2>4 DEF Rec
  <2> QED
    BY <2>2, <2>5 DEF Rec
<1>4. WithScheme(u, h) = MoveHost(w, old, new)
  BY <1>2, <1>3, Zenon DEF WithScheme, old, new, s, ue, fl
<1>5. MoveHost(w, old, new) = Rec(s, new, ue, hs, he, u.port, ps, qs, fs, fl)
  <2>1. /\ w.host_start = u.host_start /\ w.host_end = u.host_end
        /\ w.path_start = u.path_start
        /\ w.query_start = u.query_start /\ w.fragment_start = u.fragment_start
    BY DEF Rec
  <2> QED
    BY <2>1, MovedRec DEF hs, he, ps, qs, fs
<1> HIDE DEF w
<1>6. PICK v : v = WithScheme(u, h)
  OBVIOUS
<1>7. v = Rec(s, new, ue, hs, he, u.port, ps, qs, fs, fl)
  BY <1>4, <1>5, <1>6
<1>8. v = Rec(v.ser, v.scheme_end, v.username_end, v.host_start, v.host_end, v.port,
              v.path_start, v.query_start, v.fragment_start, v.flags)
  BY <1>7 DEF Rec
<1> QED
  BY <1>6, <1>8

(* The text a port leaves when it goes.                                    *)
LEMMA PortGone ==
  ASSUME NEW s, NEW se, NEW ue, NEW hs, NEW he, NEW pt, NEW ps, NEW qs, NEW fs, NEW fl
  PROVE  LET v == Rec(s, se, ue, hs, he, pt, ps, qs, fs, fl)
             w == SetPortInternal(v, NoPort).url
         IN w = v \/ w.ser = Upto(s, he) \o <<>> \o From(s, ps)
<1> DEFINE v == Rec(s, se, ue, hs, he, pt, ps, qs, fs, fl)
           ser == Upto(s, he) \o PortSuffix(NoPort) \o From(s, ps)
<1>1. v.ser = s /\ v.host_end = he /\ v.path_start = ps
  BY DEF Rec
<1>2. PortSuffix(NoPort) = <<>>
  BY DEF PortSuffix
<1>3. NoPort = v.port => SetPortInternal(v, NoPort).url = v
  BY DEF SetPortInternal, Ok
<1>4. NoPort # v.port => SetPortInternal(v, NoPort).url.ser = ser
  BY <1>1 DEF SetPortInternal, Ok, Rec
<1> QED
  BY <1>2, <1>3, <1>4

(* Dropping a port from an href that is too long does not make it fit.     *)
LEMMA SchemeFits ==
  ASSUME NEW u \in Records, LaidOut(u), NEW h \in Text, Len(h) <= U32Max,
         NEW p \in 0..NoPort,
         LET v == WithScheme(u, h) IN p = v.port /\ Fits(SetPort(v, p).url)
  PROVE  Len(WithScheme(u, h).ser) < U32Max
<1> DEFINE v == WithScheme(u, h)
           w == SetPort(v, p).url
           m == Len(v.ser)
<1>1. /\ v.ser = h \o From(u.ser, u.scheme_end) /\ v.port = u.port
      /\ v.host_end = Adjust(u.host_end, u.scheme_end, Len(h))
      /\ v.path_start = Adjust(u.path_start, u.scheme_end, Len(h))
  BY DEF WithScheme, MoveHost, MovePath, MoveQueryAndFragment, Records
<1>2. /\ u.scheme_end \in Nat /\ u.host_end \in Nat /\ u.path_start \in Nat
      /\ u.ser \in Text /\ Len(u.ser) \in Nat /\ Len(h) \in Nat
      /\ u.path_start <= U32Max
      /\ u.scheme_end <= u.host_end /\ u.host_end <= u.path_start
      /\ u.path_start <= u.host_end + 6 /\ u.scheme_end <= Len(u.ser)
  <2>1. u.path_start \in Offset
    BY Fields
  <2>2. Len(h) \in Nat
    BY LenProperties DEF Text
  <2> QED
    BY Fields, LaidOutBounds, U32MaxAssumption, <2>1, <2>2 DEF Offset
<1>3. v.ser \in Text /\ m \in Nat
  <2>1. v.ser \in Text
    BY <1>1, <1>2, CutTokens
  <2> HIDE DEF v
  <2> QED
    BY <2>1, LenProperties DEF Text
<1>4. /\ v.host_end \in Nat /\ v.host_end <= U32Max
      /\ v.path_start \in Nat /\ v.path_start <= U32Max
      /\ v.path_start <= v.host_end + 6
  <2>1. /\ Adjust(u.host_end, u.scheme_end, Len(h)) \in 0..U32Max
        /\ Adjust(u.path_start, u.scheme_end, Len(h)) \in 0..U32Max
        /\ Adjust(u.path_start, u.scheme_end, Len(h)) <= Adjust(u.host_end, u.scheme_end, Len(h)) + 6
    BY <1>2, WrappedGap
  <2> HIDE DEF v
  <2>2. v.host_end \in 0..U32Max /\ v.path_start \in 0..U32Max
    BY <1>1, <2>1
  <2> QED
    BY <1>1, <2>1, <2>2, U32MaxAssumption
<1>5. \/ w.ser = v.ser
      \/ w.ser = Upto(v.ser, v.host_end) \o <<>> \o From(v.ser, v.path_start)
  <2>1. \/ SetPort(v, p).url = v
        \/ SetPort(v, p) = SetPortInternal(v, NoPort)
    <3> HIDE DEF v
    <3>1. CASE CannotHaveUsernamePasswordPort(v)
      BY <3>1 DEF SetPort, Err
    <3>2. CASE ~CannotHaveUsernamePasswordPort(v) /\ p = DefaultPort(Scheme(v))
      BY <3>2 DEF SetPort
    <3>3. CASE ~CannotHaveUsernamePasswordPort(v) /\ p # DefaultPort(Scheme(v))
      <4>1. SetPort(v, p) = SetPortInternal(v, p) /\ p = v.port
        BY <3>3 DEF SetPort, v
      <4>2. SetPortInternal(v, p) = Ok(v)
        BY <4>1 DEF SetPortInternal
      <4> QED
        BY <4>1, <4>2 DEF Ok
    <3> QED
      BY <3>1, <3>2, <3>3
  <2>2. \/ SetPortInternal(v, NoPort).url = v
        \/ SetPortInternal(v, NoPort).url.ser
             = Upto(v.ser, v.host_end) \o <<>> \o From(v.ser, v.path_start)
    <3>1. v = Rec(v.ser, v.scheme_end, v.username_end, v.host_start, v.host_end, v.port,
                  v.path_start, v.query_start, v.fragment_start, v.flags)
      BY Zenon, SchemeRec DEF v
    <3> HIDE DEF v
    <3> QED
      BY <3>1, PortGone
  <2> QED
    BY <2>1, <2>2
<1>6. Len(w.ser) + 6 < U32Max
  BY DEF Fits
<1> HIDE DEF v, w
<1>7. ASSUME m >= U32Max PROVE FALSE
  <2>1. v.host_end <= Len(v.ser) /\ v.path_start <= Len(v.ser)
    BY <1>3, <1>4, <1>7, U32MaxAssumption
  <2>2. PICK x \in Text : x = Upto(v.ser, v.host_end) /\ Len(x) = v.host_end
    BY <1>3, <1>4, <2>1, UptoTokens
  <2>3. x \o <<>> = x
    BY <2>2, ConcatEmptySeq DEF Text
  <2>4. Len(x \o From(v.ser, v.path_start)) = v.host_end + (Len(v.ser) - v.path_start)
    <3>1. Len(x \o From(v.ser, v.path_start)) = Len(x) + (Len(v.ser) - v.path_start)
      BY <1>3, <1>4, <2>1, CutTokens
    <3> QED
      BY <2>2, <3>1
  <2>5. w.ser # v.ser
    BY <1>3, <1>6, <1>7, U32MaxAssumption
  <2>6. Len(w.ser) = v.host_end + (m - v.path_start)
    BY <1>5, <2>2, <2>3, <2>4, <2>5
  <2> QED
    BY <1>3, <1>4, <1>6, <1>7, <2>6, U32MaxAssumption, SMTT(30)
<1> QED
  BY <1>3, <1>7, U32MaxAssumption DEF v

(* A scheme replaced takes the default port it meets away.                 *)
SchemeChanged(u, v, s) ==
  /\ s.rest = <<>> /\ s.scheme # Scheme(u)
  /\ IsSpecial(s.scheme) = IsSpecial(Scheme(u))
  /\ s.scheme = <<"file">> => ~IncludesCredentials(u) /\ u.port = NoPort
  /\ IsSpecial(Scheme(u)) => ~HostIsNullOrEmpty(u)
  /\ Gives(u, v, PutScheme(Components(u), s.scheme,
                           IF u.port = DefaultPort(s.scheme) THEN NoPort ELSE u.port))

LEMMA SchemeThenPort ==
  ASSUME NEW u, NEW h, NEW x, NEW y
  PROVE  LET c == Components(u)
             d == PutScheme(c, h, x)
         IN /\ PutPort(d, y) = PutScheme(c, h, y)
            /\ d.scheme = h /\ d.host = c.host /\ d.port = x
<1>1. PICK sc, un, pw, ho, po, pa, op, qu, fr :
        Components(u) = PartsOf(sc, un, pw, ho, po, pa, op, qu, fr)
  BY ComponentsOf
<1>2. /\ PutScheme(Components(u), h, x) = PartsOf(h, un, pw, ho, x, pa, op, qu, fr)
      /\ PutScheme(Components(u), h, y) = PartsOf(h, un, pw, ho, y, pa, op, qu, fr)
  BY <1>1, SchemePut
<1>3. PutPort(PutScheme(Components(u), h, x), y) = PutScheme(Components(u), h, y)
  BY <1>2, PortPut
<1> QED
  BY <1>1, <1>2, <1>3 DEF PartsOf

(* A default port is taken away.                                           *)
LEMMA DefaultPortGoes ==
  ASSUME NEW v \in Records, v.port = DefaultPort(Scheme(v)), v.port # NoPort,
         ~CannotHaveUsernamePasswordPort(v)
  PROVE  SetPort(v, v.port).url # v
<1>1. SetPort(v, v.port) = SetPortInternal(v, NoPort)
  BY DEF SetPort
<1>2. SetPortInternal(v, NoPort).url.port = NoPort
  BY DEF SetPortInternal, Ok, Records
<1> QED
  BY <1>1, <1>2

LEMMA SetSchemeSound ==
  ASSUME NEW u \in Records, LaidOut(u), NEW text, Visible(text) \in Text
  PROVE  LET r == SetScheme(u, text)
         IN /\ Sound(r)
            /\ Fits(r.url) /\ PortBelongs(u) =>
                 \/ r.url = u
                 \/ \E s \in ParseSchemeSetter(text) : SchemeChanged(u, r.url, s)
<1> DEFINE parsed == ParseSchemeSetter(text)
           s      == CHOOSE r \in parsed : TRUE
           v      == WithScheme(u, s.scheme)
           ported == SetPort(v, v.port)
<1>1. \/ SetScheme(u, text) \in {Err(u), Ok(u), Panic(u)}
      \/ /\ parsed # {} /\ ~SchemeRefused(u, s.scheme, s.rest) /\ s.scheme # Scheme(u)
         /\ ~(Len(s.scheme) > U32Max) /\ ported.outcome # "panic"
         /\ SetScheme(u, text) = Ok(ported.url)
  BY DEF SetScheme
<1>2. SUFFICES ASSUME parsed # {}, ~SchemeRefused(u, s.scheme, s.rest), s.scheme # Scheme(u),
                      ~(Len(s.scheme) > U32Max), ported.outcome # "panic",
                      Fits(ported.url)
               PROVE  /\ ported.url \in Records /\ LaidOut(ported.url)
                      /\ PortBelongs(u) => SchemeChanged(u, ported.url, s)
  <2>1. /\ Ok(u).url = u /\ Err(u).url = u /\ Panic(u).url = u
        /\ Ok(ported.url).url = ported.url /\ Ok(ported.url).outcome = "ok"
    BY DEF Ok, Err, Panic
  <2>2. parsed # {} => s \in ParseSchemeSetter(text)
    OBVIOUS
  <2> HIDE DEF ported, s, parsed
  <2> QED
    BY <1>1, <2>1, <2>2, RefusedSound DEF Sound
<1>3. s.scheme \in Text /\ Len(s.scheme) \in Nat \ {0}
  BY <1>2, SchemeSetterFacts
<1>4. IsSpecial(s.scheme) = IsSpecial(Scheme(u))
  BY <1>2 DEF SchemeRefused, IsSpecial
<1> HIDE DEF s
<1>9. v.port = u.port
  BY DEF WithScheme, MoveHost, MovePath, MoveQueryAndFragment, Records
<1>5. v.port \in 0..NoPort
  BY <1>9, Fields
<1>6. Len(v.ser) < U32Max
  <2>1. Len(s.scheme) <= U32Max
    BY <1>2, <1>3, U32MaxAssumption
  <2> QED
    BY <1>2, <1>3, <1>5, <2>1, SchemeFits
<1>7. /\ v \in Records /\ LaidOut(v)
      /\ Gives(u, v, PutScheme(Components(u), s.scheme, u.port))
  <2>1. Len(s.scheme) > 0
    BY <1>3
  <2> QED
    BY <1>3, <1>4, <1>6, <2>1, WithSchemeSound
<1> HIDE DEF v
<1>8. /\ Sound(ported)
      /\ LET d == DefaultPort(Scheme(v))
         IN \/ ported.url = v
            \/ Gives(v, ported.url, PutPort(Components(v), IF v.port = d THEN NoPort ELSE v.port))
  BY <1>2, <1>5, <1>7, SetPortSound
<1>10. Scheme(v) = s.scheme /\ (HostIsNullOrEmpty(v) <=> HostIsNullOrEmpty(u))
  <2>1. /\ Components(v).scheme = s.scheme /\ Components(v).host = Components(u).host
    BY <1>7, SchemeThenPort DEF Gives
  <2> QED
    BY <1>7, <2>1, ComponentTests
<1>11. ported.url = v /\ PortBelongs(u) => (v.port = DefaultPort(s.scheme) => v.port = NoPort)
  <2> SUFFICES ASSUME PortBelongs(u), v.port = DefaultPort(s.scheme), v.port # NoPort
               PROVE  ported.url # v
    OBVIOUS
  <2>1. ~CannotHaveUsernamePasswordPort(u)
    BY <1>9 DEF PortBelongs
  <2>2. s.scheme # <<"file">>
    BY <1>2, <1>9 DEF SchemeRefused
  <2>3. ~CannotHaveUsernamePasswordPort(v)
    BY <1>10, <2>1, <2>2 DEF CannotHaveUsernamePasswordPort
  <2> QED
    BY <1>7, <1>10, <2>3, DefaultPortGoes
<1> DEFINE q == IF u.port = DefaultPort(s.scheme) THEN NoPort ELSE u.port
<1>12. ASSUME PortBelongs(u) PROVE Gives(u, ported.url, PutScheme(Components(u), s.scheme, q))
  <2>1. CASE ported.url = v
    <3>1. q = u.port
      BY <1>9, <1>11, <1>12, <2>1
    <3> QED
      BY <1>7, <2>1, <3>1
  <2>2. CASE ported.url # v
    <3>1. Gives(v, ported.url, PutPort(Components(v), q))
      BY <1>8, <1>9, <1>10, <2>2
    <3> HIDE DEF q, ported
    <3> QED
      BY <1>7, <3>1, SchemeThenPort DEF Gives
  <2> QED
    BY <2>1, <2>2
<1> HIDE DEF ported
<1>13. PortBelongs(u) => SchemeChanged(u, ported.url, s)
  BY <1>2, <1>4, <1>12 DEF SchemeChanged, SchemeRefused
<1> QED
  BY <1>2, <1>8, <1>13 DEF Sound
-----------------------------------------------------------------------------
(* set_host, set_hostname and set_ip_host.                                 *)

(* Behind the authority stands the path, the query, the fragment or        *)
(* nothing.                                                                *)
LEMMA PathStartToken ==
  ASSUME NEW s \in Text, NEW ps \in Nat, NEW qs \in Nat, NEW fs \in Nat,
         Tails(Part(s, ps, qs, fs)), Rooted(Part(s, ps, qs, fs))
  PROVE  ~TokenAt(s, ps, "@") /\ ~TokenAt(s, ps, ":")
<1>1. Len(s) \in Nat
  BY LenProperties DEF Text
<1> QED
  BY <1>1 DEF Tails, Rooted, Part, PathEndOf, QueryEndOf, TokenAt

(* The text r with the host h behind x, and all that follows it.           *)
HostBehind(r, s, ps, qs, fs, x, he, se, ue, h, p, ps2, qs2, fs2, fl) ==
  /\ Hosted(r, se, ue, Len(x), he, p, ps2, qs2, fs2, fl)
  /\ Kept(r, x, Len(x))
  /\ Slice(r, Len(x), he) = h
  /\ SameTail(Part(r, ps2, qs2, fs2), Part(s, ps, qs, fs))

HostStands(s, ps, qs, fs, x, se, ue, h, p, w, b, fl) ==
  LET head == x \o h \o w
  IN HostBehind(head \o From(s, b), s, ps, qs, fs, x, Len(x \o h), se, ue, h, p,
             Adjust(ps, b, Len(head)), AdjustOpt(qs, b, Len(head)), AdjustOpt(fs, b, Len(head)), fl)

(* A host h written behind x, the scheme and the userinfo, and in front of *)
(* the port that was there, or of a port w written with it.                *)
LEMMA HostWritten ==
  ASSUME NEW s \in Text, NEW ps \in Nat, NEW qs \in Offset, NEW fs \in Offset,
         Tails(Part(s, ps, qs, fs)), Rooted(Part(s, ps, qs, fs)),
         NEW x \in Text, NEW se \in Nat, NEW ue \in Nat, se > 0,
         TokenAt(x, se, ":"), TokenAt(x, se + 1, "/"), TokenAt(x, se + 2, "/"),
         UserinfoAt(x, se, ue, Len(x)),
         NEW h \in Text, ~StartsWith(h, "@"), ~StartsWith(h, ":"),
         NEW p \in 0..NoPort, h = <<>> => p = NoPort,
         NEW w \in Text, NEW b \in Nat, b <= ps,
         \/ w = <<>> /\ TextAt(s, b, PortSuffix(p)) /\ ps = b + Len(PortSuffix(p))
         \/ w = PortSuffix(p) /\ b = ps,
         NEW fl \in SUBSET FlagNames, "OPAQUE_PATH" \notin fl,
         Len(x \o h \o w \o From(s, b)) < U32Max
  PROVE  HostStands(s, ps, qs, fs, x, se, ue, h, p, w, b, fl)
<1> DEFINE named == x \o h
           head  == named \o w
           r     == head \o From(s, b)
           a(y)  == Adjust(y, b, Len(head))
           o(y)  == AdjustOpt(y, b, Len(head))
<1>1. PICK lx \in Nat, lh \in Nat, lw \in Nat, lp \in Nat :
        lx = Len(x) /\ lh = Len(h) /\ lw = Len(w) /\ lp = Len(PortSuffix(p))
  BY PortSuffixFacts, LenProperties DEF Text
<1>2. PortSuffix(p) \in Text
  BY PortSuffixFacts
<1>3. /\ named \in Text /\ Len(named) = lx + lh
      /\ \A t : \A k \in Nat : k < lx => (TokenAt(named, k, t) <=> TokenAt(x, k, t))
      /\ \A t : \A k \in Nat : TokenAt(named, lx + k, t) <=> TokenAt(h, k, t)
  <2>1. /\ named \in Text /\ Len(named) = Len(x) + Len(h)
        /\ \A t : \A k \in Nat : k < Len(x) => (TokenAt(named, k, t) <=> TokenAt(x, k, t))
        /\ \A t : \A k \in Nat : TokenAt(named, Len(x) + k, t) <=> TokenAt(h, k, t)
    BY JoinTokens
  <2> QED
    BY <1>1, <2>1
<1> HIDE DEF named
<1>4. /\ head \in Text /\ Len(head) = (lx + lh) + lw
      /\ \A t : \A k \in Nat : k < lx + lh => (TokenAt(head, k, t) <=> TokenAt(named, k, t))
      /\ TextAt(head, lx + lh, w)
  <2>1. /\ head \in Text /\ Len(head) = Len(named) + Len(w)
        /\ \A t : \A k \in Nat : k < Len(named) => (TokenAt(head, k, t) <=> TokenAt(named, k, t))
        /\ TextAt(head, Len(named), w)
    BY <1>3, JoinTokens, WrittenText
  <2> QED
    BY <1>1, <1>3, <2>1
<1> HIDE DEF head
<1>5. Len(s) \in Nat /\ ps <= Len(s) /\ qs \in Nat /\ fs \in Nat /\ b <= Len(s)
  <2>1. Len(s) \in Nat /\ qs \in Nat /\ fs \in Nat
    BY LenProperties, U32MaxAssumption DEF Text, Offset
  <2>2. ps <= Len(s)
    BY <2>1 DEF Tails, Part, PathEndOf, QueryEndOf
  <2> QED
    BY <2>1, <2>2
<1>6. /\ r \in Text
      /\ a(ps) = Len(head) + (ps - b) /\ a(ps) \in Offset
      /\ o(qs) \in Offset /\ o(fs) \in Offset
      /\ Tails(Part(r, a(ps), o(qs), o(fs))) /\ Rooted(Part(r, a(ps), o(qs), o(fs)))
  <2>1. head \in Text /\ Len(head \o From(s, b)) < U32Max
    BY <1>4 DEF head, named
  <2> QED
    BY <2>1, Rebuilt
<1>16. SameTail(Part(r, a(ps), o(qs), o(fs)), Part(s, ps, qs, fs))
  <2>1. head \in Text /\ Len(head \o From(s, b)) < U32Max
    BY <1>4 DEF head, named
  <2>2. o(qs) = Moved(qs, ps, a(ps)) /\ o(fs) = Moved(fs, ps, a(ps))
    BY <2>1, Rebuilt, SMTT(30)
  <2> HIDE DEF a, o
  <2> QED
    BY <1>5, <1>6, <2>1, <2>2, TailText
<1>7. /\ Len(r) = Len(head) + (Len(s) - b)
      /\ \A t : \A k \in Nat : k < Len(head) => (TokenAt(r, k, t) <=> TokenAt(head, k, t))
      /\ \A t : \A k \in Nat : TokenAt(r, Len(head) + k, t) <=> TokenAt(s, b + k, t)
      /\ \A k \in Nat, y \in Text : b + k <= Len(s) => (TextAt(r, Len(head) + k, y) <=> TextAt(s, b + k, y))
  <2>1. head \in Text /\ b <= Len(s)
    BY <1>4, <1>5
  <2> QED
    <3>1. CutOf(s, head, b)
      BY <2>1, CutHolds
    <3> QED
      BY <3>1, Zenon DEF CutOf
<1> HIDE DEF r, a, o
<1>8. Kept(r, x, lx)
  <2>1. ASSUME NEW k \in Nat, NEW t, k < lx
        PROVE  TokenAt(r, k, t) <=> TokenAt(x, k, t)
    <3>1. k < lx + lh /\ k < Len(head)
      BY <1>1, <1>4, <2>1
    <3>2. TokenAt(r, k, t) <=> TokenAt(head, k, t)
      BY <1>7, <3>1
    <3>3. TokenAt(head, k, t) <=> TokenAt(named, k, t)
      BY <1>4, <3>1
    <3> QED
      BY <1>3, <2>1, <3>2, <3>3
  <2> QED
    BY <2>1 DEF Kept
<1>9. a(ps) = (lx + lh) + lp
  <2>1. CASE w = <<>> /\ ps = b + Len(PortSuffix(p))
    <3>1. lw = 0 /\ ps - b = lp /\ Len(head) = lx + lh
      BY <1>1, <1>4, <2>1
    <3> QED
      BY <1>6, <3>1
  <2>2. CASE w = PortSuffix(p) /\ b = ps
    <3>1. lw = lp /\ ps - b = 0 /\ Len(head) = (lx + lh) + lp
      BY <1>1, <1>4, <2>2
    <3> QED
      BY <1>1, <1>6, <3>1
  <2> QED
    BY <2>1, <2>2
<1>10. TextAt(r, lx + lh, PortSuffix(p))
  <2>1. CASE w = <<>> /\ TextAt(s, b, PortSuffix(p)) /\ ps = b + Len(PortSuffix(p))
    <3>1. lw = 0 /\ Len(head) = lx + lh
      BY <1>1, <1>4, <2>1
    <3>2. TextAt(r, Len(head) + 0, PortSuffix(p)) <=> TextAt(s, b + 0, PortSuffix(p))
      <4>1. 0 \in Nat /\ b + 0 <= Len(s)
        BY <1>5
      <4> HIDE DEF PortSuffix
      <4> QED
        BY <1>2, <1>7, <4>1
    <3>3. Len(head) + 0 = lx + lh /\ b + 0 = b
      BY <3>1
    <3> QED
      BY <2>1, <3>2, <3>3
  <2>2. CASE w = PortSuffix(p) /\ b = ps
    <3>1. (lx + lh) + Len(PortSuffix(p)) <= Len(head) /\ lx + lh \in Nat /\ Len(head) <= Len(r)
      BY <1>1, <1>4, <1>5, <1>7, <2>2
    <3>2. TextAt(head, lx + lh, PortSuffix(p)) /\ head \in Text /\ r \in Text
      BY <1>4, <1>6, <2>2
    <3> QED
      BY <1>2, <1>7, <3>1, <3>2, HeadText
  <2> QED
    BY <2>1, <2>2
<1>11. ~TokenAt(r, lx, "@") /\ ~TokenAt(r, lx, ":")
  <2>1. CASE lh > 0
    <3>1. \A t : TokenAt(r, lx, t) <=> TokenAt(named, lx + 0, t)
      BY <1>1, <1>4, <1>7, <2>1, SMTT(30)
    <3>2. \A t : TokenAt(named, lx + 0, t) <=> TokenAt(h, 0, t)
      BY <1>3
    <3>3. ~TokenAt(h, 0, "@") /\ ~TokenAt(h, 0, ":")
      BY DEF TokenAt, StartsWith
    <3> QED
      BY <3>1, <3>2, <3>3
  <2>2. CASE lh = 0
    <3>1. h = <<>>
      BY <1>1, <2>2, EmptySeq DEF Text
    <3>2. PortSuffix(p) = <<>> /\ lp = 0 /\ w = <<>> /\ lw = 0 /\ b = ps
      BY <1>1, <3>1 DEF PortSuffix
    <3>3. Len(head) + 0 = lx /\ b + 0 = ps
      BY <1>4, <2>2, <3>2
    <3>4. \A t : TokenAt(r, Len(head) + 0, t) <=> TokenAt(s, b + 0, t)
      BY <1>7
    <3>5. ~TokenAt(s, ps, "@") /\ ~TokenAt(s, ps, ":")
      BY <1>5, PathStartToken
    <3> QED
      BY <3>3, <3>4, <3>5
  <2> QED
    BY <1>1, <2>1, <2>2
<1>12. HostAt(r, lx, lx + lh, p, a(ps))
  BY <1>1, <1>9, <1>10, <1>11 DEF HostAt
<1>13. se + 3 <= lx
  BY <1>1 DEF UserinfoAt
<1>14. AuthorityAt(r, se, ue, lx, lx + lh, p, a(ps)) /\ TokenAt(r, se, ":")
  <2>1. UserinfoAt(x, se, ue, lx)
    BY <1>1
  <2>2. UserinfoAt(r, se, ue, lx)
    BY <1>8, <2>1, UserinfoKept
  <2>3. \A k \in {se, se + 1, se + 2} : k \in Nat /\ k < lx
    BY <1>13
  <2>4. TokenAt(r, se, ":") /\ TokenAt(r, se + 1, "/") /\ TokenAt(r, se + 2, "/")
    BY <1>8, <2>3 DEF Kept
  <2> QED
    BY <1>12, <2>2, <2>4 DEF AuthorityAt
<1>15. Hosted(r, se, ue, lx, lx + lh, p, a(ps), o(qs), o(fs), fl)
  BY <1>6, <1>14 DEF Hosted
<1>17. Slice(r, lx, lx + lh) = h
  <2>1. ASSUME NEW k \in Nat, NEW t, k < lx + lh
        PROVE  TokenAt(r, k, t) <=> TokenAt(named, k, t)
    <3>1. k < Len(head)
      BY <1>1, <1>4, <2>1
    <3> QED
      BY <1>4, <1>7, <2>1, <3>1
  <2>2. Kept(r, named, lx + lh)
    BY <2>1 DEF Kept
  <2>3. lx + lh <= Len(r) /\ r \in Text
    <3>1. Len(r) = Len(head) + (Len(s) - b) /\ Len(head) = (lx + lh) + lw
      BY <1>4, <1>7
    <3> QED
      BY <1>5, <1>6, <3>1, SMTT(30)
  <2>4. Kept(r, x \o h, lx + lh)
    BY <2>2 DEF named
  <2> QED
    BY <1>1, <2>3, <2>4, WrittenSlice
<1> QED
  BY <1>1, <1>3, <1>8, <1>15, <1>16, <1>17 DEF r, a, o, head, named, HostStands, HostBehind

(* The path ends where no "/" and no "." stands.                           *)
LEMMA PathEndToken ==
  ASSUME NEW s \in Text, NEW ps \in Nat, NEW qs \in Nat, NEW fs \in Nat,
         Tails(Part(s, ps, qs, fs))
  PROVE  LET pe == PathEndOf(Part(s, ps, qs, fs))
         IN /\ pe \in Nat /\ ps <= pe /\ pe <= Len(s)
            /\ ~TokenAt(s, pe, "/") /\ ~TokenAt(s, pe, ".")
<1>1. Len(s) \in Nat
  BY LenProperties DEF Text
<1> QED
  BY <1>1 DEF Tails, Part, PathEndOf, QueryEndOf, TokenAt

(* A URL without authority whose path is not opaque.                       *)
LEMMA Unhosted ==
  ASSUME NEW u \in Records, LaidOut(u), ~CannotBeABase(u), ~WithAuthority(u)
  PROVE  /\ ~HasAuthority(u)
         /\ u.username_end = u.scheme_end + 1 /\ u.host_start = u.scheme_end + 1
         /\ u.host_end = u.scheme_end + 1 /\ u.port = NoPort
         /\ Rooted(Part(u.ser, u.path_start, u.query_start, u.fragment_start))
         /\ \/ /\ u.path_start = u.scheme_end + 1
               /\ ~TextAt(u.ser, u.path_start, <<"/", ".", "/", "/">>)
            \/ /\ u.path_start = u.scheme_end + 3
               /\ TextAt(u.ser, u.scheme_end + 1, <<"/", ".", "/", "/">>)
               /\ ~TextAt(u.ser, u.path_start, <<"/", ".", "/", "/">>)
<1> DEFINE s == u.ser  se == u.scheme_end  ps == u.path_start
           qs == u.query_start  fs == u.fragment_start
           w == Part(s, ps, qs, fs)
           pe == PathEndOf(w)
<1>1. s \in Text /\ se \in Nat /\ ps \in Nat /\ qs \in Nat /\ fs \in Nat /\ Len(s) \in Nat
  BY Fields, U32MaxAssumption DEF Offset
<1>2. /\ Tails(u) <=> Tails(w)
      /\ Rooted(u) <=> Rooted(w)
      /\ \A t : PathBegins(u, t) <=> PathBegins(w, t)
  BY DEF Tails, Rooted, PathBegins, PathEndOf, QueryEndOf, Part
<1>3. Tails(w) /\ WithoutAuthority(u) /\ (PlainShape(u) \/ MarkerShape(u))
  BY <1>2 DEF LaidOut, OpaqueShape
<1>4. /\ pe \in Nat /\ ps <= pe /\ pe <= Len(s)
      /\ ~TokenAt(s, pe, "/") /\ ~TokenAt(s, pe, ".")
  BY <1>1, <1>3, PathEndToken
<1>5. \A t : PathBegins(w, t) <=> ps + Len(t) <= pe /\ TextAt(s, ps, t)
  BY DEF PathBegins, Part
<1>6. CASE PlainShape(u)
  <2>1. /\ ps = se + 1 /\ Rooted(w)
        /\ ~PathBegins(w, <<"/", "/">>) /\ ~PathBegins(w, <<"/", ".", "/">>)
    BY <1>2, <1>6 DEF PlainShape
  <2> HIDE DEF s, se, ps, pe, w
  <2>2. ~(TokenAt(s, ps, "/") /\ TokenAt(s, ps + 1, "/"))
    <3> SUFFICES ASSUME TokenAt(s, ps, "/"), TokenAt(s, ps + 1, "/") PROVE FALSE
      OBVIOUS
    <3>1. pe # ps /\ pe # ps + 1
      BY <1>4
    <3>2. ps + 2 <= pe
      BY <1>1, <1>4, <3>1
    <3>3. TextAt(s, ps, <<"/", "/">>)
      BY <1>1, <1>4, <3>2 DEF TextAt, TokenAt
    <3> QED
      BY <1>5, <2>1, <3>2, <3>3
  <2>3. ~TextAt(s, ps, <<"/", ".", "/", "/">>)
    <3> SUFFICES ASSUME TextAt(s, ps, <<"/", ".", "/", "/">>) PROVE FALSE
      OBVIOUS
    <3>1. TokenAt(s, ps, "/") /\ TokenAt(s, ps + 1, ".") /\ TokenAt(s, ps + 2, "/")
      BY <1>1 DEF TextAt, TokenAt
    <3>2. pe # ps /\ pe # ps + 1 /\ pe # ps + 2
      BY <1>4, <3>1
    <3>3. ps + 3 <= pe
      BY <1>1, <1>4, <3>2
    <3>4. TextAt(s, ps, <<"/", ".", "/">>)
      BY <1>1 DEF TextAt
    <3> QED
      BY <1>5, <2>1, <3>3, <3>4
  <2>4. ~HasAuthority(u)
    <3>1. (se + 1) + 1 = se + 2
      BY <1>1
    <3> QED
      BY <2>1, <2>2, <3>1 DEF HasAuthority, s, se
  <2> QED
    BY <1>3, <2>1, <2>3, <2>4 DEF WithoutAuthority, s, se, ps, w
<1>7. CASE MarkerShape(u)
  <2>1. ps = se + 3 /\ TextAt(s, se + 1, <<"/", ".">>) /\ PathBegins(w, <<"/", "/">>)
    BY <1>2, <1>7 DEF MarkerShape
  <2>2. ps + 2 <= pe /\ TextAt(s, ps, <<"/", "/">>)
    <3>1. Len(<<"/", "/">>) = 2
      OBVIOUS
    <3>2. ps + Len(<<"/", "/">>) <= pe /\ TextAt(s, ps, <<"/", "/">>)
      <4> HIDE DEF s, ps, pe, w
      <4> QED
        BY <1>5, <2>1
    <3> QED
      BY <3>1, <3>2
  <2> HIDE DEF s, se, ps, pe, w
  <2>3. /\ s[(se + 1) + 1] = "/" /\ s[(se + 1) + 2] = "."
        /\ s[ps + 1] = "/" /\ s[ps + 2] = "/"
    BY <1>1, <2>1, <2>2 DEF TextAt
  <2>4. ps + 1 = (se + 1) + 3 /\ ps + 2 = (se + 1) + 4 /\ (se + 1) + 4 <= Len(s)
        /\ (se + 2) + 1 = (se + 1) + 2
    BY <1>1, <1>4, <2>1, <2>2
  <2>5. TextAt(s, se + 1, <<"/", ".", "/", "/">>)
    BY <1>1, <2>3, <2>4 DEF TextAt
  <2>6. ~TextAt(s, ps, <<"/", ".", "/", "/">>)
    BY <1>1, <2>3 DEF TextAt
  <2>7. ~HasAuthority(u)
    BY <2>3, <2>4 DEF HasAuthority, TokenAt, s, se
  <2>8. Rooted(w)
    BY <1>1, <1>4, <2>2, <2>3 DEF Rooted, Part, TokenAt, w
  <2> QED
    BY <1>3, <2>1, <2>5, <2>6, <2>7, <2>8 DEF WithoutAuthority, s, se, ps, w
<1> QED
  BY <1>3, <1>6, <1>7

(* What stands in front of the new host.                                   *)
LEMMA HostStart ==
  ASSUME NEW u \in Records, LaidOut(u), ~CannotBeABase(u)
  PROVE  LET slashes == IF HasAuthority(u) THEN <<>> ELSE <<"/", "/">>
             x == Upto(u.ser, u.host_start) \o slashes
             n == Len(slashes)
         IN /\ n = (IF HasAuthority(u) THEN 0 ELSE 2) /\ x \in Text /\ Len(x) = u.host_start + n
            /\ Kept(x, u.ser, u.host_start)
            /\ TokenAt(x, u.scheme_end, ":")
            /\ TokenAt(x, u.scheme_end + 1, "/") /\ TokenAt(x, u.scheme_end + 2, "/")
            /\ UserinfoAt(x, u.scheme_end, u.username_end + n, u.host_start + n)
<1> DEFINE s == u.ser             se == u.scheme_end   ue == u.username_end
           hs == u.host_start
           y == Upto(s, hs)
           slashes == IF HasAuthority(u) THEN <<>> ELSE <<"/", "/">>
           x == y \o slashes
<1>1. /\ s \in Text /\ se \in Nat /\ ue \in Nat /\ hs \in Nat /\ Len(s) \in Nat
      /\ hs <= Len(s) /\ TokenAt(s, se, ":")
  <2>1. u.host_end \in Nat /\ u.path_start \in Nat
    BY Fields
  <2> QED
    BY <2>1, Fields, LaidOutBounds
<1>2. /\ y \in Text /\ Len(y) = hs
      /\ \A t : \A k \in Nat : k < hs => (TokenAt(y, k, t) <=> TokenAt(s, k, t))
  BY <1>1, UptoTokens
<1>3. /\ <<>> \in Text /\ Len(<<>>) = 0
      /\ <<"/", "/">> \in Text /\ Len(<<"/", "/">>) = 2
      /\ TokenAt(<<"/", "/">>, 0, "/") /\ TokenAt(<<"/", "/">>, 1, "/")
  BY TokensAssumption DEF Text, TokenAt
<1>4. slashes \in Text /\ Len(slashes) = IF HasAuthority(u) THEN 0 ELSE 2
  BY <1>3
<1>5. /\ x \in Text /\ Len(x) = hs + Len(slashes)
      /\ Kept(x, s, hs)
      /\ \A t : \A k \in Nat : TokenAt(x, hs + k, t) <=> TokenAt(slashes, k, t)
  <2> HIDE DEF slashes, y
  <2>1. /\ x \in Text /\ Len(x) = Len(y) + Len(slashes)
        /\ \A t : \A k \in Nat : k < Len(y) => (TokenAt(x, k, t) <=> TokenAt(y, k, t))
        /\ \A t : \A k \in Nat : TokenAt(x, Len(y) + k, t) <=> TokenAt(slashes, k, t)
    BY <1>2, <1>4, JoinTokens
  <2> QED
    BY <1>2, <2>1 DEF Kept
<1>6. CASE WithAuthority(u)
  <2>1. slashes = <<>> /\ UserinfoAt(s, se, ue, hs) /\ TokenAt(s, se + 1, "/") /\ TokenAt(s, se + 2, "/")
    BY <1>6 DEF WithAuthority, HasAuthority, Userinfo, UserinfoAt
  <2> HIDE DEF slashes, x, s, se, ue, hs
  <2>2. UserinfoAt(x, se, ue, hs)
    BY <1>1, <1>5, <2>1, UserinfoKept
  <2>3. \A k \in {se, se + 1, se + 2} : k \in Nat /\ k < hs
    BY <1>1, <2>1 DEF UserinfoAt
  <2>4. TokenAt(x, se, ":") /\ TokenAt(x, se + 1, "/") /\ TokenAt(x, se + 2, "/")
    BY <1>1, <1>5, <2>1, <2>3 DEF Kept
  <2>5. Len(slashes) = 0 /\ ue + 0 = ue /\ hs + 0 = hs
    BY <1>1, <1>3, <2>1
  <2> QED
    BY <1>4, <1>5, <2>2, <2>4, <2>5 DEF slashes, x, s, se, ue, hs
<1>7. CASE ~WithAuthority(u)
  <2>1. slashes = <<"/", "/">> /\ ue = se + 1 /\ hs = se + 1
    BY <1>7, Unhosted
  <2> HIDE DEF slashes, x, s, se, ue, hs
  <2>2. TokenAt(x, hs + 0, "/") /\ TokenAt(x, hs + 1, "/")
    BY <1>3, <1>5, <2>1
  <2>3. hs + 0 = se + 1 /\ hs + 1 = se + 2 /\ Len(slashes) = 2 /\ ue + 2 = se + 3 /\ hs + 2 = se + 3
    BY <1>1, <1>3, <2>1
  <2>4. TokenAt(x, se, ":")
    BY <1>1, <1>5, <2>1 DEF Kept
  <2>5. UserinfoAt(x, se, ue + 2, hs + 2)
    BY <2>3 DEF UserinfoAt
  <2> QED
    BY <1>4, <1>5, <2>2, <2>3, <2>4, <2>5 DEF slashes, x, s, se, ue, hs
<1> QED
  BY <1>6, <1>7

(* Where the text behind the new host is taken from: the port, or the path *)
(* without the marker in front of it.                                      *)
LEMMA HostCut ==
  ASSUME NEW u \in Records, LaidOut(u), ~CannotBeABase(u), NEW newPort
  PROVE  LET suffixPos == IF newPort = {} THEN u.host_end ELSE u.path_start
             skip == IF ~HasAuthority(u) /\ TextAt(u.ser, suffixPos, <<"/", ".", "/", "/">>)
                     THEN 2 ELSE 0
             b    == suffixPos + skip
         IN /\ b \in Nat /\ b <= u.path_start
            /\ newPort = {} => /\ TextAt(u.ser, b, PortSuffix(u.port))
                               /\ u.path_start = b + Len(PortSuffix(u.port))
            /\ newPort # {} => b = u.path_start
            /\ Rooted(Part(u.ser, u.path_start, u.query_start, u.fragment_start))
<1>1. /\ u.ser \in Text /\ Len(u.ser) \in Nat /\ u.host_end \in Nat /\ u.path_start \in Nat
      /\ u.scheme_end \in Nat /\ u.host_end <= u.path_start /\ u.path_start <= Len(u.ser)
  BY Fields, LaidOutBounds
<1>2. CASE WithAuthority(u)
  <2>1. /\ HasAuthority(u) /\ TextAt(u.ser, u.host_end, PortSuffix(u.port))
        /\ u.path_start = u.host_end + Len(PortSuffix(u.port)) /\ Rooted(u)
    BY <1>2 DEF WithAuthority
  <2>2. Rooted(Part(u.ser, u.path_start, u.query_start, u.fragment_start))
    BY <2>1 DEF Rooted, PathEndOf, QueryEndOf, Part
  <2> QED
    BY <1>1, <2>1, <2>2
<1>3. CASE ~WithAuthority(u)
  <2>1. PortSuffix(u.port) = <<>>
    BY <1>3, Unhosted DEF PortSuffix
  <2>2. TextAt(u.ser, u.path_start, <<>>) /\ Len(<<>>) = 0
    BY <1>1 DEF TextAt
  <2> QED
    BY <1>1, <1>3, <2>1, <2>2, Unhosted
<1> QED
  BY <1>2, <1>3

(* The components once a host and a port stand in the text.                *)
NewHost(u, n, r, he, p, ps, qs, fs, fl, h) ==
  Components(Rec(r, u.scheme_end, u.username_end + n, u.host_start + n, he, p, ps, qs, fs, fl))
    = PutHost(Components(u), {h}, p)

LEMMA HostParts ==
  ASSUME NEW u \in Records, LaidOut(u), ~CannotBeABase(u),
         NEW n, n = (IF HasAuthority(u) THEN 0 ELSE 2),
         NEW r, NEW he, NEW p, NEW ps, NEW qs, NEW fs, NEW fl, NEW h,
         Hosted(r, u.scheme_end, u.username_end + n, u.host_start + n, he, p, ps, qs, fs, fl),
         Kept(r, u.ser, u.host_start), Slice(r, u.host_start + n, he) = h,
         SameTail(Part(r, ps, qs, fs),
                  Part(u.ser, u.path_start, u.query_start, u.fragment_start))
  PROVE  NewHost(u, n, r, he, p, ps, qs, fs, fl, h)
<1> DEFINE s == u.ser             se == u.scheme_end   ue == u.username_end
           hs == u.host_start
           w == Part(s, u.path_start, u.query_start, u.fragment_start)
           c == Components(u)
           d == Components(Rec(r, se, ue + n, hs + n, he, p, ps, qs, fs, fl))
<1>1. /\ s \in Text /\ se \in Nat /\ ue \in Nat /\ hs \in Nat /\ Len(s) \in Nat /\ n \in {0, 2}
  BY Fields
<1>2. d = PartsOf(Upto(r, se), Slice(r, se + 3, ue + n), PasswordAt(r, ue + n, hs + n), {h}, p,
                  Path(w), NotOpaque, Query(w), Fragment(w))
  <2>1. d = HostedParts(r, se, ue + n, hs + n, he, p, Part(r, ps, qs, fs))
    BY HostedComponents
  <2> HIDE DEF d
  <2> QED
    BY <2>1 DEF HostedParts, SameTail
<1>3. /\ r \in Text /\ hs + n <= Len(r) /\ Len(r) \in Nat /\ ~TokenAt(r, hs + n, ":")
  <2>1. hs + n <= he /\ he <= ps /\ ps <= Len(r) /\ Len(r) \in Nat /\ ps \in Nat /\ he \in Nat
    BY HostedBounds DEF Hosted
  <2>2. r \in Text /\ ~TokenAt(r, hs + n, ":")
    BY DEF Hosted, AuthorityAt, HostAt
  <2> HIDE DEF hs
  <2> QED
    BY <1>1, <2>1, <2>2
<1>4. CASE WithAuthority(u)
  <2>1. Hosted(s, se, ue, hs, u.host_end, u.port, u.path_start, u.query_start, u.fragment_start,
               u.flags)
    BY <1>4, HostedFields
  <2>2. HasAuthority(u)
    BY <1>4 DEF WithAuthority
  <2>3. /\ se + 3 <= ue /\ ue <= hs /\ hs <= Len(s)
        /\ UserinfoAt(s, se, ue, hs) /\ ~TokenAt(s, hs, ":")
    <3>1. /\ se + 3 <= ue /\ ue <= hs /\ hs <= u.host_end /\ u.host_end <= u.path_start
          /\ u.path_start <= Len(s) /\ u.path_start \in Nat /\ u.host_end \in Nat
      BY <2>1, HostedBounds, Fields
    <3>2. UserinfoAt(s, se, ue, hs) /\ ~TokenAt(s, hs, ":")
      BY <2>1 DEF Hosted, AuthorityAt, HostAt
    <3> HIDE DEF s, se, ue, hs
    <3> QED
      BY <1>1, <3>1, <3>2
  <2>4. c = PartsOf(Upto(s, se), Slice(s, se + 3, ue), PasswordAt(s, ue, hs),
                    {Slice(s, hs, u.host_end)}, u.port, Path(w), NotOpaque, Query(w), Fragment(w))
    <3>1. u = Rec(s, se, ue, hs, u.host_end, u.port, u.path_start, u.query_start, u.fragment_start,
                  u.flags)
      BY Fields
    <3>2. Components(Rec(s, se, ue, hs, u.host_end, u.port, u.path_start, u.query_start,
                         u.fragment_start, u.flags)) = HostedParts(s, se, ue, hs, u.host_end, u.port, w)
      BY <2>1, HostedComponents
    <3> HIDE DEF w, s, se, ue, hs
    <3> QED
      BY <3>1, <3>2 DEF HostedParts
  <2> HIDE DEF c, d, w
  <2>5. Kept(r, s, hs)
    OBVIOUS
  <2> HIDE DEF s, se, ue, hs
  <2>6. n = 0 /\ ue + n = ue /\ hs + n = hs
    BY <1>1, <2>2
  <2>7. SameAuthority(r, s, se, ue, hs, hs)
    <3>1. ~TokenAt(r, hs, ":") /\ hs <= Len(r) /\ hs <= hs
      BY <1>1, <1>3, <2>6
    <3> QED
      BY <1>1, <1>3, <2>3, <2>5, <3>1, KeptAuthority
  <2>8. d = PartsOf(Upto(s, se), Slice(s, se + 3, ue), PasswordAt(s, ue, hs), {h}, p,
                    Path(w), NotOpaque, Query(w), Fragment(w))
    BY <1>2, <2>6, <2>7 DEF SameAuthority
  <2>9. d = PutHost(c, {h}, p)
    BY <2>4, <2>8, HostPut
  <2> QED
    BY <2>9 DEF c, d, s, se, ue, hs, NewHost
<1>5. CASE ~WithAuthority(u)
  <2>1. ~HasAuthority(u) /\ ue = se + 1 /\ hs = se + 1
    BY <1>5, Unhosted
  <2>2. c = PartsOf(Upto(s, se), <<>>, <<>>, {}, NoPort, Path(w), NotOpaque, Query(w), Fragment(w))
    <3>1. u = Rec(s, se, ue, hs, u.host_end, u.port, u.path_start, u.query_start, u.fragment_start,
                  u.flags)
      BY Fields
    <3>2. NoAuthorityAt(s, se, ue, hs, u.host_end, u.port, u.path_start, u.query_start,
                        u.fragment_start, u.flags)
      <4>1. ~AuthorityAt(s, se, ue, hs, u.host_end, u.port, u.path_start)
        BY <2>1 DEF AuthorityAt, HasAuthority
      <4>2. LaidOut(Rec(s, se, ue, hs, u.host_end, u.port, u.path_start, u.query_start,
                        u.fragment_start, u.flags))
        BY <3>1
      <4> QED
        BY <4>1, <4>2, LaidOutFields
    <3>3. Components(Rec(s, se, ue, hs, u.host_end, u.port, u.path_start, u.query_start,
                         u.fragment_start, u.flags)) = BareParts(s, se, u.flags, w)
      BY <1>1, <3>2, BareComponents
    <3>4. Opaque(u.flags) = NotOpaque
      BY DEF Opaque, NotOpaque, CannotBeABase
    <3> HIDE DEF w, s, se, ue, hs
    <3> QED
      BY <3>1, <3>3, <3>4 DEF BareParts
  <2> HIDE DEF c, d, w
  <2>5. Kept(r, s, hs)
    OBVIOUS
  <2> HIDE DEF s, se, ue, hs
  <2>6. n = 2 /\ ue + n = se + 3 /\ hs + n = se + 3 /\ ~TokenAt(r, se + 3, ":") /\ se + 3 \in Nat
    BY <1>1, <1>3, <2>1
  <2>7. Slice(r, se + 3, ue + n) = <<>> /\ PasswordAt(r, ue + n, hs + n) = <<>>
    BY <1>3, <2>6, EmptySlice DEF PasswordAt
  <2>8. Upto(r, se) = Upto(s, se)
    <3>1. Kept(r, s, se)
      BY <1>1, <2>1, <2>5 DEF Kept
    <3>2. se <= Len(s)
      <4>1. TokenAt(s, se, ":")
        BY DEF LaidOut, s, se
      <4> QED
        BY <1>1, <4>1 DEF TokenAt
    <3>3. se <= Len(r)
      BY <1>1, <1>3, <2>1
    <3> QED
      BY <1>1, <1>3, <3>1, <3>2, <3>3, UptoKept
  <2>9. d = PutHost(c, {h}, p)
    <3>1. d = PartsOf(Upto(s, se), <<>>, <<>>, {h}, p, Path(w), NotOpaque, Query(w), Fragment(w))
      BY <1>2, <2>7, <2>8
    <3> QED
      BY <2>2, <3>1, HostPut
  <2> QED
    BY <2>9 DEF c, d, s, se, ue, hs, NewHost
<1> QED
  BY <1>4, <1>5

LEMMA SetHostInternalSound ==
  ASSUME NEW u \in Records, LaidOut(u), ~CannotBeABase(u), NEW host, HostWord(host.text),
         NEW newPort \in SUBSET (0..NoPort),
         host.text = <<>> => \/ newPort = {} /\ u.port = NoPort
                             \/ newPort = {NoPort},
         host.text = <<>> => host.kind = "domain"
  PROVE  LET r == SetHostInternal(u, host, newPort)
         IN /\ Sound(r)
            /\ Fits(r.url) =>
                 \/ r.url = u
                 \/ \E p \in (IF newPort = {} THEN {u.port} ELSE newPort) :
                      Gives(u, r.url, PutHost(Components(u), {host.text}, p))
<1> DEFINE s == u.ser             se == u.scheme_end   ue == u.username_end
           hs == u.host_start     ps == u.path_start
           qs == u.query_start    fs == u.fragment_start
           suffixPos == IF newPort = {} THEN u.host_end ELSE ps
           slashes   == IF HasAuthority(u) THEN <<>> ELSE <<"/", "/">>
           skip      == IF ~HasAuthority(u) /\ TextAt(s, suffixPos, <<"/", ".", "/", "/">>)
                        THEN 2 ELSE 0
           port      == IF newPort = {} THEN u.port ELSE CHOOSE p \in newPort : TRUE
           x     == Upto(s, hs) \o slashes
           n     == Len(slashes)
           named == x \o host.text
           w     == IF newPort = {} THEN <<>> ELSE PortSuffix(port)
           head  == named \o w
           b     == suffixPos + skip
           fl    == (u.flags \ HostFlagNames) \cup FlagsOfHost(host)
           r     == head \o From(s, b)
           a(y)  == Adjust(y, b, Len(head))
           o(y)  == AdjustOpt(y, b, Len(head))
           v     == MovePath([u EXCEPT !.ser = r, !.username_end = @ + n, !.host_start = @ + n,
                                       !.host_end = Len(named), !.port = port, !.flags = fl],
                             b, Len(head))
<1>1. SetHostInternal(u, host, newPort) \in {Panic(u), Ok(v)}
  BY DEF SetHostInternal, Checked
<1>2. /\ s \in Text /\ Len(s) \in Nat /\ se \in Nat /\ ue \in Nat /\ hs \in Nat /\ ps \in Nat
      /\ qs \in Offset /\ fs \in Offset /\ u.flags \in SUBSET FlagNames /\ u.port \in 0..NoPort
      /\ se > 0 /\ ps <= Len(s) /\ Tails(Part(s, ps, qs, fs)) /\ ue <= hs
  BY Fields, LaidOutBounds
<1>3. /\ port \in 0..NoPort /\ (host.text = <<>> => port = NoPort)
      /\ port \in (IF newPort = {} THEN {u.port} ELSE newPort)
  <2>1. CASE newPort = {}
    BY <1>2, <2>1
  <2>2. CASE newPort # {}
    <3>1. port \in newPort
      BY <2>2
    <3> QED
      BY <2>2, <3>1
  <2> QED
    BY <2>1, <2>2
<1>4. /\ n = (IF HasAuthority(u) THEN 0 ELSE 2) /\ n \in {0, 2} /\ x \in Text /\ Len(x) = hs + n
      /\ TokenAt(x, se, ":") /\ TokenAt(x, se + 1, "/") /\ TokenAt(x, se + 2, "/")
      /\ UserinfoAt(x, se, ue + n, hs + n) /\ Kept(x, s, hs)
  BY HostStart
<1>5. /\ b \in Nat /\ b <= ps
      /\ newPort = {} => TextAt(s, b, PortSuffix(u.port)) /\ ps = b + Len(PortSuffix(u.port))
      /\ newPort # {} => b = ps
      /\ Rooted(Part(s, ps, qs, fs))
  BY HostCut
<1>6. fl \in SUBSET FlagNames /\ "OPAQUE_PATH" \notin fl
  BY <1>2 DEF CannotBeABase, FlagNames, HostFlagNames, FlagsOfHost
<1>7. host.text \in Text /\ ~StartsWith(host.text, "@") /\ ~StartsWith(host.text, ":")
  BY DEF HostWord
<1>8. w \in Text
  BY <1>3, PortSuffixFacts DEF Text
<1>9. \/ w = <<>> /\ TextAt(s, b, PortSuffix(port)) /\ ps = b + Len(PortSuffix(port))
      \/ w = PortSuffix(port) /\ b = ps
  BY <1>5
<1>10. v.ser = r
  BY DEF MovePath, MoveQueryAndFragment, Records
<1> DEFINE h == host.text
<1> HIDE DEF s, se, ue, hs, ps, qs, fs, suffixPos, slashes, skip, port, x, n, w, b, fl, h
<1>11. SUFFICES ASSUME Fits(v)
                PROVE  /\ v \in Records /\ LaidOut(v)
                       /\ Gives(u, v, PutHost(Components(u), {host.text}, port))
  <2>1. /\ Panic(u).url = u /\ Ok(v).url = v /\ Ok(v).outcome = "ok"
    BY DEF Ok, Panic
  <2> HIDE DEF v
  <2>2. CASE SetHostInternal(u, host, newPort) = Panic(u)
    BY <2>1, <2>2, RefusedSound
  <2>3. CASE SetHostInternal(u, host, newPort) = Ok(v)
    BY <1>3, <2>1, <2>3 DEF Sound
  <2> QED
    BY <1>1, <2>2, <2>3
<1>12. r \in Text /\ Len(r) < U32Max /\ named \in Text /\ head \in Text
  <2>1. named \in Text
    BY <1>4, <1>7, JoinTokens DEF h
  <2> HIDE DEF named
  <2>2. head \in Text
    BY <1>8, <2>1, JoinTokens
  <2> HIDE DEF head
  <2>3. b <= Len(s)
    BY <1>2, <1>5
  <2>4. r \in Text
    BY <1>2, <1>5, <2>2, <2>3, CutTokens
  <2>5. Len(r) \in Nat
    BY <2>4, LenProperties DEF Text
  <2> HIDE DEF r, v
  <2> QED
    BY <1>10, <1>11, <2>1, <2>2, <2>4, <2>5, U32MaxAssumption DEF Fits
<1>13. /\ Hosted(r, se, ue + n, hs + n, Len(named), port, a(ps), o(qs), o(fs), fl)
       /\ Kept(r, x, hs + n) /\ Slice(r, hs + n, Len(named)) = h
       /\ SameTail(Part(r, a(ps), o(qs), o(fs)), Part(s, ps, qs, fs))
  <2>1. x \o h \o w \o From(s, b) = r /\ x \o h = named /\ x \o h \o w = head
    BY DEF h
  <2>2. ue + n \in Nat /\ UserinfoAt(x, se, ue + n, Len(x))
    BY <1>2, <1>4
  <2>3. h = <<>> => port = NoPort
    BY <1>3 DEF h
  <2>4. h \in Text /\ ~StartsWith(h, "@") /\ ~StartsWith(h, ":")
    BY <1>7 DEF h
  <2>5. Len(x \o h \o w \o From(s, b)) < U32Max
    BY <1>12, <2>1
  <2>6. HostStands(s, ps, qs, fs, x, se, ue + n, h, port, w, b, fl)
    <3> HIDE DEF named, head, r, v
    <3> QED
      BY <1>2, <1>3, <1>4, <1>5, <1>6, <1>8, <1>9, <2>2, <2>3, <2>4, <2>5, HostWritten
  <2>7. HostBehind(r, s, ps, qs, fs, x, Len(named), se, ue + n, h, port, a(ps), o(qs), o(fs), fl)
    BY <2>1, <2>6 DEF HostStands
  <2> HIDE DEF r, named, head, a, o
  <2> QED
    BY <1>4, <2>7 DEF HostBehind
<1> DEFINE z == Rec(r, se, ue + n, hs + n, Len(named), port, a(ps), o(qs), o(fs), fl)
<1>14. z \in Records /\ LaidOut(z)
  <2> HIDE DEF r, named, a, o
  <2> QED
    BY <1>13, HostedRecord
<1>15. v = z
  <2>1. /\ r \in Text /\ ue + n \in Offset /\ hs + n \in Offset /\ Len(named) \in Offset
        /\ port \in 0..NoPort /\ a(ps) \in Offset /\ o(qs) \in Offset /\ o(fs) \in Offset
        /\ fl \in SUBSET FlagNames
    <3> HIDE DEF r, named, head, a, o
    <3>1. /\ r \in Text /\ ue + n \in Nat /\ hs + n \in Nat /\ Len(named) \in Nat
          /\ port \in 0..NoPort /\ a(ps) \in Offset /\ o(qs) \in Offset /\ o(fs) \in Offset
          /\ fl \in SUBSET FlagNames
      BY <1>13 DEF Hosted
    <3>2. /\ ue + n <= hs + n /\ hs + n <= Len(named) /\ Len(named) <= a(ps)
          /\ a(ps) <= U32Max /\ a(ps) \in Nat
      BY <1>13, HostedBounds
    <3> QED
      BY <3>1, <3>2, U32MaxAssumption DEF Offset
  <2>2. ps = u.path_start /\ qs = u.query_start /\ fs = u.fragment_start /\ ue = u.username_end
        /\ hs = u.host_start /\ se = u.scheme_end
    BY DEF ps, qs, fs, ue, hs, se
  <2> HIDE DEF r, named, head
  <2>3. v \in Records
    BY <2>1, <2>2 DEF MovePath, MoveQueryAndFragment, Records
  <2>4. /\ v.ser = r /\ v.scheme_end = se /\ v.username_end = ue + n /\ v.host_start = hs + n
        /\ v.host_end = Len(named) /\ v.port = port /\ v.path_start = a(ps)
        /\ v.query_start = o(qs) /\ v.fragment_start = o(fs) /\ v.flags = fl
    BY <2>2 DEF MovePath, MoveQueryAndFragment, Records
  <2> HIDE DEF v, a, o
  <2> QED
    BY <2>3, <2>4, FieldsOf
<1>16. Components(z) = PutHost(Components(u), {h}, port)
  <2>1. Kept(r, s, hs)
    <3>1. Kept(r, x, hs + n) /\ Kept(x, s, hs)
      BY <1>4, <1>13
    <3>2. ASSUME NEW k \in Nat, k < hs PROVE k < hs + n
      BY <1>2, <1>4, <3>2
    <3> HIDE DEF r
    <3> QED
      BY <3>1, <3>2 DEF Kept
  <2>2. /\ se = u.scheme_end /\ ue = u.username_end /\ hs = u.host_start /\ ps = u.path_start
        /\ qs = u.query_start /\ fs = u.fragment_start /\ s = u.ser
    BY DEF se, ue, hs, ps, qs, fs, s
  <2> HIDE DEF r, named, a, o
  <2>3. NewHost(u, n, r, Len(named), port, a(ps), o(qs), o(fs), fl, h)
    <3>1. /\ Hosted(r, u.scheme_end, u.username_end + n, u.host_start + n, Len(named), port,
                    a(ps), o(qs), o(fs), fl)
          /\ Slice(r, u.host_start + n, Len(named)) = h /\ Kept(r, u.ser, u.host_start)
          /\ SameTail(Part(r, a(ps), o(qs), o(fs)),
                      Part(u.ser, u.path_start, u.query_start, u.fragment_start))
          /\ n = (IF HasAuthority(u) THEN 0 ELSE 2)
      BY <1>4, <1>13, <2>1, <2>2
    <3> QED
      BY <3>1, HostParts
  <2> QED
    BY <2>2, <2>3 DEF NewHost
<1>17. /\ "SPECIAL" \in fl <=> "SPECIAL" \in u.flags
       /\ "HAS_CREDENTIALS" \in fl <=> "HAS_CREDENTIALS" \in u.flags
       /\ "HAS_PASSWORD" \in fl <=> "HAS_PASSWORD" \in u.flags
       /\ fl \cap HostFlagNames = FlagsOfHost(host)
       /\ FlagsOfHost(host) # {} => ("HAS_EMPTY_HOST" \in FlagsOfHost(host) <=> host.text = <<>>)
       /\ "HAS_EMPTY_HOST" \in fl <=> "HAS_EMPTY_HOST" \in FlagsOfHost(host)
  <2>1. /\ FlagsOfHost(host) \subseteq HostFlagNames
        /\ FlagsOfHost(host) # {} => ("HAS_EMPTY_HOST" \in FlagsOfHost(host) <=> host.text = <<>>)
    <3>1. CASE host.kind = "ipv4"
      <4>1. FlagsOfHost(host) = {"HOST_IPV4"} /\ host.text # <<>>
        BY <3>1 DEF FlagsOfHost
      <4> QED
        BY <4>1 DEF HostFlagNames
    <3>2. CASE host.kind = "ipv6"
      <4>1. FlagsOfHost(host) = {"HOST_IPV6"} /\ host.text # <<>>
        BY <3>2 DEF FlagsOfHost
      <4> QED
        BY <4>1 DEF HostFlagNames
    <3>3. CASE host.kind \notin {"ipv4", "ipv6"} /\ host.text = <<>>
      <4>1. FlagsOfHost(host) = {"HAS_EMPTY_HOST"}
        BY <3>3 DEF FlagsOfHost
      <4> QED
        BY <3>3, <4>1 DEF HostFlagNames
    <3>4. CASE host.kind \notin {"ipv4", "ipv6"} /\ host.text # <<>>
      <4>1. FlagsOfHost(host) \in {{}, {"HOST_IDNA"}}
        BY <3>4 DEF FlagsOfHost
      <4> QED
        BY <3>4, <4>1 DEF HostFlagNames
    <3> QED
      BY <3>1, <3>2, <3>3, <3>4
  <2>2. "SPECIAL" \notin HostFlagNames /\ "HAS_CREDENTIALS" \notin HostFlagNames
        /\ "HAS_PASSWORD" \notin HostFlagNames /\ "HAS_EMPTY_HOST" \in HostFlagNames
    BY DEF HostFlagNames
  <2> QED
    BY <2>1, <2>2 DEF fl
<1>18. z.flags = fl
  BY DEF Rec
<1> HIDE DEF z, v
<1>19. FlagsMatch(u) => FlagsMatch(z)
  <2>1. /\ Components(z).scheme = Components(u).scheme
        /\ Components(z).username = Components(u).username
        /\ Components(z).password = Components(u).password
        /\ Components(z).host = {h}
    <3>1. PICK sc, un, pw, ho, po, pa, op, qu, fr :
            Components(u) = PartsOf(sc, un, pw, ho, po, pa, op, qu, fr)
      BY ComponentsOf
    <3>2. Components(z) = PartsOf(sc, un, pw, {h}, port, pa, op, qu, fr)
      BY <1>16, <3>1, HostPut
    <3> QED
      BY <3>1, <3>2 DEF PartsOf
  <2>2. /\ FlagsMatch(u) <=> FlagsFit(u.flags, Components(u))
        /\ FlagsMatch(z) <=> FlagsFit(z.flags, Components(z))
    BY <1>14, ComponentTests
  <2>3. {h} \in {{}, {<<>>}} <=> h = <<>>
    OBVIOUS
  <2>4. h = host.text
    BY DEF h
  <2> QED
    BY <1>17, <1>18, <2>1, <2>2, <2>3, <2>4 DEF FlagsFit
<1>20. h = host.text
  BY DEF h
<1> QED
  BY <1>14, <1>15, <1>16, <1>19, <1>20 DEF Gives

LEMMA SetIpHostSound ==
  ASSUME NEW u \in Records, LaidOut(u), NEW host \in IpHost
  PROVE  LET r == SetIpHost(u, host)
         IN /\ Sound(r)
            /\ Fits(r.url) =>
                 \/ r.url = u
                 \/ /\ ~CannotBeABase(u)
                    /\ Gives(u, r.url, PutHost(Components(u), {host.text}, u.port))
<1>1. HostWord(host.text) /\ host.text # <<>>
  BY InputAssumption
<1>2. CASE CannotBeABase(u)
  BY <1>2, RefusedSound DEF SetIpHost, Err
<1>3. CASE ~CannotBeABase(u)
  <2>1. {} \in SUBSET (0..NoPort)
    OBVIOUS
  <2>2. LET r == SetHostInternal(u, host, {})
        IN /\ Sound(r)
           /\ Fits(r.url) =>
                \/ r.url = u
                \/ \E p \in (IF {} = {} THEN {u.port} ELSE {}) :
                     Gives(u, r.url, PutHost(Components(u), {host.text}, p))
    BY <1>1, <1>3, <2>1, SetHostInternalSound
  <2>3. SetIpHost(u, host) = SetHostInternal(u, host, {})
    BY <1>3 DEF SetIpHost
  <2> QED
    BY <1>3, <2>2, <2>3
<1> QED
  BY <1>2, <1>3

(* What follows a host is the text of a port, or is not.                   *)
LEMMA PortAfterHostFacts ==
  ASSUME NEW u, NEW text \in HostIn, NEW r \in ParseHostSetter(Class(u), text)
  PROVE  /\ HostWord(r.host.text) /\ PortAfterHost(u, r.rest) \in SUBSET (0..NoPort)
         /\ r.host.text = <<>> => Class(u) # "special" /\ r.host.kind = "domain"
<1>1. Class(u) \in SchemeTypes
  BY DEF Class, SchemeType, SchemeTypes
<1>2. /\ HostWord(r.host.text)
      /\ r.host.text = <<>> => Class(u) # "special" /\ r.host.kind = "domain"
  BY <1>1, ParserAssumption
<1>3. ASSUME r.rest # <<>> PROVE Tail(r.rest) \in PortTexts
  <2>1. r.rest \in {x.rest : x \in UNION {ParseHostSetter(c, s) : c \in SchemeTypes, s \in HostIn}}
    BY <1>1
  <2> QED
    BY <1>3, <2>1 DEF PortTexts, WithTails
<1>4. ASSUME StartsWith(r.rest, ":") PROVE r.rest # <<>>
  BY <1>4 DEF StartsWith
<1>5. DefaultPort(Scheme(u)) \in {21, 80, 443, NoPort}
  BY DefaultPortFacts
<1>6. ASSUME StartsWith(r.rest, ":")
      PROVE  ParsePortSetter(Tail(r.rest), DefaultPort(Scheme(u))) \subseteq 0..NoPort
  <2>1. ParsePortSetter(Tail(r.rest), DefaultPort(Scheme(u)))
          \subseteq (0..NoPort \ {DefaultPort(Scheme(u))}) \cup {NoPort}
    BY <1>3, <1>4, <1>5, <1>6, ParserAssumption
  <2>2. NoPort \in 0..NoPort
    BY DEF NoPort
  <2> QED
    BY <2>1, <2>2
<1> QED
  BY <1>2, <1>6 DEF PortAfterHost

(* The hosts a text stands for, and a record that got one of them.         *)
NoHostThere == [host |-> [text |-> <<>>], rest |-> <<>>]

HostsOf(u, text) ==
  ParseHostSetter(Class(u), text) \cup
    (IF Class(u) = "file" /\ text = <<>> THEN {NoHostThere} ELSE {})

HostChanged(u, v, x) ==
  \E p \in {u.port} \cup (IF StartsWith(x.rest, ":")
                          THEN ParsePortSetter(Tail(x.rest), DefaultPort(Scheme(u))) ELSE {}) :
    /\ x.host.text = <<>> => /\ ~IncludesCredentials(u) /\ u.port = NoPort /\ p = NoPort
                             /\ Class(u) # "special"
    /\ Gives(u, v, PutHost(Components(u), {x.host.text}, p))

(* A file URL takes the empty host.                                        *)
LEMMA FileHostSound ==
  ASSUME NEW u \in Records, LaidOut(u), ~CannotBeABase(u), Class(u) = "file"
  PROVE  LET r == SetHostInternal(u, EmptyDomain, {NoPort})
         IN /\ Sound(r)
            /\ Fits(r.url) /\ PortBelongs(u) => r.url = u \/ HostChanged(u, r.url, NoHostThere)
<1> DEFINE r == SetHostInternal(u, EmptyDomain, {NoPort})
<1>1. /\ HostWord(EmptyDomain.text) /\ {NoPort} \in SUBSET (0..NoPort)
      /\ EmptyDomain.text = <<>> /\ EmptyDomain.kind = "domain"
  BY DEF HostWord, EmptyDomain, Text, StartsWith, NoPort
<1>2. /\ Sound(r)
      /\ Fits(r.url) =>
           \/ r.url = u
           \/ \E p \in (IF {NoPort} = {} THEN {u.port} ELSE {NoPort}) :
                Gives(u, r.url, PutHost(Components(u), {EmptyDomain.text}, p))
  BY <1>1, SetHostInternalSound
<1> HIDE DEF r
<1>3. Fits(r.url) => r.url = u \/ Gives(u, r.url, PutHost(Components(u), {<<>>}, NoPort))
  BY <1>1, <1>2
<1>4. PortBelongs(u) => ~IncludesCredentials(u) /\ u.port = NoPort
  <2>1. Scheme(u) = <<"file">>
    BY DEF Class, SchemeType
  <2> QED
    BY <2>1 DEF PortBelongs, CannotHaveUsernamePasswordPort
<1>5. NoHostThere.host.text = <<>>
  BY DEF NoHostThere
<1>6. Fits(r.url) /\ PortBelongs(u) => r.url = u \/ HostChanged(u, r.url, NoHostThere)
  BY <1>3, <1>4, <1>5 DEF HostChanged
<1> QED
  BY <1>2, <1>6 DEF r

LEMMA SetHostSound ==
  ASSUME NEW u \in Records, LaidOut(u), NEW text \in HostIn
  PROVE  LET r == SetHost(u, text)
         IN /\ Sound(r)
            /\ Fits(r.url) /\ PortBelongs(u) =>
                 \/ r.url = u
                 \/ ~CannotBeABase(u) /\ \E x \in HostsOf(u, text) : HostChanged(u, r.url, x)
<1> DEFINE parsed  == ParseHostSetter(Class(u), text)
           r       == CHOOSE x \in parsed : TRUE
           newPort == PortAfterHost(u, r.rest)
<1>4. Err(u).url = u /\ Ok(u).url = u
  BY DEF Err, Ok
<1>1. CASE SetHost(u, text) \in {Err(u), Ok(u)}
  BY <1>1, <1>4, RefusedSound
<1>2. CASE /\ ~CannotBeABase(u) /\ Class(u) = "file" /\ text = <<>>
           /\ SetHost(u, text) = SetHostInternal(u, EmptyDomain, {NoPort})
  <2>1. NoHostThere \in HostsOf(u, text)
    BY <1>2 DEF HostsOf
  <2> QED
    BY <1>2, <2>1, FileHostSound
<1>3. CASE /\ ~CannotBeABase(u) /\ parsed # {}
           /\ ~(r.host.text = <<>> /\ (IncludesCredentials(u) \/ u.port # NoPort
                                         \/ newPort \notin {{}, {NoPort}}))
           /\ SetHost(u, text) = SetHostInternal(u, r.host, newPort)
  <2>1. r \in parsed
    BY <1>3
  <2> HIDE DEF r
  <2>2. /\ HostWord(r.host.text) /\ newPort \in SUBSET (0..NoPort)
        /\ r.host.text = <<>> => Class(u) # "special" /\ r.host.kind = "domain"
    BY <2>1, PortAfterHostFacts
  <2>3. r.host.text = <<>> => \/ newPort = {} /\ u.port = NoPort
                              \/ newPort = {NoPort}
    BY <1>3
  <2>6. newPort # {} => /\ StartsWith(r.rest, ":")
                        /\ newPort = ParsePortSetter(Tail(r.rest), DefaultPort(Scheme(u)))
    BY DEF PortAfterHost
  <2> HIDE DEF newPort
  <2> DEFINE q == SetHostInternal(u, r.host, newPort)
  <2>4. /\ Sound(q)
        /\ Fits(q.url) =>
             \/ q.url = u
             \/ \E p \in (IF newPort = {} THEN {u.port} ELSE newPort) :
                  Gives(u, q.url, PutHost(Components(u), {r.host.text}, p))
    BY <1>3, <2>2, <2>3, SetHostInternalSound
  <2> HIDE DEF q
  <2>5. ASSUME NEW p \in (IF newPort = {} THEN {u.port} ELSE newPort),
               Gives(u, q.url, PutHost(Components(u), {r.host.text}, p))
        PROVE  HostChanged(u, q.url, r)
    <3>1. r.host.text = <<>> => /\ ~IncludesCredentials(u) /\ u.port = NoPort /\ p = NoPort
                               /\ Class(u) # "special"
      BY <1>3, <2>2, <2>3, <2>5
    <3>2. p \in {u.port} \cup (IF StartsWith(r.rest, ":")
                              THEN ParsePortSetter(Tail(r.rest), DefaultPort(Scheme(u))) ELSE {})
      BY <2>5, <2>6
    <3> QED
      BY <2>5, <3>1, <3>2 DEF HostChanged
  <2>7. r \in HostsOf(u, text)
    BY <2>1 DEF HostsOf
  <2> QED
    BY <1>3, <2>4, <2>5, <2>7 DEF q
<1> QED
  BY <1>1, <1>2, <1>3 DEF SetHost

LEMMA SetHostnameSound ==
  ASSUME NEW u \in Records, LaidOut(u), NEW text \in HostIn
  PROVE  LET r == SetHostname(u, text)
         IN /\ Sound(r)
            /\ Fits(r.url) /\ PortBelongs(u) =>
                 \/ r.url = u
                 \/ ~CannotBeABase(u) /\ \E x \in HostsOf(u, text) : HostChanged(u, r.url, x)
<1> DEFINE parsed == ParseHostSetter(Class(u), text)
           r      == CHOOSE x \in parsed : TRUE
<1>4. Err(u).url = u /\ Ok(u).url = u
  BY DEF Err, Ok
<1>1. CASE SetHostname(u, text) \in {Err(u), Ok(u)}
  BY <1>1, <1>4, RefusedSound
<1>2. CASE /\ ~CannotBeABase(u) /\ Class(u) = "file" /\ text = <<>>
           /\ SetHostname(u, text) = SetHostInternal(u, EmptyDomain, {NoPort})
  <2>1. NoHostThere \in HostsOf(u, text)
    BY <1>2 DEF HostsOf
  <2> QED
    BY <1>2, <2>1, FileHostSound
<1>3. CASE /\ ~CannotBeABase(u) /\ parsed # {}
           /\ ~(r.host.text = <<>> /\ (Class(u) = "special" \/ u.port # NoPort
                                         \/ IncludesCredentials(u)))
           /\ SetHostname(u, text) = SetHostInternal(u, r.host, {})
  <2>1. r \in parsed
    BY <1>3
  <2> HIDE DEF r
  <2>2. /\ HostWord(r.host.text) /\ {} \in SUBSET (0..NoPort)
        /\ r.host.text = <<>> => r.host.kind = "domain"
    BY <2>1, PortAfterHostFacts
  <2>3. r.host.text = <<>> => {} = {} /\ u.port = NoPort
    BY <1>3
  <2> DEFINE q == SetHostInternal(u, r.host, {})
  <2>4. /\ Sound(q)
        /\ Fits(q.url) =>
             \/ q.url = u
             \/ \E p \in (IF {} = {} THEN {u.port} ELSE {}) :
                  Gives(u, q.url, PutHost(Components(u), {r.host.text}, p))
    BY <1>3, <2>2, <2>3, SetHostInternalSound
  <2> HIDE DEF q
  <2>5. ASSUME Gives(u, q.url, PutHost(Components(u), {r.host.text}, u.port))
        PROVE  HostChanged(u, q.url, r)
    <3>1. r.host.text = <<>> => /\ ~IncludesCredentials(u) /\ u.port = NoPort
                               /\ Class(u) # "special"
      BY <1>3
    <3> QED
      BY <2>5, <3>1 DEF HostChanged
  <2>7. r \in HostsOf(u, text)
    BY <2>1 DEF HostsOf
  <2> QED
    BY <1>3, <2>4, <2>5, <2>7 DEF q
<1> QED
  BY <1>1, <1>2, <1>3 DEF SetHostname
-----------------------------------------------------------------------------
(* set_path and set_pathname.                                              *)

(* An authority in front of a path that was replaced.                      *)
LEMMA AuthorityKept ==
  ASSUME NEW r \in Text, NEW s \in Text, NEW se \in Nat, NEW ue \in Nat, NEW hs \in Nat,
         NEW he \in Nat, NEW pt \in 0..NoPort, NEW ps \in Nat,
         ps <= Len(r), ps <= Len(s), Kept(r, s, ps),
         AuthorityAt(s, se, ue, hs, he, pt, ps), ~TokenAt(r, ps, "@"), ~TokenAt(r, ps, ":")
  PROVE  AuthorityAt(r, se, ue, hs, he, pt, ps)
<1>1. Len(PortSuffix(pt)) \in Nat /\ PortSuffix(pt) \in Text
  BY PortSuffixFacts
<1>2. /\ UserinfoAt(s, se, ue, hs) /\ HostAt(s, hs, he, pt, ps)
      /\ TokenAt(s, se + 1, "/") /\ TokenAt(s, se + 2, "/")
  BY DEF AuthorityAt
<1>3. /\ se + 3 <= hs /\ hs <= he /\ ps = he + Len(PortSuffix(pt))
      /\ TextAt(s, he, PortSuffix(pt))
  BY <1>2 DEF UserinfoAt, HostAt
<1>4. he <= ps /\ hs <= ps
  BY <1>1, <1>3
<1>5. UserinfoAt(r, se, ue, hs)
  <2>1. Kept(r, s, hs)
    BY <1>4 DEF Kept
  <2> QED
    BY <1>2, <2>1, UserinfoKept
<1>6. ~TokenAt(r, hs, "@") /\ ~TokenAt(r, hs, ":")
  <2>1. CASE hs = ps
    BY <2>1
  <2>2. CASE hs < ps
    BY <1>2, <2>2 DEF Kept, HostAt
  <2> QED
    BY <1>4, <2>1, <2>2
<1>7. TextAt(r, he, PortSuffix(pt))
  <2>1. he + Len(PortSuffix(pt)) <= ps
    BY <1>1, <1>3
  <2> QED
    BY <1>1, <1>3, <2>1, TextKept
<1>8. TokenAt(r, se + 1, "/") /\ TokenAt(r, se + 2, "/")
  <2>1. \A k \in {se + 1, se + 2} : k \in Nat /\ k < ps
    BY <1>3, <1>4
  <2> QED
    BY <1>2, <2>1 DEF Kept
<1> QED
  BY <1>3, <1>5, <1>6, <1>7, <1>8 DEF AuthorityAt, HostAt

(* A path written behind x and in front of the query and the fragment.     *)
LEMMA PathWritten ==
  ASSUME NEW s \in Text, NEW ps \in Nat, NEW qs \in Offset, NEW fs \in Offset,
         Tails(Part(s, ps, qs, fs)), NEW x \in Text, NEW path \in Text,
         Len(x \o path \o From(s, PathEndOf(Part(s, ps, qs, fs)))) < U32Max
  PROVE  LET pe   == PathEndOf(Part(s, ps, qs, fs))
             head == x \o path
             r    == head \o From(s, pe)
             o(y) == AdjustOpt(y, pe, Len(head))
             new  == Part(r, Len(x), o(qs), o(fs))
         IN /\ r \in Text /\ Len(x) \in Offset /\ Len(x) <= Len(r)
            /\ o(qs) \in Offset /\ o(fs) \in Offset
            /\ Tails(new) /\ Kept(r, x, Len(x))
            /\ path = <<>> \/ StartsWith(path, "/") => Rooted(new)
            /\ \A w \in Text : PathBegins(new, w) <=> TextAt(path, 0, w)
            /\ TailIs(new, path, Query(Part(s, ps, qs, fs)), Fragment(Part(s, ps, qs, fs)))
<1> DEFINE pe   == PathEndOf(Part(s, ps, qs, fs))
           head == x \o path
           r    == head \o From(s, pe)
           o(y) == AdjustOpt(y, pe, Len(head))
<1>1. pe \in Nat /\ ps <= pe /\ pe <= Len(s) /\ Len(s) \in Nat /\ qs \in Nat /\ fs \in Nat
  <2>1. qs \in Nat /\ fs \in Nat
    BY U32MaxAssumption DEF Offset
  <2> QED
    BY <2>1, PathEndToken, LenProperties DEF Text
<1>2. Tails(Part(s, pe, qs, fs))
  <2>1. PathEndOf(Part(s, pe, qs, fs)) = pe
    BY DEF PathEndOf, Part
  <2>2. QueryEndOf(Part(s, pe, qs, fs)) = QueryEndOf(Part(s, ps, qs, fs))
    BY DEF QueryEndOf, Part
  <2> HIDE DEF pe
  <2>3. /\ pe <= QueryEndOf(Part(s, ps, qs, fs))
        /\ QueryEndOf(Part(s, ps, qs, fs)) <= Len(s)
        /\ qs # NONE => qs < QueryEndOf(Part(s, ps, qs, fs)) /\ TokenAt(s, qs, "?")
        /\ fs # NONE => TokenAt(s, fs, "#")
    BY DEF Tails, Part, pe
  <2> HIDE DEF QueryEndOf, PathEndOf
  <2> QED
    BY <1>1, <2>1, <2>2, <2>3 DEF Tails, Part
<1>3. /\ qs # NONE => pe = qs
      /\ qs = NONE /\ fs # NONE => pe = fs
      /\ qs = NONE /\ fs = NONE => pe = Len(s)
  BY DEF PathEndOf, Part
<1>4. PICK lx \in Nat, lp \in Nat : lx = Len(x) /\ lp = Len(path)
  BY LenProperties DEF Text
<1>5. /\ head \in Text /\ Len(head) = lx + lp
      /\ \A t : \A k \in Nat : k < lx => (TokenAt(head, k, t) <=> TokenAt(x, k, t))
      /\ \A t : \A k \in Nat : TokenAt(head, lx + k, t) <=> TokenAt(path, k, t)
  <2>1. /\ head \in Text /\ Len(head) = Len(x) + Len(path)
        /\ \A t : \A k \in Nat : k < Len(x) => (TokenAt(head, k, t) <=> TokenAt(x, k, t))
        /\ \A t : \A k \in Nat : TokenAt(head, Len(x) + k, t) <=> TokenAt(path, k, t)
    BY JoinTokens
  <2> QED
    BY <1>4, <2>1
<1>6. Len(r) < U32Max
  OBVIOUS
<1> HIDE DEF pe, head
<1> DEFINE a == Adjust(pe, pe, Len(head))
<1>7. /\ r \in Text /\ Len(r) = Len(head) + (Len(s) - pe)
      /\ a = Len(head) + (pe - pe) /\ a \in Offset
      /\ o(qs) \in Offset /\ o(fs) \in Offset
      /\ o(qs) = Moved(qs, pe, a) /\ o(fs) = Moved(fs, pe, a)
      /\ Tails(Part(r, a, o(qs), o(fs)))
  <2>1. head \in Text /\ pe \in Nat /\ pe <= pe /\ Tails(Part(s, pe, qs, fs))
    BY <1>1, <1>2, <1>5
  <2>2. Len(head \o From(s, pe)) < U32Max
    BY <1>6
  <2>3. LET y == head \o From(s, pe)
            b(z) == AdjustOpt(z, pe, Len(head))
        IN /\ y \in Text /\ Len(y) = Len(head) + (Len(s) - pe)
           /\ a = Len(head) + (pe - pe) /\ a \in Offset
           /\ b(qs) \in Offset /\ b(fs) \in Offset
           /\ b(qs) = Moved(qs, pe, a) /\ b(fs) = Moved(fs, pe, a)
           /\ Tails(Part(y, a, b(qs), b(fs)))
    <3> HIDE DEF r, o
    <3> QED
      BY <2>1, <2>2, Rebuilt
  <2> QED
    BY <2>3
<1>8. \A t : \A k \in Nat : k < lx + lp => (TokenAt(r, k, t) <=> TokenAt(head, k, t))
  <2>1. head \in Text /\ pe <= Len(s)
    BY <1>1, <1>5
  <2>2. \A t : \A k \in Nat : k < Len(head) => (TokenAt(r, k, t) <=> TokenAt(head, k, t))
    BY <1>1, <2>1, CutTokens
  <2> QED
    BY <1>5, <2>2
<1> DEFINE q == o(qs)
           f == o(fs)
           new == Part(r, Len(x), q, f)
<1>16. SameTail(Part(r, a, o(qs), o(fs)), Part(s, pe, qs, fs))
  <2>1. /\ head \in Text /\ a = Len(head) + (pe - pe)
        /\ o(qs) = Moved(qs, pe, a) /\ o(fs) = Moved(fs, pe, a)
    BY <1>5, <1>7
  <2>2. Len(head \o From(s, pe)) < U32Max /\ pe <= pe
    BY <1>1, <1>6
  <2> HIDE DEF a, o
  <2> QED
    BY <1>1, <1>2, <2>1, <2>2, TailText
<1> HIDE DEF r, a, o
<1>9. a = lx + lp /\ lx + lp <= Len(r) /\ Len(r) \in Nat /\ Len(r) < U32Max /\ Len(r) = (lx + lp) + (Len(s) - pe)
  BY <1>1, <1>5, <1>6, <1>7
<1>10. PathEndOf(new) = lx + lp /\ Tails(new)
  <2>1. /\ qs # NONE => q = lx + lp /\ q # NONE
        /\ qs = NONE => q = NONE
        /\ qs = NONE /\ fs # NONE => f = lx + lp /\ f # NONE
        /\ fs = NONE => f = NONE
    <3>1. /\ qs # NONE => q = a + (pe - pe)
          /\ qs = NONE /\ fs # NONE => f = a + (pe - pe)
          /\ qs = NONE => q = NONE
          /\ fs = NONE => f = NONE
      BY <1>3, <1>7 DEF Moved
    <3>2. a + (pe - pe) = lx + lp /\ lx + lp # NONE
      BY <1>1, <1>9, U32MaxAssumption DEF NONE
    <3> QED
      BY <3>1, <3>2
  <2>2. qs = NONE /\ fs = NONE => Len(r) = lx + lp
    BY <1>1, <1>3, <1>9
  <2> HIDE DEF q, f
  <2>3. PathEndOf(new) = lx + lp
    BY <2>1, <2>2 DEF PathEndOf, Part
  <2>4. Tails(Part(r, a, q, f))
    BY <1>7 DEF q, f
  <2>5. PathEndOf(Part(r, a, q, f)) = PathEndOf(new)
    BY DEF PathEndOf, Part
  <2>6. lx <= lx + lp
    BY <1>4
  <2> QED
    BY <1>4, <2>3, <2>4, <2>5, <2>6 DEF Tails, Part, PathEndOf, QueryEndOf
<1>11. Kept(r, x, Len(x))
  <2>1. ASSUME NEW k \in Nat, NEW t, k < lx PROVE TokenAt(r, k, t) <=> TokenAt(x, k, t)
    <3>1. k < lx + lp
      BY <2>1
    <3> QED
      BY <1>5, <1>8, <2>1, <3>1
  <2> QED
    BY <1>4, <2>1 DEF Kept
<1>12. \A t : \A k \in Nat : k < lp => (TokenAt(r, lx + k, t) <=> TokenAt(path, k, t))
  <2> TAKE t
  <2> TAKE k \in Nat
  <2>1. k < lp => lx + k < lx + lp /\ lx + k \in Nat
    OBVIOUS
  <2> QED
    BY <1>5, <1>8, <2>1
<1>13. ASSUME path = <<>> \/ StartsWith(path, "/") PROVE Rooted(new)
  <2>1. CASE path = <<>>
    <3>1. lx + lp = lx
      BY <1>4, <2>1
    <3> QED
      BY <1>4, <1>10, <3>1 DEF Rooted, Part
  <2>2. CASE StartsWith(path, "/")
    <3>1. 0 < lp /\ TokenAt(path, 0, "/")
      BY <1>4, <2>2 DEF StartsWith, TokenAt
    <3>2. TokenAt(r, lx + 0, "/")
      BY <1>12, <3>1
    <3>3. lx + 0 = lx
      OBVIOUS
    <3> QED
      BY <1>4, <3>2, <3>3 DEF Rooted, Part
  <2> QED
    BY <1>13, <2>1, <2>2
<1>14. ASSUME NEW w \in Text PROVE PathBegins(new, w) <=> TextAt(path, 0, w)
  <2>1. PICK lw \in Nat : lw = Len(w)
    BY LenProperties DEF Text
  <2>2. PathBegins(new, w) <=> lw <= lp /\ TextAt(r, lx, w)
    <3>1. lx + lw <= lx + lp <=> lw <= lp
      BY <2>1
    <3> QED
      BY <1>4, <1>10, <2>1, <3>1 DEF PathBegins, Part
  <2>3. TextAt(path, 0, w) => lw <= lp
    BY <1>4, <2>1 DEF TextAt
  <2>4. ASSUME lw <= lp PROVE TextAt(r, lx, w) <=> TextAt(path, 0, w)
    <3>1. TextAt(r, lx, w) <=> \A j \in Nat : j < lw => TokenAt(r, lx + j, w[j + 1])
      <4>1. lx <= Len(r)
        BY <1>4, <1>9
      <4> QED
        BY <1>7, <2>1, <4>1, TextTokens
    <3>2. TextAt(path, 0, w) <=> \A j \in Nat : j < lw => TokenAt(path, 0 + j, w[j + 1])
      <4>1. 0 \in Nat /\ 0 <= Len(path)
        BY <1>4
      <4> QED
        BY <2>1, <4>1, TextTokens
    <3>3. \A j \in Nat : j < lw => /\ TokenAt(r, lx + j, w[j + 1]) <=> TokenAt(path, j, w[j + 1])
                                   /\ 0 + j = j
      BY <1>12, <2>1, <2>4
    <3> QED
      BY <3>1, <3>2, <3>3
  <2> QED
    BY <2>2, <2>3, <2>4
<1>15. Len(x) \in Offset /\ Len(x) <= Len(r)
  BY <1>4, <1>9, U32MaxAssumption DEF Offset
<1>17. Path(new) = path
  <2>1. Kept(r, x \o path, lx + lp)
    BY <1>8 DEF Kept, head
  <2>2. Slice(r, lx, lx + lp) = path
    BY <1>4, <1>7, <1>9, <2>1, WrittenSlice
  <2> QED
    BY <1>4, <1>10, <2>2 DEF Path, Part
<1>18. /\ Query(new) = Query(Part(s, ps, qs, fs))
       /\ Fragment(new) = Fragment(Part(s, ps, qs, fs))
  <2>1. /\ Query(new) = Query(Part(r, a, q, f)) /\ Fragment(new) = Fragment(Part(r, a, q, f))
        /\ Query(Part(s, pe, qs, fs)) = Query(Part(s, ps, qs, fs))
        /\ Fragment(Part(s, pe, qs, fs)) = Fragment(Part(s, ps, qs, fs))
    BY DEF Query, Fragment, QueryEndOf, Part
  <2> QED
    BY <1>16, <2>1 DEF SameTail
<1>19. TailIs(new, path, Query(Part(s, ps, qs, fs)), Fragment(Part(s, ps, qs, fs)))
  BY <1>17, <1>18 DEF TailIs
<1> QED
  BY <1>7, <1>10, <1>11, <1>13, <1>14, <1>15, <1>19 DEF pe, head, r, o

(* Where the new path begins: the marker goes with the old one.            *)
LEMMA PathStart ==
  ASSUME NEW u \in Records, LaidOut(u)
  PROVE  LET bare  == [u EXCEPT !.ser = Upto(u.ser, PathEndOf(u))]
             start == IF HasMarker(bare) THEN u.scheme_end + 1 ELSE u.path_start
         IN /\ WithAuthority(u) => start = u.path_start
            /\ ~WithAuthority(u) => /\ start = u.scheme_end + 1 /\ start <= u.path_start
                                    /\ WithoutAuthority(u)
<1> DEFINE s == u.ser  se == u.scheme_end  ps == u.path_start  pe == PathEndOf(u)
           before == Upto(s, pe)
           bare == [u EXCEPT !.ser = before]
<1>1. s \in Text /\ se \in Nat /\ ps \in Nat
  BY Fields
<1>2. pe \in Nat /\ ps <= pe /\ pe <= Len(s)
  <2>1. u.query_start \in Nat /\ u.fragment_start \in Nat
    BY Fields, U32MaxAssumption DEF Offset
  <2>2. Tails(Part(s, ps, u.query_start, u.fragment_start))
    BY LaidOutBounds
  <2>3. PathEndOf(Part(s, ps, u.query_start, u.fragment_start)) = pe
    BY DEF PathEndOf, Part
  <2> QED
    BY <1>1, <2>1, <2>2, <2>3, PathEndToken
<1>3. /\ before \in Text /\ Len(before) = pe
      /\ \A t : \A k \in Nat : k < pe => (TokenAt(before, k, t) <=> TokenAt(s, k, t))
  BY <1>1, <1>2, UptoTokens
<1>4. /\ bare.ser = before /\ bare.scheme_end = se /\ bare.path_start = ps
      /\ bare.flags = u.flags
  BY DEF Records
<1> HIDE DEF before, bare, pe
<1>5. CASE WithAuthority(u)
  <2>1. TokenAt(s, se + 1, "/") /\ TokenAt(s, se + 2, "/")
    BY <1>5 DEF WithAuthority, HasAuthority
  <2>2. se + 3 <= ps
    <3>1. Hosted(u.ser, u.scheme_end, u.username_end, u.host_start, u.host_end, u.port,
                 u.path_start, u.query_start, u.fragment_start, u.flags)
      BY <1>5, HostedFields
    <3>2. /\ se + 3 <= u.username_end /\ u.username_end <= u.host_start
          /\ u.host_start <= u.host_end /\ u.host_end <= ps
      BY <3>1, HostedBounds
    <3>3. u.username_end \in Nat /\ u.host_start \in Nat /\ u.host_end \in Nat
      BY Fields
    <3> QED
      BY <1>1, <3>2, <3>3
  <2>3. se + 1 \in Nat /\ se + 1 < pe /\ se + 2 \in Nat /\ se + 2 < pe
    BY <1>1, <1>2, <2>2
  <2>4. HasAuthority(bare)
    BY <1>3, <1>4, <2>1, <2>3 DEF HasAuthority
  <2> QED
    BY <1>5, <2>4 DEF HasMarker, bare, before, pe
<1>6. CASE ~WithAuthority(u)
  <2>1. WithoutAuthority(u) /\ (OpaqueShape(u) \/ PlainShape(u) \/ MarkerShape(u))
    BY <1>6 DEF LaidOut
  <2>2. CASE OpaqueShape(u) \/ PlainShape(u)
    <3>1. ps = se + 1
      BY <2>2 DEF OpaqueShape, PlainShape
    <3> QED
      BY <1>1, <1>6, <2>1, <3>1
  <2>3. CASE MarkerShape(u)
    <3>1. ~CannotBeABase(u) /\ ps = se + 3 /\ TextAt(s, se + 1, <<"/", ".">>)
      BY <2>3 DEF MarkerShape
    <3>2. TokenAt(s, se + 1, "/") /\ TokenAt(s, se + 2, ".")
      <4>1. s[(se + 1) + 1] = "/" /\ s[(se + 1) + 2] = "." /\ (se + 1) + 2 <= Len(s)
        BY <3>1 DEF TextAt
      <4>2. (se + 2) + 1 = (se + 1) + 2 /\ Len(s) \in Nat
        BY <1>1, Fields
      <4> QED
        BY <1>1, <4>1, <4>2 DEF TokenAt
    <3>3. se + 1 \in Nat /\ se + 1 < pe /\ se + 2 \in Nat /\ se + 2 < pe
      BY <1>1, <1>2, <3>1
    <3>4. TokenAt(before, se + 1, "/") /\ TokenAt(before, se + 2, ".")
      BY <1>3, <3>2, <3>3
    <3>5. ~TokenAt(before, se + 2, "/")
      BY <3>4 DEF TokenAt
    <3>6. HasMarker(bare)
      BY <1>4, <3>1, <3>4, <3>5 DEF HasMarker, HasAuthority, CannotBeABase
    <3>7. se + 1 <= ps
      BY <1>1, <3>1
    <3> QED
      BY <1>6, <2>1, <3>6, <3>7 DEF bare, before, pe
  <2> QED
    BY <2>1, <2>2, <2>3
<1> QED
  BY <1>5, <1>6

(* The text in front of the new path: the old one up to it, and the marker *)
(* where it is needed.                                                     *)
LEMMA MarkedText ==
  ASSUME NEW s \in Text, NEW pe \in Nat, NEW start \in Nat, start <= pe, pe <= Len(s),
         NEW marked \in BOOLEAN
  PROVE  LET x == Upto(Upto(s, pe), start) \o (IF marked THEN <<"/", ".">> ELSE <<>>)
         IN /\ x \in Text /\ Len(x) = IF marked THEN start + 2 ELSE start
            /\ Kept(x, s, start)
            /\ marked => TokenAt(x, start, "/") /\ TokenAt(x, start + 1, ".")
<1> DEFINE b == Upto(s, pe)
           y == Upto(b, start)
           m == IF marked THEN <<"/", ".">> ELSE <<>>
           x == y \o m
<1>1. /\ b \in Text /\ Len(b) = pe
      /\ \A t : \A k \in Nat : k < pe => (TokenAt(b, k, t) <=> TokenAt(s, k, t))
  BY UptoTokens
<1> HIDE DEF b
<1>2. /\ y \in Text /\ Len(y) = start
      /\ \A t : \A k \in Nat : k < start => (TokenAt(y, k, t) <=> TokenAt(b, k, t))
  BY <1>1, UptoTokens
<1> HIDE DEF y
<1>3. /\ m \in Text /\ Len(m) = IF marked THEN 2 ELSE 0
      /\ marked => TokenAt(m, 0, "/") /\ TokenAt(m, 1, ".")
  BY TokensAssumption DEF Text, TokenAt
<1> HIDE DEF m
<1>4. /\ x \in Text /\ Len(x) = Len(y) + Len(m)
      /\ \A t : \A k \in Nat : k < Len(y) => (TokenAt(x, k, t) <=> TokenAt(y, k, t))
      /\ \A t : \A k \in Nat : TokenAt(x, Len(y) + k, t) <=> TokenAt(m, k, t)
  BY <1>2, <1>3, JoinTokens
<1> HIDE DEF x
<1>5. Kept(x, s, start)
  <2>1. ASSUME NEW k \in Nat, NEW t, k < start PROVE TokenAt(x, k, t) <=> TokenAt(s, k, t)
    <3>1. k < pe
      BY <2>1
    <3> QED
      BY <1>1, <1>2, <1>4, <2>1, <3>1
  <2> QED
    BY <2>1 DEF Kept
<1>6. marked => TokenAt(x, start + 0, "/") /\ TokenAt(x, start + 1, ".")
  BY <1>2, <1>3, <1>4
<1>7. start + 0 = start /\ Len(x) = IF marked THEN start + 2 ELSE start
  BY <1>2, <1>3, <1>4
<1> QED
  BY <1>4, <1>5, <1>6, <1>7 DEF x, y, m, b

(* The record with the path replaced.                                      *)
LEMMA PathReplaced ==
  ASSUME NEW u \in Records, LaidOut(u), NEW start \in Nat, start <= u.path_start,
         WithAuthority(u) => start = u.path_start,
         ~WithAuthority(u) => start = u.scheme_end + 1 /\ WithoutAuthority(u),
         NEW path \in Text, ~CannotBeABase(u) => PathWord(path),
         NEW marked \in BOOLEAN,
         marked <=> /\ ~CannotBeABase(u) /\ Class(u) = "other" /\ start = u.scheme_end + 1
                    /\ TokenAt(path, 0, "/") /\ TokenAt(path, 1, "/"),
         NEW x \in Text, Len(x) = IF marked THEN start + 2 ELSE start,
         Kept(x, u.ser, start),
         marked => TokenAt(x, start, "/") /\ TokenAt(x, start + 1, "."),
         Len(x \o path \o From(u.ser, PathEndOf(u))) < U32Max
  PROVE  LET pe   == PathEndOf(u)
             head == x \o path
             o(y) == AdjustOpt(y, pe, Len(head))
             z    == Rec(head \o From(u.ser, pe), u.scheme_end, u.username_end, u.host_start,
                         u.host_end, u.port, Len(x), o(u.query_start), o(u.fragment_start),
                         u.flags)
         IN /\ z \in Records /\ LaidOut(z)
            /\ Gives(u, z, PutPath(Components(u), path))
<1> DEFINE s == u.ser             se == u.scheme_end   ue == u.username_end
           hs == u.host_start     he == u.host_end     pt == u.port
           ps == u.path_start     qs == u.query_start  fs == u.fragment_start
           fl == u.flags
           pe == PathEndOf(u)
           head == x \o path
           r == head \o From(s, pe)
           q == AdjustOpt(qs, pe, Len(head))
           f == AdjustOpt(fs, pe, Len(head))
           new == Part(r, Len(x), q, f)
<1>1. /\ s \in Text /\ Len(s) \in Nat /\ se \in Nat /\ ue \in Nat /\ hs \in Nat /\ he \in Nat
      /\ ps \in Nat /\ qs \in Offset /\ fs \in Offset /\ fl \in SUBSET FlagNames
      /\ se \in Offset /\ ue \in Offset /\ hs \in Offset /\ he \in Offset /\ pt \in 0..NoPort
      /\ se > 0 /\ ps <= Len(s) /\ TokenAt(s, se, ":") /\ Tails(Part(s, ps, qs, fs))
  BY Fields, LaidOutBounds
<1>2. PathEndOf(Part(s, ps, qs, fs)) = pe
  BY DEF PathEndOf, Part
<1>3. CannotBeABase(u) <=> "OPAQUE_PATH" \in fl
  BY DEF CannotBeABase
<1>4. WithAuthority(u) => Hosted(s, se, ue, hs, he, pt, ps, qs, fs, fl)
  BY HostedFields
<1>5. ~WithAuthority(u) =>
        /\ ~IsSpecial(Upto(s, se)) /\ ue = se + 1 /\ hs = se + 1 /\ he = se + 1
        /\ pt = NoPort /\ "HAS_EMPTY_HOST" \notin fl /\ Class(u) = "other"
  BY DEF WithoutAuthority, Scheme, Class, IsSpecial, SchemeType
<1> HIDE DEF s, se, ue, hs, he, pt, ps, qs, fs, fl, pe
<1>6. Len(x \o path \o From(s, PathEndOf(Part(s, ps, qs, fs)))) < U32Max
  BY <1>2 DEF s, pe
<1>7. /\ r \in Text /\ Len(x) \in Offset /\ Len(x) <= Len(r)
      /\ q \in Offset /\ f \in Offset
      /\ Tails(new) /\ Kept(r, x, Len(x))
      /\ path = <<>> \/ StartsWith(path, "/") => Rooted(new)
      /\ \A w \in Text : PathBegins(new, w) <=> TextAt(path, 0, w)
      /\ TailIs(new, path, Query(Part(s, ps, qs, fs)), Fragment(Part(s, ps, qs, fs)))
  <2>1. LET pe2   == PathEndOf(Part(s, ps, qs, fs))
            head2 == x \o path
            r2    == head2 \o From(s, pe2)
            o(y)  == AdjustOpt(y, pe2, Len(head2))
            new2  == Part(r2, Len(x), o(qs), o(fs))
        IN /\ r2 \in Text /\ Len(x) \in Offset /\ Len(x) <= Len(r2)
           /\ o(qs) \in Offset /\ o(fs) \in Offset
           /\ Tails(new2) /\ Kept(r2, x, Len(x))
           /\ path = <<>> \/ StartsWith(path, "/") => Rooted(new2)
           /\ \A w \in Text : PathBegins(new2, w) <=> TextAt(path, 0, w)
           /\ TailIs(new2, path, Query(Part(s, ps, qs, fs)), Fragment(Part(s, ps, qs, fs)))
    BY <1>1, <1>6, PathWritten
  <2> QED
    BY <1>2, <2>1
<1> HIDE DEF r, head, q, f
<1>8. start <= Len(x) /\ Len(x) \in Nat /\ Len(r) \in Nat /\ se + 1 <= start
  <2>1. Len(r) \in Nat
    BY <1>7, LenProperties DEF Text
  <2>2. se + 1 <= start
    <3>1. CASE WithAuthority(u)
      <4>1. se + 3 <= ue /\ ue <= hs /\ hs <= he /\ he <= ps
        BY <1>4, <3>1, HostedBounds
      <4> QED
        BY <1>1, <3>1, <4>1 DEF ps
    <3>2. CASE ~WithAuthority(u)
      BY <1>1, <3>2 DEF se
    <3> QED
      BY <3>1, <3>2
  <2> QED
    BY <2>1, <2>2
<1>9. Kept(r, s, start)
  <2>1. ASSUME NEW k \in Nat, NEW t, k < start PROVE TokenAt(r, k, t) <=> TokenAt(s, k, t)
    <3>1. k < Len(x)
      BY <1>8, <2>1
    <3>2. TokenAt(x, k, t) <=> TokenAt(s, k, t)
      BY <2>1 DEF Kept, s
    <3> QED
      BY <1>7, <3>1, <3>2 DEF Kept
  <2> QED
    BY <2>1 DEF Kept
<1>10. TokenAt(r, se, ":")
  <2>1. se < start
    BY <1>1, <1>8
  <2> QED
    BY <1>1, <1>9, <2>1 DEF Kept
<1>11. "OPAQUE_PATH" \notin fl => /\ Rooted(new)
                                  /\ ~PathBegins(new, <<"/", ".", "/">>)
  <2>1. <<"/", ".", "/">> \in Text
    BY TokensAssumption DEF Text
  <2> QED
    BY <1>3, <1>7, <2>1 DEF PathWord
<1>12. PathBegins(new, <<"/", "/">>) <=> TokenAt(path, 0, "/") /\ TokenAt(path, 1, "/")
  <2>1. <<"/", "/">> \in Text
    BY TokensAssumption DEF Text
  <2>2. TextAt(path, 0, <<"/", "/">>) <=> TokenAt(path, 0, "/") /\ TokenAt(path, 1, "/")
    <3>1. Len(path) \in Nat
      BY LenProperties DEF Text
    <3> QED
      BY <3>1 DEF TextAt, TokenAt
  <2> QED
    BY <1>7, <2>1, <2>2
<1> DEFINE old == Rec(s, se, ue, hs, he, pt, ps, qs, fs, fl)
           v   == Rec(r, se, ue, hs, he, pt, Len(x), q, f, fl)
<1>15. u = old /\ v.flags = u.flags
  BY Fields DEF s, se, ue, hs, he, pt, ps, qs, fs, fl, Rec
<1>16. TailIs(v, path, Query(u), Fragment(u))
  <2>1. /\ Path(v) = Path(new) /\ Query(v) = Query(new) /\ Fragment(v) = Fragment(new)
        /\ Query(old) = Query(Part(s, ps, qs, fs)) /\ Fragment(old) = Fragment(Part(s, ps, qs, fs))
    BY DEF Path, Query, Fragment, PathEndOf, QueryEndOf, Rec, Part
  <2> HIDE DEF old, v, new
  <2> QED
    BY <1>7, <1>15, <2>1 DEF TailIs
<1>17. ASSUME v \in Records, LaidOut(v), SameFront(Components(v), Components(old))
       PROVE  Gives(u, v, PutPath(Components(u), path))
  <2> HIDE DEF old, v
  <2> QED
    BY <1>15, <1>16, <1>17, FrontGives
<1>13. CASE WithAuthority(u)
  <2>1. "OPAQUE_PATH" \notin fl /\ AuthorityAt(s, se, ue, hs, he, pt, ps)
    BY <1>4, <1>13 DEF Hosted
  <2>2. start = ps /\ se + 3 <= ps
    <3>1. se + 3 <= ue /\ ue <= hs /\ hs <= he /\ he <= ps
      BY <1>4, <1>13, HostedBounds
    <3> QED
      BY <1>1, <1>13, <3>1 DEF ps
  <2>3. ~marked /\ Len(x) = ps
    <3>1. start # se + 1
      BY <1>1, <2>2
    <3> QED
      BY <2>2, <3>1 DEF se
  <2>4. ~TokenAt(r, ps, "@") /\ ~TokenAt(r, ps, ":")
    <3>1. q \in Nat /\ f \in Nat
      BY <1>7, U32MaxAssumption DEF Offset
    <3> QED
      BY <1>1, <1>7, <1>11, <2>1, <2>3, <3>1, PathStartToken
  <2>5. ps <= Len(r) /\ ps <= Len(s) /\ Kept(r, s, ps)
    BY <1>1, <1>7, <1>9, <2>2, <2>3
  <2>6. AuthorityAt(r, se, ue, hs, he, pt, ps)
    BY <1>1, <1>7, <2>1, <2>4, <2>5, AuthorityKept
  <2>7. LaidOut(Rec(r, se, ue, hs, he, pt, Len(x), q, f, fl))
    BY <1>1, <1>7, <1>10, <1>11, <2>1, <2>3, <2>6, LaidOutFields
  <2>8. v \in Records
    BY <1>1, <1>7, RecordOf
  <2>9. Hosted(r, se, ue, hs, he, pt, Len(x), q, f, fl)
    BY <1>1, <1>7, <1>10, <1>11, <2>1, <2>3, <2>6 DEF Hosted
  <2>10. SameAuthority(r, s, se, ue, hs, he)
    <3>1. se + 3 <= ue /\ ue <= hs /\ hs <= he /\ he <= ps
      BY <1>4, <1>13, HostedBounds
    <3>2. he <= Len(r) /\ he <= Len(s) /\ Kept(r, s, he)
      BY <1>1, <1>8, <2>5, <3>1 DEF Kept
    <3>3. UserinfoAt(s, se, ue, hs) /\ ~TokenAt(s, hs, ":") /\ ~TokenAt(r, hs, ":")
      BY <2>1, <2>6 DEF AuthorityAt, HostAt
    <3> QED
      BY <1>1, <1>7, <3>1, <3>2, <3>3, KeptAuthority
  <2>11. SameFront(Components(v), Components(old))
    BY <1>4, <1>13, <2>9, <2>10, HostedFront
  <2>12. Gives(u, v, PutPath(Components(u), path))
    BY <1>17, <2>7, <2>8, <2>11
  <2> QED
    BY <2>7, <2>8, <2>12 DEF v, r, head, q, f, s, se, ue, hs, he, pt, qs, fs, fl, pe
<1>14. CASE ~WithAuthority(u)
  <2>1. start = se + 1
    BY <1>14 DEF se
  <2>2. Upto(r, se) = Upto(s, se)
    <3>1. Kept(r, s, se) /\ se <= Len(r) /\ se <= Len(s)
      <4>1. se <= start /\ se < Len(s) /\ se < Len(r)
        BY <1>1, <1>10, <2>1 DEF TokenAt
      <4>2. se <= Len(s) /\ se <= Len(r)
        BY <1>1, <1>8, <4>1
      <4> QED
        BY <1>1, <1>9, <4>1, <4>2 DEF Kept
    <3> QED
      BY <1>1, <1>7, <3>1, UptoKept
  <2>3. ASSUME "OPAQUE_PATH" \in fl
        PROVE  NoAuthorityAt(r, se, ue, hs, he, pt, Len(x), q, f, fl)
    <3>1. ~marked /\ Len(x) = se + 1
      BY <1>3, <2>1, <2>3
    <3> QED
      BY <1>5, <1>14, <2>2, <2>3, <3>1 DEF NoAuthorityAt
  <2>4. ASSUME "OPAQUE_PATH" \notin fl, ~marked
        PROVE  NoAuthorityAt(r, se, ue, hs, he, pt, Len(x), q, f, fl)
    <3>1. Len(x) = se + 1 /\ ~PathBegins(new, <<"/", "/">>)
      BY <1>3, <1>5, <1>12, <1>14, <2>1, <2>4 DEF se
    <3>2. NoAuthorityAt(r, se, ue, hs, he, pt, Len(x), q, f, fl)
      BY <1>5, <1>11, <1>14, <2>2, <2>4, <3>1 DEF NoAuthorityAt
    <3> QED
      BY <3>2
  <2>5. ASSUME "OPAQUE_PATH" \notin fl, marked
        PROVE  NoAuthorityAt(r, se, ue, hs, he, pt, Len(x), q, f, fl)
    <3>1. Len(x) = se + 3 /\ PathBegins(new, <<"/", "/">>)
      BY <1>1, <1>12, <2>1, <2>5
    <3>2. TextAt(r, se + 1, <<"/", ".">>)
      <4>1. TokenAt(x, se + 1, "/") /\ TokenAt(x, (se + 1) + 1, ".")
        BY <2>1, <2>5
      <4>2. se + 1 \in Nat /\ se + 1 < Len(x) /\ (se + 1) + 1 \in Nat /\ (se + 1) + 1 < Len(x)
        BY <1>1, <3>1
      <4>3. TokenAt(r, se + 1, "/") /\ TokenAt(r, (se + 1) + 1, ".")
        BY <1>7, <4>1, <4>2 DEF Kept
      <4>4. r[(se + 1) + 1] = "/" /\ r[((se + 1) + 1) + 1] = "." /\ (se + 1) + 1 < Len(r)
        BY <4>3 DEF TokenAt
      <4>5. ((se + 1) + 1) + 1 = (se + 1) + 2 /\ (se + 1) + 2 <= Len(r)
        BY <1>1, <1>8, <4>4
      <4> QED
        BY <1>1, <4>4, <4>5, SMTT(30) DEF TextAt
    <3> QED
      BY <1>5, <1>14, <2>2, <2>5, <3>1, <3>2 DEF NoAuthorityAt
  <2>6. NoAuthorityAt(r, se, ue, hs, he, pt, Len(x), q, f, fl)
    BY <2>3, <2>4, <2>5
  <2>7. LaidOut(Rec(r, se, ue, hs, he, pt, Len(x), q, f, fl))
    BY <1>1, <1>7, <1>10, <2>6, LaidOutFields
  <2>8. v \in Records
    BY <1>1, <1>7, RecordOf
  <2>9. NoAuthorityAt(s, se, ue, hs, he, pt, ps, qs, fs, fl)
    <3>1. LaidOut(old)
      BY <1>15
    <3>2. ~(/\ "OPAQUE_PATH" \notin fl /\ AuthorityAt(s, se, ue, hs, he, pt, ps)
            /\ Rooted(Part(s, ps, qs, fs)))
      <4>1. ue = se + 1 /\ hs = se + 1
        BY <1>5, <1>14
      <4> QED
        BY <1>1, <4>1 DEF AuthorityAt, UserinfoAt
    <3> QED
      BY <3>1, <3>2, LaidOutFields DEF old
  <2>10. SameFront(Components(v), Components(old))
    BY <1>1, <1>7, <2>2, <2>6, <2>9, BareFront
  <2>11. Gives(u, v, PutPath(Components(u), path))
    BY <1>17, <2>7, <2>8, <2>10
  <2> QED
    BY <2>7, <2>8, <2>11 DEF v, r, head, q, f, s, se, ue, hs, he, pt, qs, fs, fl, pe
<1> QED
  BY <1>13, <1>14

PathFor(u, text) ==
  IF ~CannotBeABase(u) THEN ParsePath(Class(u), text)
  ELSE IF StartsWith(text, "/") THEN <<"%2F">> \o ParseOpaquePath(Tail(text))
  ELSE ParseOpaquePath(text)

LEMMA SetPathSound ==
  ASSUME NEW u \in Records, LaidOut(u), NEW text,
         text \in PathIn \/ (~CannotBeABase(u) /\ text \in WithSlash(PathIn))
  PROVE  LET r == SetPath(u, text)
         IN /\ Sound(r)
            /\ Fits(r.url) => r.url = u \/ Gives(u, r.url, PutPath(Components(u), PathFor(u, text)))
<1> DEFINE s == u.ser
           pe == PathEndOf(u)
           before == Upto(s, pe)
           after  == From(s, pe)
           bare   == [u EXCEPT !.ser = before]
           start  == IF HasMarker(bare) THEN u.scheme_end + 1 ELSE u.path_start
           path   == IF ~CannotBeABase(u) THEN ParsePath(Class(u), text)
                     ELSE IF StartsWith(text, "/") THEN <<"%2F">> \o ParseOpaquePath(Tail(text))
                     ELSE ParseOpaquePath(text)
           marked == /\ ~CannotBeABase(u) /\ Class(u) = "other" /\ start = u.scheme_end + 1
                     /\ TokenAt(path, 0, "/") /\ TokenAt(path, 1, "/")
           x      == Upto(before, start) \o (IF marked THEN <<"/", ".">> ELSE <<>>)
           head   == x \o path
           r      == head \o after
           p2     == IF marked THEN start + 2 ELSE start
           v      == MoveQueryAndFragment([u EXCEPT !.ser = r, !.path_start = p2],
                                          Len(before), Len(head))
           o(y)   == AdjustOpt(y, pe, Len(head))
           z      == Rec(r, u.scheme_end, u.username_end, u.host_start, u.host_end, u.port,
                         Len(x), o(u.query_start), o(u.fragment_start), u.flags)
<1>1. SetPath(u, text) \in {Panic(u), Ok(v)}
  BY DEF SetPath, WritePath, Checked
<1>14. path = PathFor(u, text)
  BY DEF PathFor
<1>2. /\ s \in Text /\ Len(s) \in Nat /\ u.path_start \in Nat /\ u.scheme_end \in Nat
      /\ pe \in Nat /\ u.path_start <= pe /\ pe <= Len(s)
  <2>1. u.query_start \in Nat /\ u.fragment_start \in Nat
    BY Fields, U32MaxAssumption DEF Offset
  <2>2. PathEndOf(Part(s, u.path_start, u.query_start, u.fragment_start)) = pe
    BY DEF PathEndOf, Part
  <2> QED
    BY <2>1, <2>2, Fields, LaidOutBounds, PathEndToken
<1>3. /\ WithAuthority(u) => start = u.path_start
      /\ ~WithAuthority(u) => start = u.scheme_end + 1 /\ WithoutAuthority(u)
      /\ start <= u.path_start /\ start \in Nat
  <2>1. /\ WithAuthority(u) => start = u.path_start
        /\ ~WithAuthority(u) => /\ start = u.scheme_end + 1 /\ start <= u.path_start
                                /\ WithoutAuthority(u)
    BY PathStart
  <2> HIDE DEF start
  <2> QED
    BY <1>2, <2>1
<1>4. path \in Text /\ (~CannotBeABase(u) => PathWord(path))
  <2>1. CASE ~CannotBeABase(u)
    <3>1. Class(u) \in SchemeTypes
      BY DEF Class, SchemeType, SchemeTypes
    <3>2. text \in WithSlash(PathIn)
      BY DEF WithSlash
    <3>3. PathWord(ParsePath(Class(u), text))
      BY <3>1, <3>2, ParserAssumption
    <3> QED
      BY <2>1, <3>3 DEF PathWord
  <2>2. CASE CannotBeABase(u)
    <3>1. text \in PathIn
      BY <2>2
    <3>2. StartsWith(text, "/") => text # <<>>
      BY DEF StartsWith
    <3>3. ParseOpaquePath(text) \in Text
      BY <3>1, ParserAssumption DEF WithTails
    <3>4. StartsWith(text, "/") => ParseOpaquePath(Tail(text)) \in Text
      BY <3>1, <3>2, ParserAssumption DEF WithTails
    <3>5. <<"%2F">> \in Text
      BY TokensAssumption DEF Text
    <3>6. StartsWith(text, "/") => <<"%2F">> \o ParseOpaquePath(Tail(text)) \in Text
      BY <3>4, <3>5, JoinTokens
    <3> QED
      BY <2>2, <3>3, <3>6
  <2> QED
    BY <2>1, <2>2
<1> HIDE DEF start, path
<1>5. /\ x \in Text /\ Len(x) = p2
      /\ Kept(x, s, start)
      /\ marked => TokenAt(x, start, "/") /\ TokenAt(x, start + 1, ".")
  <2>1. /\ start <= pe /\ marked \in BOOLEAN
        /\ s \in Text /\ pe \in Nat /\ start \in Nat /\ pe <= Len(s)
    BY <1>2, <1>3
  <2> HIDE DEF marked, s, pe
  <2>2. /\ x \in Text /\ Len(x) = IF marked THEN start + 2 ELSE start
        /\ Kept(x, s, start)
        /\ marked => TokenAt(x, start, "/") /\ TokenAt(x, start + 1, ".")
    BY ONLY <2>1, MarkedText DEF x, before
  <2> QED
    BY <1>2, <1>3, <2>2
<1>6. Len(before) = pe
  BY <1>2, UptoTokens
<1>7. v.ser = r
  BY DEF MoveQueryAndFragment, Records
<1>8. marked \in BOOLEAN
  OBVIOUS
<1>9. marked <=> /\ ~CannotBeABase(u) /\ Class(u) = "other" /\ start = u.scheme_end + 1
                 /\ TokenAt(path, 0, "/") /\ TokenAt(path, 1, "/")
  OBVIOUS
<1> HIDE DEF x, marked
<1>10. SUFFICES ASSUME Fits(v)
                PROVE  v \in Records /\ LaidOut(v) /\ Gives(u, v, PutPath(Components(u), path))
  <2>1. Panic(u).url = u /\ Ok(v).url = v /\ Ok(v).outcome = "ok"
    BY DEF Ok, Panic
  <2> HIDE DEF v
  <2> QED
    BY <1>1, <1>14, <2>1, RefusedSound DEF Sound
<1>11. Len(r) < U32Max
  <2>1. head \in Text
    BY <1>4, <1>5, JoinTokens
  <2> HIDE DEF head
  <2>2. r \in Text
    BY <1>2, <2>1, CutTokens
  <2>3. Len(r) \in Nat
    BY <2>2, LenProperties DEF Text
  <2> HIDE DEF r, v
  <2> QED
    BY <1>7, <1>10, <2>3, U32MaxAssumption DEF Fits
<1>12. z \in Records /\ LaidOut(z) /\ Gives(u, z, PutPath(Components(u), path))
  <2>1. Len(x \o path \o From(u.ser, PathEndOf(u))) < U32Max
    BY <1>11
  <2>2. Kept(x, u.ser, start)
    BY <1>5
  <2> HIDE DEF s, pe
  <2> QED
    BY <1>3, <1>4, <1>5, <1>8, <1>9, <2>1, <2>2, PathReplaced DEF s, pe
<1>13. v = z
  <2>1. v = MoveQueryAndFragment([u EXCEPT !.ser = r, !.path_start = Len(x)], pe, Len(head))
    BY <1>5, <1>6
  <2> DEFINE q == o(u.query_start)
             f == o(u.fragment_start)
  <2>2. r \in Text /\ Len(x) \in Offset /\ q \in Offset /\ f \in Offset
    <3> HIDE DEF r, o
    <3>1. /\ z.ser = r /\ z.path_start = Len(x) /\ z.query_start = q /\ z.fragment_start = f
      BY DEF Rec
    <3> HIDE DEF z
    <3> QED
      BY <1>12, <3>1 DEF Records
  <2>3. v = [u EXCEPT !.ser = r, !.path_start = Len(x), !.query_start = q, !.fragment_start = f]
    <3> HIDE DEF r, head
    <3> QED
      BY <2>1 DEF MoveQueryAndFragment, Records
  <2> HIDE DEF r, head, q, f, v
  <2>4. v \in Records
    BY <2>2, <2>3 DEF Records
  <2>5. /\ v.ser = r /\ v.scheme_end = u.scheme_end /\ v.username_end = u.username_end
        /\ v.host_start = u.host_start /\ v.host_end = u.host_end /\ v.port = u.port
        /\ v.path_start = Len(x) /\ v.query_start = q /\ v.fragment_start = f
        /\ v.flags = u.flags
    BY <2>3 DEF Records
  <2>6. v = Rec(r, u.scheme_end, u.username_end, u.host_start, u.host_end, u.port,
                Len(x), q, f, u.flags)
    BY <2>4, <2>5, FieldsOf
  <2> QED
    BY <2>6 DEF q, f
<1> QED
  BY <1>12, <1>13

LEMMA SetPathnameSound ==
  ASSUME NEW u \in Records, LaidOut(u), NEW text \in PathIn
  PROVE  LET r == SetPathname(u, text)
         IN /\ Sound(r)
            /\ Fits(r.url) =>
                 \/ r.url = u
                 \/ /\ ~CannotBeABase(u)
                    /\ \E x \in {text, <<"/">> \o text} :
                         Gives(u, r.url, PutPath(Components(u), PathFor(u, x)))
<1>1. <<"/">> \o text \in WithSlash(PathIn) /\ text \in PathIn
  BY DEF WithSlash
<1>2. CASE SetPathname(u, text) = Ok(u)
  BY <1>2, RefusedSound DEF Ok
<1>3. CASE ~CannotBeABase(u) /\ \E x \in {text, <<"/">> \o text} : SetPathname(u, text) = SetPath(u, x)
  <2>1. PICK x \in {text, <<"/">> \o text} : SetPathname(u, text) = SetPath(u, x)
    BY <1>3
  <2>2. /\ Sound(SetPath(u, x))
        /\ Fits(SetPath(u, x).url) =>
             SetPath(u, x).url = u \/ Gives(u, SetPath(u, x).url, PutPath(Components(u), PathFor(u, x)))
    BY <1>1, <1>3, SetPathSound
  <2> QED
    BY <1>3, <2>1, <2>2
<1> QED
  BY <1>2, <1>3 DEF SetPathname
-----------------------------------------------------------------------------
(* set_query, set_search, set_fragment and set_hash.                       *)

(* The record with another text behind its path.                           *)
LEMMA TailReplaced ==
  ASSUME NEW u \in Records, LaidOut(u), NEW r \in Text, NEW q \in Offset, NEW f \in Offset,
         Kept(r, u.ser, PathEndOf(u)),
         PathEndOf(Part(r, u.path_start, q, f)) = PathEndOf(u),
         Tails(Part(r, u.path_start, q, f))
  PROVE  LET z == Rec(r, u.scheme_end, u.username_end, u.host_start, u.host_end, u.port,
                      u.path_start, q, f, u.flags)
         IN z \in Records /\ LaidOut(z) /\ FrontKept(z, u)
<1> DEFINE s == u.ser             se == u.scheme_end   ue == u.username_end
           hs == u.host_start     he == u.host_end     pt == u.port
           ps == u.path_start     qs == u.query_start  fs == u.fragment_start
           fl == u.flags
           pe == PathEndOf(u)
           old == Part(s, ps, qs, fs)
           new == Part(r, ps, q, f)
<1>1. /\ s \in Text /\ Len(s) \in Nat /\ se \in Nat /\ ue \in Nat /\ hs \in Nat /\ he \in Nat
      /\ ps \in Nat /\ qs \in Nat /\ fs \in Nat /\ fl \in SUBSET FlagNames
      /\ se \in Offset /\ ue \in Offset /\ hs \in Offset /\ he \in Offset /\ pt \in 0..NoPort
      /\ ps \in Offset
      /\ se > 0 /\ TokenAt(s, se, ":") /\ Tails(old) /\ se <= hs /\ hs <= he /\ he <= ps
  BY Fields, LaidOutBounds, U32MaxAssumption, SMTT(30) DEF Offset
<1>2. /\ PathEndOf(old) = pe /\ PathEndOf(new) = pe
      /\ q \in Nat /\ f \in Nat /\ Len(r) \in Nat
  BY U32MaxAssumption, LenProperties DEF PathEndOf, Part, Offset, Text
<1> DEFINE was == Rec(s, se, ue, hs, he, pt, ps, qs, fs, fl)
           z   == Rec(r, se, ue, hs, he, pt, ps, q, f, fl)
<1>3. LaidOut(was) /\ u = was
  BY Fields
<1> HIDE DEF s, se, ue, hs, he, pt, ps, qs, fs, fl, pe
<1>4. Tails(new)
  BY DEF ps
<1>5. Kept(r, s, pe)
  BY DEF s, pe
<1> HIDE DEF old, new
<1>6. pe \in Nat /\ ps <= pe /\ pe <= Len(s)
  BY <1>1, <1>2, PathEndToken DEF old
<1>7. pe <= Len(r)
  BY <1>1, <1>2, <1>4, PathEndToken DEF new
<1>8. ASSUME NEW w \in Text PROVE PathBegins(new, w) <=> PathBegins(old, w)
  <2>1. ps + Len(w) <= pe => (TextAt(r, ps, w) <=> TextAt(s, ps, w))
    BY <1>1, <1>5, <1>6, <1>7, TextKept
  <2> QED
    BY <1>2, <2>1 DEF PathBegins, Part, old, new
<1>9. Rooted(old) => Rooted(new)
  <2>1. ps < pe => (TokenAt(r, ps, "/") <=> TokenAt(s, ps, "/"))
    BY <1>1, <1>5 DEF Kept
  <2>2. ps = pe \/ ps < pe
    BY <1>1, <1>6
  <2> QED
    BY <1>2, <2>1, <2>2 DEF Rooted, Part, old, new
<1>10. se > 0 /\ TokenAt(s, se, ":") /\ Tails(old)
       /\ \/ /\ "OPAQUE_PATH" \notin fl
             /\ AuthorityAt(s, se, ue, hs, he, pt, ps)
             /\ Rooted(old)
          \/ NoAuthorityAt(s, se, ue, hs, he, pt, ps, qs, fs, fl)
  BY <1>3, LaidOutFields DEF old
<1>11. ps <= Len(r) /\ ps <= Len(s) /\ Kept(r, s, ps)
  BY <1>1, <1>2, <1>5, <1>6, <1>7 DEF Kept
<1>12. z \in Records
  BY <1>1, RecordOf
<1>15. Path(z) = Path(was)
  <2>1. Slice(r, ps, pe) = Slice(s, ps, pe)
    BY <1>1, <1>5, <1>6, <1>7, SliceKept
  <2>2. PathEndOf(z) = pe /\ PathEndOf(was) = pe
    BY <1>2 DEF PathEndOf, Rec, Part, old, new
  <2> QED
    BY <2>1, <2>2 DEF Path, Rec
<1>13. CASE /\ "OPAQUE_PATH" \notin fl
            /\ AuthorityAt(s, se, ue, hs, he, pt, ps)
            /\ Rooted(old)
  <2>1. Rooted(new)
    BY <1>9, <1>13
  <2>2. ~TokenAt(r, ps, "@") /\ ~TokenAt(r, ps, ":")
    BY <1>1, <1>2, <1>4, <2>1, PathStartToken DEF new
  <2>3. AuthorityAt(r, se, ue, hs, he, pt, ps)
    BY <1>1, <1>11, <1>13, <2>2, AuthorityKept
  <2>4. se < ps
    <3>1. se + 3 <= hs
      BY <1>1, <2>3 DEF AuthorityAt, UserinfoAt
    <3> QED
      BY <1>1, <3>1
  <2>5. TokenAt(r, se, ":")
    BY <1>1, <1>11, <2>4 DEF Kept
  <2>6. LaidOut(z)
    BY <1>1, <1>4, <1>13, <2>1, <2>3, <2>5, LaidOutFields DEF new
  <2>7. /\ Hosted(s, se, ue, hs, he, pt, ps, qs, fs, fl)
        /\ Hosted(r, se, ue, hs, he, pt, ps, q, f, fl)
    <3>1. qs \in Offset /\ fs \in Offset
      BY Fields DEF qs, fs
    <3> QED
      BY <1>1, <1>4, <1>13, <2>1, <2>3, <2>5, <3>1 DEF Hosted, old, new
  <2>8. SameAuthority(r, s, se, ue, hs, he)
    <3>1. se + 3 <= ue /\ ue <= hs /\ hs <= he /\ he <= ps
      BY <2>7, HostedBounds
    <3>2. he <= Len(r) /\ he <= Len(s) /\ Kept(r, s, he)
      BY <1>1, <1>2, <1>11, <3>1 DEF Kept
    <3>3. UserinfoAt(s, se, ue, hs) /\ ~TokenAt(s, hs, ":") /\ ~TokenAt(r, hs, ":")
      BY <1>13, <2>3 DEF AuthorityAt, HostAt
    <3> QED
      BY <1>1, <3>1, <3>2, <3>3, KeptAuthority
  <2>9. SameFront(Components(z), Components(was))
    BY <2>7, <2>8, HostedFront
  <2>10. FrontKept(z, u)
    BY <1>3, <1>15, <2>9 DEF FrontKept
  <2> QED
    BY <1>12, <2>6, <2>10 DEF z, s, se, ue, hs, he, pt, ps, fl
<1>14. CASE NoAuthorityAt(s, se, ue, hs, he, pt, ps, qs, fs, fl)
  <2>1. se + 1 <= ps
    BY <1>1, <1>14 DEF NoAuthorityAt
  <2>2. TokenAt(r, se, ":") /\ Kept(r, s, se) /\ se <= Len(r) /\ se <= Len(s)
    <3>1. se < ps
      BY <1>1, <2>1
    <3> QED
      BY <1>1, <1>2, <1>11, <3>1 DEF Kept
  <2>3. Upto(r, se) = Upto(s, se)
    BY <1>1, <2>2, UptoKept
  <2>4. <<"/", "/">> \in Text /\ <<"/", ".", "/">> \in Text /\ <<"/", ".">> \in Text
        /\ Len(<<"/", ".">>) = 2
    BY TokensAssumption DEF Text
  <2>5. /\ PathBegins(new, <<"/", "/">>) <=> PathBegins(old, <<"/", "/">>)
        /\ PathBegins(new, <<"/", ".", "/">>) <=> PathBegins(old, <<"/", ".", "/">>)
    BY <1>8, <2>4
  <2>6. ASSUME ps = se + 3 PROVE TextAt(r, se + 1, <<"/", ".">>) <=> TextAt(s, se + 1, <<"/", ".">>)
    <3>1. se + 1 \in Nat /\ (se + 1) + Len(<<"/", ".">>) <= ps
      BY <1>1, <2>4, <2>6
    <3> QED
      BY <1>1, <1>11, <2>4, <3>1, TextKept
  <2>7. NoAuthorityAt(r, se, ue, hs, he, pt, ps, q, f, fl)
    BY <1>9, <1>14, <2>3, <2>5, <2>6 DEF NoAuthorityAt, old, new
  <2>8. LaidOut(z)
    BY <1>1, <1>4, <2>2, <2>7, LaidOutFields DEF new
  <2>9. SameFront(Components(z), Components(was))
    BY <1>1, <1>14, <2>3, <2>7, BareFront
  <2>10. FrontKept(z, u)
    BY <1>3, <1>15, <2>9 DEF FrontKept
  <2> QED
    BY <1>12, <2>8, <2>10 DEF z, s, se, ue, hs, he, pt, ps, fl
<1> QED
  BY <1>10, <1>13, <1>14

(* Spaces at the end of an href end behind the colon of its scheme.        *)
EndsAt(s, n) == s[n] # " " /\ \A i \in n + 1..Len(s) : s[i] = " "

LEMMA SpacesFacts ==
  ASSUME NEW s \in Text, NEW k \in Nat, TokenAt(s, k, ":")
  PROVE  LET spaces == Cardinality({i \in DOMAIN s : \A j \in i..Len(s) : s[j] = " "})
         IN /\ spaces \in Nat /\ k + 1 + spaces <= Len(s)
            /\ \A n \in Nat : n + spaces = Len(s) => EndsAt(s, n)
<1> DEFINE S == {i \in DOMAIN s : \A j \in i..Len(s) : s[j] = " "}
<1>1. PICK n \in Nat : n = Len(s)
  BY LenProperties DEF Text
<1>2. k < n /\ s[k + 1] = ":" /\ DOMAIN s = 1..n
  BY <1>1, LenProperties DEF TokenAt, Text
<1>3. S \subseteq k + 2..n
  <2>1. ASSUME NEW i \in 1..n, \A j \in i..n : s[j] = " "
        PROVE  i \in k + 2..n
    <3>1. s[k + 1] # " "
      BY <1>2
    <3>2. k + 1 \notin i..n
      BY <2>1, <3>1
    <3>3. k + 1 <= n
      BY <1>2
    <3> QED
      BY <3>2, <3>3
  <2> QED
    BY <1>1, <1>2, <2>1
<1> HIDE DEF S
<1>4. IsFiniteSet(k + 2..n) /\ Cardinality(k + 2..n) = n - (k + 1)
  <2>1. k + 2 \in Int /\ n \in Int
    OBVIOUS
  <2>2. /\ IsFiniteSet(k + 2..n)
        /\ Cardinality(k + 2..n) = IF k + 2 > n THEN 0 ELSE n - (k + 2) + 1
    BY <2>1, FS_Interval
  <2> QED
    BY <1>2, <2>2
<1>5. IsFiniteSet(S) /\ Cardinality(S) <= n - (k + 1)
  BY <1>3, <1>4, FS_Subset
<1>6. Cardinality(S) \in Nat
  BY <1>5, FS_CardinalityType
<1>7. k + 1 + Cardinality(S) <= n
  BY <1>2, <1>5, <1>6
<1>8. ASSUME NEW m \in Nat, m + Cardinality(S) = n
      PROVE  EndsAt(s, m)
  <2>1. PICK c \in Nat : c = Cardinality(S)
    BY <1>6
  <2>2. m + c = n /\ k + 1 <= m
    BY <1>2, <1>7, <1>8, <2>1
  <2>3. S \subseteq m + 1..n
    <3>1. ASSUME NEW i \in S PROVE i \in m + 1..n
      <4>1. i \in 1..n
        BY <1>2 DEF S
      <4>2. i..n \subseteq S
        <5>1. ASSUME NEW j \in i..n PROVE j \in S
          <6>1. j \in 1..n /\ \A l \in j..n : l \in i..n
            BY <4>1
          <6> QED
            BY <1>1, <1>2, <6>1 DEF S
        <5> QED
          BY <5>1
      <4>3. IsFiniteSet(i..n) /\ Cardinality(i..n) = n - i + 1
        <5>1. i \in Int /\ n \in Int /\ i <= n
          BY <4>1
        <5>2. /\ IsFiniteSet(i..n)
              /\ Cardinality(i..n) = IF i > n THEN 0 ELSE n - i + 1
          BY <5>1, FS_Interval
        <5> QED
          BY <5>1, <5>2
      <4>4. Cardinality(i..n) <= Cardinality(S)
        BY <1>5, <4>2, FS_Subset
      <4> QED
        BY <2>1, <2>2, <4>1, <4>3, <4>4
    <3> QED
      BY <3>1
  <2>4. IsFiniteSet(m + 1..n) /\ Cardinality(m + 1..n) = c
    <3>1. m + 1 \in Int /\ n \in Int
      OBVIOUS
    <3>2. /\ IsFiniteSet(m + 1..n)
          /\ Cardinality(m + 1..n) = IF m + 1 > n THEN 0 ELSE n - (m + 1) + 1
      BY <3>1, FS_Interval
    <3> QED
      BY <2>2, <3>2
  <2>5. S = m + 1..n
    BY <2>1, <2>3, <2>4, FS_Subset
  <2>6. \A i \in m + 1..n : s[i] = " "
    <3>1. ASSUME NEW i \in m + 1..n PROVE s[i] = " "
      <4>1. i \in S /\ i \in i..n
        BY <2>5
      <4> QED
        BY <1>1, <4>1 DEF S
    <3> QED
      BY <3>1
  <2>7. s[m] # " "
    <3>1. m \in 1..n /\ m \notin S
      BY <2>2, <2>5
    <3>2. PICK j \in m..n : s[j] # " "
      BY <1>1, <1>2, <3>1 DEF S
    <3>3. j \in m + 1..n \/ j = m
      <4>1. j \in m..n
        BY <3>2
      <4> QED
        BY <4>1
    <3> QED
      BY <2>6, <3>2, <3>3
  <2> QED
    BY <1>1, <2>6, <2>7 DEF EndsAt
<1> QED
  BY <1>1, <1>6, <1>7, <1>8 DEF S

(* The text without the spaces at its end.                                 *)
Spaced(t, k) == (\A i \in k + 1..Len(t) : t[i] = " ") /\ (k = 0 \/ t[k] # " ")
StripEnd(t)  == Upto(t, CHOOSE k \in 0..Len(t) : Spaced(t, k))

(* What is done to the components of a URL that lost its query or fragment. *)
Trim(c) == IF c.opaque /\ c.query = {} /\ c.fragment = {} THEN PutPath(c, StripEnd(c.path)) ELSE c

LEMMA StripEndIs ==
  ASSUME NEW t \in Text, NEW k \in 0..Len(t), Spaced(t, k)
  PROVE  StripEnd(t) = Upto(t, k)
<1>1. PICK n \in Nat : n = Len(t)
  BY LenProperties DEF Text
<1>2. PICK x \in 0..n : x = (CHOOSE j \in 0..Len(t) : Spaced(t, j)) /\ Spaced(t, x)
  BY <1>1
<1>3. k \in 0..n
  BY <1>1
<1>4. ASSUME k < x PROVE FALSE
  <2>1. k \in Nat /\ x \in Nat /\ x <= n
    BY <1>2, <1>3
  <2>2. x \in k + 1..n /\ x # 0
    BY <1>4, <2>1
  <2> QED
    BY <1>1, <1>2, <2>2 DEF Spaced
<1>5. ASSUME x < k PROVE FALSE
  <2>1. k \in x + 1..n /\ k # 0
    BY <1>2, <1>3, <1>5
  <2> QED
    BY <1>1, <1>2, <2>1 DEF Spaced
<1>6. x = k
  BY <1>2, <1>3, <1>4, <1>5
<1> QED
  BY <1>2, <1>6 DEF StripEnd

LEMMA StrippedSlice ==
  ASSUME NEW s \in Text, NEW a \in Nat, NEW n \in Nat, a <= n, n <= Len(s), EndsAt(s, n)
  PROVE  StripEnd(Slice(s, a, Len(s))) = Slice(s, a, n)
<1>1. PICK l \in Nat : l = Len(s)
  BY LenProperties DEF Text
<1>2. PICK k \in Nat, m \in Nat : n = a + k /\ l = a + m /\ k <= m
  <2>1. n - a \in Nat /\ l - a \in Nat /\ n = a + (n - a) /\ l = a + (l - a) /\ n - a <= l - a
    BY <1>1
  <2> QED
    BY <2>1
<1>3. PICK t : t = Slice(s, a, a + m)
  OBVIOUS
<1>4. /\ t \in Text /\ Len(t) = m
      /\ \A j \in Nat : j < m => t[j + 1] = s[(a + j) + 1]
  <2>1. a + m <= Len(s)
    BY <1>1, <1>2
  <2>2. /\ Slice(s, a, a + m) \in Text /\ Len(Slice(s, a, a + m)) = m
        /\ \A j \in Nat : j < m => Slice(s, a, a + m)[j + 1] = s[(a + j) + 1]
    BY <2>1, SliceFacts
  <2> QED
    BY <1>3, <2>2
<1>5. Spaced(t, k)
  <2>1. ASSUME NEW i \in k + 1..m PROVE t[i] = " "
    <3>1. PICK j \in Nat : i = j + 1 /\ j < m
      <4>1. i - 1 \in Nat /\ i = (i - 1) + 1 /\ i - 1 < m
        BY <2>1
      <4> QED
        BY <4>1
    <3>2. (a + j) + 1 \in n + 1..l
      BY <1>2, <3>1
    <3>3. s[(a + j) + 1] = " "
      BY <1>1, <3>2 DEF EndsAt
    <3> QED
      BY <1>4, <3>1, <3>3
  <2>2. ASSUME k # 0 PROVE t[k] # " "
    <3>1. PICK j \in Nat : k = j + 1 /\ j < m
      <4>1. k - 1 \in Nat /\ k = (k - 1) + 1 /\ k - 1 < m
        BY <1>2, <2>2
      <4> QED
        BY <4>1
    <3>2. (a + j) + 1 = n
      BY <1>2, <3>1
    <3>3. s[(a + j) + 1] # " "
      BY <3>2 DEF EndsAt
    <3> QED
      BY <1>4, <3>1, <3>3
  <2> QED
    BY <1>4, <2>1, <2>2 DEF Spaced
<1>6. StripEnd(t) = Upto(t, k)
  BY <1>2, <1>4, <1>5, StripEndIs
<1>7. Slice(t, 0, k) = Slice(s, a, n)
  <2>1. SameAt(t, 0, s, a, k)
    <3>1. ASSUME NEW x, NEW j \in Nat, j < k
          PROVE  TokenAt(t, 0 + j, x) <=> TokenAt(s, a + j, x)
      <4>1. j < m /\ a + j < l /\ 0 + j = j
        BY <1>2, <3>1
      <4> QED
        BY <1>1, <1>4, <4>1 DEF TokenAt
    <3> QED
      BY <3>1 DEF SameAt
  <2>2. k = 0 + k /\ k <= Len(t)
    BY <1>2, <1>4
  <2> QED
    BY <1>2, <1>4, <2>1, <2>2, SameSlice
<1>8. Upto(t, k) = Slice(t, 0, k)
  BY DEF Upto, Slice
<1> QED
  BY <1>1, <1>2, <1>3, <1>6, <1>7, <1>8

LEMMA StripSound ==
  ASSUME NEW u \in Records, LaidOut(u)
  PROVE  LET w == StripTrailingSpaces(u)
         IN w \in Records /\ LaidOut(w) /\ Gives(u, w, Trim(Components(u)))
<1> DEFINE s == u.ser
           spaces == Cardinality({i \in DOMAIN s : \A j \in i..Len(s) : s[j] = " "})
           r == Upto(s, Len(s) - spaces)
           w == StripTrailingSpaces(u)
<1>1. CASE ~CannotBeABase(u) \/ u.query_start # NONE \/ u.fragment_start # NONE
  <2>1. w = u
    BY <1>1 DEF StripTrailingSpaces
  <2>2. ~(Components(u).opaque /\ Components(u).query = {} /\ Components(u).fragment = {})
    BY <1>1, ComponentTests DEF Query, Fragment
  <2> QED
    BY <2>1, <2>2 DEF Gives, Trim
<1>2. CASE /\ CannotBeABase(u) /\ u.query_start = NONE /\ u.fragment_start = NONE
           /\ w = [u EXCEPT !.ser = r]
  <2>1. s \in Text /\ Len(s) \in Nat /\ u.scheme_end \in Nat /\ TokenAt(s, u.scheme_end, ":")
        /\ u.scheme_end > 0
    BY Fields, LaidOutBounds
  <2>2. /\ spaces \in Nat /\ u.scheme_end + 1 + spaces <= Len(s)
        /\ \A m \in Nat : m + spaces = Len(s) => EndsAt(s, m)
    <3> HIDE DEF s
    <3> QED
      BY <2>1, SpacesFacts
  <2> HIDE DEF spaces
  <2>3. PICK n \in Nat : n = Len(s) - spaces /\ u.scheme_end + 1 <= n /\ n <= Len(s)
    <3>1. Len(s) - spaces \in Nat /\ u.scheme_end + 1 <= Len(s) - spaces /\ Len(s) - spaces <= Len(s)
      BY <2>1, <2>2
    <3> QED
      BY <3>1
  <2>14. EndsAt(s, n)
    <3>1. n + spaces = Len(s)
      BY <2>1, <2>2, <2>3
    <3> HIDE DEF s
    <3> QED
      BY <2>2, <2>3, <3>1
  <2>4. /\ r \in Text /\ Len(r) = n
        /\ \A t : \A k \in Nat : k < n => (TokenAt(r, k, t) <=> TokenAt(s, k, t))
    <3>1. r = Upto(s, n)
      BY <2>3
    <3> HIDE DEF r, s
    <3> QED
      BY <2>1, <2>3, <3>1, UptoTokens
  <2> HIDE DEF r
  <2>5. w \in Records
    BY <1>2, <2>4 DEF Records
  <2>6. /\ w.ser = r /\ w.scheme_end = u.scheme_end /\ w.username_end = u.username_end
        /\ w.host_start = u.host_start /\ w.host_end = u.host_end /\ w.port = u.port
        /\ w.path_start = u.path_start /\ w.query_start = NONE /\ w.fragment_start = NONE
        /\ w.flags = u.flags
    BY <1>2 DEF Records
  <2>7. WithoutAuthority(u) /\ OpaqueShape(u)
    BY <1>2 DEF LaidOut, WithAuthority, PlainShape, MarkerShape
  <2>8. u.path_start = u.scheme_end + 1
    BY <2>7 DEF OpaqueShape
  <2>9. Upto(r, u.scheme_end) = Upto(s, u.scheme_end)
    <3>1. u.scheme_end <= n /\ u.scheme_end <= Len(s) /\ Kept(r, s, u.scheme_end)
      BY <2>1, <2>3, <2>4 DEF Kept
    <3> HIDE DEF s
    <3> QED
      BY <2>1, <2>4, <3>1, UptoKept
  <2>10. TokenAt(r, u.scheme_end, ":")
    <3>1. u.scheme_end < n
      BY <2>1, <2>3
    <3> QED
      BY <2>1, <2>4, <3>1
  <2>11. Tails(w)
    BY <2>3, <2>4, <2>6, <2>8 DEF Tails, PathEndOf, QueryEndOf
  <2>12. WithoutAuthority(w) /\ OpaqueShape(w)
    BY <2>6, <2>7, <2>9 DEF WithoutAuthority, OpaqueShape, CannotBeABase, Scheme
  <2>13. LaidOut(w)
    BY <2>1, <2>6, <2>10, <2>11, <2>12 DEF LaidOut
  <2>15. Path(w) = StripEnd(Path(u))
    <3>1. PICK a \in Nat : a = u.path_start /\ a <= n
      BY <2>1, <2>3, <2>8
    <3>2. Path(u) = Slice(s, a, Len(s)) /\ Path(w) = Slice(r, a, n)
      BY <1>2, <2>4, <2>6, <3>1 DEF Path, PathEndOf
    <3> HIDE DEF s
    <3>3. StripEnd(Slice(s, a, Len(s))) = Slice(s, a, n)
      BY <2>1, <2>3, <2>14, <3>1, StrippedSlice
    <3>4. Slice(r, a, n) = Slice(s, a, n)
      <4>1. Kept(r, s, n) /\ n <= Len(r) /\ n <= n
        BY <2>3, <2>4 DEF Kept
      <4> QED
        BY <2>1, <2>3, <2>4, <3>1, <4>1, SliceKept
    <3> QED
      BY <3>2, <3>3, <3>4
  <2>16. /\ Query(u) = {} /\ Query(w) = {} /\ Fragment(u) = {} /\ Fragment(w) = {}
    BY <1>2, <2>6 DEF Query, Fragment
  <2>17. SameFront(Components(w), Components(u))
    <3>1. /\ w.username_end = u.scheme_end + 1 /\ w.host_start = u.scheme_end + 1
          /\ u.username_end = u.scheme_end + 1 /\ u.host_start = u.scheme_end + 1
      BY <2>6, <2>7 DEF WithoutAuthority
    <3>2. Username(u) = <<>> /\ Username(w) = <<>>
      BY <2>1, <2>6, <3>1 DEF Username
    <3>3. Password(u) = <<>> /\ Password(w) = <<>>
      BY <2>6, <3>1 DEF Password, HasPasswordSlot, HasAuthority, TokenAt
    <3>4. /\ ~(u.host_start > u.scheme_end + 1) /\ ~(w.host_start > w.scheme_end + 1)
          /\ w.port = u.port
      BY <2>1, <2>6, <3>1
    <3>5. Scheme(w) = Scheme(u) /\ CannotBeABase(w) = CannotBeABase(u)
      BY <2>6, <2>9 DEF Scheme, CannotBeABase
    <3> HIDE DEF w
    <3> QED
      BY <3>2, <3>3, <3>4, <3>5 DEF Components, SameFront
  <2>18. w.flags = u.flags
    BY <2>6
  <2>19. Trim(Components(u)) = PutPath(Components(u), StripEnd(Path(u)))
    BY <1>2, <2>16, ComponentTests DEF Trim
  <2> HIDE DEF w
  <2>20. Gives(u, w, PutPath(Components(u), StripEnd(Path(u))))
    BY <2>5, <2>13, <2>15, <2>16, <2>17, <2>18, FrontGives DEF TailIs
  <2> QED
    BY <2>5, <2>13, <2>19, <2>20 DEF w
<1> QED
  BY <1>1, <1>2 DEF StripTrailingSpaces

(* Where the path and the query of a record end.                           *)
LEMMA TailBounds ==
  ASSUME NEW u \in Records, LaidOut(u)
  PROVE  LET pe == PathEndOf(u)
             qe == QueryEndOf(u)
         IN /\ pe \in Nat /\ qe \in Nat /\ u.path_start <= pe /\ pe <= qe /\ qe <= Len(u.ser)
            /\ u.query_start # NONE => pe = u.query_start /\ pe < qe /\ TokenAt(u.ser, pe, "?")
            /\ u.query_start = NONE => pe = qe
            /\ u.fragment_start # NONE => qe = u.fragment_start /\ TokenAt(u.ser, qe, "#")
            /\ u.fragment_start = NONE => qe = Len(u.ser)
            /\ NONE = U32Max /\ U32Max \in Nat /\ NONE \in Offset
<1>1. /\ u.path_start \in Nat /\ u.query_start \in Nat /\ u.fragment_start \in Nat
      /\ Len(u.ser) \in Nat /\ NONE = U32Max /\ U32Max \in Nat /\ NONE \in Offset
  BY Fields, U32MaxAssumption DEF Offset, NONE
<1>2. Tails(Part(u.ser, u.path_start, u.query_start, u.fragment_start))
  BY LaidOutBounds
<1> QED
  BY <1>1, <1>2 DEF Tails, Part, PathEndOf, QueryEndOf

(* A text cut where the path or the query ends and written on.             *)
LEMMA WrittenOn ==
  ASSUME NEW s \in Text, NEW n \in Nat, n <= Len(s), NEW w \in Text
  PROVE  LET r == Upto(s, n) \o w
         IN /\ r \in Text /\ Len(r) = n + Len(w) /\ Len(Upto(s, n)) = n
            /\ Kept(r, s, n)
            /\ \A t : \A k \in Nat : TokenAt(r, n + k, t) <=> TokenAt(w, k, t)
<1> DEFINE y == Upto(s, n)
<1>1. /\ y \in Text /\ Len(y) = n
      /\ \A t : \A k \in Nat : k < n => (TokenAt(y, k, t) <=> TokenAt(s, k, t))
  BY UptoTokens
<1> HIDE DEF y
<1>2. /\ y \o w \in Text /\ Len(y \o w) = Len(y) + Len(w)
      /\ \A t : \A k \in Nat : k < Len(y) => (TokenAt(y \o w, k, t) <=> TokenAt(y, k, t))
      /\ \A t : \A k \in Nat : TokenAt(y \o w, Len(y) + k, t) <=> TokenAt(w, k, t)
  BY <1>1, JoinTokens
<1> QED
  BY <1>1, <1>2 DEF Kept, y

(* A query or a fragment behind its delimiter.                             *)
LEMMA DelimitedText ==
  ASSUME NEW d \in {"?", "#"}, NEW text, Visible(text) \in Text
  PROVE  LET q == <<d>> \o EncodeQuery(Visible(text))
             f == <<d>> \o EncodeFragment(Visible(text))
         IN /\ q \in Text /\ Len(q) \in Nat /\ 0 < Len(q) /\ TokenAt(q, 0, d)
            /\ f \in Text /\ Len(f) \in Nat /\ 0 < Len(f) /\ TokenAt(f, 0, d)
<1>1. QuerySet \subseteq DOMAIN Encoding /\ FragmentSet \subseteq DOMAIN Encoding
  BY DEF QuerySet, FragmentSet, Encoding
<1>2. EncodeQuery(Visible(text)) \in Text /\ EncodeFragment(Visible(text)) \in Text
  BY <1>1, EncodeFacts DEF EncodeQuery, EncodeFragment
<1>3. <<d>> \in Text /\ Len(<<d>>) = 1 /\ TokenAt(<<d>>, 0, d)
  BY TokensAssumption DEF Text, TokenAt
<1>4. ASSUME NEW y \in Text
      PROVE  <<d>> \o y \in Text /\ Len(<<d>> \o y) \in Nat /\ 0 < Len(<<d>> \o y)
             /\ TokenAt(<<d>> \o y, 0, d)
  <2>1. /\ <<d>> \o y \in Text /\ Len(<<d>> \o y) = Len(<<d>>) + Len(y)
        /\ \A t : \A k \in Nat : k < Len(<<d>>) => (TokenAt(<<d>> \o y, k, t) <=> TokenAt(<<d>>, k, t))
    BY <1>3, JoinTokens
  <2>2. Len(y) \in Nat
    BY LenProperties DEF Text
  <2>3. TokenAt(<<d>> \o y, 0, d)
    BY <1>3, <2>1
  <2> QED
    BY <1>3, <2>1, <2>2, <2>3
<1> QED
  BY <1>2, <1>4

(* The record with a query q and a fragment f where the path ends.         *)
LEMMA TailLaid ==
  ASSUME NEW u \in Records, LaidOut(u), NEW r \in Text, NEW q \in Offset, NEW f \in Offset,
         Kept(r, u.ser, PathEndOf(u)), PathEndOf(u) <= Len(r),
         q # NONE => q = PathEndOf(u) /\ TokenAt(r, PathEndOf(u), "?"),
         f # NONE => /\ TokenAt(r, f, "#")
                     /\ IF q = NONE THEN f = PathEndOf(u) ELSE PathEndOf(u) < f,
         q = NONE /\ f = NONE => Len(r) = PathEndOf(u)
  PROVE  LET z == Rec(r, u.scheme_end, u.username_end, u.host_start, u.host_end, u.port,
                      u.path_start, q, f, u.flags)
         IN z \in Records /\ LaidOut(z) /\ FrontKept(z, u)
<1> DEFINE pe == PathEndOf(u)
           ps == u.path_start
<1>1. /\ pe \in Nat /\ ps \in Nat /\ ps <= pe /\ q \in Nat /\ f \in Nat /\ Len(r) \in Nat
  BY Fields, TailBounds, LenProperties DEF Offset, Text
<1>2. PathEndOf(Part(r, ps, q, f)) = pe
  BY <1>1 DEF PathEndOf, Part
<1>3. QueryEndOf(Part(r, ps, q, f)) = IF f # NONE THEN f ELSE Len(r)
  BY DEF QueryEndOf, Part
<1> HIDE DEF pe, ps
<1>4. /\ q # NONE => q = pe /\ TokenAt(r, pe, "?")
      /\ f # NONE => /\ TokenAt(r, f, "#")
                     /\ IF q = NONE THEN f = pe ELSE pe < f
      /\ q = NONE /\ f = NONE => Len(r) = pe
      /\ pe <= Len(r)
  BY DEF pe
<1>5. Tails(Part(r, ps, q, f))
  <2>1. (q # NONE => pe < Len(r)) /\ (f # NONE => f < Len(r))
    BY <1>4 DEF TokenAt
  <2> HIDE DEF PathEndOf, QueryEndOf
  <2> QED
    BY <1>1, <1>2, <1>3, <1>4, <2>1 DEF Tails, Part
<1> QED
  BY <1>2, <1>5, TailReplaced DEF pe, ps

(* A query w, or none, written between the path and the fragment.          *)
QueryStands(u, w, e, r) ==
  LET pe == PathEndOf(u)
      q  == IF w = <<>> THEN NONE ELSE pe
      f  == IF u.fragment_start = NONE THEN NONE ELSE Len(Upto(u.ser, pe) \o w)
      z  == Rec(r, u.scheme_end, u.username_end, u.host_start, u.host_end, u.port,
                u.path_start, q, f, u.flags)
  IN /\ r \in Text /\ q \in Offset /\ f \in Offset /\ Len(Upto(u.ser, pe)) = pe
     /\ z \in Records /\ LaidOut(z)
     /\ Gives(u, z, PutQuery(Components(u), IF w = <<>> THEN {} ELSE {e}))

LEMMA QueryWritten ==
  ASSUME NEW u \in Records, LaidOut(u), NEW w \in Text, NEW e \in Text,
         w = <<>> \/ w = <<"?">> \o e, w # <<>> => TokenAt(w, 0, "?"),
         NEW r, r = IF u.fragment_start = NONE THEN Upto(u.ser, PathEndOf(u)) \o w
                    ELSE Upto(u.ser, PathEndOf(u)) \o w \o From(u.ser, u.fragment_start),
         (w = <<>> /\ u.fragment_start = NONE) \/ Len(r) < U32Max
  PROVE  QueryStands(u, w, e, r)
<1> DEFINE s  == u.ser
           fs == u.fragment_start
           pe == PathEndOf(u)
           ser == Upto(s, pe) \o w
           q  == IF w = <<>> THEN NONE ELSE pe
           f  == IF fs = NONE THEN NONE ELSE Len(ser)
<1>1. /\ s \in Text /\ pe \in Nat /\ pe <= Len(s) /\ Len(s) \in Nat /\ Len(w) \in Nat
      /\ NONE = U32Max /\ U32Max \in Nat
      /\ fs # NONE => fs \in Nat /\ fs < Len(s) /\ TokenAt(s, fs, "#")
  <2>1. s \in Text /\ Len(s) \in Nat /\ Len(w) \in Nat
    BY Fields, LenProperties DEF Text
  <2>2. /\ pe \in Nat /\ QueryEndOf(u) \in Nat /\ pe <= QueryEndOf(u) /\ QueryEndOf(u) <= Len(s)
        /\ fs # NONE => QueryEndOf(u) = fs /\ TokenAt(s, QueryEndOf(u), "#")
        /\ NONE = U32Max /\ U32Max \in Nat
    BY TailBounds
  <2>3. fs # NONE => fs < Len(s)
    BY <2>2 DEF TokenAt
  <2> HIDE DEF s, fs, pe
  <2> QED
    BY <2>1, <2>2, <2>3
<1>2. /\ ser \in Text /\ Len(ser) = pe + Len(w) /\ Len(Upto(s, pe)) = pe
      /\ Kept(ser, s, pe)
      /\ \A t : \A k \in Nat : TokenAt(ser, pe + k, t) <=> TokenAt(w, k, t)
  BY <1>1, WrittenOn
<1>3. r = IF fs = NONE THEN ser ELSE ser \o From(s, fs)
  OBVIOUS
<1>4. Kept(r, u.ser, PathEndOf(u)) <=> Kept(r, s, pe)
  OBVIOUS
<1> HIDE DEF s, fs, pe, ser
<1>5. w # <<>> => TokenAt(ser, pe, "?") /\ Len(w) > 0
  <2>1. w # <<>> => TokenAt(ser, pe + 0, "?")
    BY <1>2
  <2>2. pe + 0 = pe
    BY <1>1
  <2>3. w # <<>> => Len(w) > 0
    BY <1>1, EmptySeq DEF Text
  <2> QED
    BY <2>1, <2>2, <2>3
<1>6. /\ r \in Text /\ Len(r) \in Nat /\ Len(ser) <= Len(r)
      /\ \A t : \A k \in Nat : k < Len(ser) => (TokenAt(r, k, t) <=> TokenAt(ser, k, t))
      /\ fs = NONE => r = ser
      /\ fs # NONE => TokenAt(r, Len(ser), "#")
  <2>1. CASE fs = NONE
    <3>1. r = ser
      BY <1>3, <2>1
    <3>2. ser \in Text /\ Len(ser) \in Nat
      BY <1>1, <1>2
    <3>3. r \in Text /\ Len(r) \in Nat /\ Len(ser) <= Len(r)
      <4>1. Len(ser) <= Len(ser)
        BY ONLY <3>2
      <4> QED
        BY ONLY <3>1, <3>2, <4>1
    <3>4. \A t : \A k \in Nat : k < Len(ser) => (TokenAt(r, k, t) <=> TokenAt(ser, k, t))
      BY <3>1
    <3> QED
      BY <2>1, <3>1, <3>3, <3>4
  <2>2. CASE fs # NONE
    <3>1. fs \in Nat /\ fs <= Len(s) /\ s \in Text /\ ser \in Text
      BY <1>1, <1>2, <2>2
    <3> DEFINE y == ser \o From(s, fs)
    <3>0. r = y
      BY <1>3, <2>2
    <3>2. /\ r \in Text /\ Len(r) = Len(ser) + (Len(s) - fs)
          /\ \A t : \A k \in Nat : k < Len(ser) => (TokenAt(r, k, t) <=> TokenAt(ser, k, t))
          /\ \A t : \A k \in Nat : TokenAt(r, Len(ser) + k, t) <=> TokenAt(s, fs + k, t)
      <4>1. /\ y \in Text /\ Len(y) = Len(ser) + (Len(s) - fs)
            /\ \A t : \A k \in Nat : k < Len(ser) => (TokenAt(y, k, t) <=> TokenAt(ser, k, t))
            /\ \A t : \A k \in Nat : TokenAt(y, Len(ser) + k, t) <=> TokenAt(s, fs + k, t)
        BY <3>1, CutTokens
      <4> HIDE DEF y
      <4> QED
        BY <3>0, <4>1
    <3>3. Len(ser) \in Nat /\ Len(ser) + 0 = Len(ser) /\ fs + 0 = fs
      BY <1>1, <1>2, <3>1
    <3>4. TokenAt(r, Len(ser) + 0, "#") <=> TokenAt(s, fs + 0, "#")
      BY <3>2
    <3>5. Len(r) \in Nat /\ Len(ser) <= Len(r)
      BY <1>1, <3>1, <3>2, <3>3
    <3> QED
      BY <1>1, <2>2, <3>2, <3>3, <3>4, <3>5
  <2> QED
    BY <2>1, <2>2
<1>7. Kept(r, s, pe) /\ pe <= Len(r)
  <2>1. ASSUME NEW k \in Nat, NEW t, k < pe PROVE TokenAt(r, k, t) <=> TokenAt(s, k, t)
    <3>1. k < Len(ser)
      BY <1>1, <1>2, <2>1
    <3> QED
      BY <1>2, <1>6, <2>1, <3>1 DEF Kept
  <2> QED
    BY <1>1, <1>2, <1>6, <2>1 DEF Kept
<1>8. w # <<>> => TokenAt(r, pe, "?")
  <2>1. w # <<>> => pe < Len(ser)
    BY <1>1, <1>2, <1>5
  <2> QED
    BY <1>1, <1>5, <1>6, <2>1
<1>9. q \in Offset /\ f \in Offset
      /\ (w # <<>> => q # NONE /\ q = pe) /\ (fs # NONE => f # NONE /\ f = Len(ser))
      /\ (w = <<>> => q = NONE) /\ (fs = NONE => f = NONE)
  <2>1. w # <<>> \/ fs # NONE => Len(r) < U32Max
    BY DEF fs
  <2>2. pe <= Len(r) /\ Len(ser) <= Len(r) /\ Len(ser) \in Nat
    BY <1>1, <1>2, <1>6, <1>7
  <2> QED
    BY <1>1, <1>6, <2>1, <2>2 DEF Offset
<1> DEFINE z == Rec(r, u.scheme_end, u.username_end, u.host_start, u.host_end, u.port,
                    u.path_start, q, f, u.flags)
<1> HIDE DEF q, f
<1>10. f # NONE => /\ TokenAt(r, f, "#")
                   /\ IF q = NONE THEN f = pe ELSE pe < f
  <2>1. f # NONE => fs # NONE /\ f = Len(ser)
    BY <1>9
  <2>2. q = NONE => w = <<>>
    BY <1>9
  <2>3. w = <<>> => Len(ser) = pe
    BY <1>1, <1>2
  <2>4. w # <<>> => pe < Len(ser)
    BY <1>1, <1>2, <1>5
  <2>5. q # NONE => w # <<>>
    BY <1>9
  <2> QED
    BY <1>6, <2>1, <2>2, <2>3, <2>4, <2>5
<1>11. q = NONE /\ f = NONE => Len(r) = pe
  BY <1>1, <1>2, <1>6, <1>9
<1>12. q # NONE => q = pe /\ TokenAt(r, pe, "?")
  BY <1>8, <1>9
<1>13. z \in Records /\ LaidOut(z) /\ FrontKept(z, u)
  <2>1. Kept(r, u.ser, PathEndOf(u)) /\ PathEndOf(u) = pe
    BY <1>4, <1>7 DEF pe
  <2> QED
    BY <1>6, <1>7, <1>9, <1>10, <1>11, <1>12, <2>1, TailLaid
<1>14. /\ z.ser = r /\ z.query_start = q /\ z.fragment_start = f /\ z.flags = u.flags
  BY DEF Rec
<1>15. Query(z) = IF w = <<>> THEN {} ELSE {e}
  <2>1. CASE w = <<>>
    BY <1>9, <1>14, <2>1 DEF Query
  <2>2. CASE w # <<>>
    <3>1. QueryEndOf(z) = Len(ser)
      BY <1>6, <1>9, <1>14 DEF QueryEndOf
    <3>2. PICK y \in Text : y = Upto(s, pe) /\ Len(y) = pe
      BY <1>1, <1>2, UptoTokens
    <3>3. PICK d \in Text : d = <<"?">> /\ Len(d) = 1
      <4>1. <<"?">> \in Text /\ Len(<<"?">>) = 1
        BY TokensAssumption DEF Text
      <4> QED
        BY <4>1
    <3>4. PICK x \in Text : x = y \o d /\ Len(x) = pe + 1
      <4>1. y \o d \in Text /\ Len(y \o d) = Len(y) + Len(d)
        BY JoinTokens
      <4> QED
        BY <3>2, <3>3, <4>1
    <3>5. ser = x \o e
      <4>1. ser = y \o (d \o e)
        BY <2>2, <3>2, <3>3 DEF ser
      <4> QED
        BY <3>2, <3>3, <3>4, <4>1, SMTT(30) DEF Text
    <3>6. Len(ser) = Len(x) + Len(e)
      BY <3>4, <3>5, JoinTokens
    <3>7. Kept(r, x \o e, Len(ser))
      BY <1>6, <3>5 DEF Kept
    <3>8. Slice(r, pe + 1, Len(ser)) = e
      <4>1. Len(ser) <= Len(r) /\ r \in Text
        BY <1>6
      <4>2. PICK i, j : i = pe + 1 /\ j = Len(ser)
        OBVIOUS
      <4>3. i = Len(x) /\ j = Len(x) + Len(e) /\ j <= Len(r) /\ Kept(r, x \o e, j)
        BY <3>4, <3>6, <3>7, <4>1, <4>2
      <4>4. Slice(r, i, j) = e
        <5>1. x \in Text /\ e \in Text
          OBVIOUS
        <5> QED
          BY ONLY <4>1, <4>3, <5>1, WrittenSlice
      <4> QED
        BY <4>2, <4>4
    <3> QED
      BY <1>9, <1>14, <2>2, <3>1, <3>8 DEF Query
  <2> QED
    BY <2>1, <2>2
<1>16. Fragment(z) = Fragment(u)
  <2>1. CASE fs = NONE
    BY <1>9, <1>14, <2>1 DEF Fragment, fs
  <2>2. CASE fs # NONE
    <3>1. PICK a \in Nat, l \in Nat, m \in Nat :
            /\ a = fs + 1 /\ l = Len(s) /\ m = Len(ser) /\ fs \in Nat /\ fs <= a /\ a <= l
      BY <1>1, <1>2, <2>2
    <3>2. r = ser \o From(s, fs)
      BY <1>3, <2>2
    <3>3. Slice(ser \o From(s, fs), Len(ser) + (a - fs), Len(ser) + (l - fs)) = Slice(s, a, l)
      <4>1. l <= Len(s) /\ fs \in Nat /\ s \in Text /\ ser \in Text
        BY <1>1, <1>2, <3>1
      <4>2. \A x, y \in Nat : fs <= x /\ x <= y /\ y <= Len(s) =>
              Slice(ser \o From(s, fs), Len(ser) + (x - fs), Len(ser) + (y - fs)) = Slice(s, x, y)
        BY <4>1, SliceMoves
      <4> QED
        BY <3>1, <4>1, <4>2
    <3>4. Len(r) = Len(ser) + (l - fs)
      <4>1. fs <= Len(s) /\ fs \in Nat /\ s \in Text /\ ser \in Text
        BY <1>1, <1>2, <2>2
      <4>2. Len(ser \o From(s, fs)) = Len(ser) + (Len(s) - fs)
        BY <4>1, CutTokens
      <4> QED
        BY <3>1, <3>2, <4>2
    <3>5. Slice(r, m + 1, Len(r)) = Slice(s, fs + 1, Len(s))
      <4>1. m + (a - fs) = m + 1
        BY <3>1
      <4> QED
        BY <3>1, <3>2, <3>3, <3>4, <4>1
    <3>6. From(r, m + 1) = From(s, fs + 1)
      BY <3>5 DEF Slice, From
    <3> QED
      BY <1>9, <1>14, <2>2, <3>1, <3>6 DEF Fragment, s, fs
  <2> QED
    BY <2>1, <2>2
<1>17. Gives(u, z, PutQuery(Components(u), IF w = <<>> THEN {} ELSE {e}))
  <2>1. PICK x : x = IF w = <<>> THEN {} ELSE {e}
    OBVIOUS
  <2>2. TailIs(z, Path(u), x, Fragment(u))
    BY <1>13, <1>15, <1>16, <2>1 DEF FrontKept, TailIs
  <2> HIDE DEF z
  <2>3. Gives(u, z, PutQuery(Components(u), x))
    BY <1>13, <1>14, <2>2, FrontGives DEF FrontKept
  <2> QED
    BY <2>1, <2>3
<1> QED
  BY <1>2, <1>6, <1>9, <1>13, <1>17 DEF QueryStands, q, f, s, fs, pe, ser

NewQuery(query) == IF query = {} THEN {} ELSE {EncodeQuery(Visible(CHOOSE t \in query : TRUE))}

QueryChanged(u, v, q) == /\ q = {} => Gives(u, v, Trim(PutQuery(Components(u), q)))
                         /\ q # {} => Gives(u, v, PutQuery(Components(u), q))

LEMMA SetQuerySound ==
  ASSUME NEW u \in Records, LaidOut(u),
         NEW query, query = {} \/ \E t : query = {t} /\ Visible(t) \in Text
  PROVE  LET r == SetQuery(u, query)
         IN Sound(r) /\ (Fits(r.url) => r.url = u \/ QueryChanged(u, r.url, NewQuery(query)))
<1> DEFINE fs   == u.fragment_start
           hash == IF fs = NONE THEN <<>> ELSE From(u.ser, fs)
           path == Upto(u.ser, PathEndOf(u))
           text == CHOOSE t \in query : TRUE
           e    == IF query = {} THEN <<>> ELSE EncodeQuery(Visible(text))
           w    == IF query = {} THEN <<>> ELSE <<"?">> \o EncodeQuery(Visible(text))
           ser  == path \o w
           v    == [u EXCEPT !.ser = ser, !.fragment_start = NONE,
                             !.query_start = IF query = {} THEN NONE ELSE Len(path)]
           x    == [v EXCEPT !.ser = ser \o hash, !.fragment_start = Len(ser)]
           y    == IF fs = NONE THEN v ELSE x
           r    == IF fs = NONE THEN ser ELSE ser \o From(u.ser, fs)
           pe   == PathEndOf(u)
           q    == IF w = <<>> THEN NONE ELSE pe
           f    == IF fs = NONE THEN NONE ELSE Len(ser)
           z    == Rec(r, u.scheme_end, u.username_end, u.host_start, u.host_end, u.port,
                       u.path_start, q, f, u.flags)
<1>1. \/ SetQuery(u, query) = Panic(u)
      \/ (query # {} \/ fs # NONE) /\ SetQuery(u, query) = Ok(y)
      \/ query = {} /\ fs = NONE /\ SetQuery(u, query) = Ok(StripTrailingSpaces(y))
  BY DEF SetQuery, Checked
<1>2. w \in Text /\ (w # <<>> => TokenAt(w, 0, "?")) /\ (w = <<>> <=> query = {})
      /\ e \in Text /\ (w = <<>> \/ w = <<"?">> \o e)
  <2>1. CASE query = {}
    BY <2>1 DEF Text
  <2>2. CASE query # {}
    <3>1. Visible(text) \in Text
      BY <2>2
    <3>2. /\ <<"?">> \o EncodeQuery(Visible(text)) \in Text
          /\ 0 < Len(<<"?">> \o EncodeQuery(Visible(text)))
          /\ TokenAt(<<"?">> \o EncodeQuery(Visible(text)), 0, "?")
      BY <3>1, DelimitedText
    <3>3. <<"?">> \o EncodeQuery(Visible(text)) # <<>>
      BY <3>2, EmptySeq
    <3>4. EncodeQuery(Visible(text)) \in Text
      <4>1. QuerySet \subseteq DOMAIN Encoding
        BY DEF QuerySet, Encoding
      <4> QED
        BY <3>1, <4>1, EncodeFacts DEF EncodeQuery
    <3> QED
      BY <2>2, <3>2, <3>3, <3>4
  <2> QED
    BY <2>1, <2>2
<1>7. NewQuery(query) = IF w = <<>> THEN {} ELSE {e}
  BY <1>2 DEF NewQuery
<1> HIDE DEF w, e
<1>3. y.ser = r
  BY DEF Records
<1>4. ASSUME (w = <<>> /\ fs = NONE) \/ Len(r) < U32Max
      PROVE  /\ y \in Records /\ LaidOut(y)
             /\ Gives(u, y, PutQuery(Components(u), NewQuery(query)))
  <2>1. /\ r \in Text /\ q \in Offset /\ f \in Offset /\ Len(path) = pe
        /\ z \in Records /\ LaidOut(z)
        /\ Gives(u, z, PutQuery(Components(u), NewQuery(query)))
    <3>1. r = IF u.fragment_start = NONE THEN Upto(u.ser, PathEndOf(u)) \o w
              ELSE Upto(u.ser, PathEndOf(u)) \o w \o From(u.ser, u.fragment_start)
      OBVIOUS
    <3>2. (w = <<>> /\ u.fragment_start = NONE) \/ Len(r) < U32Max
      BY <1>4
    <3> DEFINE r2 == r
    <3> HIDE DEF r2
    <3>3. r2 = r
      BY DEF r2
    <3>4. LET q2 == IF w = <<>> THEN NONE ELSE PathEndOf(u)
              f2 == IF u.fragment_start = NONE THEN NONE ELSE Len(Upto(u.ser, PathEndOf(u)) \o w)
              z2 == Rec(r2, u.scheme_end, u.username_end, u.host_start, u.host_end, u.port,
                        u.path_start, q2, f2, u.flags)
          IN /\ r2 \in Text /\ q2 \in Offset /\ f2 \in Offset
             /\ Len(Upto(u.ser, PathEndOf(u))) = PathEndOf(u)
             /\ z2 \in Records /\ LaidOut(z2)
             /\ Gives(u, z2, PutQuery(Components(u), IF w = <<>> THEN {} ELSE {e}))
      <4>1. QueryStands(u, w, e, r2)
        BY <1>2, <3>1, <3>2, <3>3, QueryWritten
      <4> QED
        BY <4>1 DEF QueryStands
    <3> QED
      BY <1>7, <3>3, <3>4
  <2>2. y = z
    <3>1. y = [u EXCEPT !.ser = r, !.query_start = q, !.fragment_start = f]
      <4>1. /\ fs = NONE => f = NONE
            /\ fs # NONE => f = Len(ser)
            /\ q = IF query = {} THEN NONE ELSE Len(path)
        BY <1>2, <2>1
      <4> HIDE DEF q, f, ser, path, pe
      <4> QED
        BY <4>1 DEF Records
    <3> HIDE DEF r, q, f, y
    <3>2. y \in Records
      BY <2>1, <3>1 DEF Records
    <3>3. /\ y.ser = r /\ y.scheme_end = u.scheme_end /\ y.username_end = u.username_end
          /\ y.host_start = u.host_start /\ y.host_end = u.host_end /\ y.port = u.port
          /\ y.path_start = u.path_start /\ y.query_start = q /\ y.fragment_start = f
          /\ y.flags = u.flags
      BY <3>1 DEF Records
    <3> QED
      BY <3>2, <3>3, FieldsOf
  <2> QED
    BY <2>1, <2>2
<1>5. ASSUME Fits(y) PROVE Len(r) < U32Max
  <2>1. r \in Text
    <3>1. /\ u.ser \in Text /\ pe \in Nat /\ pe <= Len(u.ser)
          /\ fs # NONE => fs \in Nat /\ fs <= Len(u.ser)
      <4>1. /\ pe \in Nat /\ QueryEndOf(u) \in Nat /\ pe <= QueryEndOf(u)
            /\ QueryEndOf(u) <= Len(u.ser) /\ (fs # NONE => QueryEndOf(u) = fs)
        BY TailBounds
      <4>2. u.ser \in Text /\ Len(u.ser) \in Nat
        BY Fields
      <4> HIDE DEF pe, fs
      <4> QED
        BY <4>1, <4>2
    <3>2. ser \in Text
      BY <1>2, <3>1, WrittenOn
    <3> HIDE DEF ser
    <3>3. fs # NONE => ser \o From(u.ser, fs) \in Text
      BY <3>1, <3>2, CutTokens
    <3> QED
      BY <3>2, <3>3
  <2>2. Len(r) \in Nat
    BY <2>1, LenProperties DEF Text
  <2> HIDE DEF r, y
  <2> QED
    BY <1>3, <1>5, <2>2, U32MaxAssumption DEF Fits
<1>6. query = {} => w = <<>>
  BY <1>2
<1>8. ASSUME NEW v2, Gives(u, y, PutQuery(Components(u), NewQuery(query))),
             IF query = {} /\ fs = NONE THEN Gives(y, v2, Trim(Components(y))) ELSE v2 = y
      PROVE  QueryChanged(u, v2, NewQuery(query))
  <2> DEFINE c == PutQuery(Components(u), NewQuery(query))
  <2>1. NewQuery(query) = {} <=> query = {}
    BY DEF NewQuery
  <2>2. Components(y) = c
    BY <1>8 DEF Gives
  <2>3. c.fragment = Fragment(u)
    <3>1. c.fragment = Components(u).fragment
      BY DEF PutQuery, Components
    <3> QED
      BY <3>1 DEF Components
  <2>4. fs # NONE => Trim(c) = c
    BY <2>3 DEF Trim, Fragment
  <2> HIDE DEF c, y, fs
  <2>5. CASE query = {} /\ fs = NONE
    BY <1>8, <2>1, <2>2, <2>5 DEF Gives, QueryChanged, c
  <2>6. CASE query # {}
    BY <1>8, <2>1, <2>6 DEF QueryChanged
  <2>7. CASE query = {} /\ fs # NONE
    BY <1>8, <2>1, <2>4, <2>7 DEF QueryChanged, c
  <2> QED
    BY <2>5, <2>6, <2>7
<1>9. \A a : Ok(a).url = a /\ Panic(a).url = a /\ Ok(a).outcome = "ok"
  BY DEF Ok, Panic
<1> HIDE DEF y, r, fs
<1>10. CASE SetQuery(u, query) = Panic(u)
  BY <1>9, <1>10, RefusedSound
<1>11. CASE (query # {} \/ fs # NONE) /\ SetQuery(u, query) = Ok(y)
  <2>1. ASSUME Fits(y)
        PROVE  y \in Records /\ LaidOut(y) /\ QueryChanged(u, y, NewQuery(query))
    BY <1>4, <1>5, <1>8, <1>11, <2>1
  <2> QED
    BY <1>9, <1>11, <2>1 DEF Sound
<1>12. CASE query = {} /\ fs = NONE /\ SetQuery(u, query) = Ok(StripTrailingSpaces(y))
  <2>1. y \in Records /\ LaidOut(y) /\ Gives(u, y, PutQuery(Components(u), NewQuery(query)))
    BY <1>4, <1>6, <1>12
  <2>2. PICK v2 : v2 = StripTrailingSpaces(y)
    OBVIOUS
  <2>3. v2 \in Records /\ LaidOut(v2) /\ Gives(y, v2, Trim(Components(y)))
    BY <2>1, <2>2, StripSound
  <2>4. QueryChanged(u, v2, NewQuery(query))
    BY <1>8, <1>12, <2>1, <2>3
  <2> QED
    BY <1>9, <1>12, <2>2, <2>3, <2>4 DEF Sound
<1> QED
  BY <1>1, <1>10, <1>11, <1>12

QueryValues == Option({EncodeQuery(Visible(s)) : s \in WithTails(QueryIn)})

LEMMA NewQueryIn ==
  ASSUME NEW query, query = {} \/ \E s \in WithTails(QueryIn) : query = {s}
  PROVE  NewQuery(query) \in QueryValues
<1>1. CASE query = {}
  BY <1>1 DEF NewQuery, QueryValues, Option
<1>2. CASE \E s \in WithTails(QueryIn) : query = {s}
  <2>1. PICK s \in WithTails(QueryIn) : query = {s}
    BY <1>2
  <2>2. NewQuery(query) = {EncodeQuery(Visible(s))}
    BY <2>1 DEF NewQuery
  <2> QED
    BY <2>2 DEF QueryValues, Option
<1> QED
  BY <1>1, <1>2

LEMMA SetSearchSound ==
  ASSUME NEW u \in Records, LaidOut(u), NEW text \in QueryIn
  PROVE  LET r == SetSearch(u, text)
         IN /\ Sound(r)
            /\ Fits(r.url) => r.url = u \/ \E q \in QueryValues : QueryChanged(u, r.url, q)
<1> DEFINE t == Tail(WithDelimiter(text, "?"))
<1>1. text \in Text
  BY InputAssumption
<1>2. Visible(t) \in Text /\ t \in WithTails(QueryIn)
  <2>1. CASE StartsWith(text, "?")
    <3>1. text # <<>> /\ t = Tail(text)
      BY <2>1 DEF StartsWith, WithDelimiter
    <3> QED
      BY <3>1, VisibleAssumption DEF WithTails
  <2>2. CASE ~StartsWith(text, "?")
    <3>1. t = text
      BY <1>1, <2>2 DEF WithDelimiter, Text
    <3> QED
      BY <3>1, VisibleAssumption DEF WithTails
  <2> QED
    BY <2>1, <2>2
<1> HIDE DEF t
<1>3. SetSearch(u, text) \in {Ok(u), SetQuery(u, {}), SetQuery(u, {t})}
  BY DEF SetSearch, t
<1>4. \E y : {t} = {y} /\ Visible(y) \in Text
  BY <1>2
<1>5. ASSUME NEW query \in {{}, {t}}
      PROVE  LET r == SetQuery(u, query)
             IN Sound(r) /\ (Fits(r.url) => r.url = u \/ \E q \in QueryValues : QueryChanged(u, r.url, q))
  <2>1. NewQuery(query) \in QueryValues
    BY <1>2, NewQueryIn
  <2>2. query = {} \/ \E y : query = {y} /\ Visible(y) \in Text
    BY <1>4
  <2>3. LET r == SetQuery(u, query)
        IN Sound(r) /\ (Fits(r.url) => r.url = u \/ QueryChanged(u, r.url, NewQuery(query)))
    BY <2>2, SetQuerySound
  <2> QED
    BY <2>1, <2>3
<1>6. SetSearch(u, text) = Ok(u) \/ \E query \in {{}, {t}} : SetSearch(u, text) = SetQuery(u, query)
  BY <1>3
<1> QED
  BY <1>5, <1>6, RefusedSound DEF Ok

(* A fragment w, or none, written behind the query.                        *)
FragmentStands(u, w, e) ==
  LET qe == QueryEndOf(u)
      r  == Upto(u.ser, qe) \o w
      f  == IF w = <<>> THEN NONE ELSE qe
      z  == Rec(r, u.scheme_end, u.username_end, u.host_start, u.host_end, u.port,
                u.path_start, u.query_start, f, u.flags)
  IN /\ r \in Text /\ f \in Offset /\ Len(Upto(u.ser, qe)) = qe /\ z \in Records /\ LaidOut(z)
     /\ Gives(u, z, PutFragment(Components(u), IF w = <<>> THEN {} ELSE {e}))

LEMMA FragmentWritten ==
  ASSUME NEW u \in Records, LaidOut(u), NEW w \in Text, NEW e \in Text,
         w = <<>> \/ w = <<"#">> \o e, w # <<>> => TokenAt(w, 0, "#"),
         w = <<>> \/ Len(Upto(u.ser, QueryEndOf(u)) \o w) < U32Max
  PROVE  FragmentStands(u, w, e)
<1> DEFINE s  == u.ser
           qs == u.query_start
           pe == PathEndOf(u)
           qe == QueryEndOf(u)
           r  == Upto(s, qe) \o w
           f  == IF w = <<>> THEN NONE ELSE qe
<1>1. /\ s \in Text /\ pe \in Nat /\ qe \in Nat /\ pe <= qe /\ qe <= Len(s)
      /\ Len(s) \in Nat /\ Len(w) \in Nat /\ qs \in Offset
      /\ qs # NONE => pe = qs /\ pe < qe /\ TokenAt(s, pe, "?")
      /\ qs = NONE => pe = qe
      /\ NONE = U32Max /\ U32Max \in Nat /\ NONE \in Offset
  <2>1. s \in Text /\ Len(s) \in Nat /\ Len(w) \in Nat /\ qs \in Offset
    BY Fields, LenProperties DEF Text
  <2> HIDE DEF s, qs, pe, qe
  <2> QED
    BY <2>1, TailBounds DEF s, qs, pe, qe
<1>2. Kept(r, u.ser, PathEndOf(u)) <=> Kept(r, s, pe)
  OBVIOUS
<1>3. w = <<>> \/ Len(r) < U32Max
  OBVIOUS
<1> HIDE DEF s, qs, pe, qe
<1>4. /\ r \in Text /\ Len(r) = qe + Len(w) /\ Len(Upto(s, qe)) = qe
      /\ Kept(r, s, qe)
      /\ \A t : \A k \in Nat : TokenAt(r, qe + k, t) <=> TokenAt(w, k, t)
  BY <1>1, WrittenOn
<1> HIDE DEF r
<1>5. Kept(r, s, pe) /\ pe <= Len(r)
  <2>1. \A k \in Nat : k < pe => k < qe
    BY <1>1
  <2> QED
    BY <1>1, <1>4, <2>1 DEF Kept
<1>6. qs # NONE => qs = pe /\ TokenAt(r, pe, "?")
  BY <1>1, <1>4 DEF Kept
<1>7. w # <<>> => qe < U32Max /\ qe # NONE /\ TokenAt(r, qe, "#")
  <2>1. w # <<>> => TokenAt(r, qe + 0, "#")
    BY <1>4
  <2>2. qe + 0 = qe
    BY <1>1
  <2> QED
    BY <1>1, <1>3, <1>4, <2>1, <2>2
<1>8. f \in Offset
  BY <1>1, <1>7 DEF Offset
<1>9. f # NONE => /\ TokenAt(r, f, "#")
                  /\ IF qs = NONE THEN f = pe ELSE pe < f
  BY <1>1, <1>7
<1>10. qs = NONE /\ f = NONE => Len(r) = pe
  <2>1. f = NONE => w = <<>>
    BY <1>7
  <2>2. w = <<>> => Len(r) = qe
    BY <1>1, <1>4
  <2> QED
    BY <1>1, <2>1, <2>2
<1> DEFINE z == Rec(r, u.scheme_end, u.username_end, u.host_start, u.host_end, u.port,
                    u.path_start, qs, f, u.flags)
<1> HIDE DEF f
<1>11. z \in Records /\ LaidOut(z) /\ FrontKept(z, u)
  <2>1. Kept(r, u.ser, PathEndOf(u)) /\ PathEndOf(u) = pe
    BY <1>2, <1>5 DEF pe
  <2> QED
    BY <1>1, <1>4, <1>5, <1>6, <1>8, <1>9, <1>10, <2>1, TailLaid
<1>12. /\ z.ser = r /\ z.query_start = qs /\ z.fragment_start = f /\ z.flags = u.flags
       /\ (f = NONE <=> w = <<>>) /\ (w # <<>> => f = qe)
  BY <1>7 DEF Rec, f
<1>13. Query(z) = Query(u)
  <2>1. QueryEndOf(z) = qe
    <3>1. w = <<>> => Len(r) = qe
      BY <1>1, <1>4
    <3> QED
      BY <1>12, <3>1 DEF QueryEndOf
  <2>2. ASSUME qs # NONE PROVE Slice(r, qs + 1, qe) = Slice(s, qs + 1, qe)
    <3>1. PICK a \in Nat : a = qs + 1 /\ a <= qe
      BY <1>1, <2>2
    <3>2. qe <= Len(s) /\ qe <= Len(r) /\ qe <= qe /\ Kept(r, s, qe)
      BY <1>1, <1>4
    <3>3. Slice(r, a, qe) = Slice(s, a, qe)
      BY <1>1, <1>4, <3>1, <3>2, SliceKept
    <3> QED
      BY <3>1, <3>3
  <2> QED
    BY <1>12, <2>1, <2>2 DEF Query, s, qs, qe
<1>14. Fragment(z) = IF w = <<>> THEN {} ELSE {e}
  <2>1. CASE w = <<>>
    BY <1>12, <2>1 DEF Fragment
  <2>2. CASE w # <<>>
    <3>1. PICK y \in Text : y = Upto(s, qe) /\ Len(y) = qe
      BY <1>1, <1>4, UptoTokens
    <3>2. PICK d \in Text : d = <<"#">> /\ Len(d) = 1
      <4>1. <<"#">> \in Text /\ Len(<<"#">>) = 1
        BY TokensAssumption DEF Text
      <4> QED
        BY <4>1
    <3>3. PICK x \in Text : x = y \o d /\ Len(x) = qe + 1
      <4>1. y \o d \in Text /\ Len(y \o d) = Len(y) + Len(d)
        BY JoinTokens
      <4> QED
        BY <3>1, <3>2, <4>1
    <3>4. r = x \o e
      <4>1. r = y \o (d \o e)
        BY <2>2, <3>1, <3>2 DEF r
      <4> QED
        BY <3>1, <3>2, <3>3, <4>1, SMTT(30) DEF Text
    <3>5. Len(r) = Len(x) + Len(e)
      BY <3>4, JoinTokens
    <3>6. PICK i, j : i = qe + 1 /\ j = Len(r)
      OBVIOUS
    <3>7. Slice(r, i, j) = e
      <4>1. j <= Len(r)
        BY <1>1, <1>4, <3>6
      <4>2. Kept(r, x \o e, j)
        BY <3>4 DEF Kept
      <4>3. x \in Text /\ e \in Text /\ r \in Text /\ i = Len(x) /\ j = Len(x) + Len(e)
        BY <1>4, <3>3, <3>5, <3>6
      <4> QED
        BY ONLY <4>1, <4>2, <4>3, WrittenSlice
    <3>8. From(r, qe + 1) = e
      BY <3>6, <3>7 DEF Slice, From
    <3> QED
      BY <1>12, <2>2, <3>8 DEF Fragment
  <2> QED
    BY <2>1, <2>2
<1>15. Gives(u, z, PutFragment(Components(u), IF w = <<>> THEN {} ELSE {e}))
  <2>1. PICK x : x = IF w = <<>> THEN {} ELSE {e}
    OBVIOUS
  <2>2. TailIs(z, Path(u), Query(u), x)
    BY <1>11, <1>13, <1>14, <2>1 DEF FrontKept, TailIs
  <2> HIDE DEF z
  <2>3. Gives(u, z, PutFragment(Components(u), x))
    BY <1>11, <1>12, <2>2, FrontGives DEF FrontKept
  <2> QED
    BY <2>1, <2>3
<1> QED
  BY <1>4, <1>8, <1>11, <1>15 DEF FragmentStands, f, r, s, qs, qe

NewFragment(fragment) ==
  IF fragment = {} THEN {} ELSE {EncodeFragment(Visible(CHOOSE t \in fragment : TRUE))}

FragmentChanged(u, v, f) == /\ f = {} => Gives(u, v, Trim(PutFragment(Components(u), f)))
                            /\ f # {} => Gives(u, v, PutFragment(Components(u), f))

LEMMA SetFragmentSound ==
  ASSUME NEW u \in Records, LaidOut(u),
         NEW fragment, fragment = {} \/ \E t : fragment = {t} /\ Visible(t) \in Text
  PROVE  LET r == SetFragment(u, fragment)
         IN Sound(r) /\ (Fits(r.url) => r.url = u \/ FragmentChanged(u, r.url, NewFragment(fragment)))
<1> DEFINE qe   == QueryEndOf(u)
           head == Upto(u.ser, qe)
           text == CHOOSE t \in fragment : TRUE
           w    == <<"#">> \o EncodeFragment(Visible(text))
           v    == [u EXCEPT !.ser = head, !.fragment_start = NONE]
           y    == [u EXCEPT !.ser = head \o <<"#">> \o EncodeFragment(Visible(text)),
                             !.fragment_start = Len(head)]
<1>3. \A a : Ok(a).url = a /\ Panic(a).url = a /\ Ok(a).outcome = "ok"
  BY DEF Ok, Panic
<1>1. CASE fragment = {}
  <2>1. SetFragment(u, fragment) = Ok(StripTrailingSpaces(v))
    BY <1>1 DEF SetFragment
  <2>2. <<>> \in Text
    BY DEF Text
  <2> DEFINE z == Rec(head \o <<>>, u.scheme_end, u.username_end, u.host_start, u.host_end,
                      u.port, u.path_start, u.query_start, NONE, u.flags)
  <2>3. /\ head \o <<>> \in Text /\ NONE \in Offset /\ z \in Records /\ LaidOut(z)
        /\ Gives(u, z, PutFragment(Components(u), {}))
    <3>1. FragmentStands(u, <<>>, <<>>)
      BY <2>2, FragmentWritten
    <3> QED
      BY <3>1 DEF FragmentStands
  <2>4. head \in Text /\ head \o <<>> = head
    <3>1. /\ u.ser \in Text /\ qe \in Nat /\ qe <= Len(u.ser)
      BY Fields, TailBounds
    <3>2. head \in Text
      BY <3>1, UptoTokens
    <3> HIDE DEF head
    <3> QED
      BY <3>2 DEF Text
  <2> HIDE DEF head
  <2>5. v \in Records
    BY <2>3, <2>4 DEF Records
  <2>6. /\ v.ser = head \o <<>> /\ v.scheme_end = u.scheme_end
        /\ v.username_end = u.username_end
        /\ v.host_start = u.host_start /\ v.host_end = u.host_end /\ v.port = u.port
        /\ v.path_start = u.path_start /\ v.query_start = u.query_start
        /\ v.fragment_start = NONE /\ v.flags = u.flags
    BY <2>4 DEF Records
  <2> HIDE DEF v
  <2>7. v = z
    BY <2>5, <2>6, FieldsOf
  <2>8. PICK b : b = StripTrailingSpaces(v)
    OBVIOUS
  <2>9. b \in Records /\ LaidOut(b) /\ Gives(v, b, Trim(Components(v)))
    BY <2>3, <2>7, <2>8, StripSound
  <2>10. FragmentChanged(u, b, NewFragment(fragment))
    BY <1>1, <2>3, <2>7, <2>9 DEF Gives, FragmentChanged, NewFragment
  <2> QED
    BY <1>3, <2>1, <2>8, <2>9, <2>10 DEF Sound
<1>2. CASE fragment # {}
  <2>1. SetFragment(u, fragment) \in {Panic(u), Ok(y)}
    BY <1>2 DEF SetFragment, Checked
  <2>2. SUFFICES ASSUME Fits(y)
                 PROVE  /\ y \in Records /\ LaidOut(y)
                        /\ FragmentChanged(u, y, NewFragment(fragment))
    <3> HIDE DEF y
    <3> QED
      BY <1>3, <2>1, RefusedSound DEF Sound
  <2>3. Visible(text) \in Text
    BY <1>2
  <2>4. w \in Text /\ w # <<>> /\ TokenAt(w, 0, "#")
    <3>1. w \in Text /\ 0 < Len(w) /\ TokenAt(w, 0, "#")
      BY <2>3, DelimitedText
    <3> HIDE DEF w
    <3> QED
      BY <3>1, EmptySeq
  <2>5. head \in Text /\ Len(head) = qe
    <3>1. u.ser \in Text /\ qe \in Nat /\ qe <= Len(u.ser)
      BY Fields, TailBounds
    <3> QED
      BY <3>1, UptoTokens
  <2> DEFINE r == head \o w
  <2>6. head \o <<"#">> \o EncodeFragment(Visible(text)) = r
    <3>1. <<"#">> \in Text /\ EncodeFragment(Visible(text)) \in Text
      <4>1. FragmentSet \subseteq DOMAIN Encoding
        BY DEF FragmentSet, Encoding
      <4> QED
        BY <2>3, <4>1, TokensAssumption, EncodeFacts DEF EncodeFragment, Text
    <3> HIDE DEF head
    <3> QED
      BY <2>5, <3>1 DEF Text
  <2>7. y = [u EXCEPT !.ser = r, !.fragment_start = qe]
    BY <2>5, <2>6
  <2> DEFINE e == EncodeFragment(Visible(text))
  <2>13. e \in Text /\ w = <<"#">> \o e
    <3>1. FragmentSet \subseteq DOMAIN Encoding
      BY DEF FragmentSet, Encoding
    <3> QED
      BY <2>3, <3>1, EncodeFacts DEF EncodeFragment
  <2>14. NewFragment(fragment) = {e}
    BY <1>2 DEF NewFragment
  <2> HIDE DEF w, y, e
  <2>8. r \in Text /\ Len(r) < U32Max
    <3>1. r \in Text /\ Len(r) \in Nat
      BY <2>4, <2>5, JoinTokens, LenProperties DEF Text
    <3> HIDE DEF r
    <3>2. y.ser = r
      BY <2>7 DEF Records
    <3> QED
      BY <2>2, <3>1, <3>2, U32MaxAssumption DEF Fits
  <2> DEFINE z == Rec(r, u.scheme_end, u.username_end, u.host_start, u.host_end,
                      u.port, u.path_start, u.query_start, qe, u.flags)
  <2>9. /\ qe \in Offset /\ z \in Records /\ LaidOut(z)
        /\ Gives(u, z, PutFragment(Components(u), {e}))
    <3>1. FragmentStands(u, w, e)
      BY <2>4, <2>8, <2>13, FragmentWritten
    <3> QED
      BY <2>4, <3>1 DEF FragmentStands
  <2> HIDE DEF r
  <2>10. y \in Records
    BY <2>7, <2>8, <2>9 DEF Records
  <2>11. /\ y.ser = r /\ y.scheme_end = u.scheme_end /\ y.username_end = u.username_end
         /\ y.host_start = u.host_start /\ y.host_end = u.host_end /\ y.port = u.port
         /\ y.path_start = u.path_start /\ y.query_start = u.query_start
         /\ y.fragment_start = qe /\ y.flags = u.flags
    BY <2>7 DEF Records
  <2>12. y = z
    BY <2>10, <2>11, FieldsOf
  <2>15. FragmentChanged(u, z, NewFragment(fragment))
    BY <2>9, <2>14 DEF FragmentChanged
  <2> QED
    BY <2>9, <2>12, <2>15
<1> QED
  BY <1>1, <1>2

FragmentValues == Option({EncodeFragment(Visible(s)) : s \in WithTails(FragmentIn)})

LEMMA NewFragmentIn ==
  ASSUME NEW fragment, fragment = {} \/ \E s \in WithTails(FragmentIn) : fragment = {s}
  PROVE  NewFragment(fragment) \in FragmentValues
<1>1. CASE fragment = {}
  BY <1>1 DEF NewFragment, FragmentValues, Option
<1>2. CASE \E s \in WithTails(FragmentIn) : fragment = {s}
  <2>1. PICK s \in WithTails(FragmentIn) : fragment = {s}
    BY <1>2
  <2>2. NewFragment(fragment) = {EncodeFragment(Visible(s))}
    BY <2>1 DEF NewFragment
  <2> QED
    BY <2>2 DEF FragmentValues, Option
<1> QED
  BY <1>1, <1>2

LEMMA SetHashSound ==
  ASSUME NEW u \in Records, LaidOut(u), NEW text \in FragmentIn
  PROVE  LET r == SetHash(u, text)
         IN /\ Sound(r)
            /\ Fits(r.url) => r.url = u \/ \E f \in FragmentValues : FragmentChanged(u, r.url, f)
<1> DEFINE t == Tail(WithDelimiter(text, "#"))
<1>1. text \in Text
  BY InputAssumption
<1>2. Visible(t) \in Text /\ t \in WithTails(FragmentIn)
  <2>1. CASE StartsWith(text, "#")
    <3>1. text # <<>> /\ t = Tail(text)
      BY <2>1 DEF StartsWith, WithDelimiter
    <3> QED
      BY <3>1, VisibleAssumption DEF WithTails
  <2>2. CASE ~StartsWith(text, "#")
    <3>1. t = text
      BY <1>1, <2>2 DEF WithDelimiter, Text
    <3> QED
      BY <3>1, VisibleAssumption DEF WithTails
  <2> QED
    BY <2>1, <2>2
<1> HIDE DEF t
<1>3. SetHash(u, text) \in {Ok(u), SetFragment(u, {}), SetFragment(u, {t})}
  BY DEF SetHash, t
<1>4. \E y : {t} = {y} /\ Visible(y) \in Text
  BY <1>2
<1>5. ASSUME NEW fragment \in {{}, {t}}
      PROVE  LET r == SetFragment(u, fragment)
             IN Sound(r) /\ (Fits(r.url) => r.url = u \/ \E f \in FragmentValues : FragmentChanged(u, r.url, f))
  <2>1. NewFragment(fragment) \in FragmentValues
    BY <1>2, NewFragmentIn
  <2>2. fragment = {} \/ \E y : fragment = {y} /\ Visible(y) \in Text
    BY <1>4
  <2>3. LET r == SetFragment(u, fragment)
        IN Sound(r) /\ (Fits(r.url) => r.url = u \/ FragmentChanged(u, r.url, NewFragment(fragment)))
    BY <2>2, SetFragmentSound
  <2> QED
    BY <2>1, <2>3
<1>6. SetHash(u, text) = Ok(u) \/ \E fragment \in {{}, {t}} : SetHash(u, text) = SetFragment(u, fragment)
  BY <1>3
<1> QED
  BY <1>5, <1>6, RefusedSound DEF Ok

(* set_href.                                                               *)
LEMMA SetHrefSound ==
  ASSUME NEW u \in Records, LaidOut(u), NEW text \in HrefIn
  PROVE  LET r == SetHref(u, text)
         IN Sound(r) /\ (r.url = u \/ r.url \in Parse(text))
<1>1. CASE Parse(text) = {}
  BY <1>1, RefusedSound DEF SetHref, Replaced, Err
<1>2. CASE Parse(text) # {}
  <2>1. (CHOOSE v \in Parse(text) : TRUE) \in Parse(text)
    BY <1>2
  <2> QED
    BY <1>2, <2>1, ParserAssumption, RefusedSound DEF SetHref, Replaced, Ok
<1> QED
  BY <1>1, <1>2
=============================================================================

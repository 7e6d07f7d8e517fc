-------------------------- MODULE UrlRecordProofs --------------------------
(***************************************************************************)
(* Lemmas on the offsets of a record: what moving a part of the href does  *)
(* to its layout.                                                          *)
(***************************************************************************)
EXTENDS UrlLayout, UrlTextProofs

(***************************************************************************)
(* What follows the authority moves as one block.  The lemma speaks of the *)
(* four fields it is about: the provers reason about numbers and texts     *)
(* better than about the fields of a record.                               *)
(***************************************************************************)

Part(s, p, qs, fs) ==
  [ser |-> s, path_start |-> p, query_start |-> qs, fragment_start |-> fs]

Moved(x, p, q) == IF x = NONE THEN NONE ELSE q + (x - p)

(* Where the tail of a record moved as a block, it is laid out as before.  *)
LEMMA TailMoves ==
  ASSUME NEW s \in Text, NEW r \in Text, NEW p \in Nat, NEW q \in Nat, NEW n \in Nat,
         NEW qs \in Nat, NEW fs \in Nat,
         Len(s) = p + n, Len(r) = q + n, Len(r) < U32Max,
         \A i \in 1..n : r[q + i] = s[p + i],
         Tails(Part(s, p, qs, fs))
  PROVE  LET u == Part(s, p, qs, fs)
             v == Part(r, q, Moved(qs, p, q), Moved(fs, p, q))
         IN /\ Tails(v)
            /\ v.query_start \in Offset /\ v.fragment_start \in Offset
            /\ Rooted(u) => Rooted(v)
            /\ \A t : Len(t) \in Nat => (PathBegins(v, t) <=> PathBegins(u, t))
<1> DEFINE u == Part(s, p, qs, fs)
           v == Part(r, q, Moved(qs, p, q), Moved(fs, p, q))
<1>0. U32Max \in Nat /\ NONE = U32Max
  BY U32MaxAssumption DEF NONE
<1>1. PICK qe \in Nat : qe = QueryEndOf(u)
  <2>1. QueryEndOf(u) \in Nat
    BY DEF QueryEndOf, Part
  <2> QED
    BY <2>1
<1>2. PICK pe \in Nat : pe = PathEndOf(u)
  <2>1. PathEndOf(u) \in Nat
    BY DEF PathEndOf, Part
  <2> QED
    BY <2>1
<1>3. /\ p <= pe /\ pe <= qe /\ qe <= p + n
      /\ qs # NONE => qs < qe /\ TokenAt(s, qs, "?") /\ pe = qs
      /\ fs # NONE => TokenAt(s, fs, "#") /\ qe = fs
      /\ qs = NONE => pe = qe
      /\ fs = NONE => qe = p + n
  BY <1>1, <1>2 DEF Tails, Part, PathEndOf, QueryEndOf
<1> DEFINE qs1 == Moved(qs, p, q)
           fs1 == Moved(fs, p, q)
<1>4. /\ qs1 \in Nat /\ fs1 \in Nat /\ qs1 <= U32Max /\ fs1 <= U32Max
      /\ qs # NONE => qs1 = q + (pe - p) /\ qs1 # NONE
      /\ fs # NONE => fs1 = q + (qe - p) /\ fs1 # NONE
      /\ qs = NONE => qs1 = NONE
      /\ fs = NONE => fs1 = NONE
  BY <1>0, <1>3 DEF Moved
<1> HIDE DEF qs1, fs1
<1>11. /\ v.ser = r /\ v.path_start = q /\ v.query_start = qs1 /\ v.fragment_start = fs1
  BY DEF Part, qs1, fs1
<1>5. /\ QueryEndOf(v) = q + (qe - p)
      /\ PathEndOf(v) = q + (pe - p)
  <2> HIDE DEF v
  <2>1. QueryEndOf(v) = q + (qe - p)
    BY <1>3, <1>4, <1>11 DEF QueryEndOf
  <2>2. CASE qs = NONE
    BY <1>3, <1>4, <1>11, <2>1, <2>2 DEF PathEndOf
  <2>3. CASE qs # NONE
    BY <1>3, <1>4, <1>11, <2>1, <2>3 DEF PathEndOf
  <2> QED
    BY <2>1, <2>2, <2>3
<1>6. \A t : \A k \in p..p + n : TokenAt(r, q + (k - p), t) <=> TokenAt(s, k, t)
  <2> TAKE t
  <2> TAKE k \in p..p + n
  <2>1. PICK i \in 0..n : k = p + i
    <3>1. k - p \in 0..n /\ k = p + (k - p)
      OBVIOUS
    <3> QED
      BY <3>1
  <2>2. ASSUME i < n PROVE r[(q + i) + 1] = s[(p + i) + 1]
    <3>1. i + 1 \in 1..n /\ (q + i) + 1 = q + (i + 1) /\ (p + i) + 1 = p + (i + 1)
      BY <2>2
    <3>2. r[q + (i + 1)] = s[p + (i + 1)]
      BY <3>1
    <3> QED
      BY <3>1, <3>2
  <2> QED
    BY <2>1, <2>2 DEF TokenAt
<1>7. Tails(v)
  <2> HIDE DEF v
  <2>1. qs # NONE => qs \in p..p + n /\ qs1 = q + (qs - p) /\ TokenAt(r, qs1, "?")
    BY <1>3, <1>4, <1>6
  <2>2. fs # NONE => fs \in p..p + n /\ fs1 = q + (fs - p) /\ TokenAt(r, fs1, "#")
    BY <1>3, <1>4, <1>6
  <2>3. q <= q + (pe - p) /\ q + (pe - p) <= q + (qe - p) /\ q + (qe - p) <= q + n
    BY <1>3
  <2>4. (qs1 # NONE => qs # NONE) /\ (fs1 # NONE => fs # NONE)
    BY <1>4
  <2> QED
    BY <1>3, <1>4, <1>5, <1>11, <2>1, <2>2, <2>3, <2>4 DEF Tails
<1>8. Rooted(u) => Rooted(v)
  <2>1. TokenAt(r, q, "/") <=> TokenAt(s, p, "/")
    <3>1. p \in p..p + n /\ q + (p - p) = q
      OBVIOUS
    <3> QED
      BY <1>6, <3>1
  <2>2. q = q + (pe - p) <=> p = pe
    BY <1>3
  <2> QED
    BY <1>2, <1>5, <2>1, <2>2 DEF Rooted, Part
<1>9. ASSUME NEW t, Len(t) \in Nat
      PROVE  PathBegins(v, t) <=> PathBegins(u, t)
  <2>1. q + Len(t) <= q + (pe - p) <=> p + Len(t) <= pe
    BY <1>3, <1>9
  <2>2. ASSUME p + Len(t) <= pe, NEW i \in 1..Len(t)
        PROVE  r[q + i] = s[p + i]
    <3>1. i \in 1..n
      BY <1>3, <1>9, <2>2
    <3> QED
      BY <3>1
  <2>3. p + Len(t) <= pe => p + Len(t) <= Len(s) /\ q + Len(t) <= Len(r)
    BY <1>3, <1>9
  <2> QED
    BY <1>2, <1>5, <2>1, <2>2, <2>3 DEF PathBegins, TextAt, Part
<1> QED
  BY <1>4, <1>7, <1>8, <1>9 DEF Part, Offset, qs1, fs1

(* The same for an href rebuilt from a new head h and the old text behind  *)
(* an offset b at or before the path.                                      *)
LEMMA CutTail ==
  ASSUME NEW s \in Text, NEW h \in Text, NEW b \in Nat, NEW p \in Nat,
         NEW qs \in Nat, NEW fs \in Nat,
         b <= p, Tails(Part(s, p, qs, fs)), Len(h \o From(s, b)) < U32Max
  PROVE  LET u == Part(s, p, qs, fs)
             q == Len(h) + (p - b)
             v == Part(h \o From(s, b), q, Moved(qs, p, q), Moved(fs, p, q))
         IN /\ p <= Len(s) /\ Len(s) \in Nat /\ Len(h) \in Nat /\ q \in Nat /\ q < U32Max
            /\ Tails(v)
            /\ v.query_start \in Offset /\ v.fragment_start \in Offset
            /\ Rooted(u) => Rooted(v)
            /\ \A t : Len(t) \in Nat => (PathBegins(v, t) <=> PathBegins(u, t))
<1>1. PICK n \in Nat : Len(s) = p + n
  <2>1. Len(s) \in Nat
    BY LenProperties DEF Text
  <2>2. p <= Len(s)
    <3>1. PathEndOf(Part(s, p, qs, fs)) \in Nat /\ QueryEndOf(Part(s, p, qs, fs)) \in Nat
      BY <2>1 DEF PathEndOf, QueryEndOf, Part
    <3>2. /\ p <= PathEndOf(Part(s, p, qs, fs))
          /\ PathEndOf(Part(s, p, qs, fs)) <= QueryEndOf(Part(s, p, qs, fs))
          /\ QueryEndOf(Part(s, p, qs, fs)) <= Len(s)
      BY DEF Tails, Part
    <3> QED
      BY <2>1, <3>1, <3>2
  <2>3. Len(s) - p \in Nat /\ Len(s) = p + (Len(s) - p)
    BY <2>1, <2>2
  <2> QED
    BY <2>3
<1>2. PICK m \in Nat : m = Len(h)
  BY LenProperties DEF Text
<1>3. PICK c \in Nat : p = b + c
  <2>1. p - b \in Nat /\ p = b + (p - b)
    OBVIOUS
  <2> QED
    BY <2>1
<1>4. PICK r \in Text : r = h \o From(s, b)
  <2>1. b \in 0..Len(s)
    BY <1>1
  <2> QED
    BY <2>1, CutFacts
<1>5. Len(r) = m + (c + n) /\ \A i \in 1..c + n : r[m + i] = s[b + i]
  <2>1. b \in 0..Len(s) /\ Len(s) - b = c + n
    BY <1>1, <1>3
  <2>2. /\ Len(h \o From(s, b)) = Len(h) + (Len(s) - b)
        /\ \A i \in 1..Len(s) - b : (h \o From(s, b))[Len(h) + i] = s[b + i]
    BY <2>1, CutFacts
  <2> QED
    BY <1>2, <1>4, <2>1, <2>2
<1>6. \A i \in 1..n : r[(m + c) + i] = s[p + i]
  <2> TAKE i \in 1..n
  <2>1. c + i \in 1..c + n /\ (m + c) + i = m + (c + i) /\ p + i = b + (c + i)
    BY <1>3
  <2>2. r[m + (c + i)] = s[b + (c + i)]
    BY <1>5, <2>1
  <2> QED
    BY <2>1, <2>2
<1>7. Len(r) = (m + c) + n /\ m + c \in Nat /\ Len(h) + (p - b) = m + c
  BY <1>2, <1>3, <1>5
<1>8. Len(r) < U32Max
  BY <1>4
<1>9. LET u == Part(s, p, qs, fs)
          v == Part(r, m + c, Moved(qs, p, m + c), Moved(fs, p, m + c))
      IN /\ Tails(v)
         /\ v.query_start \in Offset /\ v.fragment_start \in Offset
         /\ Rooted(u) => Rooted(v)
         /\ \A t : Len(t) \in Nat => (PathBegins(v, t) <=> PathBegins(u, t))
  BY <1>1, <1>6, <1>7, <1>8, TailMoves
<1>10. p <= Len(s) /\ Len(s) \in Nat /\ Len(h) \in Nat /\ m + c < U32Max
  BY <1>1, <1>2, <1>7, <1>8, U32MaxAssumption
<1> QED
  BY <1>4, <1>7, <1>9, <1>10

(***************************************************************************)
(* Where an href is rebuilt in front of its path, path, query and fragment *)
(* are the texts they were.                                                *)
(***************************************************************************)
SameTail(v, u) == Path(v) = Path(u) /\ Query(v) = Query(u) /\ Fragment(v) = Fragment(u)

LEMMA TailText ==
  ASSUME NEW s \in Text, NEW h \in Text, NEW b \in Nat, NEW p \in Nat,
         NEW qs \in Nat, NEW fs \in Nat, b <= p, Tails(Part(s, p, qs, fs)),
         NEW q, q = Len(h) + (p - b), Len(h \o From(s, b)) < U32Max,
         NEW qs2, qs2 = Moved(qs, p, q), NEW fs2, fs2 = Moved(fs, p, q)
  PROVE  SameTail(Part(h \o From(s, b), q, qs2, fs2), Part(s, p, qs, fs))
<1> DEFINE u == Part(s, p, qs, fs)
           v == Part(h \o From(s, b), q, Moved(qs, p, q), Moved(fs, p, q))
<1>0. U32Max \in Nat /\ NONE = U32Max
  BY U32MaxAssumption DEF NONE
<1>1. PICK m \in Nat, n \in Nat : m = Len(h) /\ n = Len(s)
  BY LenProperties DEF Text
<1>2. PICK qe \in Nat, pe \in Nat : qe = QueryEndOf(u) /\ pe = PathEndOf(u)
  <2>1. QueryEndOf(u) \in Nat /\ PathEndOf(u) \in Nat
    BY <1>1 DEF QueryEndOf, PathEndOf, Part
  <2> QED
    BY <2>1
<1>3. /\ p <= pe /\ pe <= qe /\ qe <= n
      /\ qs # NONE => qs < qe /\ pe = qs
      /\ fs # NONE => qe = fs /\ fs < n
      /\ qs = NONE => pe = qe
      /\ fs = NONE => qe = n
  BY <1>1, <1>2 DEF Tails, Part, PathEndOf, QueryEndOf, TokenAt
<1>4. PICK r \in Text : r = h \o From(s, b)
  <2>1. b <= Len(s)
    BY <1>1, <1>3
  <2> QED
    BY <2>1, CutTokens
<1>5. Len(r) = m + (n - b) /\ Len(r) < U32Max
  <2>1. b <= Len(s)
    BY <1>1, <1>3
  <2> QED
    BY <1>1, <1>4, <2>1, CutTokens
<1> DEFINE qs1 == Moved(qs, p, q)
           fs1 == Moved(fs, p, q)
           at(x) == m + (x - b)
<1>6. /\ q = at(p)
      /\ qs # NONE => qs1 = at(qs) /\ qs1 # NONE
      /\ fs # NONE => fs1 = at(fs) /\ fs1 # NONE
      /\ qs = NONE => qs1 = NONE
      /\ fs = NONE => fs1 = NONE
  <2>1. q = at(p)
    BY <1>1
  <2>6. m + (n - b) < U32Max
    BY <1>5
  <2>2. ASSUME NEW x \in p..n - 1, x # NONE
        PROVE  Moved(x, p, q) = at(x) /\ at(x) # NONE
    <3>1. Moved(x, p, q) = q + (x - p)
      BY <2>2 DEF Moved
    <3>2. q + (x - p) = m + (x - b)
      BY <2>1
    <3>3. m + (x - b) < U32Max /\ m + (x - b) \in Int
      BY <1>0, <2>6
    <3> QED
      BY <1>0, <3>1, <3>2, <3>3
  <2>3. \A x \in p..n - 1 : x # NONE => Moved(x, p, q) = at(x) /\ Moved(x, p, q) # NONE
    BY <2>2
  <2>4. Moved(NONE, p, q) = NONE
    BY DEF Moved
  <2>5. (qs # NONE => qs \in p..n - 1) /\ (fs # NONE => fs \in p..n - 1)
    BY <1>0, <1>1, <1>3
  <2> QED
    BY <2>1, <2>3, <2>4, <2>5 DEF qs1, fs1
<1> HIDE DEF qs1, fs1
<1>7. Len(r) = at(n) /\ at(qe) \in Nat /\ at(pe) \in Nat
  BY <1>3, <1>5
<1>8. QueryEndOf(v) = at(qe) /\ PathEndOf(v) = at(pe)
  BY <1>3, <1>4, <1>6, <1>7 DEF QueryEndOf, PathEndOf, Part, qs1, fs1
<1>9. \A x, y \in Nat : b <= x /\ x <= y /\ y <= n => Slice(r, at(x), at(y)) = Slice(s, x, y)
  BY <1>1, <1>4, SliceMoves
<1>10. Path(v) = Path(u)
  <2>1. Slice(r, at(p), at(pe)) = Slice(s, p, pe)
    BY <1>3, <1>9
  <2> QED
    BY <1>2, <1>4, <1>6, <1>8, <2>1 DEF Path, Part
<1>11. Query(v) = Query(u)
  <2>1. ASSUME qs # NONE
        PROVE  Slice(r, qs1 + 1, at(qe)) = Slice(s, qs + 1, qe)
    <3>1. qs + 1 \in Nat /\ b <= qs + 1 /\ qs + 1 <= qe /\ qs1 + 1 = at(qs + 1)
      BY <1>3, <1>6, <2>1
    <3> QED
      BY <1>3, <1>9, <3>1
  <2> QED
    BY <1>2, <1>4, <1>6, <1>8, <2>1 DEF Query, Part, qs1
<1>12. Fragment(v) = Fragment(u)
  <2>1. ASSUME fs # NONE
        PROVE  Slice(r, fs1 + 1, Len(r)) = Slice(s, fs + 1, Len(s))
    <3>1. fs + 1 \in Nat /\ b <= fs + 1 /\ fs + 1 <= n /\ fs1 + 1 = at(fs + 1) /\ n <= n
      BY <1>3, <1>6, <2>1
    <3>2. Slice(r, at(fs + 1), at(n)) = Slice(s, fs + 1, n)
      BY <1>9, <3>1
    <3> HIDE DEF at
    <3> QED
      BY <1>1, <1>7, <3>1, <3>2
  <2> QED
    BY <1>4, <1>6, <2>1 DEF Fragment, Part, From, Slice, fs1
<1> QED
  BY <1>10, <1>11, <1>12 DEF SameTail

(***************************************************************************)
(* Records by their fields.                                                *)
(***************************************************************************)

Rec(s, se, ue, hs, he, pt, ps, qs, fs, fl) ==
  [ser |-> s, scheme_end |-> se, username_end |-> ue, host_start |-> hs, host_end |-> he,
   port |-> pt, path_start |-> ps, query_start |-> qs, fragment_start |-> fs, flags |-> fl]

LEMMA RecordShape ==
  ASSUME NEW u \in Records
  PROVE  /\ u = Rec(u.ser, u.scheme_end, u.username_end, u.host_start, u.host_end, u.port,
                    u.path_start, u.query_start, u.fragment_start, u.flags)
         /\ u.ser \in Text /\ u.port \in 0..NoPort /\ u.flags \in SUBSET FlagNames
         /\ u.scheme_end \in Offset /\ u.username_end \in Offset /\ u.host_start \in Offset
         /\ u.host_end \in Offset /\ u.path_start \in Offset /\ u.query_start \in Offset
         /\ u.fragment_start \in Offset
BY DEF Records, Rec

LEMMA RecordOf ==
  ASSUME NEW s \in Text, NEW se \in Offset, NEW ue \in Offset, NEW hs \in Offset,
         NEW he \in Offset, NEW pt \in 0..NoPort, NEW ps \in Offset, NEW qs \in Offset,
         NEW fs \in Offset, NEW fl \in SUBSET FlagNames
  PROVE  Rec(s, se, ue, hs, he, pt, ps, qs, fs, fl) \in Records
BY DEF Records, Rec

LEMMA FieldsOf ==
  ASSUME NEW v \in Records, NEW s, NEW se, NEW ue, NEW hs, NEW he, NEW pt, NEW ps, NEW qs,
         NEW fs, NEW fl,
         v.ser = s, v.scheme_end = se, v.username_end = ue, v.host_start = hs,
         v.host_end = he, v.port = pt, v.path_start = ps, v.query_start = qs,
         v.fragment_start = fs, v.flags = fl
  PROVE  v = Rec(s, se, ue, hs, he, pt, ps, qs, fs, fl)
BY RecordShape

(* scheme "://" userinfo host port, without what follows.                  *)
UserinfoAt(s, se, ue, hs) ==
  \/ hs = se + 3 /\ ue = hs
  \/ ue > se + 3 /\ hs = ue + 1 /\ TokenAt(s, ue, "@")
  \/ ue >= se + 3 /\ hs >= ue + 3 /\ TokenAt(s, ue, ":") /\ TokenAt(s, hs - 1, "@")

HostAt(s, hs, he, pt, ps) ==
  /\ ~TokenAt(s, hs, "@") /\ ~TokenAt(s, hs, ":")
  /\ hs <= he
  /\ ps = he + Len(PortSuffix(pt))
  /\ TextAt(s, he, PortSuffix(pt))

AuthorityAt(s, se, ue, hs, he, pt, ps) ==
  /\ TokenAt(s, se + 1, "/") /\ TokenAt(s, se + 2, "/")
  /\ UserinfoAt(s, se, ue, hs)
  /\ HostAt(s, hs, he, pt, ps)

NoAuthorityAt(s, se, ue, hs, he, pt, ps, qs, fs, fl) ==
  /\ ~IsSpecial(Upto(s, se))
  /\ ue = se + 1 /\ hs = se + 1 /\ he = se + 1
  /\ pt = NoPort
  /\ "HAS_EMPTY_HOST" \notin fl
  /\ \/ "OPAQUE_PATH" \in fl /\ ps = se + 1
     \/ /\ "OPAQUE_PATH" \notin fl /\ ps = se + 1 /\ Rooted(Part(s, ps, qs, fs))
        /\ ~PathBegins(Part(s, ps, qs, fs), <<"/", "/">>)
        /\ ~PathBegins(Part(s, ps, qs, fs), <<"/", ".", "/">>)
     \/ /\ "OPAQUE_PATH" \notin fl /\ ps = se + 3 /\ TextAt(s, se + 1, <<"/", ".">>)
        /\ PathBegins(Part(s, ps, qs, fs), <<"/", "/">>)

LEMMA LaidOutFields ==
  ASSUME NEW s, NEW se, NEW ue, NEW hs, NEW he, NEW pt, NEW ps, NEW qs, NEW fs, NEW fl
  PROVE  LaidOut(Rec(s, se, ue, hs, he, pt, ps, qs, fs, fl)) <=>
           /\ se > 0 /\ TokenAt(s, se, ":") /\ Tails(Part(s, ps, qs, fs))
           /\ \/ /\ "OPAQUE_PATH" \notin fl
                 /\ AuthorityAt(s, se, ue, hs, he, pt, ps)
                 /\ Rooted(Part(s, ps, qs, fs))
              \/ NoAuthorityAt(s, se, ue, hs, he, pt, ps, qs, fs, fl)
<1> DEFINE u == Rec(s, se, ue, hs, he, pt, ps, qs, fs, fl)
           w == Part(s, ps, qs, fs)
<1>1. /\ Tails(u) <=> Tails(w)
      /\ Rooted(u) <=> Rooted(w)
      /\ \A t : PathBegins(u, t) <=> PathBegins(w, t)
  BY DEF Tails, Rooted, PathBegins, PathEndOf, QueryEndOf, Rec, Part
<1>2. WithAuthority(u) <=> /\ "OPAQUE_PATH" \notin fl
                           /\ AuthorityAt(s, se, ue, hs, he, pt, ps)
                           /\ Rooted(w)
  BY <1>1 DEF WithAuthority, CannotBeABase, HasAuthority, Userinfo, AuthorityAt, HostAt,
              UserinfoAt, Rec
<1>3. WithoutAuthority(u) /\ (OpaqueShape(u) \/ PlainShape(u) \/ MarkerShape(u))
        <=> NoAuthorityAt(s, se, ue, hs, he, pt, ps, qs, fs, fl)
  BY <1>1 DEF WithoutAuthority, OpaqueShape, PlainShape, MarkerShape, CannotBeABase, Scheme,
              NoAuthorityAt, Rec
<1> QED
  BY <1>1, <1>2, <1>3 DEF LaidOut, Rec

(***************************************************************************)
(* An href rebuilt in front of its path: the setters' arithmetic moves the *)
(* offsets as the text moved.                                              *)
(***************************************************************************)

LEMMA Rebuilt ==
  ASSUME NEW s \in Text, NEW h \in Text, NEW b \in Nat, NEW p \in Nat,
         NEW qs \in Offset, NEW fs \in Offset,
         b <= p, Tails(Part(s, p, qs, fs)), Len(h \o From(s, b)) < U32Max
  PROVE  LET r == h \o From(s, b)
             a(x) == Adjust(x, b, Len(h))
             o(x) == AdjustOpt(x, b, Len(h))
         IN /\ r \in Text /\ p <= Len(s) /\ Len(s) \in Nat /\ Len(h) \in Nat
            /\ Len(r) = Len(h) + (Len(s) - b)
            /\ \A x \in b..p : a(x) = Len(h) + (x - b) /\ a(x) \in Offset
            /\ a(p) = Len(h) + (p - b) /\ a(p) \in Offset
            /\ o(qs) \in Offset /\ o(fs) \in Offset
            /\ o(qs) = Moved(qs, p, a(p)) /\ o(fs) = Moved(fs, p, a(p))
            /\ Tails(Part(r, a(p), o(qs), o(fs)))
            /\ Rooted(Part(s, p, qs, fs)) => Rooted(Part(r, a(p), o(qs), o(fs)))
            /\ \A t : Len(t) \in Nat =>
                 (PathBegins(Part(r, a(p), o(qs), o(fs)), t) <=> PathBegins(Part(s, p, qs, fs), t))
<1> DEFINE r == h \o From(s, b)
           q == Len(h) + (p - b)
<1>1. U32Max \in Nat /\ NONE = U32Max /\ qs \in Nat /\ fs \in Nat
  BY U32MaxAssumption DEF NONE, Offset
<1>2. LET u == Part(s, p, qs, fs)
          v == Part(r, q, Moved(qs, p, q), Moved(fs, p, q))
      IN /\ p <= Len(s) /\ Len(s) \in Nat /\ Len(h) \in Nat /\ q \in Nat /\ q < U32Max
         /\ Tails(v)
         /\ v.query_start \in Offset /\ v.fragment_start \in Offset
         /\ Rooted(u) => Rooted(v)
         /\ \A t : Len(t) \in Nat => (PathBegins(v, t) <=> PathBegins(u, t))
  BY <1>1, CutTail
<1>3. PICK m \in Nat, n \in Nat : m = Len(h) /\ n = Len(s)
  BY <1>2
<1>4. r \in Text /\ Len(r) = m + (n - b)
  <2>1. b <= Len(s)
    BY <1>2, <1>3
  <2> QED
    BY <1>3, <2>1, CutTokens
<1>5. \A x \in b..n : Adjust(x, b, m) = m + (x - b) /\ Adjust(x, b, m) \in Offset
  <2> TAKE x \in b..n
  <2>1. (x \in Nat /\ b <= x /\ (x - b) + m <= U32Max /\ (x - b) + m = m + (x - b) /\ x <= U32Max) \/ x > U32Max
    BY <1>1, <1>2, <1>3, <1>4
  <2>2. Adjust(x, b, m) = (x - b) + m
    BY <1>1, <1>3, <1>4, U32MaxAssumption DEF Adjust, WrapSub, WrapAdd
  <2> QED
    BY <1>1, <1>3, <1>4, <2>2 DEF Offset
<1>6. ASSUME NEW x \in Nat, x # NONE => x \in p..n
      PROVE  AdjustOpt(x, b, m) = Moved(x, p, q)
  <2>1. CASE x = NONE
    BY <2>1 DEF AdjustOpt, Moved
  <2>2. CASE x # NONE
    <3>1. x \in b..n /\ m + (x - b) = (m + (p - b)) + (x - p)
      BY <1>2, <1>3, <1>6, <2>2
    <3> QED
      BY <1>3, <1>5, <2>2, <3>1 DEF AdjustOpt, Moved
  <2> QED
    BY <2>1, <2>2
<1>7. (qs # NONE => qs \in p..n) /\ (fs # NONE => fs \in p..n)
  BY <1>1, <1>2, <1>3 DEF Tails, Part, PathEndOf, QueryEndOf
<1>8. AdjustOpt(qs, b, m) = Moved(qs, p, q) /\ AdjustOpt(fs, b, m) = Moved(fs, p, q)
  BY <1>1, <1>6, <1>7
<1>9. Adjust(p, b, m) = q /\ q \in Offset
  BY <1>1, <1>2, <1>3, <1>5 DEF Offset
<1>10. \A x \in b..p : Adjust(x, b, m) = m + (x - b) /\ Adjust(x, b, m) \in Offset
  BY <1>2, <1>3, <1>5
<1> QED
  BY <1>2, <1>3, <1>4, <1>8, <1>9, <1>10 DEF Part
=============================================================================

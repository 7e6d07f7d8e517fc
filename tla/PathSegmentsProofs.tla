------------------------- MODULE PathSegmentsProofs -------------------------
(***************************************************************************)
(* The path segment guard and the setters leave a URL that is laid out,    *)
(* whatever is edited in between, and the guard edits nothing but the      *)
(* path: for every set of inputs and segments, as long as the URL stays    *)
(* below the limit of u32.                                                 *)
(***************************************************************************)
EXTENDS PathSegments, UrlLayoutProofs

(* Joining is associative.                                                 *)
LEMMA JoinAgain ==
  ASSUME NEW x \in Text, NEW y \in Text, NEW z \in Text
  PROVE  (x \o y) \o z = x \o (y \o z)
BY ConcatAssociative DEF Text

-----------------------------------------------------------------------------
(* The record a drop would leave.                                          *)

LEMMA Restored ==
  ASSUME NEW u \in Records, NEW g
  PROVE  RestoreAfterPath(u, g)
           = Rec(u.ser \o g.tail, u.scheme_end, u.username_end, u.host_start, u.host_end,
                 u.port, u.path_start, AdjustOpt(u.query_start, g.old, Len(u.ser)),
                 AdjustOpt(u.fragment_start, g.old, Len(u.ser)), u.flags)
<1> DEFINE r == u.ser \o g.tail
           n == Len(u.ser)
           q == AdjustOpt(u.query_start, g.old, n)
           f == AdjustOpt(u.fragment_start, g.old, n)
<1>1. PICK v : v = [u EXCEPT !.ser = r]
  OBVIOUS
<1>2. u = Rec(u.ser, u.scheme_end, u.username_end, u.host_start, u.host_end, u.port,
              u.path_start, u.query_start, u.fragment_start, u.flags)
  BY RecordShape
<1>3. v = Rec(r, u.scheme_end, u.username_end, u.host_start, u.host_end, u.port,
              u.path_start, u.query_start, u.fragment_start, u.flags)
  <2> HIDE DEF r
  <2> QED
    BY <1>1, <1>2 DEF Rec
<1>4. v.query_start = u.query_start /\ v.fragment_start = u.fragment_start
  BY <1>3 DEF Rec
<1>5. RestoreAfterPath(u, g) = [v EXCEPT !.query_start = q, !.fragment_start = f]
  BY <1>1, <1>4, Zenon DEF RestoreAfterPath, MoveQueryAndFragment
<1> HIDE DEF r, n, q, f
<1>6. PICK w : w = [v EXCEPT !.query_start = q]
  OBVIOUS
<1>7. w = Rec(r, u.scheme_end, u.username_end, u.host_start, u.host_end, u.port,
              u.path_start, q, u.fragment_start, u.flags)
  BY <1>3, <1>6 DEF Rec
<1>8. [v EXCEPT !.query_start = q, !.fragment_start = f] = [w EXCEPT !.fragment_start = f]
  BY <1>6
<1>9. [w EXCEPT !.fragment_start = f]
        = Rec(r, u.scheme_end, u.username_end, u.host_start, u.host_end, u.port,
              u.path_start, q, f, u.flags)
  BY <1>7 DEF Rec
<1> QED
  BY <1>5, <1>8, <1>9 DEF r, n, q, f

(* An offset behind the path that is moved twice.                          *)
LEMMA MovedTwice ==
  ASSUME NEW x \in Nat, NEW old \in Nat, NEW k \in Nat, NEW n \in Nat, NEW m \in Nat,
         x <= U32Max, x # NONE => old <= x /\ x - old <= k, n + k < U32Max, m + k < U32Max
  PROVE  /\ AdjustOpt(AdjustOpt(x, old, n), n, m) = AdjustOpt(x, old, m)
         /\ AdjustOpt(x, old, n) \in Offset
         /\ x # NONE => /\ AdjustOpt(x, old, n) = (x - old) + n
                        /\ AdjustOpt(x, old, n) # NONE
         /\ x = NONE => AdjustOpt(x, old, n) = NONE
<1>1. U32Max \in Nat /\ NONE = U32Max
  BY U32MaxAssumption DEF NONE
<1>2. CASE x = NONE
  BY <1>1, <1>2 DEF AdjustOpt, Offset
<1>3. CASE x # NONE
  <2>1. PICK d \in Nat : x = old + d /\ d <= k
    <3>1. x - old \in Nat /\ x = old + (x - old)
      BY <1>3
    <3> QED
      BY <1>3, <3>1
  <2>2. Adjust(x, old, n) = d + n /\ Adjust(x, old, m) = d + m
    <3>1. old <= x /\ x - old = d /\ d + n <= U32Max /\ d + m <= U32Max
      BY <1>1, <2>1
    <3>2. Adjust(x, old, n) = (x - old) + n
      BY <3>1, AdjustFacts
    <3>3. Adjust(x, old, m) = (x - old) + m
      BY <3>1, AdjustFacts
    <3> QED
      BY <3>1, <3>2, <3>3
  <2>3. Adjust(d + n, n, m) = d + m
    <3>1. d + n \in Nat /\ n <= d + n /\ d + n <= U32Max /\ ((d + n) - n) + m <= U32Max
          /\ ((d + n) - n) + m = d + m
      BY <1>1, <2>1
    <3> QED
      BY <3>1, AdjustFacts
  <2>4. d + n # NONE /\ d + n \in Offset /\ d + n = (x - old) + n
    BY <1>1, <2>1 DEF Offset
  <2> QED
    BY <1>3, <2>2, <2>3, <2>4 DEF AdjustOpt
<1> QED
  BY <1>2, <1>3
-----------------------------------------------------------------------------
(* What holds of a URL between two calls, and while the guard is open of   *)
(* the URL a drop would leave.                                             *)

Good(u) == /\ u \in Records /\ LaidOut(u) /\ Coherent(u)
           /\ CannotBeABase(u) \/ NoDotFirst(Path(u))

GuardOf(first, tail, old) == [first |-> first, tail |-> tail, old |-> old]

Held(u, g) ==
  /\ u \in Records /\ ~CannotBeABase(u)
  /\ g = GuardOf(g.first, g.tail, g.old) /\ g.tail \in Text /\ g.old \in Nat
  /\ u.query_start # NONE =>
       g.old <= u.query_start /\ u.query_start - g.old <= Len(g.tail)
  /\ u.fragment_start # NONE =>
       g.old <= u.fragment_start /\ u.fragment_start - g.old <= Len(g.tail)
  /\ Good(RestoreAfterPath(u, g))
  /\ PathEndOf(RestoreAfterPath(u, g)) = Len(u.ser)
  /\ g.first = u.path_start + (IF TokenAt(u.ser, u.path_start, "/") THEN 1 ELSE 0)

GoodPath(p)  == PathWord(p) /\ NoDotFirst(p) /\ ~Has(p, {"?", "#"})
Slashed(p)   == TokenAt(p, 0, "/") /\ TokenAt(p, 1, "/")
PathText(u)  == From(u.ser, u.path_start)
Parts0(u, g) == [ser |-> u.ser, start |-> u.path_start, first |-> g.first]

(* The open guard's text is a head and the path.                           *)
HeldShape(u, w) ==
  /\ u.path_start \in Nat /\ u.path_start <= Len(u.ser) /\ u.scheme_end \in Nat
  /\ PathText(u) \in Text /\ Path(w) = PathText(u)
  /\ Len(PathText(u)) = Len(u.ser) - u.path_start
  /\ \A t : \A k \in Nat : TokenAt(PathText(u), k, t) <=> TokenAt(u.ser, u.path_start + k, t)
  /\ Kept(w.ser, u.ser, Len(u.ser))

LEMMA HeldFields ==
  ASSUME NEW u \in Records, NEW g, NEW w, w = RestoreAfterPath(u, g)
  PROVE  /\ w.ser = u.ser \o g.tail /\ w.scheme_end = u.scheme_end
         /\ w.username_end = u.username_end /\ w.host_start = u.host_start
         /\ w.host_end = u.host_end /\ w.port = u.port /\ w.path_start = u.path_start
         /\ w.query_start = AdjustOpt(u.query_start, g.old, Len(u.ser))
         /\ w.fragment_start = AdjustOpt(u.fragment_start, g.old, Len(u.ser))
         /\ w.flags = u.flags
<1>1. PICK r, q, f : /\ r = u.ser \o g.tail
                     /\ q = AdjustOpt(u.query_start, g.old, Len(u.ser))
                     /\ f = AdjustOpt(u.fragment_start, g.old, Len(u.ser))
  OBVIOUS
<1>2. w = Rec(r, u.scheme_end, u.username_end, u.host_start, u.host_end,
              u.port, u.path_start, q, f, u.flags)
  BY <1>1, Restored
<1>3. /\ w.ser = r /\ w.scheme_end = u.scheme_end
      /\ w.username_end = u.username_end /\ w.host_start = u.host_start
      /\ w.host_end = u.host_end /\ w.port = u.port /\ w.path_start = u.path_start
      /\ w.query_start = q /\ w.fragment_start = f /\ w.flags = u.flags
  BY <1>2 DEF Rec
<1> QED
  BY <1>1, <1>3

OffsetsKept(w, u) ==
  /\ w.scheme_end = u.scheme_end /\ w.username_end = u.username_end
  /\ w.host_start = u.host_start /\ w.host_end = u.host_end /\ w.port = u.port
  /\ w.path_start = u.path_start /\ w.flags = u.flags

LEMMA HeldKeeps ==
  ASSUME NEW u \in Records, NEW g
  PROVE  OffsetsKept(RestoreAfterPath(u, g), u)
<1> DEFINE w == RestoreAfterPath(u, g)
<1>1. PICK v : v = w
  OBVIOUS
<1> HIDE DEF w
<1>2. v.scheme_end = u.scheme_end
  BY <1>1, HeldFields DEF w
<1>3. v.username_end = u.username_end
  BY <1>1, HeldFields DEF w
<1>4. v.host_start = u.host_start
  BY <1>1, HeldFields DEF w
<1>5. v.host_end = u.host_end
  BY <1>1, HeldFields DEF w
<1>6. v.port = u.port
  BY <1>1, HeldFields DEF w
<1>7. v.path_start = u.path_start
  BY <1>1, HeldFields DEF w
<1>8. v.flags = u.flags
  BY <1>1, HeldFields DEF w
<1>9. OffsetsKept(v, u)
  BY <1>2, <1>3, <1>4, <1>5, <1>6, <1>7, <1>8 DEF OffsetsKept
<1> QED
  BY <1>1, <1>9 DEF w

LEMMA HeldText ==
  ASSUME NEW u, NEW g, Held(u, g), NEW w, w = RestoreAfterPath(u, g)
  PROVE  HeldShape(u, w)
<1>1. u \in Records /\ g.tail \in Text /\ w \in Records /\ LaidOut(w) /\ PathEndOf(w) = Len(u.ser)
  BY DEF Held, Good
<1>2. w.ser = u.ser \o g.tail /\ w.path_start = u.path_start
  <2>0. u \in Records
    BY <1>1
  <2>1. w.ser = u.ser \o g.tail
    BY <2>0, HeldFields
  <2>2. w.path_start = u.path_start
    BY <2>0, HeldFields
  <2> QED
    BY <2>1, <2>2
<1>3. u.ser \in Text /\ u.path_start \in Nat /\ u.scheme_end \in Nat
  BY <1>1, Fields
<1>4. PICK n \in Nat, m \in Nat : n = Len(u.ser) /\ m = Len(g.tail)
  BY <1>1, <1>3, LenProperties DEF Text
<1>5. w.ser \in Text /\ Len(w.ser) = n + m /\ Kept(w.ser, u.ser, n)
  BY <1>1, <1>2, <1>3, <1>4, JoinTokens DEF Kept
<1>6. u.path_start <= n
  BY <1>1, <1>2, <1>4 DEF LaidOut, Tails
<1>7. /\ PathText(u) \in Text /\ Len(PathText(u)) = n - u.path_start
      /\ \A t : \A k \in Nat : TokenAt(PathText(u), k, t) <=> TokenAt(u.ser, u.path_start + k, t)
  BY <1>3, <1>4, <1>6, FromTokens DEF PathText
<1>8. Path(w) = PathText(u)
  <2>1. Path(w) = Slice(w.ser, u.path_start, n)
    BY <1>1, <1>2, <1>4 DEF Path
  <2>2. Slice(w.ser, u.path_start, n) = Slice(u.ser, u.path_start, n)
    <3>1. n <= n + m
      OBVIOUS
    <3>2. n <= Len(u.ser) /\ n <= Len(w.ser)
      <4>1. Len(w.ser) = n + m /\ Len(u.ser) = n
        BY <1>4, <1>5
      <4> QED
        BY <3>1, <4>1
    <3> QED
      BY <1>3, <1>5, <1>6, <3>2, SliceKept
  <2>3. Slice(u.ser, u.path_start, n) = PathText(u)
    BY <1>4 DEF Slice, From, PathText
  <2> QED
    BY <2>1, <2>2, <2>3
<1> QED
  BY <1>3, <1>4, <1>5, <1>6, <1>7, <1>8 DEF HeldShape

(* A path that begins where a record says it does.                         *)
LEMMA BeginsText ==
  ASSUME NEW u, NEW g, Held(u, g), NEW w, w = RestoreAfterPath(u, g)
  PROVE  /\ Rooted(w) <=> PathText(u) = <<>> \/ StartsWith(PathText(u), "/")
         /\ PathBegins(w, <<"/", "/">>) <=> Slashed(PathText(u))
         /\ PathBegins(w, <<"/", ".", "/">>) <=> TextAt(PathText(u), 0, <<"/", ".", "/">>)
<1> DEFINE p == PathText(u)
<1>1. HeldShape(u, w) /\ u \in Records /\ PathEndOf(w) = Len(u.ser)
  BY HeldText DEF Held
<1>2. w.path_start = u.path_start
  BY <1>1, HeldFields
<1>3. PICK ps \in Nat, n \in Nat : ps = u.path_start /\ n = Len(u.ser) /\ ps <= n
  <2>1. Len(u.ser) \in Nat
    BY <1>1, Fields
  <2> QED
    BY <1>1, <2>1 DEF HeldShape
<1>4. /\ p \in Text /\ Len(p) = n - ps
      /\ \A t : \A k \in Nat : TokenAt(p, k, t) <=> TokenAt(u.ser, ps + k, t)
      /\ \A t : \A k \in Nat : k < n => (TokenAt(w.ser, k, t) <=> TokenAt(u.ser, k, t))
  BY <1>1, <1>3 DEF HeldShape, Kept
<1>5. \A t : \A k \in Nat : ps + k < n => (TokenAt(w.ser, ps + k, t) <=> TokenAt(p, k, t))
  <2> TAKE t
  <2> TAKE k \in Nat
  <2>1. ps + k \in Nat
    OBVIOUS
  <2> QED
    BY <1>4, <2>1
<1> HIDE DEF p
<1>6. Rooted(w) <=> p = <<>> \/ StartsWith(p, "/")
  <2>1. CASE ps = n
    <3>1. Len(p) = 0
      BY <1>3, <1>4, <2>1
    <3>2. p = <<>>
      BY <1>4, <3>1, EmptySeq DEF Text
    <3> QED
      BY <1>1, <1>2, <1>3, <2>1, <3>2 DEF Rooted
  <2>2. CASE ps # n
    <3>1. ps + 0 = ps /\ ps + 0 < n /\ Len(p) > 0 /\ p # <<>>
      BY <1>3, <1>4, <2>2
    <3>2. TokenAt(w.ser, ps, "/") <=> TokenAt(p, 0, "/")
      BY <1>5, <3>1
    <3> QED
      BY <1>1, <1>2, <1>3, <2>2, <3>1, <3>2 DEF Rooted, StartsWith, TokenAt
  <2> QED
    BY <2>1, <2>2
<1>7. PICK y, z : y = <<"/", "/">> /\ z = <<"/", ".", "/">>
  OBVIOUS
<1>8. /\ Len(y) = 2 /\ y[1] = "/" /\ y[2] = "/"
      /\ Len(z) = 3 /\ z[1] = "/" /\ z[2] = "." /\ z[3] = "/"
  BY <1>7
<1>9. ASSUME NEW v, Len(v) \in Nat
      PROVE  PathBegins(w, v) <=> TextAt(p, 0, v)
  <2>1. ps + Len(v) <= n <=> 0 + Len(v) <= Len(p)
    BY <1>3, <1>4, <1>9
  <2>2. ASSUME ps + Len(v) <= n, NEW i \in 1..Len(v)
        PROVE  w.ser[ps + i] = v[i] <=> p[i] = v[i]
    <3>1. i - 1 \in Nat /\ (ps + (i - 1)) + 1 = ps + i /\ ps + (i - 1) < n /\ (i - 1) + 1 = i
          /\ i - 1 < Len(p)
      <4>1. PICK l \in Nat : l = Len(v)
        BY <1>9
      <4>2. i \in 1..l /\ ps + l <= n /\ Len(p) = n - ps
        BY <1>4, <2>2, <4>1
      <4> QED
        BY <1>3, <4>1, <4>2
    <3>2. TokenAt(w.ser, ps + (i - 1), v[i]) <=> TokenAt(p, i - 1, v[i])
      BY <1>5, <3>1
    <3>3. ps + (i - 1) < Len(w.ser)
      <4>1. TokenAt(p, i - 1, p[i])
        BY <3>1 DEF TokenAt
      <4>2. TokenAt(w.ser, ps + (i - 1), p[i])
        BY <1>5, <3>1, <4>1
      <4> QED
        BY <4>2 DEF TokenAt
    <3> QED
      BY <3>1, <3>2, <3>3 DEF TokenAt
  <2>3. ps + Len(v) <= n => ps + Len(v) <= Len(w.ser)
    <3>1. w \in Records /\ LaidOut(w)
      BY DEF Held, Good
    <3>2. n <= Len(w.ser) /\ Len(w.ser) \in Nat
      BY <1>1, <1>3, <3>1, TailBounds, Fields
    <3> QED
      BY <1>3, <1>9, <3>2
  <2>4. \A i \in 1..Len(v) : 0 + i = i
    BY <1>9
  <2> QED
    BY <1>1, <1>2, <1>3, <2>1, <2>2, <2>3, <2>4 DEF PathBegins, TextAt
<1>10. TextAt(p, 0, y) <=> Slashed(p)
  <2>1. Len(p) \in Nat
    BY <1>4, LenProperties DEF Text
  <2> QED
    BY <1>8, <2>1 DEF TextAt, Slashed, TokenAt
<1> QED
  BY <1>6, <1>7, <1>8, <1>9, <1>10 DEF p

-----------------------------------------------------------------------------
(* Where the marker stands.                                                *)

MarkedAt(u) == /\ u.path_start = u.scheme_end + 3
               /\ TokenAt(u.ser, u.scheme_end + 1, "/") /\ TokenAt(u.ser, u.scheme_end + 2, ".")

HeldKind(u, w) ==
  /\ WithAuthority(w) => ~MarkedAt(u)
  /\ ~WithAuthority(w) => /\ WithoutAuthority(w) /\ Class(w) = "other"
                          /\ MarkedAt(u) <=> Slashed(PathText(u))
                          /\ MarkedAt(u) => u.path_start = u.scheme_end + 3
                          /\ ~MarkedAt(u) => u.path_start = u.scheme_end + 1
  /\ GoodPath(PathText(u))

LEMMA DotFirstIsNoMarker ==
  ASSUME NEW p \in Text, NoDotFirst(p)
  PROVE  ~TextAt(p, 0, <<"/", ".", "/">>)
<1>1. Len(p) \in Nat
  BY LenProperties DEF Text
<1> QED
  BY <1>1 DEF NoDotFirst, TextAt

LEMMA HeldKinds ==
  ASSUME NEW u, NEW g, Held(u, g), NEW w, w = RestoreAfterPath(u, g)
  PROVE  HeldKind(u, w)
<1> DEFINE p == PathText(u)
<1>1. u \in Records /\ w \in Records /\ LaidOut(w) /\ Coherent(w) /\ ~CannotBeABase(u)
  BY DEF Held, Good
<1>2. u \in Records /\ HeldShape(u, w)
  BY <1>1, HeldText
<1>3. /\ Rooted(w) <=> p = <<>> \/ StartsWith(p, "/")
      /\ PathBegins(w, <<"/", "/">>) <=> Slashed(p)
  BY BeginsText
<1>4. w.path_start = u.path_start /\ w.scheme_end = u.scheme_end /\ w.flags = u.flags
  <2>1. w.path_start = u.path_start
    BY <1>2, HeldFields
  <2>2. w.scheme_end = u.scheme_end
    BY <1>2, HeldFields
  <2>3. w.flags = u.flags
    BY <1>2, HeldFields
  <2> QED
    BY <2>1, <2>2, <2>3
<1>5. PICK se \in Nat, ps \in Nat, n \in Nat :
        /\ se = u.scheme_end /\ ps = u.path_start /\ n = Len(u.ser) /\ ps <= n
        /\ \A t : \A k \in Nat : k < n => (TokenAt(w.ser, k, t) <=> TokenAt(u.ser, k, t))
        /\ p \in Text /\ Path(w) = p
  <2>1. Len(u.ser) \in Nat
    BY <1>1, Fields
  <2> QED
    BY <1>2, <2>1 DEF HeldShape, Kept
<1> HIDE DEF p
<1>6. ~CannotBeABase(w)
  BY <1>1, <1>4 DEF CannotBeABase
<1>7. WithAuthority(w) => ~MarkedAt(u)
  <2> SUFFICES ASSUME WithAuthority(w), MarkedAt(u) PROVE FALSE
    OBVIOUS
  <2>1. TokenAt(w.ser, se + 2, "/")
    BY <1>4, <1>5 DEF WithAuthority, HasAuthority
  <2>2. TokenAt(u.ser, se + 2, ".")
    BY <1>5 DEF MarkedAt
  <2>3. se + 2 \in Nat /\ se + 2 < n
    BY <1>5, <2>2 DEF TokenAt
  <2>4. TokenAt(u.ser, se + 2, "/")
    BY <1>5, <2>1, <2>3
  <2> QED
    BY <2>2, <2>4 DEF TokenAt
<1>8. ASSUME ~WithAuthority(w)
      PROVE  /\ WithoutAuthority(w) /\ Class(w) = "other"
             /\ MarkedAt(u) <=> Slashed(p)
             /\ MarkedAt(u) => ps = se + 3
             /\ ~MarkedAt(u) => ps = se + 1
             /\ p = <<>> \/ StartsWith(p, "/")
  <2>1. WithoutAuthority(w) /\ (PlainShape(w) \/ MarkerShape(w))
    BY <1>1, <1>6, <1>8 DEF LaidOut, OpaqueShape
  <2>2. Class(w) = "other"
    BY <2>1 DEF WithoutAuthority, IsSpecial, Class
  <2>3. CASE PlainShape(w)
    <3>1. ps = se + 1 /\ Rooted(w) /\ ~PathBegins(w, <<"/", "/">>)
      BY <1>4, <1>5, <2>3 DEF PlainShape
    <3>2. ~MarkedAt(u)
      BY <1>5, <3>1 DEF MarkedAt
    <3> QED
      BY <1>3, <2>1, <2>2, <3>1, <3>2
  <2>4. CASE MarkerShape(w)
    <3>1. ps = se + 3 /\ TextAt(w.ser, se + 1, <<"/", ".">>) /\ PathBegins(w, <<"/", "/">>)
      BY <1>4, <1>5, <2>4 DEF MarkerShape
    <3>2. TokenAt(w.ser, se + 1, "/") /\ TokenAt(w.ser, se + 2, ".")
      <4>1. Len(w.ser) \in Nat
        BY <1>1, Fields
      <4> QED
        BY <1>5, <3>1, <4>1 DEF TextAt, TokenAt
    <3>3. se + 1 \in Nat /\ se + 2 \in Nat /\ se + 1 < n /\ se + 2 < n
      BY <1>5, <3>1
    <3>4. TokenAt(u.ser, se + 1, "/") /\ TokenAt(u.ser, se + 2, ".")
      BY <1>5, <3>2, <3>3
    <3>5. MarkedAt(u)
      BY <1>5, <3>1, <3>4 DEF MarkedAt
    <3>6. Slashed(p) /\ StartsWith(p, "/")
      BY <1>3, <1>5, <3>1, LenProperties DEF Slashed, TokenAt, StartsWith, Text
    <3> QED
      BY <2>1, <2>2, <3>1, <3>5, <3>6
  <2> QED
    BY <2>1, <2>3, <2>4
<1>9. GoodPath(p)
  <2>1. p = <<>> \/ StartsWith(p, "/")
    BY <1>3, <1>8 DEF WithAuthority
  <2>2. NoDotFirst(p)
    BY <1>5, <1>6 DEF Held, Good
  <2>3. ~Has(p, {"?", "#"})
    BY <1>1, <1>5 DEF Coherent, Undelimited
  <2> QED
    BY <1>5, <2>1, <2>2, <2>3, DotFirstIsNoMarker DEF GoodPath, PathWord
<1> QED
  BY <1>5, <1>7, <1>8, <1>9 DEF HeldKind, p

-----------------------------------------------------------------------------
(* An edit gives the URL another path.  The marker goes with a path that   *)
(* no longer begins with "//".                                             *)

InFront(u, p) ==
  Upto(u.ser, IF MarkedAt(u) /\ ~Slashed(p) THEN u.scheme_end + 1 ELSE u.path_start)

EditOf(u, p) ==
  [ser   |-> InFront(u, p) \o p,
   start |-> Len(InFront(u, p)),
   first |-> Len(InFront(u, p))
             + (IF TokenAt(InFront(u, p) \o p, Len(InFront(u, p)), "/") THEN 1 ELSE 0)]

(* The record v is u with the text s, whose path starts at ps.             *)
EditedTo(v, u, s, ps, h) ==
  /\ v \in Records /\ v.ser = s /\ v.path_start = ps
  /\ v.query_start = u.query_start /\ v.fragment_start = u.fragment_start
  /\ v.flags = u.flags
  /\ RestoreAfterPath(v, h)
       = Rec(s \o h.tail, u.scheme_end, u.username_end, u.host_start, u.host_end,
             u.port, ps, AdjustOpt(u.query_start, h.old, Len(s)),
             AdjustOpt(u.fragment_start, h.old, Len(s)), u.flags)

LEMMA RecordEdited ==
  ASSUME NEW u \in Records, NEW s \in Text, NEW ps \in Offset, NEW h
  PROVE  EditedTo([u EXCEPT !.ser = s, !.path_start = ps], u, s, ps, h)
<1>0. PICK v : v = [u EXCEPT !.ser = s, !.path_start = ps]
  OBVIOUS
<1>1. u = Rec(u.ser, u.scheme_end, u.username_end, u.host_start, u.host_end, u.port,
              u.path_start, u.query_start, u.fragment_start, u.flags)
  BY RecordShape
<1>2. PICK y : y = [u EXCEPT !.ser = s]
  OBVIOUS
<1>3. y = Rec(s, u.scheme_end, u.username_end, u.host_start, u.host_end, u.port,
              u.path_start, u.query_start, u.fragment_start, u.flags)
  BY <1>1, <1>2 DEF Rec
<1>4. v = [y EXCEPT !.path_start = ps]
  BY <1>0, <1>2
<1>5. v = Rec(s, u.scheme_end, u.username_end, u.host_start, u.host_end, u.port,
              ps, u.query_start, u.fragment_start, u.flags)
  BY <1>3, <1>4 DEF Rec
<1>6. /\ v.ser = s /\ v.scheme_end = u.scheme_end /\ v.username_end = u.username_end
      /\ v.host_start = u.host_start /\ v.host_end = u.host_end /\ v.port = u.port
      /\ v.path_start = ps /\ v.query_start = u.query_start
      /\ v.fragment_start = u.fragment_start /\ v.flags = u.flags
  BY <1>5 DEF Rec
<1>7. v \in Records
  <2>1. y \in Records
    BY <1>2 DEF Records
  <2> QED
    BY <1>4, <2>1 DEF Records
<1>8. RestoreAfterPath(v, h)
        = Rec(v.ser \o h.tail, v.scheme_end, v.username_end, v.host_start, v.host_end,
              v.port, v.path_start, AdjustOpt(v.query_start, h.old, Len(v.ser)),
              AdjustOpt(v.fragment_start, h.old, Len(v.ser)), v.flags)
  BY <1>7, Restored
<1>9. EditedTo(v, u, s, ps, h)
  BY <1>6, <1>7, <1>8 DEF EditedTo
<1> QED
  BY <1>0, <1>9

(* Where the text before the new path ends.                                *)
LEMMA HeadFacts ==
  ASSUME NEW u, NEW g, Held(u, g), NEW w, w = RestoreAfterPath(u, g), NEW p \in Text
  PROVE  LET x == InFront(u, p)
         IN /\ x \in Text /\ Len(x) \in Nat /\ Len(x) <= u.path_start
            /\ Len(x) = (IF MarkedAt(u) /\ ~Slashed(p) THEN u.scheme_end + 1 ELSE u.path_start)
            /\ Kept(x, u.ser, Len(x)) /\ Kept(x, w.ser, Len(x))
<1> DEFINE c == IF MarkedAt(u) /\ ~Slashed(p) THEN u.scheme_end + 1 ELSE u.path_start
<1>1. u \in Records /\ HeldShape(u, w)
  BY HeldText DEF Held
<1>2. u.ser \in Text /\ u.path_start \in Nat /\ u.path_start <= Len(u.ser) /\ u.scheme_end \in Nat
  BY <1>1, Fields DEF HeldShape
<1>3. c \in Nat /\ c <= u.path_start
  BY <1>2 DEF MarkedAt
<1>4. InFront(u, p) = Upto(u.ser, c)
  BY DEF InFront
<1> HIDE DEF c
<1>5. c <= Len(u.ser)
  BY <1>1, <1>2, <1>3, Fields
<1>6. /\ Upto(u.ser, c) \in Text /\ Len(Upto(u.ser, c)) = c
      /\ \A t : \A k \in Nat : k < c => (TokenAt(Upto(u.ser, c), k, t) <=> TokenAt(u.ser, k, t))
  BY <1>2, <1>3, <1>5, UptoTokens
<1>7. PICK n \in Nat : n = Len(u.ser)
  BY <1>1, Fields
<1>8. \A t : \A k \in Nat : k < c => (TokenAt(w.ser, k, t) <=> TokenAt(u.ser, k, t))
  <2>1. \A t : \A k \in Nat : k < n => (TokenAt(w.ser, k, t) <=> TokenAt(u.ser, k, t))
    BY <1>1, <1>7 DEF HeldShape, Kept
  <2>2. \A k \in Nat : k < c => k < n
    BY <1>3, <1>5, <1>7
  <2> QED
    BY <2>1, <2>2
<1> QED
  BY <1>3, <1>4, <1>6, <1>8 DEF Kept, c

(* With the new path written and the tail behind it, the URL is laid out.  *)
WithPath(u, g, w, p) ==
  LET x == InFront(u, p)
      n == Len(u.ser)
      m == Len(x \o p)
  IN Rec((x \o p) \o g.tail, w.scheme_end, w.username_end, w.host_start, w.host_end, w.port,
         Len(x), AdjustOpt(w.query_start, n, m), AdjustOpt(w.fragment_start, n, m), w.flags)

Laid(w, p, z) == z \in Records /\ LaidOut(z) /\ Gives(w, z, PutPath(Components(w), p))

LEMMA EditLaid ==
  ASSUME NEW u, NEW g, Held(u, g), NEW w, w = RestoreAfterPath(u, g),
         NEW p, GoodPath(p), Slashed(p) => Slashed(PathText(u)),
         Len((InFront(u, p) \o p) \o g.tail) < U32Max
  PROVE  Laid(w, p, WithPath(u, g, w, p))
<1>0. PICK x, n, m, z :
        /\ x = InFront(u, p) /\ n = Len(u.ser) /\ m = Len(x \o p) /\ z = WithPath(u, g, w, p)
        /\ Len((x \o p) \o g.tail) < U32Max
        /\ z = Rec((x \o p) \o g.tail, w.scheme_end, w.username_end, w.host_start,
                   w.host_end, w.port, Len(x), AdjustOpt(w.query_start, n, m),
                   AdjustOpt(w.fragment_start, n, m), w.flags)
  BY DEF WithPath
<1> DEFINE start  == IF WithAuthority(w) THEN u.path_start ELSE u.scheme_end + 1
           marked == MarkedAt(u) /\ Slashed(p)
<1>1. /\ u \in Records /\ w \in Records /\ LaidOut(w) /\ ~CannotBeABase(u) /\ g.tail \in Text
      /\ PathEndOf(w) = n
  BY <1>0 DEF Held, Good
<1>2. u \in Records
  BY <1>1
<1>3. w.path_start = u.path_start /\ w.scheme_end = u.scheme_end /\ w.flags = u.flags
  <2>1. w.path_start = u.path_start
    BY <1>2, HeldFields
  <2>2. w.scheme_end = u.scheme_end
    BY <1>2, HeldFields
  <2>3. w.flags = u.flags
    BY <1>2, HeldFields
  <2> QED
    BY <2>1, <2>2, <2>3
<1>4. w.ser = u.ser \o g.tail
  BY <1>2, HeldFields
<1>5. /\ WithAuthority(w) => ~MarkedAt(u)
      /\ ~WithAuthority(w) => /\ WithoutAuthority(w) /\ Class(w) = "other"
                              /\ MarkedAt(u) <=> Slashed(PathText(u))
                              /\ MarkedAt(u) => u.path_start = u.scheme_end + 3
                              /\ ~MarkedAt(u) => u.path_start = u.scheme_end + 1
  BY HeldKinds DEF HeldKind
<1>6. p \in Text /\ PathWord(p)
  BY DEF GoodPath, PathWord
<1>7. /\ x \in Text /\ Len(x) \in Nat /\ Len(x) <= u.path_start
      /\ Len(x) = (IF MarkedAt(u) /\ ~Slashed(p) THEN u.scheme_end + 1 ELSE u.path_start)
      /\ Kept(x, u.ser, Len(x)) /\ Kept(x, w.ser, Len(x))
  BY <1>0, <1>6, HeadFacts
<1>8. u.path_start \in Nat /\ u.scheme_end \in Nat /\ u.ser \in Text
  BY <1>2, Fields
<1>9. ~CannotBeABase(w)
  BY <1>1, <1>3 DEF CannotBeABase
<1>10. WithAuthority(w) => u.path_start # u.scheme_end + 1
  <2> SUFFICES ASSUME WithAuthority(w) PROVE u.path_start # u.scheme_end + 1
    OBVIOUS
  <2>1. Hosted(w.ser, w.scheme_end, w.username_end, w.host_start, w.host_end, w.port,
               w.path_start, w.query_start, w.fragment_start, w.flags)
    BY <1>1, HostedFields
  <2>2. /\ w.scheme_end + 3 <= w.username_end /\ w.username_end <= w.host_start
        /\ w.host_start <= w.host_end /\ w.host_end <= w.path_start
    BY <2>1, HostedBounds
  <2>3. w.username_end \in Nat /\ w.host_start \in Nat /\ w.host_end \in Nat
    BY <1>1, Fields
  <2> QED
    BY <1>3, <1>8, <2>2, <2>3
<1>11. /\ start \in Nat /\ start <= w.path_start
       /\ WithAuthority(w) => start = w.path_start
       /\ ~WithAuthority(w) => start = w.scheme_end + 1 /\ WithoutAuthority(w)
       /\ Len(x) = IF marked THEN start + 2 ELSE start
       /\ start <= Len(x)
  BY <1>3, <1>5, <1>7, <1>8
<1>12. marked \in BOOLEAN
  BY DEF MarkedAt, Slashed, TokenAt
<1>13. marked <=> /\ ~CannotBeABase(w) /\ Class(w) = "other" /\ start = w.scheme_end + 1
                  /\ TokenAt(p, 0, "/") /\ TokenAt(p, 1, "/")
  BY <1>3, <1>5, <1>9, <1>10 DEF Slashed
<1>14. Kept(x, w.ser, start)
  BY <1>7, <1>11 DEF Kept
<1>15. marked => TokenAt(x, start, "/") /\ TokenAt(x, start + 1, ".")
  <2> SUFFICES ASSUME marked PROVE TokenAt(x, start, "/") /\ TokenAt(x, start + 1, ".")
    OBVIOUS
  <2>1. start = u.scheme_end + 1 /\ Len(x) = start + 2 /\ start + 1 = u.scheme_end + 2
    BY <1>5, <1>8, <1>11
  <2>2. TokenAt(u.ser, start, "/") /\ TokenAt(u.ser, start + 1, ".")
    BY <2>1 DEF MarkedAt
  <2>3. start \in Nat /\ start + 1 \in Nat /\ start < Len(x) /\ start + 1 < Len(x)
    BY <1>8, <2>1
  <2> QED
    BY <1>7, <2>2, <2>3 DEF Kept
<1>16. From(w.ser, PathEndOf(w)) = g.tail
  BY <1>0, <1>1, <1>4, <1>8, BehindCut
<1>17. Len(x \o p \o From(w.ser, PathEndOf(w))) < U32Max
  BY <1>0, <1>16
<1> HIDE DEF start, marked
<1>18. LET pe   == PathEndOf(w)
           head == x \o p
           o(y) == AdjustOpt(y, pe, Len(head))
           r    == Rec(head \o From(w.ser, pe), w.scheme_end, w.username_end, w.host_start,
                       w.host_end, w.port, Len(x), o(w.query_start), o(w.fragment_start),
                       w.flags)
       IN /\ r \in Records /\ LaidOut(r)
          /\ Gives(w, r, PutPath(Components(w), p))
  BY <1>1, <1>6, <1>7, <1>9, <1>11, <1>12, <1>13, <1>14, <1>15, <1>17, PathReplaced
<1> QED
  BY <1>0, <1>1, <1>16, <1>18 DEF Laid

LEMMA FitsBelow ==
  ASSUME NEW n \in Nat, NEW k \in Nat, (n + k) + 6 < U32Max
  PROVE  n + k < U32Max /\ n < U32Max
BY U32MaxAssumption

(* The offsets of the tail fit the new text too.                           *)
TailMoved(w, u, g, n, m) ==
  /\ AdjustOpt(w.query_start, n, m) = AdjustOpt(u.query_start, g.old, m)
  /\ AdjustOpt(w.fragment_start, n, m) = AdjustOpt(u.fragment_start, g.old, m)
  /\ n < U32Max

LEMMA EditMoves ==
  ASSUME NEW u, NEW g, Held(u, g), NEW w, w = RestoreAfterPath(u, g), Fits(w),
         NEW n, n = Len(u.ser), NEW m \in Nat, m + Len(g.tail) < U32Max
  PROVE  TailMoved(w, u, g, n, m)
<1>1. /\ u \in Records /\ g.tail \in Text /\ g.old \in Nat
      /\ u.query_start # NONE => g.old <= u.query_start /\ u.query_start - g.old <= Len(g.tail)
      /\ u.fragment_start # NONE =>
           g.old <= u.fragment_start /\ u.fragment_start - g.old <= Len(g.tail)
  BY DEF Held
<1>2. u \in Records
  BY <1>1
<1>3. PICK k \in Nat : k = Len(g.tail)
  BY <1>1, LenProperties DEF Text
<1>4. n \in Nat /\ u.ser \in Text
  BY <1>2, Fields
<1>5. PICK q \in Nat, f \in Nat : q = u.query_start /\ f = u.fragment_start /\ q <= U32Max /\ f <= U32Max
  <2>1. u.query_start \in Offset /\ u.fragment_start \in Offset
    BY <1>2, Fields
  <2>2. U32Max \in Nat
    BY U32MaxAssumption
  <2> QED
    BY <2>1, <2>2 DEF Offset
<1>6. (n + k) + 6 < U32Max /\ n + k < U32Max /\ m + k < U32Max
  <2>1. w.ser = u.ser \o g.tail
    BY <1>2, HeldFields
  <2>2. Len(w.ser) = n + k
    BY <1>1, <1>3, <1>4, <2>1, JoinFacts
  <2>3. (n + k) + 6 < U32Max
    BY <2>2 DEF Fits
  <2>4. n + k < U32Max
    BY <1>4, <2>3, FitsBelow
  <2> QED
    BY <1>3, <2>3, <2>4
<1> DEFINE old == g.old
<1>7. AdjustOpt(AdjustOpt(q, old, n), n, m) = AdjustOpt(q, old, m)
  <2>1. old \in Nat /\ (q # NONE => old <= q /\ q - old <= k)
    BY <1>1, <1>3, <1>5
  <2> HIDE DEF old
  <2>2. q <= U32Max /\ n \in Nat /\ n + k < U32Max /\ m + k < U32Max
    BY <1>4, <1>5, <1>6
  <2> QED
    BY <2>1, <2>2, MovedTwice
<1>8. AdjustOpt(AdjustOpt(f, old, n), n, m) = AdjustOpt(f, old, m)
  <2>1. old \in Nat /\ (f # NONE => old <= f /\ f - old <= k)
    BY <1>1, <1>3, <1>5
  <2> HIDE DEF old
  <2>2. f <= U32Max /\ n \in Nat /\ n + k < U32Max /\ m + k < U32Max
    BY <1>4, <1>5, <1>6
  <2> QED
    BY <2>1, <2>2, MovedTwice
<1>9. w.query_start = AdjustOpt(q, g.old, n)
  BY <1>2, <1>5, HeldFields
<1>10. w.fragment_start = AdjustOpt(f, g.old, n)
  BY <1>2, <1>5, HeldFields
<1>11. n < U32Max
  <2>1. (n + k) + 6 < U32Max
    BY <1>6
  <2> QED
    BY <1>4, <2>1, FitsBelow
<1> QED
  BY <1>4, <1>5, <1>7, <1>8, <1>9, <1>10, <1>11 DEF TailMoved

(* The tail begins where the path ends.                                    *)
LEMMA EditEnds ==
  ASSUME NEW w \in Records, LaidOut(w), NEW n \in Nat, PathEndOf(w) = n, n < U32Max,
         NEW m \in Nat, m < U32Max,
         NEW z, z.query_start = AdjustOpt(w.query_start, n, m),
         z.fragment_start = AdjustOpt(w.fragment_start, n, m),
         Len(z.ser) \in Nat, Len(z.ser) + n = Len(w.ser) + m
  PROVE  PathEndOf(z) = m
<1>1. U32Max \in Nat /\ NONE = U32Max /\ m # NONE /\ n # NONE
  BY U32MaxAssumption DEF NONE
<1>2. Adjust(n, n, m) = m
  <2>1. n <= n /\ n <= U32Max /\ (n - n) + m <= U32Max /\ (n - n) + m = m
    BY <1>1
  <2> QED
    BY <2>1, AdjustFacts
<1>3. CASE w.query_start # NONE
  <2>1. w.query_start = n
    BY <1>3 DEF PathEndOf
  <2>2. z.query_start = m
    BY <1>2, <1>3, <2>1 DEF AdjustOpt
  <2> QED
    BY <1>1, <2>2 DEF PathEndOf
<1>4. CASE w.query_start = NONE /\ w.fragment_start # NONE
  <2>1. w.fragment_start = n /\ z.query_start = NONE
    BY <1>4 DEF PathEndOf, AdjustOpt
  <2>2. z.fragment_start = m
    BY <1>2, <1>4, <2>1 DEF AdjustOpt
  <2> QED
    BY <1>1, <2>1, <2>2 DEF PathEndOf
<1>5. CASE w.query_start = NONE /\ w.fragment_start = NONE
  <2>1. Len(w.ser) = n /\ z.query_start = NONE /\ z.fragment_start = NONE
    BY <1>5 DEF PathEndOf, AdjustOpt
  <2>2. Len(z.ser) = m
    BY <2>1
  <2> QED
    BY <2>1, <2>2 DEF PathEndOf
<1> QED
  BY <1>3, <1>4, <1>5

(* An edit of the path is one of the URL a drop would leave: v and h are   *)
(* the open record and its guard afterwards, w and z the URLs of a drop.   *)
PathEdited(u, g, w, p, e, v, h, z) ==
  /\ Held(u, g) /\ w = RestoreAfterPath(u, g) /\ Fits(w)
  /\ GoodPath(p) /\ (Slashed(p) => Slashed(PathText(u))) /\ e = EditOf(u, p)
  /\ v = [u EXCEPT !.ser = e.ser, !.path_start = e.start]
  /\ h = [g EXCEPT !.first = e.first]
  /\ z = RestoreAfterPath(v, h) /\ Fits(z)

LEMMA EditHolds ==
  ASSUME NEW u, NEW g, NEW w, NEW p, NEW e, NEW v, NEW h, NEW z,
         PathEdited(u, g, w, p, e, v, h, z)
  PROVE  /\ Held(v, h)
         /\ Gives(w, z, PutPath(Components(w), p)) /\ z.flags = w.flags
<1> SUFFICES ASSUME Held(u, g), w = RestoreAfterPath(u, g), Fits(w),
                    GoodPath(p), Slashed(p) => Slashed(PathText(u)), e = EditOf(u, p),
                    v = [u EXCEPT !.ser = e.ser, !.path_start = e.start],
                    h = [g EXCEPT !.first = e.first], z = RestoreAfterPath(v, h), Fits(z)
             PROVE  /\ Held(v, h)
                    /\ Gives(w, z, PutPath(Components(w), p)) /\ z.flags = w.flags
  BY DEF PathEdited
<1>1. /\ u \in Records /\ w \in Records /\ LaidOut(w) /\ Coherent(w) /\ ~CannotBeABase(u)
      /\ g.tail \in Text /\ g.old \in Nat /\ g = GuardOf(g.first, g.tail, g.old)
      /\ PathEndOf(w) = Len(u.ser)
  BY DEF Held, Good
<1>2. u \in Records
  BY <1>1
<1>3. PICK x : x = InFront(u, p)
  OBVIOUS
<1>4. PICK s : s = x \o p
  OBVIOUS
<1>5. /\ e.ser = s /\ e.start = Len(x)
      /\ e.first = Len(x) + (IF TokenAt(s, Len(x), "/") THEN 1 ELSE 0)
  BY <1>3, <1>4 DEF EditOf
<1>6. p \in Text
  BY DEF GoodPath, PathWord
<1>7. x \in Text /\ Len(x) \in Nat /\ Len(x) <= u.path_start
  BY <1>3, <1>6, HeadFacts
<1>8. s \in Text /\ Len(x) \in Offset
  <2>1. u.path_start \in Offset
    BY <1>2, Fields
  <2>2. Len(x) \in Offset
    BY <1>7, <2>1, U32MaxAssumption DEF Offset
  <2> QED
    BY <1>4, <1>6, <1>7, <2>2, JoinFacts
<1>9. PICK m \in Nat, k \in Nat : m = Len(s) /\ k = Len(g.tail)
  BY <1>1, <1>8, LenProperties DEF Text
<1>10. h = GuardOf(e.first, g.tail, g.old) /\ h.tail = g.tail /\ h.old = g.old /\ h.first = e.first
  <2>1. h = [GuardOf(g.first, g.tail, g.old) EXCEPT !.first = e.first]
    BY <1>1
  <2>2. h = GuardOf(e.first, g.tail, g.old)
    BY <2>1 DEF GuardOf
  <2> QED
    BY <2>2 DEF GuardOf
<1>11. v = [u EXCEPT !.ser = s, !.path_start = Len(x)]
  BY <1>5
<1>12. EditedTo(v, u, s, Len(x), h)
  <2>1. EditedTo([u EXCEPT !.ser = s, !.path_start = Len(x)], u, s, Len(x), h)
    BY <1>2, <1>8, RecordEdited
  <2> QED
    BY <1>11, <2>1
<1>23. /\ v \in Records /\ v.ser = s /\ v.path_start = Len(x)
       /\ v.query_start = u.query_start /\ v.fragment_start = u.fragment_start
       /\ v.flags = u.flags
  BY <1>12 DEF EditedTo
<1>13. z = Rec(s \o g.tail, u.scheme_end, u.username_end, u.host_start, u.host_end,
               u.port, Len(x), AdjustOpt(u.query_start, g.old, m),
               AdjustOpt(u.fragment_start, g.old, m), u.flags)
  <2>1. z = Rec(s \o h.tail, u.scheme_end, u.username_end, u.host_start, u.host_end,
                u.port, Len(x), AdjustOpt(u.query_start, h.old, Len(s)),
                AdjustOpt(u.fragment_start, h.old, Len(s)), u.flags)
    BY <1>12 DEF EditedTo
  <2> QED
    BY <1>9, <1>10, <2>1
<1>14. PICK r : r = s \o g.tail /\ r \in Text /\ Len(r) = m + k
  <2>1. s \o g.tail \in Text /\ Len(s \o g.tail) = Len(s) + Len(g.tail)
    BY <1>1, <1>8, JoinFacts
  <2> QED
    BY <1>9, <2>1
<1>15. (m + k) + 6 < U32Max
  <2>1. PICK q, f : /\ q = AdjustOpt(u.query_start, g.old, m)
                    /\ f = AdjustOpt(u.fragment_start, g.old, m)
    OBVIOUS
  <2>2. z = Rec(r, u.scheme_end, u.username_end, u.host_start, u.host_end,
                u.port, Len(x), q, f, u.flags)
    BY <1>13, <1>14, <2>1
  <2>3. z.ser = r
    BY <2>2 DEF Rec
  <2> QED
    BY <1>14, <2>3 DEF Fits
<1>16. m + k < U32Max
  BY <1>15, FitsBelow
<1>17. PICK n \in Nat : n = Len(u.ser)
  BY <1>2, Fields
<1>18. /\ AdjustOpt(w.query_start, n, m) = AdjustOpt(u.query_start, g.old, m)
       /\ AdjustOpt(w.fragment_start, n, m) = AdjustOpt(u.fragment_start, g.old, m)
       /\ n < U32Max
  <2>1. m \in Nat /\ m + Len(g.tail) < U32Max
    BY <1>9, <1>16
  <2>2. TailMoved(w, u, g, n, m)
    BY <1>17, <2>1, EditMoves
  <2> QED
    BY <2>2 DEF TailMoved
<1>19. /\ w.scheme_end = u.scheme_end /\ w.username_end = u.username_end
       /\ w.host_start = u.host_start /\ w.host_end = u.host_end /\ w.port = u.port
       /\ w.flags = u.flags
  BY <1>2, HeldKeeps DEF OffsetsKept
<1>20. z = WithPath(u, g, w, p)
  BY <1>3, <1>4, <1>9, <1>13, <1>17, <1>18, <1>19 DEF WithPath
<1>21. Len((InFront(u, p) \o p) \o g.tail) < U32Max
  BY <1>3, <1>4, <1>14, <1>16
<1>22. z \in Records /\ LaidOut(z) /\ Gives(w, z, PutPath(Components(w), p))
  <2>1. Laid(w, p, WithPath(u, g, w, p))
    BY <1>21, EditLaid
  <2> QED
    BY <1>20, <2>1 DEF Laid
<1>24. Coherent(z) /\ Path(z) = p
  <2>1. Gives(w, z, PutPath(Components(w), p)) /\ Fit(Components(w)) /\ ~Has(p, {"?", "#"})
    BY <1>1, <1>22, CoherentFits DEF GoodPath
  <2>2. LET c == Components(w)
        IN FieldsAre(PutPath(c, p), c.scheme, c.username, c.password, c.host, c.port,
                     p, c.opaque, c.query, c.fragment)
    BY PutFields
  <2>3. Fit(PutPath(Components(w), p))
    BY <2>1, <2>2 DEF FieldsAre, Fit, Belongs, Clean
  <2>4. Coherent(z)
    BY <1>1, <1>22, <2>1, <2>3, GivesCoherent
  <2>5. Components(z).path = Path(z) /\ Components(z).path = p
    BY <1>22, <2>1, <2>2, ComponentTests DEF Gives, FieldsAre
  <2> QED
    BY <2>4, <2>5
<1>25. z.query_start = AdjustOpt(w.query_start, n, m)
         /\ z.fragment_start = AdjustOpt(w.fragment_start, n, m)
         /\ z.ser = r /\ z.flags = w.flags
  <2>1. PICK q, f : q = AdjustOpt(w.query_start, n, m) /\ f = AdjustOpt(w.fragment_start, n, m)
    OBVIOUS
  <2>2. z = Rec(r, w.scheme_end, w.username_end, w.host_start, w.host_end, w.port,
                Len(x), q, f, w.flags)
    BY <1>13, <1>14, <1>18, <1>19, <2>1
  <2>3. z.query_start = q /\ z.fragment_start = f /\ z.ser = r /\ z.flags = w.flags
    BY <2>2 DEF Rec
  <2> QED
    BY <2>1, <2>3
<1>26. PathEndOf(z) = m
  <2>1. Len(w.ser) = n + k
    <3>1. w.ser = u.ser \o g.tail
      BY <1>2, HeldFields
    <3>2. u.ser \in Text
      BY <1>2, Fields
    <3>3. Len(u.ser \o g.tail) = Len(u.ser) + Len(g.tail)
      BY <1>1, <3>2, JoinFacts
    <3> QED
      BY <1>9, <1>17, <3>1, <3>3
  <2>2. Len(z.ser) = m + k /\ PathEndOf(w) = n
    BY <1>1, <1>14, <1>17, <1>25
  <2>3. /\ z.query_start = AdjustOpt(w.query_start, n, m)
        /\ z.fragment_start = AdjustOpt(w.fragment_start, n, m)
    BY <1>25
  <2>4. Len(z.ser) \in Nat /\ Len(z.ser) + n = Len(w.ser) + m /\ m < U32Max
    <3>1. Len(z.ser) \in Nat /\ Len(z.ser) + n = Len(w.ser) + m
      BY <2>1, <2>2
    <3>2. m < U32Max
      BY <1>15, FitsBelow
    <3> QED
      BY <3>1, <3>2
  <2>5. w \in Records /\ LaidOut(w) /\ PathEndOf(w) = n /\ n < U32Max
    BY <1>1, <1>18, <2>2
  <2> QED
    BY <2>3, <2>4, <2>5, EditEnds
<1>27. Good(z)
  BY <1>22, <1>24 DEF Good, GoodPath
<1>28. Held(v, h)
  <2>1. ~CannotBeABase(v)
    BY <1>1, <1>23 DEF CannotBeABase
  <2>2. h = GuardOf(h.first, h.tail, h.old)
    BY <1>10
  <2>3. /\ v.query_start # NONE =>
             h.old <= v.query_start /\ v.query_start - h.old <= Len(h.tail)
        /\ v.fragment_start # NONE =>
             h.old <= v.fragment_start /\ v.fragment_start - h.old <= Len(h.tail)
    <3>1. /\ u.query_start # NONE =>
               g.old <= u.query_start /\ u.query_start - g.old <= Len(g.tail)
          /\ u.fragment_start # NONE =>
               g.old <= u.fragment_start /\ u.fragment_start - g.old <= Len(g.tail)
      BY DEF Held
    <3> QED
      BY <1>10, <1>23, <3>1
  <2>4. PathEndOf(z) = Len(v.ser)
    BY <1>9, <1>23, <1>26
  <2>5. h.first = v.path_start + (IF TokenAt(v.ser, v.path_start, "/") THEN 1 ELSE 0)
    BY <1>5, <1>10, <1>23
  <2> QED
    BY <1>1, <1>10, <1>23, <1>27, <2>1, <2>2, <2>3, <2>4, <2>5 DEF Held
<1> QED
  BY <1>22, <1>25, <1>28

-----------------------------------------------------------------------------
(* The paths the edits write.                                              *)

LEMMA Mirrored ==
  ASSUME NEW n \in Nat, NEW a \in Nat, NEW i \in Nat, NEW k \in Nat, k < i, i < n, a < i
  PROVE  n - i \in Nat /\ n - i <= n - a /\ n - (n - i) = i /\ n - i < n - k
OBVIOUS

(* There is a last slash.                                                  *)
LEMMA LastSlashFacts ==
  ASSUME NEW e, e.ser \in Text, e.first \in Nat, e.first <= Len(e.ser)
  PROVE  LET k == LastSlash(e)
         IN /\ k \in Nat /\ e.first <= k /\ k <= Len(e.ser)
            /\ k = e.first \/ TokenAt(e.ser, k, "/")
<1>1. PICK s \in Text, a \in Nat, n \in Nat : s = e.ser /\ a = e.first /\ n = Len(s) /\ a <= n
  BY LenProperties DEF Text
<1> DEFINE T == {j \in Nat : j <= n - a /\ (n - j = a \/ TokenAt(s, n - j, "/"))}
<1>2. n - a \in T
  <2>1. n - a \in Nat /\ n - (n - a) = a
    BY <1>1
  <2> QED
    BY <2>1
<1>3. PICK j \in T : \A i \in T : j <= i
  <2>1. T \subseteq Nat /\ T # {}
    BY <1>2
  <2> HIDE DEF T
  <2> QED
    BY <2>1, Least
<1>4. PICK k \in Nat : k = n - j /\ a <= k /\ k <= n
  <2>1. j \in Nat /\ j <= n - a
    BY <1>3
  <2>2. n - j \in Nat /\ a <= n - j /\ n - j <= n
    BY <1>1, <2>1
  <2> QED
    BY <2>2
<1>5. k = a \/ TokenAt(s, k, "/")
  BY <1>3, <1>4
<1>6. ASSUME NEW i \in k + 1..n - 1, TokenAt(s, i, "/")
      PROVE  FALSE
  <2>1. n - i \in Nat /\ n - i <= n - a /\ n - (n - i) = i /\ n - i < n - k
    <3>1. i \in Nat /\ k < i /\ i < n /\ a < i
      BY <1>1, <1>4
    <3> QED
      BY <1>4, <3>1, Mirrored
  <2>2. n - i \in T
    BY <1>6, <2>1
  <2>3. j <= n - i /\ j = n - k
    BY <1>1, <1>3, <1>4, <2>2
  <2> QED
    BY <1>1, <1>4, <2>1, <2>3
<1> DEFINE Q(x) == /\ x = a \/ TokenAt(s, x, "/")
                   /\ \A i \in x + 1..n - 1 : ~TokenAt(s, i, "/")
<1>7. k \in a..n /\ Q(k)
  BY <1>1, <1>4, <1>5, <1>6
<1>8. LastSlash(e) = CHOOSE x \in a..n : Q(x)
  BY <1>1 DEF LastSlash
<1>9. LastSlash(e) \in a..n /\ Q(LastSlash(e))
  <2> HIDE DEF Q
  <2> QED
    BY <1>7, <1>8
<1> QED
  BY <1>1, <1>9

SegmentText(x) == x \in Text /\ ~Has(x, {"/", "?", "#"}) /\ x # <<".">>

LEMMA SegmentEncoded ==
  ASSUME NEW s \in Text, s \notin DotSegment, NEW set \in {PathSegmentSet, SpecialPathSegmentSet}
  PROVE  SegmentText(Encode(s, set))
<1>1. /\ {"/", "?", "#"} \subseteq set /\ set \subseteq DOMAIN Encoding
      /\ \A t \in set : Encoding[t] \notin {"/", "?", "#", "."}
  BY DEF PathSegmentSet, SpecialPathSegmentSet, PathSet, Encoding, TAB
<1>2. Encode(s, set) \in Text /\ Len(Encode(s, set)) = Len(s)
  BY <1>1, EncodeFacts
<1>3. \A i \in 1..Len(s) : Encode(s, set)[i] = IF s[i] \in set THEN Encoding[s[i]] ELSE s[i]
  BY DEF Encode
<1>4. PICK x : x = Encode(s, set)
  OBVIOUS
<1>5. ~Has(x, {"/", "?", "#"})
  <2> SUFFICES ASSUME NEW i \in DOMAIN x, x[i] \in {"/", "?", "#"} PROVE FALSE
    BY DEF Has
  <2>1. i \in 1..Len(s)
    BY <1>2, <1>4, LenProperties DEF Text
  <2> QED
    BY <1>1, <1>3, <1>4, <2>1
<1>6. x # <<".">>
  <2> SUFFICES ASSUME x = <<".">> PROVE FALSE
    OBVIOUS
  <2>1. Len(s) = 1 /\ x[1] = "."
    <3>1. Len(x) = 1 /\ x[1] = "."
      OBVIOUS
    <3> QED
      BY <1>2, <1>4, <3>1
  <2>2. s[1] = "."
    BY <1>1, <1>3, <1>4, <2>1
  <2>3. s = <<".">>
    BY <2>1, <2>2, SeqEqual DEF Text
  <2> QED
    BY <2>3 DEF DotSegment
<1> QED
  BY <1>2, <1>4, <1>5, <1>6 DEF SegmentText

LEMMA DriveIsSegment == SegmentText(<<"C:">>)
<1>1. <<"C:">> \in Text
  BY TokensAssumption DEF Text
<1>2. \A i \in DOMAIN <<"C:">> : <<"C:">>[i] = "C:"
  OBVIOUS
<1> QED
  BY <1>1, <1>2 DEF SegmentText, Has

LEMMA PathStarts ==
  ASSUME NEW q \in Text
  PROVE  /\ StartsWith(q, "/") <=> TokenAt(q, 0, "/")
         /\ TextAt(q, 0, <<"/", ".">>) <=> TokenAt(q, 0, "/") /\ TokenAt(q, 1, ".")
         /\ NoDotFirst(q) <=> (TokenAt(q, 0, "/") /\ TokenAt(q, 1, ".") =>
                                 Len(q) > 2 /\ ~TokenAt(q, 2, "/"))
<1>1. PICK n \in Nat : n = Len(q)
  BY LenProperties DEF Text
<1>2. TextAt(q, 0, <<"/", ".">>) <=> TokenAt(q, 0, "/") /\ TokenAt(q, 1, ".")
  BY <1>1 DEF TextAt, TokenAt
<1>3. StartsWith(q, "/") <=> TokenAt(q, 0, "/")
  BY <1>1 DEF StartsWith, TokenAt
<1>4. n > 2 => (TokenAt(q, 2, "/") <=> q[3] = "/")
  BY <1>1 DEF TokenAt
<1> QED
  BY <1>1, <1>2, <1>3, <1>4 DEF NoDotFirst

(* A path that is cut before a slash stays a path.                         *)
LEMMA ShorterPath ==
  ASSUME NEW q, GoodPath(q), TokenAt(q, 0, "/"), NEW n \in Nat, 1 <= n, n <= Len(q),
         n = 1 \/ TokenAt(q, n, "/")
  PROVE  LET p == Upto(q, n)
         IN GoodPath(p) /\ (Slashed(p) => Slashed(q)) /\ TokenAt(p, 0, "/") /\ Len(p) = n
<1>1. q \in Text /\ NoDotFirst(q) /\ ~Has(q, {"?", "#"})
  BY DEF GoodPath, PathWord
<1>2. PICK p : p = Upto(q, n)
  OBVIOUS
<1>3. /\ p \in Text /\ Len(p) = n
      /\ \A t : \A k \in Nat : k < n => (TokenAt(p, k, t) <=> TokenAt(q, k, t))
  BY <1>1, <1>2, UptoTokens
<1>4. TokenAt(p, 0, "/")
  BY <1>3
<1>5. Slashed(p) => Slashed(q)
  <2> SUFFICES ASSUME Slashed(p) PROVE Slashed(q)
    OBVIOUS
  <2>1. 0 < n /\ 1 < n
    BY <1>3 DEF Slashed, TokenAt
  <2> QED
    BY <1>3, <2>1 DEF Slashed
<1>6. NoDotFirst(p)
  <2> SUFFICES ASSUME TokenAt(p, 0, "/"), TokenAt(p, 1, ".")
               PROVE  Len(p) > 2 /\ ~TokenAt(p, 2, "/")
    BY <1>3, PathStarts
  <2>1. 1 < n
    BY <1>3 DEF TokenAt
  <2>2. TokenAt(q, 1, ".")
    BY <1>3, <2>1
  <2>3. ~TokenAt(q, 2, "/")
    BY <1>1, <2>2, PathStarts
  <2>4. n # 2
    BY <2>1, <2>3
  <2> QED
    BY <1>3, <2>1, <2>3, <2>4
<1>7. ~Has(p, {"?", "#"})
  <2> SUFFICES ASSUME NEW i \in DOMAIN p, p[i] \in {"?", "#"} PROVE FALSE
    BY DEF Has
  <2>1. i \in 1..n /\ i \in DOMAIN q
    BY <1>1, <1>3, LenProperties DEF Text
  <2>2. p[i] = q[i]
    BY <1>1, <1>2, <2>1, LenProperties, UptoFacts DEF Text
  <2> QED
    BY <1>1, <2>1, <2>2 DEF Has
<1>8. PathWord(p)
  BY <1>3, <1>4, <1>6, PathStarts, DotFirstIsNoMarker DEF PathWord
<1> QED
  BY <1>2, <1>3, <1>4, <1>5, <1>6, <1>7, <1>8 DEF GoodPath

(* A path with a segment behind it is a path.                              *)
LEMMA LongerPath ==
  ASSUME NEW q, GoodPath(q), NEW x, SegmentText(x)
  PROVE  LET p == (IF Len(q) = 1 THEN q ELSE q \o <<"/">>) \o x
         IN GoodPath(p) /\ (Slashed(p) <=> Slashed(q)) /\ TokenAt(p, 0, "/")
<1>1. /\ q \in Text /\ NoDotFirst(q) /\ ~Has(q, {"?", "#"}) /\ (q = <<>> \/ TokenAt(q, 0, "/"))
      /\ x \in Text /\ ~Has(x, {"/", "?", "#"}) /\ x # <<".">>
  BY PathStarts DEF GoodPath, PathWord, SegmentText
<1>2. PICK y : y = IF Len(q) = 1 THEN q ELSE q \o <<"/">>
  OBVIOUS
<1>3. <<"/">> \in Text /\ Len(<<"/">>) = 1 /\ TokenAt(<<"/">>, 0, "/")
  BY TokensAssumption DEF Text, TokenAt
<1>4. PICK n \in Nat, l \in Nat : n = Len(q) /\ l = Len(x)
  BY <1>1, LenProperties DEF Text
<1>5. /\ y \in Text /\ ~Has(y, {"?", "#"})
      /\ Len(y) = IF n = 1 THEN 1 ELSE n + 1
      /\ TokenAt(y, Len(y) - 1, "/") /\ TokenAt(y, 0, "/")
      /\ \A t : \A k \in Nat : k < n => (TokenAt(y, k, t) <=> TokenAt(q, k, t))
  <2>1. CASE n = 1
    <3>1. y = q
      BY <1>2, <1>4, <2>1
    <3>2. q # <<>>
      <4>1. Len(<<>>) = 0 /\ Len(q) = 1
        BY <1>4, <2>1
      <4> QED
        BY <4>1
    <3>3. TokenAt(q, 0, "/") /\ 1 - 1 = 0
      BY <1>1, <3>2
    <3>4. Len(y) = 1
      BY <1>4, <2>1, <3>1
    <3> QED
      BY <1>1, <1>4, <2>1, <3>1, <3>3, <3>4
  <2>2. CASE n # 1
    <3>1. y = q \o <<"/">>
      BY <1>2, <1>4, <2>2
    <3>2. /\ y \in Text /\ Len(y) = n + 1
          /\ \A t : \A k \in Nat : k < n => (TokenAt(y, k, t) <=> TokenAt(q, k, t))
          /\ TokenAt(y, n, "/")
      <4> HIDE DEF TokenAt
      <4>1. PICK d : d = <<"/">> /\ d \in Text /\ Len(d) = 1 /\ TokenAt(d, 0, "/")
        BY <1>3
      <4>2. /\ q \o d \in Text /\ Len(q \o d) = Len(q) + Len(d)
            /\ \A t : \A k \in Nat : k < Len(q) => (TokenAt(q \o d, k, t) <=> TokenAt(q, k, t))
            /\ \A t : \A k \in Nat : TokenAt(q \o d, Len(q) + k, t) <=> TokenAt(d, k, t)
        BY <1>1, <4>1, JoinTokens
      <4>3. TokenAt(q \o d, Len(q) + 0, "/") /\ n + 0 = n
        BY <4>1, <4>2
      <4> QED
        BY <1>4, <3>1, <4>1, <4>2, <4>3
    <3>3. TokenAt(y, 0, "/")
      <4>1. CASE n = 0
        BY <3>2, <4>1
      <4>2. CASE n > 0
        <5>1. q # <<>>
          BY <1>4, <4>2
        <5>2. TokenAt(q, 0, "/")
          BY <1>1, <5>1
        <5> QED
          BY <3>2, <4>2, <5>2
      <4> QED
        BY <4>1, <4>2
    <3>4. ~Has(y, {"?", "#"})
      <4> SUFFICES ASSUME NEW i \in DOMAIN y, y[i] \in {"?", "#"} PROVE FALSE
        BY DEF Has
      <4>1. i \in 1..n + 1
        BY <3>2, LenProperties DEF Text
      <4>2. CASE i = n + 1
        BY <3>2, <4>2 DEF TokenAt
      <4>3. CASE i # n + 1
        <5>1. i \in 1..n /\ i - 1 \in Nat /\ i - 1 < n /\ (i - 1) + 1 = i /\ i - 1 < n + 1
          BY <4>1, <4>3
        <5>2. TokenAt(y, i - 1, y[i])
          BY <3>2, <5>1 DEF TokenAt
        <5>3. TokenAt(q, i - 1, y[i])
          BY <3>2, <5>1, <5>2
        <5>4. q[i] = y[i] /\ i \in DOMAIN q
          BY <1>1, <1>4, <5>1, <5>3, LenProperties DEF TokenAt, Text
        <5> QED
          BY <1>1, <5>4 DEF Has
      <4> QED
        BY <4>2, <4>3
    <3>5. (n + 1) - 1 = n
      OBVIOUS
    <3> QED
      BY <2>2, <3>2, <3>3, <3>4, <3>5
  <2> QED
    BY <2>1, <2>2
<1>6. PICK p : p = y \o x
  OBVIOUS
<1>7. /\ p \in Text /\ Len(p) = Len(y) + l
      /\ \A t : \A k \in Nat : k < Len(y) => (TokenAt(p, k, t) <=> TokenAt(y, k, t))
      /\ \A t : \A k \in Nat : TokenAt(p, Len(y) + k, t) <=> TokenAt(x, k, t)
  BY <1>1, <1>4, <1>5, <1>6, JoinTokens
<1>8. TokenAt(p, 0, "/")
  <2>1. 0 < Len(y)
    BY <1>4, <1>5
  <2> QED
    BY <1>5, <1>7, <2>1
<1>13. \A k \in Nat : ~TokenAt(x, k, "/")
  <2> SUFFICES ASSUME NEW k \in Nat, TokenAt(x, k, "/") PROVE FALSE
    OBVIOUS
  <2>1. x[k + 1] = "/" /\ k + 1 \in DOMAIN x
    BY <1>1, <1>4, LenProperties DEF TokenAt, Text
  <2> QED
    BY <1>1, <2>1 DEF Has
<1>14. ASSUME n <= 1
       PROVE  (Slashed(p) <=> Slashed(q)) /\ NoDotFirst(p)
  <2>1. Len(y) = 1
    BY <1>4, <1>5, <1>14
  <2>2. \A t : /\ TokenAt(p, 1, t) <=> TokenAt(x, 0, t)
               /\ TokenAt(p, 2, t) <=> TokenAt(x, 1, t)
    <3>1. 1 + 0 = 1 /\ 1 + 1 = 2
      OBVIOUS
    <3> QED
      BY <1>7, <2>1, <3>1
  <2>3. ~Slashed(p) /\ ~TokenAt(p, 2, "/")
    BY <1>13, <2>2 DEF Slashed
  <2>4. ~Slashed(q)
    BY <1>4, <1>14 DEF Slashed, TokenAt
  <2>5. TokenAt(p, 1, ".") => Len(p) > 2
    <3> SUFFICES ASSUME TokenAt(p, 1, ".") PROVE Len(p) > 2
      OBVIOUS
    <3>1. TokenAt(x, 0, ".")
      BY <2>2
    <3>2. l > 0 /\ x[1] = "."
      BY <1>4, <3>1 DEF TokenAt
    <3>3. l # 1
      <4> SUFFICES ASSUME l = 1 PROVE FALSE
        OBVIOUS
      <4>1. x = <<".">>
        BY <1>1, <1>4, <3>2, SeqEqual DEF Text
      <4> QED
        BY <1>1, <4>1
    <3> QED
      BY <1>4, <1>7, <2>1, <3>2, <3>3
  <2>6. NoDotFirst(p)
    BY <1>7, <2>3, <2>5, PathStarts
  <2> QED
    BY <2>3, <2>4, <2>6
<1>15. ASSUME n > 1
       PROVE  (Slashed(p) <=> Slashed(q)) /\ NoDotFirst(p)
  <2>1. Len(y) = n + 1 /\ n < Len(y) /\ Len(y) \in Nat
    BY <1>4, <1>5, <1>15
  <2>2. \A t : \A k \in Nat : k < n => (TokenAt(p, k, t) <=> TokenAt(q, k, t))
    <3> TAKE t
    <3> TAKE k \in Nat
    <3> HAVE k < n
    <3>1. k < Len(y)
      BY <1>4, <2>1
    <3> QED
      BY <1>5, <1>7, <3>1
  <2>3. Slashed(p) <=> Slashed(q)
    BY <1>15, <2>2 DEF Slashed
  <2>4. TokenAt(p, 0, "/") /\ TokenAt(p, 1, ".") => Len(p) > 2 /\ ~TokenAt(p, 2, "/")
    <3> SUFFICES ASSUME TokenAt(p, 0, "/"), TokenAt(p, 1, ".")
                 PROVE  Len(p) > 2 /\ ~TokenAt(p, 2, "/")
      OBVIOUS
    <3>1. TokenAt(q, 0, "/") /\ TokenAt(q, 1, ".")
      BY <1>4, <1>15, <2>2
    <3>2. n > 2 /\ ~TokenAt(q, 2, "/")
      BY <1>1, <1>4, <3>1, PathStarts
    <3>3. ~TokenAt(p, 2, "/")
      BY <2>2, <3>2
    <3> QED
      BY <1>4, <1>7, <2>1, <3>2, <3>3
  <2>5. NoDotFirst(p)
    BY <1>7, <2>4, PathStarts
  <2> QED
    BY <2>3, <2>5
<1>9. Slashed(p) <=> Slashed(q)
  BY <1>4, <1>14, <1>15
<1>10. NoDotFirst(p)
  BY <1>4, <1>14, <1>15
<1>11. ~Has(p, {"?", "#"})
  <2> SUFFICES ASSUME NEW i \in DOMAIN p, p[i] \in {"?", "#"} PROVE FALSE
    BY DEF Has
  <2>1. PICK m \in Nat : m = Len(y)
    BY <1>5, LenProperties DEF Text
  <2>2. i \in 1..m + l
    BY <1>7, <2>1, LenProperties DEF Text
  <2>3. /\ \A j \in 1..m : p[j] = y[j]
        /\ \A j \in 1..l : p[m + j] = x[j]
    BY <1>1, <1>4, <1>5, <1>6, <2>1, JoinFacts
  <2>4. CASE i <= m
    <3>1. i \in 1..m /\ i \in DOMAIN y
      BY <1>5, <2>1, <2>2, <2>4, LenProperties DEF Text
    <3> QED
      BY <1>5, <2>3, <3>1 DEF Has
  <2>5. CASE i > m
    <3>1. i - m \in 1..l /\ m + (i - m) = i
      BY <2>2, <2>5
    <3>2. i - m \in DOMAIN x
      BY <1>1, <1>4, <3>1, LenProperties DEF Text
    <3> QED
      BY <1>1, <2>3, <3>1, <3>2 DEF Has
  <2> QED
    BY <2>2, <2>4, <2>5
<1>12. PathWord(p)
  BY <1>7, <1>8, <1>10, PathStarts, DotFirstIsNoMarker DEF PathWord
<1> QED
  BY <1>2, <1>6, <1>8, <1>9, <1>10, <1>11, <1>12 DEF GoodPath

-----------------------------------------------------------------------------
(* The edits of the open guard.                                            *)

(* What an edit makes of the open guard's text: another path.              *)
Rewrites(u, e, p) ==
  GoodPath(p) /\ (Slashed(p) => Slashed(PathText(u))) /\ e = EditOf(u, p)

(* The facts of an open guard that the edits use.                          *)
Opened(u, g, q, ps, se) ==
  /\ u.ser \in Text /\ ps \in Nat /\ se \in Nat /\ ps = u.path_start /\ se = u.scheme_end
  /\ Len(u.ser) \in Nat /\ ps <= Len(u.ser)
  /\ q = PathText(u) /\ GoodPath(q) /\ q \in Text /\ Len(q) = Len(u.ser) - ps
  /\ \A t : \A k \in Nat : TokenAt(q, k, t) <=> TokenAt(u.ser, ps + k, t)
  /\ g.first = ps + (IF TokenAt(q, 0, "/") THEN 1 ELSE 0)
  /\ q = <<>> \/ TokenAt(q, 0, "/")
  /\ MarkedAt(u) => ps = se + 3 /\ Slashed(q)
  /\ Marked(Parts0(u, g), u.scheme_end) <=> MarkedAt(u)

LEMMA OpenFacts ==
  ASSUME NEW u, NEW g, Held(u, g)
  PROVE  Opened(u, g, PathText(u), u.path_start, u.scheme_end)
<1> DEFINE q == PathText(u)
<1>1. PICK w : w = RestoreAfterPath(u, g)
  OBVIOUS
<1>2. u \in Records /\ HeldShape(u, w) /\ HeldKind(u, w)
  BY <1>1, HeldText, HeldKinds DEF Held
<1>3. /\ u.ser \in Text /\ Len(u.ser) \in Nat /\ u.path_start \in Nat /\ u.scheme_end \in Nat
      /\ u.path_start <= Len(u.ser)
  BY <1>2, Fields DEF HeldShape
<1>4. /\ GoodPath(q) /\ q \in Text /\ Len(q) = Len(u.ser) - u.path_start
      /\ \A t : \A k \in Nat : TokenAt(q, k, t) <=> TokenAt(u.ser, u.path_start + k, t)
  BY <1>2 DEF HeldKind, HeldShape
<1>5. q = <<>> \/ TokenAt(q, 0, "/")
  BY <1>4, PathStarts DEF GoodPath, PathWord
<1>6. MarkedAt(u) => u.path_start = u.scheme_end + 3 /\ Slashed(q)
  BY <1>2 DEF HeldKind
<1> HIDE DEF q
<1>7. g.first = u.path_start + (IF TokenAt(q, 0, "/") THEN 1 ELSE 0)
  <2>1. g.first = u.path_start + (IF TokenAt(u.ser, u.path_start, "/") THEN 1 ELSE 0)
    BY DEF Held
  <2>2. TokenAt(q, 0, "/") <=> TokenAt(u.ser, u.path_start + 0, "/")
    BY <1>4
  <2>3. u.path_start + 0 = u.path_start
    BY <1>3
  <2> QED
    BY <2>1, <2>2, <2>3
<1>8. Marked(Parts0(u, g), u.scheme_end) <=> MarkedAt(u)
  BY DEF Marked, Parts0, MarkedAt
<1> QED
  BY <1>3, <1>4, <1>5, <1>6, <1>7, <1>8 DEF Opened, q

(* An edit that changes nothing.                                           *)
LEMMA Unchanged ==
  ASSUME NEW u, NEW g, NEW q, NEW ps, NEW se, Opened(u, g, q, ps, se)
  PROVE  /\ Rewrites(u, Parts0(u, g), q)
         /\ DropStaleMarker(Parts0(u, g), u.scheme_end) = Parts0(u, g)
<1>1. InFront(u, q) = Upto(u.ser, ps) /\ Upto(u.ser, ps) \in Text /\ Len(Upto(u.ser, ps)) = ps
  <2>1. InFront(u, q) = Upto(u.ser, ps)
    BY DEF Opened, InFront
  <2> QED
    BY <2>1, UptoTokens DEF Opened
<1>2. Upto(u.ser, ps) \o q = u.ser
  BY CutAndJoined DEF Opened, PathText
<1>3. TokenAt(u.ser, ps, "/") <=> TokenAt(q, 0, "/")
  <2>1. TokenAt(q, 0, "/") <=> TokenAt(u.ser, ps + 0, "/")
    BY DEF Opened
  <2>2. ps + 0 = ps
    BY DEF Opened
  <2> QED
    BY <2>1, <2>2
<1>4. Parts0(u, g) = EditOf(u, q)
  BY <1>1, <1>2, <1>3 DEF Parts0, EditOf, Opened
<1>5. Rewrites(u, Parts0(u, g), q)
  BY <1>4 DEF Rewrites, Opened
<1>6. ASSUME MarkedAt(u) PROVE TextAt(u.ser, ps, <<"/", "/">>)
  <2>1. TokenAt(q, 0, "/") /\ TokenAt(q, 1, "/")
    BY <1>6 DEF Opened, Slashed
  <2>2. TokenAt(u.ser, ps + 0, "/") /\ TokenAt(u.ser, ps + 1, "/")
    BY <2>1 DEF Opened
  <2>3. ps \in Nat /\ Len(u.ser) \in Nat
    BY DEF Opened
  <2> QED
    BY <2>2, <2>3 DEF TokenAt, TextAt
<1>7. DropStaleMarker(Parts0(u, g), u.scheme_end) = Parts0(u, g)
  <2>1. Marked(Parts0(u, g), u.scheme_end) <=> MarkedAt(u)
    BY DEF Opened
  <2>2. Parts0(u, g).ser = u.ser /\ Parts0(u, g).start = ps
    BY DEF Parts0, Opened
  <2> QED
    BY <1>6, <2>1, <2>2 DEF DropStaleMarker
<1> QED
  BY <1>5, <1>7

(* A prefix that ends behind a cut.                                        *)
LEMMA UptoSplit ==
  ASSUME NEW s \in Text, NEW a \in Nat, NEW n \in Nat, a + n <= Len(s)
  PROVE  /\ Upto(s, a) \o Upto(From(s, a), n) = Upto(s, a + n)
         /\ Upto(s, a + n) \in Text /\ Len(Upto(s, a + n)) = a + n
         /\ \A t : \A k \in Nat : k < a + n => (TokenAt(Upto(s, a + n), k, t) <=> TokenAt(s, k, t))
<1>1. PICK l \in Nat : l = Len(s) /\ a + n <= l /\ a <= l
  BY LenProperties DEF Text
<1>2. PICK r : r = Upto(s, a + n)
  OBVIOUS
<1>3. /\ r \in Text /\ Len(r) = a + n
      /\ \A t : \A k \in Nat : k < a + n => (TokenAt(r, k, t) <=> TokenAt(s, k, t))
      /\ \A i \in 1..a + n : r[i] = s[i]
  BY <1>1, <1>2, UptoTokens, UptoFacts
<1>4. Upto(r, a) \o From(r, a) = r
  <2>1. a <= Len(r)
    BY <1>3
  <2> QED
    BY <1>3, <2>1, CutAndJoined
<1>5. Upto(r, a) = Upto(s, a)
  <2>1. Kept(r, s, a) /\ a <= Len(r) /\ a <= Len(s)
    BY <1>1, <1>3 DEF Kept
  <2> QED
    BY <1>3, <2>1, UptoKept
<1>6. PICK x \in Text, y \in Text : x = From(r, a) /\ y = Upto(From(s, a), n)
  <2>1. From(r, a) \in Text
    BY <1>3, FromFacts
  <2>2. From(s, a) \in Text /\ Len(From(s, a)) = l - a
    BY <1>1, FromFacts
  <2>3. n \in 0..l - a
    BY <1>1
  <2>4. Upto(From(s, a), n) \in Text
    BY <2>2, <2>3, UptoFacts
  <2> QED
    BY <2>1, <2>4
<1>7. Len(x) = n /\ \A i \in 1..n : x[i] = s[a + i]
  <2>1. a \in 0..Len(r) /\ Len(r) - a = n
    BY <1>3
  <2>2. Len(x) = n /\ \A i \in 1..n : x[i] = r[a + i]
    BY <1>3, <1>6, <2>1, FromFacts
  <2>3. \A i \in 1..n : a + i \in 1..a + n
    OBVIOUS
  <2> QED
    BY <1>3, <2>2, <2>3
<1>8. Len(y) = n /\ \A i \in 1..n : y[i] = s[a + i]
  <2>1. PICK z \in Text : z = From(s, a) /\ Len(z) = l - a /\ \A i \in 1..l - a : z[i] = s[a + i]
    <3>1. a \in 0..Len(s)
      BY <1>1
    <3>2. /\ From(s, a) \in Text /\ Len(From(s, a)) = Len(s) - a
          /\ \A i \in 1..Len(s) - a : From(s, a)[i] = s[a + i]
      BY <3>1, FromFacts
    <3> QED
      BY <1>1, <3>2
  <2>2. n \in 0..l - a /\ \A i \in 1..n : i \in 1..l - a
    BY <1>1
  <2>3. Len(Upto(z, n)) = n /\ \A i \in 1..n : Upto(z, n)[i] = z[i]
    BY <2>1, <2>2, UptoFacts
  <2> QED
    BY <1>6, <2>1, <2>2, <2>3
<1>9. x = y
  BY <1>6, <1>7, <1>8, SeqEqual DEF Text
<1> QED
  BY <1>2, <1>3, <1>4, <1>5, <1>6, <1>9

LEMMA SlashesAt ==
  ASSUME NEW s, Len(s) \in Nat, NEW k \in Nat
  PROVE  TextAt(s, k, <<"/", "/">>) <=> TokenAt(s, k + 0, "/") /\ TokenAt(s, k + 1, "/")
BY DEF TextAt, TokenAt

(* An edit that cuts the path before a slash.                              *)
LEMMA Shortened ==
  ASSUME NEW u, NEW g, NEW q, NEW ps, NEW se, Opened(u, g, q, ps, se), TokenAt(q, 0, "/"),
         NEW n \in Nat, 1 <= n, n <= Len(q), n = 1 \/ TokenAt(q, n, "/"),
         NEW e, e = [Parts0(u, g) EXCEPT !.ser = Upto(u.ser, ps + n)]
  PROVE  Rewrites(u, DropStaleMarker(e, u.scheme_end), Upto(q, n))
<1>1. /\ u.ser \in Text /\ ps \in Nat /\ se \in Nat /\ ps = u.path_start /\ se = u.scheme_end
      /\ Len(u.ser) \in Nat /\ ps <= Len(u.ser) /\ q \in Text /\ GoodPath(q)
      /\ q = From(u.ser, ps) /\ Len(q) = Len(u.ser) - ps /\ g.first = ps + 1
      /\ MarkedAt(u) => ps = se + 3
  BY DEF Opened, PathText
<1>2. PICK p : p = Upto(q, n)
  OBVIOUS
<1>3. GoodPath(p) /\ (Slashed(p) => Slashed(q)) /\ TokenAt(p, 0, "/") /\ Len(p) = n /\ p \in Text
  <2>1. GoodPath(p) /\ (Slashed(p) => Slashed(q)) /\ TokenAt(p, 0, "/") /\ Len(p) = n
    BY <1>1, <1>2, ShorterPath
  <2> QED
    BY <2>1 DEF GoodPath, PathWord
<1>4. PICK s, x : s = Upto(u.ser, ps + n) /\ x = Upto(u.ser, ps)
  OBVIOUS
<1>5. /\ s = x \o p /\ s \in Text /\ Len(s) = ps + n
      /\ \A t : \A k \in Nat : k < ps + n => (TokenAt(s, k, t) <=> TokenAt(u.ser, k, t))
  <2>1. ps + n <= Len(u.ser)
    BY <1>1
  <2> QED
    <3>1. PICK r \in Text : r = u.ser
      BY <1>1
    <3>2. ps + n <= Len(r) /\ ps \in Nat
      BY <1>1, <2>1, <3>1
    <3>3. /\ Upto(r, ps) \o Upto(From(r, ps), n) = Upto(r, ps + n)
          /\ Upto(r, ps + n) \in Text /\ Len(Upto(r, ps + n)) = ps + n
          /\ \A t : \A k \in Nat :
               k < ps + n => (TokenAt(Upto(r, ps + n), k, t) <=> TokenAt(r, k, t))
      BY <3>2, UptoSplit
    <3> QED
      BY <1>1, <1>2, <1>4, <3>1, <3>3
<1>6. x \in Text /\ Len(x) = ps
  BY <1>1, <1>4, UptoTokens
<1>7. e = [ser |-> s, start |-> ps, first |-> ps + 1]
  BY <1>1, <1>4 DEF Parts0
<1>8. Marked(e, se) <=> MarkedAt(u)
  <2>1. ps = se + 3 => \A t : /\ TokenAt(s, se + 1, t) <=> TokenAt(u.ser, se + 1, t)
                              /\ TokenAt(s, se + 2, t) <=> TokenAt(u.ser, se + 2, t)
    <3> SUFFICES ASSUME ps = se + 3
                 PROVE  \A t : /\ TokenAt(s, se + 1, t) <=> TokenAt(u.ser, se + 1, t)
                               /\ TokenAt(s, se + 2, t) <=> TokenAt(u.ser, se + 2, t)
      OBVIOUS
    <3>1. se + 1 \in Nat /\ se + 2 \in Nat /\ se + 1 < ps + n /\ se + 2 < ps + n
      BY <1>1
    <3> QED
      BY <1>5, <3>1
  <2>2. e.start = ps /\ e.ser = s
    BY <1>7
  <2> QED
    BY <1>1, <2>1, <2>2 DEF Marked, MarkedAt
<1>9. TextAt(s, ps, <<"/", "/">>) <=> Slashed(p)
  <2>1. \A t : \A k \in Nat : TokenAt(s, ps + k, t) <=> TokenAt(p, k, t)
    BY <1>3, <1>5, <1>6, JoinTokens
  <2>2. Slashed(p) <=> TokenAt(s, ps + 0, "/") /\ TokenAt(s, ps + 1, "/")
    BY <2>1 DEF Slashed
  <2>3. TextAt(s, ps, <<"/", "/">>) <=> TokenAt(s, ps + 0, "/") /\ TokenAt(s, ps + 1, "/")
    <3>1. ps \in Nat /\ Len(s) \in Nat
      BY <1>1, <1>5
    <3> QED
      BY <3>1, SlashesAt
  <2> QED
    BY <2>2, <2>3
<1>10. CASE MarkedAt(u) /\ ~Slashed(p)
  <2>1. ps = se + 3
    BY <1>1, <1>10
  <2>2. DropStaleMarker(e, se)
          = [ser |-> Upto(s, se + 1) \o From(s, ps), start |-> se + 1, first |-> (ps + 1) - 2]
    <3>1. e.ser = s /\ e.start = ps /\ e.first = ps + 1
      BY <1>7
    <3> QED
      BY <1>8, <1>9, <1>10, <2>1, <3>1 DEF DropStaleMarker
  <2>3. From(s, ps) = p
    BY <1>3, <1>5, <1>6, BehindCut
  <2>4. Upto(s, se + 1) = Upto(u.ser, se + 1)
    <3>1. /\ se + 1 \in Nat /\ se + 1 <= Len(s) /\ se + 1 <= Len(u.ser)
          /\ \A k \in Nat : k < se + 1 => k < ps + n
      <4>1. PICK l \in Nat : l = Len(u.ser)
        BY <1>1
      <4>2. se \in Nat /\ se + 3 <= l /\ Len(s) = se + 3 + n /\ ps + n = se + 3 + n
        BY <1>1, <1>5, <2>1, <4>1
      <4> QED
        BY <4>1, <4>2
    <3>2. Kept(s, u.ser, se + 1)
      BY <1>5, <3>1 DEF Kept
    <3> QED
      BY <1>1, <1>5, <3>1, <3>2, UptoKept
  <2>5. PICK h : h = Upto(u.ser, se + 1) /\ h \in Text /\ Len(h) = se + 1
    <3>1. se + 1 \in Nat /\ se + 1 <= Len(u.ser)
      <4>1. PICK l \in Nat : l = Len(u.ser)
        BY <1>1
      <4>2. se \in Nat /\ se + 3 <= l
        BY <1>1, <2>1, <4>1
      <4> QED
        BY <4>1, <4>2
    <3> QED
      BY <1>1, <3>1, UptoTokens
  <2>6. InFront(u, p) = h
    BY <1>1, <1>10, <2>5 DEF InFront
  <2>7. TokenAt(h \o p, se + 1, "/")
    <3>1. TokenAt(h \o p, Len(h) + 0, "/") <=> TokenAt(p, 0, "/")
      BY <1>3, <2>5, JoinTokens
    <3>2. Len(h) + 0 = se + 1
      BY <1>1, <2>5
    <3> QED
      BY <1>3, <3>1, <3>2
  <2>8. (ps + 1) - 2 = (se + 1) + 1
    BY <1>1, <2>1
  <2>9. DropStaleMarker(e, se) = EditOf(u, p)
    BY <2>2, <2>3, <2>4, <2>5, <2>6, <2>7, <2>8 DEF EditOf
  <2> QED
    BY <1>1, <1>2, <1>3, <2>9 DEF Rewrites, PathText
<1>11. CASE ~(MarkedAt(u) /\ ~Slashed(p))
  <2>1. DropStaleMarker(e, se) = e
    BY <1>7, <1>8, <1>9, <1>11 DEF DropStaleMarker
  <2>2. InFront(u, p) = x
    BY <1>1, <1>4, <1>11 DEF InFront
  <2>3. TokenAt(x \o p, ps, "/")
    <3>1. TokenAt(x \o p, Len(x) + 0, "/") <=> TokenAt(p, 0, "/")
      BY <1>3, <1>6, JoinTokens
    <3>2. Len(x) + 0 = ps
      BY <1>1, <1>6
    <3> QED
      BY <1>3, <3>1, <3>2
  <2>4. e = EditOf(u, p)
    BY <1>5, <1>6, <1>7, <2>2, <2>3 DEF EditOf
  <2> QED
    BY <1>1, <1>2, <1>3, <2>1, <2>4 DEF Rewrites, PathText
<1> QED
  BY <1>10, <1>11

(* The edits, one by one.                                                  *)
LEMMA PopRewrites ==
  ASSUME NEW u, NEW g, NEW q, NEW ps, NEW se, Opened(u, g, q, ps, se)
  PROVE  \E p : Rewrites(u, Popped(Parts0(u, g), u.scheme_end), p)
<1>1. /\ u.ser \in Text /\ ps \in Nat /\ Len(u.ser) \in Nat /\ ps <= Len(u.ser)
      /\ Len(q) = Len(u.ser) - ps /\ q \in Text
      /\ \A t : \A k \in Nat : TokenAt(q, k, t) <=> TokenAt(u.ser, ps + k, t)
      /\ g.first = ps + (IF TokenAt(q, 0, "/") THEN 1 ELSE 0)
      /\ q = <<>> \/ TokenAt(q, 0, "/")
  BY DEF Opened
<1>2. PICK e : e = Parts0(u, g)
  OBVIOUS
<1>3. e.ser = u.ser /\ e.first = g.first /\ g.first \in Nat
  BY <1>1, <1>2 DEF Parts0
<1>4. CASE g.first >= Len(u.ser)
  <2>1. Popped(e, u.scheme_end) = e
    BY <1>3, <1>4 DEF Popped
  <2> QED
    BY <1>2, <2>1, Unchanged
<1>5. CASE ~(g.first >= Len(u.ser))
  <2>1. TokenAt(q, 0, "/") /\ g.first = ps + 1 /\ ps + 1 < Len(u.ser)
    <3>1. q # <<>>
      <4> SUFFICES ASSUME q = <<>> PROVE FALSE
        OBVIOUS
      <4>1. Len(q) = 0
        OBVIOUS
      <4> QED
        BY <1>1, <1>5, <4>1 DEF TokenAt
    <3> QED
      BY <1>1, <1>5, <3>1
  <2>2. PICK k \in Nat : /\ k = LastSlash(e) /\ ps + 1 <= k /\ k <= Len(u.ser)
                         /\ k = ps + 1 \/ TokenAt(u.ser, k, "/")
    <3>1. e.ser \in Text /\ e.first \in Nat /\ e.first <= Len(e.ser)
      BY <1>1, <1>3, <1>5
    <3> QED
      BY <1>3, <2>1, <3>1, LastSlashFacts
  <2>3. PICK n \in Nat : k = ps + n /\ 1 <= n /\ n <= Len(q)
    <3>1. k - ps \in Nat /\ k = ps + (k - ps) /\ 1 <= k - ps /\ k - ps <= Len(q)
      BY <1>1, <2>2
    <3> QED
      BY <3>1
  <2>4. n = 1 \/ TokenAt(q, n, "/")
    BY <1>1, <2>2, <2>3
  <2>5. Popped(e, u.scheme_end)
          = DropStaleMarker([e EXCEPT !.ser = Upto(u.ser, ps + n)], u.scheme_end)
    <3>1. [e EXCEPT !.ser = Upto(@, LastSlash(e))] = [e EXCEPT !.ser = Upto(u.ser, ps + n)]
      BY <1>3, <2>2, <2>3
    <3>2. ~(e.first >= Len(e.ser))
      BY <1>3, <1>5
    <3> QED
      BY <3>1, <3>2 DEF Popped
  <2>6. Rewrites(u, DropStaleMarker([e EXCEPT !.ser = Upto(u.ser, ps + n)], u.scheme_end), Upto(q, n))
    BY <1>2, <2>1, <2>3, <2>4, Shortened
  <2> QED
    BY <1>2, <2>5, <2>6
<1> QED
  BY <1>4, <1>5

LEMMA PopIfEmptyRewrites ==
  ASSUME NEW u, NEW g, NEW q, NEW ps, NEW se, Opened(u, g, q, ps, se)
  PROVE  \E p : Rewrites(u, PoppedIfEmpty(Parts0(u, g), u.scheme_end), p)
<1>1. /\ u.ser \in Text /\ ps \in Nat /\ Len(u.ser) \in Nat /\ ps <= Len(u.ser)
      /\ Len(q) = Len(u.ser) - ps /\ q \in Text
      /\ \A t : \A k \in Nat : TokenAt(q, k, t) <=> TokenAt(u.ser, ps + k, t)
      /\ g.first = ps + (IF TokenAt(q, 0, "/") THEN 1 ELSE 0)
      /\ q = <<>> \/ TokenAt(q, 0, "/")
  BY DEF Opened
<1>2. PICK e : e = Parts0(u, g)
  OBVIOUS
<1>3. e.ser = u.ser /\ e.first = g.first /\ g.first \in Nat
  BY <1>1, <1>2 DEF Parts0
<1>4. CASE g.first >= Len(u.ser)
  <2>1. PoppedIfEmpty(e, u.scheme_end) = e
    BY <1>3, <1>4 DEF PoppedIfEmpty
  <2> QED
    BY <1>2, <2>1, Unchanged
<1>5. CASE ~(g.first >= Len(u.ser)) /\ ~EndsWith(u.ser, "/")
  <2>1. [e EXCEPT !.ser = IF EndsWith(@, "/") THEN Upto(@, Len(@) - 1) ELSE @] = e
    BY <1>2, <1>5 DEF Parts0
  <2>2. PoppedIfEmpty(e, u.scheme_end) = DropStaleMarker(e, u.scheme_end)
    BY <1>3, <1>5, <2>1 DEF PoppedIfEmpty
  <2> QED
    BY <1>2, <2>2, Unchanged
<1>6. CASE ~(g.first >= Len(u.ser)) /\ EndsWith(u.ser, "/")
  <2>1. TokenAt(q, 0, "/") /\ g.first = ps + 1 /\ ps + 1 < Len(u.ser)
    <3>1. q # <<>>
      <4> SUFFICES ASSUME q = <<>> PROVE FALSE
        OBVIOUS
      <4>1. Len(q) = 0
        OBVIOUS
      <4> QED
        BY <1>1, <1>6, <4>1 DEF TokenAt
    <3> QED
      BY <1>1, <1>6, <3>1
  <2>2. PICK n \in Nat : Len(u.ser) - 1 = ps + n /\ 1 <= n /\ n <= Len(q)
    <3>1. PICK l \in Nat : l = Len(u.ser)
      BY <1>1
    <3>2. (l - 1) - ps \in Nat /\ l - 1 = ps + ((l - 1) - ps)
          /\ 1 <= (l - 1) - ps /\ (l - 1) - ps <= l - ps
      BY <1>1, <2>1, <3>1
    <3> QED
      BY <1>1, <3>1, <3>2
  <2>3. TokenAt(q, n, "/")
    <3>1. TokenAt(u.ser, Len(u.ser) - 1, "/")
      BY <1>1, <1>6 DEF EndsWith, TokenAt
    <3> QED
      BY <1>1, <2>2, <3>1
  <2>4. PoppedIfEmpty(e, u.scheme_end)
          = DropStaleMarker([e EXCEPT !.ser = Upto(u.ser, ps + n)], u.scheme_end)
    <3>1. [e EXCEPT !.ser = IF EndsWith(@, "/") THEN Upto(@, Len(@) - 1) ELSE @]
            = [e EXCEPT !.ser = Upto(u.ser, ps + n)]
      BY <1>3, <1>6, <2>2
    <3>2. ~(e.first >= Len(e.ser))
      BY <1>3, <1>6
    <3> QED
      BY <3>1, <3>2 DEF PoppedIfEmpty
  <2>5. Rewrites(u, DropStaleMarker([e EXCEPT !.ser = Upto(u.ser, ps + n)], u.scheme_end), Upto(q, n))
    BY <1>2, <2>1, <2>2, <2>3, Shortened
  <2> QED
    BY <1>2, <2>4, <2>5
<1> QED
  BY <1>4, <1>5, <1>6

LEMMA ClearRewrites ==
  ASSUME NEW u, NEW g, NEW q, NEW ps, NEW se, Opened(u, g, q, ps, se)
  PROVE  \E p : Rewrites(u, Cleared(Parts0(u, g), u.scheme_end), p)
<1>1. PICK p : p = <<"/">>
  OBVIOUS
<1>2. /\ p \in Text /\ Len(p) = 1 /\ TokenAt(p, 0, "/") /\ ~Has(p, {"?", "#"})
      /\ ~Slashed(p) /\ NoDotFirst(p) /\ StartsWith(p, "/")
  <2>1. p \in Text
    BY <1>1, TokensAssumption DEF Text
  <2>2. Len(p) = 1 /\ p[1] = "/" /\ DOMAIN p = 1..1
    BY <1>1
  <2>3. TokenAt(p, 0, "/") /\ ~Slashed(p) /\ StartsWith(p, "/")
    BY <2>2 DEF TokenAt, Slashed, StartsWith
  <2>4. NoDotFirst(p)
    BY <2>2 DEF NoDotFirst, TextAt
  <2>5. ~Has(p, {"?", "#"})
    BY <2>2 DEF Has
  <2> QED
    BY <2>1, <2>2, <2>3, <2>4, <2>5
<1>3. GoodPath(p)
  BY <1>2, DotFirstIsNoMarker DEF GoodPath, PathWord
<1>4. /\ u.ser \in Text /\ ps \in Nat /\ se \in Nat /\ ps = u.path_start /\ se = u.scheme_end
      /\ Len(u.ser) \in Nat /\ ps <= Len(u.ser)
      /\ MarkedAt(u) => ps = se + 3
      /\ Marked(Parts0(u, g), u.scheme_end) <=> MarkedAt(u)
  BY DEF Opened
<1>5. PICK c \in Nat : c = (IF MarkedAt(u) THEN se + 1 ELSE ps) /\ c <= Len(u.ser)
  <2>1. PICK l \in Nat : l = Len(u.ser) /\ ps <= l
    BY <1>4
  <2>2. CASE MarkedAt(u)
    <3>1. se + 1 \in Nat /\ se + 1 <= l
      BY <1>4, <2>1, <2>2
    <3> QED
      BY <2>1, <2>2, <3>1
  <2>3. CASE ~MarkedAt(u)
    BY <1>4, <2>1, <2>3
  <2> QED
    BY <2>2, <2>3
<1>6. PICK h \in Text : h = Upto(u.ser, c) /\ Len(h) = c
  BY <1>4, <1>5, UptoTokens
<1>7. InFront(u, p) = h
  BY <1>2, <1>4, <1>5, <1>6 DEF InFront
<1>8. Parts0(u, g).ser = u.ser /\ Parts0(u, g).start = ps
  BY <1>4 DEF Parts0
<1>9. Cleared(Parts0(u, g), u.scheme_end)
        = [ser |-> Append(h, "/"), start |-> c, first |-> c + 1]
  BY <1>4, <1>5, <1>6, <1>8 DEF Cleared
<1>10. Append(h, "/") = h \o p
  BY <1>1, <1>6, AppendIsConcat DEF Text
<1>11. TokenAt(h \o p, c, "/")
  <2>1. TokenAt(h \o p, Len(h) + 0, "/") <=> TokenAt(p, 0, "/")
    BY <1>2, <1>6, JoinTokens
  <2> QED
    BY <1>2, <1>6, <2>1
<1>12. Cleared(Parts0(u, g), u.scheme_end) = EditOf(u, p)
  BY <1>6, <1>7, <1>9, <1>10, <1>11 DEF EditOf
<1> QED
  BY <1>2, <1>3, <1>12 DEF Rewrites

LEMMA PushRewrites ==
  ASSUME NEW u, NEW g, NEW q, NEW ps, NEW se, Opened(u, g, q, ps, se),
         NEW class, NEW s \in Text
  PROVE  \E p : Rewrites(u, Pushed(Parts0(u, g), class, s), p)
<1>1. /\ u.ser \in Text /\ ps \in Nat /\ ps = u.path_start /\ q \in Text
      /\ Len(u.ser) \in Nat /\ ps <= Len(u.ser) /\ Len(q) = Len(u.ser) - ps
      /\ GoodPath(q) /\ q = From(u.ser, ps) /\ q = PathText(u)
      /\ g.first = ps + (IF TokenAt(q, 0, "/") THEN 1 ELSE 0)
      /\ q = <<>> \/ TokenAt(q, 0, "/")
      /\ MarkedAt(u) => ps = se + 3 /\ Slashed(q)
  BY DEF Opened, PathText
<1>2. PICK e : e = Parts0(u, g)
  OBVIOUS
<1>3. e.ser = u.ser /\ e.start = ps /\ e.first = g.first
      /\ e = [ser |-> u.ser, start |-> ps, first |-> g.first]
  BY <1>1, <1>2 DEF Parts0
<1>4. CASE s \in DotSegment
  <2>1. Pushed(e, class, s) = e
    BY <1>4 DEF Pushed
  <2> QED
    BY <1>2, <2>1, Unchanged
<1>5. CASE s \notin DotSegment
  <2> DEFINE slash == Len(q) # 1
  <2>1. slash <=> Len(e.ser) > e.start + 1 \/ Len(e.ser) = e.start
    <3>1. PICK l \in Nat : l = Len(u.ser)
      BY <1>1
    <3>2. Len(q) = l - ps /\ ps <= l
      BY <1>1, <3>1
    <3> QED
      BY <1>1, <1>3, <3>1, <3>2
  <2>2. PICK x : /\ SegmentText(x)
                 /\ Pushed(e, class, s)
                      = [e EXCEPT !.ser = (IF slash THEN Append(e.ser, "/") ELSE e.ser) \o x,
                                  !.first = IF slash /\ @ = e.start THEN e.start + 1 ELSE @]
    <3> DEFINE text  == IF slash THEN Append(e.ser, "/") ELSE e.ser
               drive == /\ class = "file" /\ s \in DriveLetter
                        /\ \A i \in e.start + 1..Len(text) : text[i] = "/"
               set   == IF class = "other" THEN PathSegmentSet ELSE SpecialPathSegmentSet
    <3>1. Pushed(e, class, s)
            = [e EXCEPT !.ser = text \o IF drive THEN <<"C:">> ELSE Encode(s, set),
                        !.first = IF slash /\ @ = e.start THEN e.start + 1 ELSE @]
      BY <1>5, <2>1 DEF Pushed
    <3>2. SegmentText(<<"C:">>) /\ SegmentText(Encode(s, set))
      BY <1>5, DriveIsSegment, SegmentEncoded
    <3>3. CASE drive
      BY <3>1, <3>2, <3>3
    <3>4. CASE ~drive
      BY <3>1, <3>2, <3>4
    <3> QED
      BY <3>3, <3>4
  <2>3. PICK y, p : y = (IF Len(q) = 1 THEN q ELSE q \o <<"/">>) /\ p = y \o x
    OBVIOUS
  <2>4. GoodPath(p) /\ (Slashed(p) <=> Slashed(q)) /\ TokenAt(p, 0, "/")
    BY <1>1, <2>2, <2>3, LongerPath
  <2>5. x \in Text /\ <<"/">> \in Text /\ "/" \in Tokens
    BY <2>2, TokensAssumption DEF SegmentText, Text
  <2>6. PICK h \in Text : h = Upto(u.ser, ps) /\ Len(h) = ps /\ h \o q = u.ser
    <3>1. Upto(u.ser, ps) \in Text /\ Len(Upto(u.ser, ps)) = ps
      BY <1>1, UptoTokens
    <3>2. PICK r \in Text : r = u.ser /\ ps <= Len(r)
      BY <1>1
    <3>3. Upto(r, ps) \o From(r, ps) = r
      BY <1>1, <3>2, CutAndJoined
    <3> QED
      BY <1>1, <3>1, <3>2, <3>3
  <2>7. (IF slash THEN Append(e.ser, "/") ELSE e.ser) = h \o y
    <3>1. CASE slash
      <4>1. Append(u.ser, "/") = u.ser \o <<"/">>
        BY <1>1, <2>5, AppendIsConcat DEF Text
      <4>2. (h \o q) \o <<"/">> = h \o (q \o <<"/">>)
        BY <1>1, <2>5, JoinAgain
      <4> QED
        BY <1>3, <2>3, <2>6, <3>1, <4>1, <4>2
    <3>2. CASE ~slash
      BY <1>3, <2>3, <2>6, <3>2
    <3> QED
      BY <3>1, <3>2
  <2>8. y \in Text
    BY <1>1, <2>3, <2>5, JoinFacts
  <2>9. (h \o y) \o x = h \o p
    <3>1. (h \o y) \o x = h \o (y \o x)
      BY <2>5, <2>8, JoinAgain
    <3> QED
      BY <2>3, <3>1
  <2>10. (IF slash /\ e.first = e.start THEN e.start + 1 ELSE e.first) = ps + 1
    <3>1. CASE q = <<>>
      <4>1. Len(q) = 0 /\ ~TokenAt(q, 0, "/")
        BY <3>1 DEF TokenAt
      <4>2. g.first = ps
        BY <1>1, <4>1
      <4> QED
        BY <1>3, <4>1, <4>2
    <3>2. CASE q # <<>>
      BY <1>1, <1>3, <3>2
    <3> QED
      BY <3>1, <3>2
  <2>11. Pushed(e, class, s) = [ser |-> h \o p, start |-> ps, first |-> ps + 1]
    BY <1>3, <2>2, <2>7, <2>9, <2>10
  <2>12. InFront(u, p) = h
    BY <1>1, <2>4, <2>6 DEF InFront
  <2>13. TokenAt(h \o p, ps, "/")
    <3>1. p \in Text
      BY <2>4 DEF GoodPath, PathWord
    <3>2. TokenAt(h \o p, Len(h) + 0, "/") <=> TokenAt(p, 0, "/")
      BY <2>6, <3>1, JoinTokens
    <3>3. Len(h) + 0 = ps
      BY <1>1, <2>6
    <3> QED
      BY <2>4, <3>2, <3>3
  <2>14. Pushed(e, class, s) = EditOf(u, p)
    BY <2>6, <2>11, <2>12, <2>13 DEF EditOf
  <2> QED
    BY <1>1, <1>2, <2>4, <2>14 DEF Rewrites
<1> QED
  BY <1>4, <1>5

-----------------------------------------------------------------------------
(* A setter leaves a URL that a guard may be opened on.                    *)

SamePath(c, d) == d.opaque = c.opaque /\ (c.opaque \/ d.path = c.path \/ NoDotFirst(d.path))

LEMMA TrimSamePath ==
  ASSUME NEW u, NEW x, NEW d,
         d \in {PutQuery(Components(u), x), PutFragment(Components(u), x)}
  PROVE  SamePath(Components(u), d) /\ SamePath(Components(u), Trim(d))
<1> DEFINE c == Components(u)
<1>1. PICK sc, un, pw, ho, po, pa, op, qu, fr :
        c = PartsOf(sc, un, pw, ho, po, pa, op, qu, fr)
  BY ComponentsOf
<1>2. c.path = pa /\ c.opaque = op
  BY <1>1, PartsFields DEF FieldsAre
<1>3. d \in {PartsOf(sc, un, pw, ho, po, pa, op, x, fr), PartsOf(sc, un, pw, ho, po, pa, op, qu, x)}
  BY <1>1, QueryPut, FragmentPut
<1>4. PICK a, b : d = PartsOf(sc, un, pw, ho, po, pa, op, a, b)
  BY <1>3
<1>5. d.path = pa /\ d.opaque = op
  BY <1>4, PartsFields DEF FieldsAre
<1>6. PICK y : y = StripEnd(d.path)
  OBVIOUS
<1>7. PutPath(d, y) = PartsOf(sc, un, pw, ho, po, y, op, a, b)
  BY <1>4, PathPut
<1>8. PutPath(d, y).opaque = op
  BY <1>7, PartsFields DEF FieldsAre
<1>9. Trim(d) = d \/ (op /\ Trim(d) = PutPath(d, y))
  BY <1>5, <1>6 DEF Trim
<1> HIDE DEF c
<1>10. SamePath(c, d)
  BY <1>2, <1>5 DEF SamePath
<1>11. SamePath(c, Trim(d))
  BY <1>2, <1>8, <1>9, <1>10 DEF SamePath
<1> QED
  BY <1>10, <1>11 DEF c

LEMMA EditSamePath ==
  ASSUME NEW u, NEW v, ComponentEdit(u, v), ~HrefEdit(u, v)
  PROVE  \E d : Gives(u, v, d) /\ SamePath(Components(u), d)
<1> DEFINE c == Components(u)
<1>1. CASE SchemeEdit(u, v)
  <2>1. PICK s, y : Gives(u, v, PutScheme(c, s, y))
    BY <1>1 DEF SchemeEdit, SchemeChanged
  <2>2. SamePath(c, PutScheme(c, s, y))
    BY PutFields DEF FieldsAre, SamePath
  <2> QED
    BY <2>1, <2>2
<1>2. CASE UsernameEdit(u, v)
  <2>1. PICK s : Gives(u, v, PutUsername(c, s))
    BY <1>2 DEF UsernameEdit
  <2>2. SamePath(c, PutUsername(c, s))
    BY PutFields DEF FieldsAre, SamePath
  <2> QED
    BY <2>1, <2>2
<1>3. CASE PasswordEdit(u, v)
  <2>1. PICK s : Gives(u, v, PutPassword(c, s))
    BY <1>3 DEF PasswordEdit
  <2>2. SamePath(c, PutPassword(c, s))
    BY PutFields DEF FieldsAre, SamePath
  <2> QED
    BY <2>1, <2>2
<1>4. CASE PortEdit(u, v)
  <2>1. PICK p : Gives(u, v, PutPort(c, p))
    BY <1>4 DEF PortEdit
  <2>2. SamePath(c, PutPort(c, p))
    BY PutFields DEF FieldsAre, SamePath
  <2> QED
    BY <2>1, <2>2
<1>5. CASE IpHostEdit(u, v) \/ HostEdit(u, v)
  <2>1. PICK h, p : Gives(u, v, PutHost(c, h, p))
    BY <1>5 DEF IpHostEdit, HostEdit, HostChanged
  <2>2. SamePath(c, PutHost(c, h, p))
    BY PutFields DEF FieldsAre, SamePath
  <2> QED
    BY <2>1, <2>2
<1>6. CASE PathEdit(u, v)
  <2>1. PICK x \in WithSlash(PathIn) : Gives(u, v, PutPath(c, PathFor(u, x)))
    BY <1>6 DEF PathEdit
  <2>2. CannotBeABase(u) \/ NoDotFirst(PathFor(u, x))
    BY DotAssumption, TypesOfUrl DEF PathFor
  <2>3. c.opaque = CannotBeABase(u)
    BY DEF Components
  <2>4. PutPath(c, PathFor(u, x)).opaque = c.opaque /\ PutPath(c, PathFor(u, x)).path = PathFor(u, x)
    BY PutFields DEF FieldsAre
  <2>5. SamePath(c, PutPath(c, PathFor(u, x)))
    BY <2>2, <2>3, <2>4 DEF SamePath
  <2> QED
    BY <2>1, <2>5
<1>7. CASE QueryEdit(u, v)
  <2>1. PICK q : Gives(u, v, PutQuery(c, q)) \/ Gives(u, v, Trim(PutQuery(c, q)))
    BY <1>7 DEF QueryEdit, QueryChanged
  <2> QED
    BY <2>1, TrimSamePath
<1>8. CASE FragmentEdit(u, v)
  <2>1. PICK f : Gives(u, v, PutFragment(c, f)) \/ Gives(u, v, Trim(PutFragment(c, f)))
    BY <1>8 DEF FragmentEdit, FragmentChanged
  <2> QED
    BY <2>1, TrimSamePath
<1> QED
  BY <1>1, <1>2, <1>3, <1>4, <1>5, <1>6, <1>7, <1>8 DEF ComponentEdit

LEMMA EditGood ==
  ASSUME NEW u, Good(u), NEW v \in Records, LaidOut(v), Coherent(v), ComponentEdit(u, v)
  PROVE  Good(v)
<1>1. CASE HrefEdit(u, v)
  <2>1. CannotBeABase(v) \/ NoDotFirst(Path(v))
    BY <1>1, DotAssumption DEF HrefEdit
  <2> QED
    BY <2>1 DEF Good
<1>2. CASE ~HrefEdit(u, v)
  <2>1. PICK d : Gives(u, v, d) /\ SamePath(Components(u), d)
    BY <1>2, EditSamePath
  <2>2. Components(v) = d
    BY <2>1 DEF Gives
  <2>3. /\ Components(u).opaque = CannotBeABase(u) /\ Components(u).path = Path(u)
        /\ Components(v).opaque = CannotBeABase(v) /\ Components(v).path = Path(v)
    BY DEF Components
  <2>4. CannotBeABase(v) \/ NoDotFirst(Path(v))
    BY <2>1, <2>2, <2>3 DEF SamePath, Good
  <2> QED
    BY <2>4 DEF Good
<1> QED
  BY <1>1, <1>2

-----------------------------------------------------------------------------
(* Opening the guard and editing with it.                                  *)

LEMMA OpenHolds ==
  ASSUME NEW u, Good(u), ~CannotBeABase(u), NEW cut, cut = Upto(u.ser, AfterPath(u)),
         NEW v, v = [u EXCEPT !.ser = cut],
         NEW g, g = GuardOf(u.path_start + (IF TokenAt(cut, u.path_start, "/") THEN 1 ELSE 0),
                            From(u.ser, AfterPath(u)), Len(cut))
  PROVE  Held(v, g) /\ RestoreAfterPath(v, g) = u
<1>1. u \in Records /\ LaidOut(u)
  BY DEF Good
<1>2. PICK pe \in Nat, ps \in Nat, l \in Nat :
        /\ pe = AfterPath(u) /\ pe = PathEndOf(u) /\ ps = u.path_start /\ l = Len(u.ser)
        /\ ps <= pe /\ pe <= l
  <2>1. AfterPath(u) = PathEndOf(u)
    BY DEF AfterPath, PathEndOf
  <2>2. /\ PathEndOf(u) \in Nat /\ QueryEndOf(u) \in Nat /\ u.path_start <= PathEndOf(u)
        /\ PathEndOf(u) <= QueryEndOf(u) /\ QueryEndOf(u) <= Len(u.ser)
    BY <1>1, TailBounds
  <2>3. u.path_start \in Nat /\ Len(u.ser) \in Nat
    BY <1>1, Fields
  <2> QED
    BY <2>1, <2>2, <2>3
<1>3. u.ser \in Text /\ u.path_start \in Offset
  BY <1>1, Fields
<1>4. cut \in Text /\ Len(cut) = pe
  BY <1>2, <1>3, UptoTokens
<1>5. PICK tail \in Text : /\ tail = From(u.ser, pe) /\ Len(tail) = l - pe /\ cut \o tail = u.ser
  <2>1. pe \in 0..Len(u.ser)
    BY <1>2
  <2>2. From(u.ser, pe) \in Text /\ Len(From(u.ser, pe)) = Len(u.ser) - pe
    BY <1>3, <2>1, FromFacts
  <2>3. PICK r \in Text : r = u.ser /\ pe <= Len(r)
    BY <1>2, <1>3
  <2>4. Upto(r, pe) \o From(r, pe) = r
    BY <2>3, CutAndJoined
  <2> QED
    BY <1>2, <2>2, <2>3, <2>4
<1>6. g.tail = tail /\ g.old = pe /\ g = GuardOf(g.first, g.tail, g.old)
      /\ g.first = ps + (IF TokenAt(cut, ps, "/") THEN 1 ELSE 0)
  BY <1>2, <1>4, <1>5 DEF GuardOf
<1>7. v = [u EXCEPT !.ser = cut, !.path_start = u.path_start]
  <2>1. u = Rec(u.ser, u.scheme_end, u.username_end, u.host_start, u.host_end, u.port,
                u.path_start, u.query_start, u.fragment_start, u.flags)
    BY <1>1, RecordShape
  <2>2. v = Rec(cut, u.scheme_end, u.username_end, u.host_start, u.host_end, u.port,
                u.path_start, u.query_start, u.fragment_start, u.flags)
    BY <2>1 DEF Rec
  <2>3. [u EXCEPT !.ser = cut, !.path_start = u.path_start] = [v EXCEPT !.path_start = u.path_start]
    OBVIOUS
  <2>4. [v EXCEPT !.path_start = u.path_start] = v
    BY <2>2 DEF Rec
  <2> QED
    BY <2>3, <2>4
<1>8. EditedTo(v, u, cut, u.path_start, g)
  <2>1. PICK x \in Offset : x = u.path_start
    BY <1>3
  <2>2. EditedTo([u EXCEPT !.ser = cut, !.path_start = x], u, cut, x, g)
    BY <1>1, <1>4, RecordEdited
  <2> QED
    BY <1>7, <2>1, <2>2
<1>9. ASSUME NEW x \in Offset, x # NONE => pe <= x
      PROVE  AdjustOpt(x, pe, pe) = x
  <2>1. x \in Nat /\ x <= U32Max /\ U32Max \in Nat
    BY U32MaxAssumption DEF Offset
  <2>2. CASE x = NONE
    BY <2>2 DEF AdjustOpt
  <2>3. CASE x # NONE
    <3>1. pe <= x /\ (x - pe) + pe = x
      BY <1>9, <2>1, <2>3
    <3>2. Adjust(x, pe, pe) = (x - pe) + pe
      BY <2>1, <3>1, AdjustFacts
    <3> QED
      BY <2>3, <3>1, <3>2 DEF AdjustOpt
  <2> QED
    BY <2>2, <2>3
<1>10. /\ u.query_start \in Offset /\ u.fragment_start \in Offset
       /\ u.query_start # NONE => pe <= u.query_start /\ u.query_start - pe <= l - pe
       /\ u.fragment_start # NONE => pe <= u.fragment_start /\ u.fragment_start - pe <= l - pe
  <2>1. PICK qe \in Nat : /\ qe = QueryEndOf(u) /\ pe <= qe /\ qe <= l
                          /\ u.query_start # NONE => pe = u.query_start
                          /\ u.fragment_start # NONE => qe = u.fragment_start
    BY <1>1, <1>2, TailBounds
  <2>2. u.query_start \in Offset /\ u.fragment_start \in Offset
    BY <1>1, Fields
  <2> QED
    BY <1>2, <2>1, <2>2
<1>11. RestoreAfterPath(v, g) = u
  <2>1. RestoreAfterPath(v, g)
          = Rec(cut \o g.tail, u.scheme_end, u.username_end, u.host_start, u.host_end,
                u.port, u.path_start, AdjustOpt(u.query_start, g.old, Len(cut)),
                AdjustOpt(u.fragment_start, g.old, Len(cut)), u.flags)
    BY <1>8 DEF EditedTo
  <2>2. AdjustOpt(u.query_start, pe, pe) = u.query_start
    BY <1>9, <1>10
  <2>3. AdjustOpt(u.fragment_start, pe, pe) = u.fragment_start
    BY <1>9, <1>10
  <2>4. u = Rec(u.ser, u.scheme_end, u.username_end, u.host_start, u.host_end, u.port,
                u.path_start, u.query_start, u.fragment_start, u.flags)
    BY <1>1, RecordShape
  <2> QED
    BY <1>4, <1>5, <1>6, <2>1, <2>2, <2>3, <2>4
<1>12. /\ v \in Records /\ v.ser = cut /\ v.path_start = ps
       /\ v.query_start = u.query_start /\ v.fragment_start = u.fragment_start
       /\ v.flags = u.flags
  BY <1>2, <1>8 DEF EditedTo
<1>13. ~CannotBeABase(v)
  BY <1>12 DEF CannotBeABase
<1>14. PathEndOf(RestoreAfterPath(v, g)) = Len(v.ser) /\ Good(RestoreAfterPath(v, g))
  BY <1>2, <1>4, <1>11, <1>12
<1> QED
  BY <1>5, <1>6, <1>10, <1>11, <1>12, <1>13, <1>14 DEF Held

(* What Edit(e) writes to the record and the guard.                        *)
Wrote(u, g, e, v, h) == /\ v = [u EXCEPT !.ser = e.ser, !.path_start = e.start]
                        /\ h = [g EXCEPT !.first = e.first]

LEMMA EditSound ==
  ASSUME NEW u, NEW g, Held(u, g), Fits(RestoreAfterPath(u, g)),
         NEW e, \E p : Rewrites(u, e, p), NEW v, NEW h, Wrote(u, g, e, v, h),
         Fits(RestoreAfterPath(v, h))
  PROVE  Held(v, h) /\ ButPath(RestoreAfterPath(v, h)) = ButPath(RestoreAfterPath(u, g))
<1>1. PICK w, z : w = RestoreAfterPath(u, g) /\ z = RestoreAfterPath(v, h)
  OBVIOUS
<1>2. PICK p : GoodPath(p) /\ (Slashed(p) => Slashed(PathText(u))) /\ e = EditOf(u, p)
  BY DEF Rewrites
<1>3. Fits(w) /\ Fits(z)
  BY <1>1
<1>4. Held(v, h) /\ Gives(w, z, PutPath(Components(w), p)) /\ z.flags = w.flags
  <2>1. PathEdited(u, g, w, p, e, v, h, z)
    BY <1>1, <1>2, <1>3 DEF PathEdited, Wrote
  <2> QED
    BY <2>1, EditHolds
<1>5. Components(z) = PutPath(Components(w), p) /\ z.flags = w.flags
  BY <1>4 DEF Gives
<1>6. PICK sc, un, pw, ho, po, pa, op, qu, fr :
        Components(w) = PartsOf(sc, un, pw, ho, po, pa, op, qu, fr)
  BY ComponentsOf
<1>7. PutPath(Components(z), <<>>) = PutPath(Components(w), <<>>)
  BY <1>5, <1>6, PathPut
<1>8. ButPath(z) = ButPath(w)
  BY <1>5, <1>7 DEF ButPath, PutPath
<1> QED
  BY <1>1, <1>4, <1>8

-----------------------------------------------------------------------------
(* The invariant: while no guard is open the record is a URL, and while    *)
(* one is open a drop would make it one.                                   *)

GInv ==
  /\ outcome \in {"ok", "err", "panic"}
  /\ outcome # "panic" =>
       (guard = {} /\ Good(url)) \/ (\E g : guard = {g} /\ Held(url, g))

LEMMA ViewIs ==
  /\ guard = {} => View = url
  /\ \A g : guard = {g} => /\ TheGuard = g /\ View = RestoreAfterPath(url, g)
                           /\ Edited = Parts0(url, g)
<1>1. ASSUME NEW g, guard = {g} PROVE TheGuard = g
  BY <1>1 DEF TheGuard
<1>2. ASSUME NEW g, guard = {g}
      PROVE  View = RestoreAfterPath(url, g) /\ Edited = Parts0(url, g)
  BY <1>1, <1>2 DEF View, Edited, Parts0
<1> QED
  BY <1>1, <1>2 DEF View

LEMMA InitGInv == GuardInit => GInv
<1> SUFFICES ASSUME NEW text \in HrefIn, url \in Parse(text), outcome = "ok", guard = {}
             PROVE  GInv
  BY DEF GuardInit, Init
<1>1. Good(url)
  BY ParserAssumption, DotAssumption DEF Good, Coherent
<1> QED
  BY <1>1 DEF GInv

LEMMA SetterGInv ==
  ASSUME GInv, Setter, Fits(View)'
  PROVE  GInv'
<1>1. guard = {} /\ guard' = {} /\ Next /\ outcome # "panic"
  BY CallsNeedNoPanic DEF Setter
<1>2. Good(url)
  BY <1>1 DEF GInv
<1>3. CInv
  BY <1>1, <1>2 DEF GInv, Good, Coherent, CInv, IInv, TypeOK, Layout, FlagsAgree,
                    PortAndCredentials, Unambiguous
<1>4. Fits(url)'
  BY <1>1 DEF View
<1>5. CInv'
  BY <1>1, <1>3, <1>4, NextCInv
<1>6. PICK r : Call(r) /\ Answers(url, r)
  BY <1>1, <1>2, NextAnswers DEF Good
<1>7. url' = url \/ ComponentEdit(url, url')
  BY <1>2, <1>4, <1>6 DEF Call, Answers, Good, Coherent
<1>8. outcome' # "panic" => url' \in Records /\ LaidOut(url') /\ Coherent(url')
  BY <1>5 DEF CInv, IInv, TypeOK, Layout, FlagsAgree, PortAndCredentials, Unambiguous, Coherent
<1>9. outcome' # "panic" => Good(url')
  BY <1>2, <1>7, <1>8, EditGood
<1>10. outcome' \in {"ok", "err", "panic"}
  BY <1>5 DEF CInv, IInv, TypeOK
<1> QED
  BY <1>1, <1>9, <1>10 DEF GInv

(* What opening the guard, an edit and the drop leave.                     *)
Restful == GInv' /\ (outcome' # "panic" => ButPath(View') = ButPath(View))

LEMMA OpenRests ==
  ASSUME GInv, Open
  PROVE  Restful
<1>1. guard = {} /\ outcome # "panic" /\ Good(url)
  BY DEF Open, GInv
<1> DEFINE cut == Upto(url.ser, AfterPath(url))
<1>2. CASE CannotBeABase(url)
  <2>1. url' = url /\ outcome' = "err" /\ guard' = {}
    BY <1>1, <1>2 DEF Open, Call, Err
  <2>2. View' = View
    BY <1>1, <2>1 DEF View
  <2> QED
    BY <1>1, <2>1, <2>2 DEF GInv, Restful
<1>3. CASE ~CannotBeABase(url) /\ Len(cut) > U32Max
  <2>1. outcome' = "panic"
    BY <1>3 DEF Open, Call, Panic
  <2> QED
    BY <2>1 DEF GInv, Restful
<1>4. CASE ~CannotBeABase(url) /\ ~(Len(cut) > U32Max)
  <2>1. PICK g : g = GuardOf(url.path_start + (IF TokenAt(cut, url.path_start, "/") THEN 1 ELSE 0),
                             From(url.ser, AfterPath(url)), Len(cut))
    OBVIOUS
  <2>2. url' = [url EXCEPT !.ser = cut] /\ outcome' = "ok" /\ guard' = {g}
    BY <1>4, <2>1 DEF Open, Call, Ok, GuardOf
  <2>3. Held(url', g) /\ RestoreAfterPath(url', g) = url
    BY <1>1, <1>4, <2>1, <2>2, OpenHolds
  <2>4. View' = View
    BY <1>1, <2>2, <2>3 DEF View, TheGuard
  <2> QED
    BY <2>2, <2>3, <2>4 DEF GInv, Restful
<1> QED
  BY <1>2, <1>3, <1>4

LEMMA DropRests ==
  ASSUME GInv, Drop
  PROVE  Restful
<1>1. guard # {} /\ guard' = {} /\ outcome # "panic"
  BY DEF Drop, Call
<1>2. PICK g : guard = {g} /\ Held(url, g)
  BY <1>1 DEF GInv
<1>3. TheGuard = g /\ View = RestoreAfterPath(url, g)
  BY <1>2, ViewIs
<1>4. CASE Len(url.ser) > U32Max
  <2>1. outcome' = "panic"
    BY <1>4 DEF Drop, Call, Panic
  <2> QED
    BY <2>1 DEF GInv, Restful
<1>5. CASE ~(Len(url.ser) > U32Max)
  <2>1. url' = RestoreAfterPath(url, g) /\ outcome' = "ok"
    BY <1>3, <1>5 DEF Drop, Call, Ok
  <2>2. Good(url')
    BY <1>2, <2>1 DEF Held
  <2>3. View' = View
    BY <1>1, <1>3, <2>1 DEF View
  <2> QED
    BY <1>1, <2>1, <2>2, <2>3 DEF GInv, Restful
<1> QED
  BY <1>4, <1>5

LEMMA EditRests ==
  ASSUME GInv, Fits(View), Fits(View)', NEW e, Edit(e),
         \A g : guard = {g} /\ Held(url, g) => \E p : Rewrites(url, e, p)
  PROVE  Restful
<1>1. CASE outcome = "panic"
  BY <1>1 DEF Edit, GInv, Restful
<1>2. CASE outcome # "panic"
  <2>1. PICK g : guard = {g} /\ Held(url, g)
    BY <1>2 DEF Edit, GInv
  <2>2. PICK h : h = [g EXCEPT !.first = e.first]
    OBVIOUS
  <2>3. TheGuard = g /\ View = RestoreAfterPath(url, g)
    BY <2>1, ViewIs
  <2>4. url' = [url EXCEPT !.ser = e.ser, !.path_start = e.start] /\ guard' = {h}
        /\ outcome' = outcome
    BY <2>2, <2>3 DEF Edit
  <2>5. View' = RestoreAfterPath(url', h)
    BY <2>4 DEF View, TheGuard
  <2>6. Fits(RestoreAfterPath(url, g)) /\ Fits(RestoreAfterPath(url', h))
    BY <2>3, <2>5
  <2>7. \E p : Rewrites(url, e, p)
    BY <2>1
  <2>8. Held(url', h) /\ ButPath(RestoreAfterPath(url', h)) = ButPath(RestoreAfterPath(url, g))
    <3>1. Wrote(url, g, e, url', h)
      BY <2>2, <2>4 DEF Wrote
    <3> QED
      BY <2>1, <2>6, <2>7, <3>1, EditSound
  <2> QED
    BY <1>2, <2>3, <2>4, <2>5, <2>8 DEF GInv, Restful
<1> QED
  BY <1>1, <1>2

LEMMA GuardRests ==
  ASSUME GInv, Fits(View), Fits(View)', Segment \subseteq Text,
         Drop \/ Clear \/ PopIfEmpty \/ Pop \/ Push
  PROVE  Restful
<1>1. \A g : guard = {g} /\ Held(url, g) =>
        /\ Edited = Parts0(url, g)
        /\ Opened(url, g, PathText(url), url.path_start, url.scheme_end)
  BY ViewIs, OpenFacts
<1>2. CASE Drop
  BY <1>2, DropRests
<1>3. CASE Clear
  <2>1. \A g : guard = {g} /\ Held(url, g) =>
          \E p : Rewrites(url, Cleared(Edited, url.scheme_end), p)
    BY <1>1, ClearRewrites
  <2> QED
    BY <1>3, <2>1, EditRests DEF Clear
<1>4. CASE PopIfEmpty
  <2>1. \A g : guard = {g} /\ Held(url, g) =>
          \E p : Rewrites(url, PoppedIfEmpty(Edited, url.scheme_end), p)
    BY <1>1, PopIfEmptyRewrites
  <2> QED
    BY <1>4, <2>1, EditRests DEF PopIfEmpty
<1>5. CASE Pop
  <2>1. \A g : guard = {g} /\ Held(url, g) =>
          \E p : Rewrites(url, Popped(Edited, url.scheme_end), p)
    BY <1>1, PopRewrites
  <2> QED
    BY <1>5, <2>1, EditRests DEF Pop
<1>6. CASE Push
  <2>1. PICK s \in Segment : Edit(Pushed(Edited, Class(url), s))
    BY <1>6 DEF Push
  <2>2. \A g : guard = {g} /\ Held(url, g) =>
          \E p : Rewrites(url, Pushed(Edited, Class(url), s), p)
    BY <1>1, PushRewrites
  <2> QED
    BY <2>1, <2>2, EditRests
<1> QED
  BY <1>2, <1>3, <1>4, <1>5, <1>6

LEMMA NextGInv ==
  ASSUME GInv, [GuardNext]_gvars, Fits(View), Fits(View)', Segment \subseteq Text
  PROVE  /\ GInv'
         /\ (guard # {} \/ guard' # {}) /\ outcome' # "panic" => ButPath(View') = ButPath(View)
<1>1. CASE UNCHANGED gvars
  BY <1>1 DEF gvars, GInv, View, TheGuard
<1>2. CASE Setter
  BY <1>2, SetterGInv DEF Setter
<1>3. CASE Open
  BY <1>3, OpenRests DEF Restful
<1>4. CASE Drop \/ Clear \/ PopIfEmpty \/ Pop \/ Push
  BY <1>4, GuardRests DEF Restful
<1> QED
  BY <1>1, <1>2, <1>3, <1>4 DEF GuardNext

(* Whatever is edited between opening the guard and dropping it, and in    *)
(* whatever order, the drop leaves a record that is laid out: the offsets  *)
(* of query and fragment match the text again, and the marker "/." stands  *)
(* where the path begins with "//" and nowhere else.                       *)
THEOREM DropsAreLaidOut ==
  ASSUME Segment \subseteq Text
  PROVE  GuardSpec /\ []Fits(View) => []DropIsLaidOut
<1>1. GuardInit => GInv
  BY InitGInv
<1>2. GInv /\ [GuardNext]_gvars /\ Fits(View) /\ Fits(View)' => GInv'
  BY NextGInv
<1>3. GInv => DropIsLaidOut
  BY ViewIs DEF GInv, DropIsLaidOut, Good, Held
<1> QED
  BY <1>1, <1>2, <1>3, PTL DEF GuardSpec

(* The guard edits the path and nothing else: what a drop would restore of *)
(* the other components, and the flags, stays when the guard is opened,    *)
(* through every edit and through the drop itself.                         *)
THEOREM GuardEditsPathOnly ==
  ASSUME Segment \subseteq Text
  PROVE  GuardSpec /\ []Fits(View) => EditsPathOnly
<1>1. GuardInit => GInv
  BY InitGInv
<1>2. GInv /\ [GuardNext]_gvars /\ Fits(View) /\ Fits(View)' => GInv'
  BY NextGInv
<1>3. GInv /\ [GuardNext]_gvars /\ Fits(View) /\ Fits(View)'
        => [(guard # {} \/ guard' # {}) /\ outcome' # "panic"
              => ButPath(View') = ButPath(View)]_gvars
  BY NextGInv
<1> QED
  BY <1>1, <1>2, <1>3, PTL DEF GuardSpec, EditsPathOnly
=============================================================================

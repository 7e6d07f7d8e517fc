------------------------- MODULE PathParserProofs --------------------------
(***************************************************************************)
(* What the truncations of the path parser may reach, and that the parser, *)
(* which keeps nothing but a text, implements the list of segments of the  *)
(* standard: for every alphabet and for paths of any length.               *)
(***************************************************************************)
EXTENDS PathParser, UrlTextProofs, FiniteSetTheorems

-----------------------------------------------------------------------------
(* The last slash.                                                         *)

(* A set of numbers that is bounded and not empty has a greatest one.      *)
LEMMA Greatest ==
  ASSUME NEW T, T \subseteq Nat, T # {}, NEW n \in Nat, \A x \in T : x <= n
  PROVE  \E x \in T : \A y \in T : x >= y
<1> DEFINE M == {n - x : x \in T}
<1>1. M \subseteq Nat /\ M # {}
  <2>1. \A x \in T : n - x \in Nat
    OBVIOUS
  <2> QED
    BY <2>1
<1>2. PICK m \in M : \A i \in M : m <= i
  <2> HIDE DEF M
  <2> QED
    BY <1>1, Least
<1>3. PICK x \in T : m = n - x
  BY <1>2
<1>4. ASSUME NEW y \in T PROVE x >= y
  <2>1. n - x <= n - y
    BY <1>2, <1>3
  <2>2. x \in Nat /\ y \in Nat
    OBVIOUS
  <2> QED
    BY <2>1, <2>2
<1> QED
  BY <1>4

IsLastSlash(o, k) ==
  /\ k \in 0..Len(o)
  /\ k = 0 \/ o[k] = "/"
  /\ \A j \in k + 1..Len(o) : o[j] # "/"

(* There is a last slash.                                                  *)
LEMMA LastSlashFacts ==
  ASSUME NEW o \in Text
  PROVE  IsLastSlash(o, LastSlash(o))
<1>1. PICK n \in Nat : n = Len(o)
  BY LenProperties DEF Text
<1> DEFINE T == {0} \cup {k \in 1..n : o[k] = "/"}
<1>2. T \subseteq Nat /\ T # {} /\ \A x \in T : x <= n
  BY <1>1
<1>3. \E x \in T : \A y \in T : x >= y
  <2> HIDE DEF T
  <2> QED
    BY <1>1, <1>2, Greatest
<1>4. PICK m : m = LastSlash(o)
  OBVIOUS
<1>5. m \in T /\ \A y \in T : m >= y
  <2>1. m = CHOOSE x \in T : \A y \in T : x >= y
    BY <1>1, <1>4 DEF LastSlash, Max
  <2> HIDE DEF T
  <2> QED
    BY <1>3, <2>1
<1>6. m \in 0..n /\ (m = 0 \/ o[m] = "/")
  BY <1>5
<1>7. ASSUME NEW j \in m + 1..n PROVE o[j] # "/"
  <2>1. j \in 1..n /\ j > m
    BY <1>6, <1>7
  <2> QED
    BY <1>5, <1>6, <2>1
<1> QED
  BY <1>1, <1>4, <1>6, <1>7 DEF IsLastSlash

(* ... and only one.                                                       *)
LEMMA LastSlashIs ==
  ASSUME NEW o \in Text, NEW k, IsLastSlash(o, k)
  PROVE  LastSlash(o) = k
<1>1. PICK m : m = LastSlash(o)
  OBVIOUS
<1>2. IsLastSlash(o, m)
  BY <1>1, LastSlashFacts
<1>3. Len(o) \in Nat
  BY LenProperties DEF Text
<1>4. ~(m < k)
  BY <1>2, <1>3 DEF IsLastSlash
<1>5. ~(k < m)
  BY <1>2, <1>3 DEF IsLastSlash
<1>6. m \in Nat /\ k \in Nat
  BY <1>2, <1>3 DEF IsLastSlash
<1> QED
  BY <1>1, <1>4, <1>5, <1>6

-----------------------------------------------------------------------------
(* The segments that end.                                                  *)

(* A text that begins and ends with a slash, as what precedes a segment.   *)
Rooted(o) == o \in Text /\ StartsWith(o, "/") /\ EndsWith(o, "/")

(* The text of the parent, and whether there is one that may be left.      *)
HasParent(c, o) == LastSlashCanBeRemoved(c, o)
ParentOf(c, o)  == IF HasParent(c, o) THEN Upto(o, LastSlash(Front(o))) ELSE o

(* The three tests of the drive letter agree: ".." cuts the text at the    *)
(* last slash but one, or not at all.                                      *)
LEMMA ShortenedIs ==
  ASSUME NEW o, Rooted(o), NEW c
  PROVE  EnsureSlash(ShortenPath(c,
           IF EndsWith(o, "/") /\ LastSlashCanBeRemoved(c, o) THEN Front(o) ELSE o))
         = ParentOf(c, o)
<1>0. o \in Text /\ EndsWith(o, "/")
  BY DEF Rooted
<1>1. PICK n \in Nat : n = Len(o) /\ n > 0 /\ o[n] = "/"
  BY <1>0, LenProperties DEF EndsWith, Text
<1>2. PICK f \in Text : f = Front(o) /\ f = Upto(o, n - 1) /\ Len(f) = n - 1
                        /\ \A i \in 1..n - 1 : f[i] = o[i]
  <2>1. n - 1 \in 0..Len(o)
    BY <1>1
  <2>2. Front(o) = Upto(o, n - 1)
    BY <1>1 DEF Front, Upto
  <2> QED
    BY <1>0, <2>1, <2>2, UptoFacts
<1>3. PICK k : k = LastSlash(f)
  OBVIOUS
<1>4. k \in 0..n - 1 /\ (k = 0 \/ f[k] = "/")
  BY <1>2, <1>3, LastSlashFacts DEF IsLastSlash
<1>5. CASE ~LastSlashCanBeRemoved(c, o)
  <2>1. LastSlash(o) = n
    BY <1>0, <1>1, LastSlashIs DEF IsLastSlash
  <2>2. From(o, n) \in Text /\ Len(From(o, n)) = 0
    BY <1>0, <1>1, FromFacts
  <2>3. From(o, n) # <<"C:">>
    BY <2>2
  <2>4. Upto(o, n) = o
    BY <1>0, <1>1, SubSeqFull DEF Upto, Text
  <2>5. ShortenPath(c, o) = o
    BY <2>1, <2>3, <2>4 DEF ShortenPath
  <2> QED
    BY <1>0, <1>5, <2>5 DEF EnsureSlash, ParentOf, HasParent
<1>6. CASE LastSlashCanBeRemoved(c, o)
  <2>1. k > 0 /\ ~(c = "file" /\ From(o, k) \in {<<d, "/">> : d \in Drive})
    BY <1>2, <1>3, <1>6 DEF LastSlashCanBeRemoved
  <2>2. ~(c = "file" /\ From(f, k) = <<"C:">>)
    <3> SUFFICES ASSUME From(f, k) = <<"C:">>, c = "file" PROVE FALSE
      OBVIOUS
    <3>1. k \in 0..Len(f) /\ k \in 0..Len(o)
      BY <1>1, <1>2, <1>4
    <3>2. Len(From(f, k)) = (n - 1) - k /\ \A i \in 1..(n - 1) - k : From(f, k)[i] = f[k + i]
      BY <1>2, <3>1, FromFacts
    <3>3. (n - 1) - k = 1 /\ f[k + 1] = "C:"
      BY <3>2
    <3>4. k + 1 \in 1..n - 1 /\ k + 2 = n
      BY <1>4, <3>3
    <3>5. PICK z \in Text : /\ z = From(o, k) /\ Len(z) = n - k
                            /\ \A i \in 1..n - k : z[i] = o[k + i]
      BY <1>0, <1>1, <3>1, FromFacts
    <3>6. Len(z) = 2 /\ z[1] = "C:" /\ z[2] = "/"
      <4>1. n - k = 2 /\ k \in Nat
        BY <1>4, <3>4
      <4>2. Len(z) = 2 /\ z[1] = o[k + 1] /\ z[2] = o[k + 2]
        BY <3>5, <4>1
      <4>3. f[k + 1] = o[k + 1]
        BY <1>2, <3>4
      <4> QED
        BY <1>1, <3>3, <3>4, <4>2, <4>3
    <3>7. z = <<"C:", "/">>
      BY <3>6 DEF Text
    <3>8. z \in {<<d, "/">> : d \in Drive}
      BY <3>7 DEF Drive
    <3> QED
      BY <2>1, <3>5, <3>8
  <2>3. ShortenPath(c, f) = Upto(f, k)
    BY <1>3, <2>2 DEF ShortenPath
  <2>4. Upto(f, k) = Upto(o, k)
    <3>1. k \in 0..Len(f) /\ k \in 0..Len(o)
      BY <1>1, <1>2, <1>4
    <3>2. /\ Upto(f, k) \in Text /\ Len(Upto(f, k)) = k /\ \A i \in 1..k : Upto(f, k)[i] = f[i]
          /\ Upto(o, k) \in Text /\ Len(Upto(o, k)) = k /\ \A i \in 1..k : Upto(o, k)[i] = o[i]
      BY <1>0, <1>2, <3>1, UptoFacts
    <3>3. \A i \in 1..k : f[i] = o[i]
      BY <1>2, <1>4
    <3>4. \A i \in 1..Len(Upto(f, k)) : Upto(f, k)[i] = Upto(o, k)[i]
      BY <3>2, <3>3
    <3> QED
      BY <3>2, <3>4, SeqEqual DEF Text
  <2>5. PICK u \in Text : u = Upto(o, k) /\ Len(u) = k /\ u[k] = "/"
    <3>1. k \in 0..Len(o) /\ k \in 1..k /\ k \in 1..n - 1
      BY <1>1, <1>4, <2>1
    <3>2. /\ Upto(o, k) \in Text /\ Len(Upto(o, k)) = k
          /\ \A i \in 1..k : Upto(o, k)[i] = o[i]
      BY <1>0, <3>1, UptoFacts
    <3>3. o[k] = "/"
      BY <1>2, <1>4, <2>1, <3>1
    <3> QED
      BY <3>1, <3>2, <3>3
  <2>6. EnsureSlash(u) = u
    BY <2>1, <2>5 DEF EnsureSlash, EndsWith
  <2> QED
    BY <1>0, <1>2, <1>3, <1>6, <2>3, <2>4, <2>5, <2>6 DEF ParentOf, HasParent
<1> QED
  BY <1>5, <1>6

(* The parent begins and ends with a slash too, ...                        *)
LEMMA ParentRooted ==
  ASSUME NEW o, Rooted(o), NEW c
  PROVE  Rooted(ParentOf(c, o)) /\ Len(ParentOf(c, o)) <= Len(o)
<1>1. PICK n \in Nat : o \in Text /\ n = Len(o) /\ n > 0 /\ o[1] = "/"
  BY LenProperties DEF Rooted, StartsWith, Text
<1>2. CASE ~HasParent(c, o)
  BY <1>1, <1>2 DEF ParentOf
<1>3. CASE HasParent(c, o)
  <2>1. PICK f \in Text : f = Front(o) /\ Len(f) = n - 1 /\ \A i \in 1..n - 1 : f[i] = o[i]
    <3>1. n - 1 \in 0..Len(o)
      BY <1>1
    <3>2. Front(o) = Upto(o, n - 1)
      BY <1>1 DEF Front, Upto
    <3> QED
      BY <1>1, <3>1, <3>2, UptoFacts
  <2>2. PICK k \in 1..n - 1 : k = LastSlash(f) /\ f[k] = "/"
    <3>1. LastSlash(f) \in 0..n - 1 /\ (LastSlash(f) = 0 \/ f[LastSlash(f)] = "/")
      BY <2>1, LastSlashFacts DEF IsLastSlash
    <3>2. LastSlash(f) > 0
      BY <1>3, <2>1 DEF HasParent, LastSlashCanBeRemoved
    <3> QED
      BY <1>1, <3>1, <3>2
  <2>3. PICK u \in Text : u = Upto(o, k) /\ Len(u) = k /\ \A i \in 1..k : u[i] = o[i]
    <3>1. k \in 0..Len(o)
      BY <1>1
    <3> QED
      BY <1>1, <3>1, UptoFacts
  <2>4. u[1] = "/" /\ u[k] = "/" /\ k > 0 /\ k <= n
    BY <1>1, <2>1, <2>2, <2>3
  <2>5. ParentOf(c, o) = u
    BY <1>3, <2>1, <2>2, <2>3 DEF ParentOf
  <2> QED
    BY <1>1, <2>3, <2>4, <2>5 DEF Rooted, StartsWith, EndsWith
<1> QED
  BY <1>2, <1>3

(* ... and keeps the drive letter.                                         *)
LEMMA ParentKeepsDrive ==
  ASSUME NEW o, Rooted(o), TextAt(o, 0, DrivePath)
  PROVE  TextAt(ParentOf("file", o), 0, DrivePath)
<1>1. PICK n \in Nat : o \in Text /\ n = Len(o) /\ n > 0 /\ o[n] = "/"
  BY LenProperties DEF Rooted, EndsWith, Text
<1>2. n >= 3 /\ o[1] = "/" /\ o[2] = "C:" /\ o[3] = "/"
  <2>1. Len(DrivePath) = 3 /\ DrivePath[1] = "/" /\ DrivePath[2] = "C:" /\ DrivePath[3] = "/"
    BY DEF DrivePath
  <2>2. 0 + 3 <= n /\ \A i \in 1..3 : o[0 + i] = DrivePath[i]
    BY <1>1, <2>1 DEF TextAt
  <2>3. o[0 + 1] = "/" /\ o[0 + 2] = "C:" /\ o[0 + 3] = "/"
    BY <2>1, <2>2
  <2> QED
    BY <1>1, <2>2, <2>3
<1>3. CASE ~HasParent("file", o)
  BY <1>3 DEF ParentOf
<1>4. CASE HasParent("file", o)
  <2>1. PICK f \in Text : f = Front(o) /\ Len(f) = n - 1 /\ \A i \in 1..n - 1 : f[i] = o[i]
    <3>1. n - 1 \in 0..Len(o)
      BY <1>1
    <3>2. Front(o) = Upto(o, n - 1)
      BY <1>1 DEF Front, Upto
    <3> QED
      BY <1>1, <3>1, <3>2, UptoFacts
  <2>2. PICK k : k = LastSlash(f)
    OBVIOUS
  <2>3. k \in 0..n - 1 /\ \A j \in k + 1..n - 1 : f[j] # "/"
    BY <2>1, <2>2, LastSlashFacts DEF IsLastSlash
  <2>4. k > 0 /\ From(o, k) \notin {<<d, "/">> : d \in Drive}
    BY <1>4, <2>1, <2>2 DEF HasParent, LastSlashCanBeRemoved
  <2>5. k >= 3
    <3>1. CASE n = 3
      <4>1. k = 1
        <5>1. k # 2
          BY <1>2, <2>1, <2>2, <3>1, LastSlashFacts DEF IsLastSlash
        <5> QED
          BY <2>3, <2>4, <3>1, <5>1
      <4>2. PICK z \in Text : z = From(o, 1) /\ Len(z) = 2 /\ \A i \in 1..2 : z[i] = o[1 + i]
        <5>1. 1 \in 0..Len(o) /\ Len(o) - 1 = 2
          BY <1>1, <3>1
        <5>2. /\ From(o, 1) \in Text /\ Len(From(o, 1)) = Len(o) - 1
              /\ \A i \in 1..Len(o) - 1 : From(o, 1)[i] = o[1 + i]
          BY <1>1, <5>1, FromFacts
        <5> QED
          BY <5>1, <5>2
      <4>3. z[1] = "C:" /\ z[2] = "/"
        <5>1. z[1] = o[1 + 1] /\ z[2] = o[1 + 2]
          BY <4>2
        <5> QED
          BY <1>2, <5>1
      <4>4. z = <<"C:", "/">>
        BY <4>2, <4>3 DEF Text
      <4>5. z \in {<<d, "/">> : d \in Drive}
        BY <4>4 DEF Drive
      <4> QED
        BY <2>4, <4>1, <4>2, <4>5
    <3>2. CASE n > 3
      <4>1. 3 \in 1..n - 1
        BY <3>2
      <4>2. f[3] = "/"
        BY <1>2, <2>1, <4>1
      <4> QED
        BY <2>3, <4>1, <4>2
    <3> QED
      BY <1>2, <3>1, <3>2
  <2>6. PICK u \in Text : u = Upto(o, k) /\ Len(u) = k /\ \A i \in 1..k : u[i] = o[i]
    <3>1. k \in 0..Len(o)
      BY <1>1, <2>3
    <3> QED
      BY <1>1, <3>1, UptoFacts
  <2>7. u[1] = "/" /\ u[2] = "C:" /\ u[3] = "/"
    BY <1>2, <2>3, <2>5, <2>6
  <2>8. ParentOf("file", o) = u
    BY <1>4, <2>1, <2>2, <2>6 DEF ParentOf
  <2>9. TextAt(u, 0, DrivePath)
    <3>1. Len(DrivePath) = 3 /\ DrivePath[1] = "/" /\ DrivePath[2] = "C:" /\ DrivePath[3] = "/"
      BY DEF DrivePath
    <3>2. \A i \in 1..3 : i = 1 \/ i = 2 \/ i = 3
      OBVIOUS
    <3>3. \A i \in 1..3 : u[0 + i] = DrivePath[i]
      BY <2>7, <3>1, <3>2
    <3>4. 0 + 3 <= k
      BY <2>3, <2>5
    <3> QED
      BY <2>6, <3>1, <3>3, <3>4 DEF TextAt
  <2> QED
    BY <2>8, <2>9
<1> QED
  BY <1>3, <1>4

(* What begins a text begins it when more is written.                      *)
LEMMA WrittenBehind ==
  ASSUME NEW b, Rooted(b), NEW y \in Text
  PROVE  /\ b \o y \in Text /\ StartsWith(b \o y, "/")
         /\ TextAt(b, 0, DrivePath) => TextAt(b \o y, 0, DrivePath)
         /\ Rooted(b \o y \o <<"/">>)
<1>1. PICK n \in Nat, m \in Nat : b \in Text /\ n = Len(b) /\ m = Len(y) /\ n > 0 /\ b[1] = "/"
  BY LenProperties DEF Rooted, StartsWith, Text
<1>2. PICK r \in Text : r = b \o y /\ Len(r) = n + m /\ \A i \in 1..n : r[i] = b[i]
  BY <1>1, JoinFacts
<1>3. StartsWith(r, "/")
  BY <1>1, <1>2 DEF StartsWith
<1>4. ASSUME TextAt(b, 0, DrivePath) PROVE TextAt(r, 0, DrivePath)
  <2>1. Len(DrivePath) = 3
    BY DEF DrivePath
  <2>2. 0 + 3 <= n /\ \A i \in 1..3 : b[0 + i] = DrivePath[i]
    BY <1>1, <1>4, <2>1 DEF TextAt
  <2>3. 0 + 3 <= n + m /\ \A i \in 1..3 : r[0 + i] = DrivePath[i]
    BY <1>2, <2>2
  <2> QED
    BY <1>2, <2>1, <2>3 DEF TextAt
<1>5. Rooted(r \o <<"/">>)
  <2>1. <<"/">> \in Text /\ Len(<<"/">>) = 1 /\ <<"/">>[1] = "/"
    BY TokensAssumption DEF Text
  <2>2. PICK q \in Text : /\ q = r \o <<"/">> /\ Len(q) = Len(r) + 1
                          /\ \A i \in 1..Len(r) : q[i] = r[i]
                          /\ \A i \in 1..1 : q[Len(r) + i] = <<"/">>[i]
    <3>1. /\ r \o <<"/">> \in Text /\ Len(r \o <<"/">>) = Len(r) + Len(<<"/">>)
          /\ \A i \in 1..Len(r) : (r \o <<"/">>)[i] = r[i]
          /\ \A i \in 1..Len(<<"/">>) : (r \o <<"/">>)[Len(r) + i] = <<"/">>[i]
      BY <2>1, JoinFacts
    <3> QED
      BY <2>1, <3>1
  <2>3. q[1] = "/" /\ q[(n + m) + 1] = "/" /\ Len(q) = (n + m) + 1
    BY <1>1, <1>2, <2>1, <2>2
  <2> QED
    BY <2>2, <2>3 DEF Rooted, StartsWith, EndsWith
<1> QED
  BY <1>2, <1>3, <1>4, <1>5

-----------------------------------------------------------------------------
(* One token.                                                              *)

(* The path after its first token: a slash, then segments of which the     *)
(* last one has no slash.                                                  *)
Begun(p) ==
  /\ p \in [out : Text, seg : Nat]
  /\ p.seg \in 1..Len(p.out)
  /\ p.out[1] = "/" /\ p.out[p.seg] = "/"
  /\ \A j \in p.seg + 1..Len(p.out) : p.out[j] # "/"

LEMMA BegunCut ==
  ASSUME NEW p, Begun(p)
  PROVE  LET b == Upto(p.out, p.seg)
             x == From(p.out, p.seg)
         IN /\ Rooted(b) /\ Len(b) = p.seg
            /\ x \in Text /\ p.out = b \o x
            /\ p.seg >= 3 /\ TextAt(p.out, 0, DrivePath) => TextAt(b, 0, DrivePath)
<1>1. PICK o \in Text, s \in Nat, n \in Nat : o = p.out /\ s = p.seg /\ n = Len(o)
  BY LenProperties DEF Begun, Text
<1>2. s \in 1..n /\ s \in 0..Len(o) /\ o[1] = "/" /\ o[s] = "/"
  BY <1>1 DEF Begun
<1>3. PICK b \in Text : b = Upto(o, s) /\ Len(b) = s /\ \A i \in 1..s : b[i] = o[i]
  BY <1>2, UptoFacts
<1>4. PICK x \in Text : x = From(o, s) /\ Len(x) = n - s /\ \A i \in 1..n - s : x[i] = o[s + i]
  BY <1>1, <1>2, FromFacts
<1>5. Rooted(b)
  BY <1>2, <1>3 DEF Rooted, StartsWith, EndsWith
<1>6. o = b \o x
  <2>1. s <= Len(o)
    BY <1>1, <1>2
  <2>2. Upto(o, s) \o From(o, s) = o
    BY <2>1, CutAndJoined
  <2> QED
    BY <1>3, <1>4, <2>2
<1>7. ASSUME s >= 3, TextAt(o, 0, DrivePath) PROVE TextAt(b, 0, DrivePath)
  <2>1. Len(DrivePath) = 3
    BY DEF DrivePath
  <2>2. \A i \in 1..3 : o[0 + i] = DrivePath[i]
    BY <1>7, <2>1 DEF TextAt
  <2>3. 0 + 3 <= s /\ \A i \in 1..3 : b[0 + i] = DrivePath[i]
    BY <1>3, <1>7, <2>2
  <2> QED
    BY <1>3, <2>1, <2>3 DEF TextAt
<1> QED
  BY <1>1, <1>3, <1>4, <1>5, <1>6, <1>7

AllSlashes(b) == \A i \in DOMAIN b : b[i] = "/"

SlashIf(slash) == IF slash THEN <<"/">> ELSE <<>>

(* What is written of a segment x that follows b and has no dots.          *)
Spelled(c, b, x) ==
  IF c = "file" /\ x \in DriveAlone /\ AllSlashes(b) THEN <<"C:">> ELSE x

(* The three ways a segment ends.                                          *)
EndsAs(c, b, x, slash, r) ==
  \/ x \in DotDotSegment /\ r = ParentOf(c, b)
  \/ x \notin DotDotSegment /\ x \in DotSegment /\ r = b
  \/ /\ x \notin DotDotSegment /\ x \notin DotSegment
     /\ r = b \o Spelled(c, b, x) \o SlashIf(slash)

LEMMA SegmentEndsAs ==
  ASSUME NEW p, Begun(p), NEW c, NEW slash \in BOOLEAN
  PROVE  EndsAs(c, Upto(p.out, p.seg), From(p.out, p.seg), slash, EndSegment(c, p, slash))
<1>1. PICK b : b = Upto(p.out, p.seg)
  OBVIOUS
<1>2. PICK x : x = From(p.out, p.seg)
  OBVIOUS
<1>3. Rooted(b) /\ p.out = b \o x
  BY <1>1, <1>2, BegunCut
<1>4. EnsureSlash(b) = b
  BY <1>3 DEF EnsureSlash, Rooted
<1>5. PICK a : a = EnsureSlash(ShortenPath(c,
              IF EndsWith(b, "/") /\ LastSlashCanBeRemoved(c, b) THEN Front(b) ELSE b))
  OBVIOUS
<1>6. a = ParentOf(c, b)
  BY <1>3, <1>5, ShortenedIs
<1>7. PICK r : r = EndSegment(c, p, slash)
  OBVIOUS
<1>8. r = CASE x \in DotDotSegment -> a
            [] x \in DotSegment -> b
            [] c = "file" /\ x \in DriveAlone /\ AllSlashes(b) ->
                 b \o <<"C:">> \o SlashIf(slash)
            [] OTHER -> b \o x \o SlashIf(slash)
  BY <1>1, <1>2, <1>3, <1>4, <1>5, <1>7 DEF EndSegment, SlashIf, DriveAlone, AllSlashes
<1>9. x \in DotDotSegment => x \notin DotSegment /\ x \notin DriveAlone
  <2>1. x \in DotDotSegment => DOMAIN x = 1..2
    BY DEF DotDotSegment
  <2>2. \A d : DOMAIN <<d>> = 1..1
    OBVIOUS
  <2>3. 2 \in 1..2 /\ 2 \notin 1..1
    OBVIOUS
  <2> QED
    BY <2>1, <2>2, <2>3 DEF DotSegment, DriveAlone
<1>10. x \in DotSegment => x \notin DriveAlone
  BY DEF DotSegment, Drive, DriveAlone
<1>11. EndsAs(c, b, x, slash, r)
  BY <1>6, <1>8, <1>9, <1>10 DEF EndsAs, Spelled
<1> QED
  BY <1>1, <1>2, <1>7, <1>11

(* What is left of the path when a segment ends.                           *)
KeptBy(c, p, slash, r) ==
  /\ r \in Text /\ StartsWith(r, "/") /\ (slash => Rooted(r))
  /\ c = "file" /\ p.seg >= 3 /\ TextAt(p.out, 0, DrivePath) => TextAt(r, 0, DrivePath)

LEMMA SegmentEnds ==
  ASSUME NEW p, Begun(p), NEW c, NEW slash \in BOOLEAN
  PROVE  KeptBy(c, p, slash, EndSegment(c, p, slash))
<1> DEFINE b == Upto(p.out, p.seg)
           x == From(p.out, p.seg)
           r == EndSegment(c, p, slash)
           W(y) == r = b \o y \o SlashIf(slash)
           D == c = "file" /\ p.seg >= 3 /\ TextAt(p.out, 0, DrivePath)
<1> SUFFICES KeptBy(c, p, slash, r)
  OBVIOUS
<1>1. /\ Rooted(b) /\ x \in Text /\ b \in Text
      /\ D => TextAt(b, 0, DrivePath)
  BY BegunCut DEF Rooted
<1>2. <<"C:">> \in Text /\ <<"/">> \in Text
  BY TokensAssumption DEF Text
<1>3. ASSUME NEW y \in Text, W(y) PROVE KeptBy(c, p, slash, r)
  <2>1. /\ b \o y \in Text /\ StartsWith(b \o y, "/")
        /\ TextAt(b, 0, DrivePath) => TextAt(b \o y, 0, DrivePath)
        /\ Rooted(b \o y \o <<"/">>)
    BY <1>1, WrittenBehind
  <2>3. CASE ~slash
    <3>1. r = b \o y
      BY <1>3, <2>1, <2>3, ConcatEmptySeq DEF SlashIf, Text
    <3> HIDE DEF r, b
    <3> QED
      BY <1>1, <2>1, <2>3, <3>1 DEF KeptBy
  <2>4. CASE slash
    <3>1. r = b \o y \o <<"/">>
      BY <1>3, <2>4 DEF SlashIf
    <3>2. b \o y \o <<"/">> = b \o (y \o <<"/">>) /\ y \o <<"/">> \in Text
      BY <1>1, <1>2, ConcatAssociative, ConcatProperties DEF Text
    <3>3. TextAt(b, 0, DrivePath) => TextAt(b \o (y \o <<"/">>), 0, DrivePath)
      BY <1>1, <3>2, WrittenBehind
    <3> HIDE DEF r, b
    <3> QED
      BY <1>1, <2>1, <3>1, <3>2, <3>3 DEF Rooted, KeptBy
  <2> QED
    BY <2>3, <2>4
<1>4. CASE x \in DotDotSegment /\ r = ParentOf(c, b)
  <2>1. Rooted(ParentOf(c, b))
    BY <1>1, ParentRooted
  <2>2. D => TextAt(ParentOf(c, b), 0, DrivePath)
    BY <1>1, ParentKeepsDrive
  <2> HIDE DEF r, b
  <2> QED
    BY <1>4, <2>1, <2>2 DEF Rooted, KeptBy
<1>5. CASE r = b
  <2> HIDE DEF r, b
  <2> QED
    BY <1>1, <1>5 DEF Rooted, KeptBy
<1>6. CASE W(Spelled(c, b, x))
  <2>1. Spelled(c, b, x) \in Text
    BY <1>1, <1>2 DEF Spelled
  <2> QED
    BY <1>3, <1>6, <2>1
<1>7. EndsAs(c, b, x, slash, r)
  BY SegmentEndsAs
<1> HIDE DEF b, x, r
<1> QED
  BY <1>4, <1>5, <1>6, <1>7 DEF EndsAs

(* A text that ends with a slash waits for its next segment.               *)
LEMMA BegunAt ==
  ASSUME NEW o, Rooted(o)
  PROVE  Begun(At(o))
<1>1. o \in Text /\ Len(o) \in Nat /\ Len(o) > 0 /\ o[1] = "/" /\ o[Len(o)] = "/"
  BY LenProperties DEF Rooted, StartsWith, EndsWith, Text
<1>2. At(o).out = o /\ At(o).seg = Len(o) /\ At(o) \in [out : Text, seg : Nat]
  BY <1>1 DEF At
<1> QED
  BY <1>1, <1>2 DEF Begun

(* A token that is no slash is written as one token that is none.          *)
LEMMA TokenWritten ==
  ASSUME NEW t \in Tokens, t # "/"
  PROVE  \E e \in Tokens : Encode(<<t>>, PathSet) = <<e>> /\ e # "/"
<1> DEFINE e == IF t \in PathSet THEN Encoding[t] ELSE t
<1>1. PathSet \subseteq DOMAIN Encoding
  BY DEF PathSet, Encoding
<1>2. \A u \in PathSet : Encoding[u] \in {"%3F", "%23", "%20"}
  BY DEF PathSet, Encoding, TAB
<1>3. e \in Tokens /\ e # "/"
  BY <1>2, TokensAssumption
<1>4. Encode(<<t>>, PathSet) = <<e>>
  <2>1. Len(<<t>>) = 1 /\ <<t>>[1] = t
    OBVIOUS
  <2>2. Encode(<<t>>, PathSet) = [i \in 1..1 |-> IF <<t>>[i] \in PathSet THEN Encoding[<<t>>[i]] ELSE <<t>>[i]]
    BY <2>1 DEF Encode
  <2>3. Encode(<<t>>, PathSet) = [i \in 1..1 |-> e]
    BY <2>1, <2>2
  <2> QED
    BY <2>3
<1> QED
  BY <1>3, <1>4

(* One token more, and the path is still as Begun says.                    *)
LEMMA ReadKeeps ==
  ASSUME NEW p, Begun(p), NEW c, NEW t \in Tokens
  PROVE  LET q == ReadToken(c, p, t)
         IN /\ Begun(q)
            /\ c = "file" /\ p.seg >= 3 /\ TextAt(p.out, 0, DrivePath)
                 => TextAt(q.out, 0, DrivePath)
<1>1. CASE t = TAB
  <2>1. ReadToken(c, p, t) = p
    BY <1>1 DEF ReadToken
  <2> QED
    BY <2>1
<1>2. CASE t # TAB /\ IsSlash(c, t)
  <2>1. PICK r : r = EndSegment(c, p, TRUE)
    OBVIOUS
  <2>2. KeptBy(c, p, TRUE, r)
    BY <2>1, SegmentEnds
  <2>3. Begun(At(r)) /\ At(r).out = r
    BY <2>2, BegunAt DEF KeptBy, At
  <2>4. ReadToken(c, p, t) = At(r)
    BY <1>2, <2>1 DEF ReadToken
  <2> QED
    BY <2>2, <2>3, <2>4 DEF KeptBy
<1>3. CASE t # TAB /\ ~IsSlash(c, t)
  <2>1. PICK e \in Tokens : Encode(<<t>>, PathSet) = <<e>> /\ e # "/"
    BY <1>3, TokenWritten DEF IsSlash
  <2>2. PICK o \in Text, s \in Nat, n \in Nat : o = p.out /\ s = p.seg /\ n = Len(o)
    BY LenProperties DEF Begun, Text
  <2>3. /\ s \in 1..n /\ o[1] = "/" /\ o[s] = "/"
        /\ \A j \in s + 1..n : o[j] # "/"
    BY <2>2 DEF Begun
  <2>4. PICK r \in Text : /\ r = o \o <<e>> /\ Len(r) = n + 1 /\ r[n + 1] = e
                          /\ \A i \in 1..n : r[i] = o[i]
    <3>1. <<e>> \in Text /\ Len(<<e>>) = 1 /\ <<e>>[1] = e
      BY DEF Text
    <3>2. /\ o \o <<e>> \in Text /\ Len(o \o <<e>>) = Len(o) + Len(<<e>>)
          /\ \A i \in 1..Len(o) : (o \o <<e>>)[i] = o[i]
          /\ \A i \in 1..Len(<<e>>) : (o \o <<e>>)[Len(o) + i] = <<e>>[i]
      BY <3>1, JoinFacts
    <3>3. 1 \in 1..Len(<<e>>)
      BY <3>1
    <3>4. (o \o <<e>>)[n + 1] = e
      <4>1. (o \o <<e>>)[Len(o) + 1] = <<e>>[1]
        BY <3>2, <3>3
      <4> QED
        BY <2>2, <3>1, <4>1
    <3> QED
      BY <2>2, <3>1, <3>2, <3>4
  <2>5. PICK q : q = [p EXCEPT !.out = r]
    OBVIOUS
  <2>6. q \in [out : Text, seg : Nat] /\ q.out = r /\ q.seg = s
    BY <2>2, <2>4, <2>5 DEF Begun
  <2>7. ReadToken(c, p, t) = q
    BY <1>3, <2>1, <2>2, <2>4, <2>5 DEF ReadToken
  <2>8. \A j \in s + 1..n + 1 : r[j] # "/"
    BY <2>1, <2>2, <2>3, <2>4
  <2>9. Begun(q)
    BY <2>3, <2>4, <2>6, <2>8 DEF Begun
  <2>10. ASSUME TextAt(o, 0, DrivePath) PROVE TextAt(r, 0, DrivePath)
    <3>1. Len(DrivePath) = 3
      BY DEF DrivePath
    <3>2. 0 + 3 <= n /\ \A i \in 1..3 : o[0 + i] = DrivePath[i]
      BY <2>2, <2>10, <3>1 DEF TextAt
    <3>3. 0 + 3 <= n + 1 /\ \A i \in 1..3 : r[0 + i] = DrivePath[i]
      BY <2>4, <3>2
    <3> QED
      BY <2>4, <3>1, <3>3 DEF TextAt
  <2> QED
    BY <2>2, <2>6, <2>7, <2>9, <2>10
<1> QED
  BY <1>1, <1>2, <1>3

LEMMA OneSlash == Rooted(<<"/">>) /\ ~TextAt(<<"/">>, 0, DrivePath)
<1>1. <<"/">> \in Text /\ Len(<<"/">>) = 1 /\ <<"/">>[1] = "/" /\ Len(DrivePath) = 3
  BY TokensAssumption DEF Text, DrivePath
<1> QED
  BY <1>1 DEF Rooted, StartsWith, EndsWith, TextAt

(* A path that was given no text: nothing is left of it.                   *)
LEMMA EmptySegment ==
  ASSUME NEW slash \in BOOLEAN, NEW c, c # "file"
  PROVE  EndSegment(c, At(<<>>), slash) = SlashIf(slash)
<1>0. At(<<>>) = [out |-> <<>>, seg |-> 0]
  BY DEF At
<1>1. PICK p : p = At(<<>>) /\ p.out = <<>> /\ p.seg = 0
  BY <1>0
<1>2. PICK x : x = From(p.out, p.seg) /\ x = <<>>
  <2>1. From(<<>>, 0) = SubSeq(<<>>, 0 + 1, 0)
    BY DEF From
  <2>2. SubSeq(<<>>, 0 + 1, 0) = <<>>
    BY SubSeqEmpty
  <2> QED
    BY <1>1, <2>1, <2>2
<1>3. x \notin DotDotSegment /\ x \notin DotSegment
  <2>1. DOMAIN x = {} /\ Len(x) = 0
    BY <1>2
  <2>2. x \in DotDotSegment => DOMAIN x = 1..2
    BY DEF DotDotSegment
  <2>3. 1 \in 1..2
    OBVIOUS
  <2> QED
    BY <2>1, <2>2, <2>3 DEF DotSegment
<1>4. EndSegment(c, p, slash) = p.out \o SlashIf(slash)
  BY <1>2, <1>3 DEF EndSegment, SlashIf
<1>5. SlashIf(slash) \in Text
  BY TokensAssumption DEF SlashIf, Text
<1> QED
  BY <1>1, <1>4, <1>5, ConcatEmptySeq DEF Text

(* The first token that is no tab.                                         *)
LEMMA PathStarts ==
  ASSUME NEW c \in Class, NEW t \in Tokens, t # TAB
  PROVE  Begun(PathStart(c, t))
<1>1. Begun(At(<<"/">>)) /\ At(<<"/">>).out = <<"/">>
  BY OneSlash, BegunAt DEF At
<1>2. Begun(ReadToken(c, At(<<"/">>), t))
  BY <1>1, ReadKeeps
<1>3. CASE c # "other" /\ IsSlash(c, t)
  <2>1. PathStart(c, t) = At(<<"/">>)
    BY <1>3 DEF PathStart
  <2> QED
    BY <1>1, <2>1, OneSlash
<1>4. CASE c # "other" /\ ~IsSlash(c, t)
  <2>1. PathStart(c, t) = ReadToken(c, At(<<"/">>), t)
    BY <1>4 DEF PathStart
  <2> QED
    BY <1>2, <2>1
<1>5. CASE c = "other" /\ t = "/"
  <2>1. EndSegment(c, At(<<>>), TRUE) = <<"/">>
    BY <1>5, EmptySegment DEF SlashIf
  <2>2. ReadToken(c, At(<<>>), t) = At(<<"/">>)
    BY <1>5, <2>1 DEF ReadToken, IsSlash, TAB
  <2>3. PathStart(c, t) = At(<<"/">>)
    BY <1>5, <2>2 DEF PathStart
  <2> QED
    BY <1>1, <2>3, OneSlash
<1>6. CASE c = "other" /\ t # "/"
  <2>1. PathStart(c, t) = ReadToken(c, At(<<"/">>), t)
    BY <1>6 DEF PathStart
  <2> QED
    BY <1>2, <2>1
<1> QED
  BY <1>3, <1>4, <1>5, <1>6

-----------------------------------------------------------------------------
(* The invariant of the loop.                                              *)

(* Until a token is read that is no tab the text is the one the loop began *)
(* with; from then on it begins with a slash and has one in front of the   *)
(* last segment, so that every search for a slash finds one.               *)
PInv ==
  /\ class \in Class /\ raw \in Text /\ done \in BOOLEAN
  /\ path \in [out : Text, seg : Nat]
  /\ StaysBelowPathStart
  /\ ~done => IF Unread THEN path = NoText(class) ELSE Begun(path)

LEMMA NoTextFacts ==
  ASSUME NEW c
  PROVE  /\ NoText(c) \in [out : Text, seg : Nat]
         /\ IF c = "other" THEN NoText(c) = At(<<>>) ELSE Begun(NoText(c))
         /\ ~TextAt(NoText(c).out, 0, DrivePath)
<1>1. CASE c = "other"
  <2>1. NoText(c) = At(<<>>)
    BY <1>1 DEF NoText
  <2>2. At(<<>>) \in [out : Text, seg : Nat] /\ At(<<>>).out = <<>>
    BY DEF At, Text
  <2>3. ~TextAt(<<>>, 0, DrivePath)
    <3>1. Len(<<>>) = 0 /\ Len(DrivePath) = 3
      BY DEF DrivePath
    <3> QED
      BY <3>1 DEF TextAt
  <2> QED
    BY <1>1, <2>1, <2>2, <2>3
<1>2. CASE c # "other"
  <2>1. NoText(c) = At(<<"/">>)
    BY <1>2 DEF NoText
  <2>2. Begun(At(<<"/">>)) /\ At(<<"/">>).out = <<"/">>
    BY OneSlash, BegunAt DEF At
  <2> QED
    BY <1>2, <2>1, <2>2, OneSlash DEF Begun
<1> QED
  BY <1>1, <1>2

LEMMA InitPInv == Init => PInv
<1> SUFFICES ASSUME Init PROVE PInv
  OBVIOUS
<1>1. class \in Class /\ raw = <<>> /\ path = NoText(class) /\ done = FALSE
  BY DEF Init
<1>2. Unread /\ raw \in Text
  BY <1>1 DEF Unread, Text
<1>3. StaysBelowPathStart
  <2>1. CASE class = "other"
    BY <1>2, <2>1 DEF StaysBelowPathStart
  <2>2. CASE class # "other"
    <3>1. path = At(<<"/">>)
      BY <1>1, <2>2 DEF NoText
    <3> QED
      BY <3>1, OneSlash DEF StaysBelowPathStart, At, Rooted
  <2> QED
    BY <2>1, <2>2
<1> QED
  BY <1>1, <1>2, <1>3, NoTextFacts DEF PInv

(* What a step of Read does to the path.                                   *)
LEMMA ReadPInv ==
  ASSUME PInv, Read
  PROVE  PInv' /\ (class = "file" /\ path.seg >= 3 /\ TextAt(path.out, 0, DrivePath)
                     => TextAt(path'.out, 0, DrivePath))
<1>1. /\ class \in Class /\ raw \in Text /\ ~done /\ path \in [out : Text, seg : Nat]
      /\ class' = class /\ done' = done
      /\ IF Unread THEN path = NoText(class) ELSE Begun(path)
  BY DEF PInv, Read
<1>2. PICK t \in Alphabet(class) :
        /\ raw' = Append(raw, t)
        /\ path' = IF t # TAB /\ Unread THEN PathStart(class, t)
                   ELSE ReadToken(class, path, t)
  BY DEF Read
<1>3. t \in Tokens
  BY <1>1, PathAssumption
<1>4. PICK n \in Nat : /\ n = Len(raw) /\ raw' \in Text /\ Len(raw') = n + 1
                       /\ \A i \in 1..n : raw'[i] = raw[i]
                       /\ raw'[n + 1] = t
                       /\ DOMAIN raw = 1..n /\ DOMAIN raw' = 1..n + 1
  <2>1. /\ Append(raw, t) \in Seq(Tokens) /\ Len(Append(raw, t)) = Len(raw) + 1
        /\ \A i \in 1..Len(raw) : Append(raw, t)[i] = raw[i]
        /\ Append(raw, t)[Len(raw) + 1] = t
    BY <1>1, <1>3, AppendProperties DEF Text
  <2>2. Len(raw) \in Nat /\ DOMAIN raw = 1..Len(raw) /\ DOMAIN Append(raw, t) = 1..Len(Append(raw, t))
    BY <1>1, <2>1, LenProperties DEF Text
  <2> QED
    BY <1>2, <2>1, <2>2 DEF Text
<1>5. Unread' <=> Unread /\ t = TAB
  <2>1. \A i \in 1..n + 1 : i \in 1..n \/ i = n + 1
    OBVIOUS
  <2> QED
    BY <1>4, <2>1 DEF Unread
<1>6. CASE Unread /\ t = TAB
  <2>1. path' = path
    BY <1>2, <1>6 DEF ReadToken
  <2>2. StaysBelowPathStart'
    BY <1>1, <1>5, <1>6, <2>1 DEF PInv, StaysBelowPathStart
  <2> QED
    BY <1>1, <1>4, <1>5, <1>6, <2>1, <2>2 DEF PInv
<1>7. CASE Unread /\ t # TAB
  <2>1. path' = PathStart(class, t)
    BY <1>2, <1>7
  <2>2. Begun(path')
    BY <1>1, <1>3, <1>7, <2>1, PathStarts
  <2>3. StaysBelowPathStart'
    BY <2>2, LenProperties DEF StaysBelowPathStart, StartsWith, Begun, Text
  <2>4. ~TextAt(path.out, 0, DrivePath)
    BY <1>1, <1>7, NoTextFacts
  <2> QED
    BY <1>1, <1>4, <1>5, <1>7, <2>2, <2>3, <2>4 DEF PInv, Begun
<1>8. CASE ~Unread
  <2>1. path' = ReadToken(class, path, t) /\ Begun(path)
    BY <1>1, <1>2, <1>8
  <2>2. /\ Begun(path')
        /\ class = "file" /\ path.seg >= 3 /\ TextAt(path.out, 0, DrivePath)
             => TextAt(path'.out, 0, DrivePath)
    BY <1>3, <2>1, ReadKeeps
  <2>3. StaysBelowPathStart'
    BY <2>2, LenProperties DEF StaysBelowPathStart, StartsWith, Begun, Text
  <2> QED
    BY <1>1, <1>4, <1>5, <1>8, <2>2, <2>3 DEF PInv, Begun
<1> QED
  BY <1>6, <1>7, <1>8

LEMMA EndPInv ==
  ASSUME PInv, End
  PROVE  PInv' /\ (class = "file" /\ path.seg >= 3 /\ TextAt(path.out, 0, DrivePath)
                     => TextAt(path'.out, 0, DrivePath))
<1>1. /\ class \in Class /\ raw \in Text /\ ~done
      /\ class' = class /\ raw' = raw /\ done' = TRUE
      /\ IF Unread THEN path = NoText(class) ELSE Begun(path)
  BY DEF PInv, End
<1>2. PICK r : r = EndSegment(class, path, FALSE) /\ path' = At(r)
  BY DEF End
<1>3. Unread' = Unread
  BY <1>1 DEF Unread
<1>4. CASE Begun(path)
  <2>1. KeptBy(class, path, FALSE, r)
    BY <1>2, <1>4, SegmentEnds
  <2>2. path' \in [out : Text, seg : Nat] /\ path'.out = r
    BY <1>2, <2>1, LenProperties DEF KeptBy, At, Text
  <2>3. StaysBelowPathStart'
    BY <2>1, <2>2 DEF StaysBelowPathStart, KeptBy
  <2> QED
    BY <1>1, <2>1, <2>2, <2>3 DEF PInv, KeptBy
<1>5. CASE Unread /\ class = "other"
  <2>1. path = At(<<>>)
    BY <1>1, <1>5, NoTextFacts
  <2>2. r = <<>>
    BY <1>2, <1>5, <2>1, EmptySegment DEF SlashIf
  <2>3. path' \in [out : Text, seg : Nat]
    <3>1. path' = [out |-> <<>>, seg |-> 0]
      BY <1>2, <2>2 DEF At
    <3>2. <<>> \in Text /\ 0 \in Nat
      BY DEF Text
    <3> QED
      BY <3>1, <3>2
  <2>4. StaysBelowPathStart'
    BY <1>1, <1>3, <1>5 DEF StaysBelowPathStart
  <2> QED
    BY <1>1, <1>5, <2>3, <2>4 DEF PInv
<1>6. Begun(path) \/ (Unread /\ class = "other")
  BY <1>1, NoTextFacts
<1> QED
  BY <1>4, <1>5, <1>6

LEMMA NextPInv ==
  ASSUME PInv, [Next]_pvars
  PROVE  PInv' /\ (class = "file" /\ path.seg >= 3 /\ TextAt(path.out, 0, DrivePath)
                     => TextAt(path'.out, 0, DrivePath))
<1>1. CASE Read
  BY <1>1, ReadPInv
<1>2. CASE End
  BY <1>2, EndPInv
<1>3. CASE UNCHANGED pvars
  BY <1>3 DEF PInv, pvars, StaysBelowPathStart, Unread
<1> QED
  BY <1>1, <1>2, <1>3 DEF Next

(* However many ".." are read, the text that was written is never cut back *)
(* beyond the slash at path_start.                                         *)
THEOREM PathStaysBelowStart == Spec => []StaysBelowPathStart
<1>1. PInv /\ [Next]_pvars => PInv'
  BY NextPInv
<1>2. PInv => StaysBelowPathStart
  BY DEF PInv
<1> QED
  BY <1>1, <1>2, InitPInv, PTL DEF Spec

(* No step of the parser takes away the drive letter of a file path.       *)
THEOREM DriveLetterStays == Spec => DriveStays
<1>1. PInv /\ [Next]_pvars => PInv'
  BY NextPInv
<1>2. PInv /\ [Next]_pvars =>
        [class = "file" /\ path.seg >= 3 /\ TextAt(path.out, 0, DrivePath)
           => TextAt(path'.out, 0, DrivePath)]_pvars
  BY NextPInv
<1> QED
  BY <1>1, <1>2, InitPInv, PTL DEF Spec, DriveStays

-----------------------------------------------------------------------------
(* The segments of a text.                                                 *)

LEMMA SlashesFinite ==
  ASSUME NEW o \in Text, NEW k
  PROVE  /\ IsFiniteSet(Slashes(o)) /\ Cardinality(Slashes(o)) \in Nat
         /\ IsFiniteSet(SlashesTo(o, k)) /\ Cardinality(SlashesTo(o, k)) \in Nat
         /\ Slashes(o) \subseteq 1..Len(o) /\ SlashesTo(o, k) \subseteq Slashes(o)
<1>1. Len(o) \in Int
  BY LenProperties DEF Text
<1>2. IsFiniteSet(1..Len(o))
  BY <1>1, FS_Interval
<1>3. Slashes(o) \subseteq 1..Len(o) /\ SlashesTo(o, k) \subseteq Slashes(o)
  BY DEF Slashes, SlashesTo
<1>4. IsFiniteSet(Slashes(o)) /\ IsFiniteSet(SlashesTo(o, k))
  BY <1>2, <1>3, FS_Subset
<1> QED
  BY <1>3, <1>4, FS_CardinalityType

(* A slash is the n-th of its text for one n only.                         *)
LEMMA NthSlashIs ==
  ASSUME NEW o \in Text, NEW k \in Slashes(o)
  PROVE  NthSlash(o, Cardinality(SlashesTo(o, k))) = k
<1>1. PICK i : i = Cardinality(SlashesTo(o, k))
  OBVIOUS
<1>2. Slashes(o) \subseteq Nat
  <2>1. Len(o) \in Nat
    BY LenProperties DEF Text
  <2> QED
    BY <2>1, SlashesFinite
<1>3. ASSUME NEW a \in Slashes(o), NEW b \in Slashes(o), a < b
      PROVE  Cardinality(SlashesTo(o, a)) # Cardinality(SlashesTo(o, b))
  <2>1. SlashesTo(o, a) \subseteq SlashesTo(o, b)
    BY <1>2, <1>3 DEF SlashesTo
  <2>2. b \in SlashesTo(o, b) /\ b \notin SlashesTo(o, a)
    BY <1>2, <1>3 DEF SlashesTo
  <2>3. IsFiniteSet(SlashesTo(o, b))
    BY SlashesFinite
  <2> QED
    BY <2>1, <2>2, <2>3, FS_Subset
<1>4. PICK m : m = NthSlash(o, i)
  OBVIOUS
<1>5. m \in Slashes(o) /\ Cardinality(SlashesTo(o, m)) = i
  BY <1>1, <1>4 DEF NthSlash
<1>6. ~(m < k) /\ ~(k < m)
  BY <1>1, <1>3, <1>5
<1>7. m \in Nat /\ k \in Nat
  BY <1>2, <1>5
<1> QED
  BY <1>1, <1>4, <1>6, <1>7

(* Every slash up to the number of them is there.                          *)
LEMMA NthSlashFacts ==
  ASSUME NEW o \in Text, NEW i \in 1..Cardinality(Slashes(o))
  PROVE  NthSlash(o, i) \in Slashes(o) /\ Cardinality(SlashesTo(o, NthSlash(o, i))) = i
<1>1. PICK n \in Nat, c \in Nat : n = Len(o) /\ c = Cardinality(Slashes(o))
  BY LenProperties, SlashesFinite DEF Text
<1> DEFINE T == {k \in Nat : k <= n /\ Cardinality(SlashesTo(o, k)) >= i}
<1>2. n \in T
  <2>1. SlashesTo(o, n) = Slashes(o)
    BY <1>1 DEF SlashesTo, Slashes
  <2> QED
    BY <1>1, <2>1
<1>3. PICK k \in T : \A j \in T : k <= j
  <2>1. T \subseteq Nat /\ T # {}
    BY <1>2
  <2> HIDE DEF T
  <2> QED
    BY <2>1, Least
<1>4. k \in Nat /\ k <= n /\ Cardinality(SlashesTo(o, k)) >= i /\ i \in Nat /\ i >= 1
  BY <1>1, <1>3
<1>5. k >= 1
  <2>1. SlashesTo(o, 0) = {}
    BY <1>1 DEF SlashesTo, Slashes
  <2>2. Cardinality(SlashesTo(o, 0)) = 0
    BY <2>1, FS_EmptySet
  <2> QED
    BY <1>4, <2>2
<1>6. PICK j \in Nat : j = k - 1
  BY <1>4, <1>5
<1>7. PICK w \in Nat : w = Cardinality(SlashesTo(o, j)) /\ w < i
  <2>1. j \notin T
    BY <1>3, <1>4, <1>6
  <2>2. Cardinality(SlashesTo(o, j)) \in Nat /\ j <= n
    BY <1>4, <1>6, SlashesFinite
  <2> QED
    BY <1>4, <2>1, <2>2
<1>8. \A y \in Slashes(o) : y <= k <=> y <= j \/ y = k
  BY <1>1, <1>4, <1>6 DEF Slashes
<1>9. o[k] = "/"
  <2> SUFFICES ASSUME o[k] # "/" PROVE FALSE
    OBVIOUS
  <2>1. k \notin Slashes(o)
    BY DEF Slashes
  <2>2. SlashesTo(o, k) = SlashesTo(o, j)
    BY <1>8, <2>1 DEF SlashesTo
  <2> QED
    BY <1>4, <1>7, <2>2
<1>10. k \in Slashes(o)
  BY <1>1, <1>4, <1>5, <1>9 DEF Slashes
<1>11. Cardinality(SlashesTo(o, k)) = w + 1
  <2>1. SlashesTo(o, k) = SlashesTo(o, j) \cup {k}
    <3>1. k <= k
      BY <1>4
    <3> QED
      BY <1>8, <1>10, <3>1 DEF SlashesTo
  <2>2. k \notin SlashesTo(o, j)
    BY <1>4, <1>6 DEF SlashesTo
  <2>3. IsFiniteSet(SlashesTo(o, j))
    BY SlashesFinite
  <2> QED
    BY <1>7, <2>1, <2>2, <2>3, FS_AddElement
<1>12. Cardinality(SlashesTo(o, k)) = i
  BY <1>4, <1>7, <1>11
<1>13. NthSlash(o, i) = k
  BY <1>10, <1>12, NthSlashIs
<1> QED
  BY <1>10, <1>12, <1>13

(* The last one is the last.                                               *)
LEMMA LastIsNth ==
  ASSUME NEW o \in Text, Slashes(o) # {}
  PROVE  /\ Cardinality(Slashes(o)) \in Nat \ {0}
         /\ NthSlash(o, Cardinality(Slashes(o))) = LastSlash(o)
<1>1. PICK c \in Nat : c = Cardinality(Slashes(o))
  BY SlashesFinite
<1>2. c # 0
  BY <1>1, SlashesFinite, FS_EmptySet
<1>3. c \in 1..c
  BY <1>2
<1>4. PICK k : k = NthSlash(o, c) /\ k \in Slashes(o) /\ Cardinality(SlashesTo(o, k)) = c
  BY <1>1, <1>3, NthSlashFacts
<1>5. SlashesTo(o, k) = Slashes(o)
  BY <1>1, <1>4, SlashesFinite, FS_Subset
<1>6. IsLastSlash(o, k)
  <2>1. Len(o) \in Nat
    BY LenProperties DEF Text
  <2>2. k \in 1..Len(o) /\ o[k] = "/"
    BY <1>4 DEF Slashes
  <2>3. ASSUME NEW j \in k + 1..Len(o) PROVE o[j] # "/"
    <3>1. j \in 1..Len(o) /\ ~(j <= k)
      BY <2>1, <2>2, <2>3
    <3>2. j \notin Slashes(o)
      BY <1>5, <3>1 DEF SlashesTo
    <3> QED
      BY <3>1, <3>2 DEF Slashes
  <2> QED
    BY <2>1, <2>2, <2>3 DEF IsLastSlash
<1>7. LastSlash(o) = k
  BY <1>6, LastSlashIs
<1> QED
  BY <1>1, <1>2, <1>4, <1>7

(* r continues o.                                                          *)
Continues(r, o) == Len(o) <= Len(r) /\ \A i \in 1..Len(o) : r[i] = o[i]

LEMMA NthSlashStays ==
  ASSUME NEW o \in Text, NEW r \in Text, Continues(r, o), NEW i \in 1..Cardinality(Slashes(o))
  PROVE  NthSlash(r, i) = NthSlash(o, i) /\ NthSlash(o, i) \in 1..Len(o)
<1>1. PICK n \in Nat, m \in Nat : n = Len(o) /\ m = Len(r) /\ n <= m
  BY LenProperties DEF Text, Continues
<1>2. PICK k : k = NthSlash(o, i) /\ k \in Slashes(o) /\ Cardinality(SlashesTo(o, k)) = i
  BY NthSlashFacts
<1>3. k \in 1..n /\ k \in 1..m /\ k \in Nat
  BY <1>1, <1>2 DEF Slashes
<1>4. k \in Slashes(r)
  BY <1>1, <1>2, <1>3 DEF Slashes, Continues
<1>5. SlashesTo(r, k) = SlashesTo(o, k)
  <2>1. \A j \in 1..m : j <= k => j \in 1..n /\ r[j] = o[j]
    BY <1>1, <1>3 DEF Continues
  <2>2. \A j \in 1..n : j \in 1..m
    BY <1>1
  <2> QED
    BY <1>1, <2>1, <2>2 DEF SlashesTo, Slashes
<1>6. NthSlash(r, i) = k
  BY <1>2, <1>4, <1>5, NthSlashIs
<1> QED
  BY <1>1, <1>2, <1>3, <1>6

(* What lies between two slashes of o lies there in r too.                 *)
LEMMA BetweenStays ==
  ASSUME NEW o \in Text, NEW r \in Text, Continues(r, o),
         NEW i \in 1..Cardinality(Slashes(o)) - 1
  PROVE  LET z == SubSeq(o, NthSlash(o, i) + 1, NthSlash(o, i + 1) - 1)
         IN /\ z \in Text
            /\ SubSeq(r, NthSlash(r, i) + 1, NthSlash(r, i + 1) - 1) = z
<1>1. PICK n \in Nat, c \in Nat : n = Len(o) /\ n <= Len(r) /\ c = Cardinality(Slashes(o))
  BY LenProperties, SlashesFinite DEF Text, Continues
<1>2. i \in 1..c /\ i + 1 \in 1..c
  BY <1>1
<1>3. PICK a \in 1..n, b \in 1..n :
        /\ a = NthSlash(o, i) /\ a = NthSlash(r, i)
        /\ b = NthSlash(o, i + 1) /\ b = NthSlash(r, i + 1)
  BY <1>1, <1>2, NthSlashStays
<1>4. PICK x : x = SubSeq(o, a + 1, b - 1)
  OBVIOUS
<1>5. PICK y : y = SubSeq(r, a + 1, b - 1)
  OBVIOUS
<1>6. \A j \in a + 1..b - 1 : j \in 1..n
  BY <1>1
<1>7. \A j \in a + 1..b - 1 : o[j] \in Tokens /\ r[j] = o[j]
  BY <1>1, <1>6 DEF Text, Continues
<1>8. /\ x \in Text /\ Len(x) = IF a + 1 <= b - 1 THEN (b - 1) - (a + 1) + 1 ELSE 0
      /\ \A j \in 1..(b - 1) - (a + 1) + 1 : x[j] = o[(a + 1) + j - 1]
  <2>1. a + 1 \in Int /\ b - 1 \in Int /\ \A j \in a + 1..b - 1 : o[j] \in Tokens
    BY <1>1, <1>7
  <2> QED
    BY <1>4, <2>1, SubSeqProperties DEF Text
<1>9. /\ y \in Text /\ Len(y) = IF a + 1 <= b - 1 THEN (b - 1) - (a + 1) + 1 ELSE 0
      /\ \A j \in 1..(b - 1) - (a + 1) + 1 : y[j] = r[(a + 1) + j - 1]
  <2>1. a + 1 \in Int /\ b - 1 \in Int /\ \A j \in a + 1..b - 1 : r[j] \in Tokens
    BY <1>1, <1>7
  <2> QED
    BY <1>5, <2>1, SubSeqProperties DEF Text
<1>10. \A j \in 1..(b - 1) - (a + 1) + 1 : (a + 1) + j - 1 \in a + 1..b - 1
  BY <1>1
<1>11. ASSUME NEW j \in 1..Len(x) PROVE x[j] = y[j]
  <2>1. j \in 1..(b - 1) - (a + 1) + 1
    BY <1>1, <1>8, <1>11
  <2> QED
    BY <1>7, <1>8, <1>9, <1>10, <2>1
<1>12. x = y
  BY <1>8, <1>9, <1>11, SeqEqual DEF Text
<1> QED
  BY <1>3, <1>4, <1>5, <1>8, <1>12

(* The list of the segments that a slash closes.                           *)
LEMMA ClosedFacts ==
  ASSUME NEW o \in Text
  PROVE  /\ ClosedSegments(o) \in Seq(Text)
         /\ Len(ClosedSegments(o))
              = IF Slashes(o) = {} THEN 0 ELSE Cardinality(Slashes(o)) - 1
<1>1. PICK c \in Nat : c = Cardinality(Slashes(o)) /\ (c = 0 <=> Slashes(o) = {})
  BY SlashesFinite, FS_EmptySet
<1> DEFINE z(i) == SubSeq(o, NthSlash(o, i) + 1, NthSlash(o, i + 1) - 1)
<1>2. PICK m \in Nat : (c = 0 => m = 0) /\ (c # 0 => m = c - 1) /\ 1..c - 1 = 1..m
  <2>1. CASE c = 0
    <3>1. 1..c - 1 = 1..0
      BY <2>1
    <3> QED
      BY <2>1, <3>1
  <2>2. CASE c # 0
    <3>1. c - 1 \in Nat
      BY <2>2
    <3> QED
      BY <2>2, <3>1
  <2> QED
    BY <2>1, <2>2
<1>3. \A i \in 1..m : z(i) \in Text
  <2>1. Continues(o, o)
    BY LenProperties DEF Continues, Text
  <2> QED
    BY <1>1, <1>2, <2>1, BetweenStays
<1>4. ClosedSegments(o) = [i \in 1..m |-> z(i)]
  BY <1>1, <1>2 DEF ClosedSegments
<1>5. [i \in 1..m |-> z(i)] \in Seq(Text) /\ Len([i \in 1..m |-> z(i)]) = m
  <2> HIDE DEF z
  <2> QED
    BY <1>3, IsASeq
<1> QED
  BY <1>1, <1>2, <1>4, <1>5

NoSlash(x) == \A i \in 1..Len(x) : x[i] # "/"

(* More text without a slash closes no segment.                            *)
LEMMA ClosedStay ==
  ASSUME NEW o \in Text, NEW y \in Text, NoSlash(y)
  PROVE  Slashes(o \o y) = Slashes(o) /\ ClosedSegments(o \o y) = ClosedSegments(o)
<1>1. PICK n \in Nat, m \in Nat : n = Len(o) /\ m = Len(y)
  BY LenProperties DEF Text
<1>2. PICK r \in Text : /\ r = o \o y /\ Len(r) = n + m
                        /\ \A i \in 1..n : r[i] = o[i]
                        /\ \A i \in 1..m : r[n + i] = y[i]
  <2>1. /\ o \o y \in Text /\ Len(o \o y) = Len(o) + Len(y)
        /\ \A i \in 1..Len(o) : (o \o y)[i] = o[i]
        /\ \A i \in 1..Len(y) : (o \o y)[Len(o) + i] = y[i]
    BY <1>1, JoinFacts
  <2> QED
    BY <1>1, <2>1
<1>3. ASSUME NEW i \in n + 1..n + m PROVE r[i] # "/"
  <2>1. i - n \in 1..m /\ n + (i - n) = i
    BY <1>1
  <2> QED
    BY <1>1, <1>2, <2>1 DEF NoSlash
<1>4. Slashes(r) = Slashes(o)
  <2>1. \A i \in 1..n + m : i \in 1..n \/ i \in n + 1..n + m
    OBVIOUS
  <2>2. \A i \in 1..n : i \in 1..n + m
    OBVIOUS
  <2> QED
    BY <1>1, <1>2, <1>3, <2>1, <2>2 DEF Slashes
<1>5. Continues(r, o)
  BY <1>1, <1>2 DEF Continues
<1>6. \A i \in 1..Cardinality(Slashes(o)) - 1 :
        SubSeq(r, NthSlash(r, i) + 1, NthSlash(r, i + 1) - 1)
          = SubSeq(o, NthSlash(o, i) + 1, NthSlash(o, i + 1) - 1)
  BY <1>5, BetweenStays
<1>7. ClosedSegments(r) = ClosedSegments(o)
  BY <1>4, <1>6 DEF ClosedSegments
<1> QED
  BY <1>2, <1>4, <1>7

(* A segment and a slash: the list is longer by this segment.              *)
LEMMA OneMoreClosed ==
  ASSUME NEW o, Rooted(o), NEW x \in Text, NoSlash(x)
  PROVE  ClosedSegments(o \o x \o <<"/">>) = Append(ClosedSegments(o), x)
<1>1. PICK n \in Nat, m \in Nat : /\ o \in Text /\ n = Len(o) /\ m = Len(x)
                                  /\ n > 0 /\ o[n] = "/"
  BY LenProperties DEF Rooted, EndsWith, Text
<1>2. <<"/">> \in Text /\ Len(<<"/">>) = 1 /\ <<"/">>[1] = "/"
  BY TokensAssumption DEF Text
<1>3. PICK q \in Text : /\ q = o \o x /\ Len(q) = n + m /\ Slashes(q) = Slashes(o)
                        /\ \A i \in 1..n : q[i] = o[i]
                        /\ \A i \in 1..m : q[n + i] = x[i]
  <2>1. /\ o \o x \in Text /\ Len(o \o x) = Len(o) + Len(x)
        /\ \A i \in 1..Len(o) : (o \o x)[i] = o[i]
        /\ \A i \in 1..Len(x) : (o \o x)[Len(o) + i] = x[i]
    BY <1>1, JoinFacts
  <2>2. Slashes(o \o x) = Slashes(o)
    BY <1>1, ClosedStay
  <2> QED
    BY <1>1, <2>1, <2>2
<1>4. PICK r \in Text : /\ r = q \o <<"/">> /\ Len(r) = (n + m) + 1
                        /\ \A i \in 1..n + m : r[i] = q[i]
                        /\ r[(n + m) + 1] = "/"
  <2>1. /\ q \o <<"/">> \in Text /\ Len(q \o <<"/">>) = Len(q) + Len(<<"/">>)
        /\ \A i \in 1..Len(q) : (q \o <<"/">>)[i] = q[i]
        /\ \A i \in 1..Len(<<"/">>) : (q \o <<"/">>)[Len(q) + i] = <<"/">>[i]
    BY <1>2, JoinFacts
  <2>2. 1 \in 1..Len(<<"/">>)
    BY <1>2
  <2>3. (q \o <<"/">>)[Len(q) + 1] = "/"
    BY <1>2, <2>1, <2>2
  <2> QED
    BY <1>2, <1>3, <2>1, <2>3
<1>5. PICK l \in Nat : l = (n + m) + 1
  OBVIOUS
<1>6. Slashes(r) = Slashes(o) \cup {l}
  <2>1. \A i \in 1..l : i \in 1..n + m \/ i = l
    BY <1>5
  <2>2. \A i \in 1..n + m : i \in 1..l
    BY <1>5
  <2>3. Slashes(q) = {i \in 1..n + m : r[i] = "/"}
    BY <1>3, <1>4 DEF Slashes
  <2>4. Slashes(r) = {i \in 1..l : r[i] = "/"}
    BY <1>4, <1>5 DEF Slashes
  <2>5. l \in 1..l /\ r[l] = "/"
    BY <1>4, <1>5
  <2> QED
    BY <1>3, <2>1, <2>2, <2>3, <2>4, <2>5
<1>7. PICK c \in Nat : /\ c = Cardinality(Slashes(o)) /\ c # 0 /\ Slashes(o) # {}
                       /\ NthSlash(o, c) = n
  <2>1. n \in Slashes(o)
    BY <1>1 DEF Slashes
  <2>2. LastSlash(o) = n
    BY <1>1, LastSlashIs DEF IsLastSlash
  <2>3. Slashes(o) # {}
    BY <2>1
  <2> QED
    BY <1>1, <2>2, <2>3, LastIsNth
<1>8. Cardinality(Slashes(r)) = c + 1
  <2>1. l \notin Slashes(o)
    BY <1>1, <1>5 DEF Slashes
  <2>2. IsFiniteSet(Slashes(o))
    BY <1>1, SlashesFinite
  <2> QED
    BY <1>6, <1>7, <2>1, <2>2, FS_AddElement
<1>9. NthSlash(r, c + 1) = l
  <2>1. LastSlash(r) = l
    <3>1. l \in 0..Len(r) /\ r[l] = "/" /\ \A j \in l + 1..Len(r) : r[j] # "/"
      BY <1>4, <1>5
    <3>2. IsLastSlash(r, l)
      BY <3>1 DEF IsLastSlash
    <3> QED
      BY <3>2, LastSlashIs
  <2>2. Slashes(r) # {}
    BY <1>6
  <2> QED
    BY <1>8, <2>1, <2>2, LastIsNth
<1>10. Continues(r, o)
  <2>1. \A i \in 1..n : i \in 1..n + m
    OBVIOUS
  <2> QED
    BY <1>1, <1>3, <1>4, <2>1 DEF Continues
<1>11. NthSlash(r, c) = n
  <2>1. c \in 1..Cardinality(Slashes(o))
    BY <1>7
  <2> QED
    BY <1>1, <1>7, <1>10, <2>1, NthSlashStays
<1>12. SubSeq(r, n + 1, l - 1) = x
  <2>1. l - 1 = n + m /\ \A j \in n + 1..n + m : j \in 1..n + m
    BY <1>5
  <2>2. \A j \in n + 1..n + m : r[j] \in Tokens
    BY <1>4 DEF Text
  <2>3. PICK z : z = SubSeq(r, n + 1, n + m)
    OBVIOUS
  <2>4. n + 1 \in Int /\ n + m \in Int
    OBVIOUS
  <2>5. /\ z \in Text /\ Len(z) = IF n + 1 <= n + m THEN (n + m) - (n + 1) + 1 ELSE 0
        /\ \A j \in 1..(n + m) - (n + 1) + 1 : z[j] = r[(n + 1) + j - 1]
    BY <2>2, <2>3, <2>4, SubSeqProperties DEF Text
  <2>6. Len(z) = m
    BY <2>5
  <2>7. ASSUME NEW j \in 1..m PROVE z[j] = x[j]
    <3>1. (n + 1) + j - 1 = n + j /\ j \in 1..(n + m) - (n + 1) + 1 /\ n + j \in 1..n + m
      OBVIOUS
    <3>2. z[j] = r[n + j]
      BY <2>5, <3>1
    <3> QED
      BY <1>3, <1>4, <3>1, <3>2
  <2>8. z = x
    BY <1>1, <2>5, <2>6, <2>7, SeqEqual DEF Text
  <2> QED
    BY <2>1, <2>3, <2>8
<1> DEFINE z(i) == SubSeq(r, NthSlash(r, i) + 1, NthSlash(r, i + 1) - 1)
           L == ClosedSegments(o)
<1>13. L \in Seq(Text) /\ Len(L) = c - 1 /\ c - 1 \in Nat
  BY <1>1, <1>7, ClosedFacts
<1>14. ASSUME NEW i \in 1..c - 1 PROVE z(i) = L[i]
  <2>1. L = [j \in 1..c - 1 |-> SubSeq(o, NthSlash(o, j) + 1, NthSlash(o, j + 1) - 1)]
    BY <1>7 DEF ClosedSegments
  <2>2. z(i) = SubSeq(o, NthSlash(o, i) + 1, NthSlash(o, i + 1) - 1)
    BY <1>1, <1>7, <1>10, BetweenStays
  <2> QED
    BY <2>1, <2>2
<1>15. z(c) = x
  BY <1>9, <1>11, <1>12
<1>16. ClosedSegments(r) = [i \in 1..c |-> z(i)]
  <2>1. (c + 1) - 1 = c
    OBVIOUS
  <2> QED
    BY <1>8, <2>1 DEF ClosedSegments
<1>17. /\ Append(L, x) \in Seq(Text) /\ Len(Append(L, x)) = (c - 1) + 1
       /\ \A i \in 1..c - 1 : Append(L, x)[i] = L[i]
       /\ Append(L, x)[(c - 1) + 1] = x
  BY <1>13, AppendProperties
<1>18. PICK M \in Seq(Text) : M = [i \in 1..c |-> z(i)] /\ Len(M) = c
                              /\ \A i \in 1..c : M[i] = z(i)
  <2>1. ClosedSegments(r) \in Seq(Text) /\ Len(ClosedSegments(r)) = c
    <3>1. Slashes(r) # {}
      BY <1>6
    <3> QED
      BY <1>8, <3>1, ClosedFacts
  <2> HIDE DEF z
  <2> QED
    BY <1>16, <2>1
<1>19. M = Append(L, x)
  <2>1. (c - 1) + 1 = c /\ \A i \in 1..c : i \in 1..c - 1 \/ i = c
    BY <1>7
  <2>2. \A i \in 1..c : M[i] = Append(L, x)[i]
    <3> HIDE DEF z, L
    <3> QED
      BY <1>14, <1>15, <1>17, <1>18, <2>1
  <2> HIDE DEF z, L
  <2> QED
    BY <1>17, <1>18, <2>1, <2>2, SeqEqual
<1> QED
  BY <1>3, <1>4, <1>16, <1>18, <1>19

LEMMA NothingClosed ==
  /\ ClosedSegments(<<>>) = <<>> /\ Segments(<<>>) = <<>>
  /\ ClosedSegments(<<"/">>) = <<>>
<1>1. <<>> \in Text /\ <<"/">> \in Text /\ Len(<<>>) = 0 /\ Len(<<"/">>) = 1 /\ <<"/">>[1] = "/"
  BY TokensAssumption DEF Text
<1>2. Slashes(<<>>) = {}
  BY <1>1 DEF Slashes
<1>3. ClosedSegments(<<>>) = <<>>
  <2>1. ClosedSegments(<<>>) \in Seq(Text) /\ Len(ClosedSegments(<<>>)) = 0
    BY <1>1, <1>2, ClosedFacts
  <2> QED
    BY <2>1
<1>4. Slashes(<<"/">>) = {1}
  <2>1. \A i : i \in 1..1 <=> i = 1
    OBVIOUS
  <2> QED
    BY <1>1, <2>1 DEF Slashes
<1>5. ClosedSegments(<<"/">>) = <<>>
  <2>1. Cardinality({1}) = 1
    BY FS_Singleton
  <2>2. /\ ClosedSegments(<<"/">>) \in Seq(Text)
        /\ Len(ClosedSegments(<<"/">>)) = 1 - 1
    BY <1>1, <1>4, <2>1, ClosedFacts
  <2> QED
    BY <2>2
<1> QED
  BY <1>2, <1>3, <1>5 DEF Segments

(* What the list of a text with one segment more holds without it.         *)
LEMMA FrontOfAppend ==
  ASSUME NEW l \in Seq(Text), NEW x \in Text
  PROVE  /\ Append(l, x) # <<>> /\ Append(l, x)[Len(Append(l, x))] = x
         /\ SubSeq(Append(l, x), 1, Len(Append(l, x)) - 1) = l
<1>1. PICK n \in Nat : n = Len(l)
  BY LenProperties
<1>2. PICK a \in Seq(Text) : /\ a = Append(l, x) /\ a # <<>> /\ Len(a) = n + 1
                             /\ \A i \in 1..n : a[i] = l[i]
                             /\ a[n + 1] = x
  BY <1>1, AppendProperties
<1>3. PICK z : z = SubSeq(a, 1, n)
  OBVIOUS
<1>4. z \in Seq(Text) /\ Len(z) = n /\ \A i \in 1..n : z[i] = a[i]
  <2>1. \A i \in 1..n : i \in 1..n + 1
    OBVIOUS
  <2>2. \A i \in 1..n : a[i] \in Text
    BY <1>2, <2>1, LenProperties
  <2>3. /\ z \in Seq(Text) /\ Len(z) = IF 1 <= n THEN n - 1 + 1 ELSE 0
        /\ \A i \in 1..n - 1 + 1 : z[i] = a[1 + i - 1]
    BY <1>3, <2>2, SubSeqProperties
  <2>4. \A i \in 1..n : i \in 1..n - 1 + 1 /\ 1 + i - 1 = i
    OBVIOUS
  <2> QED
    BY <2>3, <2>4
<1>5. z = l
  BY <1>1, <1>2, <1>4, SeqEqual
<1>6. (n + 1) - 1 = n
  OBVIOUS
<1> QED
  BY <1>2, <1>3, <1>5, <1>6

(* ".." would take a drive letter back that is not the first segment.      *)
KeepsLateDrive(c, l) ==
  c = "file" /\ l \notin {<<>>, << <<"C:">> >>} /\ Last(l) \in DriveAlone

(* The parent of a text has the list of the parent.                        *)
LEMMA ParentClosed ==
  ASSUME NEW o, Rooted(o), NEW c,
         ~KeepsLateDrive(c, ClosedSegments(o))
  PROVE  ClosedSegments(ParentOf(c, o)) = Whatwg!Parent(c, ClosedSegments(o))
<1>1. PICK n \in Nat : o \in Text /\ n = Len(o) /\ n > 0 /\ o[n] = "/" /\ o[1] = "/"
  BY LenProperties DEF Rooted, StartsWith, EndsWith, Text
<1>2. PICK f \in Text : /\ f = Front(o) /\ f = Upto(o, n - 1) /\ Len(f) = n - 1
                        /\ \A i \in 1..n - 1 : f[i] = o[i]
  <2>1. n - 1 \in 0..Len(o)
    BY <1>1
  <2>2. Front(o) = Upto(o, n - 1)
    BY <1>1 DEF Front, Upto
  <2> QED
    BY <1>1, <2>1, <2>2, UptoFacts
<1>3. PICK k : k = LastSlash(f)
  OBVIOUS
<1>4. k \in 0..n - 1 /\ (k = 0 \/ f[k] = "/") /\ \A j \in k + 1..n - 1 : f[j] # "/"
  BY <1>2, <1>3, LastSlashFacts DEF IsLastSlash
<1>5. CASE k = 0
  <2>1. ParentOf(c, o) = o
    BY <1>2, <1>3, <1>5 DEF ParentOf, HasParent, LastSlashCanBeRemoved
  <2>2. n = 1
    <3>1. ~(1 \in k + 1..n - 1)
      BY <1>1, <1>2, <1>4, <1>5
    <3> QED
      BY <1>1, <1>5, <3>1
  <2>3. o = <<"/">>
    <3>1. <<"/">> \in Text /\ Len(<<"/">>) = 1 /\ <<"/">>[1] = "/"
      BY TokensAssumption DEF Text
    <3>2. \A i \in 1..Len(o) : o[i] = <<"/">>[i]
      BY <1>1, <2>2, <3>1
    <3> QED
      BY <1>1, <2>2, <3>1, <3>2, SeqEqual DEF Text
  <2>4. ClosedSegments(o) = <<>>
    BY <2>3, NothingClosed
  <2> QED
    BY <2>1, <2>4 DEF Whatwg!Parent
<1>6. CASE k > 0
  <2>1. PICK u \in Text : u = Upto(o, k) /\ Len(u) = k /\ \A i \in 1..k : u[i] = o[i]
    <3>1. k \in 0..Len(o)
      BY <1>1, <1>4
    <3> QED
      BY <1>1, <3>1, UptoFacts
  <2>2. PICK x \in Text : /\ x = From(f, k) /\ Len(x) = (n - 1) - k
                          /\ \A i \in 1..(n - 1) - k : x[i] = f[k + i]
    <3>1. k \in 0..Len(f)
      BY <1>2, <1>4
    <3>2. /\ From(f, k) \in Text /\ Len(From(f, k)) = Len(f) - k
          /\ \A i \in 1..Len(f) - k : From(f, k)[i] = f[k + i]
      BY <3>1, FromFacts
    <3> QED
      BY <1>2, <3>2
  <2>3. NoSlash(x)
    <3>1. \A i \in 1..(n - 1) - k : k + i \in k + 1..n - 1
      BY <1>4
    <3> QED
      BY <1>4, <2>2, <3>1 DEF NoSlash
  <2>4. Rooted(u)
    <3>1. 1 \in 1..k /\ k \in 1..k /\ k \in 1..n - 1
      BY <1>4, <1>6
    <3>2. u[1] = "/" /\ u[k] = "/"
      BY <1>1, <1>2, <1>4, <1>6, <2>1, <3>1
    <3> QED
      BY <1>6, <2>1, <3>2 DEF Rooted, StartsWith, EndsWith
  <2>5. o = u \o x \o <<"/">>
    <3>1. f = u \o x
      <4>1. k \in Nat /\ k <= Len(f) /\ k \in 0..Len(f)
        BY <1>2, <1>4
      <4>2. Upto(f, k) \o From(f, k) = f
        BY <4>1, CutAndJoined
      <4>3. Upto(f, k) \in Text /\ Len(Upto(f, k)) = k /\ \A i \in 1..k : Upto(f, k)[i] = f[i]
        BY <1>2, <4>1, UptoFacts
      <4>4. \A i \in 1..k : i \in 1..n - 1
        BY <1>4
      <4>5. \A i \in 1..k : Upto(f, k)[i] = u[i]
        BY <1>2, <2>1, <4>3, <4>4
      <4>6. Upto(f, k) = u
        BY <2>1, <4>3, <4>5, SeqEqual DEF Text
      <4> QED
        BY <2>2, <4>2, <4>6
    <3>2. o = f \o <<"/">>
      <4>1. n - 1 \in Nat /\ n - 1 <= Len(o) /\ n - 1 \in 0..Len(o)
        BY <1>1
      <4>2. Upto(o, n - 1) \o From(o, n - 1) = o
        BY <1>1, <4>1, CutAndJoined
      <4>3. PICK z \in Text : /\ z = From(o, n - 1) /\ Len(z) = n - (n - 1)
                              /\ \A i \in 1..n - (n - 1) : z[i] = o[(n - 1) + i]
        BY <1>1, <4>1, FromFacts
      <4>4. n - (n - 1) = 1 /\ (n - 1) + 1 = n /\ 1 \in 1..1
        OBVIOUS
      <4>5. Len(z) = 1 /\ z[1] = "/"
        BY <1>1, <4>3, <4>4
      <4>6. z = <<"/">>
        BY <4>5 DEF Text
      <4> QED
        BY <1>2, <4>2, <4>3, <4>6
    <3> QED
      BY <3>1, <3>2
  <2>6. ClosedSegments(o) = Append(ClosedSegments(u), x) /\ ClosedSegments(u) \in Seq(Text)
    BY <2>3, <2>4, <2>5, OneMoreClosed, ClosedFacts
  <2>7. PICK l : l = ClosedSegments(o) /\ l # <<>> /\ Last(l) = x
                 /\ SubSeq(l, 1, Len(l) - 1) = ClosedSegments(u)
    BY <2>6, FrontOfAppend DEF Last
  <2>8. From(o, k) = x \o <<"/">>
    <3>1. <<"/">> \in Text
      BY TokensAssumption DEF Text
    <3>2. x \o <<"/">> \in Text /\ (u \o x) \o <<"/">> = u \o (x \o <<"/">>)
      BY <3>1, JoinFacts, ConcatAssociative DEF Text
    <3>3. From(u \o (x \o <<"/">>), Len(u)) = x \o <<"/">>
      BY <3>2, BehindCut
    <3> QED
      BY <2>1, <2>5, <3>2, <3>3
  <2>9. HasParent(c, o) <=> ~(c = "file" /\ x \in DriveAlone)
    <3>1. HasParent(c, o) <=> ~(c = "file" /\ From(o, k) \in {<<d, "/">> : d \in Drive})
      BY <1>2, <1>3, <1>6 DEF HasParent, LastSlashCanBeRemoved
    <3>2. ASSUME NEW d PROVE x \o <<"/">> = <<d, "/">> <=> x = <<d>>
      <4>1. <<d>> \o <<"/">> = <<d, "/">>
        <5>1. PICK S : d \in S /\ "/" \in S
          <6>1. d \in {d, "/"} /\ "/" \in {d, "/"}
            OBVIOUS
          <6> QED
            BY <6>1
        <5>2. /\ <<d>> \in Seq(S) /\ Len(<<d>>) = 1 /\ <<d>>[1] = d
              /\ <<"/">> \in Seq(S) /\ Len(<<"/">>) = 1 /\ <<"/">>[1] = "/"
              /\ <<d, "/">> \in Seq(S)
              /\ Len(<<d, "/">>) = 2 /\ <<d, "/">>[1] = d /\ <<d, "/">>[2] = "/"
          BY <5>1
        <5>3. PICK a \in Seq(S) : a = <<d>> \o <<"/">> /\ Len(a) = 2 /\ a[1] = d /\ a[2] = "/"
          <6>1. PICK v \in Seq(S), w \in Seq(S) :
                  /\ v = <<d>> /\ Len(v) = 1 /\ v[1] = d
                  /\ w = <<"/">> /\ Len(w) = 1 /\ w[1] = "/"
            BY <5>2
          <6>2. v \o w \in Seq(S) /\ Len(v \o w) = 2 /\ (v \o w)[1] = d /\ (v \o w)[2] = "/"
            BY <6>1
          <6> QED
            BY <6>1, <6>2
        <5>4. \A i \in 1..2 : a[i] = <<d, "/">>[i]
          BY <5>2, <5>3
        <5> QED
          BY <5>2, <5>3, <5>4, SeqEqual
      <4>2. ASSUME x \o <<"/">> = <<d, "/">> PROVE x = <<d>>
        <5>1. <<"/">> \in Text /\ Len(<<"/">>) = 1 /\ Len(<<d, "/">>) = 2 /\ <<d, "/">>[1] = d
          BY TokensAssumption DEF Text
        <5>2. PICK m \in Nat : m = Len(x)
          BY LenProperties DEF Text
        <5>3. /\ Len(x \o <<"/">>) = m + 1
              /\ \A i \in 1..m : (x \o <<"/">>)[i] = x[i]
          BY <5>1, <5>2, JoinFacts
        <5>4. m = 1
          BY <4>2, <5>1, <5>3
        <5>5. 1 \in 1..m
          BY <5>4
        <5>6. x[1] = d
          BY <4>2, <5>1, <5>3, <5>5
        <5>7. Len(x) = 1
          BY <5>2, <5>4
        <5> QED
          BY <5>6, <5>7 DEF Text
      <4> QED
        BY <4>1, <4>2
    <3> QED
      BY <2>8, <3>1, <3>2 DEF DriveAlone
  <2>10. CASE c = "file" /\ x \in DriveAlone
    <3>1. l = << <<"C:">> >>
      BY <2>7, <2>10 DEF KeepsLateDrive
    <3>2. ParentOf(c, o) = o
      BY <2>9, <2>10 DEF ParentOf
    <3>3. Whatwg!Parent(c, l) = l
      BY <2>10, <3>1 DEF Whatwg!Parent
    <3> QED
      BY <2>7, <3>2, <3>3
  <2>11. CASE ~(c = "file" /\ x \in DriveAlone)
    <3>1. ParentOf(c, o) = u
      BY <1>2, <1>3, <2>1, <2>9, <2>11 DEF ParentOf
    <3>2. l = << <<"C:">> >> => x \in DriveAlone
      <4>1. Last(<< <<"C:">> >>) = <<"C:">>
        BY DEF Last
      <4> QED
        BY <2>7, <4>1 DEF DriveAlone, Drive
    <3>3. Whatwg!Parent(c, l) = ClosedSegments(u)
      BY <2>7, <2>11, <3>2 DEF Whatwg!Parent
    <3> QED
      BY <2>7, <3>1, <3>3
  <2> QED
    BY <2>10, <2>11
<1> QED
  BY <1>4, <1>5, <1>6

(* Before the first segment that is not empty there are slashes only.      *)
LEMMA SlashesOnly ==
  ASSUME NEW o, Rooted(o)
  PROVE  LET l == ClosedSegments(o)
         IN /\ l = <<>> => AllSlashes(o)
            /\ AllSlashes(o) => \A i \in DOMAIN l : l[i] = <<>>
<1>1. PICK n \in Nat, m \in Nat :
        /\ o \in Text /\ n = Len(o) /\ n > 0 /\ o[n] = "/" /\ o[1] = "/"
        /\ m = Cardinality(Slashes(o)) /\ DOMAIN o = 1..n
  BY LenProperties, SlashesFinite DEF Rooted, StartsWith, EndsWith, Text
<1>2. PICK l \in Seq(Text) : l = ClosedSegments(o) /\ Len(l) = m - 1 /\ DOMAIN l = 1..m - 1
  <2>1. n \in Slashes(o)
    BY <1>1 DEF Slashes
  <2>2. ClosedSegments(o) \in Seq(Text) /\ Len(ClosedSegments(o)) = m - 1
    BY <1>1, <2>1, ClosedFacts
  <2> QED
    BY <2>2, LenProperties
<1>3. ASSUME l = <<>> PROVE AllSlashes(o)
  <2>1. Cardinality(Slashes(o)) = 1
    BY <1>1, <1>2, <1>3
  <2>2. PICK k : Slashes(o) = {k}
    BY <2>1, SlashesFinite, <1>1, FS_Singleton
  <2>3. 1 \in Slashes(o) /\ n \in Slashes(o)
    BY <1>1 DEF Slashes
  <2>4. n = 1
    BY <2>2, <2>3
  <2> QED
    BY <1>1, <2>4 DEF AllSlashes
<1>4. ASSUME AllSlashes(o), NEW i \in 1..m - 1 PROVE l[i] = <<>>
  <2>1. i \in 1..m /\ i + 1 \in 1..m
    BY <1>1
  <2>2. PICK k : k = NthSlash(o, i) /\ k \in Slashes(o) /\ Cardinality(SlashesTo(o, k)) = i
    BY <1>1, <2>1, NthSlashFacts
  <2>3. k \in 1..n /\ k \in Nat
    BY <1>1, <2>2 DEF Slashes
  <2>4. k # n
    <3> SUFFICES ASSUME k = n PROVE FALSE
      OBVIOUS
    <3>1. SlashesTo(o, k) = Slashes(o)
      BY <1>1 DEF SlashesTo, Slashes
    <3> QED
      BY <1>1, <2>1, <2>2, <3>1
  <2>5. k + 1 \in Slashes(o)
    BY <1>1, <1>4, <2>3, <2>4 DEF AllSlashes, Slashes
  <2>6. Cardinality(SlashesTo(o, k + 1)) = i + 1
    <3>1. SlashesTo(o, k + 1) = SlashesTo(o, k) \cup {k + 1}
      <4>1. \A j \in 1..n : j <= k + 1 <=> j <= k \/ j = k + 1
        BY <2>3
      <4>2. k + 1 <= k + 1
        BY <2>3
      <4>3. Slashes(o) \subseteq 1..n
        BY <1>1, SlashesFinite
      <4> QED
        BY <2>5, <4>1, <4>2, <4>3 DEF SlashesTo
    <3>2. k + 1 \notin SlashesTo(o, k)
      BY <2>3 DEF SlashesTo
    <3>3. PICK S : S = SlashesTo(o, k) /\ IsFiniteSet(S) /\ Cardinality(S) = i /\ k + 1 \notin S
      BY <1>1, <2>2, <3>2, SlashesFinite
    <3>4. Cardinality(S \cup {k + 1}) = i + 1
      BY <3>3, FS_AddElement
    <3> QED
      BY <3>1, <3>3, <3>4
  <2>7. NthSlash(o, i + 1) = k + 1
    BY <1>1, <2>5, <2>6, NthSlashIs
  <2>8. l[i] = SubSeq(o, k + 1, (k + 1) - 1)
    BY <1>1, <1>2, <2>2, <2>7 DEF ClosedSegments
  <2>9. SubSeq(o, k + 1, (k + 1) - 1) = <<>>
    BY <2>3, SubSeqEmpty
  <2> QED
    BY <2>8, <2>9
<1> QED
  BY <1>2, <1>3, <1>4

LEMMA SegmentsAre ==
  ASSUME NEW b, Rooted(b), NEW x \in Text, NoSlash(x)
  PROVE  Segments(b \o x) = Append(ClosedSegments(b), x)
<1>1. PICK n \in Nat, m \in Nat : b \in Text /\ n = Len(b) /\ m = Len(x) /\ n > 0 /\ b[n] = "/"
  BY LenProperties DEF Rooted, EndsWith, Text
<1>2. PICK r \in Text : /\ r = b \o x /\ Len(r) = n + m
                        /\ \A i \in 1..n : r[i] = b[i]
                        /\ \A i \in 1..m : r[n + i] = x[i]
  <2>1. /\ b \o x \in Text /\ Len(b \o x) = Len(b) + Len(x)
        /\ \A i \in 1..Len(b) : (b \o x)[i] = b[i]
        /\ \A i \in 1..Len(x) : (b \o x)[Len(b) + i] = x[i]
    BY <1>1, JoinFacts
  <2> QED
    BY <1>1, <2>1
<1>3. LastSlash(r) = n
  <2>1. ASSUME NEW j \in n + 1..n + m PROVE r[j] # "/"
    <3>1. j - n \in 1..m /\ n + (j - n) = j
      BY <1>1
    <3> QED
      BY <1>1, <1>2, <3>1 DEF NoSlash
  <2>2. n \in 1..n /\ n \in 0..n + m
    BY <1>1
  <2>3. IsLastSlash(r, n)
    BY <1>1, <1>2, <2>1, <2>2 DEF IsLastSlash
  <2> QED
    BY <2>3, LastSlashIs
<1>4. From(r, n) = x
  BY <1>1, <1>2, BehindCut
<1>5. ClosedSegments(r) = ClosedSegments(b) /\ Slashes(r) = Slashes(b)
  BY <1>1, <1>2, ClosedStay
<1>6. n \in Slashes(b)
  BY <1>1 DEF Slashes
<1> QED
  BY <1>2, <1>3, <1>4, <1>5, <1>6 DEF Segments

-----------------------------------------------------------------------------
(* The parser implements the list of segments.                             *)

LEMMA SegmentKinds ==
  ASSUME NEW x
  PROVE  /\ x \in DotDotSegment => x \notin DotSegment /\ x \notin DriveAlone
         /\ x \in DotSegment => x \notin DriveAlone
         /\ Whatwg!DotDotSegment = DotDotSegment /\ Whatwg!DotSegment = DotSegment
         /\ Whatwg!Drive = Drive
<1>1. x \in DotDotSegment => DOMAIN x = 1..2
  BY DEF DotDotSegment
<1>2. \A d : DOMAIN <<d>> = 1..1
  OBVIOUS
<1>3. 2 \in 1..2 /\ 2 \notin 1..1
  OBVIOUS
<1>4. x \in DotDotSegment => x \notin DotSegment /\ x \notin DriveAlone
  BY <1>1, <1>2, <1>3 DEF DotSegment, DriveAlone
<1>5. x \in DotSegment => x \notin DriveAlone
  BY DEF DotSegment, Drive, DriveAlone
<1>6. /\ Whatwg!DotDotSegment = DotDotSegment /\ Whatwg!DotSegment = DotSegment
      /\ Whatwg!Drive = Drive
  BY DEF Whatwg!DotDotSegment, DotDotSegment, Whatwg!DotSegment, DotSegment, Whatwg!Drive, Drive
<1> QED
  BY <1>4, <1>5, <1>6

LEMMA CutAtEnd ==
  ASSUME NEW o \in Text
  PROVE  /\ Upto(o, Len(o)) = o /\ From(o, Len(o)) = <<>>
         /\ At(o).out = o /\ At(o).seg = Len(o)
<1>1. PICK n \in Nat : n = Len(o)
  BY LenProperties DEF Text
<1>2. Upto(o, n) = o
  BY <1>1, SubSeqFull DEF Upto, Text
<1>3. From(o, n) = <<>>
  <2>1. SubSeq(o, n + 1, n) = <<>>
    BY SubSeqEmpty
  <2> QED
    BY <1>1, <2>1 DEF From
<1> QED
  BY <1>1, <1>2, <1>3 DEF At

LEMMA BegunNoSlash ==
  ASSUME NEW p, Begun(p)
  PROVE  NoSlash(From(p.out, p.seg))
<1>1. PICK o \in Text, s \in Nat, n \in Nat : o = p.out /\ s = p.seg /\ n = Len(o)
  BY LenProperties DEF Begun, Text
<1>2. s \in 1..n /\ s \in 0..Len(o) /\ \A j \in s + 1..n : o[j] # "/"
  BY <1>1 DEF Begun
<1>3. PICK x \in Text : x = From(o, s) /\ Len(x) = n - s /\ \A i \in 1..n - s : x[i] = o[s + i]
  BY <1>1, <1>2, FromFacts
<1>4. \A i \in 1..n - s : s + i \in s + 1..n
  BY <1>2
<1>5. NoSlash(x)
  BY <1>2, <1>3, <1>4 DEF NoSlash
<1> QED
  BY <1>1, <1>3, <1>5

(* A segment without dots: what is written of it is what the standard      *)
(* appends to the list.                                                    *)
LEMMA SpelledAs ==
  ASSUME NEW b, Rooted(b), NEW x \in Text, NoSlash(x), NEW c, NEW last,
         ~LateDrive(c, ClosedSegments(b), x), x \notin DotDotSegment, x \notin DotSegment
  PROVE  LET y == Spelled(c, b, x)
         IN /\ y \in Text /\ NoSlash(y)
            /\ Whatwg!Completed(c, ClosedSegments(b), x, last) = Append(ClosedSegments(b), y)
<1>1. PICK l \in Seq(Text) :
        /\ l = ClosedSegments(b)
        /\ l = <<>> => AllSlashes(b)
        /\ AllSlashes(b) => \A i \in DOMAIN l : l[i] = <<>>
  BY SlashesOnly, ClosedFacts DEF Rooted
<1>2. PICK r : r = Whatwg!Completed(c, l, x, last)
  OBVIOUS
<1>3. r = IF c = "file" /\ l = <<>> /\ x \in DriveAlone THEN << <<"C:">> >> ELSE Append(l, x)
  BY <1>2, SegmentKinds DEF Whatwg!Completed, DriveAlone
<1>4. PICK y : y = Spelled(c, b, x)
  OBVIOUS
<1>5. CASE c = "file" /\ x \in DriveAlone /\ AllSlashes(b)
  <2>1. y = <<"C:">>
    BY <1>4, <1>5 DEF Spelled
  <2>2. y \in Text /\ NoSlash(y)
    BY <2>1, TokensAssumption DEF Text, NoSlash
  <2>3. CASE l = <<>>
    <3>1. Append(<<>>, <<"C:">>) = << <<"C:">> >>
      OBVIOUS
    <3> QED
      BY <1>1, <1>2, <1>3, <1>4, <1>5, <2>1, <2>2, <2>3, <3>1
  <2>4. CASE l # <<>>
    <3>1. \A i \in DOMAIN l : l[i] = <<>>
      BY <1>1, <1>5
    <3>2. l # << <<"C:">> >>
      <4> SUFFICES ASSUME l = << <<"C:">> >> PROVE FALSE
        OBVIOUS
      <4>1. 1 \in DOMAIN l /\ l[1] = <<"C:">>
        OBVIOUS
      <4> QED
        BY <3>1, <4>1
    <3>3. x # <<"C|">>
      BY <1>1, <1>5, <2>4, <3>1, <3>2 DEF LateDrive
    <3>4. x = <<"C:">>
      BY <1>5, <3>3 DEF DriveAlone, Drive
    <3> QED
      BY <1>1, <1>2, <1>3, <1>4, <2>1, <2>2, <2>4, <3>4
  <2> QED
    BY <2>3, <2>4
<1>6. CASE ~(c = "file" /\ x \in DriveAlone /\ AllSlashes(b))
  <2>1. y = x
    BY <1>4, <1>6 DEF Spelled
  <2>2. r = Append(l, x)
    BY <1>1, <1>3, <1>6
  <2> QED
    BY <1>1, <1>2, <1>4, <2>1, <2>2
<1> QED
  BY <1>5, <1>6

(* A segment that a slash ends ...                                         *)
LEMMA SlashCompletes ==
  ASSUME NEW p, Begun(p), NEW c,
         ~LateDrive(c, ClosedSegments(Upto(p.out, p.seg)), From(p.out, p.seg))
  PROVE  LET r == EndSegment(c, p, TRUE)
         IN /\ r \in Text
            /\ ClosedSegments(r) = Whatwg!Completed(c, ClosedSegments(Upto(p.out, p.seg)),
                                            From(p.out, p.seg), FALSE)
<1>1. PICK b \in Text, x \in Text :
        /\ b = Upto(p.out, p.seg) /\ x = From(p.out, p.seg)
        /\ Rooted(b) /\ NoSlash(x)
  BY BegunCut, BegunNoSlash DEF Rooted
<1>2. PICK r : r = EndSegment(c, p, TRUE)
  OBVIOUS
<1>3. r \in Text
  BY <1>2, SegmentEnds DEF KeptBy
<1>4. EndsAs(c, b, x, TRUE, r)
  BY <1>1, <1>2, SegmentEndsAs
<1>5. PICK l : l = ClosedSegments(b) /\ ~LateDrive(c, l, x)
  BY <1>1
<1>6. CASE x \in DotDotSegment /\ r = ParentOf(c, b)
  <2>1. ~KeepsLateDrive(c, l)
    BY <1>5, <1>6 DEF LateDrive, KeepsLateDrive
  <2>2. ClosedSegments(r) = Whatwg!Parent(c, l)
    BY <1>1, <1>5, <1>6, <2>1, ParentClosed
  <2>3. Whatwg!Completed(c, l, x, FALSE) = Whatwg!Parent(c, l)
    BY <1>6, SegmentKinds DEF Whatwg!Completed, DriveAlone
  <2> QED
    BY <1>1, <1>2, <1>3, <1>5, <2>2, <2>3
<1>7. CASE x \notin DotDotSegment /\ x \in DotSegment /\ r = b
  <2>1. Whatwg!Completed(c, l, x, FALSE) = l
    BY <1>7, SegmentKinds DEF Whatwg!Completed, DriveAlone
  <2> QED
    BY <1>1, <1>2, <1>3, <1>5, <1>7, <2>1
<1>8. CASE /\ x \notin DotDotSegment /\ x \notin DotSegment
           /\ r = b \o Spelled(c, b, x) \o SlashIf(TRUE)
  <2>1. PICK y \in Text : /\ y = Spelled(c, b, x) /\ NoSlash(y)
                          /\ Whatwg!Completed(c, l, x, FALSE) = Append(l, y)
    <3>1. /\ Spelled(c, b, x) \in Text /\ NoSlash(Spelled(c, b, x))
          /\ Whatwg!Completed(c, ClosedSegments(b), x, FALSE)
               = Append(ClosedSegments(b), Spelled(c, b, x))
      BY <1>1, <1>5, <1>8, SpelledAs
    <3> QED
      BY <1>5, <3>1
  <2>2. ClosedSegments(r) = Append(l, y)
    BY <1>1, <1>5, <1>8, <2>1, OneMoreClosed DEF SlashIf
  <2> QED
    BY <1>1, <1>2, <1>3, <1>5, <2>1, <2>2
<1> QED
  BY <1>4, <1>6, <1>7, <1>8 DEF EndsAs

(* ... and the one that the end of the input ends.                         *)
LEMMA EndCompletes ==
  ASSUME NEW p, Begun(p), NEW c,
         ~LateDrive(c, ClosedSegments(Upto(p.out, p.seg)), From(p.out, p.seg))
  PROVE  LET r == EndSegment(c, p, FALSE)
         IN /\ r \in Text
            /\ Segments(r) = Whatwg!Completed(c, ClosedSegments(Upto(p.out, p.seg)),
                                            From(p.out, p.seg), TRUE)
<1>1. PICK b \in Text, x \in Text :
        /\ b = Upto(p.out, p.seg) /\ x = From(p.out, p.seg)
        /\ Rooted(b) /\ NoSlash(x)
  BY BegunCut, BegunNoSlash DEF Rooted
<1>2. PICK r : r = EndSegment(c, p, FALSE)
  OBVIOUS
<1>3. r \in Text
  BY <1>2, SegmentEnds DEF KeptBy
<1>4. EndsAs(c, b, x, FALSE, r)
  BY <1>1, <1>2, SegmentEndsAs
<1>5. PICK l : l = ClosedSegments(b) /\ ~LateDrive(c, l, x)
  BY <1>1
<1>6. ASSUME NEW a, Rooted(a) PROVE Segments(a) = Append(ClosedSegments(a), <<>>)
  <2>1. <<>> \in Text /\ NoSlash(<<>>) /\ a \in Text
    BY <1>6 DEF Text, NoSlash, Rooted
  <2>2. a \o <<>> = a
    BY <2>1, ConcatEmptySeq DEF Text
  <2>3. Segments(a \o <<>>) = Append(ClosedSegments(a), <<>>)
    BY <1>6, <2>1, SegmentsAre
  <2> QED
    BY <2>2, <2>3
<1>7. CASE x \in DotDotSegment /\ r = ParentOf(c, b)
  <2>1. ~KeepsLateDrive(c, l)
    BY <1>5, <1>7 DEF LateDrive, KeepsLateDrive
  <2>2. ClosedSegments(r) = Whatwg!Parent(c, l) /\ Rooted(r)
    BY <1>1, <1>5, <1>7, <2>1, ParentClosed, ParentRooted
  <2>3. Segments(r) = Append(Whatwg!Parent(c, l), <<>>)
    BY <1>6, <2>2
  <2>4. Whatwg!Completed(c, l, x, TRUE) = Append(Whatwg!Parent(c, l), <<>>)
    BY <1>7, SegmentKinds DEF Whatwg!Completed, DriveAlone
  <2> QED
    BY <1>1, <1>2, <1>3, <1>5, <2>3, <2>4
<1>8. CASE x \notin DotDotSegment /\ x \in DotSegment /\ r = b
  <2>1. Whatwg!Completed(c, l, x, TRUE) = Append(l, <<>>)
    BY <1>8, SegmentKinds DEF Whatwg!Completed, DriveAlone
  <2> QED
    BY <1>1, <1>2, <1>3, <1>5, <1>6, <1>8, <2>1
<1>9. CASE /\ x \notin DotDotSegment /\ x \notin DotSegment
           /\ r = b \o Spelled(c, b, x) \o SlashIf(FALSE)
  <2>1. PICK y \in Text : /\ y = Spelled(c, b, x) /\ NoSlash(y)
                          /\ Whatwg!Completed(c, l, x, TRUE) = Append(l, y)
    <3>1. /\ Spelled(c, b, x) \in Text /\ NoSlash(Spelled(c, b, x))
          /\ Whatwg!Completed(c, ClosedSegments(b), x, TRUE)
               = Append(ClosedSegments(b), Spelled(c, b, x))
      BY <1>1, <1>5, <1>9, SpelledAs
    <3> QED
      BY <1>5, <3>1
  <2>2. r = b \o y
    <3>1. b \o y \in Text
      BY <1>1, JoinFacts
    <3> QED
      BY <1>9, <2>1, <3>1, ConcatEmptySeq DEF SlashIf, Text
  <2>3. Segments(r) = Append(l, y)
    BY <1>1, <1>5, <2>1, <2>2, SegmentsAre
  <2> QED
    BY <1>1, <1>2, <1>3, <1>5, <2>1, <2>3
<1> QED
  BY <1>4, <1>7, <1>8, <1>9 DEF EndsAs

(* Any other token goes to the buffer.                                     *)
LEMMA TokenBuffered ==
  ASSUME NEW p, Begun(p), NEW c, NEW t \in Tokens, t # TAB, ~IsSlash(c, t)
  PROVE  LET q == ReadToken(c, p, t)
         IN /\ Upto(q.out, q.seg) = Upto(p.out, p.seg)
            /\ From(q.out, q.seg) = From(p.out, p.seg) \o Encode(<<t>>, PathSet)
<1>1. PICK e \in Text : e = Encode(<<t>>, PathSet)
  <2>1. <<t>> \in Text /\ PathSet \subseteq DOMAIN Encoding
    BY DEF Text, PathSet, Encoding
  <2> QED
    BY <2>1, EncodeFacts
<1>2. PICK b \in Text, x \in Text :
        /\ b = Upto(p.out, p.seg) /\ x = From(p.out, p.seg)
        /\ Len(b) = p.seg /\ p.out = b \o x
  BY BegunCut DEF Rooted
<1>3. PICK r : r = p.out \o e
  OBVIOUS
<1>4. PICK q : q = [p EXCEPT !.out = r]
  OBVIOUS
<1>5. q.out = r /\ q.seg = p.seg
  BY <1>4 DEF Begun
<1>6. ReadToken(c, p, t) = q
  BY <1>1, <1>3, <1>4 DEF ReadToken
<1>7. x \o e \in Text /\ r = b \o (x \o e)
  <2>1. x \o e \in Text
    BY JoinFacts
  <2>2. (b \o x) \o e = b \o (x \o e)
    BY ConcatAssociative DEF Text
  <2> QED
    BY <1>2, <1>3, <2>1, <2>2
<1>8. Upto(r, Len(b)) = b /\ From(r, Len(b)) = x \o e
  BY <1>2, <1>7, UptoJoin, BehindCut
<1> QED
  BY <1>1, <1>2, <1>5, <1>6, <1>8

(* The standard encodes a token as the code does.                          *)
LEMMA SameEncoding ==
  ASSUME NEW s
  PROVE  Whatwg!Encode(s, Whatwg!PathSet) = Encode(s, PathSet)
<1>1. Whatwg!Encoding = Encoding /\ Whatwg!PathSet = PathSet
  BY DEF Whatwg!Encoding, Encoding, Whatwg!PathSet, PathSet, Whatwg!TAB, TAB
<1> QED
  BY <1>1 DEF Whatwg!Encode, Encode

(* A path that was given no text: the list is empty and so is the buffer.  *)
LEMMA NothingRead ==
  ASSUME NEW c
  PROVE  /\ ClosedSegments(Upto(NoText(c).out, NoText(c).seg)) = <<>>
         /\ From(NoText(c).out, NoText(c).seg) = <<>>
<1>1. <<>> \in Text /\ <<"/">> \in Text
  BY OneSlash DEF Text, Rooted
<1>2. PICK o \in Text : NoText(c) = At(o) /\ ClosedSegments(o) = <<>>
  BY <1>1, NothingClosed DEF NoText
<1> QED
  BY <1>2, CutAtEnd

(* A step of the parser at a slash, and one at any other token, in terms   *)
(* of the text.                                                            *)
SlashStep(c, p, q) ==
  /\ ClosedSegments(Upto(q.out, q.seg))
       = Whatwg!Completed(c, ClosedSegments(Upto(p.out, p.seg)), From(p.out, p.seg), FALSE)
  /\ From(q.out, q.seg) = <<>>

TokenStep(c, p, q) ==
  /\ ClosedSegments(Upto(q.out, q.seg)) = ClosedSegments(Upto(p.out, p.seg))
  /\ \/ From(q.out, q.seg) = From(p.out, p.seg)
     \/ \E t \in Alphabet(c) :
          From(q.out, q.seg) = From(p.out, p.seg) \o Encode(<<t>>, PathSet)

LEMMA ReadSteps ==
  ASSUME PInv, Read, ~LateDrive(class, SegmentsRead, Buffer)
  PROVE  SlashStep(class, path, path') \/ TokenStep(class, path, path')
<1>1. /\ class \in Class /\ raw \in Text
      /\ IF Unread THEN path = NoText(class) ELSE Begun(path)
  BY DEF PInv, Read
<1>2. PICK t \in Alphabet(class) :
        /\ raw' = Append(raw, t)
        /\ path' = IF t # TAB /\ Unread THEN PathStart(class, t)
                   ELSE ReadToken(class, path, t)
  BY DEF Read
<1>3. t \in Tokens
  BY <1>1, PathAssumption
<1>4. ~LateDrive(class, ClosedSegments(Upto(path.out, path.seg)), From(path.out, path.seg))
  BY DEF Read, SegmentsRead, Buffer
<1>5. CASE t = TAB
  <2>1. path' = path
    BY <1>2, <1>5 DEF ReadToken
  <2> QED
    BY <2>1 DEF TokenStep
<1>6. ASSUME NEW p, Begun(p),
             ~LateDrive(class, ClosedSegments(Upto(p.out, p.seg)), From(p.out, p.seg)),
             path' = ReadToken(class, p, t), t # TAB, IsSlash(class, t)
      PROVE  SlashStep(class, p, path')
  <2>1. PICK r : r = EndSegment(class, p, TRUE)
    OBVIOUS
  <2>2. path' = At(r)
    BY <1>6, <2>1 DEF ReadToken
  <2>3. /\ r \in Text
        /\ ClosedSegments(r) = Whatwg!Completed(class, ClosedSegments(Upto(p.out, p.seg)),
                                                From(p.out, p.seg), FALSE)
    BY <1>6, <2>1, SlashCompletes
  <2>4. Upto(path'.out, path'.seg) = r /\ From(path'.out, path'.seg) = <<>>
    BY <2>2, <2>3, CutAtEnd
  <2> QED
    BY <2>3, <2>4 DEF SlashStep
<1>7. ASSUME NEW p, Begun(p), path' = ReadToken(class, p, t), t # TAB, ~IsSlash(class, t)
      PROVE  TokenStep(class, p, path')
  <2>1. /\ Upto(path'.out, path'.seg) = Upto(p.out, p.seg)
        /\ From(path'.out, path'.seg) = From(p.out, p.seg) \o Encode(<<t>>, PathSet)
    BY <1>3, <1>7, TokenBuffered
  <2> QED
    BY <2>1 DEF TokenStep
<1>8. CASE t # TAB /\ ~Unread
  BY <1>1, <1>2, <1>4, <1>6, <1>7, <1>8
<1>9. CASE t # TAB /\ Unread
  <2>1. path = NoText(class) /\ path' = PathStart(class, t)
    BY <1>1, <1>2, <1>9
  <2>2. ClosedSegments(Upto(path.out, path.seg)) = <<>> /\ From(path.out, path.seg) = <<>>
    BY <2>1, NothingRead
  <2>3. PICK p : p = At(<<"/">>)
    OBVIOUS
  <2>4. Begun(p) /\ <<"/">> \in Text
    BY <2>3, OneSlash, BegunAt DEF Rooted
  <2>5. ClosedSegments(Upto(p.out, p.seg)) = <<>> /\ From(p.out, p.seg) = <<>>
    BY <2>3, <2>4, CutAtEnd, NothingClosed
  <2>6. CASE IsSlash(class, t)
    <3>1. path' = p
      <4>1. CASE class # "other"
        BY <2>1, <2>3, <2>6, <4>1 DEF PathStart
      <4>2. CASE class = "other"
        <5>1. t = "/"
          BY <2>6, <4>2 DEF IsSlash
        <5>2. EndSegment(class, At(<<>>), TRUE) = <<"/">>
          BY <4>2, EmptySegment DEF SlashIf
        <5>3. ReadToken(class, At(<<>>), t) = p
          BY <1>9, <2>3, <2>6, <5>2 DEF ReadToken
        <5> QED
          BY <2>1, <4>2, <5>1, <5>3 DEF PathStart
      <4> QED
        BY <4>1, <4>2
    <3> QED
      BY <2>2, <2>5, <3>1 DEF TokenStep
  <2>7. CASE ~IsSlash(class, t)
    <3>1. path' = ReadToken(class, p, t)
      BY <2>1, <2>3, <2>7 DEF PathStart, IsSlash
    <3>2. TokenStep(class, p, path')
      BY <1>7, <1>9, <2>4, <2>7, <3>1
    <3> QED
      BY <2>2, <2>5, <3>2 DEF TokenStep
  <2> QED
    BY <2>6, <2>7
<1> QED
  BY <1>5, <1>8, <1>9

LEMMA ReadRefines ==
  ASSUME PInv, Read, ~LateDrive(class, SegmentsRead, Buffer)
  PROVE  [Whatwg!Next]_(Whatwg!wvars)
<1>1. ~done /\ ~done' /\ class' = class /\ done' = done
  BY DEF Read
<1>2. CASE SlashStep(class, path, path')
  <2>1. Whatwg!ReadSlash
    BY <1>1, <1>2 DEF SlashStep, Whatwg!ReadSlash, SegmentsRead, Buffer
  <2> QED
    BY <1>1, <2>1 DEF Whatwg!Next
<1>3. CASE TokenStep(class, path, path')
  <2>1. CASE From(path'.out, path'.seg) = From(path.out, path.seg)
    BY <1>1, <1>3, <2>1 DEF TokenStep, Whatwg!wvars, SegmentsRead, Buffer
  <2>2. ASSUME NEW t \in Alphabet(class),
               From(path'.out, path'.seg) = From(path.out, path.seg) \o Encode(<<t>>, PathSet)
        PROVE  Whatwg!Next
    <3>1. Whatwg!Encode(<<t>>, Whatwg!PathSet) = Encode(<<t>>, PathSet)
      BY SameEncoding
    <3>2. Whatwg!ReadOther
      BY <1>1, <1>3, <2>2, <3>1 DEF TokenStep, Whatwg!ReadOther, SegmentsRead, Buffer
    <3> QED
      BY <1>1, <3>2 DEF Whatwg!Next
  <2> QED
    BY <1>3, <2>1, <2>2 DEF TokenStep
<1> QED
  BY <1>2, <1>3, ReadSteps

LEMMA EndRefines ==
  ASSUME PInv, End, ~LateDrive(class, SegmentsRead, Buffer)
  PROVE  Whatwg!Next
<1>1. /\ class \in Class /\ raw \in Text /\ ~done
      /\ class' = class /\ raw' = raw /\ done' = TRUE
      /\ IF Unread THEN path = NoText(class) ELSE Begun(path)
  BY DEF PInv, End
<1>2. PICK r : r = EndSegment(class, path, FALSE) /\ path' = At(r)
  BY DEF End
<1>3. ~LateDrive(class, ClosedSegments(Upto(path.out, path.seg)), From(path.out, path.seg))
  BY <1>1 DEF SegmentsRead, Buffer
<1>4. CASE Begun(path)
  <2>1. /\ r \in Text
        /\ Segments(r) = Whatwg!Completed(class, ClosedSegments(Upto(path.out, path.seg)),
                                          From(path.out, path.seg), TRUE)
    BY <1>2, <1>3, <1>4, EndCompletes
  <2>2. path'.out = r /\ From(path'.out, path'.seg) = <<>>
    BY <1>2, <2>1, CutAtEnd
  <2> QED
    BY <1>1, <2>1, <2>2 DEF Whatwg!Next, Whatwg!End, SegmentsRead, Buffer
<1>5. CASE Unread /\ class = "other"
  <2>1. /\ path = At(<<>>)
        /\ ClosedSegments(Upto(path.out, path.seg)) = <<>> /\ From(path.out, path.seg) = <<>>
    BY <1>1, <1>5, NoTextFacts, NothingRead
  <2>2. r = <<>>
    BY <1>2, <1>5, <2>1, EmptySegment DEF SlashIf
  <2>3. path'.out = <<>> /\ From(path'.out, path'.seg) = <<>>
    <3>1. <<>> \in Text
      BY DEF Text
    <3> QED
      BY <1>2, <2>2, <3>1, CutAtEnd
  <2>4. Segments(path'.out) = <<>>
    BY <2>3, NothingClosed
  <2> QED
    BY <1>1, <1>5, <2>1, <2>3, <2>4 DEF Whatwg!Next, Whatwg!End, SegmentsRead, Buffer
<1>6. Begun(path) \/ (Unread /\ class = "other")
  BY <1>1, NoTextFacts
<1> QED
  BY <1>4, <1>5, <1>6

(* The parser, which keeps a text and undoes what it wrote by searching    *)
(* slashes, goes through the segments of the standard: every token it      *)
(* reads is a step of the list of segments or leaves it as it is, for      *)
(* every alphabet and every length, but where a file URL has a drive letter *)
(* that is not its first segment.                                          *)
THEOREM ParserImplementsWhatwg == Spec => ImplementsWhatwg
<1>1. Init => Whatwg!Init
  <2> SUFFICES ASSUME Init PROVE Whatwg!Init
    OBVIOUS
  <2>1. class \in Class /\ path = NoText(class) /\ done = FALSE
    BY DEF Init
  <2> QED
    BY <2>1, NothingRead DEF Whatwg!Init, SegmentsRead, Buffer
<1>2. PInv /\ [Next]_pvars => PInv'
  BY NextPInv
<1>3. PInv /\ [Next]_pvars => [LateDrive(class, SegmentsRead, Buffer) \/ Whatwg!Next]_(Whatwg!wvars)
  <2> SUFFICES ASSUME PInv, [Next]_pvars, ~LateDrive(class, SegmentsRead, Buffer)
               PROVE  [Whatwg!Next]_(Whatwg!wvars)
    OBVIOUS
  <2>1. CASE Read
    BY <2>1, ReadRefines
  <2>2. CASE End
    BY <2>2, EndRefines
  <2>3. CASE UNCHANGED pvars
    BY <2>3 DEF pvars, Whatwg!wvars, SegmentsRead, Buffer
  <2> QED
    BY <2>1, <2>2, <2>3 DEF Next
<1> QED
  BY <1>1, <1>2, <1>3, InitPInv, PTL DEF Spec, ImplementsWhatwg
=============================================================================

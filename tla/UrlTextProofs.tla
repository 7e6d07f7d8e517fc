--------------------------- MODULE UrlTextProofs ---------------------------
(***************************************************************************)
(* Lemmas about texts: what a text looks like, token by token, after it    *)
(* was cut and put together again, and when an offset that is moved in u32 *)
(* arithmetic is moved by the plain difference.                            *)
(***************************************************************************)
EXTENDS UrlText, Integers, SequenceTheorems, WellFoundedInduction, TLAPS

(* The first n tokens of s are those of r.                                 *)
Kept(r, s, n) == \A t : \A k \in Nat : k < n => (TokenAt(r, k, t) <=> TokenAt(s, k, t))

(* The n tokens of r behind q are those of s behind p.                     *)
SameAt(r, q, s, p, n) ==
  \A t : \A k \in Nat : k < n => (TokenAt(r, q + k, t) <=> TokenAt(s, p + k, t))

(* A prefix of a text.                                                     *)
LEMMA UptoFacts ==
  ASSUME NEW s \in Text, NEW a \in 0..Len(s)
  PROVE  /\ Upto(s, a) \in Text
         /\ Len(Upto(s, a)) = a
         /\ \A i \in 1..a : Upto(s, a)[i] = s[i]
BY DEF Upto, Text

(* The text behind an offset.                                              *)
LEMMA FromFacts ==
  ASSUME NEW s \in Text, NEW b \in 0..Len(s)
  PROVE  /\ From(s, b) \in Text
         /\ Len(From(s, b)) = Len(s) - b
         /\ \A i \in 1..Len(s) - b : From(s, b)[i] = s[b + i]
BY DEF From, Text

(* One text behind another.                                                *)
LEMMA JoinFacts ==
  ASSUME NEW s \in Text, NEW t \in Text
  PROVE  /\ s \o t \in Text
         /\ Len(s \o t) = Len(s) + Len(t)
         /\ \A i \in 1..Len(s) : (s \o t)[i] = s[i]
         /\ \A i \in 1..Len(t) : (s \o t)[Len(s) + i] = t[i]
BY DEF Text

(* The rest of a text behind a new head.                                   *)
LEMMA CutFacts ==
  ASSUME NEW s \in Text, NEW h \in Text, NEW b \in 0..Len(s)
  PROVE  /\ h \o From(s, b) \in Text
         /\ Len(h \o From(s, b)) = Len(h) + (Len(s) - b)
         /\ \A i \in 1..Len(h) : (h \o From(s, b))[i] = h[i]
         /\ \A i \in 1..Len(s) - b : (h \o From(s, b))[Len(h) + i] = s[b + i]
<1> DEFINE t == From(s, b)
<1>1. t \in Text /\ Len(t) = Len(s) - b /\ \A i \in 1..Len(s) - b : t[i] = s[b + i]
  BY FromFacts
<1>2. /\ h \o t \in Text
      /\ Len(h \o t) = Len(h) + Len(t)
      /\ \A i \in 1..Len(h) : (h \o t)[i] = h[i]
      /\ \A i \in 1..Len(t) : (h \o t)[Len(h) + i] = t[i]
  BY <1>1, JoinFacts
<1> QED
  BY <1>1, <1>2

(* The tokens of a text that was put together from two.                    *)
LEMMA JoinTokens ==
  ASSUME NEW x \in Text, NEW y \in Text
  PROVE  /\ x \o y \in Text
         /\ Len(x \o y) = Len(x) + Len(y)
         /\ \A t : \A k \in Nat : k < Len(x) => (TokenAt(x \o y, k, t) <=> TokenAt(x, k, t))
         /\ \A t : \A k \in Nat : TokenAt(x \o y, Len(x) + k, t) <=> TokenAt(y, k, t)
<1>1. PICK n \in Nat, m \in Nat : n = Len(x) /\ m = Len(y)
  BY LenProperties DEF Text
<1>2. PICK r \in Text : r = x \o y
  BY JoinFacts
<1>3. /\ Len(r) = n + m
      /\ \A i \in 1..n : r[i] = x[i]
      /\ \A i \in 1..m : r[n + i] = y[i]
  BY <1>1, <1>2, JoinFacts
<1>4. ASSUME NEW k \in Nat, NEW t, k < n
      PROVE  TokenAt(r, k, t) <=> TokenAt(x, k, t)
  <2>1. k + 1 \in 1..n /\ k < n + m
    BY <1>4
  <2>2. r[k + 1] = x[k + 1]
    BY <1>3, <2>1
  <2> QED
    BY <1>1, <1>3, <1>4, <2>1, <2>2 DEF TokenAt
<1>5. ASSUME NEW k \in Nat, NEW t
      PROVE  TokenAt(r, n + k, t) <=> TokenAt(y, k, t)
  <2>1. n + k < n + m <=> k < m
    OBVIOUS
  <2>2. ASSUME k < m PROVE r[(n + k) + 1] = y[k + 1]
    <3>1. k + 1 \in 1..m /\ (n + k) + 1 = n + (k + 1)
      BY <2>2
    <3>2. r[n + (k + 1)] = y[k + 1]
      BY <1>3, <3>1
    <3> QED
      BY <3>1, <3>2
  <2> QED
    BY <1>1, <1>3, <2>1, <2>2 DEF TokenAt
<1> QED
  BY <1>1, <1>2, <1>3, <1>4, <1>5

(* The tokens of a prefix, and of the text behind an offset.               *)
LEMMA UptoTokens ==
  ASSUME NEW s \in Text, NEW a \in Nat, a <= Len(s)
  PROVE  /\ Upto(s, a) \in Text /\ Len(Upto(s, a)) = a
         /\ \A t : \A k \in Nat : k < a => (TokenAt(Upto(s, a), k, t) <=> TokenAt(s, k, t))
<1>1. Len(s) \in Nat /\ a \in 0..Len(s)
  BY LenProperties DEF Text
<1>2. /\ Upto(s, a) \in Text /\ Len(Upto(s, a)) = a
      /\ \A i \in 1..a : Upto(s, a)[i] = s[i]
  BY <1>1, UptoFacts
<1>3. ASSUME NEW k \in Nat, NEW t, k < a
      PROVE  TokenAt(Upto(s, a), k, t) <=> TokenAt(s, k, t)
  <2>1. k + 1 \in 1..a /\ k < Len(s)
    BY <1>1, <1>3
  <2>2. Upto(s, a)[k + 1] = s[k + 1]
    BY <1>2, <2>1
  <2> QED
    BY <1>2, <1>3, <2>1, <2>2 DEF TokenAt
<1> QED
  BY <1>2, <1>3

LEMMA FromTokens ==
  ASSUME NEW s \in Text, NEW b \in Nat, b <= Len(s)
  PROVE  /\ From(s, b) \in Text /\ Len(From(s, b)) = Len(s) - b
         /\ \A t : \A k \in Nat : TokenAt(From(s, b), k, t) <=> TokenAt(s, b + k, t)
<1>1. PICK n \in Nat : n = Len(s)
  BY LenProperties DEF Text
<1>2. PICK r \in Text : r = From(s, b)
  BY <1>1, FromFacts
<1>3. Len(r) = n - b /\ \A i \in 1..n - b : r[i] = s[b + i]
  <2>1. b \in 0..Len(s)
    BY <1>1
  <2> QED
    BY <1>1, <1>2, <2>1, FromFacts
<1>4. ASSUME NEW k \in Nat, NEW t
      PROVE  TokenAt(r, k, t) <=> TokenAt(s, b + k, t)
  <2>1. k < n - b <=> b + k < n
    BY <1>1
  <2>2. ASSUME k < n - b PROVE r[k + 1] = s[(b + k) + 1]
    <3>1. k + 1 \in 1..n - b /\ (b + k) + 1 = b + (k + 1)
      BY <1>1, <2>2
    <3>2. r[k + 1] = s[b + (k + 1)]
      BY <1>3, <3>1
    <3> QED
      BY <3>1, <3>2
  <2> QED
    BY <1>1, <1>3, <2>1, <2>2 DEF TokenAt
<1> QED
  BY <1>1, <1>2, <1>3, <1>4

(* A word found in a text is found token by token.                         *)
LEMMA TextTokens ==
  ASSUME NEW s \in Text, NEW k \in Nat, k <= Len(s), NEW w \in Text
  PROVE  TextAt(s, k, w) <=> \A j \in Nat : j < Len(w) => TokenAt(s, k + j, w[j + 1])
<1>1. PICK n \in Nat, m \in Nat : n = Len(s) /\ m = Len(w)
  BY LenProperties DEF Text
<1>2. ASSUME TextAt(s, k, w), NEW j \in Nat, j < m
      PROVE  TokenAt(s, k + j, w[j + 1])
  <2>1. j + 1 \in 1..m /\ (k + j) + 1 = k + (j + 1) /\ k + j < k + m
    BY <1>2
  <2>2. k + m <= n /\ s[k + (j + 1)] = w[j + 1]
    BY <1>1, <1>2, <2>1 DEF TextAt
  <2> QED
    BY <1>1, <2>1, <2>2 DEF TokenAt
<1>3. ASSUME \A j \in Nat : j < m => TokenAt(s, k + j, w[j + 1])
      PROVE  TextAt(s, k, w)
  <2>1. ASSUME NEW i \in 1..m PROVE s[k + i] = w[i] /\ k + i <= n
    <3>1. i - 1 \in Nat /\ i - 1 < m /\ (i - 1) + 1 = i /\ (k + (i - 1)) + 1 = k + i
      OBVIOUS
    <3>2. TokenAt(s, k + (i - 1), w[i])
      BY <1>3, <3>1
    <3> QED
      BY <1>1, <3>1, <3>2 DEF TokenAt
  <2>2. k + m <= n
    <3>1. m # 0 => m \in 1..m
      OBVIOUS
    <3> QED
      BY <1>1, <2>1, <3>1
  <2> QED
    BY <1>1, <2>1, <2>2 DEF TextAt
<1> QED
  BY <1>1, <1>2, <1>3

(* The tokens of the rest of a text behind a new head.                     *)
LEMMA CutTokens ==
  ASSUME NEW s \in Text, NEW h \in Text, NEW b \in Nat, b <= Len(s)
  PROVE  /\ h \o From(s, b) \in Text
         /\ Len(h \o From(s, b)) = Len(h) + (Len(s) - b)
         /\ \A t : \A k \in Nat : k < Len(h) => (TokenAt(h \o From(s, b), k, t) <=> TokenAt(h, k, t))
         /\ \A t : \A k \in Nat : TokenAt(h \o From(s, b), Len(h) + k, t) <=> TokenAt(s, b + k, t)
         /\ \A k \in Nat, w \in Text : b + k <= Len(s) =>
              (TextAt(h \o From(s, b), Len(h) + k, w) <=> TextAt(s, b + k, w))
<1>1. PICK x \in Text : x = From(s, b)
  BY FromTokens
<1>2. Len(x) = Len(s) - b /\ \A t : \A k \in Nat : TokenAt(x, k, t) <=> TokenAt(s, b + k, t)
  BY <1>1, FromTokens
<1>3. PICK r \in Text : r = h \o x
  BY JoinTokens
<1>4. /\ Len(r) = Len(h) + Len(x)
      /\ \A t : \A k \in Nat : k < Len(h) => (TokenAt(r, k, t) <=> TokenAt(h, k, t))
      /\ \A t : \A k \in Nat : TokenAt(r, Len(h) + k, t) <=> TokenAt(x, k, t)
  BY <1>3, JoinTokens
<1>5. PICK m \in Nat, n \in Nat : m = Len(h) /\ n = Len(s)
  BY LenProperties DEF Text
<1>6. ASSUME NEW k \in Nat, NEW w \in Text, b + k <= n
      PROVE  TextAt(r, m + k, w) <=> TextAt(s, b + k, w)
  <2>1. m + k <= Len(r) /\ m + k \in Nat /\ b + k \in Nat
    BY <1>2, <1>4, <1>5, <1>6
  <2>2. \A j \in Nat : TokenAt(r, (m + k) + j, w[j + 1]) <=> TokenAt(s, (b + k) + j, w[j + 1])
    <3> TAKE j \in Nat
    <3>1. (m + k) + j = m + (k + j) /\ (b + k) + j = b + (k + j) /\ k + j \in Nat
      OBVIOUS
    <3> QED
      BY <1>2, <1>4, <1>5, <3>1
  <2> QED
    BY <1>5, <1>6, <2>1, <2>2, TextTokens
<1> QED
  BY <1>1, <1>2, <1>3, <1>4, <1>5, <1>6

(* The same as one fact about the new text.                                *)
CutOf(s, h, b) ==
  LET r == h \o From(s, b)
  IN /\ r \in Text /\ Len(r) = Len(h) + (Len(s) - b)
     /\ \A t : \A k \in Nat : k < Len(h) => (TokenAt(r, k, t) <=> TokenAt(h, k, t))
     /\ \A t : \A k \in Nat : TokenAt(r, Len(h) + k, t) <=> TokenAt(s, b + k, t)
     /\ \A k \in Nat, w \in Text : b + k <= Len(s) =>
          (TextAt(r, Len(h) + k, w) <=> TextAt(s, b + k, w))

LEMMA CutHolds ==
  ASSUME NEW s \in Text, NEW h \in Text, NEW b \in Nat, b <= Len(s)
  PROVE  CutOf(s, h, b)
BY CutTokens, Zenon DEF CutOf

(* A word that lies in the head of a text is found in the whole.           *)
LEMMA HeadText ==
  ASSUME NEW h \in Text, NEW r \in Text, NEW k \in Nat, NEW w \in Text,
         Len(h) <= Len(r), k + Len(w) <= Len(h),
         \A t : \A j \in Nat : j < Len(h) => (TokenAt(r, j, t) <=> TokenAt(h, j, t))
  PROVE  TextAt(r, k, w) <=> TextAt(h, k, w)
<1>1. PICK l \in Nat, m \in Nat, n \in Nat : l = Len(w) /\ m = Len(h) /\ n = Len(r)
  BY LenProperties DEF Text
<1>2. \A j \in Nat : j < l => (TokenAt(r, k + j, w[j + 1]) <=> TokenAt(h, k + j, w[j + 1]))
  <2> TAKE j \in Nat
  <2>1. j < l => k + j < m /\ k + j \in Nat
    BY <1>1
  <2> QED
    BY <1>1, <2>1
<1>3. k <= Len(r) /\ k <= Len(h)
  BY <1>1
<1>4. TextAt(r, k, w) <=> \A j \in Nat : j < l => TokenAt(r, k + j, w[j + 1])
  BY <1>1, <1>3, TextTokens
<1>5. TextAt(h, k, w) <=> \A j \in Nat : j < l => TokenAt(h, k + j, w[j + 1])
  BY <1>1, <1>3, TextTokens
<1> QED
  BY <1>2, <1>4, <1>5

(* A word stands where it was written.                                     *)
LEMMA WrittenText ==
  ASSUME NEW h \in Text, NEW w \in Text
  PROVE  TextAt(h \o w, Len(h), w)
BY JoinFacts, LenProperties DEF TextAt, Text

(* Two slices with the same tokens.                                        *)
LEMMA SliceFacts ==
  ASSUME NEW s \in Text, NEW a \in Nat, NEW n \in Nat, a + n <= Len(s)
  PROVE  /\ Slice(s, a, a + n) \in Text /\ Len(Slice(s, a, a + n)) = n
         /\ \A k \in Nat : k < n => Slice(s, a, a + n)[k + 1] = s[(a + k) + 1]
<1>1. PICK m \in Nat : m = Len(s)
  BY LenProperties DEF Text
<1> DEFINE x == Slice(s, a, a + n)
<1>2. x = SubSeq(s, a + 1, a + n) /\ s \in Seq(Tokens)
  BY DEF Slice, Text
<1>3. \A i \in (a + 1)..(a + n) : i \in 1..m
  BY <1>1
<1>4. /\ x \in Seq(Tokens) /\ Len(x) = n
      /\ \A i \in 1..n : x[i] = s[a + i]
  <2>1. PICK c \in Int, d \in Int : c = a + 1 /\ d = a + n
    OBVIOUS
  <2>2. \A i \in c..d : s[i] \in Tokens
    BY <1>1, <1>2, <1>3, <2>1
  <2>3. /\ SubSeq(s, c, d) \in Seq(Tokens)
        /\ Len(SubSeq(s, c, d)) = IF c <= d THEN d - c + 1 ELSE 0
        /\ \A i \in 1..d - c + 1 : SubSeq(s, c, d)[i] = s[c + i - 1]
    BY <2>2, SubSeqProperties
  <2>4. /\ d - c + 1 = n /\ (IF c <= d THEN n ELSE 0) = n
        /\ \A i \in 1..n : c + i - 1 = a + i
    BY <2>1
  <2>5. x = SubSeq(s, c, d)
    BY <1>2, <2>1
  <2> QED
    BY <2>3, <2>4, <2>5
<1>5. \A k \in Nat : k < n => k + 1 \in 1..n /\ a + (k + 1) = (a + k) + 1
  OBVIOUS
<1> HIDE DEF x
<1>6. x \in Text /\ Len(x) = n /\ \A k \in Nat : k < n => x[k + 1] = s[(a + k) + 1]
  BY <1>4, <1>5 DEF Text
<1> QED
  BY <1>6 DEF x

LEMMA SameSlice ==
  ASSUME NEW s \in Text, NEW r \in Text, NEW p \in Nat, NEW q \in Nat, NEW n \in Nat,
         NEW pe, NEW qe, pe = p + n, qe = q + n, pe <= Len(s), qe <= Len(r),
         SameAt(r, q, s, p, n)
  PROVE  Slice(r, q, qe) = Slice(s, p, pe)
<1> DEFINE x == Slice(r, q, q + n)
           y == Slice(s, p, p + n)
<1>1. /\ x \in Text /\ Len(x) = n /\ \A k \in Nat : k < n => x[k + 1] = r[(q + k) + 1]
      /\ y \in Text /\ Len(y) = n /\ \A k \in Nat : k < n => y[k + 1] = s[(p + k) + 1]
  BY SliceFacts
<1>2. PICK l \in Nat, m \in Nat : l = Len(r) /\ m = Len(s)
  BY LenProperties DEF Text
<1> HIDE DEF x, y
<1>3. \A i \in 1..n : x[i] = y[i]
  <2> TAKE i \in 1..n
  <2>1. PICK k \in Nat : k < n /\ i = k + 1
    <3>1. i - 1 \in Nat /\ i - 1 < n /\ i = (i - 1) + 1
      OBVIOUS
    <3> QED
      BY <3>1
  <2>2. p + k < m /\ q + k < l
    BY <1>2, <2>1
  <2>3. TokenAt(s, p + k, s[(p + k) + 1])
    BY <1>2, <2>2 DEF TokenAt
  <2>4. TokenAt(r, q + k, s[(p + k) + 1])
    BY <2>1, <2>3 DEF SameAt
  <2> QED
    BY <1>1, <2>1, <2>4 DEF TokenAt
<1>4. x \in Seq(Tokens) /\ y \in Seq(Tokens) /\ Len(x) = Len(y) /\ \A i \in 1..Len(x) : x[i] = y[i]
  BY <1>1, <1>3 DEF Text
<1>5. x = y
  BY <1>4, SeqEqual
<1> QED
  BY <1>5 DEF x, y

(* A slice of the head of a text, and of what moved behind a new head.     *)
LEMMA SliceKept ==
  ASSUME NEW s \in Text, NEW r \in Text, NEW n \in Nat, n <= Len(s), n <= Len(r),
         Kept(r, s, n), NEW a \in Nat, NEW b \in Nat, a <= b, b <= n
  PROVE  Slice(r, a, b) = Slice(s, a, b)
<1>1. PICK l \in Nat, m \in Nat : l = Len(r) /\ m = Len(s)
  BY LenProperties DEF Text
<1>2. PICK c \in Nat : b = a + c
  <2>1. b - a \in Nat /\ b = a + (b - a)
    OBVIOUS
  <2> QED
    BY <2>1
<1>3. a + c <= l /\ a + c <= m
  BY <1>1, <1>2
<1>4. SameAt(r, a, s, a, c)
  <2>1. \A k \in Nat : k < c => a + k \in Nat /\ a + k < n
    BY <1>2
  <2> QED
    BY <2>1 DEF SameAt, Kept
<1>5. a + c <= Len(r) /\ a + c <= Len(s)
  BY <1>1, <1>3
<1>6. b <= Len(s) /\ b <= Len(r)
  BY <1>2, <1>5
<1> QED
  BY <1>2, <1>4, <1>6, SameSlice

LEMMA SliceMoves ==
  ASSUME NEW s \in Text, NEW h \in Text, NEW b \in Nat, NEW x \in Nat, NEW y \in Nat,
         b <= x, x <= y, y <= Len(s)
  PROVE  Slice(h \o From(s, b), Len(h) + (x - b), Len(h) + (y - b)) = Slice(s, x, y)
<1>1. PICK m \in Nat, n \in Nat : m = Len(h) /\ n = Len(s)
  BY LenProperties DEF Text
<1>0. b <= Len(s)
  BY <1>1
<1>2. PICK r \in Text : r = h \o From(s, b)
  BY <1>0, CutTokens
<1>3. /\ Len(r) = m + (n - b)
      /\ \A t : \A k \in Nat : TokenAt(r, m + k, t) <=> TokenAt(s, b + k, t)
  <2>1. CutOf(s, h, b)
    BY <1>0, CutHolds
  <2> QED
    BY <1>1, <1>2, <2>1 DEF CutOf
<1>4. PICK c \in Nat, d \in Nat : x = b + c /\ y = x + d
  <2>1. x - b \in Nat /\ x = b + (x - b) /\ y - x \in Nat /\ y = x + (y - x)
    OBVIOUS
  <2> QED
    BY <2>1
<1>5. m + (x - b) = m + c /\ m + (y - b) = (m + c) + d /\ m + c \in Nat
  BY <1>4
<1>6. x + d <= n /\ (m + c) + d <= Len(r)
  BY <1>1, <1>3, <1>4
<1>7. SameAt(r, m + c, s, x, d)
  <2>1. \A k \in Nat : c + k \in Nat /\ (m + c) + k = m + (c + k) /\ x + k = b + (c + k)
    BY <1>4
  <2> QED
    BY <1>3, <2>1 DEF SameAt
<1>8. y <= Len(s) /\ (m + c) + d <= Len(r)
  BY <1>1, <1>4, <1>6
<1>9. PICK q \in Nat, e \in Nat : q = m + c /\ e = q + d
  BY <1>4
<1>10. Slice(r, q, e) = Slice(s, x, y)
  BY <1>4, <1>7, <1>8, <1>9, SameSlice
<1> QED
  BY <1>1, <1>2, <1>5, <1>9, <1>10

(* A text as a slice of itself, and of a text it is the head or tail of.   *)
LEMMA WholeSlice ==
  ASSUME NEW s \in Text
  PROVE  Slice(s, 0, Len(s)) = s
BY SubSeqFull DEF Slice, Text

LEMMA SliceOfTail ==
  ASSUME NEW h \in Text, NEW w \in Text
  PROVE  Slice(h \o w, Len(h), Len(h) + Len(w)) = w
<1>1. PICK m \in Nat, n \in Nat : m = Len(h) /\ n = Len(w)
  BY LenProperties DEF Text
<1>2. PICK r \in Text : r = h \o w
  BY JoinTokens
<1>3. /\ Len(r) = m + n
      /\ \A t : \A k \in Nat : TokenAt(r, m + k, t) <=> TokenAt(w, k, t)
  BY <1>1, <1>2, JoinTokens
<1>4. SameAt(r, m, w, 0, n)
  BY <1>3 DEF SameAt
<1>5. PICK e \in Nat : e = m + n /\ e <= Len(r) /\ n <= Len(w) /\ n = 0 + n
  BY <1>1, <1>3
<1>6. Slice(r, m, e) = Slice(w, 0, n)
  BY <1>4, <1>5, SameSlice
<1> QED
  BY <1>1, <1>2, <1>5, <1>6, WholeSlice

(* Texts that agree up to an offset have the same prefix.                  *)
LEMMA UptoKept ==
  ASSUME NEW r \in Text, NEW s \in Text, NEW n \in Nat, n <= Len(r), n <= Len(s), Kept(r, s, n)
  PROVE  Upto(r, n) = Upto(s, n)
<1>1. Len(r) \in Nat /\ Len(s) \in Nat
  BY LenProperties DEF Text
<1>2. /\ Upto(r, n) \in Text /\ Len(Upto(r, n)) = n /\ \A i \in 1..n : Upto(r, n)[i] = r[i]
      /\ Upto(s, n) \in Text /\ Len(Upto(s, n)) = n /\ \A i \in 1..n : Upto(s, n)[i] = s[i]
  BY <1>1, UptoFacts
<1>3. \A i \in 1..n : r[i] = s[i]
  <2> TAKE i \in 1..n
  <2>1. i - 1 \in Nat /\ i - 1 < n /\ (i - 1) + 1 = i /\ i - 1 < Len(r) /\ i - 1 < Len(s)
    BY <1>1
  <2>2. TokenAt(s, i - 1, s[i])
    BY <2>1 DEF TokenAt
  <2>3. TokenAt(r, i - 1, s[i])
    BY <2>1, <2>2 DEF Kept
  <2> QED
    BY <2>1, <2>3 DEF TokenAt
<1> DEFINE x == Upto(r, n)
           y == Upto(s, n)
<1>4. x \in Seq(Tokens) /\ y \in Seq(Tokens) /\ Len(x) = Len(y) /\ \A i \in 1..Len(x) : x[i] = y[i]
  BY <1>2, <1>3 DEF Text
<1> HIDE DEF x, y
<1>5. x = y
  BY <1>4, SeqEqual
<1> QED
  BY <1>5 DEF x, y

LEMMA TextKept ==
  ASSUME NEW r \in Text, NEW s \in Text, NEW n \in Nat, n <= Len(r), n <= Len(s), Kept(r, s, n),
         NEW k \in Nat, NEW w \in Text, k + Len(w) <= n
  PROVE  TextAt(r, k, w) <=> TextAt(s, k, w)
<1> DEFINE y == Upto(s, n)
<1>1. /\ y \in Text /\ Len(y) = n
      /\ \A t : \A j \in Nat : j < n => (TokenAt(y, j, t) <=> TokenAt(s, j, t))
  BY UptoTokens
<1>2. /\ \A t : \A j \in Nat : j < Len(y) => (TokenAt(s, j, t) <=> TokenAt(y, j, t))
      /\ \A t : \A j \in Nat : j < Len(y) => (TokenAt(r, j, t) <=> TokenAt(y, j, t))
  BY <1>1 DEF Kept
<1> HIDE DEF y
<1>3. Len(y) <= Len(s) /\ Len(y) <= Len(r) /\ k + Len(w) <= Len(y) /\ y \in Text
  BY <1>1
<1>4. TextAt(s, k, w) <=> TextAt(y, k, w)
  BY <1>2, <1>3, HeadText
<1>5. TextAt(r, k, w) <=> TextAt(y, k, w)
  BY <1>2, <1>3, HeadText
<1> QED
  BY <1>4, <1>5

(* The head of a text that was put together.                               *)
LEMMA UptoJoin ==
  ASSUME NEW x \in Text, NEW y \in Text
  PROVE  Upto(x \o y, Len(x)) = x
<1>1. Len(x) \in Nat /\ Len(y) \in Nat
  BY LenProperties DEF Text
<1>2. /\ x \o y \in Text /\ Len(x \o y) = Len(x) + Len(y)
      /\ \A i \in 1..Len(x) : (x \o y)[i] = x[i]
  BY JoinFacts
<1>3. Len(x) \in 0..Len(x \o y)
  BY <1>1, <1>2
<1>4. /\ Upto(x \o y, Len(x)) \in Text /\ Len(Upto(x \o y, Len(x))) = Len(x)
      /\ \A i \in 1..Len(x) : Upto(x \o y, Len(x))[i] = (x \o y)[i]
  BY <1>2, <1>3, UptoFacts
<1> QED
  BY <1>2, <1>4, SeqEqual DEF Text

(* A text written between two others.                                      *)
LEMMA WrittenSlice ==
  ASSUME NEW x \in Text, NEW e \in Text, NEW r \in Text, NEW a, NEW b,
         a = Len(x), b = Len(x) + Len(e), b <= Len(r), Kept(r, x \o e, b)
  PROVE  Slice(r, a, b) = e
<1> DEFINE h == x \o e
<1>1. a \in Nat /\ b \in Nat /\ a <= b
  BY LenProperties DEF Text
<1>2. h \in Text /\ Len(h) = b
  BY JoinFacts
<1>3. Slice(h, a, b) = e
  BY SliceOfTail
<1> HIDE DEF h
<1>4. Slice(r, a, b) = Slice(h, a, b)
  <2>1. Kept(r, h, b) /\ b <= b /\ b <= Len(h)
    BY <1>1, <1>2 DEF h
  <2> QED
    BY <1>1, <1>2, <2>1, SliceKept
<1> QED
  BY <1>3, <1>4

(* What stands behind a cut is the rest of the text.                       *)
LEMMA BehindCut ==
  ASSUME NEW x \in Text, NEW y \in Text
  PROVE  From(x \o y, Len(x)) = y
<1>1. PICK m \in Nat, n \in Nat : m = Len(x) /\ n = Len(y)
  BY LenProperties DEF Text
<1>2. PICK r \in Text : /\ r = x \o y /\ Len(r) = m + n
                        /\ \A i \in 1..n : r[m + i] = y[i]
  <2>1. /\ x \o y \in Text /\ Len(x \o y) = Len(x) + Len(y)
        /\ \A i \in 1..Len(y) : (x \o y)[Len(x) + i] = y[i]
    BY JoinFacts
  <2> QED
    BY <1>1, <2>1
<1>3. PICK z \in Text : /\ z = From(r, m) /\ Len(z) = (m + n) - m
                        /\ \A i \in 1..(m + n) - m : z[i] = r[m + i]
  <2>1. m \in 0..Len(r)
    BY <1>2
  <2>2. /\ From(r, m) \in Text /\ Len(From(r, m)) = Len(r) - m
        /\ \A i \in 1..Len(r) - m : From(r, m)[i] = r[m + i]
    BY <2>1, FromFacts
  <2> QED
    BY <1>2, <2>2
<1>4. z = y
  BY <1>1, <1>2, <1>3, SeqEqual DEF Text
<1> QED
  BY <1>1, <1>2, <1>3, <1>4

(* A text that is cut and joined again is the text it was.                 *)
LEMMA CutAndJoined ==
  ASSUME NEW s \in Text, NEW k \in Nat, k <= Len(s)
  PROVE  Upto(s, k) \o From(s, k) = s
<1>1. PICK n \in Nat : n = Len(s)
  BY LenProperties DEF Text
<1>2. PICK x \in Text : x = Upto(s, k) /\ Len(x) = k /\ \A i \in 1..k : x[i] = s[i]
  BY <1>1, UptoFacts
<1>3. PICK r \in Text : /\ r = x \o From(s, k) /\ Len(r) = k + (n - k)
                        /\ \A i \in 1..k : r[i] = x[i]
                        /\ \A i \in 1..n - k : r[k + i] = s[k + i]
  <2>1. k \in 0..Len(s)
    BY <1>1
  <2>2. /\ x \o From(s, k) \in Text /\ Len(x \o From(s, k)) = Len(x) + (Len(s) - k)
        /\ \A i \in 1..Len(x) : (x \o From(s, k))[i] = x[i]
        /\ \A i \in 1..Len(s) - k : (x \o From(s, k))[Len(x) + i] = s[k + i]
    BY <1>2, <2>1, CutFacts
  <2>3. PICK r \in Text : r = x \o From(s, k)
    BY <2>2
  <2>4. /\ Len(r) = Len(x) + (Len(s) - k)
        /\ \A i \in 1..Len(x) : r[i] = x[i]
        /\ \A i \in 1..Len(s) - k : r[Len(x) + i] = s[k + i]
    BY <2>2, <2>3
  <2>5. /\ Len(r) = k + (n - k) /\ \A i \in 1..k : r[i] = x[i]
        /\ \A i \in 1..n - k : r[k + i] = s[k + i]
    BY <1>1, <1>2, <2>4
  <2> QED
    BY <2>3, <2>5
<1>4. ASSUME NEW i \in 1..n PROVE r[i] = s[i]
  <2>1. CASE i <= k
    BY <1>2, <1>3, <2>1
  <2>2. CASE i > k
    <3>1. i - k \in 1..n - k /\ k + (i - k) = i
      BY <2>2
    <3> QED
      BY <1>3, <3>1
  <2> QED
    BY <2>1, <2>2
<1>5. r = s
  BY <1>1, <1>3, <1>4, SeqEqual DEF Text
<1> QED
  BY <1>2, <1>3, <1>5

(* A set of numbers that is not empty has a least one.                     *)
LEMMA Least ==
  ASSUME NEW T, T \subseteq Nat, T # {}
  PROVE  \E x \in T : \A y \in T : x <= y
<1>1. PICK R : R = OpToRel(<, Nat)
  OBVIOUS
<1>2. \E x \in T : \A y \in T : ~ (<<y, x>> \in R)
  BY <1>1, NatLessThanWellFounded, WFMin
<1>3. \A x \in Nat, y \in Nat : ~(<<y, x>> \in R) => x <= y
  BY <1>1 DEF OpToRel
<1> QED
  BY <1>2, <1>3

(* An offset behind a change moves by the difference of the lengths.       *)
LEMMA AdjustFacts ==
  ASSUME NEW x \in Nat, NEW old \in Nat, NEW new \in Nat,
         old <= x, x <= U32Max, (x - old) + new <= U32Max
  PROVE  Adjust(x, old, new) = (x - old) + new
BY U32MaxAssumption DEF Adjust, WrapSub, WrapAdd

(* Percent-encoding keeps the number of tokens.                            *)
LEMMA EncodeFacts ==
  ASSUME NEW s \in Text, NEW set, set \subseteq DOMAIN Encoding
  PROVE  Encode(s, set) \in Text /\ Len(Encode(s, set)) = Len(s)
<1>1. \A t \in DOMAIN Encoding : Encoding[t] \in Tokens
  BY TokensAssumption DEF Encoding, TAB
<1>2. \A i \in 1..Len(s) : (IF s[i] \in set THEN Encoding[s[i]] ELSE s[i]) \in Tokens
  BY <1>1 DEF Text
<1> QED
  BY <1>2, IsASeq DEF Encode, Text

(* The decimal digits of a port.                                           *)
LEMMA PortTextFacts ==
  ASSUME NEW p \in Nat
  PROVE  PortText(p) \in Text /\ Len(PortText(p)) \in 1..5
<1> DEFINE width == IF p < 10 THEN 1 ELSE IF p < 100 THEN 2 ELSE
                    IF p < 1000 THEN 3 ELSE IF p < 10000 THEN 4 ELSE 5
           power == <<1, 10, 100, 1000, 10000>>
           digit(i) == DigitToken[((p \div power[width + 1 - i]) % 10) + 1]
<1>1. \A i \in 1..10 : DigitToken[i] \in Tokens
  <2>1. \A i \in 1..10 : \/ i = 1 \/ i = 2 \/ i = 3 \/ i = 4 \/ i = 5
                         \/ i = 6 \/ i = 7 \/ i = 8 \/ i = 9 \/ i = 10
    OBVIOUS
  <2>2. /\ DigitToken[1] \in Tokens /\ DigitToken[2] \in Tokens
        /\ DigitToken[3] \in Tokens /\ DigitToken[4] \in Tokens
        /\ DigitToken[5] \in Tokens /\ DigitToken[6] \in Tokens
        /\ DigitToken[7] \in Tokens /\ DigitToken[8] \in Tokens
        /\ DigitToken[9] \in Tokens /\ DigitToken[10] \in Tokens
    BY TokensAssumption DEF DigitToken
  <2> QED
    BY <2>1, <2>2
<1>2. \A i \in 1..width : digit(i) \in Tokens
  <2>1. \A i \in 1..width : power[width + 1 - i] \in Nat \ {0}
    OBVIOUS
  <2>2. \A k \in Nat \ {0} : ((p \div k) % 10) + 1 \in 1..10
    OBVIOUS
  <2> QED
    BY <1>1, <2>1, <2>2
<1> QED
  BY <1>2, IsASeq DEF PortText, Text
=============================================================================

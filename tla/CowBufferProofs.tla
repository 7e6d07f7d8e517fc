-------------------------- MODULE CowBufferProofs --------------------------
(***************************************************************************)
(* The serialization buffer implements the plain text buffer, for every    *)
(* input, every string pushed and every order of calls.                    *)
(***************************************************************************)
EXTENDS CowBuffer, UrlTextProofs

(* The text a state of the buffer stands for, and the states it may have.  *)
TextOf(src, st) == IF st.owned THEN st.string ELSE Upto(src, st.len)

StateOf(src) == [owned : {FALSE}, len : 0..Len(src), string : {<<>>}]
                  \cup [owned : {TRUE}, len : {0}, string : Text]

(* Token by token, two texts of one length are one text.                   *)
LEMMA SameTokens ==
  ASSUME NEW x \in Text, NEW y \in Text, Len(x) = Len(y), \A i \in 1..Len(x) : x[i] = y[i]
  PROVE  x = y
BY SeqEqual DEF Text

LEMMA StateText ==
  ASSUME NEW src \in Text, NEW st \in StateOf(src)
  PROVE  /\ TextOf(src, st) \in Text
         /\ Len(TextOf(src, st)) = (IF st.owned THEN Len(st.string) ELSE st.len)
<1>1. CASE st.owned
  BY <1>1 DEF StateOf, TextOf
<1>2. CASE ~st.owned
  <2>1. st.len \in 0..Len(src)
    BY <1>2 DEF StateOf
  <2> QED
    BY <1>2, <2>1, UptoFacts DEF TextOf
<1> QED
  BY <1>1, <1>2

(* A borrowed text grows by what the source goes on with.                  *)
LEMMA Advance ==
  ASSUME NEW src \in Text, NEW k \in 0..Len(src), NEW c \in Text, TextAt(src, k, c)
  PROVE  /\ k + Len(c) \in 0..Len(src)
         /\ Upto(src, k + Len(c)) = Upto(src, k) \o c
<1>1. Len(c) \in Nat /\ Len(src) \in Nat
  BY LenProperties DEF Text
<1>2. k + Len(c) \in 0..Len(src)
  BY <1>1 DEF TextAt
<1> DEFINE x == Upto(src, k + Len(c))
           y == Upto(src, k) \o c
<1>3. x \in Text /\ Len(x) = k + Len(c) /\ \A i \in 1..k + Len(c) : x[i] = src[i]
  BY <1>2, UptoFacts
<1>4. PICK u \in Text : u = Upto(src, k) /\ Len(u) = k /\ \A i \in 1..k : u[i] = src[i]
  BY UptoFacts
<1>5. /\ y \in Text /\ Len(y) = Len(u) + Len(c)
      /\ \A i \in 1..Len(u) : y[i] = u[i]
      /\ \A i \in 1..Len(c) : y[Len(u) + i] = c[i]
  BY <1>4, JoinFacts
<1>6. ASSUME NEW i \in 1..k + Len(c) PROVE x[i] = y[i]
  <2>1. CASE i <= k
    BY <1>1, <1>3, <1>4, <1>5, <2>1
  <2>2. CASE i > k
    <3>1. i - k \in 1..Len(c) /\ k + (i - k) = i
      BY <1>1, <2>2
    <3>2. y[i] = c[i - k] /\ src[i] = c[i - k]
      BY <1>4, <1>5, <3>1 DEF TextAt
    <3> QED
      BY <1>3, <3>2
  <2>3. i <= k \/ i > k
    BY <1>1
  <2> QED
    BY <2>1, <2>2, <2>3
<1>7. x = y
  BY <1>3, <1>4, <1>5, <1>6, SameTokens
<1> QED
  BY <1>2, <1>7

(* A slice of the source stands at its offset.                             *)
LEMMA SliceAt ==
  ASSUME NEW src \in Text, NEW a \in 0..Len(src), NEW b \in 0..Len(src), a <= b
  PROVE  Slice(src, a, b) \in Text /\ TextAt(src, a, Slice(src, a, b))
<1>1. Len(src) \in Nat
  BY LenProperties DEF Text
<1>2. /\ Slice(src, a, b) \in Text
      /\ Len(Slice(src, a, b)) = b - a
      /\ \A i \in 1..b - a : Slice(src, a, b)[i] = src[a + i]
  BY <1>1 DEF Slice, Text
<1> QED
  BY <1>1, <1>2 DEF TextAt

-----------------------------------------------------------------------------
(* What each call does to the text.  TypeOK is all they need.              *)

Good == source \in Source /\ state \in StateOf(source)

LEMMA GoodFacts ==
  ASSUME Good
  PROVE  /\ source \in Text /\ Len(source) \in Nat /\ Len(source) < U32Max
         /\ AsStr = TextOf(source, state) /\ AsStr \in Text
         /\ BufLen = Len(AsStr) /\ BufLen \in Nat
<1>1. source \in Text /\ Len(source) < U32Max
  BY BufferAssumption DEF Good
<1>2. Len(source) \in Nat
  BY <1>1, LenProperties DEF Text
<1>3. AsStr = TextOf(source, state)
  BY DEF AsStr, TextOf
<1>4. AsStr \in Text /\ Len(AsStr) = BufLen
  BY <1>1, <1>3, StateText DEF Good, BufLen
<1>5. Len(AsStr) \in Nat
  BY <1>4, LenProperties DEF Text
<1> QED
  BY <1>1, <1>2, <1>3, <1>4, <1>5

LEMMA OwnedFacts ==
  ASSUME NEW src, NEW s \in Text
  PROVE  Owned(s) \in StateOf(src) /\ TextOf(src, Owned(s)) = s
BY DEF Owned, StateOf, TextOf

LEMMA BorrowedFacts ==
  ASSUME NEW src, NEW k \in 0..Len(src)
  PROVE  Borrowed(k) \in StateOf(src) /\ TextOf(src, Borrowed(k)) = Upto(src, k)
BY DEF Borrowed, StateOf, TextOf

(* The copy that upgrade_to_owned makes holds the text.                    *)
LEMMA UpgradedFacts ==
  ASSUME Good
  PROVE  /\ Upgraded \in StateOf(source) /\ Upgraded.string = AsStr
         /\ TextOf(source, Upgraded) = AsStr
<1>1. CASE state.owned
  BY <1>1 DEF Upgraded, AsStr, TextOf, Good
<1>2. CASE ~state.owned
  <2>1. Upgraded = Owned(AsStr)
    BY <1>2 DEF Upgraded, AsStr
  <2>2. AsStr \in Text
    BY GoodFacts
  <2>3. Owned(AsStr).string = AsStr
    BY DEF Owned
  <2> QED
    BY <2>1, <2>2, <2>3, OwnedFacts
<1> QED
  BY <1>1, <1>2

(* An append, whichever of the three ways it takes.                        *)
LEMMA AppendOwned ==
  ASSUME Good, NEW c \in Text
  PROVE  /\ OwnedWith(c) \in StateOf(source) /\ TextOf(source, OwnedWith(c)) = AsStr \o c
         /\ state.owned => Owned(state.string \o c) = OwnedWith(c)
<1>1. AsStr \in Text /\ Upgraded.string = AsStr
  BY GoodFacts, UpgradedFacts
<1>2. AsStr \o c \in Text
  BY <1>1, JoinFacts
<1>3. OwnedWith(c) = Owned(AsStr \o c)
  BY <1>1 DEF OwnedWith
<1>4. state.owned => AsStr = state.string
  BY DEF AsStr
<1> QED
  BY <1>2, <1>3, <1>4, OwnedFacts

LEMMA AppendBorrowed ==
  ASSUME Good, NEW c \in Text, ~state.owned, TextAt(source, state.len, c)
  PROVE  /\ Borrowed(state.len + Len(c)) \in StateOf(source)
         /\ TextOf(source, Borrowed(state.len + Len(c))) = AsStr \o c
<1>1. source \in Text /\ AsStr = Upto(source, state.len)
  BY GoodFacts DEF AsStr
<1>2. state.len \in 0..Len(source)
  BY DEF Good, StateOf
<1>3. /\ state.len + Len(c) \in 0..Len(source)
      /\ Upto(source, state.len + Len(c)) = Upto(source, state.len) \o c
  BY <1>1, <1>2, Advance
<1> QED
  BY <1>1, <1>3, BorrowedFacts

LEMMA PushedFacts ==
  ASSUME Good, NEW c \in Text
  PROVE  Pushed(c) \in StateOf(source) /\ TextOf(source, Pushed(c)) = AsStr \o c
<1>1. CASE state.owned
  BY <1>1, AppendOwned DEF Pushed
<1>2. CASE ~state.owned /\ TextAt(source, state.len, c)
  BY <1>2, AppendBorrowed DEF Pushed
<1>3. CASE ~state.owned /\ ~TextAt(source, state.len, c)
  BY <1>3, AppendOwned DEF Pushed
<1> QED
  BY <1>1, <1>2, <1>3

(* The unchecked advance of push_str: an argument with the address of the  *)
(* cursor is a slice of the source, so its bytes stand there.              *)
LEMMA PassedFacts ==
  ASSUME Good, NEW s \in Passed
  PROVE  s.text \in Text /\ (~state.owned /\ s.at = state.len => TextAt(source, state.len, s.text))
<1>1. source \in Text /\ Len(source) \in Nat /\ Len(source) < U32Max
  BY GoodFacts
<1>2. ~state.owned => state.len \in 0..Len(source)
  BY DEF Good, StateOf
<1>3. CASE \E t \in Str : s = [text |-> t, at |-> Elsewhere]
  <2>1. s.text \in Text /\ s.at = U32Max
    BY <1>3, BufferAssumption DEF Elsewhere
  <2>2. ~(~state.owned /\ s.at = state.len)
    BY <1>1, <1>2, <2>1, U32MaxAssumption
  <2> QED
    BY <2>1, <2>2
<1>4. CASE \E a, b \in 0..Len(source) : a <= b /\ s = [text |-> Slice(source, a, b), at |-> a]
  <2>1. PICK a \in 0..Len(source), b \in 0..Len(source) :
          a <= b /\ s = [text |-> Slice(source, a, b), at |-> a]
    BY <1>4
  <2>2. Slice(source, a, b) \in Text /\ TextAt(source, a, Slice(source, a, b))
    BY <1>1, <2>1, SliceAt
  <2> QED
    BY <2>1, <2>2
<1>5. \/ \E t \in Str : s = [text |-> t, at |-> Elsewhere]
      \/ \E a, b \in 0..Len(source) : a <= b /\ s = [text |-> Slice(source, a, b), at |-> a]
  BY DEF Passed
<1> QED
  BY <1>3, <1>4, <1>5

LEMMA PushedStrFacts ==
  ASSUME Good, NEW s \in Passed
  PROVE  PushedStr(s) \in StateOf(source) /\ TextOf(source, PushedStr(s)) = AsStr \o s.text
<1>1. s.text \in Text /\ (~state.owned /\ s.at = state.len => TextAt(source, state.len, s.text))
  BY PassedFacts
<1>2. CASE state.owned
  BY <1>1, <1>2, AppendOwned DEF PushedStr
<1>3. CASE ~state.owned /\ TextAt(source, state.len, s.text)
  BY <1>1, <1>3, AppendBorrowed DEF PushedStr
<1>4. CASE ~state.owned /\ ~TextAt(source, state.len, s.text)
  BY <1>1, <1>4, AppendOwned DEF PushedStr
<1> QED
  BY <1>2, <1>3, <1>4

(* A text cut twice is cut at the smaller offset.                          *)
LEMMA UptoUpto ==
  ASSUME NEW s \in Text, NEW n \in 0..Len(s), NEW k \in 0..n
  PROVE  Upto(Upto(s, n), k) = Upto(s, k)
<1>1. Len(s) \in Nat
  BY LenProperties DEF Text
<1>2. PICK u \in Text : u = Upto(s, n) /\ Len(u) = n /\ \A i \in 1..n : u[i] = s[i]
  BY UptoFacts
<1>3. Upto(u, k) \in Text /\ Len(Upto(u, k)) = k /\ \A i \in 1..k : Upto(u, k)[i] = u[i]
  BY <1>2, UptoFacts
<1>4. k \in 0..Len(s)
  BY <1>1
<1>5. Upto(s, k) \in Text /\ Len(Upto(s, k)) = k /\ \A i \in 1..k : Upto(s, k)[i] = s[i]
  BY <1>4, UptoFacts
<1>6. \A i \in 1..k : Upto(u, k)[i] = Upto(s, k)[i]
  BY <1>1, <1>2, <1>3, <1>5
<1>7. Upto(u, k) = Upto(s, k)
  BY <1>3, <1>5, <1>6, SameTokens
<1> QED
  BY <1>2, <1>7

(* A cut moves the cursor back or shortens the copy.                       *)
LEMMA TruncatedFacts ==
  ASSUME Good, NEW k \in 0..BufLen
  PROVE  Truncated(k) \in StateOf(source) /\ TextOf(source, Truncated(k)) = Upto(AsStr, k)
<1>1. CASE state.owned
  <2>1. AsStr = state.string /\ AsStr \in Text /\ BufLen = Len(AsStr)
    BY <1>1, GoodFacts DEF AsStr
  <2>2. Upto(AsStr, k) \in Text
    BY <2>1, UptoFacts
  <2>3. Truncated(k) = Owned(Upto(AsStr, k))
    BY <1>1, <2>1 DEF Truncated
  <2> QED
    BY <2>2, <2>3, OwnedFacts
<1>2. CASE ~state.owned
  <2>1. source \in Text /\ AsStr = Upto(source, state.len) /\ state.len \in 0..Len(source)
    BY <1>2, GoodFacts DEF AsStr, Good, StateOf
  <2>2. k \in 0..state.len
    BY <1>2 DEF BufLen
  <2>3. k \in 0..Len(source)
    BY <2>1, <2>2, GoodFacts
  <2>4. Upto(AsStr, k) = Upto(source, k)
    BY <2>1, <2>2, UptoUpto
  <2> QED
    BY <1>2, <2>3, <2>4, BorrowedFacts DEF Truncated
<1> QED
  BY <1>1, <1>2

(* A splice works on the copy.                                             *)
LEMMA ReplacedFacts ==
  ASSUME Good, NEW a \in 0..BufLen, NEW b \in 0..BufLen, NEW s \in Text
  PROVE  /\ Replaced(a, b, s) \in StateOf(source)
         /\ TextOf(source, Replaced(a, b, s)) = Upto(AsStr, a) \o s \o From(AsStr, b)
<1>1. AsStr \in Text /\ BufLen = Len(AsStr) /\ Upgraded.string = AsStr
  BY GoodFacts, UpgradedFacts
<1>2. Upto(AsStr, a) \in Text /\ From(AsStr, b) \in Text
  BY <1>1, UptoFacts, FromFacts
<1>3. Upto(AsStr, a) \o s \in Text
  BY <1>2, JoinFacts
<1>4. Upto(AsStr, a) \o s \o From(AsStr, b) \in Text
  BY <1>2, <1>3, JoinFacts
<1>5. Replaced(a, b, s) = Owned(Upto(AsStr, a) \o s \o From(AsStr, b))
  BY <1>1 DEF Replaced
<1> QED
  BY <1>4, <1>5, OwnedFacts

LEMMA JoinEmpty ==
  ASSUME NEW s \in Text
  PROVE  s \o <<>> = s /\ <<>> \in Text
<1>1. <<>> \in Text /\ Len(<<>>) = 0 /\ Len(s) \in Nat
  BY LenProperties DEF Text
<1>2. /\ s \o <<>> \in Text /\ Len(s \o <<>>) = Len(s) + Len(<<>>)
      /\ \A i \in 1..Len(s) : (s \o <<>>)[i] = s[i]
  BY <1>1, JoinFacts
<1>3. Len(s \o <<>>) = Len(s)
  BY <1>1, <1>2
<1> QED
  BY <1>1, <1>2, <1>3, SameTokens

-----------------------------------------------------------------------------
(* The steps.                                                              *)

(* A call that leaves the buffer usable.                                   *)
LEMMA StepFacts ==
  ASSUME Good, NEW st \in StateOf(source), NEW call, Step(st, call)
  PROVE  /\ Good' /\ AsStr' = TextOf(source, st)
         /\ last' = call /\ result = {} /\ result' = {}
<1>1. source' = source /\ state' = st /\ last' = call /\ result = {} /\ result' = {}
  BY DEF Step
<1> QED
  BY <1>1 DEF Good, AsStr, TextOf

(* The abstract buffer speaks of the same texts.                           *)
LEMMA SameWords ==
  /\ B!Text = Text
  /\ \A s, k : B!Upto(s, k) = Upto(s, k) /\ B!From(s, k) = From(s, k)
BY DEF B!Text, Text, B!Upto, Upto, B!From, From

(* push and push_str append their argument; they copy only if the source   *)
(* does not go on with it.                                                 *)
LEMMA AppendStep ==
  ASSUME Good, NEW c \in Text, NEW st \in StateOf(source), TextOf(source, st) = AsStr \o c,
         Step(st, [op |-> "append", arg |-> c])
  PROVE  Good' /\ B!Next
<1>1. /\ Good' /\ AsStr' = AsStr \o c
      /\ last' = [op |-> "append", arg |-> c] /\ result = {} /\ result' = {}
  BY StepFacts
<1>2. B!Appended
  BY <1>1, SameWords DEF B!Appended
<1> QED
  BY <1>1, <1>2 DEF B!Next

LEMMA CutStep ==
  ASSUME Good, NEW k \in 0..BufLen, Step(Truncated(k), [op |-> "cut", at |-> k])
  PROVE  Good' /\ B!Next
<1>1. Truncated(k) \in StateOf(source) /\ TextOf(source, Truncated(k)) = Upto(AsStr, k)
  BY TruncatedFacts
<1>2. /\ Good' /\ AsStr' = Upto(AsStr, k)
      /\ last' = [op |-> "cut", at |-> k] /\ result = {} /\ result' = {}
  BY <1>1, StepFacts
<1>3. k \in 0..Len(AsStr)
  BY GoodFacts
<1>4. B!Cut
  BY <1>2, <1>3, SameWords DEF B!Cut
<1> QED
  BY <1>2, <1>4 DEF B!Next

LEMMA SpliceStep ==
  ASSUME Good, NEW a \in 0..BufLen, NEW b \in 0..BufLen, NEW s \in Str, a <= b,
         Step(Replaced(a, b, s), [op |-> "splice", from |-> a, to |-> b, arg |-> s])
  PROVE  Good' /\ B!Next
<1>1. s \in Text /\ BufLen = Len(AsStr) /\ BufLen \in Nat
  BY BufferAssumption, GoodFacts
<1>2. /\ Replaced(a, b, s) \in StateOf(source)
      /\ TextOf(source, Replaced(a, b, s)) = Upto(AsStr, a) \o s \o From(AsStr, b)
  BY <1>1, ReplacedFacts
<1>3. /\ Good' /\ AsStr' = Upto(AsStr, a) \o s \o From(AsStr, b)
      /\ last' = [op |-> "splice", from |-> a, to |-> b, arg |-> s] /\ result = {} /\ result' = {}
  BY <1>2, StepFacts
<1>4. a \in 0..b /\ b \in 0..Len(AsStr)
  BY <1>1
<1>5. B!Spliced
  BY <1>1, <1>3, <1>4, SameWords DEF B!Spliced
<1> QED
  BY <1>3, <1>5 DEF B!Next

(* Every call is a call of the plain buffer.                               *)
LEMMA NextStep ==
  ASSUME Good, Next
  PROVE  Good' /\ B!Next
<1>1. CASE Push
  <2>1. PICK c \in Char : Step(Pushed(c), [op |-> "append", arg |-> c])
    BY <1>1 DEF Push
  <2>2. c \in Text
    BY BufferAssumption
  <2> QED
    BY <2>1, <2>2, PushedFacts, AppendStep
<1>2. CASE PushStr
  <2>1. PICK s \in Passed : Step(PushedStr(s), [op |-> "append", arg |-> s.text])
    BY <1>2 DEF PushStr
  <2>2. s.text \in Text
    BY PassedFacts
  <2> QED
    BY <2>1, <2>2, PushedStrFacts, AppendStep
<1>3. CASE Truncate
  BY <1>3, CutStep DEF Truncate
<1>4. CASE Pop
  <2>1. PICK k \in Popped(AsStr) : Step(Truncated(k), [op |-> "cut", at |-> k])
    BY <1>4 DEF Pop
  <2>2. k \in 0..Len(AsStr) - 1
    BY <2>1 DEF Popped
  <2>3. k \in 0..BufLen
    BY <2>2, GoodFacts
  <2> QED
    BY <2>1, <2>3, CutStep
<1>5. CASE Clear
  <2>1. 0 \in 0..BufLen
    BY GoodFacts
  <2> QED
    BY <1>5, <2>1, CutStep DEF Clear
<1>6. CASE Reserve
  <2>1. AsStr \o <<>> = AsStr /\ <<>> \in Text
    BY GoodFacts, JoinEmpty
  <2>2. Upgraded \in StateOf(source) /\ TextOf(source, Upgraded) = AsStr
    BY UpgradedFacts
  <2> QED
    BY <1>6, <2>1, <2>2, AppendStep DEF Reserve
<1>7. CASE Replace
  BY <1>7, SpliceStep DEF Replace
<1>8. CASE Finish
  <2>1. /\ source' = source /\ state' = state /\ last' = [op |-> "take"]
        /\ result = {} /\ result' = {[owned |-> state.owned, text |-> AsStr]}
    BY <1>8 DEF Finish
  <2>2. Good' /\ AsStr' = AsStr
    BY <2>1 DEF Good, AsStr
  <2>3. {r.text : r \in result'} = {AsStr} /\ {r.text : r \in result} = {}
    BY <2>1
  <2> QED
    BY <2>1, <2>2, <2>3 DEF B!Next, B!HandedOver
<1>9. CASE IntoString
  <2>1. /\ source' = source /\ state' = Upgraded /\ last' = [op |-> "take"]
        /\ result = {} /\ result' = {[owned |-> TRUE, text |-> AsStr]}
    BY <1>9, UpgradedFacts DEF IntoString
  <2>2. /\ Good'
        /\ AsStr' = TextOf(source, Upgraded)
    BY <2>1, UpgradedFacts DEF Good, AsStr, TextOf
  <2>3. AsStr' = AsStr
    BY <2>2, UpgradedFacts
  <2>4. {r.text : r \in result'} = {AsStr} /\ {r.text : r \in result} = {}
    BY <2>1
  <2> QED
    BY <2>1, <2>2, <2>3, <2>4 DEF B!Next, B!HandedOver
<1> QED
  BY <1>1, <1>2, <1>3, <1>4, <1>5, <1>6, <1>7, <1>8, <1>9 DEF Next

LEMMA InitGood ==
  ASSUME Init
  PROVE  Good /\ B!Init
<1>0. source \in Source
  BY DEF Init
<1>1. ASSUME state = Borrowed(0) PROVE Good
  <2>1. source \in Text /\ Len(source) \in Nat
    BY BufferAssumption, LenProperties DEF Init, Text
  <2>2. 0 \in 0..Len(source)
    BY <2>1
  <2> QED
    BY <1>0, <1>1, <2>2, BorrowedFacts DEF Good
<1>2. ASSUME NEW s \in Str, state = Owned(s) PROVE Good
  <2>1. s \in Text
    BY BufferAssumption
  <2> QED
    BY <1>0, <1>2, <2>1, OwnedFacts DEF Good
<1>3. Good
  BY <1>1, <1>2 DEF Init
<1>4. AsStr \in B!Text /\ {r.text : r \in result} = {} /\ last = [op |-> "new"]
  BY <1>3, GoodFacts, SameWords DEF Init
<1> QED
  BY <1>3, <1>4 DEF B!Init

LEMMA GoodStep ==
  ASSUME Good, [Next]_vars
  PROVE  Good' /\ [B!Next]_<<AsStr, last, {r.text : r \in result}>>
<1>1. CASE Next
  BY <1>1, NextStep
<1>2. CASE UNCHANGED vars
  <2>1. source' = source /\ state' = state /\ last' = last /\ result' = result
    BY <1>2 DEF vars
  <2> QED
    BY <2>1 DEF Good, AsStr
<1> QED
  BY <1>1, <1>2

(* Borrowed or owned, whatever input is borrowed from and whatever is      *)
(* pushed, cut and spliced in whatever order, as_str shows what a plain    *)
(* string would hold, and finish and into_string hand that over.           *)
THEOREM BufferIsText == Spec => ImplementsTextBuffer
<1>1. Init => Good /\ B!Init
  BY InitGood
<1>2. Good /\ [Next]_vars => Good' /\ [B!Next]_<<AsStr, last, {r.text : r \in result}>>
  BY GoodStep
<1> QED
  BY <1>1, <1>2, PTL DEF Spec, ImplementsTextBuffer, B!Spec

-----------------------------------------------------------------------------
(* Zero-copy.                                                              *)

(* A text that goes on as the source does is a prefix of the source.       *)
LEMMA SourceGoesOn ==
  ASSUME Good, ~state.owned, NEW c \in Text, TextAt(source, 0, AsStr \o c)
  PROVE  TextAt(source, state.len, c)
<1>1. source \in Text /\ state.len \in 0..Len(source) /\ Len(source) \in Nat
  BY GoodFacts DEF Good, StateOf
<1>2. PICK u \in Text : u = AsStr /\ Len(u) = state.len
  BY GoodFacts DEF BufLen
<1>3. /\ Len(u \o c) = Len(u) + Len(c)
      /\ \A i \in 1..Len(c) : (u \o c)[Len(u) + i] = c[i]
  BY JoinFacts
<1>4. Len(c) \in Nat
  BY LenProperties DEF Text
<1>5. Len(u) + Len(c) <= Len(source)
  BY <1>1, <1>2, <1>3, <1>4 DEF TextAt
<1>6. ASSUME NEW i \in 1..Len(c) PROVE source[state.len + i] = c[i]
  <2>1. Len(u) + i \in 1..Len(u \o c)
    BY <1>1, <1>2, <1>3, <1>4
  <2>2. source[0 + (Len(u) + i)] = (u \o c)[Len(u) + i]
    BY <1>2, <2>1 DEF TextAt
  <2> QED
    BY <1>1, <1>2, <1>3, <1>4, <2>2
<1> QED
  BY <1>1, <1>2, <1>5, <1>6 DEF TextAt

LEMMA CopyStep ==
  ASSUME Good, Next, ~state.owned, state'.owned, last'.op = "append", last'.arg # <<>>
  PROVE  ~TextAt(source, 0, AsStr')
<1>1. CASE Push
  <2>1. PICK c \in Char : Step(Pushed(c), [op |-> "append", arg |-> c])
    BY <1>1 DEF Push
  <2>2. c \in Text /\ Pushed(c) \in StateOf(source) /\ TextOf(source, Pushed(c)) = AsStr \o c
    BY BufferAssumption, PushedFacts
  <2>3. AsStr' = AsStr \o c /\ state' = Pushed(c)
    BY <2>1, <2>2, StepFacts DEF Step
  <2>4. ~TextAt(source, state.len, c)
    BY <2>3 DEF Pushed, Borrowed
  <2> QED
    BY <2>2, <2>3, <2>4, SourceGoesOn
<1>2. CASE PushStr
  <2>1. PICK s \in Passed : Step(PushedStr(s), [op |-> "append", arg |-> s.text])
    BY <1>2 DEF PushStr
  <2>2. /\ s.text \in Text /\ PushedStr(s) \in StateOf(source)
        /\ TextOf(source, PushedStr(s)) = AsStr \o s.text
    BY PassedFacts, PushedStrFacts
  <2>3. AsStr' = AsStr \o s.text /\ state' = PushedStr(s)
    BY <2>1, <2>2, StepFacts DEF Step
  <2>4. ~TextAt(source, state.len, s.text)
    BY <2>3 DEF PushedStr, Borrowed
  <2> QED
    BY <2>2, <2>3, <2>4, SourceGoesOn
<1>3. ~(Truncate \/ Pop \/ Clear \/ Replace)
  BY DEF Truncate, Pop, Clear, Replace, Step
<1>4. ~(Reserve \/ Finish \/ IntoString)
  BY DEF Reserve, Finish, IntoString, Step
<1> QED
  BY <1>1, <1>2, <1>3, <1>4 DEF Next

(* No append copies the text while it is still a prefix of the input.      *)
THEOREM NoNeedlessCopy == Spec => CopiesOnlyOnDifference
<1>1. Init => Good
  BY InitGood
<1>2. Good /\ [Next]_vars => Good'
  BY GoodStep
<1>3. Good /\ [Next]_vars =>
        [~state.owned /\ state'.owned /\ last'.op = "append" /\ last'.arg # <<>>
           => ~TextAt(source, 0, AsStr')]_vars
  BY CopyStep
<1> QED
  BY <1>1, <1>2, <1>3, PTL DEF Spec, CopiesOnlyOnDifference
-----------------------------------------------------------------------------
(* The cursor.                                                             *)

(* No char spans a boundary.                                               *)
LEMMA NoCharSpans ==
  ASSUME NEW s \in Text, NEW k \in Nat, Boundary(s, k),
         NEW c \in Char, NEW j \in Nat, j < k, TextAt(s, j, c)
  PROVE  j + Len(c) <= k
<1>1. PICK n \in Nat, m \in Nat : n = Len(s) /\ m = Len(c)
  BY BufferAssumption, LenProperties DEF Text
<1>2. SUFFICES ASSUME k < j + m PROVE FALSE
  BY <1>1
<1>3. j + m <= n /\ \A i \in 1..m : s[j + i] = c[i]
  BY <1>1 DEF TextAt
<1>4. PICK e \in Char : TextAt(s, k, e)
  BY <1>1, <1>2, <1>3 DEF Boundary
<1>5. s[k + 1] = e[1]
  <2>1. e \in Text /\ e # <<>>
    BY BufferAssumption
  <2>2. Len(e) \in Nat \ {0}
    BY <2>1, LenProperties, EmptySeq DEF Text
  <2> QED
    BY <1>4, <2>2 DEF TextAt
<1>6. PICK i \in 2..m : k + 1 = j + i
  <2>1. (k + 1) - j \in 2..m /\ k + 1 = j + ((k + 1) - j)
    BY <1>2
  <2> QED
    BY <2>1
<1>7. c[i] = e[1]
  BY <1>3, <1>5, <1>6
<1> QED
  BY <1>1, <1>6, <1>7, Utf8Assumption

(* A string that stands at a boundary ends at one.                         *)
LEMMA EndsAtBoundary ==
  ASSUME NEW s \in Text, OfChars(s), NEW k \in Nat, Boundary(s, k),
         NEW t \in Text, OfChars(t), TextAt(s, k, t)
  PROVE  Boundary(s, k + Len(t))
<1>1. PICK n \in Nat, m \in Nat : n = Len(s) /\ m = Len(t)
  BY LenProperties DEF Text
<1>2. k + m <= n /\ \A i \in 1..m : s[k + i] = t[i]
  BY <1>1 DEF TextAt
<1>3. SUFFICES ASSUME k + m < n, k + m # 0 PROVE Boundary(s, k + m)
  BY <1>1, <1>2 DEF Boundary
<1>4. PICK c \in Char, j \in 0..k + m : TextAt(s, j, c) /\ k + m < j + Len(c)
  BY <1>1, <1>3 DEF OfChars
<1>5. SUFFICES ASSUME j < k + m PROVE FALSE
  BY <1>4 DEF Boundary
<1>6. PICK l \in Nat : l = Len(c) /\ c \in Text
  BY BufferAssumption, LenProperties DEF Text
<1>7. k <= j
  BY <1>4, <1>6, NoCharSpans
<1>8. PICK a \in Nat : j = k + a /\ a < m
  <2>1. j - k \in Nat /\ j = k + (j - k) /\ j - k < m
    BY <1>5, <1>7
  <2> QED
    BY <2>1
<1>9. PICK d \in Char, b \in 0..a : TextAt(t, b, d) /\ a < b + Len(d)
  BY <1>1, <1>8 DEF OfChars
<1>10. PICK h \in Nat : h = Len(d) /\ d \in Text
  BY BufferAssumption, LenProperties DEF Text
<1>11. b + h <= m /\ \A i \in 1..h : t[b + i] = d[i]
  BY <1>1, <1>9, <1>10 DEF TextAt
<1>12. j + l <= n /\ \A i \in 1..l : s[j + i] = c[i]
  BY <1>1, <1>4, <1>6 DEF TextAt
<1>13. b = a
  <2> SUFFICES ASSUME b < a PROVE FALSE
    OBVIOUS
  <2>1. PICK i \in 2..h : b + i = a + 1
    <3>1. (a + 1) - b \in 2..h /\ b + ((a + 1) - b) = a + 1
      BY <1>9, <1>10
    <3> QED
      BY <3>1
  <2>2. t[a + 1] = d[i]
    BY <1>11, <2>1
  <2>3. s[k + (a + 1)] = t[a + 1]
    <3>1. a + 1 \in 1..m
      BY <1>8
    <3> QED
      BY <1>2, <3>1
  <2>4. s[k + (a + 1)] = c[1]
    <3>1. 1 \in 1..l /\ k + (a + 1) = j + 1
      BY <1>4, <1>5, <1>6, <1>8
    <3> QED
      BY <1>12, <3>1
  <2> QED
    BY <1>10, <2>1, <2>2, <2>3, <2>4, Utf8Assumption
<1>14. h < l
  BY <1>4, <1>6, <1>8, <1>11, <1>13
<1>15. ASSUME NEW i \in 1..h PROVE c[i] = d[i]
  <2>1. a + i \in 1..m /\ i \in 1..l /\ k + (a + i) = j + i
    BY <1>8, <1>11, <1>13, <1>14
  <2>2. s[k + (a + i)] = t[a + i] /\ t[a + i] = d[i] /\ s[j + i] = c[i]
    BY <1>2, <1>11, <1>12, <1>13, <2>1
  <2> QED
    BY <2>1, <2>2
<1>16. TextAt(c, 0, d)
  BY <1>6, <1>10, <1>14, <1>15 DEF TextAt
<1> QED
  BY <1>6, <1>10, <1>14, <1>16, Utf8Assumption

(* A char is a string, and so is what stands between two boundaries.       *)
LEMMA CharOfChars ==
  ASSUME NEW c \in Char
  PROVE  c \in Text /\ OfChars(c)
<1>1. PICK l \in Nat : l = Len(c) /\ c \in Text
  BY BufferAssumption, LenProperties DEF Text
<1>2. TextAt(c, 0, c)
  BY <1>1 DEF TextAt
<1>3. \A i \in 0..l - 1 : 0 \in 0..i /\ i < 0 + l
  OBVIOUS
<1> QED
  BY <1>1, <1>2, <1>3 DEF OfChars

LEMMA SliceOfChars ==
  ASSUME NEW s \in Text, OfChars(s), NEW a \in Nat, NEW b \in Nat, a <= b, b <= Len(s),
         Boundary(s, a), Boundary(s, b)
  PROVE  OfChars(Slice(s, a, b))
<1>1. PICK n \in Nat : n = Len(s)
  BY LenProperties DEF Text
<1>2. PICK m \in Nat : b = a + m
  <2>1. b - a \in Nat /\ b = a + (b - a)
    OBVIOUS
  <2> QED
    BY <2>1
<1>3. PICK t \in Text : t = Slice(s, a, b) /\ Len(t) = m /\ \A i \in 1..m : t[i] = s[a + i]
  <2>1. a \in 0..Len(s) /\ b \in 0..Len(s) /\ b - a = m
    BY <1>1, <1>2
  <2>2. /\ Slice(s, a, b) \in Text
        /\ Len(Slice(s, a, b)) = b - a
        /\ \A i \in 1..b - a : Slice(s, a, b)[i] = s[a + i]
    BY <1>1, <2>1 DEF Slice, Text
  <2> QED
    BY <2>1, <2>2
<1>4. SUFFICES ASSUME NEW i \in 0..m - 1
               PROVE  \E c \in Char, j \in 0..i : TextAt(t, j, c) /\ i < j + Len(c)
  BY <1>3 DEF OfChars
<1>5. PICK c \in Char, j \in 0..a + i : TextAt(s, j, c) /\ a + i < j + Len(c)
  <2>1. a + i \in 0..n - 1
    BY <1>1, <1>2
  <2> QED
    BY <1>1, <2>1 DEF OfChars
<1>6. PICK l \in Nat : l = Len(c) /\ c \in Text
  BY BufferAssumption, LenProperties DEF Text
<1>7. a <= j /\ j + l <= b
  BY <1>2, <1>5, <1>6, NoCharSpans
<1>8. PICK k \in 0..i : j = a + k
  <2>1. j - a \in 0..i /\ j = a + (j - a)
    BY <1>7
  <2> QED
    BY <2>1
<1>9. k + l <= m
  BY <1>2, <1>7, <1>8
<1>10. ASSUME NEW x \in 1..l PROVE t[k + x] = c[x]
  <2>1. k + x \in 1..m /\ a + (k + x) = j + x
    BY <1>8, <1>9
  <2>2. s[j + x] = c[x]
    BY <1>5, <1>6 DEF TextAt
  <2> QED
    BY <1>3, <2>1, <2>2
<1>11. TextAt(t, k, c) /\ i < k + Len(c)
  BY <1>3, <1>5, <1>6, <1>8, <1>9, <1>10 DEF TextAt
<1> QED
  BY <1>8, <1>11

(* What is passed is a string.                                             *)
LEMMA PassedOfChars ==
  ASSUME Good, NEW s \in Passed
  PROVE  s.text \in Text /\ OfChars(s.text)
<1>1. source \in Text /\ OfChars(source) /\ Len(source) \in Nat
  BY GoodFacts, Utf8Assumption DEF Good
<1>2. CASE \E t \in Str : s = [text |-> t, at |-> Elsewhere]
  BY <1>2, PassedFacts, Utf8Assumption
<1>3. CASE \E a, b \in 0..Len(source) : /\ a <= b /\ Boundary(source, a) /\ Boundary(source, b)
                                        /\ s = [text |-> Slice(source, a, b), at |-> a]
  <2>1. PICK a \in 0..Len(source), b \in 0..Len(source) :
          /\ a <= b /\ Boundary(source, a) /\ Boundary(source, b)
          /\ s = [text |-> Slice(source, a, b), at |-> a]
    BY <1>3
  <2>2. OfChars(Slice(source, a, b))
    BY <1>1, <2>1, SliceOfChars
  <2> QED
    BY <2>1, <2>2, PassedFacts
<1>4. \/ \E t \in Str : s = [text |-> t, at |-> Elsewhere]
      \/ \E a, b \in 0..Len(source) : /\ a <= b /\ Boundary(source, a) /\ Boundary(source, b)
                                      /\ s = [text |-> Slice(source, a, b), at |-> a]
  BY DEF Passed
<1> QED
  BY <1>2, <1>3, <1>4

(* Where a state of the buffer leaves the cursor.                          *)
AtBoundary(st) == ~st.owned => Boundary(source, st.len)

LEMMA OwnedHasNoCursor ==
  ASSUME NEW s
  PROVE  AtBoundary(Owned(s)) /\ AtBoundary(Upgraded) /\ AtBoundary(OwnedWith(s))
BY DEF AtBoundary, Owned, Upgraded, OwnedWith

LEMMA AppendAtBoundary ==
  ASSUME Good, CursorBetweenChars, ~state.owned, NEW t \in Text, OfChars(t),
         TextAt(source, state.len, t)
  PROVE  AtBoundary(Borrowed(state.len + Len(t)))
<1>1. source \in Text /\ OfChars(source) /\ Boundary(source, state.len) /\ state.len \in Nat
  <2>1. source \in Text /\ OfChars(source) /\ Boundary(source, state.len)
    BY GoodFacts, Utf8Assumption DEF Good, CursorBetweenChars
  <2>2. state.len \in 0..Len(source)
    BY DEF Good, StateOf
  <2> QED
    BY <2>1, <2>2
<1>2. Boundary(source, state.len + Len(t))
  BY <1>1, EndsAtBoundary
<1> QED
  BY <1>2 DEF AtBoundary, Borrowed

(* A boundary of the borrowed text is one of the source: truncate and pop  *)
(* go back to where a char of the source begins.                           *)
LEMMA CutAtBoundary ==
  ASSUME Good, CursorBetweenChars, NEW k \in 0..BufLen, Boundary(AsStr, k)
  PROVE  AtBoundary(Truncated(k))
<1>1. CASE state.owned
  BY <1>1, OwnedHasNoCursor DEF Truncated
<1>2. CASE ~state.owned
  <2>1. PICK x \in Text : /\ x = AsStr /\ Len(x) = state.len
                          /\ \A i \in 1..state.len : x[i] = source[i]
    <3>1. source \in Text /\ state.len \in 0..Len(source) /\ AsStr = Upto(source, state.len)
      BY <1>2, GoodFacts DEF Good, StateOf, AsStr
    <3> QED
      BY <3>1, UptoFacts
  <2>2. state.len \in Nat /\ state.len <= Len(source) /\ Len(source) \in Nat /\ k \in Nat
    <3>1. state.len \in 0..Len(source) /\ BufLen = state.len
      BY <1>2 DEF Good, StateOf, BufLen
    <3> QED
      BY <3>1, GoodFacts
  <2>3. Boundary(source, k)
    <3>1. CASE k = 0
      BY <3>1 DEF Boundary
    <3>2. CASE k = state.len
      BY <1>2, <3>2 DEF CursorBetweenChars
    <3>3. CASE \E c \in Char : TextAt(x, k, c)
      <4>1. PICK c \in Char : TextAt(x, k, c)
        BY <3>3
      <4>2. PICK l \in Nat : l = Len(c)
        BY BufferAssumption, LenProperties DEF Text
      <4>3. k + l <= state.len /\ \A i \in 1..l : x[k + i] = c[i]
        BY <2>1, <4>1, <4>2 DEF TextAt
      <4>4. ASSUME NEW i \in 1..l PROVE source[k + i] = c[i]
        <5>1. k + i \in 1..state.len
          BY <2>2, <4>3
        <5> QED
          BY <2>1, <4>3, <5>1
      <4>5. TextAt(source, k, c)
        BY <2>2, <4>2, <4>3, <4>4 DEF TextAt
      <4> QED
        BY <4>5 DEF Boundary
    <3> QED
      BY <2>1, <3>1, <3>2, <3>3 DEF Boundary
  <2> QED
    BY <1>2, <2>3 DEF Truncated, AtBoundary, Borrowed
<1> QED
  BY <1>1, <1>2

LEMMA BoundaryStep ==
  ASSUME Good, CursorBetweenChars, Next
  PROVE  CursorBetweenChars'
<1>1. ASSUME NEW st, NEW call, Step(st, call), AtBoundary(st)
      PROVE  CursorBetweenChars'
  BY <1>1 DEF Step, AtBoundary, CursorBetweenChars
<1>2. CASE Push
  <2>1. PICK c \in Char : Step(Pushed(c), [op |-> "append", arg |-> c])
    BY <1>2 DEF Push
  <2>2. c \in Text /\ OfChars(c)
    BY CharOfChars
  <2>3. AtBoundary(Pushed(c))
    BY <2>2, AppendAtBoundary, OwnedHasNoCursor DEF Pushed
  <2> QED
    BY <1>1, <2>1, <2>3
<1>3. CASE PushStr
  <2>1. PICK s \in Passed : Step(PushedStr(s), [op |-> "append", arg |-> s.text])
    BY <1>3 DEF PushStr
  <2>2. s.text \in Text /\ OfChars(s.text)
    BY PassedOfChars
  <2>3. ~state.owned /\ s.at = state.len => TextAt(source, state.len, s.text)
    BY PassedFacts
  <2>4. AtBoundary(PushedStr(s))
    BY <2>2, <2>3, AppendAtBoundary, OwnedHasNoCursor DEF PushedStr
  <2> QED
    BY <1>1, <2>1, <2>4
<1>4. CASE Truncate
  BY <1>1, <1>4, CutAtBoundary DEF Truncate
<1>5. CASE Pop
  <2>1. PICK k \in Popped(AsStr) : Step(Truncated(k), [op |-> "cut", at |-> k])
    BY <1>5 DEF Pop
  <2>2. k \in 0..BufLen /\ Boundary(AsStr, k)
    BY <2>1, GoodFacts DEF Popped
  <2> QED
    BY <1>1, <2>1, <2>2, CutAtBoundary
<1>6. CASE Clear
  <2>1. 0 \in 0..BufLen /\ Boundary(AsStr, 0)
    BY GoodFacts DEF Boundary
  <2> QED
    BY <1>1, <1>6, <2>1, CutAtBoundary DEF Clear
<1>7. CASE Reserve
  BY <1>1, <1>7, OwnedHasNoCursor DEF Reserve
<1>8. CASE Replace
  BY <1>1, <1>8, OwnedHasNoCursor DEF Replace, Replaced
<1>9. CASE Finish
  BY <1>9 DEF Finish, CursorBetweenChars
<1>10. CASE IntoString
  <2>1. state' = Upgraded /\ source' = source
    BY <1>10 DEF IntoString
  <2>2. Upgraded.owned
    BY DEF Upgraded, Owned
  <2> QED
    BY <2>1, <2>2 DEF CursorBetweenChars
<1> QED
  BY <1>2, <1>3, <1>4, <1>5, <1>6, <1>7, <1>8, <1>9, <1>10 DEF Next

(* The cursor never stops inside a char of the input: the slice of the     *)
(* source that the next comparison takes exists.                           *)
THEOREM CursorStaysBetweenChars == Spec => []CursorBetweenChars
<1>1. Init => Good /\ CursorBetweenChars
  BY InitGood DEF Init, CursorBetweenChars, Borrowed, Owned, Boundary
<1>2. Good /\ CursorBetweenChars /\ [Next]_vars => (Good /\ CursorBetweenChars)'
  <2>1. Good /\ CursorBetweenChars /\ Next => CursorBetweenChars'
    BY BoundaryStep
  <2>2. CursorBetweenChars /\ UNCHANGED vars => CursorBetweenChars'
    BY DEF vars, CursorBetweenChars
  <2> QED
    BY <2>1, <2>2, GoodStep
<1> QED
  BY <1>1, <1>2, PTL DEF Spec
=============================================================================

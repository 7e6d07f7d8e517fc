----------------------------- MODULE CowBuffer -----------------------------
(***************************************************************************)
(* SerializationBuf (src/parser/serialization.rs): the text the parser     *)
(* writes.  It borrows the parser's input for as long as what is written   *)
(* is what the input goes on with, and owns a copy from the first          *)
(* difference on.                                                          *)
(*                                                                         *)
(* Here a token is one byte.  A char is a sequence of bytes, and two chars *)
(* may share their first bytes: the cursor into the source must never stop *)
(* between them, or the next slice of the source panics.                   *)
(***************************************************************************)
EXTENDS UrlText

CONSTANTS Source,    \* the inputs the buffer may borrow from
          Char,      \* the chars pushed, each a sequence of bytes
          Str,       \* the strings pushed and inserted
          MaxLen     \* the longest text a run writes

ASSUME BufferAssumption ==
  /\ Source \subseteq Text /\ <<>> \in Source
  /\ \A s \in Source : Len(s) < U32Max   \* longer inputs are refused before
  /\ Char \subseteq Text \ {<<>>} /\ Str \subseteq Text
  /\ MaxLen \in Nat

VARIABLES source,    \* the text borrowed from
          state,     \* Borrowed {len} or Owned(string)
          last,      \* the last call with its arguments
          result     \* {} or {the Backing that finish or into_string returned}

vars == <<source, state, last, result>>

Borrowed(len) == [owned |-> FALSE, len |-> len, string |-> <<>>]
Owned(s)      == [owned |-> TRUE, len |-> 0, string |-> s]

AsStr == IF state.owned THEN state.string ELSE Upto(source, state.len)
BufLen == IF state.owned THEN Len(state.string) ELSE state.len

UpgradeWholeSource == IF state.owned THEN state ELSE Owned(source)   \* mutant

(* upgrade_to_owned                                                        *)
Upgraded == IF state.owned THEN state ELSE Owned(Upto(source, state.len))

OwnedWith(s) == Owned(Upgraded.string \o s)
-----------------------------------------------------------------------------
(* A string is passed with its address: its offset in the source, or       *)
(* Elsewhere.  Only slices of the source have an offset.                   *)

Elsewhere == U32Max

(* is_char_boundary: no char of s spans the offset k.                      *)
Boundary(s, k) ==
  \/ k = 0 \/ k = Len(s)
  \/ \E c \in Char : TextAt(s, k, c)

(* A &str is UTF-8: every byte of it is a byte of one of its chars, a byte *)
(* that begins a char continues none, and no char begins with another one. *)
OfChars(s) ==
  \A i \in 0..Len(s) - 1 : \E c \in Char, j \in 0..i : TextAt(s, j, c) /\ i < j + Len(c)

ASSUME Utf8Assumption ==
  /\ \A s \in Source \cup Str : OfChars(s)
  /\ \A c \in Char, d \in Char : \A i \in 2..Len(d) : d[i] # c[1]
  /\ \A c \in Char, d \in Char : TextAt(d, 0, c) => c = d

(* What a caller can pass: a string of its own, or a slice of the source.  *)
Passed == {[text |-> s, at |-> Elsewhere] : s \in Str}
            \cup {[text |-> Slice(source, r[1], r[2]), at |-> r[1]] :
                    r \in {r \in (0..Len(source)) \X (0..Len(source)) :
                             r[1] <= r[2] /\ Boundary(source, r[1]) /\ Boundary(source, r[2])}}

(* push.  The source goes on with c: the cursor moves; else a copy.        *)
Pushed(c) ==
  IF state.owned THEN Owned(state.string \o c)
  ELSE IF TextAt(source, state.len, c) THEN Borrowed(state.len + Len(c))
  ELSE OwnedWith(c)

(* Mutant: only the address is looked at, equal bytes elsewhere are copied. *)
PushedByAddress(s) ==
  IF state.owned THEN Owned(state.string \o s.text)
  ELSE IF s.text # <<>> /\ Len(s.text) <= Len(source) - state.len /\ s.at = state.len
  THEN Borrowed(state.len + Len(s.text))
  ELSE OwnedWith(s.text)

(* push_str.  A slice at the cursor's address needs no comparison.         *)
PushedStr(s) ==
  IF state.owned THEN Owned(state.string \o s.text)
  ELSE IF \/ /\ s.text # <<>>
             /\ Len(s.text) <= Len(source) - state.len
             /\ s.at = state.len
          \/ TextAt(source, state.len, s.text)
  THEN Borrowed(state.len + Len(s.text))
  ELSE OwnedWith(s.text)

(* truncate                                                                *)
Truncated(k) == IF state.owned THEN Owned(Upto(state.string, k)) ELSE Borrowed(k)

PoppedByte(s) == {Len(s) - 1}   \* mutant: pop takes a byte, not a char

(* pop: the length of s without its last char.                             *)
Popped(s) ==
  {k \in 0..Len(s) - 1 : Boundary(s, k) /\ \A j \in k + 1..Len(s) - 1 : ~Boundary(s, j)}

(* replace_range; insert_str replaces an empty range.                      *)
Replaced(a, b, s) == Owned(Upto(Upgraded.string, a) \o s \o From(Upgraded.string, b))
-----------------------------------------------------------------------------
(* new(source), and from_owned(prefix), which borrows nothing.             *)
Init == /\ source \in Source
        /\ \/ state = Borrowed(0)
           \/ source = <<>> /\ \E s \in Str : state = Owned(s)
        /\ last = [op |-> "new"]
        /\ result = {}

Step(s, call) == /\ result = {}
                 /\ state' = s
                 /\ last' = call
                 /\ UNCHANGED <<source, result>>

Push == \E c \in Char : /\ BufLen + Len(c) <= MaxLen
                        /\ Step(Pushed(c), [op |-> "append", arg |-> c])

PushStr == \E s \in Passed : /\ BufLen + Len(s.text) <= MaxLen
                             /\ Step(PushedStr(s), [op |-> "append", arg |-> s.text])

Truncate == \E k \in 0..BufLen : /\ Boundary(AsStr, k)
                                 /\ Step(Truncated(k), [op |-> "cut", at |-> k])

Pop == /\ AsStr # <<>>
       /\ \E k \in Popped(AsStr) : Step(Truncated(k), [op |-> "cut", at |-> k])

Clear == Step(Truncated(0), [op |-> "cut", at |-> 0])

Reserve == Step(Upgraded, [op |-> "append", arg |-> <<>>])

Replace == \E a \in 0..BufLen, b \in 0..BufLen, s \in Str :
  /\ a <= b /\ Boundary(AsStr, a) /\ Boundary(AsStr, b)
  /\ BufLen + Len(s) <= MaxLen
  /\ Step(Replaced(a, b, s), [op |-> "splice", from |-> a, to |-> b, arg |-> s])

(* finish and into_string consume the buffer.                              *)
Finish == /\ result = {}
          /\ result' = {[owned |-> state.owned, text |-> AsStr]}
          /\ last' = [op |-> "take"]
          /\ UNCHANGED <<source, state>>

IntoString == /\ result = {}
              /\ state' = Upgraded
              /\ result' = {[owned |-> TRUE, text |-> Upgraded.string]}
              /\ last' = [op |-> "take"]
              /\ UNCHANGED source

Next == \/ Push \/ PushStr \/ Truncate \/ Pop \/ Clear \/ Reserve \/ Replace
        \/ Finish \/ IntoString

Spec == Init /\ [][Next]_vars
-----------------------------------------------------------------------------
TypeOK ==
  /\ source \in Source
  /\ state \in [owned : {FALSE}, len : 0..Len(source), string : {<<>>}]
                 \cup [owned : {TRUE}, len : {0}, string : Text]
  /\ result \subseteq [owned : BOOLEAN, text : Text]

(* The cursor into the source always stands between two chars: neither the *)
(* byte comparison of push nor pop nor the unchecked advance of push_str   *)
(* leaves it inside one (`&self.source[*len..]` panics there).             *)
CursorBetweenChars == ~state.owned => Boundary(source, state.len)

(* No copy is made in vain (the crate's promise of zero-copy parsing):     *)
(* an append after which a borrowed text is still a prefix of the input    *)
(* leaves it borrowed.  Only reserve asks for a copy beforehand.           *)
CopiesOnlyOnDifference ==
  [][~state.owned /\ state'.owned /\ last'.op = "append" /\ last'.arg # <<>>
       => ~TextAt(source, 0, AsStr')]_vars

B == INSTANCE TextBuffer WITH text <- AsStr, result <- {r.text : r \in result}

(* Borrowed or owned, the buffer is a text: every call has on what as_str  *)
(* shows the effect it would have on a plain string.                       *)
ImplementsTextBuffer == B!Spec
=============================================================================

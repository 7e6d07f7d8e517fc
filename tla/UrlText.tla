------------------------------ MODULE UrlText ------------------------------
(***************************************************************************)
(* The vocabulary shared by every module of the project.                   *)
(*                                                                         *)
(* A text (a Rust &str) is a sequence of tokens.  A delimiter, a percent   *)
(* triple, a letter, a drive letter "C:" or a whole host word is one       *)
(* token, so an offset counts tokens where the code counts bytes.  Words   *)
(* of different lengths are written as sequences of different lengths:     *)
(* <<"http">> and <<"http", "s">>.  Offsets are 0-based, as in the code.   *)
(***************************************************************************)
EXTENDS Naturals, Sequences

CONSTANTS Tokens,   \* every token a text may hold
          U32Max    \* u32::MAX, scaled down where a run wants the limit in reach

ASSUME U32MaxAssumption == U32Max \in Nat \ {0}

(* The tokens the code writes itself.                                      *)
ASSUME TokensAssumption ==
  {":", "/", ".", "@", "?", "#", "0", "1", "2", "3", "4", "5", "6", "7", "8", "9",
   "%2F", "%40", "%3A", "%3F", "%23", "%20", "%7C", "%5C", "%09", "%25", "%252e", "C:"} \subseteq Tokens

Text == Seq(Tokens)

NONE == U32Max    \* the sentinel of query_start and fragment_start
NoPort == 65536   \* any value above u16::MAX stands for NO_PORT

TAB == "\t"       \* ASCII tab, LF or CR: skipped wherever a text is read

Visible(s) == SelectSeq(s, LAMBDA t : t # TAB)

-----------------------------------------------------------------------------
(* Slices.                                                                 *)

Upto(s, k)     == SubSeq(s, 1, k)             \* &s[..k]
From(s, k)     == SubSeq(s, k + 1, Len(s))    \* &s[k..]
Slice(s, a, b) == SubSeq(s, a + 1, b)         \* &s[a..b]

(* s.as_bytes().get(k) == Some(&t), and s[k..].starts_with(t)              *)
TokenAt(s, k, t) == k < Len(s) /\ s[k + 1] = t
TextAt(s, k, t)  == k + Len(t) <= Len(s) /\ \A i \in 1..Len(t) : s[k + i] = t[i]

StartsWith(s, t) == Len(s) > 0 /\ s[1] = t
EndsWith(s, t)   == Len(s) > 0 /\ s[Len(s)] = t

(* s.split(mark)                                                           *)
SplitAt(s, mark) ==
  LET cut == <<0>> \o SelectSeq([i \in 1..Len(s) |-> i], LAMBDA i : s[i] = mark)
                  \o <<Len(s) + 1>>
  IN [k \in 1..Len(cut) - 1 |-> SubSeq(s, cut[k] + 1, cut[k + 1] - 1)]

-----------------------------------------------------------------------------
(* u32 arithmetic: wrapping_sub and wrapping_add, and the pair of them with *)
(* which every setter moves an offset after its text changed length.       *)

WrapSub(x, y) == IF x >= y THEN x - y ELSE x + (U32Max + 1) - y
WrapAdd(x, y) == IF x + y <= U32Max THEN x + y ELSE x + y - (U32Max + 1)

Adjust(x, old, new) == WrapAdd(WrapSub(x, old), new)

(* Mutant: the sentinel is moved like any offset.                          *)
AdjustSentinel(x, old, new) == (x + new) - old

(* The same for an optional offset: the sentinel stays where it is.        *)
AdjustOpt(x, old, new) == IF x = NONE THEN NONE ELSE Adjust(x, old, new)

-----------------------------------------------------------------------------
(* Schemes.                                                                *)

(* The words of a scheme.  Any other word holds a character that no scheme *)
(* has; the letter of a drive letter is a scheme ("c") where a text begins  *)
(* with it.                                                                *)
SchemeToken == {"http", "s", "ws", "ftp", "file", "blob", "foo", "c"}

SpecialNotFile ==
  {<<"http">>, <<"http", "s">>, <<"ws">>, <<"ws", "s">>, <<"ftp">>}

SchemeType(scheme) ==
  IF scheme \in SpecialNotFile THEN "special"
  ELSE IF scheme = <<"file">> THEN "file" ELSE "other"

IsSpecial(scheme) == SchemeType(scheme) # "other"

DefaultPort(scheme) ==
  CASE scheme \in {<<"http">>, <<"ws">>}           -> 80
    [] scheme \in {<<"http", "s">>, <<"ws", "s">>} -> 443
    [] scheme = <<"ftp">>                          -> 21
    [] OTHER                                       -> NoPort

-----------------------------------------------------------------------------
(* Port numbers in decimal.                                                *)

DigitToken == <<"0", "1", "2", "3", "4", "5", "6", "7", "8", "9">>

PortText(p) ==
  LET width == IF p < 10 THEN 1 ELSE IF p < 100 THEN 2 ELSE
               IF p < 1000 THEN 3 ELSE IF p < 10000 THEN 4 ELSE 5
      power == <<1, 10, 100, 1000, 10000>>
  IN [i \in 1..width |-> DigitToken[((p \div power[width + 1 - i]) % 10) + 1]]

-----------------------------------------------------------------------------
(* Percent-encode sets, token by token: the delimiters each set hides.     *)

Encoding == [t \in {"@", ":", "/", "?", "#", " ", "|", "\\", "%", "%2e", TAB} |->
  CASE t = "@" -> "%40" [] t = ":" -> "%3A" [] t = "/" -> "%2F"
    [] t = "?" -> "%3F" [] t = "#" -> "%23" [] t = " " -> "%20"
    [] t = "|" -> "%7C" [] t = "\\" -> "%5C" [] t = "%" -> "%25"
    [] t = "%2e" -> "%252e" [] OTHER -> "%09"]

Encode(s, set) == [i \in 1..Len(s) |-> IF s[i] \in set THEN Encoding[s[i]] ELSE s[i]]

UserinfoSet == {"@", ":", "/", "?", "#", " ", "|", "\\", TAB}
QuerySetKeepingHash    == {" "}        \* mutant: "#" is left in a query

QuerySet    == {"#", " "}
FragmentSet == {" "}
PathSet     == {"?", "#", " "}
PathSegmentSet        == PathSet \cup {"/", "%", "%2e"}
SpecialPathSegmentSet == PathSegmentSet \cup {"\\"}

EncodeUserinfo(s) == Encode(s, UserinfoSet)
EncodeQuery(s)    == Encode(s, QuerySet)
EncodeFragment(s) == Encode(s, FragmentSet)
=============================================================================

---------------------------- MODULE SearchParams ----------------------------
(***************************************************************************)
(* Lists of name/value pairs in application/x-www-form-urlencoded syntax   *)
(* (src/search_params.rs).                                                 *)
(*                                                                         *)
(* A percent triple is one token; "%FF" stands for bytes that are not      *)
(* UTF-8, which decode to the replacement character "U+FFFD".              *)
(***************************************************************************)
EXTENDS UrlText, FiniteSets
LOCAL INSTANCE SequencesExt

Pair(name, value) == [name |-> name, value |-> value]
-----------------------------------------------------------------------------
(* Serializing (append_urlencoded) and decoding (decode_urlencoded): "+"   *)
(* is a space before the triples are decoded, so "%2B" stays a plus.       *)

FormEncoding == [t \in {" ", "&", "=", "+", "%", "#", "U+FFFD"} |->
  CASE t = " " -> "+"   [] t = "&" -> "%26" [] t = "=" -> "%3D" [] t = "+" -> "%2B"
    [] t = "%" -> "%25" [] t = "#" -> "%23" [] OTHER -> "%EF%BF%BD"]

Triple == [t \in {"%20", "%26", "%3D", "%2B", "%25", "%23", "%EF%BF%BD", "%FF"} |->
  CASE t = "%20" -> " " [] t = "%26" -> "&" [] t = "%3D" -> "=" [] t = "%2B" -> "+"
    [] t = "%25" -> "%" [] t = "%23" -> "#" [] OTHER -> "U+FFFD"]

Translate(s, table) ==
  [i \in DOMAIN s |-> IF s[i] \in DOMAIN table THEN table[s[i]] ELSE s[i]]

FormEncode(s) == Translate(s, FormEncoding)

ReplacePlus(s)   == [i \in DOMAIN s |-> IF s[i] = "+" THEN " " ELSE s[i]]
PercentDecode(s) == Translate(s, Triple)

FormDecodePlusLast(s) == ReplacePlus(PercentDecode(s))   \* mutant: "%2B" is a space
FormDecode(s)         == PercentDecode(ReplacePlus(s))

Serialize(pairs) ==
  LET out == FoldLeft(LAMBDA text, p : text \o <<"&">> \o FormEncode(p.name)
                                            \o <<"=">> \o FormEncode(p.value), <<>>, pairs)
  IN From(out, 1)

Parsed(query) ==
  LET sequence == SelectSeq(SplitAt(query, "&"), LAMBDA s : s # <<>>)
      equals(s) == Min({i \in DOMAIN s : s[i] = "="} \cup {Len(s) + 1})
  IN [k \in DOMAIN sequence |->
        LET s == sequence[k]
        IN Pair(FormDecode(Upto(s, equals(s) - 1)), FormDecode(From(s, equals(s))))]
-----------------------------------------------------------------------------
(* Reading and editing a list.                                             *)

GetAll(pairs, name) ==
  LET found == SelectSeq(pairs, LAMBDA p : p.name = name)
  IN [i \in DOMAIN found |-> found[i].value]

Appended(pairs, name, value) == Append(pairs, Pair(name, value))

Deleted(pairs, name) == SelectSeq(pairs, LAMBDA p : p.name # name)

DeletedValue(pairs, name, value) == SelectSeq(pairs, LAMBDA p : p # Pair(name, value))

(* Mutant: the pair moves to the end of the list.                          *)
SetAtEnd(pairs, name, value) == Appended(Deleted(pairs, name), name, value)

(* The first pair of the name takes the value, the others go.              *)
Set(pairs, name, value) ==
  LET place == SelectInSeq(pairs, LAMBDA p : p.name = name)
  IN IF place = 0 THEN Appended(pairs, name, value)
     ELSE Upto(pairs, place - 1) \o <<Pair(name, value)>>
            \o Deleted(From(pairs, place), name)

(* Names are compared byte by byte; pairs of one name keep their order.    *)
ByteOrder == <<" ", "#", "%", "&", "+", "=", "a", "b", "c", "q", "U+FFFD">>

Rank(t) == CHOOSE i \in DOMAIN ByteOrder : ByteOrder[i] = t

Less(s, t) == \E k \in 0..Len(s) :
                /\ k < Len(t) /\ Upto(s, k) = Upto(t, k)
                /\ k = Len(s) \/ Rank(s[k + 1]) < Rank(t[k + 1])

Sorted(pairs) ==
  LET before(i, j) == \/ Less(pairs[i].name, pairs[j].name)
                      \/ pairs[i].name = pairs[j].name /\ i < j
      place(j) == Cardinality({i \in DOMAIN pairs : before(i, j)}) + 1
  IN [k \in DOMAIN pairs |-> pairs[CHOOSE j \in DOMAIN pairs : place(j) = k]]
=============================================================================

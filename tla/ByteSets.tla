------------------------------ MODULE ByteSets ------------------------------
(***************************************************************************)
(* The bytes each part of a URL may hold: the percent-encode sets of       *)
(* src/parser/percent.rs, and the tables with which the fast path          *)
(* (src/parser/fast.rs) decides that nothing is to be encoded.  Letters,   *)
(* digits and the punctuation no set names are all alike: "a".             *)
(***************************************************************************)

(* 0x1f and 0x7f stand for the bytes below and above them; a grave accent   *)
(* is spelled out.                                                         *)
Printable == {"a", "~", " ", "!", "\"", "#", "%", "'", "/", ":", ";", "<", "=", ">", "?", "@",
              "[", "\\", "]", "^", "grave", "{", "|", "}"}
Control   == {"0x1f", "0x7f"}
-----------------------------------------------------------------------------
(* percent.rs                                                              *)

C0EncodeSet           == Control
FragmentEncodeSet     == C0EncodeSet \cup {" ", "\"", "<", ">", "grave"}
QueryEncodeSet        == C0EncodeSet \cup {" ", "\"", "#", "<", ">"}
SpecialQueryEncodeSet == QueryEncodeSet \cup {"'"}
PathEncodeSet         == QueryEncodeSet \cup {"?", "^", "grave", "{", "}"}
UserinfoEncodeSet     == PathEncodeSet \cup {"/", ":", ";", "=", "@", "[", "\\", "]", "|"}
-----------------------------------------------------------------------------
(* fast.rs                                                                 *)

PathSegOk == Printable \ {" ", "\"", "#", "<", ">", "?", "^", "grave", "{", "}", "\\", "|"}

QueryOk    == Printable \ {" ", "\"", "#", "<", ">", "'"}
FragmentOk == Printable \ {" ", "\"", "<", ">", "grave"}
UserinfoOk == Printable \ {" ", "\"", "#", "<", ">", "?", "^", "grave", "{", "}", "/", ";", "=",
                           "@", "[", "\\", "]", "|"}
=============================================================================

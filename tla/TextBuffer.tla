----------------------------- MODULE TextBuffer -----------------------------
(***************************************************************************)
(* What a serialization buffer promises its callers: a text that grows at  *)
(* its end, is cut at its end and spliced in the middle, and is handed     *)
(* over once.  Nothing is said of where the text lives.                    *)
(***************************************************************************)
EXTENDS UrlText

VARIABLES text,     \* what as_str returns
          last,     \* the last call with its arguments
          result    \* {} or {the text handed over}

Init == result = {} /\ last = [op |-> "new"] /\ text \in Text

Appended == /\ last'.op = "append" /\ last'.arg \in Text
            /\ text' = text \o last'.arg

Cut == /\ last'.op = "cut" /\ last'.at \in 0..Len(text)
       /\ text' = Upto(text, last'.at)

Spliced == /\ last'.op = "splice" /\ last'.arg \in Text
           /\ last'.from \in 0..last'.to /\ last'.to \in 0..Len(text)
           /\ text' = Upto(text, last'.from) \o last'.arg \o From(text, last'.to)

HandedOver == last' = [op |-> "take"] /\ result' = {text} /\ UNCHANGED text

Next == /\ result = {}
        /\ HandedOver \/ ((Appended \/ Cut \/ Spliced) /\ UNCHANGED result)

Spec == Init /\ [][Next]_<<text, last, result>>
=============================================================================

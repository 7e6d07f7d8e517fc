-------------------------------- MODULE Nfc --------------------------------
(***************************************************************************)
(* Normal form C of a sequence of code points, which the crate takes from  *)
(* the library unicode-normalization: canonical decomposition, canonical   *)
(* order of the marks, composition.                                        *)
(***************************************************************************)
EXTENDS Naturals, Sequences
LOCAL INSTANCE SequencesExt
LOCAL INSTANCE FiniteSetsExt

CONSTANTS
  Decomposition,   \* code point -> the code points it decomposes to
  Ccc              \* code point -> combining class, where it is not 0

(* unicode_normalization::char::canonical_combining_class                  *)
ClassOf(c) == IF c \in DOMAIN Ccc THEN Ccc[c] ELSE 0

Nfd(s) ==
  LET parts == FlattenSeq([i \in DOMAIN s |-> IF s[i] \in DOMAIN Decomposition
                                              THEN Decomposition[s[i]] ELSE <<s[i]>>])
      Placed(done, c) ==   \* behind the last one that may not stand after c
        InsertAt(done, 1 + Max({0} \cup {i \in DOMAIN done :
                                          ClassOf(c) = 0 \/ ClassOf(done[i]) <= ClassOf(c)}), c)
  IN FoldLeft(Placed, <<>>, parts)

Composite(a, b) == {c \in DOMAIN Decomposition : Decomposition[c] = <<a, b>>}

(* c joins the last starter unless a mark between them blocks it.          *)
Joined(done, c) ==
  LET starter == Max({0} \cup {i \in DOMAIN done : ClassOf(done[i]) = 0})
      free    == starter > 0 /\ (starter = Len(done) \/ ClassOf(Last(done)) < ClassOf(c))
      whole   == IF free THEN Composite(done[starter], c) ELSE {}
  IN IF whole = {} THEN Append(done, c)
     ELSE [done EXCEPT ![starter] = CHOOSE w \in whole : TRUE]

Nfc(s) == FoldLeft(Joined, <<>>, Nfd(s))
=============================================================================

------------------------------ MODULE FastHost ------------------------------
(***************************************************************************)
(* What the fast path (src/parser/fast.rs) reads off a host, byte by byte: *)
(* whether it is a clean domain, and whether it may be an IPv4 address,    *)
(* which it decides with shortcuts of its own.                             *)
(***************************************************************************)
EXTENDS Ipv4
LOCAL INSTANCE SequencesExt
LOCAL INSTANCE FiniteSetsExt

Letters == {"a", "b", "c", "d", "e", "f", "g", "h", "i", "j", "k", "l", "m", "n", "o", "p",
            "q", "r", "s", "t", "u", "v", "w", "x", "y", "z"}

CleanDomain(s) == \A i \in DOMAIN s : s[i] \in Letters \cup DigitsBelow(10) \cup {".", "-"}

(* "g" to "w", "y" and "z" stand in no number; "x" does, in "0x".          *)
NoNumberAnyX == Letters \ {"a", "b", "c", "d", "e", "f"}   \* mutant: nor does "x"
NoNumber     == Letters \ {"a", "b", "c", "d", "e", "f", "x"}

(* host_ends_in_a_number, for a clean domain                               *)
FastEndsInANumber(host) ==
  LET end   == IF EndsWith(host, ".") THEN Len(host) - 1 ELSE Len(host)
      dot   == Max({0} \cup {i \in 1..end : host[i] = "."})
      label == SubSeq(host, dot + 1, end)
  IN /\ end # 0 /\ label # <<>>
     /\ \A i \in DOMAIN label : label[i] \notin NoNumber
     /\ IsNumber(label, 10) \/ EndsInANumber(host)

(* The host test of try_fast_authority.                                    *)
FastKeepsHost(host) == host # <<>> /\ CleanDomain(host) /\ ~FastEndsInANumber(host)
=============================================================================

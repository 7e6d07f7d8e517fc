------------------------------ MODULE FastPath ------------------------------
(***************************************************************************)
(* The fast path for absolute special URLs that are canonical already      *)
(* (src/parser/fast.rs).  It returns the input itself as the href, so it   *)
(* gives up (the empty set) wherever the general parser would rewrite a    *)
(* byte; whatever it gives up goes to the general parser.                  *)
(***************************************************************************)
EXTENDS UrlParser

AllIn(s, set) == \A i \in DOMAIN s : s[i] \in set
NoneIn(s, set) == \A i \in DOMAIN s : s[i] \notin set

(* The tokens a part may not hold.  " " stands for every byte that all     *)
(* encode sets share; "C|" holds the byte "|", which the path set leaves.  *)
DirtyUserinfo == UserinfoSet \cup {"C|", "[::1]"}
DirtyPath     == {" ", "#", "?", "\\", "|", "C|", TAB}
DirtyQuery    == {" ", "#", TAB}
DirtyFragment == {" ", TAB}

(* host_is_clean_domain and not host_ends_in_a_number, on the host words.  *)
CleanHost(s) == Len(s) = 1 /\ s[1] \in {"h", "localhost", "xn--"}
-----------------------------------------------------------------------------
(* validate_path_only: no segment is a dot segment in any spelling.        *)
ValidPathAnyDots(s) == NoneIn(s, DirtyPath)   \* mutant: dot segments pass

ValidPath(s) ==
  /\ NoneIn(s, DirtyPath)
  /\ \A i \in DOMAIN SplitAt(s, "/") : SplitAt(s, "/")[i] \notin DotSegment \cup DotDotSegment

(* scan_path_query_fragment: the parts of the text from the path on.       *)
ScanPathQueryFragment(s, start) ==
  LET path  == Before(From(s, start), {"?", "#"})
      rest  == Rest(From(s, start), {"?", "#"})
      query == IF StartsWith(rest, "?") THEN Before(Tail(rest), {"#"}) ELSE <<>>
      hash  == First(rest, {"#"}) <= Len(rest)
      pathEnd == start + Len(path)
  IN IF \/ ~ValidPath(path) \/ ~NoneIn(query, DirtyQuery)
        \/ ~NoneIn(After(rest, {"#"}), DirtyFragment)
     THEN {}
     ELSE {[query_start    |-> IF StartsWith(rest, "?") THEN pathEnd ELSE NONE,
            fragment_start |-> IF hash THEN pathEnd + First(rest, {"#"}) - 1 ELSE NONE]}

FastRecord(s, offsets, port, flags, tail) ==
  [ser |-> s, scheme_end |-> offsets[1], username_end |-> offsets[2], host_start |-> offsets[3],
   host_end |-> offsets[4], port |-> port, path_start |-> offsets[5],
   query_start |-> tail.query_start, fragment_start |-> tail.fragment_start, flags |-> flags]
-----------------------------------------------------------------------------
(* try_fast_file: "file:///" has no host.                                  *)
TryFastFile(s) ==
  {FastRecord(s, <<1, 4, 4, 4, 4>>, NoPort, {"SPECIAL", "HAS_EMPTY_HOST"}, tail)
     : tail \in ScanPathQueryFragment(s, 4)}

(* The userinfo before the last "@": none, or kept as it is.  An empty     *)
(* password, or a colon in it, would be rewritten.                         *)
CleanUserinfo(info) ==
  /\ info # <<>> /\ NoneIn(info, DirtyUserinfo \ {":"})
  /\ First(info, {":"}) <= Len(info) =>
       After(info, {":"}) # <<>> /\ NoneIn(After(info, {":"}), {":"})

(* A port the href shows as it is written: decimal, not the default one.   *)
CleanPort(digits, default) ==
  /\ digits # <<>> /\ AllIn(digits, Digits)
  /\ Number(digits) <= 65535 /\ Number(digits) # default
  /\ Len(digits) > 1 => digits[1] # "0"

(* try_fast_authority, behind scheme "://"                                 *)
TryFastAuthority(s, scheme) ==
  LET start  == Len(scheme) + 3
      auth   == Before(From(s, start), PathEnd("special"))
      end    == start + Len(auth)
      at     == Max({0} \cup {i \in DOMAIN auth : auth[i] = "@"})
      info   == Upto(auth, at - 1)
      colon  == First(info, {":"})
      region == From(auth, at)
      pcolon == Max({0} \cup {i \in DOMAIN region : region[i] = ":"})
      host   == IF pcolon = 0 THEN region ELSE Upto(region, pcolon - 1)
      digits == From(region, pcolon)
      hostStart == start + at
      flags  == {"SPECIAL"} \cup (IF at = 0 THEN {} ELSE {"HAS_CREDENTIALS"})
                 \cup (IF at # 0 /\ colon <= Len(info) THEN {"HAS_PASSWORD"} ELSE {})
                 \cup (IF host = <<"xn--">> THEN {"HOST_IDNA"} ELSE {})
  IN IF \/ at # 0 /\ ~CleanUserinfo(info)
        \/ pcolon # 0 /\ ~CleanPort(digits, DefaultPort(scheme))
        \/ ~CleanHost(host) \/ ~TokenAt(s, end, "/")
     THEN {}
     ELSE {FastRecord(s, <<Len(scheme), IF at = 0 THEN start ELSE start + colon - 1, hostStart,
                           hostStart + Len(host), end>>,
                      IF pcolon = 0 THEN NoPort ELSE Number(digits), flags, tail)
             : tail \in ScanPathQueryFragment(s, end)}

(* try_fast_special_absolute: the prefix is a scheme as it is written.     *)
TryFast(s) ==
  LET scheme == Before(s, {":"})
  IN IF scheme = <<"file">>
     THEN IF TextAt(s, 1, <<":", "/", "/", "/">>) THEN TryFastFile(s) ELSE {}
     ELSE IF scheme \in SpecialNotFile /\ TextAt(s, Len(scheme), <<":", "/", "/">>)
     THEN TryFastAuthority(s, scheme)
     ELSE {}

(* Parser::parse without a base, and the length checks of parse_with_base. *)
Parse(text) ==
  LET fast == TryFast(Trim(text))
  IN IF Len(text) > U32Max THEN {}
     ELSE IF fast # {} THEN {u \in fast : Len(u.ser) < U32Max} ELSE ParseUrl(text)
=============================================================================

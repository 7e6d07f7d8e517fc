------------------------------- MODULE MCPaths -------------------------------
(***************************************************************************)
(* What reads and writes paths, each part a family of behaviours of its    *)
(* own, chosen by `part` in the initial state:                             *)
(*   "loop"   the path parser reads every short path, token by token;      *)
(*   "file"   every path of the system of a few components is taken to a   *)
(*            file URL and back, and joined with the names of files;       *)
(*   "fast"   absolute URLs are given to the fast path: an authority of    *)
(*            each kind behind a special scheme, then a path, query and    *)
(*            fragment that grow; a long authority leaves room for a short *)
(*            path;                                                        *)
(*   "byte"   the bytes, one by one, that the fast path leaves alone.      *)
(***************************************************************************)
EXTENDS PathParser, FilePath, FastPath, ByteSets

CONSTANTS MaxPath,   \* the most components of a path of the system
          MaxUrl     \* the longest URL that still grows

VARIABLES part, text,
          tail    \* how many components the path has, or tokens the URL from its path on

mvars == <<part, text, tail, pvars>>

AnyString == STRING

(* The tokens that mean something for the scheme type, and one or two that *)
(* do not.                                                                 *)
AnyToken(c) == {"/", ".", "%2e", "p"} \cup
               CASE c = "file"    -> {"C|", "C:", TAB}
                 [] c = "special" -> {"\\", "C:", "?"}
                 [] c = "other"   -> {"\\", TAB}
-----------------------------------------------------------------------------
(* The components of a path, as they stand between two slashes, and those  *)
(* of them that are the names of files: each means something where it is   *)
(* read in a URL, or in a reference.                                       *)
Name == {<<"p">>, <<"%2e", "%2e">>, <<" ", "?", "#", " ">>, <<TAB, "\\">>,
         <<"C:">>, <<"C|">>, <<"C:", "p">>, <<"foo", ":", "p">>}
Between == Name \cup {<<>>, <<".">>, <<".", ".">>, <<".", "%2e">>}

Prefix == {<<"http", ":", "/", "/">>, <<"ftp", ":", "/", "/">>, <<"file", ":", "/", "/">>,
           <<"http", ":", "/">>, <<"HTTP", ":", "/", "/">>}
Userinfo == {<<>>, <<"@">>, <<"u", "@">>, <<"u", ":", "@">>, <<":", "u", "@">>, <<":", "@">>,
             <<"u", ":", "u", "@">>, <<"u", ":", ":", "@">>, <<"u", "@", "u", "@">>,
             <<" ", "@">>, <<"u", TAB, "@">>, <<"u", ":", " ", "@">>}
Host     == {<<>>, <<"h">>, <<"H">>, <<"xn--">>, <<"1.2.3.4">>, <<"[::1]">>, <<"h", TAB>>}
Port     == {<<>>, <<":">>, <<":", "8", "0">>, <<":", "2", "1">>, <<":", "0">>, <<":", "0", "8">>,
             <<":", "6", "5", "5", "3", "6">>, <<":", "8", TAB>>, <<":", "h">>}
PathTail == {"/", "\\", ".", "%2e", "p", "C:", "C|", "?", "#", " ", TAB}

Authority == {p \o u \o h \o q : p \in Prefix, u \in Userinfo, h \in Host, q \in Port}
-----------------------------------------------------------------------------
NoLoop == class = "other" /\ raw = <<>> /\ path = NoText("other") /\ done = FALSE

MInit == /\ tail = 0
         /\ \/ part = "loop" /\ Init /\ text = <<>>
            \/ part = "file" /\ NoLoop /\ text = <<>>
            \/ part = "fast" /\ NoLoop /\ text \in Authority
            \/ part = "byte" /\ NoLoop /\ text \in {<<b>> : b \in Printable \cup Control}

GrowPath == /\ part = "file" /\ tail < MaxPath
            /\ \E c \in Between : text' = text \o Slash \o c
            /\ tail' = tail + 1

GrowUrl == /\ part = "fast" /\ (tail = 0 \/ Len(text) < MaxUrl)
           /\ \E t \in PathTail : /\ tail = 0 => t \in {"/", "\\", "?", "#"}
                                  /\ text' = Append(text, t)
           /\ tail' = tail + 1

MNext == /\ \/ part = "loop" /\ Next /\ UNCHANGED <<text, tail>>
            \/ (GrowPath \/ GrowUrl) /\ UNCHANGED pvars
         /\ UNCHANGED part

MSpec == MInit /\ [][MNext]_mvars
-----------------------------------------------------------------------------
(* The path parser.                                                        *)

(* An href is canonical: the path written is read back as it is, also when *)
(* dot segments, drive letters and empty segments were next to each other. *)
ReadsBack == done => ParsePathStart(class, path.out) = path.out

-----------------------------------------------------------------------------
(* File paths.                                                             *)

(* What the way through a URL does to the components of a path: ".." is    *)
(* resolved in the text, but stays behind a drive letter, wherever it is,  *)
(* and a drive letter in front is written with a colon.                    *)
Resolved(before, c) ==
  CASE c = <<".", ".">> -> IF before = <<>> \/ Last(before) \in {<<d>> : d \in Drive} THEN before
                           ELSE Front(before)
    [] c = <<"C|">> /\ before = <<>> -> << <<"C:">> >>
    [] OTHER -> Append(before, c)

(* What a name says when it is given to join.                              *)
ReadsAsUrl(name) == HasScheme(name) \/ StartsWithDrive(name)

(* ... and nothing else: a path without ".." and drive letters comes back  *)
(* as it was, whatever its names hold that means something in a URL (the   *)
(* tests to_file_path_roundtrip and space_in_path_percent_encoded).  And   *)
(* from_directory_path is "a useful directory base for Url::join": joining *)
(* the encoded name of a file gives the URL of that file in the directory. *)
(* That is so of every name but one that begins with a scheme or is a      *)
(* drive letter: the encode set leaves the colon and the bar, so join      *)
(* reads another URL, or a drive.  (The drive letter "C|" in the root is   *)
(* that drive.)                                                            *)
FilesComeBack ==
  part = "file" /\ IsAbsolute(text) =>
    LET components == FoldLeft(Resolved, <<>>, PathComponents(text))
    IN /\ \E u \in FromFilePath(text) : \E back \in ToFilePath(u) : PathComponents(back) = components
       /\ \A name \in Name :
            LET file   == {v.ser : v \in FromFilePath(text \o Slash \o name)}
                joined == {v.ser : v \in UNION {ParseUrlBased(u, Encode(name, FileSegmentSet)) :
                                                  u \in FromDirectoryPath(text)}}
            IN (joined = file) <=> (~ReadsAsUrl(name) \/ (components = <<>> /\ name = <<"C|">>))
-----------------------------------------------------------------------------
(* The fast path.                                                          *)

(* The fast path is no second parser: what it accepts the general parser   *)
(* accepts, with the same href, offsets, port and flags, and no byte that  *)
(* it leaves in a part is one that the general parser encodes there.  A    *)
(* colon may end the username, and is looked for apart.                    *)
FastAgrees ==
  /\ part = "fast" /\ TryFast(Trim(text)) # {} => Parse(text) = ParseUrl(text)
  /\ part = "byte" =>
       LET byte == text[1]
       IN /\ byte \in PathSegOk  => byte \notin PathEncodeSet
          /\ byte \in QueryOk    => byte \notin SpecialQueryEncodeSet
          /\ byte \in FragmentOk => byte \notin FragmentEncodeSet
          /\ byte \in UserinfoOk => byte \notin UserinfoEncodeSet \ {":"}
=============================================================================

------------------------------ MODULE FilePath ------------------------------
(***************************************************************************)
(* File paths and file URLs on Unix (src/file_path.rs): from_file_path     *)
(* encodes the components of a path and has the URL parser read the        *)
(* result, to_file_path decodes the segments of a URL.                     *)
(*                                                                         *)
(* A path of the system is a text of the same tokens as a URL: "%2e" is    *)
(* the three bytes in a file name, and "C|" a name of two.                 *)
(***************************************************************************)
EXTENDS UrlRelative

Slash == <<"/">>

(* std::path::Path::components without the root: no empty one, no ".".     *)
PathComponents(path) == SelectSeq(SplitAt(path, "/"), LAMBDA c : c \notin {<<>>, <<".">>})

IsAbsolute(path) == StartsWith(path, "/")

FileSegmentKeepingPercent == PathSet \cup {"/", "\\", TAB}   \* mutant: "%" is left

(* in_special_path_segment_encode_set, controls included                   *)
FileSegmentSet == SpecialPathSegmentSet \cup {TAB}

(* path_to_file_url_segments                                               *)
FileUrlPath(path) ==
  LET cs == PathComponents(path)
  IN IF cs = <<>> THEN Slash
     ELSE FlattenSeq([i \in DOMAIN cs |-> Slash \o Encode(cs[i], FileSegmentSet)])

FileUrlText(path) == <<"file", ":", "/", "/">> \o FileUrlPath(path)

FromFilePath(path) == IF IsAbsolute(path) THEN ParseUrl(FileUrlText(path)) ELSE {}

FromDirectoryPath(path) ==
  UNION {IF EndsWith(u.ser, "/") THEN {u} ELSE ParseUrl(Append(u.ser, "/")) : u \in FromFilePath(path)}

(* percent_decode                                                          *)
Decoded(s) ==
  LET Plain(t) == CHOOSE x \in DOMAIN Encoding : Encoding[x] = t
  IN [i \in DOMAIN s |-> IF s[i] = "%2e" THEN "."
                         ELSE IF \E x \in DOMAIN Encoding : Encoding[x] = s[i] THEN Plain(s[i])
                         ELSE s[i]]

(* A path that ends in a letter and ":" or "|" gets a slash behind it.     *)
EndsLikeDrive(path) ==
  /\ Len(path) > 1
  /\ \/ Last(path) \in Drive
     \/ Last(path) \in {":", "|"} /\ path[Len(path) - 1] \in {"p", "q"} \cup SchemeToken

(* to_file_path: {} is Err.                                                *)
ToFilePath(u) ==
  LET path == Decoded(BasePath(u))   \* path[1..].split('/'), each behind a '/'
  IN IF "OPAQUE_PATH" \in u.flags \/ ~StartsWith(BasePath(u), "/")
        \/ ~(BaseHost(u) \subseteq {<<>>, <<"localhost">>})
     THEN {}
     ELSE {IF EndsLikeDrive(path) THEN Append(path, "/") ELSE path}
=============================================================================

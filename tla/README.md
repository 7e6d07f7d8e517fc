# A verification development for sorug

sorug is a WHATWG URL parser in Rust. This directory holds TLA+ models of its
core, the TLC configurations that check them on small instances, and proofs,
checked by TLAPS, about the models for all instances. Source paths below are
relative to the repository; `setters.rs` is `src/parser/setters.rs`, `mod.rs`
is `src/parser/mod.rs`.

## 1. The system

sorug is a sequential library; only its C interface (`ffi/`) lets threads meet,
in the getters of one handle. There are no messages, and nothing is persisted.
What is hard about it is its one data structure. A `Url` owns **one text**, the
href, and `u32` offsets into it; no component has a copy of its own. Each setter
cuts that text, writes its component, moves every offset behind it, and often
decides what to do by looking at the character that happens to stand at an
offset. Setters are called in any order, by callers and by guards that write
back when they are dropped; the parser runs through a buffer that borrows its
input as long as it can, and two parsers (the fast path and the general one)
must agree.

| component | source | state | operations | hard behaviour | what makes it correct | modelled |
|---|---|---|---|---|---|---|
| URL record and setters | `src/lib.rs`, `setters.rs` | href, 8 offsets, port, flags | 16 setters, about 20 getters | decisions by character, wrapping arithmetic on offsets, cached flags, early returns, half-done errors | offsets delimit the components; a setter changes its own component only; the href parses back to the record | yes |
| Basic URL parser | `mod.rs`, `scheme.rs`, `percent.rs` | the text written so far | `parse`, `parse_with_base` | many entry points share one buffer | what it returns has the layout the setters rely on | yes; hosts by the host parser's modules |
| Path parser | `mod.rs` 1287–1492 | the text written so far, start of the segment | `parse_path_start`, `parse_path` | no list of segments: `..` truncates the text at a slash it searches | computes the segment list of the standard, never cuts into the authority | yes |
| Relative references | `lib.rs` 594–705, `mod.rs` | – | `join`, `make_relative` | offsets copied from the base, empty segments, dots | a joined URL is one the parser returns; where `join` undoes `make_relative` | yes |
| Host parser | `src/parser/host.rs` | – | domain, IPv4, IPv6, opaque hosts | numbers, overflow, runs of zeros | addresses denote what the text says; canonical forms are fixed points | yes |
| Punycode, IDNA | `src/parser/punycode.rs` | – | `to_ascii`, encode, decode, mapping, label checks | overflow, three ways through one function | one name is one host; decode undoes encode | yes |
| Build script | `build.rs`, `unicode_ranges.rs` | range tables | sort, merge, overlay, subtract, look up | borders | a lookup answers what the files say | the tables |
| Path segment editor | `src/path_segments.rs` | a record with query and fragment cut off | `clear`, `pop`, `pop_if_empty`, `push`, `extend`, drop | a guard that restores on drop | record laid out again after the drop | yes |
| Search parameters, query pair editor | `src/search_params.rs`, `src/query_pairs.rs` | list of pairs | append, set, delete, sort, drop, finish | rewrites the query when dropped | parsing undoes serializing; one write | yes |
| Copy-on-write buffer | `src/parser/serialization.rs` | borrowed prefix or owned text | push, truncate, pop, replace | the borrowed prefix must equal what was pushed; cursors inside chars | behaves as a plain text | yes |
| Fast path | `src/parser/fast.rs` | – | `try_fast_special_absolute` | a second parser | agrees with the general parser where it accepts | yes |
| Scans | `src/parser/scan.rs` | – | find, rfind eight bytes at a time | borrows between lanes | equal to the naive search | yes |
| C interface | `ffi/src/lib.rs` | handles, origin cache | getters that lend pointers, setters, free | threads in one getter; pointers and cache after a setter | cache is never stale; lent text stays readable; every call returns | one handle |
| File paths | `src/file_path.rs` | – | `from_file_path`, `from_directory_path`, `to_file_path` | names that mean something in a URL | a path comes back | Unix |
| serde and http bridges | `serde_impl.rs`, `http_impl.rs` | – | conversions | – | – | no |

The setters call the parsers (`parse_host_setter`, `parse_port_setter`,
`parse_path_start`, `parse_opaque_path`, `parse_query`, `parse_fragment`) on
the text in place; `set_href` and `Url::parse` run the whole URL parser; the
guards work on the record between two setter calls; the C interface forwards to
setters and getters. `PROJECT.json` lists every component with its status and
every hazard with the line where it bites.

## 2. The modules

| module | models | notes |
|---|---|---|
| `UrlText` | texts, slices, offset arithmetic, schemes, decimal ports, percent-encode sets | shared vocabulary |
| `PathText` | `parse_path_start`, `parse_path` and their helpers | operators |
| `PathParser` | the loop of `parse_path` as a machine that reads token by token | state: scheme type, input read, `[out, seg]`, done |
| `WhatwgPath` | the path of the standard: a list of segments and a buffer | abstract specification of `PathParser` |
| `UrlParser` | `Url::parse` for absolute texts and the parsers shared with setters | operators; `{}` is `Err`, `{r}` is `Ok(r)` |
| `UrlRelative`, `UrlJoin` | `parse_with_base`, `make_relative`; a record that is joined and changed by setters | `UrlJoin` adds `CallJoin` to setters of `UrlRecord` |
| `UrlInputs` | the inputs and parsers the setters are given | constants |
| `UrlRecord` | the record, its getters and setters | state: `url` (the fields of `Url`) and `outcome` of the last call; one action `CallX` per public setter |
| `UrlComponents` | a URL as a record of separate components | abstract specification of `UrlRecord` |
| `UrlLayout` | what the offsets mean, the properties, the assumptions on parsers | |
| `PathSegments` | the guard `PathSegmentsMut` on the record | adds `guard`: what was cut off and where the first segment begins; `Setter` is any step of `UrlRecord` |
| `SegmentList` | a list of segments that is opened, edited and closed | abstract specification of `PathSegments` |
| `SearchParams` | parsing, serializing and editing lists of pairs | operators |
| `QueryPairs` | the guard `QueryPairsMut` on the record | adds `params`: the list of the open guard |
| `ValueLists` | a list of values for every name | abstract specification of `QueryPairs` |
| `Handle` | one handle of the C interface and the threads in its getters | adds the origin cell, where each thread is in `sorug_origin`, and the pointer it keeps |
| `CowBuffer`, `TextBuffer` | `SerializationBuf`, and the text it stands for | `TextBuffer` is the abstract specification |
| `Scan` | the searches of `scan.rs`, word by word | bytes of `Bits` bits, words of `Lanes` lanes |
| `NumberText`, `Ipv4`, `Ipv6` | numbers in hosts, and the two address parsers and writers | on characters |
| `HostParser` | percent-decoding, domains, numbers, addresses and opaque hosts, for the URL parser and for the setters | on bytes; uses `Idna`, `Ipv4`, `Ipv6` |
| `FastPath`, `FastHost`, `ByteSets` | the fast path on tokens; its host test on characters; the byte tables of `fast.rs` and `percent.rs` | |
| `Punycode`, `Nfc`, `Idna` | RFC 3492; normal form C (external); `to_ascii` | on code points |
| `IdnaTables` | lists of ranges; the build of the tables | state: rows, overlay lines, tables, phase |
| `FilePath` | Unix paths to URLs and back | operators |
| `MCUrlRecord`, `MCPaths`, `MCEdits`, `MCBytes`, `MCUnicode`, `MCHandle` | inputs of the runs, reference definitions | section 3 |
| `UrlTextProofs`, `UrlRecordProofs`, `UrlSetterProofs`, `UrlLayoutProofs`, `PathSegmentsProofs`, `PathParserProofs`, `CowBufferProofs`, `HandleProofs` | theorems | section 5 |

Correspondence. A text is a sequence of tokens: a delimiter, a percent triple,
a letter, a drive letter `C:` or a host word is one token, so an offset counts
tokens where the code counts bytes. A scheme is made of the words of
`SchemeToken`; every other word holds a character that no scheme has, except
that a drive letter at the start of a text is the scheme `c` and a colon. Texts
of different lengths stand for words
of different lengths (`<<"http">>` and `<<"http", "s">>`), which is all that
offset arithmetic can tell. `u32::MAX` is the constant `U32Max`, and stays the
sentinel `NONE`; wrapping subtraction and addition wrap at it. `NO_PORT` is
any number above `u16::MAX`. Tab, LF and CR are one token that every parser
skips. Hosts are words with a fixed canonical form (`H` becomes `h`,
`0x1020304` becomes `1.2.3.4`, `localhost` is empty in file URLs). A setter is
an operator from a record to a record and an outcome: `ok`, `err`, or `panic`
when `u32::try_from` fails. Nothing is looked at after a panic.

Each operator that a setter calls is part of its action: `sync_credential_flags`
after the credentials, `set_port` at the end of `set_scheme`, the removal of
trailing spaces at the end of `set_query` and `set_fragment`.

The guards borrow the record mutably, so no setter runs while one is open: a
setter needs `guard = {}` (or `params = {}`), and the edits of the guard come in
any number and order before the drop. While the path guard is open, the
record's query and fragment offsets point behind its text, as in the code; the
properties look at `View`, the URL as a drop would leave it now.

The handle. Between a caller's entry into `sorug_origin` and its return lie the
steps of `OnceLock::get_or_init`: one thread claims the cell and computes, the
others wait. The header demands that setters and `sorug_free` have the handle
for themselves, so they need every thread outside (`Exclusive`); the getters
may overlap in any way. A pointer remembers the place and what stood there, and
is readable when the same text is still found at that place; a freed block may
be given out again unless somebody points into it.

The modules on bytes and code points do not share the tokens of the URL
modules. There a token is one byte (`CowBuffer`, `Scan`, `HostParser`), one character
(`Ipv4`, `Ipv6`, `FastHost`) or one code point (`Idna`). What the URL modules
abstract to a host word with a canonical form is what these compute.

Operators marked as mutants are plausible mistakes. For each property
`PROJECT.json` names one of them that, put in the place of the real definition,
makes TLC find the property violated.

## 3. The runs

A run checks one or more *parts* side by side: the variable `part`, chosen in
the initial state and never changed, says which family of behaviours a state
belongs to, and the other variables of its module rest. A part that checks a
pure function grows its input token by token, so that every text up to the
bound is a state.

| run | parts and bounds | what it shows |
|---|---|---|
| `setters` (`MCUrlRecord`, 19,700 states) | `authority`: seven hrefs (special, file, opaque host, no authority, marker), five schemes, eight hosts, …; `path`: six hrefs, ten paths with dots, markers, tabs, spaces and drive letters, four queries, three fragments; any sequence of calls | `Layout`, `FlagsAgree`, `PortAndCredentials`, `Unambiguous`, `RoundTrip`, `FeedingBack`, `ImplementsComponents` |
| `paths` (`MCPaths`, 2.5 million states) | `loop`: all raw paths of up to six tokens, for each of the three scheme types from the six or seven that matter there (slash, dot, encoded dot, word; drive letters and tab in file URLs, backslash, `C:` and `?` in special ones, backslash and tab in the others); `file`: all Unix paths of up to four of 12 components (empty, dots plain and encoded, drive letters with `:` and `\|`, a colon behind a letter and behind a scheme, delimiters, backslash and tab), each joined with eight names; `fast`: 2,100 authorities with up to nine tokens in all; `byte`: every byte the tables tell apart | `StaysBelowPathStart`, `ReadsBack`, `DriveStays`, `ImplementsWhatwg`; `FilesComeBack`; `FastAgrees` |
| `edits` (`MCEdits`, 34,000 states) | `segments`: five hrefs, eight segments, paths of up to three tokens; `pairs`: three queries with every delimiter of the form syntax raw, encoded, doubled and missing, lists of up to two pairs; `join`: six bases, 21 references, setters in between; `relative`: all pairs in each of four families of URLs (`http://h`, `file://`, `foo://h`, and `foo:` without authority beside `foo://` with an empty host; paths of up to three names, empty ones, drive letters and `foo:` among them, with and without a query): 44,000 pairs | `DropIsLaidOut`, `EditsPathOnly`, `ImplementsSegmentList`; `ImplementsValueLists`, `EditsInPlace`; `ResultIsParsed`, `JoinAgreesWithSetters`, `ResolvesAsWritten`, `MakeRelativeUndone` |
| `bytes` (`MCBytes`, 686,000 states) | `buffer`: every history on texts of up to five bytes, chars of one and two bytes; `scan`: texts of up to five bytes in words of two lanes, below and above the threshold; `ipv4`: up to five labels of 13; `host`: up to six characters of 8; `ipv6`: up to six words, three pieces; `address`: eight pieces of three values | `CursorBetweenChars`, `CopiesOnlyOnDifference`, `ImplementsTextBuffer`; `FindsDelimiters`, `EndsHostWhereTheStandardDoes`; `NumbersAreBytes`, `NoAddressIsADomain`; `ParsesWhatIsDenoted`, `HostIsAFixedPoint` |
| `unicode` (`MCUnicode`, 1.2 million states) | `tables`: builds from two rows and two overlay lines over four code points; `label`: labels of up to four of ten code points; `ace`: texts of up to five of eight bytes; `mixed`, `scripts`: domains of up to four pieces of 13 and 14; `host`: hosts of up to four pieces of 13 (digits, dots, percent triples whole and halved, bytes beyond ASCII, brackets, tabs) | `LookupsAreMeant`; `EncodingIsOneToOne`; `NormalFormsAgree`, `MappingDoesNotMatter`, `WaysAgree`, `SpellingsAgree` |
| `handle` (`MCHandle`) | two threads, three blocks, five hrefs (tuple, opaque and blob origins, one that does not parse), setters that change the origin or not or are refused | `CachedOriginIsCurrent`, `PointersStayReadable`, `EveryCallReturns` |
| `overflow`, `reparse`, `domain`, `no_authority`, `handle_pointers`, `idna_kana` | as needed | disagreements between code and documentation, section 4 |

**Why the bounds are enough.** A path needs two segments, a `..`, and either a
tab, a drive letter or an empty segment between them: five tokens. A late drive
letter that a `..` then tries to take back (`p/C:/..`) needs a sixth. In the
paths of the system one component is one step, so four of them hold a drive
letter behind a name and two `..` behind it. In the pairs of `make_relative`
three names are two directories and a file, which is one directory in common or
none, and one or two to leave or to enter. The setter
runs bound the *inputs*, never the number of calls: the reachable records are
finite because a setter replaces its component. The inputs hold every kind of
value the guards distinguish: empty, equal to what is there, needing
percent-encoding, with a delimiter in front, refused, default and other ports,
ports out of range, hosts with a port that does not parse. The segment guard
looks at the length of the path only as 0, 1 or more, and at the slash before
the last segment; `set` and `delete` tell the first pair of a name from the
later ones, and the parsed queries have up to three. A borrow crosses one lane
border, so two lanes and a rest of one byte hold every case of a scan; bytes
have four bits there, which keeps the neighbours of each delimiter. IPv4 bytes
have seven bits, so that 2^28 fits in TLC's integers and an octet still has
three digits. Three IPv6 pieces make `::` at the start, at the end, in the
middle and before an IPv4 tail, which takes two of them; the writer is checked
with all eight. The Punycode part uses labels of three code points and integers
of four million, so small that every checked sum can fail. The check of a label
looks at one neighbour on each side, or at the whole label for a class of code
points: four pieces hold two neighbours and a class.

**Deadlock** is not checked: callers may stop at any time, after a panic there
is no next call, and a part that grows its input ends at the bound.

**Fairness** is assumed in one place. `Handle` has `WF_hvars(InOrigin(t))` for
each thread: a thread that is inside `sorug_origin` is scheduled again, as the
operating system does; `OnceLock` wakes the waiting ones when the cell is full.
That anybody calls anything is not assumed, so entering, the setters and
`sorug_free` have no fairness. Under it `EveryCallReturns` holds: nobody waits
for a cell that nobody fills.

Properties of the setters (`UrlLayout`):

- `Layout` – the offsets delimit scheme, username, password, host, port, path,
  query and fragment in this order, and `://`, `:`, `@`, `/.`, `?`, `#` stand
  exactly where the getters skip them. One of four shapes holds: authority,
  opaque path, plain path, path behind the marker `/.`.
- `Unambiguous` – no delimiter hides inside a component.
- `FlagsAgree` – credential flags and `SPECIAL` say what the text says, and the
  host flags do not name a host that is not there.
- `PortAndCredentials` – only a non-file URL with a host that is not empty has
  a port or credentials; the default port is never written.
- `RoundTrip` – the href parses to the record itself, except for the shapes of
  `Unparsable` (section 4).
- `FeedingBack` – a setter given its getter's value leaves the href alone.
- `ImplementsComponents` – under the mapping `Components`, which reads the
  record through its getters, every call is a step of `UrlComponents`: it
  changes its own component, or nothing.

Properties of the guards:

- `DropIsLaidOut` – dropped after any edits, the record has `Layout`, and the
  marker `/.` stands where the path begins with `//` and nowhere else.
- `EditsPathOnly` – every component but the path survives cut and restore.
- `ImplementsSegmentList` – cutting the text at slashes is editing a list of
  segments (`<<>>` the empty path, one empty segment the path `/`).
- `ImplementsValueLists` – a list that is written into the query and parsed
  again keeps the values of each name; an edit touches its own name only.
- `EditsInPlace` – edits keep the order of other names' pairs, and `set` keeps
  the place of the first pair of its name; the query guard writes its list once,
  on drop or `finish`, and leaves the rest alone, except that removing the query
  of an opaque URL strips the trailing spaces of its path.
- `ResultIsParsed`, first part – what the path guard leaves parses to itself,
  whatever was pushed. A path that was empty and stayed so is excluded: `foo:`
  and its kind are read as opaque.

Properties of paths, references and files:

- `StaysBelowPathStart` – no number of `..` cuts away the first slash, which
  would reach into the authority (and make the `rfind('/').unwrap()` of
  `pop_path` panic). `DriveStays` – nor a drive letter.
- `ReadsBack` – the path written parses to itself.
- `ImplementsWhatwg` – at every step the text is the segment list of the
  standard. Left out are the steps of `LateDrive`, at a drive letter that is not
  the first segment of a file URL (section 4); without either of its two cases
  TLC finds the property violated.
- `ResultIsParsed`, second part – every URL that `join` returns has `Layout` and
  `RoundTrip`, and an href joined to any base is that href.
- `JoinAgreesWithSetters`, `ResolvesAsWritten` – a reference that is a query or
  fragment does what the setter does; a relative path does what the text does
  that is written behind the directory of the base and parsed from scratch.
- `MakeRelativeUndone` – `join` undoes `make_relative` if and only if the pair is
  not one of `Misled`, the list of section 4: the property is violated by an
  exception that is missing from the list, and by one too many.
- `FilesComeBack` – a Unix path comes back from its URL with `..` resolved up to
  a drive letter, and joining a name to a directory URL names that file in the
  directory if and only if the name does not read as a URL (section 4).
- `FastAgrees` – what the fast path accepts the general parser accepts with the
  same record, and the bytes it leaves alone are encoded nowhere.

Properties of what is below the URL:

- `ImplementsTextBuffer`, `CopiesOnlyOnDifference`, `CursorBetweenChars` – the
  buffer acts as a text, copies only at a difference, and never stops inside a
  char.
- `FindsDelimiters`, `EndsHostWhereTheStandardDoes` – each search returns what
  a search byte by byte returns, and the host ends where the standard's state
  machine ends it, or in front of a `[` the host parser refuses.
- `NumbersAreBytes`, `NoAddressIsADomain`, `ParsesWhatIsDenoted`,
  `HostIsAFixedPoint` – numbers do not carry into other bytes; no spelling of
  an address stays a domain, in the fast path either; an IPv6 text is accepted
  if and only if it denotes an address, by a definition without cursors; what
  is written reads back, with the first of the longest runs of zeros left out.
- `EncodingIsOneToOne` – decoding undoes encoding, encoding undoes decoding,
  and a label within the length limit is never refused for overflow.
- `NormalFormsAgree`, `MappingDoesNotMatter`, `SpellingsAgree` – canonically
  equivalent domains, a domain and its mapping, a label and its encoded
  spelling are one host, or all are refused. Bytes and the percent triples that
  stand for them are one host too, and a whole host, domain or address or
  opaque, is read back as it was written.
- `WaysAgree` – the shortcut that skips the checks changes nothing, and the
  entry point that writes into the URL buffer leaves it alone when it fails.
  The URL parser, which appends hosts, and the setters, which parse them to a
  value, get the same text of the same kind.
- `LookupsAreMeant` – a lookup answers what the rows and the overlay say.
- `CachedOriginIsCurrent`, `PointersStayReadable`, `EveryCallReturns` – the
  cache never answers for an older URL; lent text stays as it was until a
  setter or `sorug_free` is called; every call of `sorug_origin` returns.

## 4. Disagreements found

Each of these has a run of its own that TLC ends with a counterexample.

1. **`overflow`** (`NeverTooLong`): `set_username`, `set_password` and
   `set_scheme` measure the text before they append what follows, so the href
   can end longer than `u32::MAX` without a panic; where the prefix itself is
   too long they return `Err` after they cut the href. CHANGELOG 0.6.5 says
   they panic.
2. **`reparse`** (`Reparses`): `http://localhost/p` with `set_scheme("file")`
   becomes `file://localhost/p`, which parses to `file:///p`. The mutation fuzz
   target states that hrefs always parse to themselves. The other cases are
   listed at `Unparsable`: a raw drive letter in a path when the scheme becomes
   file, an empty path without authority, and opaque paths with a leading slash
   or trailing space that a tab hid from `set_path`.
3. **`domain`** (`DomainIsNoAddress`): the parser of file URLs sets no address
   flags, so `file://1.2.3.4/` has a `domain()`.
4. **`no_authority`** (`AuthorityIsBehindSlashes`): `set_path("\t//p")` on the
   opaque `foo:p` gives `foo://p` with `path_start` behind the colon, and
   `authority()` slices backwards, which panics.
5. **`handle_pointers`** (`ReadableUntilMutated`): a setter of the C interface
   empties the origin cache before it knows whether it will do anything, so a
   call that returns -1 frees the text `sorug_origin` lent, while the header
   promises it until the handle is freed or mutated.
6. **`idna_kana`** (`MappingDoesNotMatter`): the ranges of kana that
   `is_simple_identity_cp` takes as they stand hold U+309B, U+309C, U+309F and
   U+30FF, which UTS #46 maps: the domain is encoded as it stands, and its
   mapping is refused (U+309B) or is another host (U+30FF). The run `unicode` leaves these code points out.

Met while modelling; the properties of the passing runs name the exception:

- A drive letter means something in the first segment of a file URL only, says
  the standard. `parse_path` rewrites `file:////C|/` to `file:////C:/`, behind
  empty segments too (`mod.rs` 1409), and `last_slash_can_be_removed` keeps a
  drive letter wherever it stands: `file:///p/C:/..` stays `file:///p/C:/`
  (`mod.rs` 1752). These are the two cases of `LateDrive` in `ImplementsWhatwg`.
- `make_relative` is called the inverse of `join` (`lib.rs` 630). User and
  password are never carried over, as its documentation says. Beyond that it is
  not the inverse in these cases, and, in the pairs of the run, in no other
  (`Misled`):
  - the target is opaque, or only one of the two has an authority: `foo:/p` and
    `foo:///p` both have no host, and the reference does not say which is meant;
  - the reference has no path, though the paths differ (`//q` from `/q`, or
    `foo://h/` from `foo://h`), or the target lacks the query of the base, which
    `join` then keeps;
  - the reference is `/`: it is meant as the directory of the base, and is read
    as the root (which is right only when the target is the root);
  - it begins with a name that reads as a scheme (`http://h/a:b` from
    `http://h/x` is `a:b`) or as a drive letter;
  - the first directory to enter has an empty name, which leaves no trace: `//p`
    from `/x` is `p`;
  - one of the directories to leave is empty, where `make_relative` stops to
    count, or is a drive letter, which `..` never leaves (a base that ends in
    `/C:` counts as such a directory);
  - the target has an empty path, which no reference with a path gives.
- `decode_punycode` accepts a text that begins with the delimiter and has no
  basic part (`punycode.rs` 1085), which no encoder writes
  (`EncodingIsOneToOne`).
- File paths: a drive letter `C|` in front comes back as `C:`; `..` is resolved in
  the text, not in the file system, and not past a drive letter wherever it
  stands, so that `/p/C:/..` comes back as `/p/C:/`. `from_directory_path` is "a
  useful directory base for `Url::join`" (`file_path.rs`), but the encode set of
  names leaves `:` and `|`: a name like `a:b`, `C:` or `C|` joined to it reads as
  another URL, or as a drive (`FilesComeBack`).
- `foo:///p` has `HAS_EMPTY_HOST` when its host was set to `""` and not when it
  was parsed (so `has_host` differs); `set_search("")` and `set_hash("")` keep
  an empty query or fragment that is present; leaking a `PathSegmentsMut` with
  `mem::forget` leaves stale offsets. No property looks at these.
- `parse_opaque_host` turns bytes of UTF-8 into characters one by one when it
  skips tabs (`host.rs` 217): only `Host::parse_opaque` shows it, the callers in
  `mod.rs` have dropped the tabs (`SpellingsAgree` says it of ASCII texts only).

## 5. What is proved

The theorems about the record hold for every set of inputs and every parser
that keeps the assumptions of `UrlLayout`:

| theorem | says | module |
|---|---|---|
| `TypeInvariant` | `Spec /\ []Fits(url) => []TypeOK` | `UrlLayoutProofs` |
| `LayoutInvariant` | `Spec /\ []Fits(url) => []Layout` | `UrlLayoutProofs` |
| `FlagsNeverStale` | `Spec /\ []Fits(url) => []FlagsAgree` | `UrlLayoutProofs` |
| `PortsHaveHosts` | `Spec /\ []Fits(url) => []PortAndCredentials` | `UrlLayoutProofs` |
| `SplitsOneWay` | `Spec /\ []Fits(url) => []Unambiguous` | `UrlLayoutProofs` |
| `RecordImplementsComponents` | `Spec /\ []Fits(url) => ImplementsComponents` | `UrlLayoutProofs` |
| `DropsAreLaidOut` | `GuardSpec /\ []Fits(View) => []DropIsLaidOut`, for segments that are texts | `PathSegmentsProofs` |
| `GuardEditsPathOnly` | `GuardSpec /\ []Fits(View) => EditsPathOnly`, for segments that are texts | `PathSegmentsProofs` |

**The invariants.** `IInv == TypeOK /\ Layout` is inductive. `TypeOK` alone is
not: an offset stays in `u32` after it was moved only if it was behind the
place that was edited, which is what `Layout` says; and `Layout` needs the
types for its arithmetic. `Layout` is strong enough on its own because it names
the shape of the record and what stands at each delimiter, and that is what the
setters' decisions by character depend on.

`CInv == IInv /\ FlagsAgree /\ PortAndCredentials /\ Unambiguous` is the
invariant of the rest. `PortAndCredentials` has to be part of it: `set_scheme`
makes a URL a file URL by looking at its credentials and its port, and
`set_host` leaves a port where it is; without it neither step is one of
`UrlComponents`. TLC checks each conjunct in the run `setters`.

`GInv` is the invariant of the path guard. While no guard is open the record is
`Good`: laid out, its components fit (the conjuncts of `CInv`), and its path
does not begin with a segment `.`. While one is open, `Held` says that a
drop would make it a good record whose path ends where the open text ends, and
that `after_first_slash` is behind the slash the path begins with. `Good` has
to forbid the dot: a push behind `foo:/.` would make `foo:/./p`, which reads as
a marker, and `Layout` excludes it. It holds because `.` is resolved wherever a
path is parsed, and never pushed.

**`Fits(url)`** says that the href is at least six tokens shorter than the
limit (`set_scheme` moves offsets before it writes or drops a port of up to six
tokens); `Fits(View)` says it of the URL as a drop of the guard would leave it.
It cannot be dropped: the run `overflow` shows what happens at the
limit.

**The assumptions** (`InputAssumption`, `VisibleAssumption`,
`ParserAssumption`, `DotAssumption`) say what the setters rely on. A parsed record is laid out,
its flags, port and components fit each other; a host does not begin with `@`
or `:`, only the host of a URL that is not special may be empty, and the host
parser stops at no `:` in a file URL; a port text gives 16 bits or nothing, and
never the default port; a path is empty or begins with `/`, never with a
segment `.`, and holds no raw `?` or `#`. They concern only the inputs
at hand, so TLC evaluates them in the runs of `MCUrlRecord` and in `edits`, with the operators
of `UrlParser`.

**The argument**, from the bottom up:

- `UrlTextProofs`: slices, concatenation, percent-encoding and decimal ports
  keep texts and lengths; moving an offset that lies behind an edit adds the
  difference, without wrapping; a slice of a text that was edited elsewhere is
  the slice it was.
- `UrlRecordProofs`: what follows an edit moves as a block and keeps its
  layout; which shapes exclude each other.
- `UrlSetterProofs`: one lemma per setter, `SetXSound`. From a record that is
  laid out, the setter makes one that is, or panics; and what the getters
  return afterwards is what they returned before with one component replaced
  (`Gives`), or the record is the old one. A setter's lemma splits on the shape
  of the record and on its early returns.
- `UrlLayoutProofs`: `NextAnswers` goes through the calls once: each returns
  the old record or one with one component edited (`ComponentEdit`). The
  layout is inductive from there. `EditKeeps`: each edit keeps what the
  components have to do with each other; `NextRefines`: each edit is an action
  of `UrlComponents`, whose guards are those of the record (`SameGuards`) under
  the mapping `Components`.
- `PathSegmentsProofs`: the open text is a head and the path. One lemma per
  edit (`PopRewrites`, `PopIfEmptyRewrites`, `ClearRewrites`, `PushRewrites`)
  gives the path that it writes, that the path is one (`ShorterPath`,
  `LongerPath`), and that head and marker are what belongs in front of it
  (`Rewrites`). `EditHolds` shows once for all of them that behind such a path
  the tail and its offsets fit again. `OpenHolds` says that what is cut off and
  put back is the URL as it was, `EditGood` that a setter leaves a URL the
  guard may be opened on. `LastSlashFacts` finds the last slash as the least
  one counted from the end (`Least`).

`PathParserProofs` proves, for every alphabet and for paths of any length:

- `PathStaysBelowStart`: `Spec => []StaysBelowPathStart`;
- `DriveLetterStays`: `Spec => DriveStays`;
- `ParserImplementsWhatwg`: `Spec => ImplementsWhatwg`, the refinement of
  `WhatwgPath`.

Its invariant `PInv` says what every search for a slash relies on: until a
token that is no tab is read the text is the one the loop began with; from then
on it is `Begun`: it begins with a slash, has one at `segment_start` and none
behind it. `ShortenedIs` boils the three tests of the drive letter and the two
searches of a slash down to one cut (`ParentOf`), `SegmentEndsAs` the whole of
`EndSegment` to three cases. The abstract list is read off the text by counting
slashes: `NthSlash` is the n-th one (`NthSlashIs`, `NthSlashFacts`, with `Least`
in the place of an induction), and a segment is what lies between two of them.
Counting makes the list local: text written behind the last slash closes nothing
(`ClosedStay`), a slash behind it closes one segment more and leaves the others
as they are (`OneMoreClosed`), and the cut of `..` is the parent of the list
(`ParentClosed`). `SlashesOnly` relates the test of the code whether a segment
is the first, that there are slashes only before it, with that of the standard,
that the list is empty. What is left is one lemma for each step
(`SlashCompletes`, `TokenBuffered`, `EndCompletes`).

`CowBufferProofs` proves, for all inputs, chars and strings:

- `BufferIsText`: `Spec => ImplementsTextBuffer`, the refinement of
  `TextBuffer` under the mapping `AsStr`;
- `NoNeedlessCopy`: `Spec => CopiesOnlyOnDifference`;
- `CursorStaysBetweenChars`: `Spec => []CursorBetweenChars`.

Its invariant `Good` says that the state is a borrowed prefix of the source or
an owned text. One lemma per operation gives the new text; the interesting one
is `PassedFacts`: an argument that lies at the cursor in the source is what the
source goes on with, so `push_str` may skip the comparison. The cursor needs
`Utf8Assumption`, what Rust guarantees of a `&str`: texts consist of chars, and
no char begins inside another. A char or a string that is what the source goes
on with then ends where a char of the source ends.

`HandleProofs` proves, for any number of threads and any setters:

- `CacheInvariant`: `HSpec => []CachedOriginIsCurrent`
- `PointerInvariant`: `HSpec => []PointersStayReadable`

Its invariant `HInv` adds to the two what keeps them: at most one thread is in
the closure, and exactly when the cell says `running`; a freed handle has nobody
inside and no pointers; a pointer that nobody kept through a refused setter
leads to the href or to the block of the full cell.

**Only model-checked**: everything that compares with what a parser computes
(`RoundTrip`, `FeedingBack`, `ResultIsParsed`, the rest of join, `ReadsBack`,
the file paths, the fast path); the query guard; that the guards implement lists
of segments and of values, which are the text cut at its delimiters (`SplitAt`, a
fold); the algorithms on bytes and code points. What folds and recursive
definitions compute for every input takes induction over texts. The library's
induction theorems cannot be instantiated here; that a set of numbers which is
not empty has a least member (`Least`) can be used in their place, once for each
statement, and is used for the last slash and the n-th one. Liveness
(`EveryCallReturns`) is out of reach.

## 6. What is not modelled

- The Windows build of `file_path.rs`: it takes prefixes apart with
  `std::path::Prefix`, and its drive and UNC rules need a path model of their own.
- URLs whose hosts are spelt out: `HostParser` takes hosts apart byte by byte,
  the URL modules take a host as a word with a canonical form. What they assume
  of it, that it reads back as written, is what `SpellingsAgree` shows.
- The rest of the C interface: `sorug_port` and `sorug_cannot_be_a_base` lend
  no pointer; handles from `sorug_join` and `sorug_parse_with_base` are new
  handles; the string of `sorug_make_relative` belongs to the caller.
- In `build.rs`, the download of the test data, the syntax of the input files
  and the text of the generated file.
- The serde and http bridges parse or print a text and keep no state.
- Tests, fuzz targets, benches and scripts are read for what they say of the
  library.

In what is modelled, allocation, capacity and the wording of errors are left
out. Unicode tables are samples; normal forms, case mapping and alphabetic are
what the Unicode data say of the sampled code points.

## 7. Plan

Done: the record and its setters, the parsers with and without base, the two
guards, join, the C interface, the buffer, scans, hosts, IDNA and its tables,
file paths, the fast path; theorems on the record, its refinement, the path
guard, the path parser, the buffer and the handle.

Left, in this order:

1. Theorems about the query guard: the layout of what it leaves, and that it
   changes the query only.
2. Windows file paths.

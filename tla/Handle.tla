------------------------------- MODULE Handle -------------------------------
(***************************************************************************)
(* A handle of the C interface (ffi/src/lib.rs): a Url, and a cell that    *)
(* keeps the text of its origin once a thread asked for it.                *)
(*                                                                         *)
(* Several threads may be inside the getters of one handle at a time; the  *)
(* setters and sorug_free need it for themselves.  That is the contract of *)
(* the header, and the guard Exclusive.  What a getter hands out is a      *)
(* pointer into the handle: reading it later means reading what is there   *)
(* then.                                                                   *)
(***************************************************************************)
EXTENDS UrlRecord

CONSTANTS Thread,
          Block     \* the addresses the allocator has for origin texts

VARIABLES
  live,     \* the handle has not been freed
  cell,     \* origin_cache: OnceLock<String>
  pc,       \* where each thread is in sorug_origin
  pointer   \* what each thread keeps of the last text it was given

hvars == <<url, outcome, live, cell, pc, pointer>>

Nothing == [kind |-> "none"]

EmptyCell == [state |-> "incomplete"]

(* What a getter hands out: the place, and what stood there.  `kept` is    *)
(* set when the caller keeps it through a setter that refused.             *)
IntoHref(slice) == [kind |-> "href", from |-> slice[1], to |-> slice[2], kept |-> FALSE,
                    text |-> Slice(url.ser, slice[1], slice[2])]
IntoCell        == [kind |-> "cell", block |-> cell.block, kept |-> FALSE, text |-> cell.text]

(* What a reader finds behind a pointer: {} when the text was freed.       *)
Found(p) ==
  CASE p.kind = "href" -> {Slice(url.ser, p.from, p.to)}
    [] p.kind = "cell" -> {t \in {cell.text : c \in {cell.state} \cap {"complete"}} :
                             cell.block = p.block}
-----------------------------------------------------------------------------
(* Url::origin and Origin::serialized.                                     *)

NullOrigin == <<"null">>

TupleOrigin(u) ==
  IF Class(u) # "special" \/ ~HasHost(u) THEN NullOrigin
  ELSE Scheme(u) \o <<":", "/", "/">> \o HostText(u)
         \o (IF u.port = DefaultPort(Scheme(u)) THEN <<>> ELSE PortSuffix(u.port))

(* The origin of a blob URL is the one of the URL its path spells.         *)
OriginText(u) ==
  LET inner == {v \in Parse(Path(u)) : Scheme(v) \in {<<"http">>, <<"http", "s">>, <<"file">>}}
  IN IF Scheme(u) # <<"blob">> THEN TupleOrigin(u)
     ELSE IF inner = {} THEN NullOrigin ELSE TupleOrigin(CHOOSE v \in inner : TRUE)
-----------------------------------------------------------------------------
(* The getters whose answer borrows the href: href, scheme, pathname, host *)
(* and hostname, username, password, search and query, hash and fragment.  *)
(* An empty text is a constant of the library; nobody has to free it.      *)

Slices(u) ==
  {<<0, Len(u.ser)>>, <<0, u.scheme_end>>, <<u.path_start, PathEndOf(u)>>}
    \cup (IF HasHost(u) THEN {<<u.host_start, u.host_end>>} ELSE {})
    \cup (IF Username(u) = <<>> THEN {} ELSE {<<u.scheme_end + 3, u.username_end>>})
    \cup (IF Password(u) = <<>> THEN {} ELSE {<<u.username_end + 1, u.host_start - 1>>})
    \cup (IF u.query_start = NONE THEN {} ELSE {<<u.query_start + i, QueryEndOf(u)>> : i \in 0..1})
    \cup (IF u.fragment_start = NONE THEN {} ELSE {<<u.fragment_start + i, Len(u.ser)>> : i \in 0..1})

Outside(t) == live /\ pc[t] = "out"
Exclusive  == live /\ \A t \in Thread : pc[t] = "out"

ReadComponent(t) ==
  /\ Outside(t)
  /\ \E slice \in Slices(url) : pointer' = [pointer EXCEPT ![t] = IntoHref(slice)]
  /\ UNCHANGED <<url, outcome, live, cell, pc>>
-----------------------------------------------------------------------------
(* sorug_origin: OnceLock::get_or_init runs the closure in one thread, the *)
(* others wait until it is done.                                           *)

EnterOrigin(t) == /\ Outside(t)
                  /\ pc' = [pc EXCEPT ![t] = "get_or_init"]
                  /\ UNCHANGED <<url, outcome, live, cell, pointer>>

ClaimWithoutLock(t) ==   \* mutant: get, compute, set
  /\ pc[t] = "get_or_init" /\ cell.state # "complete"
  /\ pc' = [pc EXCEPT ![t] = "init"]
  /\ cell' = [state |-> "running"]
  /\ UNCHANGED <<url, outcome, live, pointer>>

Claim(t) == /\ pc[t] = "get_or_init" /\ cell.state = "incomplete"
            /\ pc' = [pc EXCEPT ![t] = "init"]
            /\ cell' = [state |-> "running"]
            /\ UNCHANGED <<url, outcome, live, pointer>>

Used == {pointer[t].block : t \in {s \in Thread : pointer[s].kind = "cell"}}

(* Mutant: an opaque origin is not kept, and the cell is left as it is.    *)
ComputeUnlessOpaque(t) ==
  /\ pc[t] = "init"
  /\ pc' = [pc EXCEPT ![t] = "get_or_init"]
  /\ IF OriginText(url) = NullOrigin THEN UNCHANGED cell
     ELSE \E b \in Block \ Used :
            cell' = [state |-> "complete", block |-> b, text |-> OriginText(url)]
  /\ UNCHANGED <<url, outcome, live, pointer>>

(* The closure.  The allocator may hand out any block nobody points into.  *)
Compute(t) ==
  /\ pc[t] = "init"
  /\ pc' = [pc EXCEPT ![t] = "get_or_init"]
  /\ \E b \in Block \ Used :
       cell' = [state |-> "complete", block |-> b, text |-> OriginText(url)]
  /\ UNCHANGED <<url, outcome, live, pointer>>

ReturnOrigin(t) ==
  /\ pc[t] = "get_or_init" /\ cell.state = "complete"
  /\ pc' = [pc EXCEPT ![t] = "out"]
  /\ pointer' = [pointer EXCEPT ![t] = IntoCell]
  /\ UNCHANGED <<url, outcome, live, cell>>
-----------------------------------------------------------------------------
(* The setters.  A null or ill-formed value returns before anything        *)
(* happens; else the cell is emptied, and then the setter runs.            *)

(* The caller drops its pointers when the handle is mutated, that is when  *)
(* a setter succeeds; what a refused call does to them is another matter.  *)
PointersAfter(result) ==
  [t \in Thread |-> IF result.url # url \/ result.outcome = "ok" \/ pointer[t] = Nothing
                    THEN Nothing ELSE [pointer[t] EXCEPT !.kept = TRUE]]

Mutate(result) ==
  /\ Exclusive
  /\ Call(result)
  /\ cell' = EmptyCell
  /\ pointer' = PointersAfter(result)
  /\ UNCHANGED <<live, pc>>

RefuseValue == /\ Exclusive
               /\ outcome' = "err"
               /\ UNCHANGED <<url, live, cell, pc, pointer>>

SetProtocolStr == \E s \in SchemeIn : Mutate(SetProtocol(url, s))
SetCredentials == \E s \in UserinfoIn : Mutate(SetUsername(url, s)) \/ Mutate(SetPassword(url, s))

(* Mutant: sorug_set_hostname leaves the cell alone.                       *)
SetHostsStale == \E s \in HostIn :
  \/ Mutate(SetHost(url, s))
  \/ /\ Exclusive /\ Call(SetHostname(url, s))
     /\ pointer' = PointersAfter(SetHostname(url, s)) /\ UNCHANGED <<live, cell, pc>>

SetHosts    == \E s \in HostIn : Mutate(SetHost(url, s)) \/ Mutate(SetHostname(url, s))
SetPorts    == \E s \in PortIn : Mutate(SetPortStr(url, s))
SetPaths    == \E s \in PathIn : Mutate(SetPathname(url, s))
SetSearches == \E s \in QueryIn : Mutate(SetSearch(url, s))
SetHashes   == \E s \in FragmentIn : Mutate(SetHash(url, s))
SetHrefs    == \E s \in HrefIn : Mutate(SetHref(url, s))

Set == \/ SetProtocolStr \/ SetCredentials \/ SetHosts \/ SetPorts
       \/ SetPaths \/ SetSearches \/ SetHashes \/ SetHrefs
-----------------------------------------------------------------------------
(* sorug_free, and a new handle from sorug_parse: null if it does not parse. *)

Free == /\ Exclusive
        /\ live' = FALSE
        /\ cell' = EmptyCell
        /\ pointer' = [t \in Thread |-> Nothing]
        /\ UNCHANGED <<url, outcome, pc>>

New == /\ ~live
       /\ \E s \in HrefIn :
            IF Parse(s) = {} THEN outcome' = "err" /\ UNCHANGED <<url, live>>
            ELSE url' \in Parse(s) /\ live' = TRUE /\ outcome' = "ok"
       /\ UNCHANGED <<cell, pc, pointer>>

HInit == /\ Init
         /\ live = TRUE /\ cell = EmptyCell
         /\ pc = [t \in Thread |-> "out"] /\ pointer = [t \in Thread |-> Nothing]

InOrigin(t) == Claim(t) \/ Compute(t) \/ ReturnOrigin(t)

HNext == \/ \E t \in Thread : ReadComponent(t) \/ EnterOrigin(t) \/ InOrigin(t)
         \/ Set \/ RefuseValue \/ Free \/ New

(* A thread inside sorug_origin is scheduled again; that a caller calls    *)
(* anything is not assumed.                                                *)
HSpec == HInit /\ [][HNext]_hvars /\ \A t \in Thread : WF_hvars(InOrigin(t))
-----------------------------------------------------------------------------
(* The cell never answers for a URL the handle no longer is.               *)
CachedOriginIsCurrent == cell.state = "complete" => cell.text = OriginText(url)

Readable(p) == p # Nothing => Found(p) = {p.text}

(* "Valid until the handle is freed or mutated", when a call of a setter   *)
(* counts as mutation: what a thread was given stays readable, whatever    *)
(* the other threads ask for in the meantime.                              *)
PointersStayReadable == \A t \in Thread : pointer[t] # Nothing /\ ~pointer[t].kept => Readable(pointer[t])

(* Who enters sorug_origin returns: the initialisation is run to its end   *)
(* by whoever claimed it, and the waiting threads find its result.         *)
EveryCallReturns == \A t \in Thread : pc[t] # "out" ~> pc[t] = "out"

(* The same as PointersStayReadable, when a call that returned -1 and left *)
(* the URL as it was is no mutation (ffi/src/lib.rs, "Ownership").         *)
ReadableUntilMutated == \A t \in Thread : Readable(pointer[t])
=============================================================================

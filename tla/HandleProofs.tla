---------------------------- MODULE HandleProofs ----------------------------
(***************************************************************************)
(* The origin cache of the C interface, for any number of threads, any     *)
(* URLs and any allocator.                                                 *)
(***************************************************************************)
EXTENDS Handle, TLAPS

Place == {"out", "get_or_init", "init"}

(* The parts of the inductive invariant.                                   *)
Threads == pc \in [Thread -> Place] /\ DOMAIN pointer = Thread

(* One thread at most runs the initialisation, and then the cell says so.  *)
OneInitialiser ==
  /\ \A t \in Thread : pc[t] = "init" => cell.state = "running"
  /\ \A s, t \in Thread : pc[s] = "init" /\ pc[t] = "init" => s = t

(* Nothing is left of a freed handle, and nobody is inside.                *)
Freed == ~live => /\ cell.state = "incomplete"
                  /\ \A t \in Thread : pointer[t] = Nothing /\ pc[t] = "out"

(* A pointer nobody kept through a refused setter leads to what was there. *)
Fresh(p, u, c) ==
  \/ p = Nothing
  \/ /\ "kept" \in DOMAIN p
     /\ \/ p.kept
        \/ p.kind = "href" /\ p.text = Slice(u.ser, p.from, p.to)
        \/ /\ p.kind = "cell" /\ c.state = "complete"
           /\ p.text = c.text /\ p.block = c.block

Pointers == \A t \in Thread : Fresh(pointer[t], url, cell)

HInv == Threads /\ OneInitialiser /\ Freed /\ Pointers /\ CachedOriginIsCurrent

-----------------------------------------------------------------------------
LEMMA InitHInv == HInit => HInv
BY DEF HInit, HInv, Threads, Place, OneInitialiser, Freed, Pointers, Fresh,
       CachedOriginIsCurrent, EmptyCell

(* A getter hands one thread a pointer to what stands there.               *)
LEMMA PointerSet ==
  ASSUME HInv, NEW t \in Thread, NEW p, pointer' = [pointer EXCEPT ![t] = p],
         Fresh(p, url, cell), UNCHANGED <<url, cell>>
  PROVE  Pointers' /\ DOMAIN pointer' = Thread
<1>1. DOMAIN pointer = Thread /\ \A s \in Thread : Fresh(pointer[s], url, cell)
  BY DEF HInv, Threads, Pointers
<1>2. pointer'[t] = p /\ DOMAIN pointer' = Thread
  BY <1>1
<1>3. \A s \in Thread : s # t => pointer'[s] = pointer[s]
  BY <1>1
<1>4. ASSUME NEW s \in Thread PROVE Fresh(pointer'[s], url, cell)
  BY <1>1, <1>2, <1>3
<1> QED
  BY <1>2, <1>4 DEF Pointers

LEMMA ReadStep ==
  ASSUME HInv, NEW t \in Thread, ReadComponent(t)
  PROVE  HInv'
<1>1. PICK slice \in Slices(url) : pointer' = [pointer EXCEPT ![t] = IntoHref(slice)]
  BY DEF ReadComponent
<1>2. UNCHANGED <<url, cell, pc, live>> /\ live
  BY DEF ReadComponent, Outside
<1>3. Fresh(IntoHref(slice), url, cell)
  BY DEF Fresh, IntoHref
<1>4. Pointers' /\ DOMAIN pointer' = Thread
  BY <1>1, <1>2, <1>3, PointerSet
<1>5. Threads' /\ OneInitialiser' /\ Freed' /\ CachedOriginIsCurrent'
  BY <1>2, <1>4 DEF HInv, Threads, OneInitialiser, Freed, CachedOriginIsCurrent
<1> QED
  BY <1>4, <1>5 DEF HInv

(* A thread moves to another place and touches nothing else.               *)
LEMMA PcSet ==
  ASSUME HInv, NEW t \in Thread, NEW place \in Place, pc' = [pc EXCEPT ![t] = place]
  PROVE  /\ pc' \in [Thread -> Place] /\ pc'[t] = place
         /\ \A s \in Thread : s # t => pc'[s] = pc[s]
BY DEF HInv, Threads

LEMMA EnterStep ==
  ASSUME HInv, NEW t \in Thread, EnterOrigin(t)
  PROVE  HInv'
<1>1. UNCHANGED <<url, live, cell, pointer>> /\ pc' = [pc EXCEPT ![t] = "get_or_init"] /\ live
  BY DEF EnterOrigin, Outside
<1>2. pc' \in [Thread -> Place] /\ pc'[t] = "get_or_init" /\ \A s \in Thread : s # t => pc'[s] = pc[s]
  BY <1>1, PcSet DEF Place
<1> QED
  BY <1>1, <1>2 DEF HInv, Threads, OneInitialiser, Freed, Pointers, CachedOriginIsCurrent

LEMMA ClaimStep ==
  ASSUME HInv, NEW t \in Thread, Claim(t), live
  PROVE  HInv'
<1>1. /\ UNCHANGED <<url, live, pointer>> /\ pc' = [pc EXCEPT ![t] = "init"]
      /\ cell.state = "incomplete" /\ cell' = [state |-> "running"]
  BY DEF Claim
<1>2. pc' \in [Thread -> Place] /\ pc'[t] = "init" /\ \A s \in Thread : s # t => pc'[s] = pc[s]
  BY <1>1, PcSet DEF Place
<1>3. \A s \in Thread : pc[s] # "init"
  BY <1>1 DEF HInv, OneInitialiser
<1>4. OneInitialiser' /\ Threads'
  BY <1>1, <1>2, <1>3 DEF OneInitialiser, Threads, HInv
<1>5. Pointers'
  BY <1>1 DEF HInv, Pointers, Fresh
<1>6. Freed' /\ CachedOriginIsCurrent'
  BY <1>1 DEF Freed, CachedOriginIsCurrent
<1> QED
  BY <1>4, <1>5, <1>6 DEF HInv

LEMMA ComputeStep ==
  ASSUME HInv, NEW t \in Thread, Compute(t), live
  PROVE  HInv'
<1>1. /\ UNCHANGED <<url, live, pointer>> /\ pc' = [pc EXCEPT ![t] = "get_or_init"]
      /\ pc[t] = "init"
      /\ \E b \in Block : cell' = [state |-> "complete", block |-> b, text |-> OriginText(url)]
  BY DEF Compute
<1>2. /\ pc' \in [Thread -> Place] /\ pc'[t] = "get_or_init"
      /\ \A s \in Thread : s # t => pc'[s] = pc[s]
  BY <1>1, PcSet DEF Place
<1>3. cell.state = "running"
  BY <1>1 DEF HInv, OneInitialiser
<1>4. \A s \in Thread : pc'[s] # "init"
  BY <1>1, <1>2 DEF HInv, OneInitialiser
<1>5. OneInitialiser' /\ Threads'
  BY <1>1, <1>2, <1>4 DEF OneInitialiser, Threads, HInv
<1>6. Pointers'
  BY <1>1, <1>3 DEF HInv, Pointers, Fresh
<1>7. Freed' /\ CachedOriginIsCurrent'
  BY <1>1 DEF Freed, CachedOriginIsCurrent
<1> QED
  BY <1>5, <1>6, <1>7 DEF HInv

LEMMA ReturnStep ==
  ASSUME HInv, NEW t \in Thread, ReturnOrigin(t)
  PROVE  HInv'
<1>1. /\ UNCHANGED <<url, live, cell>> /\ pc' = [pc EXCEPT ![t] = "out"]
      /\ cell.state = "complete" /\ pointer' = [pointer EXCEPT ![t] = IntoCell]
  BY DEF ReturnOrigin
<1>2. pc' \in [Thread -> Place] /\ pc'[t] = "out" /\ \A s \in Thread : s # t => pc'[s] = pc[s]
  BY <1>1, PcSet DEF Place
<1>3. Fresh(IntoCell, url, cell)
  BY <1>1 DEF Fresh, IntoCell
<1>4. Pointers' /\ DOMAIN pointer' = Thread
  BY <1>1, <1>3, PointerSet
<1>5. Threads' /\ OneInitialiser' /\ Freed' /\ CachedOriginIsCurrent'
  BY <1>1, <1>2, <1>4 DEF HInv, Threads, OneInitialiser, Freed, CachedOriginIsCurrent
<1> QED
  BY <1>4, <1>5 DEF HInv

(* A setter empties the cell; nobody is inside a getter then.              *)
LEMMA MutateStep ==
  ASSUME HInv, NEW result, Mutate(result)
  PROVE  HInv'
<1>1. /\ live' = live /\ live /\ pc' = pc /\ cell' = EmptyCell
      /\ \A t \in Thread : pc[t] = "out"
      /\ pointer' = PointersAfter(result)
  BY DEF Mutate, Exclusive
<1>2. ASSUME NEW t \in Thread PROVE Fresh(pointer'[t], url', cell')
  <2>1. pointer'[t] = Nothing \/ pointer'[t] = [pointer[t] EXCEPT !.kept = TRUE]
    BY <1>1 DEF PointersAfter
  <2>2. pointer[t] = Nothing \/ "kept" \in DOMAIN pointer[t]
    BY DEF HInv, Pointers, Fresh
  <2>3. pointer[t] = Nothing => pointer'[t] = Nothing
    BY <1>1 DEF PointersAfter
  <2>4. pointer[t] # Nothing /\ pointer'[t] # Nothing =>
          "kept" \in DOMAIN pointer'[t] /\ pointer'[t].kept
    BY <2>1, <2>2
  <2> QED
    BY <2>3, <2>4 DEF Fresh
<1>3. DOMAIN pointer' = Thread
  BY <1>1 DEF PointersAfter
<1>4. Threads' /\ OneInitialiser' /\ Freed' /\ CachedOriginIsCurrent'
  BY <1>1, <1>3 DEF HInv, Threads, OneInitialiser, Freed, CachedOriginIsCurrent, EmptyCell
<1> QED
  BY <1>2, <1>4 DEF HInv, Pointers

LEMMA FreeStep ==
  ASSUME HInv, Free
  PROVE  HInv'
BY DEF Free, Exclusive, HInv, Threads, OneInitialiser, Freed, Pointers, Fresh,
       CachedOriginIsCurrent, EmptyCell

LEMMA NewStep ==
  ASSUME HInv, New
  PROVE  HInv'
<1>1. /\ ~live /\ UNCHANGED <<cell, pc, pointer>>
      /\ cell.state = "incomplete" /\ \A t \in Thread : pointer[t] = Nothing /\ pc[t] = "out"
  BY DEF New, HInv, Freed
<1>2. Pointers' /\ CachedOriginIsCurrent' /\ Freed'
  BY <1>1 DEF Pointers, Fresh, CachedOriginIsCurrent, Freed
<1> QED
  BY <1>1, <1>2 DEF HInv, Threads, OneInitialiser

LEMMA SetStep ==
  ASSUME Set
  PROVE  \E result : Mutate(result)
<1>1. SetProtocolStr => \E result : Mutate(result)
  BY DEF SetProtocolStr
<1>2. SetCredentials => \E result : Mutate(result)
  BY DEF SetCredentials
<1>3. SetHosts => \E result : Mutate(result)
  BY DEF SetHosts
<1>4. SetPorts => \E result : Mutate(result)
  BY DEF SetPorts
<1>5. SetPaths => \E result : Mutate(result)
  BY DEF SetPaths
<1>6. SetSearches => \E result : Mutate(result)
  BY DEF SetSearches
<1>7. SetHashes => \E result : Mutate(result)
  BY DEF SetHashes
<1>8. SetHrefs => \E result : Mutate(result)
  BY DEF SetHrefs
<1> QED
  BY <1>1, <1>2, <1>3, <1>4, <1>5, <1>6, <1>7, <1>8 DEF Set

LEMMA NextHInv == HInv /\ [HNext]_hvars => HInv'
<1> SUFFICES ASSUME HInv, [HNext]_hvars PROVE HInv'
  OBVIOUS
<1>1. ASSUME NEW t \in Thread, ReadComponent(t) \/ EnterOrigin(t) \/ InOrigin(t)
      PROVE  HInv'
  <2>1. CASE ReadComponent(t)
    BY <2>1, ReadStep
  <2>2. CASE EnterOrigin(t)
    BY <2>2, EnterStep
  <2>3. CASE Claim(t)
    <3>1. live
      BY <2>3 DEF Claim, HInv, Freed
    <3> QED
      BY <2>3, <3>1, ClaimStep
  <2>4. CASE Compute(t)
    <3>1. live
      BY <2>4 DEF Compute, HInv, Freed
    <3> QED
      BY <2>4, <3>1, ComputeStep
  <2>5. CASE ReturnOrigin(t)
    BY <2>5, ReturnStep
  <2> QED
    BY <1>1, <2>1, <2>2, <2>3, <2>4, <2>5 DEF InOrigin
<1>2. CASE Set
  BY <1>2, SetStep, MutateStep
<1>3. CASE RefuseValue
  BY <1>3 DEF RefuseValue, HInv, Threads, OneInitialiser, Freed, Pointers, CachedOriginIsCurrent
<1>4. CASE Free
  BY <1>4, FreeStep
<1>5. CASE New
  BY <1>5, NewStep
<1>6. CASE UNCHANGED hvars
  BY <1>6 DEF hvars, HInv, Threads, OneInitialiser, Freed, Pointers, CachedOriginIsCurrent
<1> QED
  BY <1>1, <1>2, <1>3, <1>4, <1>5, <1>6 DEF HNext

LEMMA HInvReadable == HInv => PointersStayReadable
<1> SUFFICES ASSUME HInv, NEW t \in Thread, pointer[t] # Nothing, ~pointer[t].kept
             PROVE  Found(pointer[t]) = {pointer[t].text}
  BY DEF PointersStayReadable, Readable
<1>1. Fresh(pointer[t], url, cell)
  BY DEF HInv, Pointers
<1>2. CASE /\ pointer[t].kind = "href"
           /\ pointer[t].text = Slice(url.ser, pointer[t].from, pointer[t].to)
  BY <1>2 DEF Found
<1>3. CASE /\ pointer[t].kind = "cell" /\ cell.state = "complete"
           /\ pointer[t].text = cell.text /\ pointer[t].block = cell.block
  <2>1. {x \in {cell.text : c \in {cell.state} \cap {"complete"}} : cell.block = pointer[t].block}
          = {pointer[t].text}
    BY <1>3
  <2> QED
    BY <1>3, <2>1 DEF Found
<1> QED
  BY <1>1, <1>2, <1>3 DEF Fresh

-----------------------------------------------------------------------------
(* What sorug_origin answers is the origin of the URL the handle is now,   *)
(* whatever setters ran and however many threads filled the cell.          *)
THEOREM CacheInvariant == HSpec => []CachedOriginIsCurrent
<1>1. HInit => HInv
  BY InitHInv
<1>2. HInv /\ [HNext]_hvars => HInv'
  BY NextHInv
<1>3. HInv => CachedOriginIsCurrent
  BY DEF HInv
<1> QED
  BY <1>1, <1>2, <1>3, PTL DEF HSpec

(* What a getter handed out stays readable until the handle is freed or a  *)
(* setter is called, whatever the other threads ask for.                   *)
THEOREM PointerInvariant == HSpec => []PointersStayReadable
<1>1. HInit => HInv
  BY InitHInv
<1>2. HInv /\ [HNext]_hvars => HInv'
  BY NextHInv
<1>3. HInv => PointersStayReadable
  BY HInvReadable
<1> QED
  BY <1>1, <1>2, <1>3, PTL DEF HSpec
=============================================================================

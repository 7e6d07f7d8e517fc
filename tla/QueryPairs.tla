----------------------------- MODULE QueryPairs -----------------------------
(***************************************************************************)
(* The guard QueryPairsMut (src/query_pairs.rs) on a Url record: it takes  *)
(* a copy of the query as a list of pairs, lets the list be edited, and    *)
(* writes the whole query when it is dropped.                              *)
(***************************************************************************)
EXTENDS UrlRecord, SearchParams
LOCAL INSTANCE SequencesExt

CONSTANTS PairName, PairValue,   \* what the pairs are edited with
          MaxPairs               \* no new pair in a longer list

VARIABLE params          \* {} or {the list of the open guard}

qvars == <<url, outcome, params>>

(* Url::search_params                                                      *)
SearchParamsOf(u) ==
  IF Query(u) = {} THEN <<>> ELSE CHOOSE list \in {Parsed(q) : q \in Query(u)} : TRUE

(* Url::set_search_params: an empty list removes the query.                *)
SetSearchParams(u, pairs) ==
  SetQuery(u, IF pairs = <<>> THEN {} ELSE {Serialize(pairs)})

(* Url::set_query_pairs: here it is the text that decides.                 *)
SetQueryPairs(u, pairs) ==
  SetQuery(u, IF Serialize(pairs) = <<>> THEN {} ELSE {Serialize(pairs)})

Finished(u, pairs) == SetSearchParams(u, pairs)
-----------------------------------------------------------------------------
Pairs == CHOOSE list \in params : TRUE

QInit == Init /\ params = {}

Setter == params = {} /\ Next /\ UNCHANGED params

CallSetQueryPairs ==
  /\ params = {} /\ outcome # "panic"
  /\ \E n \in PairName, v \in PairValue : \E list \in {<<>>, <<Pair(n, v)>>} :
       Call(SetQueryPairs(url, list))
  /\ UNCHANGED params

Open == /\ params = {} /\ outcome # "panic"
        /\ params' = {SearchParamsOf(url)}
        /\ UNCHANGED <<url, outcome>>

Drop == /\ params # {}
        /\ Call(SetSearchParams(url, Pairs))
        /\ params' = {}

Finish == /\ params # {}
          /\ Call(Finished(url, Pairs))
          /\ params' = {}

Edit(list) == params # {} /\ params' = {list} /\ UNCHANGED <<url, outcome>>

Add         == Len(Pairs) < MaxPairs /\ \E n \in PairName, v \in PairValue : Edit(Appended(Pairs, n, v))
SetPair     == \E n \in PairName, v \in PairValue :
                 /\ Len(Pairs) < MaxPairs \/ GetAll(Pairs, n) # <<>>
                 /\ Edit(Set(Pairs, n, v))
Delete      == \E n \in PairName : Edit(Deleted(Pairs, n))
DeleteValue == \E n \in PairName, v \in PairValue : Edit(DeletedValue(Pairs, n, v))
ClearPairs  == Edit(<<>>)
Sort        == Edit(Sorted(Pairs))

QNext == \/ Setter \/ CallSetQueryPairs \/ Open \/ Drop \/ Finish
         \/ params # {} /\ (Add \/ SetPair \/ Delete \/ DeleteValue \/ ClearPairs \/ Sort)

QSpec == QInit /\ [][QNext]_qvars
-----------------------------------------------------------------------------
(* The pairs a caller sees: the list of the open guard, or the query.      *)
View == IF params = {} THEN SearchParamsOf(url) ELSE Pairs

V == INSTANCE ValueLists WITH
  Name   <- PairName,
  Value  <- PairValue,
  values <- CHOOSE f \in {[n \in PairName |-> GetAll(list, n)] : list \in {View}} : TRUE,
  open   <- params # {}

(* Serialized into the query and parsed again, a list keeps the values of  *)
(* every name; an edit changes the values of its own name only, and        *)
(* sorting changes none.                                                   *)
ImplementsValueLists == V!Spec

(* An edit other than sorting keeps the order of the pairs: those of other *)
(* names stay as they are, and a new value that set gives to a name stands *)
(* where the first pair of the name stood.                                 *)
Place(list, name) == SelectInSeq(list, LAMBDA p : p.name = name)

EditsInPlace ==
  [][params # {} /\ params' # {} /\ View' \notin {Sorted(View), <<>>} =>
       \E n \in PairName :
         /\ Deleted(View', n) = Deleted(View, n)
         /\ Place(View, n) > 0 /\ Place(View', n) > 0 =>
              \/ View'[Place(View', n)] \in {View[i] : i \in DOMAIN View}
              \/ Place(View', n) = Place(View, n)]_qvars

(* A drop writes the query and nothing else, and it is written once: the   *)
(* list that was dropped is the list that is read again.                   *)
WritesQueryOnly ==
  [][params # {} /\ params' = {} /\ outcome' # "panic" =>
       /\ SearchParamsOf(url') = Pairs
       /\ Fragment(url') = Fragment(url)
       /\ Upto(url'.ser, PathEndOf(url')) = Upto(url.ser, PathEndOf(url))
            \/ CannotBeABase(url)]_qvars
=============================================================================

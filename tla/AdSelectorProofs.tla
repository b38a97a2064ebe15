--------------------------- MODULE AdSelectorProofs ---------------------------
(***************************************************************************)
(* The tree of creatives, for any set of creatives and of sizes: it misses *)
(* nothing that suits an impression, and accounts for everything else.     *)
(***************************************************************************)
EXTENDS AdSelector, TLAPS

\* Each list holds what was added so far and belongs into it; a list of
\* creatives with a deep link never exists without the other one.
Filed ==
    /\ \A k \in Keys :
          /\ supports[k] = {c \in Loaded \ todo : creatives[c].deeplink /\ KeyOf(c) = k}
          /\ notSupports[k] = {c \in Loaded \ todo : ~creatives[c].deeplink /\ KeyOf(c) = k}
          /\ supports[k] # {} => notSupports[k] # {}
    /\ state = "ready" => todo = {}
    /\ state = "clear" => Loaded = {}

LEMMA KeysOfCreatives ==
    ASSUME TypeOK, NEW c \in Loaded
    PROVE  KeyOf(c) \in Keys
BY DEF TypeOK, Loaded, KeyOf, Keys, Attributes

LEMMA KeysForImpressions ==
    ASSUME NEW imp \in Impressions
    PROVE  KeyFor(imp) \in Keys
BY DEF Impressions, KeyFor, Keys, Types

\* The variables keep their types, and the tree is in order.
THEOREM TreeInOrder == Spec => [](TypeOK /\ Filed)
<1>1. Init => TypeOK /\ Filed
  BY DEF Init, TypeOK, Filed, Loaded
<1>2. TypeOK /\ Filed /\ [Next]_vars => TypeOK' /\ Filed'
  <2> SUFFICES ASSUME TypeOK, Filed, [Next]_vars PROVE TypeOK' /\ Filed'
    OBVIOUS
  <2>1. CASE Fetch
    <3>1. /\ creatives' \in [todo' -> Attributes] /\ Loaded' = todo' /\ todo' \subseteq Creatives
          /\ state = "clear" /\ state' = "adding" /\ UNCHANGED <<supports, notSupports>>
      BY <2>1 DEF Fetch, Loaded
    <3>2. \A k \in Keys : supports[k] = {} /\ notSupports[k] = {}
      BY <3>1 DEF Filed
    <3> QED BY <3>1, <3>2 DEF TypeOK, Filed, Loaded
  <2>2. ASSUME NEW c \in Creatives, AddNotSupports(c) PROVE TypeOK' /\ Filed'
    <3>1. /\ c \in todo /\ c \in Loaded /\ ~creatives[c].deeplink /\ KeyOf(c) \in Keys
          /\ notSupports' = [notSupports EXCEPT ![KeyOf(c)] = @ \cup {c}]
          /\ todo' = todo \ {c} /\ UNCHANGED <<creatives, supports, state>>
          /\ state = "adding" /\ Loaded' = Loaded
      BY <2>2, KeysOfCreatives DEF AddNotSupports, TypeOK, Loaded
    <3>2. TypeOK'
      BY <3>1 DEF TypeOK
    <3>3. \A d \in Loaded : KeyOf(d)' = KeyOf(d)
      BY <3>1 DEF KeyOf
    <3> QED BY <3>1, <3>2, <3>3 DEF Filed, TypeOK
  <2>3. ASSUME NEW c \in Creatives, AddSupports(c) PROVE TypeOK' /\ Filed'
    <3>1. /\ c \in todo /\ c \in Loaded /\ creatives[c].deeplink /\ KeyOf(c) \in Keys
          /\ UNCHANGED <<creatives, notSupports>> /\ state = "adding" /\ Loaded' = Loaded
      BY <2>3, KeysOfCreatives DEF AddSupports, TypeOK, Loaded
    <3>2. \A d \in Loaded : KeyOf(d)' = KeyOf(d)
      BY <3>1 DEF KeyOf
    <3>3. CASE supports[KeyOf(c)] = {} /\ notSupports[KeyOf(c)] = {}
      <4>1. state' = "crashed" /\ UNCHANGED <<todo, supports>>
        BY <2>3, <3>3 DEF AddSupports
      <4> QED BY <3>1, <3>2, <4>1 DEF TypeOK, Filed
    <3>4. CASE ~(supports[KeyOf(c)] = {} /\ notSupports[KeyOf(c)] = {})
      <4>1. /\ supports' = [supports EXCEPT ![KeyOf(c)] = @ \cup {c}]
            /\ todo' = todo \ {c} /\ state' = state
        BY <2>3, <3>4 DEF AddSupports
      <4>2. TypeOK'
        BY <3>1, <4>1 DEF TypeOK
      <4>3. notSupports[KeyOf(c)] # {}
        BY <3>1, <3>4 DEF Filed
      <4> QED BY <3>1, <3>2, <4>1, <4>2, <4>3 DEF Filed, TypeOK
    <3> QED BY <3>3, <3>4
  <2>4. CASE Created
    BY <2>4 DEF Created, TypeOK, Filed, Loaded, KeyOf
  <2>5. CASE Reload
    BY <2>5 DEF Reload, Clear, TypeOK, Filed, Loaded
  <2>6. CASE UNCHANGED vars
    BY <2>6 DEF vars, TypeOK, Filed, Loaded, KeyOf
  <2> QED BY <2>1, <2>2, <2>3, <2>4, <2>5, <2>6 DEF Next, Creater
<1> QED BY <1>1, <1>2, PTL DEF Spec

\* The type invariant by itself: no list keeps a creative that was deleted.
THEOREM TypeCorrect == Spec => []TypeOK
BY TreeInOrder, PTL

\* Every creative of a finished tree is found or reported as excluded, and
\* never both.
THEOREM AllAccountedFor == Spec => []FoundOrExcluded
<1>1. TypeOK /\ Filed => FoundOrExcluded
  <2> SUFFICES ASSUME TypeOK, Filed, state = "ready", NEW deep \in BOOLEAN, NEW imp \in Impressions
               PROVE  /\ Search(deep, imp) \cap Exclude(deep, imp) = {}
                      /\ Search(deep, imp) \cup Exclude(deep, imp) = Loaded
    BY DEF FoundOrExcluded
  <2> DEFINE k == KeyFor(imp)
             others == {c \in Loaded : KeyOf(c) # k}
  <2>1. /\ k \in Keys /\ todo = {}
        /\ supports[k] = {c \in Loaded : creatives[c].deeplink /\ KeyOf(c) = k}
        /\ notSupports[k] = {c \in Loaded : ~creatives[c].deeplink /\ KeyOf(c) = k}
        /\ supports[k] # {} => notSupports[k] # {}
    BY KeysForImpressions DEF Filed
  <2>2. UNION {supports[l] \cup notSupports[l] : l \in Keys \ {KeyFor(imp)}} = others
    <3> DEFINE U == UNION {supports[l] \cup notSupports[l] : l \in Keys \ {KeyFor(imp)}}
    <3>1. ASSUME NEW c \in U PROVE c \in others
      <4>1. PICK l \in Keys \ {k} : c \in supports[l] \cup notSupports[l]
        OBVIOUS
      <4> QED BY <4>1, <2>1 DEF Filed
    <3>2. ASSUME NEW c \in others PROVE c \in U
      <4>1. KeyOf(c) \in Keys \ {k}
        BY KeysOfCreatives
      <4>2. c \in supports[KeyOf(c)] \cup notSupports[KeyOf(c)]
        BY <2>1, <4>1 DEF Filed
      <4> QED BY <4>1, <4>2
    <3> HIDE DEF others
    <3> QED BY <3>1, <3>2
  <2>3. Exclude(deep, imp)
        = others \cup IF ~deep /\ notSupports[KeyFor(imp)] # {} THEN supports[KeyFor(imp)] ELSE {}
    BY <2>2 DEF Exclude
  <2>4. Search(deep, imp) = notSupports[k] \cup IF deep THEN supports[k] ELSE {}
    BY DEF Search
  <2> QED BY <2>1, <2>3, <2>4
<1> QED BY <1>1, TreeInOrder, PTL

\* A creative that suits an impression is found, whatever the snapshot holds,
\* unless the impression is a video without a size limit.
THEOREM SearchIsComplete == Spec => []NoneMissed
<1>1. TypeOK /\ Filed => NoneMissed
  <2> SUFFICES ASSUME TypeOK, Filed, state = "ready",
                      NEW deep \in BOOLEAN, NEW imp \in Impressions, NEW c \in Loaded,
                      imp.type # "unknown", imp.type = "video" => imp.limited,
                      CheckBySize(c, imp), creatives[c].deeplink => deep
               PROVE  c \in Search(deep, imp)
    BY DEF NoneMissed
  <2>1. KeyOf(c) = KeyFor(imp)
    <3>1. CASE imp.type = "banner"
      BY <3>1 DEF CheckBySize, KeyOf, KeyFor
    <3>2. CASE imp.type = "native"
      BY <3>2 DEF CheckBySize, KeyOf, KeyFor
    <3>3. CASE imp.type = "video"
      BY <3>3 DEF CheckBySize, KeyOf, KeyFor
    <3> QED BY <3>1, <3>2, <3>3 DEF Impressions
  <2>2. c \in supports[KeyFor(imp)] \/ (c \in notSupports[KeyFor(imp)] /\ ~creatives[c].deeplink)
    BY <2>1, KeysForImpressions DEF Filed, TypeOK
  <2>3. c \in supports[KeyFor(imp)] => creatives[c].deeplink
    BY KeysForImpressions DEF Filed
  <2> QED BY <2>2, <2>3 DEF Search
<1> QED BY <1>1, TreeInOrder, PTL
==============================================================================

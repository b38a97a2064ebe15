------------------------------ MODULE AdSelector ------------------------------
(***************************************************************************)
(* The tree in which a snapshot looks up the creatives for an impression   *)
(* (common/ad_optimize.cpp).  A load empties it, fetches the creatives and *)
(* adds them one after the other; after that it is only read.              *)
(*                                                                         *)
(* The tree has a level for the type of a creative, one for its size and   *)
(* one for deep links, where a node has two lists of creatives, each made  *)
(* when its first creative is added: an empty set stands for a list that   *)
(* does not exist.  The order of sizes compares the widths alone, so that  *)
(* two sizes of one width are the same key.  Reasons for which creatives   *)
(* are excluded (_err) are left out.                                       *)
(***************************************************************************)
EXTENDS Naturals

CONSTANTS Creatives,    \* what a load may fetch
          Lengths       \* widths and heights

Types == {"image", "feeds", "video", "unknown"}
Attributes == [type : Types, w : Lengths, h : Lengths, deeplink : BOOLEAN]
Keys == Types \X (Lengths \cup {0})

\* What an impression asks for: w and h are those of its banner or its video,
\* limited is video.is_limit_size.
Impressions == [type : {"banner", "native", "video", "unknown"},
                w : Lengths \cup {0}, h : Lengths \cup {0}, limited : BOOLEAN]

VARIABLES
    creatives,              \* AdData::all_creative: a partial function to attributes
    todo,                   \* those that Creater has not yet added
    supports, notSupports,  \* the two lists of creatives of each node
    state                   \* "clear", "adding", "ready", or "crashed"

vars == <<creatives, todo, supports, notSupports, state>>

Loaded == DOMAIN creatives

\* Seeded fault: feeds are filed under their width, but looked up without one.
KeyOfWithWidth(c) == <<creatives[c].type, creatives[c].w>>

\* The node a creative belongs to: feeds have no size.
KeyOf(c) ==
    <<creatives[c].type, IF creatives[c].type = "feeds" THEN 0 ELSE creatives[c].w>>

\* The node an impression looks into.
KeyFor(imp) ==
    <<[banner |-> "image", native |-> "feeds", video |-> "video", unknown |-> "unknown"][imp.type],
      IF imp.type \in {"banner", "video"} THEN imp.w ELSE 0>>

\* Seeded fault: the creatives are deleted, the tree is not.
ClearForgetsTree ==
    /\ creatives' = [c \in {} |-> {}]
    /\ todo' = {}
    /\ state' = "clear"
    /\ UNCHANGED <<supports, notSupports>>

Clear ==
    /\ creatives' = [c \in {} |-> {}]
    /\ todo' = {}
    /\ supports' = [k \in Keys |-> {}]
    /\ notSupports' = [k \in Keys |-> {}]
    /\ state' = "clear"

Init ==
    /\ creatives = [c \in {} |-> {}]
    /\ todo = {}
    /\ supports = [k \in Keys |-> {}]
    /\ notSupports = [k \in Keys |-> {}]
    /\ state = "clear"
------------------------------------------------------------------------------
(* Seeded faults: wrong variants of the actions below, each of which must   *)
(* break a property.                                                        *)

\* The list of creatives with a deep link is made first, and nothing is
\* written through the pointer to the other one.
AddSupportsAlone(c) ==
    /\ state = "adding" /\ c \in todo /\ creatives[c].deeplink
    /\ supports' = [supports EXCEPT ![KeyOf(c)] = @ \cup {c}]
    /\ todo' = todo \ {c}
    /\ state' = "adding"
    /\ UNCHANGED <<creatives, notSupports>>
------------------------------------------------------------------------------
\* AdData::Update fetches creatives, in an order that Redis chooses.
Fetch ==
    /\ state = "clear"
    /\ \E S \in SUBSET Creatives :
          /\ creatives' \in [S -> Attributes]
          /\ todo' = S
    /\ state' = "adding"
    /\ UNCHANGED <<supports, notSupports>>

AddNotSupports(c) ==
    /\ state = "adding" /\ c \in todo /\ ~creatives[c].deeplink
    /\ notSupports' = [notSupports EXCEPT ![KeyOf(c)] = @ \cup {c}]
    /\ todo' = todo \ {c}
    /\ UNCHANGED <<creatives, supports, state>>

\* The first creative with a deep link makes its list, and then writes _err
\* through the pointer to the other one, which may still be null.
AddSupports(c) ==
    /\ state = "adding" /\ c \in todo /\ creatives[c].deeplink
    /\ IF supports[KeyOf(c)] = {} /\ notSupports[KeyOf(c)] = {}
       THEN /\ state' = "crashed"
            /\ UNCHANGED <<todo, supports>>
       ELSE /\ supports' = [supports EXCEPT ![KeyOf(c)] = @ \cup {c}]
            /\ todo' = todo \ {c}
            /\ UNCHANGED state
    /\ UNCHANGED <<creatives, notSupports>>

Created ==
    /\ state = "adding" /\ todo = {}
    /\ state' = "ready"
    /\ UNCHANGED <<creatives, todo, supports, notSupports>>

Creater == Created \/ \E c \in Creatives : AddNotSupports(c) \/ AddSupports(c)

\* The next load of the same buffer begins.
Reload == state = "ready" /\ Clear

Next == Fetch \/ Creater \/ Reload

Spec == Init /\ [][Next]_vars
------------------------------------------------------------------------------
\* The creatives for an impression of a request that supports deep links or not.
Search(deep, imp) ==
    LET k == KeyFor(imp) IN notSupports[k] \cup IF deep THEN supports[k] ELSE {}

\* The creatives that Search reports as excluded: those of all other nodes, and
\* those with a deep link, where there is a list of creatives without one.
Exclude(deep, imp) ==
    LET k == KeyFor(imp) IN
    (UNION {supports[l] \cup notSupports[l] : l \in Keys \ {k}})
    \cup IF ~deep /\ notSupports[k] # {} THEN supports[k] ELSE {}

\* CreativeInfo::CheckBySize, what the lookup is to be faster than.
CheckBySize(c, imp) ==
    LET one == creatives[c]
        sameSize == one.w = imp.w /\ one.h = imp.h
    IN CASE imp.type = "banner" -> one.type = "image" /\ sameSize
         [] imp.type = "native" -> one.type = "feeds"
         [] imp.type = "video"  -> one.type = "video" /\ (imp.limited => sameSize)
         [] OTHER               -> TRUE

TypeOK ==
    /\ Loaded \subseteq Creatives
    /\ creatives \in [Loaded -> Attributes]
    /\ todo \subseteq Loaded
    /\ supports \in [Keys -> SUBSET Loaded]
    /\ notSupports \in [Keys -> SUBSET Loaded]
    /\ state \in {"clear", "adding", "ready", "crashed"}

\* Every creative of a finished tree is either found or reported as excluded,
\* never both and never neither, whatever the request: a node that has only
\* creatives with a deep link would keep silent about them.
FoundOrExcluded ==
    state = "ready" =>
        \A deep \in BOOLEAN, imp \in Impressions :
            /\ Search(deep, imp) \cap Exclude(deep, imp) = {}
            /\ Search(deep, imp) \cup Exclude(deep, imp) = Loaded

\* Of what suits an impression by type, size and deep link the tree misses
\* nothing, except for a video without a size limit: it is looked up by a width
\* it does not ask for, and misses creatives of every other width.
NoneMissed ==
    state = "ready" =>
        \A deep \in BOOLEAN, imp \in Impressions, c \in Loaded :
            /\ imp.type # "unknown" /\ (imp.type = "video" => imp.limited)
            /\ CheckBySize(c, imp)
            /\ creatives[c].deeplink => deep
            => c \in Search(deep, imp)

\* What is found fits: the comment on CheckBySize says that type and size are
\* checked, and nothing but the tree is left to check them.
FoundFits ==
    state = "ready" =>
        \A deep \in BOOLEAN, imp \in Impressions :
            imp.type # "unknown" => \A c \in Search(deep, imp) : CheckBySize(c, imp)
==============================================================================

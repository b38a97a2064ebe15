------------------------------ MODULE SelectAd ------------------------------
(***************************************************************************)
(* How a worker selects an advertisement for each impression of a request  *)
(* (common/bidbase.cpp, from SelectAd to SetBidRedisFlag, with struct      *)
(* Candidates of common/filter_assist.cpp), request after request.         *)
(*                                                                         *)
(* The candidates are kept three times: as policies, as policies per       *)
(* impression and as creatives per impression.  Every filter works on one  *)
(* of them and the functions of Candidates bring the next one into line.   *)
(* What a filter thinks of a policy or a creative (targets, pauses, exts,  *)
(* device ids, audiences, frequencies) is an arbitrary verdict; deals,     *)
(* floors and prices are modelled as they are.  rejected remembers every   *)
(* verdict: it is not a variable of the program.                           *)
(***************************************************************************)
EXTENDS Integers, FiniteSets, FiniteSetsExt, Functions

CONSTANTS Imps,          \* the impressions of a request: numbers, in order
          Creatives,     \* the creatives of the snapshot
          Policies,      \* the policies of the snapshot
          Policy,        \* Policy[c]: creative->policy
          Advcat,        \* Advcat[p]: policy->advcat
          DealPrice,     \* DealPrice[p]: policy->at_info, a price per deal; that
                         \* of None is the price of an entry without a deal
          Deeplinks,     \* the creatives that have a deeplink
          Prices,        \* bound: what a creative may cost in an open auction
          Requests,      \* bound: what the requests may ask for
          Gap,           \* the exchange: what a price must exceed the floor by
          PmpUnchecked,  \* the exchange: private deals ignore the floor
          None           \* no deal, no bid

\* Deals are numbers in the order of the maps that hold them.
ASSUME SelectAdAssumption ==
    /\ Imps \subseteq Nat
    /\ IsFiniteSet(Creatives) /\ Policy \in [Creatives -> Policies]
    /\ \A p \in Policies : Advcat[p] \in Nat
    /\ \A p \in Policies : \A d \in DOMAIN DealPrice[p] : d \in Nat \cup {None} /\ DealPrice[p][d] \in Nat
    /\ Deeplinks \subseteq Creatives
    /\ Prices \subseteq Nat /\ Gap \in Nat /\ PmpUnchecked \in BOOLEAN
    /\ \A r \in Requests :
        /\ r.at \in {"rtb", "pmp"} /\ r.deeplink \in BOOLEAN
        /\ r.bidfloor \in [Imps -> Nat] /\ DOMAIN r.fprice = Imps /\ DOMAIN r.dealprice = Imps
        /\ \A i \in Imps : \A a \in DOMAIN r.fprice[i] : r.fprice[i][a] \in Nat
        /\ \A i \in Imps : \A d \in DOMAIN r.dealprice[i] : d \in Nat /\ r.dealprice[i][d] \in Nat
        /\ r.at = "rtb" => \A i \in Imps : r.dealprice[i] = <<>>

VARIABLES
    stage,     \* what the worker does next
    request,   \* _com_request
    found,     \* found[i]: what AdSelector::Search returned for i
    policies, impPolicies, impCreatives, price,  \* the members of Candidates
    rejected,  \* the impressions and creatives a filter said no to
    bids,      \* _com_resp: for each impression a bid or None
    flagged,   \* the impressions whose flag Redis has accepted
    bRes       \* what ParseResponse is told

candidates == <<policies, impPolicies, impCreatives, price>>
vars == <<stage, request, found, candidates, rejected, bids, flagged, bRes>>

NoBids == [i \in Imps |-> None]

\* Seeded fault: the policies per impression are not cleared.
ClearForgetsImpPolicies ==
    policies' = {} /\ UNCHANGED impPolicies /\ impCreatives' = <<>> /\ price' = <<>>

\* Candidates::clear
Clear == policies' = {} /\ impPolicies' = <<>> /\ impCreatives' = <<>> /\ price' = <<>>

\* A request has been checked.
Init ==
    /\ stage = "FilterCreative"
    /\ request \in Requests
    /\ found = [i \in Imps |-> {}]
    /\ policies = {} /\ impPolicies = <<>> /\ impCreatives = <<>> /\ price = <<>>
    /\ rejected = {} /\ bids = NoBids /\ flagged = {} /\ bRes = FALSE
------------------------------------------------------------------------------
(* struct Candidates *)

\* A map without the impressions that have nothing left.
NonEmpty(m) == [i \in {j \in DOMAIN m : m[j] # {}} |-> m[i]]

ImpCreative2Policies(creatives) ==
    {Policy[c] : c \in UNION Range(creatives)}

\* Adds to the policies that are there: it counts on Candidates::clear.
MakeImpPolicies(byImp, creatives, ps) ==
    NonEmpty([i \in DOMAIN byImp \cup DOMAIN creatives |->
        (IF i \in DOMAIN byImp THEN byImp[i] ELSE {}) \cup
        (IF i \in DOMAIN creatives THEN ImpCreative2Policies(Restrict(creatives, {i})) \cap ps ELSE {})])

\* The impressions without policies go; none of the others is left empty.
AdjustImpCreativesByImpPolicies(creatives, byImp) ==
    [i \in DOMAIN creatives \cap DOMAIN byImp |-> {c \in creatives[i] : Policy[c] \in byImp[i]}]

AdjustImpCreativesByPolicies(creatives, ps) ==
    NonEmpty([i \in DOMAIN creatives |-> {c \in creatives[i] : Policy[c] \in ps}])

\* Go on with the next stage while something is left, or give up.
Continue(left, next) == stage' = IF left # {} THEN next ELSE "ParseResponse"

\* The worker dies, and the process with it.
Crash == stage' = "Crashed"
------------------------------------------------------------------------------
(* Prices *)

\* GetDealId: the first deal that both the policy and the impression name.
GetDealId(i, p) ==
    LET both == DOMAIN DealPrice[p] \cap DOMAIN request.dealprice[i]
    IN IF both = {} THEN None ELSE Min(both)

\* The floor of the policy's industry, of the deal, or of the impression.
GetBidfloor(i, deal, advcat) ==
    IF advcat \in DOMAIN request.fprice[i] THEN request.fprice[i][advcat]
    ELSE IF deal \in DOMAIN request.dealprice[i] THEN request.dealprice[i][deal]
    ELSE request.bidfloor[i]

\* PolicyInfo::FilterImp: an impression with deals needs one of the policy.
FilterImp(i, p) == request.dealprice[i] = <<>> \/ GetDealId(i, p) # None

\* The policy's price for the deal; an impression that names no deal of its own
\* is offered the price of an entry without one.
GetDealPrice(p, deal) == IF deal \in DOMAIN DealPrice[p] THEN DealPrice[p][deal] ELSE 0

\* GetPrice computes the price of a creative for the first impression that
\* asks for it; the others find it in the cache, whatever deal they name.
GetPrices(asking, open) ==
    [c \in DOMAIN price \cup UNION Range(asking) |->
        IF c \in DOMAIN price THEN price[c]
        ELSE IF request.at = "rtb" THEN open[c]
        ELSE LET first == Min({i \in DOMAIN asking : c \in asking[i]})
             IN GetDealPrice(Policy[c], GetDealId(first, Policy[c]))]

\* Seeded fault: a price just under the floor passes.
CheckPriceOffByOne(i, c, p) ==
    \/ request.at = "pmp" /\ PmpUnchecked
    \/ p - GetBidfloor(i, GetDealId(i, Policy[c]), Advcat[Policy[c]]) >= Gap - 1

CheckPrice(i, c, p) ==
    \/ request.at = "pmp" /\ PmpUnchecked
    \/ p - GetBidfloor(i, GetDealId(i, Policy[c]), Advcat[Policy[c]]) >= Gap
------------------------------------------------------------------------------
(* The choice among the creatives S of an impression *)

SelectByDeeplink(S) ==
    IF request.deeplink /\ S \cap Deeplinks # {} THEN S \cap Deeplinks ELSE S

\* Seeded fault: what a higher price beats is not cleared.
SelectByPriceKeepsAll(S) == IF Cardinality(S) = 1 THEN S ELSE {c \in S : price[c] # 0}

\* A price of 0 is never the highest.
SelectByPrice(S) ==
    IF Cardinality(S) = 1 THEN S
    ELSE {c \in S : price[c] # 0 /\ \A d \in S : price[d] <= price[c]}

\* What SelectByLast takes one of, at random.  SelectByAdvcat, in between,
\* keeps them all: nothing fills _device_count.advcats, so that the relevancy
\* of every industry is 0.
Best(S) == SelectByPrice(SelectByDeeplink(S))
------------------------------------------------------------------------------
(* SelectAd *)

\* Search may return any set of creatives for an impression; an impression it
\* finds nothing for stays in the map.
FilterCreative ==
    /\ stage = "FilterCreative"
    /\ found' \in [Imps -> SUBSET Creatives]
    /\ impCreatives' = found'
    /\ policies' = ImpCreative2Policies(impCreatives')
    /\ Continue(policies', "FilterPolicies")
    /\ UNCHANGED <<request, impPolicies, price, rejected, bids, flagged, bRes>>

\* The history of the verdicts: the creatives drop[i] are rejected for impression i.
Reject(drop) == rejected' = rejected \cup UNION {{i} \X drop[i] : i \in DOMAIN drop}

\* The creatives of the policies out[i] are rejected for impression i.
RejectPolicies(out) == Reject([i \in Imps |-> {c \in found[i] : Policy[c] \in out[i]}])

\* out: paused, aimed at something else, or refused by the exchange's ext.
FilterPolicies ==
    /\ stage = "FilterPolicies"
    /\ \E out \in SUBSET policies :
        /\ policies' = policies \ out
        /\ RejectPolicies([i \in Imps |-> out])
    /\ impPolicies' = MakeImpPolicies(impPolicies, impCreatives, policies')
    /\ Continue(policies', "FilterPoliciesByImp")
    /\ UNCHANGED <<request, found, impCreatives, price, bids, flagged, bRes>>

\* The creatives follow only if something is left.  needId: the policies that
\* do not do without a device id.
FilterPoliciesByImp ==
    /\ stage = "FilterPoliciesByImp"
    /\ \E needId \in [DOMAIN impPolicies -> SUBSET policies] :
        LET pass == [i \in DOMAIN impPolicies |->
                        {p \in impPolicies[i] : FilterImp(i, p) /\ p \notin needId[i]}]
        IN /\ impPolicies' = NonEmpty(pass)
           /\ RejectPolicies([i \in Imps |->
                  IF i \in DOMAIN pass THEN impPolicies[i] \ pass[i] ELSE {}])
    /\ Continue(DOMAIN impPolicies', "FilterCreativeByImp")
    /\ impCreatives' = IF impPolicies' = <<>> THEN impCreatives
                       ELSE AdjustImpCreativesByImpPolicies(impCreatives, impPolicies')
    /\ UNCHANGED <<request, found, policies, price, bids, flagged, bRes>>

\* The creatives left in m are kept, the others of impCreatives rejected.
KeepCreatives(m) ==
    /\ impCreatives' = NonEmpty(m)
    /\ Reject([i \in DOMAIN m |-> impCreatives[i] \ m[i]])

\* asking: the creatives that fit the impression in itself; open: what they
\* cost in an auction.
FilterCreativeByImp ==
    /\ stage = "FilterCreativeByImp"
    /\ \E asking \in [DOMAIN impCreatives -> SUBSET Creatives] :
        /\ \A i \in DOMAIN asking : asking[i] \subseteq impCreatives[i]
        /\ \E open \in [{c \in UNION Range(asking) : request.at = "rtb"} -> Prices] :
            price' = GetPrices(asking, open)
        /\ KeepCreatives([i \in DOMAIN asking |-> {c \in asking[i] : CheckPrice(i, c, price'[c])}])
    /\ policies' = IF impCreatives' = <<>> THEN policies ELSE ImpCreative2Policies(impCreatives')
    /\ Continue(DOMAIN impCreatives', "FilterByAudience")
    /\ UNCHANGED <<request, found, impPolicies, bids, flagged, bRes>>

\* out is empty when Redis does not know the device, and all of the policies
\* when it is on the global black list.
FilterByAudience ==
    /\ stage = "FilterByAudience"
    /\ \E out \in SUBSET policies :
        /\ policies' = policies \ out
        /\ RejectPolicies([i \in Imps |-> out])
    /\ Continue(policies', "FilterByFrequency")
    /\ impCreatives' = IF policies' = {} THEN impCreatives
                       ELSE AdjustImpCreativesByPolicies(impCreatives, policies')
    /\ UNCHANGED <<request, found, impPolicies, price, bids, flagged, bRes>>

\* A command that gets no reply at all leaves no type to look at.
NoReply ==
    /\ \/ stage = "FilterByAudience"
       \/ stage = "SetBidRedisFlag" /\ bids # NoBids
    /\ Crash
    /\ UNCHANGED <<request, found, candidates, rejected, bids, flagged, bRes>>

\* Seeded fault: one capped creative costs the impression all of them.
FilterByFrequencyDropsImp ==
    /\ stage = "FilterByFrequency"
    /\ \E capped \in SUBSET Creatives :
        /\ impCreatives' = Restrict(impCreatives, {i \in DOMAIN impCreatives : impCreatives[i] \cap capped = {}})
        /\ Reject([i \in DOMAIN impCreatives |-> impCreatives[i] \cap capped])
    /\ Continue(DOMAIN impCreatives', "FilterByCreativeBidding")
    /\ UNCHANGED <<request, found, policies, impPolicies, price, bids, flagged, bRes>>

\* capped: the creatives this device has seen often enough, by themselves or
\* with their policy or campaign.
FilterByFrequency ==
    /\ stage = "FilterByFrequency"
    /\ \E capped \in SUBSET Creatives :
        KeepCreatives([i \in DOMAIN impCreatives |-> impCreatives[i] \ capped])
    /\ Continue(DOMAIN impCreatives', "FilterByCreativeBidding")
    /\ UNCHANGED <<request, found, policies, impPolicies, price, bids, flagged, bRes>>

\* GetRandomIndex(0) divides by zero.
FilterByCreativeBidding ==
    /\ stage = "FilterByCreativeBidding"
    /\ \/ /\ \E i \in DOMAIN impCreatives : Best(impCreatives[i]) = {}
          /\ Crash
          /\ UNCHANGED impCreatives
       \/ \E pick \in [DOMAIN impCreatives -> Creatives] :
          /\ \A i \in DOMAIN pick : pick[i] \in Best(impCreatives[i])
          /\ impCreatives' = [i \in DOMAIN pick |-> {pick[i]}]
          /\ stage' = "SetResponse"
    /\ UNCHANGED <<request, found, policies, impPolicies, price, rejected, bids, flagged, bRes>>

SelectAd ==
    \/ FilterCreative \/ FilterPolicies \/ FilterPoliciesByImp \/ FilterCreativeByImp
    \/ FilterByAudience \/ FilterByFrequency \/ FilterByCreativeBidding
------------------------------------------------------------------------------
(* The response *)

Bid(i, c) ==
    [creative |-> c, dealid |-> GetDealId(i, Policy[c]), price |-> price[c]]

\* good: the impressions whose bid passes COM_BIDOBJECT::Check.  The result is
\* true whatever it is.
SetResponse ==
    /\ stage = "SetResponse"
    /\ \E good \in SUBSET DOMAIN impCreatives :
        bids' = [i \in Imps |-> IF i \in good THEN Bid(i, CHOOSE c \in impCreatives[i] : TRUE)
                               ELSE None]
    /\ stage' = "SetBidRedisFlag"
    /\ UNCHANGED <<request, found, candidates, rejected, flagged, bRes>>

\* Seeded fault: an error leaves the bids where they are.
SetBidRedisFlagKeepsBids ==
    LET pending == {i \in Imps \ flagged : bids[i] # None}
    IN /\ stage = "SetBidRedisFlag"
       /\ \/ pending = {} /\ stage' = "ParseResponse" /\ bRes' = TRUE /\ UNCHANGED <<bids, flagged>>
          \/ pending # {} /\ flagged' = flagged \cup {Min(pending)} /\ UNCHANGED <<stage, bids, bRes>>
          \/ pending # {} /\ stage' = "ParseResponse" /\ UNCHANGED <<bids, flagged, bRes>>
       /\ UNCHANGED <<request, found, candidates, rejected>>

\* One setex for each bid in turn, with one retry after a reconnect; an error
\* takes the bids back, not the flags that are set.
SetBidRedisFlag ==
    LET pending == {i \in Imps \ flagged : bids[i] # None}
    IN /\ stage = "SetBidRedisFlag"
       /\ \/ pending = {} /\ stage' = "ParseResponse" /\ bRes' = TRUE /\ UNCHANGED <<bids, flagged>>
          \/ pending # {} /\ flagged' = flagged \cup {Min(pending)} /\ UNCHANGED <<stage, bids, bRes>>
          \/ pending # {} /\ bids' = NoBids /\ stage' = "ParseResponse" /\ UNCHANGED <<flagged, bRes>>
       /\ UNCHANGED <<request, found, candidates, rejected>>

\* The answer is sent, everything is reset and the next request checked.
NextRequest ==
    /\ stage = "ParseResponse"
    /\ stage' = "FilterCreative"
    /\ request' \in Requests
    /\ Clear
    /\ found' = [i \in Imps |-> {}]
    /\ rejected' = {} /\ bids' = NoBids /\ flagged' = {} /\ bRes' = FALSE

Next == SelectAd \/ NoReply \/ SetResponse \/ SetBidRedisFlag \/ NextRequest

Spec == Init /\ [][Next]_vars
------------------------------------------------------------------------------
(* Properties *)

BidOf == [creative : Creatives, dealid : Nat \cup {None}, price : Nat]

\* Every variable keeps its type.
TypeOK ==
    /\ stage \in {"FilterCreative", "FilterPolicies", "FilterPoliciesByImp", "FilterCreativeByImp",
                  "FilterByAudience", "FilterByFrequency", "FilterByCreativeBidding",
                  "SetResponse", "SetBidRedisFlag", "ParseResponse", "Crashed"}
    /\ request \in Requests
    /\ found \in [Imps -> SUBSET Creatives]
    /\ policies \subseteq Policies
    /\ DOMAIN impPolicies \subseteq Imps /\ \A i \in DOMAIN impPolicies : impPolicies[i] \subseteq Policies
    /\ DOMAIN impCreatives \subseteq Imps /\ \A i \in DOMAIN impCreatives : impCreatives[i] \subseteq Creatives
    /\ DOMAIN price \subseteq Creatives /\ \A c \in DOMAIN price : price[c] \in Nat
    /\ rejected \subseteq Imps \X Creatives
    /\ \A i \in Imps : bids[i] \in BidOf \cup {None}
    /\ flagged \subseteq Imps
    /\ bRes \in BOOLEAN

\* What was found for an impression and that no filter has said no to.
Fit(i) == {c \in found[i] : <<i, c>> \notin rejected}

PoliciesOf(S) == {Policy[c] : c \in S}

\* Whichever of the three views the next stage reads, it holds exactly what
\* was found and not rejected by any stage before it: the filters and the
\* Adjust functions lose nothing, and bring nothing back.
CandidatesAgree ==
    LET fit == [i \in Imps |-> Fit(i)]
    IN /\ stage \in {"FilterPolicies", "FilterByAudience"} =>
            policies = PoliciesOf(UNION Range(fit))
       /\ stage = "FilterPoliciesByImp" =>
            impPolicies = NonEmpty([i \in Imps |-> PoliciesOf(fit[i])])
       /\ stage \in {"FilterCreativeByImp", "FilterByAudience", "FilterByFrequency",
                     "FilterByCreativeBidding"} => impCreatives = NonEmpty(fit)

\* The worker gives a request up before the bidding only when every creative
\* that was found for any of its impressions has been rejected.
GivesUpOnlyWhenNothingFits ==
    [][stage' = "ParseResponse" /\ stage # "SetBidRedisFlag" => \A i \in Imps : Fit(i)' = {}]_vars

\* A bid is for a creative that passed every stage, and clears the floor that
\* holds for it; when the impression names private deals the bid names one of
\* them, and one the policy has a part in.
BidsAreFit ==
    \A i \in {j \in Imps : bids[j] # None} :
        LET p == Policy[bids[i].creative]
        IN /\ bids[i].creative \in Fit(i)
           /\ request.dealprice[i] # <<>> =>
                bids[i].dealid \in DOMAIN request.dealprice[i] \cap DOMAIN DealPrice[p]
           /\ request.at = "rtb" \/ ~PmpUnchecked =>
                bids[i].price >= GetBidfloor(i, bids[i].dealid, Advcat[p]) + Gap

\* Nobody who was still in the running when the bid was chosen offers more,
\* unless the exchange wants a deeplink and only the chosen one has it.
BestPriceWins ==
    \A i \in {j \in Imps : bids[j] # None} :
        \A d \in Fit(i) :
            \/ price[d] <= bids[i].price
            \/ request.deeplink /\ d \notin Deeplinks /\ bids[i].creative \in Deeplinks

\* No bid is left in the response whose flag Redis has not accepted, however
\* the commands for the other bids went.
AnsweredBidsAreFlagged ==
    stage = "ParseResponse" => {i \in Imps : bids[i] # None} \subseteq flagged

\* The comment of FilterByCreativeBidding: it makes sure that every impression
\* has its chosen creative, and deletes an impression that has none.
EveryImpressionGetsOne ==
    [][stage = "FilterByCreativeBidding" =>
        /\ stage' # "Crashed"
        /\ \A i \in DOMAIN impCreatives' : Cardinality(impCreatives'[i]) = 1]_vars

\* The comment of at_info: a price per deal.  A bid that names a deal has the
\* price the policy has for it.
DealsAtTheirPrice ==
    \A i \in {j \in Imps : bids[j] # None} :
        request.at = "pmp" /\ bids[i].dealid # None =>
            bids[i].price = DealPrice[Policy[bids[i].creative]][bids[i].dealid]
==============================================================================

---------------------------- MODULE SelectAdProofs ----------------------------
(***************************************************************************)
(* The selection, for any snapshot, any requests and any verdicts: the     *)
(* three views of the candidates agree, and a bid that is answered is fit, *)
(* clears its floor, is the best that was left, and is flagged.            *)
(***************************************************************************)
EXTENDS SelectAd, FiniteSetTheorems, WellFoundedInduction, TLAPS

\* The stages that read the creatives after the policies were matched with the
\* impressions, and those after the prices were checked.
PricedStages == {"FilterByAudience", "FilterByFrequency", "FilterByCreativeBidding", "SetResponse"}
MatchedStages == PricedStages \cup {"FilterCreativeByImp"}
BeforeTheBids == MatchedStages \cup {"FilterCreative", "FilterPolicies", "FilterPoliciesByImp"}

FitPolicies(i) == PoliciesOf(Fit(i))

\* What the views of CandidatesAgree hold before their stage: nothing of the
\* request before, then all that was found; policies are rejected as a whole.
FreshInv ==
    /\ stage \in {"FilterCreative", "FilterPolicies"} => rejected = {} /\ impPolicies = <<>>
    /\ stage \in {"FilterPolicies", "FilterPoliciesByImp"} => impCreatives = found
    /\ stage = "FilterPoliciesByImp" =>
        \A i \in Imps : \A c \in found[i] : c \in Fit(i) <=> Policy[c] \in policies

\* Every stage tests what is left once and for all.
FitInv ==
    /\ stage \in MatchedStages => \A i \in Imps : \A c \in Fit(i) : FilterImp(i, Policy[c])
    /\ stage \in PricedStages =>
        \A i \in Imps : \A c \in Fit(i) : c \in DOMAIN price /\ CheckPrice(i, c, price[c])
    /\ stage = "SetResponse" =>
        \A i \in DOMAIN impCreatives :
            i \in Imps /\ impCreatives[i] # {} /\ impCreatives[i] \subseteq Best(Fit(i))

BidsInv ==
    /\ stage \in BeforeTheBids => bids = NoBids
    /\ BidsAreFit /\ BestPriceWins /\ AnsweredBidsAreFlagged

SelectInv == TypeOK /\ FreshInv /\ CandidatesAgree /\ FitInv
-------------------------------------------------------------------------------
(* Deals, floors and prices. *)

LEMMA HasMin ==
    ASSUME NEW S, S \subseteq Nat, S # {}
    PROVE  Min(S) \in S
<1>1. \E z \in S : \A y \in S : ~(<<y, z>> \in OpToRel(<, Nat))
  BY WFMin, NatLessThanWellFounded
<1>2. PICK z \in S : \A y \in S : ~(y < z)
  BY <1>1 DEF OpToRel
<1>3. \A y \in S : z <= y
  BY <1>2
<1>. QED BY <1>3 DEF Min

LEMMA DealOf ==
    ASSUME request \in Requests, NEW i \in Imps, NEW p \in Policies
    PROVE  \/ GetDealId(i, p) = None
           \/ GetDealId(i, p) \in DOMAIN DealPrice[p] \cap DOMAIN request.dealprice[i]
<1>. DEFINE both == DOMAIN DealPrice[p] \cap DOMAIN request.dealprice[i]
<1>1. both \subseteq Nat
  BY SelectAdAssumption
<1>2. both # {} => Min(both) \in both
  BY <1>1, HasMin
<1>. QED BY <1>2 DEF GetDealId

LEMMA DealIsNat ==
    ASSUME request \in Requests, NEW i \in Imps, NEW p \in Policies
    PROVE  GetDealId(i, p) \in Nat \cup {None}
BY DealOf, SelectAdAssumption

LEMMA DealPriceIsNat == ASSUME NEW d, NEW p \in Policies PROVE GetDealPrice(p, d) \in Nat
BY SelectAdAssumption DEF GetDealPrice

LEMMA FloorIsNat ==
    ASSUME request \in Requests, NEW i \in Imps, NEW d, NEW a
    PROVE  GetBidfloor(i, d, a) \in Nat
BY SelectAdAssumption DEF GetBidfloor

LEMMA PricesType ==
    ASSUME TypeOK, NEW asking, \A i \in DOMAIN asking : asking[i] \subseteq Creatives,
           NEW open \in [{c \in UNION Range(asking) : request.at = "rtb"} -> Prices]
    PROVE  /\ DOMAIN GetPrices(asking, open) = DOMAIN price \cup UNION Range(asking)
           /\ \A c \in DOMAIN GetPrices(asking, open) : GetPrices(asking, open)[c] \in Nat
           /\ UNION Range(asking) \subseteq Creatives
<1>0. UNION Range(asking) \subseteq Creatives
  BY DEF Range
<1>1. DOMAIN GetPrices(asking, open) = DOMAIN price \cup UNION Range(asking)
  BY DEF GetPrices
<1>2. ASSUME NEW c \in DOMAIN GetPrices(asking, open) PROVE GetPrices(asking, open)[c] \in Nat
  <2>1. CASE c \in DOMAIN price
    BY <1>1, <2>1 DEF GetPrices, TypeOK
  <2>2. CASE c \notin DOMAIN price /\ request.at = "rtb"
    <3>1. open[c] \in Prices
      BY <1>1, <2>2
    <3>. QED BY <1>1, <2>2, <3>1, SelectAdAssumption DEF GetPrices
  <2>3. CASE c \notin DOMAIN price /\ request.at # "rtb"
    <3>1. Policy[c] \in Policies
      BY <1>0, <1>1, <2>3, SelectAdAssumption
    <3>2. PICK i : GetPrices(asking, open)[c] = GetDealPrice(Policy[c], GetDealId(i, Policy[c]))
      BY <1>1, <2>3 DEF GetPrices
    <3>. QED BY <3>1, <3>2, DealPriceIsNat
  <2>. QED BY <2>1, <2>2, <2>3
<1>. QED BY <1>0, <1>1, <1>2
-------------------------------------------------------------------------------
(* The views. *)

LEMMA InUnion ==
    ASSUME NEW f
    PROVE  \A c : c \in UNION Range(f) <=> \E i \in DOMAIN f : c \in f[i]
BY DEF Range

LEMMA InPolicies ==
    ASSUME NEW f
    PROVE  /\ ImpCreative2Policies(f) = PoliciesOf(UNION Range(f))
           /\ \A p : p \in PoliciesOf(UNION Range(f)) <=> \E i \in DOMAIN f : \E c \in f[i] : p = Policy[c]
<1>1. ImpCreative2Policies(f) = PoliciesOf(UNION Range(f))
  BY DEF ImpCreative2Policies, PoliciesOf
<1>. QED BY <1>1, InUnion DEF PoliciesOf

LEMMA NonEmptyIs ==
    ASSUME NEW m
    PROVE  /\ \A i : i \in DOMAIN NonEmpty(m) <=> i \in DOMAIN m /\ m[i] # {}
           /\ \A i \in DOMAIN NonEmpty(m) : NonEmpty(m)[i] = m[i]
BY DEF NonEmpty

LEMMA NonEmptySame ==
    ASSUME NEW m, NEW n,
           \A i : (i \in DOMAIN m /\ m[i] # {}) <=> (i \in DOMAIN n /\ n[i] # {}),
           \A i \in DOMAIN m : m[i] # {} => n[i] = m[i]
    PROVE  NonEmpty(m) = NonEmpty(n)
<1>1. {j \in DOMAIN m : m[j] # {}} = {j \in DOMAIN n : n[j] # {}}
  OBVIOUS
<1>2. \A i \in {j \in DOMAIN m : m[j] # {}} : m[i] = n[i]
  OBVIOUS
<1>. QED BY <1>1, <1>2 DEF NonEmpty

\* What is rejected goes out of what fits, nothing else does.
LEMMA FitAfter ==
    ASSUME NEW drop, Reject(drop), UNCHANGED found
    PROVE  /\ \A i \in DOMAIN drop : Fit(i)' = Fit(i) \ drop[i]
           /\ \A i : i \notin DOMAIN drop => Fit(i)' = Fit(i)
<1>1. \A i, c : <<i, c>> \in UNION {{j} \X drop[j] : j \in DOMAIN drop} <=> i \in DOMAIN drop /\ c \in drop[i]
  OBVIOUS
<1>2. \A i, c : <<i, c>> \in rejected' <=> <<i, c>> \in rejected \/ (i \in DOMAIN drop /\ c \in drop[i])
  BY <1>1 DEF Reject
<1>. QED BY <1>2 DEF Fit

LEMMA FitAfterPolicies ==
    ASSUME NEW out, RejectPolicies(out), UNCHANGED found
    PROVE  \A i \in Imps : Fit(i)' = {c \in Fit(i) : Policy[c] \notin out[i]}
<1>. DEFINE drop == [i \in Imps |-> {c \in found[i] : Policy[c] \in out[i]}]
<1>1. \A i \in Imps : Fit(i)' = Fit(i) \ drop[i]
  <2>. HIDE DEF drop
  <2>1. Reject(drop) /\ DOMAIN drop = Imps
    BY DEF RejectPolicies, drop
  <2>. QED BY <2>1, FitAfter
<1>2. \A i \in Imps : Fit(i) \ drop[i] = {c \in Fit(i) : Policy[c] \notin out[i]}
  BY DEF Fit
<1>. QED BY <1>1, <1>2

LEMMA RejectedType ==
    ASSUME TypeOK, NEW drop, Reject(drop), DOMAIN drop \subseteq Imps, \A i \in DOMAIN drop : drop[i] \subseteq Creatives
    PROVE  rejected' \subseteq Imps \X Creatives
BY DEF Reject, TypeOK

LEMMA RejectPoliciesType ==
    ASSUME TypeOK, NEW out, RejectPolicies(out)
    PROVE  rejected' \subseteq Imps \X Creatives
<1>. DEFINE drop == [i \in Imps |-> {c \in found[i] : Policy[c] \in out[i]}]
<1>1. Reject(drop) /\ DOMAIN drop = Imps /\ \A i \in Imps : drop[i] \subseteq Creatives
  BY DEF RejectPolicies, TypeOK
<1>. HIDE DEF drop
<1>. QED BY <1>1, RejectedType

LEMMA FitType == ASSUME TypeOK PROVE \A i \in Imps : Fit(i) \subseteq Creatives
BY DEF TypeOK, Fit
-------------------------------------------------------------------------------
(* The stages, one by one: the views stay in step, and the worker gives up  *)
(* only when nothing fits.                                                  *)

FitOf == [i \in Imps |-> Fit(i)]
NothingFits == \A i \in Imps : Fit(i) = {}

LEMMA FilterCreativeStep ==
    ASSUME SelectInv, FilterCreative
    PROVE  SelectInv' /\ (stage' = "ParseResponse" => NothingFits')
<1>1. /\ found' \in [Imps -> SUBSET Creatives] /\ impCreatives' = found'
      /\ policies' = ImpCreative2Policies(found')
      /\ stage' = IF policies' # {} THEN "FilterPolicies" ELSE "ParseResponse"
      /\ rejected = {} /\ rejected' = {} /\ impPolicies' = <<>>
      /\ UNCHANGED <<request, impPolicies, price, rejected, bids, flagged, bRes>>
  BY DEF FilterCreative, Continue, SelectInv, FreshInv
<1>2. FitOf' = found' /\ \A i \in Imps : Fit(i)' = found'[i]
  BY <1>1 DEF FitOf, Fit
<1>3. /\ policies' = PoliciesOf(UNION Range(found'))
      /\ \A p : p \in policies' <=> \E i \in Imps : \E c \in found'[i] : p = Policy[c]
  BY <1>1, InPolicies
<1>4. TypeOK'
  <2>1. policies' \subseteq Policies
    <3>1. \A i \in Imps : found'[i] \subseteq Creatives
      BY <1>1
    <3>2. \A c \in Creatives : Policy[c] \in Policies
      BY SelectAdAssumption
    <3>. QED BY <1>3, <3>1, <3>2
  <2>. QED BY <1>1, <2>1 DEF SelectInv, TypeOK
<1>5. FreshInv'
  BY <1>1 DEF FreshInv
<1>6. CandidatesAgree'
  BY <1>1, <1>2, <1>3 DEF CandidatesAgree, FitOf
<1>7. FitInv'
  BY <1>1 DEF FitInv, MatchedStages, PricedStages
<1>8. stage' = "ParseResponse" => NothingFits'
  BY <1>1, <1>2, <1>3 DEF NothingFits
<1>. QED BY <1>4, <1>5, <1>6, <1>7, <1>8 DEF SelectInv

LEMMA FilterPoliciesStep ==
    ASSUME SelectInv, FilterPolicies
    PROVE  SelectInv' /\ (stage' = "ParseResponse" => NothingFits')
<1>1. PICK out \in SUBSET policies : policies' = policies \ out /\ RejectPolicies([i \in Imps |-> out])
  BY DEF FilterPolicies
<1>2. /\ stage' = (IF policies' # {} THEN "FilterPoliciesByImp" ELSE "ParseResponse")
      /\ impCreatives = found /\ rejected = {} /\ impPolicies = <<>>
      /\ impPolicies' = MakeImpPolicies(<<>>, found, policies')
      /\ UNCHANGED <<request, found, impCreatives, price, bids, flagged, bRes>>
      /\ TypeOK /\ policies = PoliciesOf(UNION Range(FitOf))
  BY DEF FilterPolicies, Continue, SelectInv, FreshInv, CandidatesAgree, FitOf
<1>3. \A i \in Imps : Fit(i) = found[i] /\ Fit(i)' = {c \in found[i] : Policy[c] \notin out}
  <2>1. \A i \in Imps : Fit(i) = found[i]
    BY <1>2 DEF Fit
  <2>2. \A i \in Imps : Fit(i)' = {c \in Fit(i) : Policy[c] \notin [j \in Imps |-> out][i]}
    BY <1>1, <1>2, FitAfterPolicies
  <2>. QED BY <2>1, <2>2
<1>4. \A p : p \in policies <=> \E i \in Imps : \E c \in found[i] : p = Policy[c]
  <2>1. FitOf = [i \in Imps |-> found[i]]
    BY <1>3 DEF FitOf
  <2>2. DOMAIN FitOf = Imps /\ \A i \in Imps : FitOf[i] = found[i]
    BY <2>1
  <2>. HIDE DEF FitOf
  <2>. QED BY <1>2, <2>2, InPolicies
<1>5. \A i \in Imps : \A c \in found[i] : c \in Fit(i)' <=> Policy[c] \in policies'
  BY <1>1, <1>3, <1>4
<1>6. impPolicies' = NonEmpty([i \in Imps |-> FitPolicies(i)'])
  <2>1. \A i \in Imps : ImpCreative2Policies(Restrict(found, {i})) = PoliciesOf(found[i])
    BY DEF Restrict, Range, ImpCreative2Policies, PoliciesOf
  <2>2. DOMAIN found = Imps
    BY <1>2 DEF TypeOK
  <2>3. DOMAIN <<>> = {}
    OBVIOUS
  <2>4. MakeImpPolicies(<<>>, found, policies') = NonEmpty([i \in Imps |-> PoliciesOf(found[i]) \cap policies'])
    BY <2>1, <2>2, <2>3 DEF MakeImpPolicies
  <2>5. \A i \in Imps : PoliciesOf(found[i]) \cap policies' = PoliciesOf(Fit(i)')
    BY <1>3, <1>5 DEF PoliciesOf
  <2>. QED BY <1>2, <2>4, <2>5 DEF FitPolicies
<1>7. TypeOK'
  <2>1. policies' \subseteq Policies
    BY <1>1, <1>2 DEF TypeOK
  <2>2. \A i \in Imps : FitPolicies(i)' \subseteq Policies
    BY <1>2, <1>3, SelectAdAssumption DEF FitPolicies, PoliciesOf, TypeOK
  <2>3. DOMAIN impPolicies' \subseteq Imps /\ \A i \in DOMAIN impPolicies' : impPolicies'[i] \subseteq Policies
    BY <1>6, <2>2 DEF NonEmpty
  <2>4. rejected' \subseteq Imps \X Creatives
    BY <1>1, <1>2, RejectPoliciesType
  <2>. QED BY <1>2, <2>1, <2>3, <2>4 DEF TypeOK
<1>8. FreshInv'
  BY <1>2, <1>5 DEF FreshInv
<1>9. CandidatesAgree'
  BY <1>2, <1>6 DEF CandidatesAgree, FitPolicies
<1>10. FitInv'
  BY <1>2 DEF FitInv, MatchedStages, PricedStages
<1>11. stage' = "ParseResponse" => NothingFits'
  BY <1>2, <1>3, <1>5 DEF NothingFits
<1>. QED BY <1>7, <1>8, <1>9, <1>10, <1>11 DEF SelectInv

\* What depends on the request and the prices alone.
LEMMA SameRequest ==
    ASSUME UNCHANGED request
    PROVE  /\ \A i, p : FilterImp(i, p)' <=> FilterImp(i, p)
           /\ \A i, p : GetDealId(i, p)' = GetDealId(i, p)
           /\ \A i, c, x : CheckPrice(i, c, x)' <=> CheckPrice(i, c, x)
           /\ \A i, d, a : GetBidfloor(i, d, a)' = GetBidfloor(i, d, a)
<1>1. \A i, p : GetDealId(i, p)' = GetDealId(i, p)
  BY DEF GetDealId
<1>2. \A i, d, a : GetBidfloor(i, d, a)' = GetBidfloor(i, d, a)
  BY DEF GetBidfloor
<1>3. \A i, p : FilterImp(i, p)' <=> FilterImp(i, p)
  BY <1>1 DEF FilterImp
<1>4. \A i, c, x : CheckPrice(i, c, x)' <=> CheckPrice(i, c, x)
  BY <1>1, <1>2 DEF CheckPrice
<1>. QED BY <1>1, <1>2, <1>3, <1>4

LEMMA FilterPoliciesByImpStep ==
    ASSUME SelectInv, FilterPoliciesByImp
    PROVE  SelectInv' /\ (stage' = "ParseResponse" => NothingFits')
<1>1. PICK needId \in [DOMAIN impPolicies -> SUBSET policies] :
        LET pass == [i \in DOMAIN impPolicies |->
                        {p \in impPolicies[i] : FilterImp(i, p) /\ p \notin needId[i]}]
        IN /\ impPolicies' = NonEmpty(pass)
           /\ RejectPolicies([i \in Imps |-> IF i \in DOMAIN pass THEN impPolicies[i] \ pass[i] ELSE {}])
  BY DEF FilterPoliciesByImp
<1>2. PICK pass : pass = [i \in DOMAIN impPolicies |->
                            {p \in impPolicies[i] : FilterImp(i, p) /\ p \notin needId[i]}]
  OBVIOUS
<1>3. PICK out : out = [i \in Imps |-> IF i \in DOMAIN pass THEN impPolicies[i] \ pass[i] ELSE {}]
  OBVIOUS
<1>4. impPolicies' = NonEmpty(pass) /\ RejectPolicies(out)
  BY <1>1, <1>2, <1>3
<1>5. /\ stage' = (IF DOMAIN impPolicies' # {} THEN "FilterCreativeByImp" ELSE "ParseResponse")
      /\ impCreatives' = (IF impPolicies' = <<>> THEN impCreatives
                          ELSE AdjustImpCreativesByImpPolicies(impCreatives, impPolicies'))
      /\ UNCHANGED <<request, found, policies, price, bids, flagged, bRes>>
      /\ TypeOK /\ impCreatives = found
      /\ \A i \in Imps : \A c \in found[i] : c \in Fit(i) <=> Policy[c] \in policies
      /\ impPolicies = NonEmpty([i \in Imps |-> FitPolicies(i)])
  BY DEF FilterPoliciesByImp, Continue, SelectInv, FreshInv, CandidatesAgree, FitPolicies
<1>6. /\ \A i : i \in DOMAIN impPolicies <=> i \in Imps /\ FitPolicies(i) # {}
      /\ \A i \in DOMAIN impPolicies : impPolicies[i] = FitPolicies(i)
  BY <1>5, NonEmptyIs
<1>7. \A i \in Imps : \A p : p \in FitPolicies(i) <=> \E c \in Fit(i) : p = Policy[c]
  BY DEF FitPolicies, PoliciesOf
<1>8. \A i \in Imps : Fit(i)' = {c \in Fit(i) : Policy[c] \notin out[i]}
  BY <1>4, <1>5, FitAfterPolicies
<1>9. \A i \in Imps : \A c \in Fit(i) : c \in Fit(i)' <=> Policy[c] \in pass[i]
  <2>1. ASSUME NEW i \in Imps, NEW c \in Fit(i) PROVE c \in Fit(i)' <=> Policy[c] \in pass[i]
    <3>1. i \in DOMAIN impPolicies /\ Policy[c] \in impPolicies[i]
      BY <1>6, <1>7
    <3>2. i \in DOMAIN pass
      BY <1>2, <3>1
    <3>3. out[i] = impPolicies[i] \ pass[i]
      BY <1>3, <3>2
    <3>. QED BY <1>8, <3>1, <3>3
  <2>. QED BY <2>1
<1>10. \A i \in Imps : \A c \in found[i] : c \in Fit(i)' <=> i \in DOMAIN pass /\ Policy[c] \in pass[i]
  <2>1. \A i \in Imps : Fit(i)' \subseteq Fit(i) /\ Fit(i) \subseteq found[i]
    BY <1>8 DEF Fit
  <2>2. ASSUME NEW i \in Imps, NEW c \in found[i], i \in DOMAIN pass, Policy[c] \in pass[i] PROVE c \in Fit(i)
    <3>1. Policy[c] \in FitPolicies(i)
      BY <1>2, <1>6, <2>2
    <3>2. PICK d \in Fit(i) : Policy[d] = Policy[c]
      BY <1>7, <3>1
    <3>. QED BY <1>5, <2>1, <3>2
  <2>3. ASSUME NEW i \in Imps, NEW c \in Fit(i) PROVE i \in DOMAIN pass
    BY <1>2, <1>6, <1>7
  <2>. QED BY <1>9, <2>1, <2>2, <2>3
<1>11. \A i : i \in DOMAIN pass /\ pass[i] # {} <=> i \in Imps /\ Fit(i)' # {}
  <2>1. ASSUME NEW i \in DOMAIN pass, NEW p \in pass[i] PROVE i \in Imps /\ Fit(i)' # {}
    <3>1. i \in Imps /\ p \in FitPolicies(i)
      BY <1>2, <1>6
    <3>2. PICK d \in Fit(i) : p = Policy[d]
      BY <1>7, <3>1
    <3>. QED BY <1>9, <3>1, <3>2
  <2>2. ASSUME NEW i \in Imps, NEW c \in Fit(i)' PROVE i \in DOMAIN pass /\ pass[i] # {}
    <3>1. c \in found[i]
      BY <1>5 DEF Fit
    <3>. QED BY <1>10, <3>1
  <2>. QED BY <2>1, <2>2
<1>12. \A i : i \in DOMAIN impPolicies' <=> i \in Imps /\ Fit(i)' # {}
  BY <1>4, <1>11, NonEmptyIs
<1>13. \A i \in DOMAIN impPolicies' : impPolicies'[i] = pass[i]
  BY <1>4, NonEmptyIs
<1>14. AdjustImpCreativesByImpPolicies(found, impPolicies') = NonEmpty([i \in Imps |-> Fit(i)'])
  <2>1. DOMAIN found \cap DOMAIN impPolicies' = {i \in Imps : Fit(i)' # {}}
    BY <1>5, <1>12 DEF TypeOK
  <2>2. \A i \in Imps : Fit(i)' \subseteq found[i]
    BY <1>5 DEF Fit
  <2>3. \A i \in {j \in Imps : Fit(j)' # {}} : {c \in found[i] : Policy[c] \in impPolicies'[i]} = Fit(i)'
    BY <1>10, <1>11, <1>12, <1>13, <2>2
  <2>. QED BY <2>1, <2>3 DEF AdjustImpCreativesByImpPolicies, NonEmpty
<1>15. stage' = "FilterCreativeByImp" => impCreatives' = NonEmpty([i \in Imps |-> Fit(i)'])
  <2>1. DOMAIN <<>> = {}
    OBVIOUS
  <2>. QED BY <1>5, <1>14, <2>1
<1>16. TypeOK'
  <2>1. DOMAIN impCreatives' \subseteq Imps /\ \A i \in DOMAIN impCreatives' : impCreatives'[i] \subseteq Creatives
    BY <1>5 DEF TypeOK, AdjustImpCreativesByImpPolicies
  <2>2. DOMAIN impPolicies' \subseteq Imps /\ \A i \in DOMAIN impPolicies' : impPolicies'[i] \subseteq Policies
    <3>1. \A i \in DOMAIN pass : i \in Imps /\ pass[i] \subseteq Policies
      BY <1>2, <1>5 DEF TypeOK
    <3>. QED BY <1>4, <3>1, NonEmptyIs
  <2>3. rejected' \subseteq Imps \X Creatives
    BY <1>4, <1>5, RejectPoliciesType
  <2>. QED BY <1>5, <2>1, <2>2, <2>3 DEF TypeOK
<1>17. FreshInv'
  BY <1>5 DEF FreshInv
<1>18. CandidatesAgree'
  BY <1>5, <1>15 DEF CandidatesAgree
<1>19. FitInv'
  <2>1. \A i \in Imps : \A c \in Fit(i)' : FilterImp(i, Policy[c])'
    <3>1. ASSUME NEW i \in Imps, NEW c \in Fit(i)' PROVE FilterImp(i, Policy[c])
      <4>1. c \in found[i]
        BY <1>5 DEF Fit
      <4>2. i \in DOMAIN pass /\ Policy[c] \in pass[i]
        BY <1>10, <4>1
      <4>. QED BY <1>2, <4>2
    <3>. QED BY <1>5, <3>1, SameRequest
  <2>. QED BY <1>5, <2>1 DEF FitInv, MatchedStages, PricedStages
<1>20. stage' = "ParseResponse" => NothingFits'
  BY <1>5, <1>12 DEF NothingFits
<1>. QED BY <1>16, <1>17, <1>18, <1>19, <1>20 DEF SelectInv

\* Keeping some of the creatives of each impression rejects the others.
LEMMA KeepStep ==
    ASSUME TypeOK, impCreatives = NonEmpty([i \in Imps |-> Fit(i)]), NEW m, KeepCreatives(m),
           DOMAIN m = DOMAIN impCreatives, \A i \in DOMAIN m : m[i] \subseteq impCreatives[i],
           UNCHANGED found
    PROVE  /\ impCreatives' = NonEmpty([i \in Imps |-> Fit(i)'])
           /\ \A i \in Imps : \A c : c \in Fit(i)' <=> i \in DOMAIN m /\ c \in m[i]
           /\ \A i : i \in DOMAIN impCreatives' <=> i \in Imps /\ Fit(i)' # {}
           /\ \A i \in Imps : Fit(i)' \subseteq Fit(i)
           /\ DOMAIN impCreatives' \subseteq Imps
           /\ \A i \in DOMAIN impCreatives' : impCreatives'[i] \subseteq Creatives
           /\ rejected' \subseteq Imps \X Creatives
<1>1. /\ \A i : i \in DOMAIN impCreatives <=> i \in Imps /\ Fit(i) # {}
      /\ \A i \in DOMAIN impCreatives : impCreatives[i] = Fit(i)
  BY NonEmptyIs
<1>2. PICK drop : drop = [i \in DOMAIN m |-> impCreatives[i] \ m[i]]
  OBVIOUS
<1>3. Reject(drop) /\ impCreatives' = NonEmpty(m)
  BY <1>2 DEF KeepCreatives
<1>4. /\ \A i \in DOMAIN drop : Fit(i)' = Fit(i) \ drop[i]
      /\ \A i : i \notin DOMAIN drop => Fit(i)' = Fit(i)
  BY <1>3, FitAfter
<1>5. DOMAIN drop = DOMAIN m /\ \A i \in DOMAIN m : drop[i] = Fit(i) \ m[i]
  BY <1>1, <1>2
<1>6. \A i \in DOMAIN m : Fit(i)' = m[i]
  <2>1. ASSUME NEW i \in DOMAIN m PROVE Fit(i)' = m[i]
    <3>1. Fit(i)' = Fit(i) \ (Fit(i) \ m[i])
      BY <1>4, <1>5, <2>1
    <3>2. m[i] \subseteq Fit(i)
      BY <1>1, <2>1
    <3>. QED BY <3>1, <3>2
  <2>. QED BY <2>1
<1>7. \A i \in Imps : i \notin DOMAIN m => Fit(i)' = {}
  BY <1>1, <1>4, <1>5
<1>8. impCreatives' = NonEmpty([i \in Imps |-> Fit(i)'])
  <2>. DEFINE n == [i \in Imps |-> Fit(i)']
  <2>1. DOMAIN n = Imps /\ \A i \in Imps : n[i] = Fit(i)'
    OBVIOUS
  <2>2. \A i : (i \in DOMAIN m /\ m[i] # {}) <=> (i \in DOMAIN n /\ n[i] # {})
    BY <1>1, <1>6, <1>7, <2>1
  <2>3. \A i \in DOMAIN m : m[i] # {} => n[i] = m[i]
    BY <1>1, <1>6, <2>1
  <2>. HIDE DEF n
  <2>4. NonEmpty(m) = NonEmpty(n)
    BY <2>2, <2>3, NonEmptySame
  <2>. QED BY <1>3, <2>4 DEF n
<1>9. \A i \in DOMAIN m : i \in Imps /\ m[i] \subseteq Creatives
  BY DEF TypeOK
<1>10. DOMAIN impCreatives' \subseteq Imps /\ \A i \in DOMAIN impCreatives' : impCreatives'[i] \subseteq Creatives
  BY <1>3, <1>9, NonEmptyIs
<1>11. \A i : i \in DOMAIN impCreatives' <=> i \in Imps /\ Fit(i)' # {}
  BY <1>3, <1>6, <1>7, <1>9, NonEmptyIs
<1>12. rejected' \subseteq Imps \X Creatives
  <2>1. DOMAIN drop \subseteq Imps /\ \A i \in DOMAIN drop : drop[i] \subseteq Creatives
    BY <1>2 DEF TypeOK
  <2>. QED BY <1>3, <2>1, RejectedType
<1>13. \A i \in Imps : Fit(i)' \subseteq Fit(i)
  BY <1>1, <1>6, <1>7
<1>. QED BY <1>6, <1>7, <1>8, <1>10, <1>11, <1>12, <1>13

LEMMA PoliciesOfNonEmpty ==
    ASSUME NEW f
    PROVE  ImpCreative2Policies(NonEmpty(f)) = PoliciesOf(UNION Range(f))
<1>1. UNION Range(NonEmpty(f)) = UNION Range(f)
  <2>1. \A c : c \in UNION Range(NonEmpty(f)) <=> c \in UNION Range(f)
    BY InUnion, NonEmptyIs
  <2>. QED BY <2>1
<1>. QED BY <1>1, InPolicies

LEMMA FilterCreativeByImpStep ==
    ASSUME SelectInv, FilterCreativeByImp
    PROVE  SelectInv' /\ (stage' = "ParseResponse" => NothingFits')
<1>1. PICK asking \in [DOMAIN impCreatives -> SUBSET Creatives] :
        /\ \A i \in DOMAIN asking : asking[i] \subseteq impCreatives[i]
        /\ \E open \in [{c \in UNION Range(asking) : request.at = "rtb"} -> Prices] :
              price' = GetPrices(asking, open)
        /\ KeepCreatives([i \in DOMAIN asking |-> {c \in asking[i] : CheckPrice(i, c, price'[c])}])
  BY DEF FilterCreativeByImp
<1>2. PICK m : m = [i \in DOMAIN asking |-> {c \in asking[i] : CheckPrice(i, c, price'[c])}]
  OBVIOUS
<1>3. /\ stage = "FilterCreativeByImp"
      /\ stage' = (IF DOMAIN impCreatives' # {} THEN "FilterByAudience" ELSE "ParseResponse")
      /\ policies' = (IF impCreatives' = <<>> THEN policies ELSE ImpCreative2Policies(impCreatives'))
      /\ UNCHANGED <<request, found, impPolicies, bids, flagged, bRes>>
      /\ TypeOK /\ impCreatives = NonEmpty([i \in Imps |-> Fit(i)])
      /\ \A i \in Imps : \A c \in Fit(i) : FilterImp(i, Policy[c])
  BY DEF FilterCreativeByImp, Continue, SelectInv, CandidatesAgree, FitInv, MatchedStages
<1>4. /\ DOMAIN price' = DOMAIN price \cup UNION Range(asking)
      /\ \A c \in DOMAIN price' : price'[c] \in Nat
      /\ UNION Range(asking) \subseteq Creatives
  BY <1>1, <1>3, PricesType
<1>5. KeepCreatives(m) /\ DOMAIN m = DOMAIN impCreatives /\ \A i \in DOMAIN m : m[i] \subseteq impCreatives[i]
  BY <1>1, <1>2
<1>6. /\ impCreatives' = NonEmpty([i \in Imps |-> Fit(i)'])
      /\ \A i \in Imps : \A c : c \in Fit(i)' <=> i \in DOMAIN m /\ c \in m[i]
      /\ \A i : i \in DOMAIN impCreatives' <=> i \in Imps /\ Fit(i)' # {}
      /\ \A i \in Imps : Fit(i)' \subseteq Fit(i)
      /\ DOMAIN impCreatives' \subseteq Imps
      /\ \A i \in DOMAIN impCreatives' : impCreatives'[i] \subseteq Creatives
      /\ rejected' \subseteq Imps \X Creatives
  BY <1>3, <1>5, KeepStep
<1>7. ImpCreative2Policies(impCreatives') = PoliciesOf(UNION Range([i \in Imps |-> Fit(i)']))
  BY <1>6, PoliciesOfNonEmpty
<1>8. stage' = "FilterByAudience" => policies' = PoliciesOf(UNION Range([i \in Imps |-> Fit(i)']))
  <2>1. DOMAIN <<>> = {}
    OBVIOUS
  <2>. QED BY <1>3, <1>7, <2>1
<1>9. TypeOK'
  <2>1. policies' \subseteq Policies
    <3>1. \A i \in Imps : Fit(i)' \subseteq Creatives
      BY <1>3, <1>6, FitType
    <3>2. \A p \in PoliciesOf(UNION Range([i \in Imps |-> Fit(i)'])) : \E i \in Imps : \E c \in Fit(i)' : p = Policy[c]
      <4>. DEFINE f == [i \in Imps |-> Fit(i)']
      <4>1. DOMAIN f = Imps /\ \A i \in Imps : f[i] = Fit(i)'
        OBVIOUS
      <4>. HIDE DEF f
      <4>2. \A p \in PoliciesOf(UNION Range(f)) : \E i \in Imps : \E c \in Fit(i)' : p = Policy[c]
        BY <4>1, InPolicies
      <4>. QED BY <4>2 DEF f
    <3>3. \A c \in Creatives : Policy[c] \in Policies
      BY SelectAdAssumption
    <3>4. PoliciesOf(UNION Range([i \in Imps |-> Fit(i)'])) \subseteq Policies
      BY <3>1, <3>2, <3>3
    <3>. QED BY <1>3, <1>7, <3>4 DEF TypeOK
  <2>2. DOMAIN price' \subseteq Creatives
    BY <1>3, <1>4 DEF TypeOK
  <2>. QED BY <1>3, <1>4, <1>6, <2>1, <2>2 DEF TypeOK
<1>10. FreshInv'
  BY <1>3 DEF FreshInv
<1>11. CandidatesAgree'
  BY <1>3, <1>6, <1>8 DEF CandidatesAgree
<1>12. FitInv'
  <2>1. \A i \in Imps : \A c \in Fit(i)' : FilterImp(i, Policy[c])'
    BY <1>3, <1>6, SameRequest
  <2>2. ASSUME NEW i \in Imps, NEW c \in Fit(i)' PROVE c \in DOMAIN price' /\ CheckPrice(i, c, price'[c])
    <3>1. i \in DOMAIN asking /\ c \in asking[i] /\ CheckPrice(i, c, price'[c])
      BY <1>2, <1>6
    <3>. QED BY <1>4, <3>1, InUnion
  <2>3. \A i \in Imps : \A c \in Fit(i)' : c \in DOMAIN price' /\ CheckPrice(i, c, price[c])'
    BY <1>3, <2>2, SameRequest
  <2>. QED BY <1>3, <2>1, <2>3 DEF FitInv
<1>13. stage' = "ParseResponse" => NothingFits'
  BY <1>3, <1>6 DEF NothingFits
<1>. QED BY <1>9, <1>10, <1>11, <1>12, <1>13 DEF SelectInv

LEMMA FilterByAudienceStep ==
    ASSUME SelectInv, FilterByAudience
    PROVE  SelectInv' /\ (stage' = "ParseResponse" => NothingFits')
<1>1. PICK out \in SUBSET policies : policies' = policies \ out /\ RejectPolicies([i \in Imps |-> out])
  BY DEF FilterByAudience
<1>2. /\ stage = "FilterByAudience"
      /\ stage' = (IF policies' # {} THEN "FilterByFrequency" ELSE "ParseResponse")
      /\ impCreatives' = (IF policies' = {} THEN impCreatives
                          ELSE AdjustImpCreativesByPolicies(impCreatives, policies'))
      /\ UNCHANGED <<request, found, impPolicies, price, bids, flagged, bRes>>
      /\ TypeOK
      /\ policies = PoliciesOf(UNION Range(FitOf)) /\ impCreatives = NonEmpty(FitOf)
      /\ \A i \in Imps : \A c \in Fit(i) : FilterImp(i, Policy[c])
      /\ \A i \in Imps : \A c \in Fit(i) : c \in DOMAIN price /\ CheckPrice(i, c, price[c])
  BY DEF FilterByAudience, Continue, SelectInv, CandidatesAgree, FitInv, MatchedStages, PricedStages, FitOf
<1>3. DOMAIN FitOf = Imps /\ \A i \in Imps : FitOf[i] = Fit(i)
  BY DEF FitOf
<1>4. /\ \A i : i \in DOMAIN impCreatives <=> i \in Imps /\ Fit(i) # {}
      /\ \A i \in DOMAIN impCreatives : impCreatives[i] = Fit(i)
  BY <1>2, <1>3, NonEmptyIs
<1>5. \A i \in Imps : Fit(i)' = {c \in Fit(i) : Policy[c] \notin out}
  <2>1. \A i \in Imps : Fit(i)' = {c \in Fit(i) : Policy[c] \notin [j \in Imps |-> out][i]}
    BY <1>1, <1>2, FitAfterPolicies
  <2>. QED BY <2>1
<1>6. \A i \in Imps : \A c \in Fit(i) : Policy[c] \in policies
  BY <1>2, <1>3, InPolicies
<1>7. \A p \in policies : \E i \in Imps : \E c \in Fit(i) : p = Policy[c]
  BY <1>2, <1>3, InPolicies
<1>8. \A i \in Imps : Fit(i)' = {c \in Fit(i) : Policy[c] \in policies'}
  BY <1>1, <1>5, <1>6
<1>9. AdjustImpCreativesByPolicies(impCreatives, policies') = NonEmpty([i \in Imps |-> Fit(i)'])
  <2>. DEFINE m == [i \in DOMAIN impCreatives |-> {c \in impCreatives[i] : Policy[c] \in policies'}]
  <2>. DEFINE n == [i \in Imps |-> Fit(i)']
  <2>1. DOMAIN m = DOMAIN impCreatives /\ \A i \in DOMAIN m : m[i] = Fit(i)'
    BY <1>4, <1>8
  <2>2. DOMAIN n = Imps /\ \A i \in Imps : n[i] = Fit(i)'
    OBVIOUS
  <2>. HIDE DEF m, n
  <2>3. \A i \in Imps : i \notin DOMAIN m => Fit(i)' = {}
    BY <1>4, <1>8, <2>1
  <2>4. \A i \in DOMAIN m : i \in Imps
    BY <1>4, <2>1
  <2>5. \A i : (i \in DOMAIN m /\ m[i] # {}) <=> (i \in DOMAIN n /\ n[i] # {})
    BY <2>1, <2>2, <2>3, <2>4
  <2>6. \A i \in DOMAIN m : m[i] # {} => n[i] = m[i]
    BY <2>1, <2>2, <2>4
  <2>7. NonEmpty(m) = NonEmpty(n)
    BY <2>5, <2>6, NonEmptySame
  <2>. QED BY <2>7 DEF m, n, AdjustImpCreativesByPolicies
<1>10. TypeOK'
  <2>1. DOMAIN impCreatives' \subseteq Imps /\ \A i \in DOMAIN impCreatives' : impCreatives'[i] \subseteq Creatives
    <3>1. \A i \in Imps : Fit(i)' \subseteq Creatives
      BY <1>2, <1>5, FitType
    <3>2. DOMAIN AdjustImpCreativesByPolicies(impCreatives, policies') \subseteq Imps
      BY <1>9, NonEmptyIs
    <3>3. \A i \in DOMAIN AdjustImpCreativesByPolicies(impCreatives, policies') :
             AdjustImpCreativesByPolicies(impCreatives, policies')[i] = Fit(i)'
      BY <1>9, NonEmptyIs
    <3>. QED BY <1>2, <3>1, <3>2, <3>3 DEF TypeOK
  <2>2. policies' \subseteq Policies
    BY <1>1, <1>2 DEF TypeOK
  <2>3. rejected' \subseteq Imps \X Creatives
    BY <1>1, <1>2, RejectPoliciesType
  <2>. QED BY <1>2, <2>1, <2>2, <2>3 DEF TypeOK
<1>11. FreshInv'
  BY <1>2 DEF FreshInv
<1>12. CandidatesAgree'
  BY <1>2, <1>9 DEF CandidatesAgree
<1>13. FitInv'
  <2>1. \A i \in Imps : \A c \in Fit(i)' : FilterImp(i, Policy[c])'
    BY <1>2, <1>5, SameRequest
  <2>2. \A i \in Imps : \A c \in Fit(i)' : c \in DOMAIN price' /\ CheckPrice(i, c, price[c])'
    BY <1>2, <1>5, SameRequest
  <2>. QED BY <1>2, <2>1, <2>2 DEF FitInv
<1>14. stage' = "ParseResponse" => NothingFits'
  BY <1>2, <1>8 DEF NothingFits
<1>. QED BY <1>10, <1>11, <1>12, <1>13, <1>14 DEF SelectInv

LEMMA FilterByFrequencyStep ==
    ASSUME SelectInv, FilterByFrequency
    PROVE  SelectInv' /\ (stage' = "ParseResponse" => NothingFits')
<1>1. PICK capped \in SUBSET Creatives : KeepCreatives([i \in DOMAIN impCreatives |-> impCreatives[i] \ capped])
  BY DEF FilterByFrequency
<1>2. PICK m : m = [i \in DOMAIN impCreatives |-> impCreatives[i] \ capped]
  OBVIOUS
<1>3. /\ stage = "FilterByFrequency"
      /\ stage' = (IF DOMAIN impCreatives' # {} THEN "FilterByCreativeBidding" ELSE "ParseResponse")
      /\ UNCHANGED <<request, found, policies, impPolicies, price, bids, flagged, bRes>>
      /\ TypeOK /\ impCreatives = NonEmpty([i \in Imps |-> Fit(i)])
      /\ \A i \in Imps : \A c \in Fit(i) : FilterImp(i, Policy[c])
      /\ \A i \in Imps : \A c \in Fit(i) : c \in DOMAIN price /\ CheckPrice(i, c, price[c])
  BY DEF FilterByFrequency, Continue, SelectInv, CandidatesAgree, FitInv, MatchedStages, PricedStages
<1>4. KeepCreatives(m) /\ DOMAIN m = DOMAIN impCreatives /\ \A i \in DOMAIN m : m[i] \subseteq impCreatives[i]
  BY <1>1, <1>2
<1>5. /\ impCreatives' = NonEmpty([i \in Imps |-> Fit(i)'])
      /\ \A i : i \in DOMAIN impCreatives' <=> i \in Imps /\ Fit(i)' # {}
      /\ \A i \in Imps : Fit(i)' \subseteq Fit(i)
      /\ DOMAIN impCreatives' \subseteq Imps
      /\ \A i \in DOMAIN impCreatives' : impCreatives'[i] \subseteq Creatives
      /\ rejected' \subseteq Imps \X Creatives
  BY <1>3, <1>4, KeepStep
<1>6. TypeOK'
  BY <1>3, <1>5 DEF TypeOK
<1>7. FreshInv'
  BY <1>3 DEF FreshInv
<1>8. CandidatesAgree'
  BY <1>3, <1>5 DEF CandidatesAgree
<1>9. FitInv'
  <2>1. \A i \in Imps : \A c \in Fit(i)' : FilterImp(i, Policy[c])'
    BY <1>3, <1>5, SameRequest
  <2>2. \A i \in Imps : \A c \in Fit(i)' : c \in DOMAIN price' /\ CheckPrice(i, c, price[c])'
    BY <1>3, <1>5, SameRequest
  <2>. QED BY <1>3, <2>1, <2>2 DEF FitInv
<1>10. stage' = "ParseResponse" => NothingFits'
  BY <1>3, <1>5 DEF NothingFits
<1>. QED BY <1>6, <1>7, <1>8, <1>9, <1>10 DEF SelectInv

LEMMA FilterByCreativeBiddingStep ==
    ASSUME SelectInv, FilterByCreativeBidding
    PROVE  SelectInv' /\ stage' # "ParseResponse"
<1>1. /\ UNCHANGED <<request, found, policies, impPolicies, price, rejected, bids, flagged, bRes>>
      /\ TypeOK /\ impCreatives = NonEmpty([i \in Imps |-> Fit(i)])
      /\ \A i \in Imps : \A c \in Fit(i) : FilterImp(i, Policy[c])
      /\ \A i \in Imps : \A c \in Fit(i) : c \in DOMAIN price /\ CheckPrice(i, c, price[c])
  BY DEF FilterByCreativeBidding, SelectInv, CandidatesAgree, FitInv, MatchedStages, PricedStages
<1>2. /\ \A i : i \in DOMAIN impCreatives <=> i \in Imps /\ Fit(i) # {}
      /\ \A i \in DOMAIN impCreatives : impCreatives[i] = Fit(i)
  BY <1>1, NonEmptyIs
<1>3. \A i \in Imps : Fit(i)' = Fit(i)
  BY <1>1 DEF Fit
<1>4. CASE stage' = "Crashed" /\ UNCHANGED impCreatives
  BY <1>1, <1>4 DEF SelectInv, TypeOK, FreshInv, CandidatesAgree, FitInv, MatchedStages, PricedStages
<1>5. CASE stage' = "SetResponse"
  <2>1. PICK pick \in [DOMAIN impCreatives -> Creatives] :
            /\ \A i \in DOMAIN pick : pick[i] \in Best(impCreatives[i])
            /\ impCreatives' = [i \in DOMAIN pick |-> {pick[i]}]
    BY <1>5 DEF FilterByCreativeBidding, Crash
  <2>2. TypeOK'
    BY <1>1, <1>5, <2>1 DEF TypeOK
  <2>3. FreshInv' /\ CandidatesAgree'
    BY <1>5 DEF FreshInv, CandidatesAgree
  <2>4. \A i \in DOMAIN impCreatives' :
            i \in Imps /\ impCreatives'[i] # {} /\ impCreatives'[i] \subseteq Best(Fit(i))'
    <3>1. ASSUME NEW i \in DOMAIN impCreatives'
          PROVE  i \in Imps /\ impCreatives'[i] = {pick[i]} /\ pick[i] \in Best(Fit(i))
      BY <1>2, <2>1
    <3>2. \A i \in Imps : Best(Fit(i))' = Best(Fit(i))
      <4>1. \A S : SelectByDeeplink(S)' = SelectByDeeplink(S)
        BY <1>1 DEF SelectByDeeplink
      <4>2. \A i \in Imps : SelectByDeeplink(Fit(i))' = SelectByDeeplink(Fit(i))
        BY <1>1, <1>3 DEF SelectByDeeplink
      <4>. QED BY <1>1, <4>2 DEF Best, SelectByPrice
    <3>. QED BY <3>1, <3>2
  <2>5. FitInv'
    <3>1. \A i \in Imps : \A c \in Fit(i)' : FilterImp(i, Policy[c])'
      BY <1>1, <1>3, SameRequest
    <3>2. \A i \in Imps : \A c \in Fit(i)' : c \in DOMAIN price' /\ CheckPrice(i, c, price[c])'
      BY <1>1, <1>3, SameRequest
    <3>. QED BY <1>5, <2>4, <3>1, <3>2 DEF FitInv
  <2>. QED BY <1>5, <2>2, <2>3, <2>5 DEF SelectInv
<1>. QED BY <1>4, <1>5 DEF FilterByCreativeBidding, Crash

\* The best of the creatives is one of them, and none is dearer unless the
\* exchange wants a deeplink that it has not.
LEMMA BestIsBest ==
    ASSUME NEW S, S \subseteq Creatives, \A d \in S : price[d] \in Nat, NEW c \in Best(S)
    PROVE  /\ c \in S
           /\ \A d \in S : price[d] <= price[c] \/ (request.deeplink /\ d \notin Deeplinks /\ c \in Deeplinks)
<1>1. PICK T : T = SelectByDeeplink(S)
  OBVIOUS
<1>2. T \subseteq S /\ \A d \in S : d \notin T => request.deeplink /\ d \notin Deeplinks /\ T \subseteq Deeplinks
  BY <1>1 DEF SelectByDeeplink
<1>3. c \in SelectByPrice(T)
  BY <1>1 DEF Best
<1>4. c \in T /\ \A d \in T : price[d] <= price[c]
  <2>1. CASE Cardinality(T) = 1
    <3>1. IsFiniteSet(T)
      BY <1>2, FS_Subset, SelectAdAssumption
    <3>2. PICK x : T = {x}
      BY <2>1, <3>1, FS_Singleton
    <3>3. c = x
      BY <1>3, <2>1, <3>2 DEF SelectByPrice
    <3>. QED BY <1>2, <3>2, <3>3
  <2>2. CASE Cardinality(T) # 1
    BY <1>3, <2>2 DEF SelectByPrice
  <2>. QED BY <2>1, <2>2
<1>. QED BY <1>2, <1>4

LEMMA SetResponseStep ==
    ASSUME SelectInv, SetResponse
    PROVE  SelectInv' /\ BidsAreFit' /\ BestPriceWins' /\ stage' = "SetBidRedisFlag"
<1>1. PICK good \in SUBSET DOMAIN impCreatives :
        bids' = [i \in Imps |-> IF i \in good THEN Bid(i, CHOOSE c \in impCreatives[i] : TRUE) ELSE None]
  BY DEF SetResponse
<1>2. /\ stage = "SetResponse" /\ stage' = "SetBidRedisFlag"
      /\ UNCHANGED <<request, found, policies, impPolicies, impCreatives, price, rejected, flagged, bRes>>
      /\ TypeOK
      /\ \A i \in Imps : \A c \in Fit(i) : FilterImp(i, Policy[c])
      /\ \A i \in Imps : \A c \in Fit(i) : c \in DOMAIN price /\ CheckPrice(i, c, price[c])
      /\ \A i \in DOMAIN impCreatives :
            i \in Imps /\ impCreatives[i] # {} /\ impCreatives[i] \subseteq Best(Fit(i))
  BY DEF SetResponse, SelectInv, FitInv, MatchedStages, PricedStages, candidates
<1>3. \A i \in Imps : Fit(i)' = Fit(i) /\ Fit(i) \subseteq Creatives
  BY <1>2, FitType DEF Fit
<1>4. \A i \in Imps : \A c \in Fit(i) : price[c] \in Nat
  BY <1>2 DEF TypeOK
<1>5. ASSUME NEW i \in Imps, bids'[i] # None
      PROVE  \E c \in Best(Fit(i)) : bids'[i] = Bid(i, c)
  <2>1. i \in good
    BY <1>1, <1>5
  <2>2. bids'[i] = Bid(i, CHOOSE c \in impCreatives[i] : TRUE)
    BY <1>1, <2>1
  <2>3. (CHOOSE c \in impCreatives[i] : TRUE) \in impCreatives[i]
    BY <1>2, <2>1
  <2>. QED BY <1>2, <2>1, <2>2, <2>3
<1>6. ASSUME NEW i \in Imps, bids'[i] # None
      PROVE  \E c \in Fit(i) :
                /\ bids'[i].creative = c /\ bids'[i].dealid = GetDealId(i, Policy[c]) /\ bids'[i].price = price[c]
                /\ bids'[i] \in BidOf
                /\ \A d \in Fit(i) : price[d] <= price[c] \/ (request.deeplink /\ d \notin Deeplinks /\ c \in Deeplinks)
  <2>1. PICK c \in Best(Fit(i)) : bids'[i] = Bid(i, c)
    BY <1>5, <1>6
  <2>2. /\ c \in Fit(i)
        /\ \A d \in Fit(i) : price[d] <= price[c] \/ (request.deeplink /\ d \notin Deeplinks /\ c \in Deeplinks)
    BY <1>3, <1>4, <2>1, BestIsBest
  <2>3. Policy[c] \in Policies
    BY <1>3, <2>2, SelectAdAssumption
  <2>4. Bid(i, c) \in BidOf
    BY <1>2, <1>3, <1>4, <2>2, <2>3, DealIsNat DEF Bid, BidOf, TypeOK
  <2>. QED BY <2>1, <2>2, <2>4 DEF Bid
<1>7. BestPriceWins'
  BY <1>2, <1>3, <1>6 DEF BestPriceWins
<1>8. BidsAreFit'
  <2>1. ASSUME NEW i \in Imps, bids'[i] # None
        PROVE  LET p == Policy[bids'[i].creative]
               IN /\ bids'[i].creative \in Fit(i)
                  /\ request.dealprice[i] # <<>> =>
                       bids'[i].dealid \in DOMAIN request.dealprice[i] \cap DOMAIN DealPrice[p]
                  /\ request.at = "rtb" \/ ~PmpUnchecked =>
                       bids'[i].price >= GetBidfloor(i, bids'[i].dealid, Advcat[p]) + Gap
    <3>1. PICK c \in Fit(i) :
              bids'[i].creative = c /\ bids'[i].dealid = GetDealId(i, Policy[c]) /\ bids'[i].price = price[c]
      BY <1>6, <2>1
    <3>2. Policy[c] \in Policies
      BY <1>3, SelectAdAssumption
    <3>3. request.dealprice[i] # <<>> =>
              GetDealId(i, Policy[c]) \in DOMAIN request.dealprice[i] \cap DOMAIN DealPrice[Policy[c]]
      BY <1>2, <3>2, DealOf DEF FilterImp, TypeOK
    <3>4. request.at = "rtb" \/ ~PmpUnchecked =>
              price[c] >= GetBidfloor(i, GetDealId(i, Policy[c]), Advcat[Policy[c]]) + Gap
      <4>1. GetBidfloor(i, GetDealId(i, Policy[c]), Advcat[Policy[c]]) \in Nat
        BY <1>2, FloorIsNat DEF TypeOK
      <4>2. Gap \in Nat /\ price[c] \in Nat
        BY <1>4, SelectAdAssumption
      <4>3. CheckPrice(i, c, price[c])
        BY <1>2
      <4>. QED BY <4>1, <4>2, <4>3 DEF CheckPrice
    <3>. QED BY <3>1, <3>3, <3>4
  <2>2. \A i \in Imps : \A d, a : GetBidfloor(i, d, a)' = GetBidfloor(i, d, a)
    BY <1>2, SameRequest
  <2>. QED BY <1>2, <1>3, <2>1, <2>2 DEF BidsAreFit
<1>9. TypeOK'
  <2>1. \A i \in Imps : bids'[i] \in BidOf \cup {None}
    BY <1>6
  <2>. QED BY <1>2, <2>1 DEF TypeOK
<1>. QED BY <1>2, <1>7, <1>8, <1>9 DEF SelectInv, FreshInv, CandidatesAgree, FitInv, MatchedStages, PricedStages

LEMMA FlagStep ==
    ASSUME SelectInv, NoReply \/ SetBidRedisFlag
    PROVE  SelectInv'
<1>1. /\ UNCHANGED <<request, found, candidates, rejected>>
      /\ stage \in {"FilterByAudience", "SetBidRedisFlag"}
      /\ stage' \in {"Crashed", "SetBidRedisFlag", "ParseResponse"}
  BY DEF NoReply, Crash, SetBidRedisFlag, SelectInv, TypeOK
<1>2. /\ bids' = bids \/ bids' = NoBids
      /\ bRes' = bRes \/ bRes' = TRUE
      /\ flagged' = flagged \/ \E i \in Imps : flagged' = flagged \cup {i}
  <2>1. CASE NoReply
    BY <2>1 DEF NoReply
  <2>2. CASE SetBidRedisFlag
    <3>. DEFINE pending == {i \in Imps \ flagged : bids[i] # None}
    <3>1. pending # {} => Min(pending) \in Imps
      <4>1. pending \subseteq Nat
        BY SelectAdAssumption
      <4>. QED BY <4>1, HasMin
    <3>. QED BY <2>2, <3>1 DEF SetBidRedisFlag
  <2>. QED BY <2>1, <2>2
<1>3. TypeOK'
  BY <1>1, <1>2 DEF SelectInv, TypeOK, NoBids, candidates
<1>. QED BY <1>1, <1>3 DEF SelectInv, FreshInv, CandidatesAgree, FitInv, MatchedStages, PricedStages

LEMMA NextRequestStep ==
    ASSUME NextRequest
    PROVE  SelectInv'
<1>0. DOMAIN <<>> = {}
  OBVIOUS
<1>1. TypeOK'
  <2>1. found' \in [Imps -> SUBSET Creatives] /\ \A i \in Imps : bids'[i] = None
    BY DEF NextRequest, NoBids
  <2>. QED BY <1>0, <2>1 DEF NextRequest, Clear, TypeOK
<1>. QED BY <1>1 DEF NextRequest, Clear, SelectInv, FreshInv, CandidatesAgree, FitInv, MatchedStages, PricedStages

LEMMA SelectStep ==
    ASSUME SelectInv, [Next]_vars
    PROVE  SelectInv' /\ (stage' = "ParseResponse" /\ stage' # stage /\ stage # "SetBidRedisFlag" => NothingFits')
<1>1. CASE SelectAd
  BY <1>1, FilterCreativeStep, FilterPoliciesStep, FilterPoliciesByImpStep, FilterCreativeByImpStep,
     FilterByAudienceStep, FilterByFrequencyStep, FilterByCreativeBiddingStep DEF SelectAd
<1>2. CASE NoReply
  BY <1>2, FlagStep DEF NoReply, Crash
<1>3. CASE SetResponse
  BY <1>3, SetResponseStep
<1>4. CASE SetBidRedisFlag
  BY <1>4, FlagStep DEF SetBidRedisFlag
<1>5. CASE NextRequest
  BY <1>5, NextRequestStep DEF NextRequest
<1>6. CASE UNCHANGED vars
  <2>1. \A i : Fit(i)' = Fit(i)
    BY <1>6 DEF vars, Fit
  <2>2. \A i, p : FilterImp(i, p)' <=> FilterImp(i, p)
    BY <1>6, SameRequest DEF vars
  <2>3. \A i, c, x : CheckPrice(i, c, x)' <=> CheckPrice(i, c, x)
    BY <1>6, SameRequest DEF vars
  <2>4. TypeOK' /\ FreshInv'
    BY <1>6, <2>1 DEF vars, candidates, SelectInv, TypeOK, FreshInv
  <2>5. CandidatesAgree'
    <3>1. [i \in Imps |-> Fit(i)]' = [i \in Imps |-> Fit(i)]
      BY <2>1
    <3>2. [i \in Imps |-> PoliciesOf(Fit(i))]' = [i \in Imps |-> PoliciesOf(Fit(i))]
      BY <2>1
    <3>. QED BY <1>6, <2>1, <3>1, <3>2 DEF vars, candidates, SelectInv, CandidatesAgree
  <2>6. FitInv'
    <3>1. \A i \in Imps : Best(Fit(i))' = Best(Fit(i))
      BY <1>6, <2>1 DEF vars, candidates, Best, SelectByPrice, SelectByDeeplink
    <3>. QED BY <1>6, <2>1, <2>2, <2>3, <3>1 DEF vars, candidates, SelectInv, FitInv
  <2>7. stage' = stage
    BY <1>6 DEF vars
  <2>. QED BY <2>4, <2>5, <2>6, <2>7 DEF SelectInv
<1>. QED BY <1>1, <1>2, <1>3, <1>4, <1>5, <1>6 DEF Next

LEMMA SelectInit == Init => SelectInv
<1>. SUFFICES ASSUME Init PROVE SelectInv
  OBVIOUS
<1>0. DOMAIN <<>> = {}
  OBVIOUS
<1>1. TypeOK
  <2>1. found \in [Imps -> SUBSET Creatives] /\ \A i \in Imps : bids[i] = None
    BY DEF Init, NoBids
  <2>. QED BY <1>0, <2>1 DEF Init, TypeOK
<1>. QED BY <1>1 DEF Init, SelectInv, FreshInv, CandidatesAgree, FitInv, MatchedStages, PricedStages
-------------------------------------------------------------------------------
(* The bids. *)

LEMMA BidsStep ==
    ASSUME SelectInv, BidsInv, [Next]_vars
    PROVE  BidsInv'
<1>1. CASE bids' = NoBids /\ stage' # "SetBidRedisFlag"
  BY <1>1 DEF BidsInv, BidsAreFit, BestPriceWins, AnsweredBidsAreFlagged, NoBids
<1>2. ASSUME UNCHANGED <<request, found, price, rejected, bids>>
      PROVE  BidsAreFit' /\ BestPriceWins'
  <2>1. \A i : Fit(i)' = Fit(i)
    BY <1>2 DEF Fit
  <2>2. \A i, d, a : GetBidfloor(i, d, a)' = GetBidfloor(i, d, a)
    BY <1>2, SameRequest
  <2>3. BidsAreFit'
    BY <1>2, <2>1, <2>2 DEF BidsInv, BidsAreFit
  <2>4. BestPriceWins'
    BY <1>2, <2>1 DEF BidsInv, BestPriceWins
  <2>. QED BY <2>3, <2>4
<1>3. CASE SelectAd
  <2>1. stage \in BeforeTheBids /\ stage' # "SetBidRedisFlag" /\ UNCHANGED bids
    BY <1>3 DEF SelectAd, FilterCreative, FilterPolicies, FilterPoliciesByImp, FilterCreativeByImp, FilterByAudience,
          FilterByFrequency, FilterByCreativeBidding, Continue, Crash, BeforeTheBids, MatchedStages, PricedStages
  <2>. QED BY <1>1, <2>1 DEF BidsInv
<1>4. CASE NoReply
  BY <1>2, <1>4 DEF NoReply, Crash, candidates, BidsInv, AnsweredBidsAreFlagged, BeforeTheBids,
     MatchedStages, PricedStages
<1>5. CASE SetResponse
  BY <1>5, SetResponseStep DEF BidsInv, AnsweredBidsAreFlagged, BeforeTheBids, MatchedStages, PricedStages
<1>6. CASE SetBidRedisFlag
  <2>. DEFINE pending == {i \in Imps \ flagged : bids[i] # None}
  <2>0. UNCHANGED <<request, found, price, rejected>>
    BY <1>6 DEF SetBidRedisFlag, candidates
  <2>1. CASE pending = {} /\ stage' = "ParseResponse" /\ UNCHANGED <<bids, flagged>>
    <3>1. {i \in Imps : bids[i] # None} \subseteq flagged
      BY <2>1
    <3>2. BidsAreFit' /\ BestPriceWins'
      BY <1>2, <2>0, <2>1
    <3>. QED BY <2>1, <3>1, <3>2 DEF BidsInv, AnsweredBidsAreFlagged, BeforeTheBids, MatchedStages, PricedStages
  <2>2. CASE stage = "SetBidRedisFlag" /\ UNCHANGED <<stage, bids>>
    <3>1. BidsAreFit' /\ BestPriceWins'
      BY <1>2, <2>0, <2>2
    <3>. QED BY <2>2, <3>1 DEF BidsInv, AnsweredBidsAreFlagged, BeforeTheBids, MatchedStages, PricedStages
  <2>3. CASE bids' = NoBids /\ stage' = "ParseResponse"
    BY <1>1, <2>3
  <2>. QED BY <1>6, <2>1, <2>2, <2>3 DEF SetBidRedisFlag
<1>7. CASE NextRequest
  BY <1>1, <1>7 DEF NextRequest
<1>8. CASE UNCHANGED vars
  BY <1>2, <1>8 DEF vars, candidates, BidsInv, AnsweredBidsAreFlagged
<1>. QED BY <1>3, <1>4, <1>5, <1>6, <1>7, <1>8 DEF Next

LEMMA Invariance == Spec => [](SelectInv /\ BidsInv)
<1>1. Init => BidsInv
  BY DEF Init, BidsInv, BidsAreFit, BestPriceWins, AnsweredBidsAreFlagged, NoBids
<1>. QED BY <1>1, SelectInit, SelectStep, BidsStep, PTL DEF Spec

\* Every variable keeps its type, whatever is found, asked for and rejected.
THEOREM TypeCorrect == Spec => []TypeOK
BY Invariance, PTL DEF SelectInv

\* For any snapshot, requests and verdicts: the view of the candidates that
\* the next filter reads is what was found and not rejected, request after
\* request.
THEOREM ViewsAgree == Spec => []CandidatesAgree
BY Invariance, PTL DEF SelectInv

\* A bid passed every stage, names a deal of its policy and clears its floor.
THEOREM EveryBidIsFit == Spec => []BidsAreFit
BY Invariance, PTL DEF BidsInv

\* No creative that was left for the impression is dearer than the bid.
THEOREM BestIsBid == Spec => []BestPriceWins
BY Invariance, PTL DEF BidsInv

\* Every bid of an answer has its flag in Redis.
THEOREM AnsweredAreFlagged == Spec => []AnsweredBidsAreFlagged
BY Invariance, PTL DEF BidsInv

\* A request is given up before the bidding only when nothing that was found
\* is left.
THEOREM NothingGivenUp == Spec => GivesUpOnlyWhenNothingFits
<1>1. SelectInv /\ [Next]_vars =>
        [stage' = "ParseResponse" /\ stage # "SetBidRedisFlag" => \A i \in Imps : Fit(i)' = {}]_vars
  <2>. SUFFICES ASSUME SelectInv, [Next]_vars, vars' # vars, stage' = "ParseResponse", stage # "SetBidRedisFlag"
                PROVE  \A i \in Imps : Fit(i)' = {}
    OBVIOUS
  <2>1. stage' # stage
    BY DEF Next, SelectAd, FilterCreative, FilterPolicies, FilterPoliciesByImp, FilterCreativeByImp, FilterByAudience,
           FilterByFrequency, FilterByCreativeBidding, NoReply, SetResponse, SetBidRedisFlag, NextRequest, Crash
  <2>. QED BY <2>1, SelectStep DEF NothingFits
<1>. QED BY <1>1, Invariance, PTL DEF Spec, GivesUpOnlyWhenNothingFits
===============================================================================

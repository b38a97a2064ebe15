----------------------------- MODULE MCSelectAd -----------------------------
(* Small instances of SelectAd for TLC: two policies of two industries, one of *)
(* them with two creatives, and two deals, one of which both have a part in;   *)
(* the second policy also has a price for private auctions without a deal.     *)
EXTENDS SelectAd, TLC

CONSTANTS c1, c2, c3, p1, p2

MCPolicy    == (c1 :> p1) @@ (c2 :> p1) @@ (c3 :> p2)
MCAdvcat    == (p1 :> 1) @@ (p2 :> 2)
MCDealPrice == (p1 :> ((10 :> 1) @@ (11 :> 2))) @@ (p2 :> ((11 :> 1) @@ (None :> 2)))

NoFloors == [i \in Imps |-> <<>>]

\* An auction: with and without deeplinks, a floor for one impression, one for
\* an industry.
Auctions ==
    [at : {"rtb"}, deeplink : BOOLEAN, bidfloor : {[i \in Imps |-> 0], [i \in Imps |-> i]},
     fprice : {NoFloors, [NoFloors EXCEPT ![1] = 2 :> 2]}, dealprice : {NoFloors}]

\* A private auction: the impressions name the same deal, one each, or none.
PrivateDeals ==
    [at : {"pmp"}, deeplink : {FALSE}, bidfloor : {[i \in Imps |-> 0]}, fprice : {NoFloors},
     dealprice : {NoFloors, [i \in Imps |-> 11 :> 1], [i \in Imps |-> (9 + i) :> 1],
                  [i \in Imps |-> (10 :> 1) @@ (11 :> 0)]}]

MCRequests == Auctions \cup PrivateDeals
==============================================================================

------------------------------- MODULE Market -------------------------------
(***************************************************************************)
(* features/nft.py: tokens, listings, offers and auctions.  Every operation  *)
(* runs under the marketplace's lock; a sale moves the coins in up to three  *)
(* commits before the token is handed over.                                  *)
(***************************************************************************)
EXTENDS Services

CONSTANTS
    Tokens,       \* token identifiers
    MintFee, Royalty(_),
    GenesisToken, GenesisOwner, GenesisPrice    \* the collection the node starts with

ASSUME MarketAssumption ==
    /\ MintFee \in Nat /\ GenesisPrice \in Nat /\ GenesisOwner \in DOMAIN Funds
    /\ \A x \in Amounts \cup {0, GenesisPrice} : Royalty(x) \in 0..x

VARIABLES
    market,       \* tokens, offers and auctions in memory
    marketDb      \* nft_tokens, nft_offers, nft_auctions

marketVars == <<bal, req, items, market, marketDb>>

MarketLockFree == \A h \in Handlers : req[h].op \notin {"mint", "sale"}

Token(owner, price) ==
    [owner |-> owner, creator |-> owner, price |-> price, forSale |-> price > 0]

\* _persist_token, _persist_offer, _persist_auction
SaveMarket(part, i, x) ==
    /\ market' = [market EXCEPT ![part] = With(@, i, x)]
    /\ marketDb' = [marketDb EXCEPT ![part] = With(@, i, x)]

Owns(t, u) == t \in DOMAIN market.tokens /\ market.tokens[t].owner = u

-----------------------------------------------------------------------------
(* mint: the fee is debited and goes to nobody *)

Mint(h, t, creator, price) ==
    /\ MarketLockFree /\ t \notin DOMAIN market.tokens
    /\ bal[creator] >= MintFee
    /\ Begins(h, Request("mint", "debit", <<t, 0>>, creator, price))
    /\ UNCHANGED <<bal, items, market, marketDb>>

MintDebit(h) ==
    /\ At(h, "mint", "debit")
    /\ UpdateBalance(req[h].user, -MintFee)
    /\ Goes(h, "save")
    /\ UNCHANGED <<items, market, marketDb>>

MintSave(h) ==
    /\ At(h, "mint", "save")
    /\ SaveMarket("tokens", req[h].id[1], Token(req[h].user, req[h].amt))
    /\ Ends(h)
    /\ UNCHANGED <<bal, items>>

-----------------------------------------------------------------------------
(* list_for_sale, transfer, make_offer, create_auction, place_bid *)

ListForSale(t, owner, price) ==
    /\ MarketLockFree /\ price > 0 /\ Owns(t, owner)
    /\ SaveMarket("tokens", t, [market.tokens[t] EXCEPT !.price = price, !.forSale = TRUE])
    /\ UNCHANGED <<bal, req, items>>

HandedOver(t, to) == [market.tokens[t] EXCEPT !.owner = to, !.forSale = FALSE]

TransferToken(t, from, to) ==
    /\ MarketLockFree /\ Owns(t, from)
    /\ SaveMarket("tokens", t, HandedOver(t, to))
    /\ UNCHANGED <<bal, req, items>>

\* The bidder needs the coins when the offer is made; they are not set aside.
MakeOffer(t, bidder, price) ==
    /\ MarketLockFree /\ price > 0 /\ t \in DOMAIN market.tokens /\ bal[bidder] >= price
    /\ NewItem
    /\ SaveMarket("offers", items + 1, [token |-> t, bidder |-> bidder, price |-> price, status |-> "pending"])
    /\ UNCHANGED <<bal, req>>

CreateAuction(t, seller, start, reserve) ==
    /\ MarketLockFree /\ start > 0 /\ Owns(t, seller)
    /\ NewItem
    /\ SaveMarket("auctions", items + 1,
           [token |-> t, seller |-> seller, reserve |-> reserve, bid |-> start, bidder |-> seller,
            bids |-> FALSE, over |-> FALSE, status |-> "active"])
    /\ UNCHANGED <<bal, req>>

PlaceBid(a, bidder, amount) ==
    LET auction == market.auctions[a]
    IN /\ MarketLockFree /\ auction.status = "active"
       /\ \/ auction.over /\ SaveMarket("auctions", a, [auction EXCEPT !.status = "ended"])
          \/ /\ ~auction.over /\ amount > auction.bid /\ bal[bidder] >= amount
             /\ SaveMarket("auctions", a, [auction EXCEPT !.bid = amount, !.bidder = bidder, !.bids = TRUE])
       /\ UNCHANGED <<bal, req, items>>

AuctionTimeOver(a) ==
    /\ ~market.auctions[a].over
    /\ SaveMarket("auctions", a, [market.auctions[a] EXCEPT !.over = TRUE])
    /\ UNCHANGED <<bal, req, items>>

-----------------------------------------------------------------------------
(* buy, accept_offer, finalize_auction, and _settle_sale under them *)

\* A sale of token t; via says which offer or auction it closes, 0 for a listing.
BeginSale(h, t, buyer, seller, price, via) ==
    /\ bal[buyer] >= price
    /\ Begins(h, Request("sale", "debit", <<t, via>>, <<buyer, seller>>, price))

Buy(h, t, buyer) ==
    LET token == market.tokens[t]
    IN /\ MarketLockFree /\ token.forSale /\ token.price > 0 /\ buyer # token.owner
       /\ BeginSale(h, t, buyer, token.owner, token.price, 0)
       /\ UNCHANGED <<bal, items, market, marketDb>>

AcceptOffer(h, o, seller) ==
    LET offer == market.offers[o]
    IN /\ MarketLockFree /\ offer.status = "pending" /\ Owns(offer.token, seller)
       /\ BeginSale(h, offer.token, offer.bidder, seller, offer.price, o)
       /\ UNCHANGED <<bal, items, market, marketDb>>

\* Mutant: the coins go to whoever opened the auction.
PaidForAuctionOpener(auction) == auction.seller

\* The coins go to the owner the token has by then.
PaidForAuction(auction) == market.tokens[auction.token].owner

FinalizeAuction(h, a) ==
    LET auction == market.auctions[a]
        sold == auction.bids /\ auction.bid >= auction.reserve
        Closes(status) == SaveMarket("auctions", a, [auction EXCEPT !.status = status])
    IN /\ MarketLockFree /\ auction.status = "active"
       /\ \/ sold /\ Closes("finalized")
                  /\ BeginSale(h, auction.token, auction.bidder, PaidForAuction(auction), auction.bid, 0)
          \/ sold /\ bal[auction.bidder] < auction.bid /\ Closes("settlement_failed") /\ UNCHANGED req
          \/ ~sold /\ Closes("finalized") /\ UNCHANGED req
       /\ UNCHANGED <<bal, items>>

SaleDebit(h) ==
    /\ At(h, "sale", "debit")
    /\ UpdateBalance(req[h].user[1], -req[h].amt)
    /\ Goes(h, "pay")
    /\ UNCHANGED <<items, market, marketDb>>

SalePay(h) ==
    /\ At(h, "sale", "pay")
    /\ UpdateBalance(req[h].user[2], req[h].amt - Royalty(req[h].amt))
    /\ Goes(h, "royalty")
    /\ UNCHANGED <<items, market, marketDb>>

\* The creator gets the royalty unless the creator is the seller: then nobody does.
SaleRoyalty(h) ==
    /\ At(h, "sale", "royalty")
    /\ LET creator == market.tokens[req[h].id[1]].creator
       IN IF creator = req[h].user[2] THEN UNCHANGED bal ELSE UpdateBalance(creator, Royalty(req[h].amt))
    /\ Goes(h, "hand")
    /\ UNCHANGED <<items, market, marketDb>>

SaleHand(h) ==
    /\ At(h, "sale", "hand")
    /\ SaveMarket("tokens", req[h].id[1], HandedOver(req[h].id[1], req[h].user[1]))
    /\ IF req[h].id[2] = 0 THEN Ends(h) ELSE Goes(h, "close")
    /\ UNCHANGED <<bal, items>>

SaleClose(h) ==
    /\ At(h, "sale", "close")
    /\ LET o == req[h].id[2] IN SaveMarket("offers", o, [market.offers[o] EXCEPT !.status = "accepted"])
    /\ Ends(h)
    /\ UNCHANGED <<bal, items>>

-----------------------------------------------------------------------------
(* The REST endpoints *)

PostNftMint(h) == \E t \in Tokens, u \in Users, x \in Amounts \cup {0} : Mint(h, t, u, x)
PostNftBuy(h) == \E t \in DOMAIN market.tokens, u \in Users : Buy(h, t, u)
PostNftList == \E t \in DOMAIN market.tokens, u \in Users, x \in Amounts : ListForSale(t, u, x)
PostNftTransfer == \E t \in DOMAIN market.tokens, u, v \in Users : TransferToken(t, u, v)
PostNftOffer == \E t \in DOMAIN market.tokens, u \in Users, x \in Amounts : MakeOffer(t, u, x)
PostNftAcceptOffer(h) == \E o \in DOMAIN market.offers, u \in Users : AcceptOffer(h, o, u)
PostNftAuction == \E t \in DOMAIN market.tokens, u \in Users, x, r \in Amounts : CreateAuction(t, u, x, r)
PostNftBid == \E a \in DOMAIN market.auctions, u \in Users, x \in Amounts : PlaceBid(a, u, x)
PostNftFinalizeAuction(h) == \E a \in DOMAIN market.auctions : FinalizeAuction(h, a)

\* _load_genesis_collection, when there are no tokens yet.
GenesisCollection == [t \in {GenesisToken} |-> Token(GenesisOwner, GenesisPrice)]

\* A new NFTMarketplace reads the tables.
MarketRestart == market' = marketDb /\ UNCHANGED marketDb

MarketInit ==
    /\ market = [tokens |-> GenesisCollection, offers |-> Nothing, auctions |-> Nothing]
    /\ marketDb = market

MarketNext ==
    \/ \E h \in Handlers :
          \/ PostNftMint(h) \/ MintDebit(h) \/ MintSave(h)
          \/ PostNftBuy(h) \/ PostNftAcceptOffer(h) \/ PostNftFinalizeAuction(h)
          \/ SaleDebit(h) \/ SalePay(h) \/ SaleRoyalty(h) \/ SaleHand(h) \/ SaleClose(h)
    \/ PostNftList \/ PostNftTransfer \/ PostNftOffer \/ PostNftAuction \/ PostNftBid
    \/ \E a \in DOMAIN market.auctions : AuctionTimeOver(a)

-----------------------------------------------------------------------------
(* Properties *)

\* What a sale has taken from the buyer and not paid out yet.
SaleHolds(h) ==
    CASE At(h, "sale", "pay") -> req[h].amt
    []   At(h, "sale", "royalty") -> Royalty(req[h].amt)
    []   OTHER -> 0

\* Until the token is handed over, the one who is paid for it is the one who has
\* it, also for an auction whose token changed hands after it was opened.
PaidIsOwner ==
    \A h \in Handlers : req[h].op = "sale" /\ req[h].step # "close"
        => market.tokens[req[h].id[1]].owner = req[h].user[2]
=============================================================================

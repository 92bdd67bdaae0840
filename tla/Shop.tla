-------------------------------- MODULE Shop --------------------------------
(***************************************************************************)
(* The points shop (shop_core.go, points_routes.go): products, card codes, *)
(* orders and their delivery by card, by webhook or by hand.               *)
(*                                                                         *)
(* placeOrder and finishOrder are one transaction each.  A webhook order   *)
(* is then dispatched by a goroutine of its own, and again by every retry; *)
(* the answer of the delivery system, its callbacks and the administrators *)
(* race for the end of the order.  The handlers that edit or delete a      *)
(* product run statement by statement.  A restart forgets all of them.     *)
(***************************************************************************)
EXTENDS PointsCore, FiniteSets, FiniteSetsExt

CONSTANTS Products,     \* product ids
          Cards,        \* ids of card rows, in the order of import
          Orders,       \* ids of orders, in the order they are placed
          Req,          \* admin handlers in flight at most
          Catalogue,    \* the product rows administrators create
          Patches,      \* what a PUT may change: functions on some columns
          Replies,      \* how the delivery system may answer
          Disturbances, \* which of "put", "delete" and "restart" happen
          MaxQty,       \* pieces of one order at most (20 in the code)
          TopUps,       \* credits from elsewhere
          MaxLedger     \* bound: journal entries up to which others credit

Columns == [price : Nat, delivery : {"cdk", "webhook", "manual"}, stock : Int,
            limit : Nat, sold : Int, enabled : BOOLEAN]

\* A row that was deleted is written again by a Save of it (an upsert).
Product == [state : {"none", "live", "deleted"}, row : Columns]
Card    == [state : {"none", "row", "gone"}, product : Products \cup {None},
            order : Orders \cup {None}]

Live == {"pending", "processing"}
Refunded == {"failed", "canceled"}
Order == [status : Live \cup Refunded \cup {"none", "delivered"},
          user : Users \cup {None}, product : Products \cup {None}, qty : Nat,
          total : Int, delivery : {"none", "cdk", "webhook", "manual"},
          content : SUBSET Cards]
NoOrder == [status |-> "none", user |-> None, product |-> None, qty |-> 0,
            total |-> 0, delivery |-> "none", content |-> {}]

Idle == [at |-> "idle"]
Handler == {Idle}
    \cup [at : {"queued", "posting"}, order : Orders]
    \cup [at : {"edit"}, product : Products, row : Columns]
    \cup [at : {"import", "disable", "dropCards", "dropRow"}, product : Products]

ASSUME ShopAssumption ==
    /\ Catalogue \in [Products -> Columns]
    /\ \A p \in Products : Catalogue[p].sold = 0
    /\ \A patch \in Patches :
          /\ "price" \in DOMAIN patch => patch.price \in Nat
          /\ "delivery" \in DOMAIN patch => patch.delivery \in {"cdk", "webhook", "manual"}
          /\ "stock" \in DOMAIN patch => patch.stock \in Int
          /\ "limit" \in DOMAIN patch => patch.limit \in Nat
          /\ "enabled" \in DOMAIN patch => patch.enabled \in BOOLEAN
    /\ Cards \subseteq Nat /\ IsFiniteSet(Cards) /\ Orders \subseteq Nat /\ Orders \subseteq Refs
    /\ Orders \cap Req = {}
    /\ None \notin Users \cup Products \cup Orders
    /\ Replies \subseteq {"ok", "failed", "error", "pending"}
    /\ MaxQty \in Nat /\ TopUps \subseteq Nat \ {0} /\ MaxLedger \in Nat

VARIABLES products,   \* [Products -> Product]
          cards,      \* [Cards -> Card]
          orders,     \* [Orders -> Order]
          h,          \* goroutines: the first dispatch of an order, handlers
          overtaken   \* history: products that changed during an edit or a deletion

shop == <<accounts, ledger, products, cards, orders, h>>
vars == <<shop, overtaken>>

Goto(j, s) == h' = [h EXCEPT ![j] = s]

-----------------------------------------------------------------------------
\* POST /shop/admin/products.
CreateProduct(p) ==
    /\ products[p].state = "none"
    /\ products' = [products EXCEPT ![p] = [state |-> "live", row |-> Catalogue[p]]]
    /\ UNCHANGED <<accounts, ledger, cards, orders, h>>

\* productInput.apply: what was sent replaces what was read.
Patched(row, patch) ==
    [price    |-> IF "price" \in DOMAIN patch THEN patch.price ELSE row.price,
     delivery |-> IF "delivery" \in DOMAIN patch THEN patch.delivery ELSE row.delivery,
     stock    |-> IF "stock" \in DOMAIN patch THEN patch.stock ELSE row.stock,
     limit    |-> IF "limit" \in DOMAIN patch THEN patch.limit ELSE row.limit,
     sold     |-> row.sold,
     enabled  |-> IF "enabled" \in DOMAIN patch THEN patch.enabled ELSE row.enabled]

\* PUT /shop/admin/products/:id reads the row and applies what was sent ...
StartEdit(r, p, patch) ==
    /\ h[r] = Idle /\ products[p].state = "live" /\ "put" \in Disturbances
    /\ Goto(r, [at |-> "edit", product |-> p, row |-> Patched(products[p].row, patch)])
    /\ UNCHANGED <<accounts, ledger, products, cards, orders>>

\* ... and saves every column of it, the ones it was not sent included.
SaveProduct(r) ==
    /\ h[r].at = "edit"
    /\ products' = [products EXCEPT ![h[r].product] = [state |-> "live", row |-> h[r].row]]
    /\ Goto(r, Idle)
    /\ UNCHANGED <<accounts, ledger, cards, orders>>

\* DELETE /shop/admin/products/:id: a product with orders is only disabled.
StartDelete(r, p) ==
    /\ h[r] = Idle /\ products[p].state = "live" /\ "delete" \in Disturbances
    /\ Goto(r, [at |-> IF \E o \in Orders : orders[o].product = p
                       THEN "disable" ELSE "dropCards", product |-> p])
    /\ UNCHANGED <<accounts, ledger, products, cards, orders>>

DisableProduct(r) ==
    /\ h[r].at = "disable"
    /\ products' = [products EXCEPT ![h[r].product].row.enabled = FALSE]
    /\ Goto(r, Idle)
    /\ UNCHANGED <<accounts, ledger, cards, orders>>

DropCards(r) ==
    /\ h[r].at = "dropCards"
    /\ cards' = [c \in Cards |-> IF cards[c].product = h[r].product
                                 THEN [cards[c] EXCEPT !.state = "gone"] ELSE cards[c]]
    /\ Goto(r, [at |-> "dropRow", product |-> h[r].product])
    /\ UNCHANGED <<accounts, ledger, products, orders>>

DropRow(r) ==
    /\ h[r].at = "dropRow"
    /\ products' = [products EXCEPT ![h[r].product].state = "deleted"]
    /\ Goto(r, Idle)
    /\ UNCHANGED <<accounts, ledger, cards, orders>>

\* POST /shop/admin/products/:id/cards, one card at a time.
StartImport(r, p) ==
    /\ h[r] = Idle /\ products[p].state = "live" /\ products[p].row.delivery = "cdk"
    /\ Goto(r, [at |-> "import", product |-> p])
    /\ UNCHANGED <<accounts, ledger, products, cards, orders>>

ImportCard(r) ==
    /\ h[r].at = "import"
    /\ \E c \in Cards :
          /\ \A d \in Cards : cards[d].state = "none" <=> d >= c
          /\ cards' = [cards EXCEPT ![c] = [state |-> "row", product |-> h[r].product,
                                            order |-> None]]
    /\ Goto(r, Idle)
    /\ UNCHANGED <<accounts, ledger, products, orders>>

\* DELETE /shop/admin/cards/:id: only a card that was not given out.
DeleteCard(c) ==
    /\ cards[c].state = "row" /\ cards[c].order = None
    /\ cards' = [cards EXCEPT ![c].state = "gone"]
    /\ UNCHANGED <<accounts, ledger, products, orders, h>>

-----------------------------------------------------------------------------
Sum(S) == MapThenSumSet(LAMBDA o : orders[o].qty, S)

\* Orders that count: placed and neither failed nor canceled.
Kept(p) == {o \in Orders : orders[o].product = p /\ orders[o].status \notin Refunded}

Bought(u, p) == Sum({o \in Kept(p) : orders[o].user = u})

\* Mutant: a card that was given out is still on offer.
Mut_FreeCardsAll(p) == {c \in Cards : cards[c].state = "row" /\ cards[c].product = p}

FreeCards(p) == {c \in Cards : /\ cards[c].state = "row"
                               /\ cards[c].product = p /\ cards[c].order = None}
\* The cards of lowest id, as many as there are pieces.
Picked(p, q) == {c \in FreeCards(p) : Cardinality({d \in FreeCards(p) : d <= c}) <= q}

InStock(p, q) ==
    LET row == products[p].row
    IN  IF row.delivery = "cdk" THEN Cardinality(FreeCards(p)) >= q
        ELSE row.stock >= 0 => row.stock >= q

InitialStatus(delivery) ==
    CASE delivery = "cdk"     -> "delivered"
      [] delivery = "webhook" -> "processing"
      [] delivery = "manual"  -> "pending"

Charge(o, u, total) ==
    [user |-> u, delta |-> -total, kind |-> "order", ref |-> o, key |-> None]

\* placeOrder; an attempt that fails leaves nothing behind.
PlaceOrder(o, u, p, q) ==
    LET row == products[p].row
        content == IF row.delivery = "cdk" THEN Picked(p, q) ELSE {}
    IN  /\ \A x \in Orders : orders[x].status = "none" <=> x >= o
        /\ products[p].state = "live" /\ row.enabled
        /\ row.limit > 0 => Bought(u, p) + q <= row.limit
        /\ InStock(p, q)
        /\ Apply(Charge(o, u, row.price * q))
        /\ orders' = [orders EXCEPT ![o] =
               [status |-> InitialStatus(row.delivery), user |-> u, product |-> p,
                qty |-> q, total |-> row.price * q, delivery |-> row.delivery,
                content |-> content]]
        /\ cards' = [c \in Cards |-> IF c \in content THEN [cards[c] EXCEPT !.order = o]
                                     ELSE cards[c]]
        /\ products' = [products EXCEPT
               ![p].row.sold = @ + q,
               ![p].row.stock = IF row.delivery # "cdk" /\ @ >= 0 THEN @ - q ELSE @]
        /\ h' = IF row.delivery = "webhook"
                THEN [h EXCEPT ![o] = [at |-> "queued", order |-> o]] ELSE h

\* Mutant: the price is the one of now.
Mut_RefundPriceNow(o) ==
    [user |-> orders[o].user, kind |-> "refund", ref |-> o, key |-> <<"refund", o>>,
     delta |-> products[orders[o].product].row.price * orders[o].qty]

\* The refund of finishOrder: what was paid, keyed by the order.
Refund(o) ==
    [user |-> orders[o].user, delta |-> orders[o].total, kind |-> "refund",
     ref |-> o, key |-> <<"refund", o>>]

\* Mutant: the stock is not given back.
Mut_NoRestock(o) ==
    [products[orders[o].product].row EXCEPT !.sold = IF @ >= orders[o].qty
                                                     THEN @ - orders[o].qty ELSE @]

\* The stock goes back to the product as it is now.
Restocked(o) ==
    LET row == products[orders[o].product].row
        q == orders[o].qty
    IN  [row EXCEPT !.stock = IF row.delivery # "cdk" /\ @ >= 0 THEN @ + q ELSE @,
                    !.sold = IF @ >= q THEN @ - q ELSE @]

\* Mutant: any order can be ended, again if need be.
Mut_CanEndAgain(o) == orders[o].status # "none"

CanEnd(o) == orders[o].status \in Live

\* finishOrder committed.
FinishOrder(o, status) ==
    /\ CanEnd(o)
    /\ orders' = [orders EXCEPT ![o].status = status]
    /\ IF status \in Refunded
       THEN /\ products' = IF products[orders[o].product].state = "live"
                           THEN [products EXCEPT ![orders[o].product].row = Restocked(o)]
                           ELSE products
            /\ \/ Apply(Refund(o))
               \/ Outcome(Refund(o)) = "duplicate" /\ UNCHANGED ledgerVars
       ELSE UNCHANGED <<accounts, ledger, products>>
    /\ UNCHANGED cards

-----------------------------------------------------------------------------
\* dispatchWebhookOrder gives up when the order has ended or its product is
\* gone; otherwise it posts the order.
StartDispatch(j) ==
    LET o == h[j].order
    IN  /\ h[j].at = "queued"
        /\ Goto(j, IF orders[o].status = "processing"
                      /\ products[orders[o].product].state = "live"
                   THEN [at |-> "posting", order |-> o] ELSE Idle)
        /\ UNCHANGED <<accounts, ledger, products, cards, orders>>

ReplyStatus(reply) == IF reply = "ok" THEN "delivered" ELSE "failed"

\* Mutant: a post that fails leaves the order waiting.
Mut_ErrorWaits(j, reply) ==
    LET o == h[j].order
    IN  /\ h[j].at = "posting"
        /\ Goto(j, Idle)
        /\ IF reply \notin {"pending", "error"} /\ CanEnd(o)
           THEN FinishOrder(o, ReplyStatus(reply))
           ELSE UNCHANGED <<accounts, ledger, products, cards, orders>>

\* A 2xx answer, an answer outside 2xx, or none within 15 s ("error").  When
\* the order has ended meanwhile, the answer changes nothing.
DispatchReply(j, reply) ==
    LET o == h[j].order
    IN  /\ h[j].at = "posting"
        /\ Goto(j, Idle)
        /\ IF reply # "pending" /\ CanEnd(o)
           THEN FinishOrder(o, ReplyStatus(reply))
           ELSE UNCHANGED <<accounts, ledger, products, cards, orders>>

\* POST /shop/admin/orders/:id/retry posts the order again.
RetryOrder(r, o) ==
    /\ h[r] = Idle /\ orders[o].status = "processing"
    /\ Goto(r, [at |-> "queued", order |-> o])
    /\ UNCHANGED <<accounts, ledger, products, cards, orders>>

\* The deliver callback and the administrator's deliver; the fail callback;
\* the administrator's cancel.  Each ends an order of any kind that is live.
Deliver(o) == FinishOrder(o, "delivered") /\ UNCHANGED h
Fail(o)    == FinishOrder(o, "failed") /\ UNCHANGED h
Cancel(o)  == FinishOrder(o, "canceled") /\ UNCHANGED h

-----------------------------------------------------------------------------
\* Any credit from outside the shop.
TopUp(u, n) ==
    /\ Len(ledger) < MaxLedger
    /\ Apply([user |-> u, delta |-> n, kind |-> "admin", ref |-> None, key |-> None])
    /\ UNCHANGED <<products, cards, orders, h>>

Restart ==
    /\ "restart" \in Disturbances
    /\ h' = [j \in Orders \cup Req |-> Idle]
    /\ UNCHANGED <<accounts, ledger, products, cards, orders>>

Init ==
    /\ LedgerInit
    /\ products = [p \in Products |-> [state |-> "none", row |-> Catalogue[p]]]
    /\ cards = [c \in Cards |-> [state |-> "none", product |-> None, order |-> None]]
    /\ orders = [o \in Orders |-> NoOrder]
    /\ h = [j \in Orders \cup Req |-> Idle]
    /\ overtaken = {}

AdminStep(r) ==
    \/ SaveProduct(r)
    \/ DisableProduct(r)
    \/ DropCards(r)
    \/ DropRow(r)
    \/ ImportCard(r)
    \/ \E o \in Orders : RetryOrder(r, o)
    \/ \E p \in Products : \/ StartDelete(r, p)
                           \/ StartImport(r, p)
                           \/ \E patch \in Patches : StartEdit(r, p, patch)

OrderStep(o) ==
    \/ Deliver(o)
    \/ Fail(o)
    \/ Cancel(o)
    \/ \E u \in Users, p \in Products, q \in 1..MaxQty : PlaceOrder(o, u, p, q)

DispatchStep(j) ==
    \/ StartDispatch(j)
    \/ \E reply \in Replies : DispatchReply(j, reply)

ShopStep ==
    \/ \E p \in Products : CreateProduct(p)
    \/ \E c \in Cards : DeleteCard(c)
    \/ \E r \in Req : AdminStep(r)
    \/ \E o \in Orders : OrderStep(o)
    \/ \E j \in Orders \cup Req : DispatchStep(j)
    \/ \E u \in Users, n \in TopUps : TopUp(u, n)
    \/ Restart

\* The products whose rows change while an edit that has read them waits, and
\* those that go although an order came after the count of their orders.
Overtaken ==
    {p \in Products :
        \/ /\ products'[p].row # products[p].row
           /\ \E r \in Req : h[r].at = "edit" /\ h[r].product = p /\ h'[r] = h[r]
        \/ products'[p].state = "deleted" /\ \E o \in Orders : orders[o].product = p}

Next == ShopStep /\ overtaken' = overtaken \cup Overtaken

\* A goroutine that can run does, and the HTTP client ends a post in 15 s.
Fairness == \A j \in Orders \cup Req : WF_shop(DispatchStep(j))

Spec == Init /\ [][Next]_vars /\ Fairness

-----------------------------------------------------------------------------
\* The types of the variables.
TypeOK ==
    /\ LedgerTypeOK
    /\ products \in [Products -> Product]
    /\ cards \in [Cards -> Card]
    /\ orders \in [Orders -> Order]
    /\ h \in [Orders \cup Req -> Handler]
    /\ overtaken \subseteq Products

EntriesOf(o, kind) == {i \in DOMAIN ledger : ledger[i].kind = kind /\ ledger[i].ref = o}

\* "失败或取消的订单会退还积分并回补库存，同一订单只退一次" (README.md:57): every
\* order was charged once, and has its points back once if and only if it
\* failed or was canceled, whoever raced for its end and however often.
MoneyFollowsStatus ==
    \A o \in Orders :
        LET ord == orders[o]
            once(S, d) == \E i \in S : /\ S = {i}
                                       /\ ledger[i].user = ord.user /\ ledger[i].delta = d
        IN  /\ IF ord.status = "none" THEN EntriesOf(o, "order") = {}
               ELSE once(EntriesOf(o, "order"), -ord.total)
            /\ IF ord.status \in Refunded THEN once(EntriesOf(o, "refund"), ord.total)
               ELSE EntriesOf(o, "refund") = {}

\* "兑换时原子分配" (shop_core.go:26, README.md:53): an order by card has as many
\* cards as pieces, no card is given out twice, and none that was given out
\* is offered again, deleted products and cards included.
CardsGivenOnce ==
    /\ \A o \in Orders : orders[o].delivery = "cdk"
                            => Cardinality(orders[o].content) = orders[o].qty
    /\ \A o1, o2 \in Orders : o1 # o2 => orders[o1].content \cap orders[o2].content = {}
    /\ \A c \in Cards : \A o \in Orders : cards[c].order = o <=> c \in orders[o].content

\* Rows have their types, and cards their orders (shop_core.go:291-308).
ShopInv == TypeOK /\ CardsGivenOnce

\* "失败或取消的订单会退还积分并回补库存" (README.md:57): what was sold is what the kept
\* orders hold, and with what is left it adds up to what there was, however
\* often the product is edited, unless an order or another edit came between
\* the two statements of an edit (points_routes.go:506-522), or an order between
\* those of a deletion (points_routes.go:536-546).
StockConserved ==
    \A p \in Products \ overtaken :
        /\ products[p].row.sold = Sum(Kept(p))
        /\ Catalogue[p].stock >= 0 /\ Catalogue[p].delivery # "cdk"
            => /\ products[p].row.stock >= 0
               /\ products[p].row.stock + Sum(Kept(p)) = Catalogue[p].stock

\* The limit per user (shop_core.go:269-276) counts every order that is kept, whatever ended before.
LimitRespected ==
    \A u \in Users, p \in Products :
        Catalogue[p].limit > 0 => Bought(u, p) <= Catalogue[p].limit

\* Stock, sold and the limits, as one invariant of placeOrder and finishOrder
\* (shop_core.go:252-402).
StockInv == StockConserved /\ LimitRespected

\* "非 2xx 或超时同样按失败退款处理" (README.md:91): when the delivery system
\* does not ask to wait, every order posted to it ends.
ProcessingEnds == \A o \in Orders : orders[o].status = "processing"
                                       ~> orders[o].status # "processing"

\* What the shop promises: points in escrow go one way, once.
EscrowState(status) ==
    CASE status = "none"      -> "none"
      [] status \in Live      -> "held"
      [] status = "delivered" -> "settled"
      [] OTHER                -> "returned"

Escrow == INSTANCE OrderEscrow WITH
    Nobody <- None,
    wallet <- [u \in Users |-> accounts[u].balance],
    escrow <- [o \in Orders |-> [state  |-> EscrowState(orders[o].status),
                                 user   |-> orders[o].user,
                                 amount |-> orders[o].total]]

EscrowSpec == Escrow!Spec
=============================================================================

----------------------------- MODULE ShopProofs -----------------------------
(***************************************************************************)
(* The shop for any number of users, products, cards, orders and handlers: *)
(* rows keep their types, money follows the status of every order, cards   *)
(* are given once, stock and limits count the kept orders, and Shop        *)
(* implements OrderEscrow.                                                 *)
(***************************************************************************)
EXTENDS Shop, PointsCoreProofs, FiniteSetTheorems, NaturalsInduction,
        WellFoundedInduction

RowsTypeOK ==
    /\ products \in [Products -> Product]
    /\ cards \in [Cards -> Card]
    /\ orders \in [Orders -> Order]
    /\ h \in [Orders \cup Req -> Handler]
    /\ overtaken \subseteq Products

\* An order that was placed has a buyer and a product; one that was not is blank.
Placed ==
    \A o \in Orders : IF orders[o].status = "none" THEN orders[o] = NoOrder
                      ELSE orders[o].user \in Users /\ orders[o].product \in Products

\* Only refunds have keys, and the key names the order that is refunded.
RefundKeys ==
    \A i \in DOMAIN ledger :
        \/ ledger[i].key = None
        \/ ledger[i].kind = "refund" /\ ledger[i].key = <<"refund", ledger[i].ref>>

-----------------------------------------------------------------------------
\* What a goroutine holds between its steps.
LEMMA Held ==
    ASSUME RowsTypeOK, NEW j \in Orders \cup Req
    PROVE  /\ h[j].at \in {"queued", "posting"} => h[j].order \in Orders
           /\ h[j].at = "edit" => h[j].product \in Products /\ h[j].row \in Columns
           /\ h[j].at \in {"import", "disable", "dropCards", "dropRow"}
                => h[j].product \in Products
BY DEF RowsTypeOK, Handler, Idle

\* A goroutine that goes on keeps the types of the others.
LEMMA GotoKeepsHandlers ==
    ASSUME RowsTypeOK, NEW j \in Orders \cup Req, NEW s \in Handler, Goto(j, s)
    PROVE  h' \in [Orders \cup Req -> Handler]
BY DEF RowsTypeOK, Goto

\* productInput.apply returns a product row.
LEMMA PatchedIsRow ==
    ASSUME NEW row \in Columns, NEW patch \in Patches
    PROVE  Patched(row, patch) \in Columns
BY ShopAssumption DEF Patched, Columns

LEMMA PlaceOrderTypes ==
    ASSUME RowsTypeOK, LedgerInv, NEW o \in Orders, NEW u \in Users, NEW p \in Products,
           NEW q \in 1..MaxQty, PlaceOrder(o, u, p, q)
    PROVE  /\ Charge(o, u, products[p].row.price * q) \in Op
           /\ Apply(Charge(o, u, products[p].row.price * q))
           /\ products' \in [Products -> Product]
           /\ cards' \in [Cards -> Card]
           /\ orders' \in [Orders -> Order]
           /\ h' \in [Orders \cup Req -> Handler]
<1> DEFINE row == products[p].row
           total == row.price * q
           content == IF row.delivery = "cdk" THEN Picked(p, q) ELSE {}
<1>1. row \in Columns /\ products[p] \in Product
  BY DEF RowsTypeOK, Product
<1>2. row.price \in Nat /\ q \in Nat /\ row.stock \in Int /\ row.sold \in Int
      /\ row.delivery \in {"cdk", "webhook", "manual"}
  BY <1>1, ShopAssumption DEF Columns
<1>3. total \in Nat
  BY <1>2
<1>4. o \in Refs /\ Orders \subseteq Refs
  BY ShopAssumption
<1>5. Charge(o, u, total) \in Op
  BY <1>3, <1>4 DEF Charge, Op, Kinds
<1>6. content \subseteq Cards
  BY DEF Picked, FreeCards
<1>7. orders' \in [Orders -> Order]
  <2> DEFINE new == [status |-> InitialStatus(row.delivery), user |-> u, product |-> p,
                     qty |-> q, total |-> total, delivery |-> row.delivery,
                     content |-> content]
  <2>1. InitialStatus(row.delivery) \in Live \cup {"delivered"}
    BY <1>2 DEF InitialStatus, Live
  <2>2. new \in Order
    BY <1>2, <1>3, <1>6, <2>1 DEF Order
  <2>3. orders' = [orders EXCEPT ![o] = new]
    BY DEF PlaceOrder
  <2> HIDE DEF new
  <2> QED
    BY <2>2, <2>3 DEF RowsTypeOK
<1>8. cards' \in [Cards -> Card]
  <2>1. \A c \in Cards : [cards[c] EXCEPT !.order = o] \in Card
    BY DEF RowsTypeOK, Card
  <2>2. cards' = [c \in Cards |-> IF c \in content THEN [cards[c] EXCEPT !.order = o]
                                  ELSE cards[c]]
    BY DEF PlaceOrder
  <2> QED
    BY <2>1, <2>2 DEF RowsTypeOK
<1>9. products' \in [Products -> Product]
  <2> DEFINE sold == row.sold + q
             stock == IF row.delivery # "cdk" /\ row.stock >= 0 THEN row.stock - q
                      ELSE row.stock
             newrow == [row EXCEPT !.sold = sold, !.stock = stock]
  <2>a. sold \in Int /\ stock \in Int
    BY <1>2
  <2>1. newrow \in Columns
    <3> HIDE DEF sold, stock, row
    <3> QED BY <1>1, <2>a DEF Columns
  <2>2. products' = [products EXCEPT ![p].row = newrow]
    BY DEF PlaceOrder
  <2> HIDE DEF newrow
  <2> QED
    BY <2>1, <2>2 DEF RowsTypeOK, Product
<1>10. h' \in [Orders \cup Req -> Handler]
  <2>1. [at |-> "queued", order |-> o] \in Handler
    BY DEF Handler
  <2> QED
    BY <2>1 DEF PlaceOrder, RowsTypeOK
<1> QED
  BY <1>5, <1>7, <1>8, <1>9, <1>10 DEF PlaceOrder

LEMMA FinishOrderTypes ==
    ASSUME RowsTypeOK, Placed, NEW o \in Orders,
           NEW status \in Refunded \cup {"delivered"}, FinishOrder(o, status)
    PROVE  /\ orders[o].user \in Users /\ orders[o].product \in Products
           /\ Refund(o) \in Op
           /\ products' \in [Products -> Product]
           /\ cards' \in [Cards -> Card]
           /\ orders' \in [Orders -> Order]
<1> DEFINE p == orders[o].product
           row == products[p].row
           q == orders[o].qty
<1>1. /\ orders[o] \in Order
      /\ orders[o].status \in Live
      /\ orders[o].status # "none"
  BY DEF RowsTypeOK, FinishOrder, CanEnd, Live
<1>2. orders[o].user \in Users /\ p \in Products
  BY <1>1 DEF Placed
<1>3. o \in Refs
  BY ShopAssumption
<1>4. Refund(o) \in Op
  BY <1>1, <1>2, <1>3 DEF Refund, Op, Kinds, Keys, Order
<1>5. orders' \in [Orders -> Order]
  <2>1. [orders[o] EXCEPT !.status = status] \in Order
    BY <1>1 DEF Order
  <2>2. orders' = [orders EXCEPT ![o].status = status]
    BY DEF FinishOrder
  <2> QED
    BY <2>1, <2>2 DEF RowsTypeOK
<1>6. products[p] \in Product /\ row \in Columns /\ q \in Nat
  BY <1>1, <1>2 DEF RowsTypeOK, Product, Order
<1>7. Restocked(o) \in Columns
  <2> DEFINE stock == IF row.delivery # "cdk" /\ row.stock >= 0 THEN row.stock + q
                      ELSE row.stock
             sold == IF row.sold >= q THEN row.sold - q ELSE row.sold
  <2>1. stock \in Int /\ sold \in Int
    BY <1>6 DEF Columns
  <2>2. Restocked(o) = [row EXCEPT !.stock = stock, !.sold = sold]
    BY DEF Restocked
  <2> HIDE DEF stock, sold, row
  <2> QED
    BY <1>6, <2>1, <2>2 DEF Columns
<1>8. products' \in [Products -> Product]
  <2>1. CASE status \in Refunded /\ products[p].state = "live"
    <3>1. products' = [products EXCEPT ![p].row = Restocked(o)]
      BY <2>1 DEF FinishOrder
    <3>2. [products[p] EXCEPT !.row = Restocked(o)] \in Product
      BY <1>6, <1>7 DEF Product
    <3> QED
      BY <3>1, <3>2 DEF RowsTypeOK
  <2>2. CASE ~(status \in Refunded /\ products[p].state = "live")
    <3>1. products' = products
      BY <2>2 DEF FinishOrder
    <3> QED
      BY <3>1 DEF RowsTypeOK
  <2> QED
    BY <2>1, <2>2
<1>9. cards' \in [Cards -> Card]
  BY DEF FinishOrder, RowsTypeOK
<1> QED
  BY <1>2, <1>4, <1>5, <1>8, <1>9

-----------------------------------------------------------------------------
\* No order was ever written on a card that was not imported.
FreshCards == \A c \in Cards : cards[c].state = "none" => cards[c].order = None

\* A step that neither places nor ends an order nor moves points.
Quiet ==
    /\ UNCHANGED <<accounts, ledger, orders>>
    /\ \A c \in Cards : /\ cards'[c].order = cards[c].order
                        /\ cards'[c].state = "none" => cards[c].state = "none"

LEMMA ProductStepIsQuiet ==
    ASSUME RowsTypeOK, NEW p \in Products, CreateProduct(p)
    PROVE  Quiet /\ products' \in [Products -> Product] /\ UNCHANGED <<cards, h>>
<1>1. [state |-> "live", row |-> Catalogue[p]] \in Product
  BY ShopAssumption DEF Product
<1> QED
  BY <1>1 DEF CreateProduct, Quiet, RowsTypeOK

LEMMA DeleteCardIsQuiet ==
    ASSUME RowsTypeOK, NEW c \in Cards, DeleteCard(c)
    PROVE  Quiet /\ cards' \in [Cards -> Card] /\ UNCHANGED <<products, h>>
<1> DEFINE gone == [cards[c] EXCEPT !.state = "gone"]
<1>1. gone \in Card /\ gone.order = cards[c].order /\ gone.state = "gone"
  BY DEF RowsTypeOK, Card
<1>2. cards' = [cards EXCEPT ![c] = gone] /\ UNCHANGED <<accounts, ledger, orders, products, h>>
  BY DEF DeleteCard
<1> HIDE DEF gone
<1> QED
  BY <1>1, <1>2 DEF Quiet, RowsTypeOK

LEMMA EditIsQuiet ==
    ASSUME RowsTypeOK, NEW r \in Req,
           NEW p \in Products, NEW patch \in Patches, StartEdit(r, p, patch)
    PROVE  Quiet /\ h' \in [Orders \cup Req -> Handler] /\ UNCHANGED <<products, cards>>
<1>1. [at |-> "edit", product |-> p, row |-> Patched(products[p].row, patch)] \in Handler
  BY PatchedIsRow DEF RowsTypeOK, Product, Handler
<1> QED
  BY <1>1, GotoKeepsHandlers DEF StartEdit, Quiet

LEMMA SaveIsQuiet ==
    ASSUME RowsTypeOK, NEW r \in Req, SaveProduct(r)
    PROVE  /\ Quiet /\ h' \in [Orders \cup Req -> Handler]
           /\ products' \in [Products -> Product] /\ UNCHANGED cards
<1>1. h[r].product \in Products /\ h[r].row \in Columns
  BY Held DEF SaveProduct
<1>2. [state |-> "live", row |-> h[r].row] \in Product
  BY <1>1 DEF Product
<1>3. Idle \in Handler
  BY DEF Handler
<1> QED
  BY <1>1, <1>2, <1>3, GotoKeepsHandlers DEF SaveProduct, Quiet, RowsTypeOK

LEMMA DeleteIsQuiet ==
    ASSUME RowsTypeOK, NEW r \in Req,
           \/ \E p \in Products : StartDelete(r, p)
           \/ DisableProduct(r)
           \/ DropCards(r)
           \/ DropRow(r)
    PROVE  /\ Quiet /\ h' \in [Orders \cup Req -> Handler]
           /\ products' \in [Products -> Product] /\ cards' \in [Cards -> Card]
<1>1. Idle \in Handler
  BY DEF Handler
<1>2. ASSUME NEW p \in Products, StartDelete(r, p)
      PROVE  /\ Quiet /\ h' \in [Orders \cup Req -> Handler]
             /\ products' \in [Products -> Product] /\ cards' \in [Cards -> Card]
  <2> DEFINE at == IF \E o \in Orders : orders[o].product = p THEN "disable" ELSE "dropCards"
  <2>1. [at |-> at, product |-> p] \in Handler
    BY DEF Handler
  <2>2. Goto(r, [at |-> at, product |-> p])
    BY <1>2 DEF StartDelete
  <2> HIDE DEF at
  <2> QED
    BY <1>2, <2>1, <2>2, GotoKeepsHandlers DEF StartDelete, Quiet, RowsTypeOK
<1>3. ASSUME DisableProduct(r)
      PROVE  /\ Quiet /\ h' \in [Orders \cup Req -> Handler]
             /\ products' \in [Products -> Product] /\ cards' \in [Cards -> Card]
  <2> DEFINE p == h[r].product
             row == [products[p].row EXCEPT !.enabled = FALSE]
             new == [products[p] EXCEPT !.row = row]
  <2>1. p \in Products
    BY <1>3, Held DEF DisableProduct
  <2>2. products[p] \in Product /\ products[p].row \in Columns
    BY <2>1 DEF RowsTypeOK, Product
  <2>3. row \in Columns
    BY <2>2 DEF Columns
  <2>4. new \in Product
    <3> HIDE DEF row
    <3> QED BY <2>2, <2>3 DEF Product
  <2>5. products' = [products EXCEPT ![p] = new]
    BY <1>3 DEF DisableProduct
  <2> HIDE DEF new
  <2> QED
    BY <1>1, <1>3, <2>4, <2>5, GotoKeepsHandlers DEF DisableProduct, Quiet, RowsTypeOK
<1>4. ASSUME DropCards(r)
      PROVE  /\ Quiet /\ h' \in [Orders \cup Req -> Handler]
             /\ products' \in [Products -> Product] /\ cards' \in [Cards -> Card]
  <2>1. [at |-> "dropRow", product |-> h[r].product] \in Handler
    BY <1>4, Held DEF DropCards, Handler
  <2>2. \A c \in Cards : LET gone == [cards[c] EXCEPT !.state = "gone"]
                        IN  gone \in Card /\ gone.order = cards[c].order
                            /\ gone.state = "gone"
    BY DEF RowsTypeOK, Card
  <2>3. cards' = [c \in Cards |-> IF cards[c].product = h[r].product
                                  THEN [cards[c] EXCEPT !.state = "gone"] ELSE cards[c]]
    BY <1>4 DEF DropCards
  <2>4. cards' \in [Cards -> Card]
    BY <2>2, <2>3 DEF RowsTypeOK
  <2>5. \A c \in Cards : /\ cards'[c].order = cards[c].order
                        /\ cards'[c].state = "none" => cards[c].state = "none"
    BY <2>2, <2>3
  <2> QED
    BY <1>4, <2>1, <2>4, <2>5, GotoKeepsHandlers DEF DropCards, Quiet, RowsTypeOK
<1>5. ASSUME DropRow(r)
      PROVE  /\ Quiet /\ h' \in [Orders \cup Req -> Handler]
             /\ products' \in [Products -> Product] /\ cards' \in [Cards -> Card]
  <2> DEFINE p == h[r].product
             new == [products[p] EXCEPT !.state = "deleted"]
  <2>1. p \in Products
    BY <1>5, Held DEF DropRow
  <2>2. new \in Product
    BY <2>1 DEF RowsTypeOK, Product
  <2>3. products' = [products EXCEPT ![p] = new]
    BY <1>5 DEF DropRow
  <2> HIDE DEF new
  <2> QED
    BY <1>1, <1>5, <2>2, <2>3, GotoKeepsHandlers DEF DropRow, Quiet, RowsTypeOK
<1> QED
  BY <1>2, <1>3, <1>4, <1>5

LEMMA ImportIsQuiet ==
    ASSUME RowsTypeOK, FreshCards, NEW r \in Req,
           ImportCard(r) \/ \E p \in Products : StartImport(r, p)
    PROVE  /\ Quiet /\ h' \in [Orders \cup Req -> Handler]
           /\ cards' \in [Cards -> Card] /\ UNCHANGED products
<1>1. Idle \in Handler
  BY DEF Handler
<1>2. ASSUME NEW p \in Products, StartImport(r, p)
      PROVE  /\ Quiet /\ h' \in [Orders \cup Req -> Handler]
             /\ cards' \in [Cards -> Card] /\ UNCHANGED products
  <2>1. [at |-> "import", product |-> p] \in Handler
    BY DEF Handler
  <2> QED
    BY <1>2, <2>1, GotoKeepsHandlers DEF StartImport, Quiet, RowsTypeOK
<1>3. ASSUME ImportCard(r)
      PROVE  /\ Quiet /\ h' \in [Orders \cup Req -> Handler]
             /\ cards' \in [Cards -> Card] /\ UNCHANGED products
  <2>1. h[r].product \in Products
    BY <1>3, Held DEF ImportCard
  <2> DEFINE new == [state |-> "row", product |-> h[r].product, order |-> None]
  <2>2. PICK c \in Cards : /\ \A d \in Cards : cards[d].state = "none" <=> d >= c
                           /\ cards' = [cards EXCEPT ![c] = new]
    BY <1>3 DEF ImportCard
  <2>3. c >= c
    BY ShopAssumption
  <2>4. cards[c].state = "none" /\ cards[c].order = None
    BY <2>2, <2>3 DEF FreshCards
  <2>5. new \in Card /\ new.order = None /\ new.state = "row"
    BY <2>1 DEF Card
  <2>6. Goto(r, Idle) /\ UNCHANGED <<accounts, ledger, products, orders>>
    BY <1>3 DEF ImportCard
  <2> HIDE DEF new
  <2>7. cards' \in [Cards -> Card]
    BY <2>2, <2>5 DEF RowsTypeOK
  <2>8. \A d \in Cards : /\ cards'[d].order = cards[d].order
                         /\ cards'[d].state = "none" => cards[d].state = "none"
    BY <2>2, <2>4, <2>5 DEF RowsTypeOK
  <2> QED
    BY <1>1, <2>6, <2>7, <2>8, GotoKeepsHandlers DEF Quiet
<1> QED
  BY <1>2, <1>3

\* The dispatch of an order, first or retried, and its answer.
LEMMA DispatchTypes ==
    ASSUME RowsTypeOK, Placed, NEW j \in Orders \cup Req,
           \/ StartDispatch(j)
           \/ \E reply \in Replies : DispatchReply(j, reply)
           \/ j \in Req /\ \E o \in Orders : RetryOrder(j, o)
    PROVE  /\ h' \in [Orders \cup Req -> Handler]
           /\ \/ Quiet /\ UNCHANGED <<products, cards>>
              \/ h[j].order \in Orders
                 /\ \E s \in {"delivered", "failed"} : FinishOrder(h[j].order, s)
<1>1. Idle \in Handler
  BY DEF Handler
<1>2. \A o \in Orders : [at |-> "queued", order |-> o] \in Handler
                        /\ [at |-> "posting", order |-> o] \in Handler
  BY DEF Handler
<1>3. CASE j \in Req /\ \E o \in Orders : RetryOrder(j, o)
  BY <1>2, <1>3, GotoKeepsHandlers DEF RetryOrder, Quiet
<1>4. CASE StartDispatch(j)
  <2>1. h[j].order \in Orders
    BY <1>4, Held DEF StartDispatch
  <2>2. Goto(j, [at |-> "posting", order |-> h[j].order]) \/ Goto(j, Idle)
    BY <1>4 DEF StartDispatch
  <2> QED
    BY <1>1, <1>2, <1>4, <2>1, <2>2, GotoKeepsHandlers DEF StartDispatch, Quiet
<1>5. ASSUME NEW reply \in Replies, DispatchReply(j, reply)
      PROVE  /\ h' \in [Orders \cup Req -> Handler]
             /\ \/ Quiet /\ UNCHANGED <<products, cards>>
                \/ h[j].order \in Orders
                   /\ \E s \in {"delivered", "failed"} : FinishOrder(h[j].order, s)
  <2>1. h[j].order \in Orders
    BY <1>5, Held DEF DispatchReply
  <2>2. ReplyStatus(reply) \in {"delivered", "failed"}
    BY DEF ReplyStatus
  <2>3. \/ FinishOrder(h[j].order, ReplyStatus(reply))
        \/ UNCHANGED <<accounts, ledger, products, cards, orders>>
    BY <1>5 DEF DispatchReply
  <2>4. Goto(j, Idle)
    BY <1>5 DEF DispatchReply
  <2> QED
    BY <1>1, <2>1, <2>2, <2>3, <2>4, GotoKeepsHandlers DEF Quiet
<1> QED
  BY <1>3, <1>4, <1>5

TopUpOf(u, n) == [user |-> u, delta |-> n, kind |-> "admin", ref |-> None, key |-> None]

LEMMA TopUpTypes ==
    ASSUME NEW u \in Users, NEW n \in TopUps, TopUp(u, n)
    PROVE  /\ TopUpOf(u, n) \in Op /\ Apply(TopUpOf(u, n))
           /\ UNCHANGED <<products, cards, orders, h>>
BY ShopAssumption DEF TopUp, TopUpOf, Op, Kinds

-----------------------------------------------------------------------------
Ends == Refunded \cup {"delivered"}

\* Every step of the shop is one of four: it touches neither points nor orders,
\* it places an order, it ends one, or it is a credit from elsewhere.
LEMMA StepKinds ==
    ASSUME RowsTypeOK, LedgerInv, Placed, FreshCards, ShopStep
    PROVE  /\ products' \in [Products -> Product]
           /\ cards' \in [Cards -> Card]
           /\ orders' \in [Orders -> Order]
           /\ h' \in [Orders \cup Req -> Handler]
           /\ \/ Quiet
              \/ \E o \in Orders, u \in Users, p \in Products, q \in 1..MaxQty :
                    PlaceOrder(o, u, p, q)
              \/ \E o \in Orders, s \in Ends : FinishOrder(o, s)
              \/ \E u \in Users, n \in TopUps : TopUp(u, n)
<1> DEFINE Typed == /\ products' \in [Products -> Product]
                    /\ cards' \in [Cards -> Card]
                    /\ orders' \in [Orders -> Order]
                    /\ h' \in [Orders \cup Req -> Handler]
           Placing == \E o \in Orders, u \in Users, p \in Products, q \in 1..MaxQty :
                         PlaceOrder(o, u, p, q)
           Ending == \E o \in Orders, s \in Ends : FinishOrder(o, s)
           Topping == \E u \in Users, n \in TopUps : TopUp(u, n)
<1>q. ASSUME Quiet PROVE orders' \in [Orders -> Order]
  BY <1>q DEF Quiet, RowsTypeOK
<1>1. ASSUME NEW p \in Products, CreateProduct(p) PROVE Typed /\ Quiet
  BY <1>1, <1>q, ProductStepIsQuiet DEF RowsTypeOK
<1>2. ASSUME NEW c \in Cards, DeleteCard(c) PROVE Typed /\ Quiet
  BY <1>2, <1>q, DeleteCardIsQuiet DEF RowsTypeOK
<1>3. ASSUME NEW r \in Req, AdminStep(r) PROVE Typed /\ (Quiet \/ Ending)
  <2>1. CASE SaveProduct(r)
    BY <2>1, <1>q, SaveIsQuiet DEF RowsTypeOK
  <2>2. CASE DisableProduct(r) \/ DropCards(r) \/ DropRow(r)
             \/ \E p \in Products : StartDelete(r, p)
    BY <2>2, <1>q, DeleteIsQuiet
  <2>3. CASE ImportCard(r) \/ \E p \in Products : StartImport(r, p)
    BY <2>3, <1>q, ImportIsQuiet DEF RowsTypeOK
  <2>4. CASE \E o \in Orders : RetryOrder(r, o)
    <3>1. /\ h' \in [Orders \cup Req -> Handler]
          /\ UNCHANGED <<accounts, ledger, products, cards, orders>>
      BY <2>4, DispatchTypes DEF RetryOrder
    <3> QED
      BY <3>1 DEF Quiet, RowsTypeOK
  <2>5. CASE \E p \in Products, patch \in Patches : StartEdit(r, p, patch)
    BY <2>5, <1>q, EditIsQuiet DEF RowsTypeOK
  <2> QED
    BY <1>3, <2>1, <2>2, <2>3, <2>4, <2>5 DEF AdminStep
<1>4. ASSUME NEW o \in Orders, NEW s \in Ends, FinishOrder(o, s),
             h' \in [Orders \cup Req -> Handler]
      PROVE  Typed /\ Ending
  BY <1>4, FinishOrderTypes DEF Ends
<1>5. ASSUME NEW o \in Orders, OrderStep(o) PROVE Typed /\ (Placing \/ Ending)
  <2>1. ASSUME NEW s \in Ends, FinishOrder(o, s), UNCHANGED h PROVE Typed /\ Ending
    BY <2>1, <1>4 DEF RowsTypeOK
  <2>2. CASE Deliver(o) \/ Fail(o) \/ Cancel(o)
    BY <2>1, <2>2 DEF Deliver, Fail, Cancel, Ends, Refunded
  <2>3. ASSUME NEW u \in Users, NEW p \in Products, NEW q \in 1..MaxQty,
               PlaceOrder(o, u, p, q)
        PROVE  Typed /\ Placing
    BY <2>3, PlaceOrderTypes
  <2> QED
    BY <1>5, <2>2, <2>3 DEF OrderStep
<1>6. ASSUME NEW j \in Orders \cup Req, DispatchStep(j) PROVE Typed /\ (Quiet \/ Ending)
  <2>1. /\ h' \in [Orders \cup Req -> Handler]
        /\ \/ Quiet /\ UNCHANGED <<products, cards>>
           \/ h[j].order \in Orders
              /\ \E s \in {"delivered", "failed"} : FinishOrder(h[j].order, s)
    BY <1>6, DispatchTypes DEF DispatchStep
  <2>2. CASE Quiet /\ UNCHANGED <<products, cards>>
    BY <2>1, <2>2, <1>q DEF RowsTypeOK
  <2>3. CASE h[j].order \in Orders
             /\ \E s \in {"delivered", "failed"} : FinishOrder(h[j].order, s)
    BY <2>1, <2>3, <1>4 DEF Ends, Refunded
  <2> QED
    BY <2>1, <2>2, <2>3
<1>7. ASSUME NEW u \in Users, NEW n \in TopUps, TopUp(u, n) PROVE Typed /\ Topping
  BY <1>7 DEF TopUp, RowsTypeOK
<1>8. ASSUME Restart PROVE Typed /\ Quiet
  BY <1>8 DEF Restart, Quiet, RowsTypeOK, Handler
<1> HIDE DEF Typed, Placing, Ending, Topping
<1>9. Typed /\ (Quiet \/ Placing \/ Ending \/ Topping)
  BY <1>1, <1>2, <1>3, <1>5, <1>6, <1>7, <1>8 DEF ShopStep
<1> QED
  BY <1>9 DEF Typed, Placing, Ending, Topping

-----------------------------------------------------------------------------
\* Appending an entry adds it to the entries of what it refers to.
LEMMA EntriesAfter ==
    ASSUME LedgerTypeOK, NEW op \in Op, Apply(op), NEW o, NEW kind
    PROVE  LET i == Len(ledger) + 1
           IN  /\ EntriesOf(o, kind) \subseteq DOMAIN ledger
               /\ \A k \in DOMAIN ledger : ledger'[k] = ledger[k]
               /\ ledger'[i].user = op.user /\ ledger'[i].delta = op.delta
               /\ kind = op.kind /\ o = op.ref
                    => EntriesOf(o, kind)' = EntriesOf(o, kind) \cup {i}
               /\ ~(kind = op.kind /\ o = op.ref)
                    => EntriesOf(o, kind)' = EntriesOf(o, kind)
<1> DEFINE n == Len(ledger)
<1>1. /\ n \in Nat /\ DOMAIN ledger = 1..n /\ DOMAIN ledger' = 1..(n + 1)
      /\ \A k \in 1..n : ledger'[k] = ledger[k]
      /\ ledger'[n + 1] = EntryOf(op)
  BY ApplyEffect
<1>2. /\ EntryOf(op).user = op.user /\ EntryOf(op).delta = op.delta
      /\ EntryOf(op).kind = op.kind /\ EntryOf(op).ref = op.ref
  BY DEF EntryOf
<1>3. DOMAIN ledger' = DOMAIN ledger \cup {n + 1} /\ n + 1 \notin DOMAIN ledger
  BY <1>1
<1>4. EntriesOf(o, kind)' = {k \in DOMAIN ledger' : ledger'[k].kind = kind /\ ledger'[k].ref = o}
  BY DEF EntriesOf
<1> QED
  BY <1>1, <1>2, <1>3, <1>4 DEF EntriesOf

\* One entry of the set S, of this user and of this amount.
Once(S, user, d) == \E i \in S : S = {i} /\ ledger[i].user = user /\ ledger[i].delta = d

\* MoneyFollowsStatus of one order.
MoneyOf(o) ==
    /\ IF orders[o].status = "none" THEN EntriesOf(o, "order") = {}
       ELSE Once(EntriesOf(o, "order"), orders[o].user, -orders[o].total)
    /\ IF orders[o].status \in Refunded
       THEN Once(EntriesOf(o, "refund"), orders[o].user, orders[o].total)
       ELSE EntriesOf(o, "refund") = {}

LEMMA MoneyByOrder == MoneyFollowsStatus <=> \A o \in Orders : MoneyOf(o)
BY DEF MoneyFollowsStatus, MoneyOf, Once

\* An entry about something else leaves the money of an order alone.
LEMMA MoneyOfOthers ==
    ASSUME LedgerTypeOK, NEW op \in Op, Apply(op), NEW o \in Orders,
           op.ref = o => op.kind \notin {"order", "refund"},
           orders'[o] = orders[o], MoneyOf(o)
    PROVE  MoneyOf(o)'
<1>1. /\ EntriesOf(o, "order")' = EntriesOf(o, "order")
      /\ EntriesOf(o, "order") \subseteq DOMAIN ledger
      /\ EntriesOf(o, "refund")' = EntriesOf(o, "refund")
      /\ EntriesOf(o, "refund") \subseteq DOMAIN ledger
      /\ \A k \in DOMAIN ledger : ledger'[k] = ledger[k]
  BY EntriesAfter
<1> QED
  BY <1>1 DEF MoneyOf, Once

LEMMA PlaceOrderMoney ==
    ASSUME RowsTypeOK, LedgerInv, Placed, \A x \in Orders : MoneyOf(x),
           NEW o \in Orders, NEW u \in Users, NEW p \in Products,
           NEW q \in 1..MaxQty, PlaceOrder(o, u, p, q)
    PROVE  /\ \A x \in Orders : MoneyOf(x)'
           /\ orders[o].status = "none" /\ orders'[o].status \in Live \cup {"delivered"}
<1> DEFINE op == Charge(o, u, products[p].row.price * q)
           row == products[p].row
           content == IF row.delivery = "cdk" THEN Picked(p, q) ELSE {}
           new == [status |-> InitialStatus(row.delivery), user |-> u, product |-> p,
                   qty |-> q, total |-> row.price * q, delivery |-> row.delivery,
                   content |-> content]
<1>1. op \in Op /\ Apply(op) /\ LedgerTypeOK
  BY PlaceOrderTypes DEF LedgerInv
<1>2. op.kind = "order" /\ op.ref = o /\ op.user = u /\ op.delta = -(row.price * q)
  BY DEF Charge
<1>3. /\ orders' = [orders EXCEPT ![o] = new]
      /\ \A x \in Orders : orders[x].status = "none" <=> x >= o
  BY DEF PlaceOrder
<1>4. o >= o
  BY ShopAssumption
<1>5. row.delivery \in {"cdk", "webhook", "manual"}
  BY DEF RowsTypeOK, Product, Columns
<1>6. InitialStatus(row.delivery) \in Live \cup {"delivered"}
  BY <1>5 DEF InitialStatus, Live
<1>7. new.status = InitialStatus(row.delivery) /\ new.user = u /\ new.total = row.price * q
  OBVIOUS
<1> HIDE DEF new
<1>8. orders'[o] = new /\ \A x \in Orders : x # o => orders'[x] = orders[x]
  BY <1>3 DEF RowsTypeOK
<1>9. orders[o].status = "none"
  BY <1>3, <1>4
<1>10. ASSUME NEW x \in Orders, x # o PROVE MoneyOf(x)'
  BY <1>1, <1>2, <1>8, <1>10, MoneyOfOthers
<1>11. MoneyOf(o)'
  <2>1. EntriesOf(o, "order") = {} /\ EntriesOf(o, "refund") = {}
    BY <1>9 DEF MoneyOf, Refunded
  <2>2. /\ EntriesOf(o, "order")' = {Len(ledger) + 1}
        /\ ledger'[Len(ledger) + 1].user = op.user
        /\ ledger'[Len(ledger) + 1].delta = op.delta
    <3> HIDE DEF op
    <3> QED BY <1>1, <1>2, <2>1, EntriesAfter
  <2>3. EntriesOf(o, "refund")' = {}
    <3> HIDE DEF op
    <3> QED BY <1>1, <1>2, <2>1, EntriesAfter
  <2>4. Once(EntriesOf(o, "order"), orders[o].user, -orders[o].total)'
    BY <1>2, <1>7, <1>8, <2>2 DEF Once
  <2>5. orders'[o].status \notin Refunded \cup {"none"}
    BY <1>6, <1>7, <1>8 DEF Live, Refunded
  <2> QED
    BY <2>3, <2>4, <2>5 DEF MoneyOf
<1> QED
  BY <1>6, <1>7, <1>8, <1>9, <1>10, <1>11

\* finishOrder: the refund of a live order is never a duplicate.
LEMMA RefundIsFirst ==
    ASSUME RowsTypeOK, Placed, RefundKeys, NEW o \in Orders, MoneyOf(o), CanEnd(o)
    PROVE  Outcome(Refund(o)) # "duplicate"
<1>1. EntriesOf(o, "refund") = {}
  BY DEF MoneyOf, CanEnd, Live, Refunded
<1>2. <<"refund", o>> \in Keys
  BY ShopAssumption DEF Keys, Kinds
<1>3. <<"refund", o>> # None
  BY <1>2, CoreAssumption
<1>4. ~KeyUsed(<<"refund", o>>)
  <2> SUFFICES ASSUME NEW i \in DOMAIN ledger, ledger[i].key = <<"refund", o>>
               PROVE  FALSE
    BY DEF KeyUsed
  <2>1. ledger[i].kind = "refund" /\ ledger[i].key = <<"refund", ledger[i].ref>>
    BY <1>3 DEF RefundKeys
  <2>2. ledger[i].ref = o
    BY <2>1
  <2> QED
    BY <1>1, <2>1, <2>2 DEF EntriesOf
<1>5. Refund(o).key = <<"refund", o>>
  BY DEF Refund
<1> QED
  BY <1>4, <1>5 DEF Outcome

LEMMA FinishOrderMoney ==
    ASSUME RowsTypeOK, LedgerInv, Placed, RefundKeys, \A x \in Orders : MoneyOf(x),
           NEW o \in Orders, NEW s \in Ends, FinishOrder(o, s)
    PROVE  /\ \A x \in Orders : MoneyOf(x)'
           /\ s \in Refunded => Apply(Refund(o))
           /\ s \notin Refunded => UNCHANGED ledgerVars
<1> DEFINE new == [orders[o] EXCEPT !.status = s]
<1>1. /\ orders[o] \in Order /\ orders[o].status \in Live
      /\ Refund(o) \in Op /\ LedgerTypeOK
  BY FinishOrderTypes DEF Ends, RowsTypeOK, FinishOrder, CanEnd, LedgerInv
<1>2. orders' = [orders EXCEPT ![o] = new]
  BY DEF FinishOrder
<1>3. new.status = s /\ new.user = orders[o].user /\ new.total = orders[o].total
  BY <1>1 DEF Order
<1> HIDE DEF new
<1>4. orders'[o] = new /\ \A x \in Orders : x # o => orders'[x] = orders[x]
  BY <1>2 DEF RowsTypeOK
<1>5. s \in Refunded => Apply(Refund(o))
  BY RefundIsFirst DEF FinishOrder
<1>6. s \notin Refunded => UNCHANGED ledgerVars
  BY DEF FinishOrder, ledgerVars
<1>7. /\ Once(EntriesOf(o, "order"), orders[o].user, -orders[o].total)
      /\ EntriesOf(o, "refund") = {}
  BY <1>1 DEF MoneyOf, Live, Refunded
<1>8. CASE s \in Refunded
  <2>1. /\ Refund(o).kind = "refund" /\ Refund(o).ref = o
        /\ Refund(o).user = orders[o].user /\ Refund(o).delta = orders[o].total
    BY DEF Refund
  <2>2. ASSUME NEW x \in Orders, x # o PROVE MoneyOf(x)'
    BY <1>1, <1>4, <1>5, <1>8, <2>1, <2>2, MoneyOfOthers
  <2>3. /\ EntriesOf(o, "refund")' = {Len(ledger) + 1}
        /\ ledger'[Len(ledger) + 1].user = orders[o].user
        /\ ledger'[Len(ledger) + 1].delta = orders[o].total
    BY <1>1, <1>5, <1>7, <1>8, <2>1, EntriesAfter
  <2>4. /\ EntriesOf(o, "order")' = EntriesOf(o, "order")
        /\ EntriesOf(o, "order") \subseteq DOMAIN ledger
        /\ \A k \in DOMAIN ledger : ledger'[k] = ledger[k]
    BY <1>1, <1>5, <1>8, <2>1, EntriesAfter
  <2>5. Once(EntriesOf(o, "order"), orders[o].user, -orders[o].total)'
    BY <1>3, <1>4, <1>7, <2>4 DEF Once
  <2>6. Once(EntriesOf(o, "refund"), orders[o].user, orders[o].total)'
    BY <1>3, <1>4, <2>3 DEF Once
  <2>7. MoneyOf(o)'
    BY <1>3, <1>4, <1>8, <2>5, <2>6 DEF MoneyOf, Refunded
  <2> QED
    BY <1>5, <1>8, <2>2, <2>7
<1>9. CASE s \notin Refunded
  <2>1. ledger' = ledger
    BY <1>6, <1>9 DEF ledgerVars
  <2>2. s = "delivered"
    BY <1>9 DEF Ends
  <2>3. \A x \in Orders : x # o => MoneyOf(x)'
    BY <1>4, <2>1 DEF MoneyOf, Once, EntriesOf
  <2>4. MoneyOf(o)'
    BY <1>3, <1>4, <1>7, <2>1, <2>2 DEF MoneyOf, Once, EntriesOf, Refunded
  <2> QED
    BY <1>6, <1>9, <2>3, <2>4
<1> QED
  BY <1>8, <1>9

-----------------------------------------------------------------------------
\* A nonempty set of natural numbers has a least element.
LEMMA Least ==
    ASSUME NEW S \in SUBSET Nat, S # {}
    PROVE  \E m \in S : \A n \in S : m <= n
<1> DEFINE R == OpToRel(<, Nat)
<1>1. IsWellFoundedOn(R, Nat)
  BY NatLessThanWellFounded
<1>2. \A x, y \in Nat : <<y, x>> \in R <=> y < x
  BY DEF OpToRel
<1> HIDE DEF R
<1>3. PICK m \in S : \A y \in S : ~ (<<y, m>> \in R)
  BY <1>1, WFMin
<1>4. \A n \in S : m <= n
  <2> TAKE n \in S
  <2>1. m \in Nat /\ n \in Nat
    OBVIOUS
  <2>2. ~(n < m)
    BY <1>2, <1>3, <2>1
  <2> QED
    BY <2>1, <2>2
<1> QED
  BY <1>4

Below(S, c) == {d \in S : d <= c}
Lowest(S, k) == {c \in S : Cardinality(Below(S, c)) <= k}

LEMMA LowestStep ==
    ASSUME NEW S \in SUBSET Nat, IsFiniteSet(S), NEW k \in Nat, k < Cardinality(S),
           Cardinality(Lowest(S, k)) = k
    PROVE  Cardinality(Lowest(S, k + 1)) = k + 1
<1> DEFINE L == Lowest(S, k)
<1>1. /\ L \in SUBSET S /\ IsFiniteSet(L)
      /\ Cardinality(S) \in Nat
      /\ \A c \in S : /\ Below(S, c) \in SUBSET S /\ IsFiniteSet(Below(S, c))
                      /\ Cardinality(Below(S, c)) \in Nat
  <2>1. L \in SUBSET S /\ \A c \in S : Below(S, c) \in SUBSET S
    BY DEF Lowest, Below
  <2> HIDE DEF L
  <2> QED
    BY <2>1, FS_Subset, FS_CardinalityType
<1>2. S \ L # {}
  <2>1. L # S
    OBVIOUS
  <2> QED
    BY <1>1, <2>1
<1>3. PICK m \in S \ L : \A n \in S \ L : m <= n
  <2>1. S \ L \in SUBSET Nat
    OBVIOUS
  <2> HIDE DEF L
  <2> QED
    BY <1>2, <2>1, Least
\* What is below m is L and m.
<1>4. ASSUME NEW c \in L PROVE c < m
  <2>1. c \in S /\ Cardinality(Below(S, c)) <= k
    BY <1>4 DEF Lowest
  <2>2. SUFFICES ASSUME m <= c PROVE FALSE
    BY <2>1
  <2>3. Below(S, m) \in SUBSET Below(S, c)
    <3> HIDE DEF L
    <3>1. ASSUME NEW d \in S, d <= m PROVE d <= c
      <4>1. d \in Nat /\ m \in Nat /\ c \in Nat
        BY <1>3, <2>1, <3>1
      <4> QED
        BY <2>2, <3>1, <4>1
    <3> QED
      BY <3>1 DEF Below
  <2>4. Cardinality(Below(S, m)) <= Cardinality(Below(S, c))
    BY <1>1, <2>1, <2>3, FS_Subset
  <2>5. Cardinality(Below(S, m)) <= k
    BY <1>1, <2>1, <2>4
  <2> QED
    BY <2>5 DEF Lowest
<1>5. Below(S, m) = L \cup {m}
  <2>1. \A d \in S : d \in L \/ m <= d
    BY <1>3
  <2> HIDE DEF L
  <2>2. \A d \in L : d \in S /\ d <= m
    BY <1>1, <1>3, <1>4
  <2>3. \A d \in S : d <= m => d \in L \/ d = m
    BY <2>1
  <2> QED
    BY <1>3, <2>2, <2>3 DEF Below
<1>6. Cardinality(L \cup {m}) = k + 1 /\ IsFiniteSet(L \cup {m})
  <2>1. m \notin L
    OBVIOUS
  <2> HIDE DEF L
  <2>2. Cardinality(L) = k
    BY DEF L
  <2> QED
    BY <1>1, <2>1, <2>2, FS_AddElement
<1>7. Lowest(S, k + 1) = L \cup {m}
  <2>1. ASSUME NEW c \in S, c \notin L, c # m
        PROVE  Cardinality(Below(S, c)) > k + 1
    <3>1. m < c
      BY <1>3, <2>1
    <3>2. (L \cup {m}) \cup {c} \in SUBSET Below(S, c)
      <4> HIDE DEF L
      <4>1. ASSUME NEW d \in L PROVE d <= c
        BY <1>1, <1>3, <1>4, <2>1, <3>1, <4>1
      <4>2. m <= c /\ c <= c
        BY <1>3, <2>1, <3>1
      <4> QED
        BY <1>1, <1>3, <2>1, <4>1, <4>2 DEF Below
    <3>3. Cardinality((L \cup {m}) \cup {c}) = k + 2
      <4> DEFINE M == L \cup {m}
      <4>1. IsFiniteSet(M) /\ Cardinality(M) = k + 1 /\ c \notin M
        BY <1>6, <2>1
      <4> HIDE DEF M
      <4>2. Cardinality(M \cup {c}) = (k + 1) + 1
        BY <4>1, FS_AddElement
      <4> QED
        BY <4>2 DEF M
    <3>4. Cardinality((L \cup {m}) \cup {c}) <= Cardinality(Below(S, c))
      <4> HIDE DEF L
      <4> QED BY <1>1, <3>2, FS_Subset
    <3> QED
      BY <1>1, <3>3, <3>4
  <2>2. \A c \in L : Cardinality(Below(S, c)) <= k + 1
    BY <1>1 DEF Lowest
  <2>3. Cardinality(Below(S, m)) <= k + 1
    BY <1>5, <1>6
  <2>4. \A c \in S : Cardinality(Below(S, c)) <= k + 1 <=> c \in L \cup {m}
    <3> HIDE DEF L
    <3> QED BY <1>1, <2>1, <2>2, <2>3
  <2> HIDE DEF L
  <2> QED
    BY <1>1, <2>4 DEF Lowest
<1> QED
  BY <1>6, <1>7

\* The k lowest numbers of a set of at least k are k numbers.
LEMMA LowestCardinality ==
    ASSUME NEW S \in SUBSET Nat, IsFiniteSet(S), NEW k \in Nat, k <= Cardinality(S)
    PROVE  Cardinality(Lowest(S, k)) = k
<1> DEFINE Bad == {n \in Nat : n <= Cardinality(S) /\ Cardinality(Lowest(S, n)) # n}
<1>1. SUFFICES Bad = {}
  OBVIOUS
<1>2. SUFFICES ASSUME Bad # {} PROVE FALSE
  OBVIOUS
<1>3. PICK m \in Bad : \A n \in Bad : m <= n
  <2>1. Bad \in SUBSET Nat
    OBVIOUS
  <2> HIDE DEF Bad
  <2> QED
    BY <1>2, <2>1, Least
<1>4. Cardinality(S) \in Nat
  BY FS_CardinalityType
<1>5. CASE m = 0
  <2>1. Lowest(S, 0) = {}
    <3> SUFFICES ASSUME NEW c \in S, Cardinality(Below(S, c)) <= 0 PROVE FALSE
      BY DEF Lowest
    <3>1. Below(S, c) \in SUBSET S /\ c \in Below(S, c)
      BY DEF Below
    <3>2. IsFiniteSet(Below(S, c)) /\ Cardinality(Below(S, c)) \in Nat
      BY <3>1, FS_Subset, FS_CardinalityType
    <3> QED
      BY <3>1, <3>2, FS_EmptySet
  <2> QED
    BY <1>5, <2>1, FS_EmptySet
<1>6. CASE m # 0
  <2>1. m - 1 \in Nat /\ m - 1 < Cardinality(S) /\ m - 1 \notin Bad
    BY <1>3, <1>4, <1>6
  <2>2. Cardinality(Lowest(S, m - 1)) = m - 1
    BY <1>4, <2>1
  <2>3. Cardinality(Lowest(S, (m - 1) + 1)) = (m - 1) + 1
    <3> DEFINE k1 == m - 1
    <3>1. k1 \in Nat /\ k1 < Cardinality(S) /\ Cardinality(Lowest(S, k1)) = k1
      BY <2>1, <2>2
    <3> HIDE DEF k1, Bad
    <3>2. Cardinality(Lowest(S, k1 + 1)) = k1 + 1
      BY <3>1, LowestStep
    <3> QED
      BY <3>2 DEF k1
  <2>4. (m - 1) + 1 = m
    BY <1>3
  <2> QED
    BY <1>3, <2>3, <2>4
<1> QED
  BY <1>5, <1>6

\* placeOrder takes as many cards as there are pieces.
LEMMA PickedCardinality ==
    ASSUME NEW p, NEW q \in Nat, Cardinality(FreeCards(p)) >= q
    PROVE  Cardinality(Picked(p, q)) = q
<1> DEFINE S == FreeCards(p)
<1>1. S \in SUBSET Cards
  BY DEF FreeCards
<1>2. S \in SUBSET Nat /\ IsFiniteSet(S)
  <2> HIDE DEF S
  <2> QED
    BY <1>1, ShopAssumption, FS_Subset
<1>3. Cardinality(S) \in Nat
  BY <1>2, FS_CardinalityType
<1>4. Picked(p, q) = Lowest(S, q)
  BY DEF Picked, Lowest, Below
<1> HIDE DEF S
<1>5. Cardinality(Lowest(S, q)) = q
  BY <1>2, <1>3, LowestCardinality DEF S
<1> QED
  BY <1>4, <1>5

\* An order by card has its cards, and the rows of the cards say so.
CardsCounted ==
    \A o \in Orders : orders[o].delivery = "cdk"
                        => Cardinality(orders[o].content) = orders[o].qty
CardsNameOrders ==
    \A c \in Cards : \A o \in Orders : cards[c].order = o <=> c \in orders[o].content

LEMMA CardsByParts ==
    ASSUME RowsTypeOK, CardsCounted, CardsNameOrders
    PROVE  CardsGivenOnce
<1>1. ASSUME NEW o1 \in Orders, NEW o2 \in Orders, o1 # o2
      PROVE  orders[o1].content \cap orders[o2].content = {}
  <2> SUFFICES ASSUME NEW c \in orders[o1].content, c \in orders[o2].content PROVE FALSE
    OBVIOUS
  <2>1. c \in Cards
    BY DEF RowsTypeOK, Order
  <2> QED
    BY <1>1, <2>1 DEF CardsNameOrders
<1> QED
  BY <1>1 DEF CardsGivenOnce, CardsCounted, CardsNameOrders

LEMMA PlaceOrderCards ==
    ASSUME RowsTypeOK, Placed, CardsCounted, CardsNameOrders,
           NEW o \in Orders, NEW u \in Users, NEW p \in Products,
           NEW q \in 1..MaxQty, PlaceOrder(o, u, p, q)
    PROVE  CardsCounted' /\ CardsNameOrders'
<1> DEFINE row == products[p].row
           content == IF row.delivery = "cdk" THEN Picked(p, q) ELSE {}
           new == [status |-> InitialStatus(row.delivery), user |-> u, product |-> p,
                   qty |-> q, total |-> row.price * q, delivery |-> row.delivery,
                   content |-> content]
<1>1. /\ orders' = [orders EXCEPT ![o] = new]
      /\ cards' = [c \in Cards |-> IF c \in content THEN [cards[c] EXCEPT !.order = o]
                                   ELSE cards[c]]
      /\ \A x \in Orders : orders[x].status = "none" <=> x >= o
      /\ InStock(p, q)
  BY DEF PlaceOrder
<1>2. new.content = content /\ new.qty = q /\ new.delivery = row.delivery
  OBVIOUS
<1>3. \A c \in content : c \in Cards /\ cards[c].order = None
  BY DEF Picked, FreeCards
<1>4. row.delivery = "cdk" => Cardinality(content) = q
  <2> SUFFICES ASSUME row.delivery = "cdk" PROVE Cardinality(Picked(p, q)) = q
    OBVIOUS
  <2>1. Cardinality(FreeCards(p)) >= q
    BY <1>1 DEF InStock
  <2> QED
    BY <2>1, PickedCardinality
<1>5. orders[o] = NoOrder
  <2>1. o >= o
    BY ShopAssumption
  <2> QED
    BY <1>1, <2>1 DEF Placed
<1>6. \A c \in Cards : /\ c \in content => cards'[c].order = o
                       /\ c \notin content => cards'[c].order = cards[c].order
  <2>1. \A c \in Cards : [cards[c] EXCEPT !.order = o].order = o
    BY DEF RowsTypeOK, Card
  <2> HIDE DEF content
  <2> QED
    BY <1>1, <2>1
<1> HIDE DEF new, content
<1>7. orders'[o] = new /\ \A x \in Orders : x # o => orders'[x] = orders[x]
  BY <1>1 DEF RowsTypeOK
<1>8. CardsCounted'
  BY <1>2, <1>4, <1>7 DEF CardsCounted
<1>9. None \notin Orders
  BY ShopAssumption
<1>10. ASSUME NEW c \in Cards, NEW x \in Orders
       PROVE  cards'[c].order = x <=> c \in orders'[x].content
  <2>1. CASE x = o
    <3>1. orders'[x].content = content
      BY <1>2, <1>7, <2>1
    <3>2. c \notin orders[o].content
      BY <1>5 DEF NoOrder
    <3>3. cards[c].order # o
      BY <3>2 DEF CardsNameOrders
    <3> QED
      BY <1>6, <2>1, <3>1, <3>3
  <2>2. CASE x # o
    <3>1. orders'[x].content = orders[x].content
      BY <1>7, <2>2
    <3>2. CASE c \in content
      <4>1. c \notin orders[x].content
        BY <1>3, <1>9, <3>2 DEF CardsNameOrders
      <4> QED
        BY <1>6, <2>2, <3>1, <3>2, <4>1
    <3>3. CASE c \notin content
      BY <1>6, <3>1, <3>3 DEF CardsNameOrders
    <3> QED
      BY <3>2, <3>3
  <2> QED
    BY <2>1, <2>2
<1> QED
  BY <1>8, <1>10 DEF CardsNameOrders

LEMMA FinishOrderCards ==
    ASSUME RowsTypeOK, CardsCounted, CardsNameOrders,
           NEW o \in Orders, NEW s \in Ends, FinishOrder(o, s)
    PROVE  CardsCounted' /\ CardsNameOrders' /\ UNCHANGED cards
<1> DEFINE new == [orders[o] EXCEPT !.status = s]
<1>1. /\ new.content = orders[o].content /\ new.qty = orders[o].qty
      /\ new.delivery = orders[o].delivery
  BY DEF RowsTypeOK, Order
<1>2. orders' = [orders EXCEPT ![o] = new] /\ cards' = cards
  BY DEF FinishOrder
<1> HIDE DEF new
<1>3. orders'[o] = new /\ \A x \in Orders : x # o => orders'[x] = orders[x]
  BY <1>2 DEF RowsTypeOK
<1>4. \A x \in Orders : /\ orders'[x].content = orders[x].content
                        /\ orders'[x].qty = orders[x].qty
                        /\ orders'[x].delivery = orders[x].delivery
  BY <1>1, <1>3
<1> QED
  BY <1>2, <1>4 DEF CardsCounted, CardsNameOrders

-----------------------------------------------------------------------------
\* The inductive invariant.  RefundKeys makes the refund of a live order its
\* first; CardsNameOrders, with the cards that are free, makes a card the card
\* of one order; Placed gives every order that was placed a buyer and a product.
ShopIInv ==
    /\ LedgerInv
    /\ RowsTypeOK
    /\ Placed
    /\ FreshCards
    /\ RefundKeys
    /\ \A o \in Orders : MoneyOf(o)
    /\ CardsCounted
    /\ CardsNameOrders

LEMMA InitHolds == Init => ShopIInv
<1> SUFFICES ASSUME Init PROVE ShopIInv
  OBVIOUS
<1>1. LedgerInv /\ ledger = << >>
  BY LedgerInitOK DEF Init, LedgerInit
<1>2. DOMAIN ledger = {}
  BY <1>1
<1>3. \A p \in Products : [state |-> "none", row |-> Catalogue[p]] \in Product
  BY ShopAssumption DEF Product
<1>4. NoOrder \in Order /\ Idle \in Handler
  BY DEF NoOrder, Order, Handler
<1>5. \A c \in Cards : [state |-> "none", product |-> None, order |-> None] \in Card
  BY DEF Card
<1>6. RowsTypeOK
  BY <1>3, <1>4, <1>5 DEF Init, RowsTypeOK
<1>7. \A o \in Orders : orders[o] = NoOrder
  BY DEF Init
<1>8. Placed /\ FreshCards /\ RefundKeys
  BY <1>2, <1>7 DEF Init, Placed, FreshCards, RefundKeys, NoOrder
<1>9. \A o \in Orders : MoneyOf(o)
  BY <1>2, <1>7 DEF MoneyOf, EntriesOf, NoOrder, Refunded
<1>10. CardsCounted
  BY <1>7 DEF CardsCounted, NoOrder
<1>11. CardsNameOrders
  BY <1>7, ShopAssumption DEF CardsNameOrders, NoOrder, Init
<1> QED
  BY <1>1, <1>6, <1>8, <1>9, <1>10, <1>11 DEF ShopIInv

\* An operation that has no key, or the key of its refund, keeps RefundKeys.
RefundKeyed(op) ==
    \/ op.key = None
    \/ op.kind = "refund" /\ op.key = <<"refund", op.ref>>

LEMMA KeysAfter ==
    ASSUME LedgerTypeOK, RefundKeys, NEW op \in Op, Apply(op),
           RefundKeyed(op)
    PROVE  RefundKeys'
<1> DEFINE n == Len(ledger)
<1>1. /\ n \in Nat /\ DOMAIN ledger = 1..n /\ DOMAIN ledger' = 1..(n + 1)
      /\ \A k \in 1..n : ledger'[k] = ledger[k]
      /\ ledger'[n + 1] = EntryOf(op)
  BY ApplyEffect
<1>2. EntryOf(op).key = op.key /\ EntryOf(op).kind = op.kind /\ EntryOf(op).ref = op.ref
  BY DEF EntryOf
<1>3. SUFFICES ASSUME NEW i \in DOMAIN ledger'
               PROVE  \/ ledger'[i].key = None
                      \/ ledger'[i].kind = "refund" /\ ledger'[i].key = <<"refund", ledger'[i].ref>>
  BY DEF RefundKeys
<1>4. i \in 1..n \/ i = n + 1
  BY <1>1
<1> HIDE DEF n
<1> QED
  BY <1>1, <1>2, <1>4 DEF RefundKeys, RefundKeyed

LEMMA PlacedAfter ==
    ASSUME RowsTypeOK, Placed, NEW o \in Orders, NEW new,
           orders' = [orders EXCEPT ![o] = new], new.status # "none",
           new.user \in Users, new.product \in Products
    PROVE  Placed'
BY DEF RowsTypeOK, Placed

LEMMA QuietHolds ==
    ASSUME ShopIInv, Quiet, RowsTypeOK'
    PROVE  ShopIInv'
<1>1. accounts' = accounts /\ ledger' = ledger /\ orders' = orders
  BY DEF Quiet
<1>2. LedgerInv'
  BY <1>1, LedgerStepKeepsInv DEF ShopIInv, LedgerStep, ledgerVars
<1>3. Placed' /\ RefundKeys'
  BY <1>1 DEF ShopIInv, Placed, RefundKeys
<1>4. \A o \in Orders : MoneyOf(o)'
  BY <1>1 DEF ShopIInv, MoneyOf, EntriesOf, Once
<1>5. FreshCards' /\ CardsCounted' /\ CardsNameOrders'
  BY <1>1 DEF ShopIInv, Quiet, FreshCards, CardsCounted, CardsNameOrders
<1> QED
  BY <1>2, <1>3, <1>4, <1>5 DEF ShopIInv

LEMMA PlaceOrderHolds ==
    ASSUME ShopIInv, RowsTypeOK', NEW o \in Orders, NEW u \in Users, NEW p \in Products,
           NEW q \in 1..MaxQty, PlaceOrder(o, u, p, q)
    PROVE  ShopIInv'
<1> DEFINE op == Charge(o, u, products[p].row.price * q)
<1> USE DEF ShopIInv
<1>1. op \in Op /\ Apply(op)
  BY PlaceOrderTypes
<1>2. op.key = None
  BY DEF Charge
<1> HIDE DEF op
<1>3. LedgerInv'
  BY <1>1, LedgerStepKeepsInv DEF LedgerStep
<1>4. RefundKeys'
  <2>1. LedgerTypeOK
    BY DEF LedgerInv
  <2>2. RefundKeyed(op)
    BY <1>2 DEF RefundKeyed
  <2> QED
    BY <1>1, <2>1, <2>2, KeysAfter
<1>5. /\ \A x \in Orders : MoneyOf(x)'
      /\ orders'[o].status \in Live \cup {"delivered"}
  BY PlaceOrderMoney
<1>6. CardsCounted' /\ CardsNameOrders'
  BY PlaceOrderCards
<1>7. Placed'
  <2> DEFINE row == products[p].row
             content == IF row.delivery = "cdk" THEN Picked(p, q) ELSE {}
             new == [status |-> InitialStatus(row.delivery), user |-> u, product |-> p,
                     qty |-> q, total |-> row.price * q, delivery |-> row.delivery,
                     content |-> content]
  <2>1. orders' = [orders EXCEPT ![o] = new]
    BY DEF PlaceOrder
  <2>2. new.user \in Users /\ new.product \in Products
    OBVIOUS
  <2> HIDE DEF new
  <2>3. orders'[o] = new
    BY <2>1 DEF RowsTypeOK
  <2>4. new.status # "none"
    BY <1>5, <2>3 DEF Live
  <2> QED
    BY <2>1, <2>2, <2>4, PlacedAfter
<1>8. FreshCards'
  <2> DEFINE content == IF products[p].row.delivery = "cdk" THEN Picked(p, q) ELSE {}
  <2>1. cards' = [c \in Cards |-> IF c \in content THEN [cards[c] EXCEPT !.order = o]
                                  ELSE cards[c]]
    BY DEF PlaceOrder
  <2>2. \A c \in content : cards[c].state = "row"
    BY DEF Picked, FreeCards
  <2>3. \A c \in Cards : [cards[c] EXCEPT !.order = o].state = cards[c].state
    BY DEF RowsTypeOK, Card
  <2> HIDE DEF content
  <2> QED
    BY <2>1, <2>2, <2>3 DEF FreshCards
<1> QED
  BY <1>3, <1>4, <1>5, <1>6, <1>7, <1>8

LEMMA FinishOrderHolds ==
    ASSUME ShopIInv, RowsTypeOK', NEW o \in Orders, NEW s \in Ends, FinishOrder(o, s)
    PROVE  ShopIInv'
<1> USE DEF ShopIInv
<1>1. /\ orders[o].user \in Users /\ orders[o].product \in Products
      /\ Refund(o) \in Op
  BY FinishOrderTypes DEF Ends
<1>2. /\ \A x \in Orders : MoneyOf(x)'
      /\ s \in Refunded => Apply(Refund(o))
      /\ s \notin Refunded => UNCHANGED ledgerVars
  BY FinishOrderMoney
<1>3. LedgerInv'
  BY <1>1, <1>2, LedgerStepKeepsInv DEF LedgerStep
<1>4. RefundKeys'
  <2>1. CASE s \in Refunded
    <3>1. RefundKeyed(Refund(o))
      BY DEF Refund, RefundKeyed
    <3> QED
      BY <1>1, <1>2, <2>1, <3>1, KeysAfter DEF LedgerInv
  <2>2. CASE s \notin Refunded
    BY <1>2, <2>2 DEF ledgerVars, RefundKeys
  <2> QED
    BY <2>1, <2>2
<1>5. CardsCounted' /\ CardsNameOrders' /\ cards' = cards
  BY FinishOrderCards
<1>6. FreshCards'
  BY <1>5 DEF FreshCards
<1>7. Placed'
  <2> DEFINE new == [orders[o] EXCEPT !.status = s]
  <2>1. new.status = s /\ new.user = orders[o].user /\ new.product = orders[o].product
    BY DEF RowsTypeOK, Order
  <2>2. orders' = [orders EXCEPT ![o] = new]
    BY DEF FinishOrder
  <2> HIDE DEF new
  <2>3. s # "none"
    BY DEF Ends, Refunded
  <2> QED
    BY <1>1, <2>1, <2>2, <2>3, PlacedAfter
<1> QED
  BY <1>2, <1>3, <1>4, <1>5, <1>6, <1>7

LEMMA TopUpHolds ==
    ASSUME ShopIInv, RowsTypeOK', NEW u \in Users, NEW n \in TopUps, TopUp(u, n)
    PROVE  ShopIInv'
<1> USE DEF ShopIInv
<1> DEFINE op == TopUpOf(u, n)
<1>1. op \in Op /\ Apply(op) /\ UNCHANGED <<products, cards, orders, h>>
  BY TopUpTypes
<1>2. op.kind = "admin" /\ op.ref = None /\ op.key = None
  BY DEF TopUpOf
<1> HIDE DEF op
<1>3. LedgerInv'
  BY <1>1, LedgerStepKeepsInv DEF LedgerStep
<1>4. RefundKeys'
  <2>1. LedgerTypeOK
    BY DEF LedgerInv
  <2>2. RefundKeyed(op)
    BY <1>2 DEF RefundKeyed
  <2> QED
    BY <1>1, <2>1, <2>2, KeysAfter
<1>5. \A x \in Orders : MoneyOf(x)'
  BY <1>1, <1>2, MoneyOfOthers DEF LedgerInv
<1>6. Placed' /\ FreshCards' /\ CardsCounted' /\ CardsNameOrders'
  BY <1>1 DEF Placed, FreshCards, CardsCounted, CardsNameOrders
<1> QED
  BY <1>3, <1>4, <1>5, <1>6

LEMMA NextHolds == ShopIInv /\ [Next]_vars => ShopIInv'
<1> SUFFICES ASSUME ShopIInv, [Next]_vars PROVE ShopIInv'
  OBVIOUS
<1>1. CASE UNCHANGED vars
  <2>1. UNCHANGED <<accounts, ledger, products, cards, orders, h, overtaken>>
    BY <1>1 DEF vars, shop
  <2>2. RowsTypeOK' /\ Quiet
    BY <2>1 DEF ShopIInv, RowsTypeOK, Quiet
  <2> QED
    BY <2>2, QuietHolds
<1>2. CASE Next
  <2>1. overtaken' \subseteq Products
    BY <1>2 DEF Next, Overtaken, ShopIInv, RowsTypeOK
  <2>2. /\ products' \in [Products -> Product]
        /\ cards' \in [Cards -> Card]
        /\ orders' \in [Orders -> Order]
        /\ h' \in [Orders \cup Req -> Handler]
        /\ \/ Quiet
           \/ \E o \in Orders, u \in Users, p \in Products, q \in 1..MaxQty :
                 PlaceOrder(o, u, p, q)
           \/ \E o \in Orders, s \in Ends : FinishOrder(o, s)
           \/ \E u \in Users, n \in TopUps : TopUp(u, n)
    BY <1>2, StepKinds DEF Next, ShopIInv
  <2>3. RowsTypeOK'
    BY <2>1, <2>2 DEF RowsTypeOK
  <2> QED
    BY <2>2, <2>3, QuietHolds, PlaceOrderHolds, FinishOrderHolds, TopUpHolds
<1> QED
  BY <1>1, <1>2

THEOREM ShopInductive == Spec => []ShopIInv
<1>1. Init => ShopIInv
  BY InitHolds
<1>2. ShopIInv /\ [Next]_vars => ShopIInv'
  BY NextHolds
<1> QED
  BY <1>1, <1>2, PTL DEF Spec

\* "失败或取消的订单会退还积分并回补库存，同一订单只退一次" (README.md:57): for any number
\* of orders, goroutines and retries, every order is charged once, and paid
\* back once if and only if it failed or was canceled.
THEOREM MoneyFollowsStatusAlways == Spec => []MoneyFollowsStatus
<1>1. ShopIInv => MoneyFollowsStatus
  BY MoneyByOrder DEF ShopIInv
<1> QED
  BY <1>1, ShopInductive, PTL

\* "兑换时原子分配" (shop_core.go:26, README.md:53): rows keep their types, an
\* order by card has as many cards as pieces, and no card is given twice,
\* for any number of cards, orders, imports and deletions.
THEOREM ShopInvAlways == Spec => []ShopInv
<1>1. ShopIInv => ShopInv
  BY CardsByParts DEF ShopIInv, ShopInv, TypeOK, RowsTypeOK, LedgerInv
<1> QED
  BY <1>1, ShopInductive, PTL

-----------------------------------------------------------------------------
\* What OrderEscrow sees of the shop.
Wallet == [u \in Users |-> accounts[u].balance]
InEscrow(o) == [state |-> EscrowState(orders[o].status), user |-> orders[o].user,
                amount |-> orders[o].total]
InEscrows == [o \in Orders |-> InEscrow(o)]

LEMMA EscrowStates ==
    /\ EscrowState("none") = "none"
    /\ \A s \in Live : EscrowState(s) = "held"
    /\ EscrowState("delivered") = "settled"
    /\ \A s \in Refunded : EscrowState(s) = "returned"
<1>1. EscrowState("none") = "none"
  BY DEF EscrowState, Live
<1>2. EscrowState("pending") = "held" /\ EscrowState("processing") = "held"
  BY DEF EscrowState, Live
<1>3. EscrowState("delivered") = "settled"
  BY DEF EscrowState, Live
<1>4. EscrowState("failed") = "returned" /\ EscrowState("canceled") = "returned"
  BY DEF EscrowState, Live
<1> QED
  BY <1>1, <1>2, <1>3, <1>4 DEF Live, Refunded

LEMMA WalletAfter ==
    ASSUME LedgerTypeOK, NEW op \in Op, Apply(op), NEW u, op.user = u
    PROVE  /\ Wallet' = [Wallet EXCEPT ![u] = accounts[u].balance + op.delta]
           /\ Wallet' = [Wallet EXCEPT ![u] = Wallet'[u]]
           /\ Wallet[u] = accounts[u].balance
           /\ Wallet'[u] = accounts[u].balance + op.delta
           /\ u \in Users /\ op.delta \in Int /\ op.delta # 0
           /\ accounts[u].balance \in Int
           /\ accounts[u].balance + op.delta >= 0
<1>1. /\ accounts' \in [Users -> Account]
      /\ accounts'[op.user].balance = accounts[op.user].balance + op.delta
      /\ accounts'[op.user].balance >= 0
      /\ \A x \in Users : x # op.user => accounts'[x] = accounts[x]
  BY ApplyEffect
<1>2. /\ op.user \in Users /\ op.delta \in Int
      /\ accounts[op.user].balance \in Int
  BY DEF Op, LedgerTypeOK, Account
<1>3. op.delta # 0
  BY DEF Apply, Outcome
<1> QED
  BY <1>1, <1>2, <1>3 DEF Wallet

LEMMA EscrowInit == Init => Escrow!Init
BY EscrowStates DEF Init, LedgerInit, FreshAccount, NoOrder, Escrow!Init, Escrow!NoEscrow

LEMMA PlaceOrderBuys ==
    ASSUME ShopIInv, NEW o \in Orders, NEW u \in Users, NEW p \in Products,
           NEW q \in 1..MaxQty, PlaceOrder(o, u, p, q)
    PROVE  Escrow!Buy(o, u)
<1> USE DEF ShopIInv
<1> DEFINE row == products[p].row
           total == row.price * q
           op == Charge(o, u, total)
           content == IF row.delivery = "cdk" THEN Picked(p, q) ELSE {}
           new == [status |-> InitialStatus(row.delivery), user |-> u, product |-> p,
                   qty |-> q, total |-> total, delivery |-> row.delivery,
                   content |-> content]
<1>1. op \in Op /\ Apply(op)
  BY PlaceOrderTypes
<1>2. op.user = u /\ op.delta = -total
  BY DEF Charge
<1>3. total \in Nat
  <2>1. row.price \in Nat /\ q \in Nat
    BY ShopAssumption DEF RowsTypeOK, Product, Columns
  <2> QED
    BY <2>1
<1>4. /\ orders[o].status = "none"
      /\ orders'[o].status \in Live \cup {"delivered"}
  BY PlaceOrderMoney
<1>5. orders' = [orders EXCEPT ![o] = new] /\ orders \in [Orders -> Order]
  BY DEF PlaceOrder, RowsTypeOK
<1>6. new.user = u /\ new.total = total
  OBVIOUS
<1> HIDE DEF new, op, total
<1>7. /\ Wallet' = [Wallet EXCEPT ![u] = Wallet'[u]]
      /\ Wallet[u] - Wallet'[u] = total
      /\ 0 <= Wallet'[u] /\ Wallet'[u] < Wallet[u]
  <2>1. LedgerTypeOK
    BY DEF LedgerInv
  <2>2. /\ Wallet' = [Wallet EXCEPT ![u] = Wallet'[u]]
        /\ Wallet[u] = accounts[u].balance
        /\ Wallet'[u] = accounts[u].balance + op.delta
        /\ op.delta # 0
        /\ accounts[u].balance \in Int
        /\ accounts[u].balance + op.delta >= 0
    BY <1>1, <1>2, <2>1, WalletAfter
  <2> QED
    BY <1>2, <1>3, <2>2
<1>8. \E s \in {"held", "settled"} :
         InEscrows' = [InEscrows EXCEPT ![o] = [state |-> s, user |-> u, amount |-> total]]
  <2> DEFINE s == EscrowState(orders'[o].status)
  <2>1. s \in {"held", "settled"}
    BY <1>4, EscrowStates
  <2>2. orders'[o] = new /\ \A x \in Orders : x # o => orders'[x] = orders[x]
    BY <1>5
  <2>3. InEscrow(o)' = [state |-> s, user |-> u, amount |-> total]
    BY <1>6, <2>2 DEF InEscrow
  <2>4. \A x \in Orders : x # o => InEscrow(x)' = InEscrow(x)
    BY <2>2 DEF InEscrow
  <2> HIDE DEF s
  <2>5. InEscrows' = [InEscrows EXCEPT ![o] = [state |-> s, user |-> u, amount |-> total]]
    BY <2>3, <2>4 DEF InEscrows
  <2> QED
    BY <2>1, <2>5
<1>9. InEscrows[o].state = "none"
  BY <1>4, EscrowStates DEF InEscrows, InEscrow
<1>10. \E s \in {"held", "settled"} :
         InEscrows' = [InEscrows EXCEPT ![o] = [state |-> s, user |-> u,
                                                amount |-> Wallet[u] - Wallet'[u]]]
  BY <1>7, <1>8
<1> QED
  BY <1>7, <1>9, <1>10 DEF Escrow!Buy, Wallet, InEscrows, InEscrow

LEMMA FinishOrderEnds ==
    ASSUME ShopIInv, NEW o \in Orders, NEW s \in Ends, FinishOrder(o, s)
    PROVE  Escrow!Settle(o) \/ Escrow!Return(o)
<1> USE DEF ShopIInv
<1> DEFINE new == [orders[o] EXCEPT !.status = s]
           e == [InEscrows[o] EXCEPT !.state = EscrowState(s)]
<1>1. /\ orders[o].status \in Live /\ orders[o].user \in Users
      /\ Refund(o) \in Op /\ LedgerTypeOK
  BY FinishOrderTypes DEF Ends, FinishOrder, CanEnd, LedgerInv
<1>2. /\ s \in Refunded => Apply(Refund(o))
      /\ s \notin Refunded => UNCHANGED ledgerVars
  BY FinishOrderMoney
<1>3. new.status = s /\ new.user = orders[o].user /\ new.total = orders[o].total
  BY DEF RowsTypeOK, Order
<1>4. orders' = [orders EXCEPT ![o] = new] /\ orders \in [Orders -> Order]
  BY DEF FinishOrder, RowsTypeOK
<1> HIDE DEF new
<1>5. orders'[o] = new /\ \A x \in Orders : x # o => orders'[x] = orders[x]
  BY <1>4
<1>6. InEscrow(o)' = e
  BY <1>3, <1>5 DEF InEscrow, InEscrows
<1>7. \A x \in Orders : x # o => InEscrow(x)' = InEscrow(x)
  BY <1>5 DEF InEscrow
<1> HIDE DEF e
<1>8. InEscrows' = [InEscrows EXCEPT ![o] = e]
  BY <1>6, <1>7 DEF InEscrows
<1>9. /\ InEscrows[o].state = "held" /\ InEscrows[o].user = orders[o].user
      /\ InEscrows[o].amount = orders[o].total
  BY <1>1, EscrowStates DEF InEscrows, InEscrow
<1>10. CASE s \in Refunded
  <2>1. Refund(o).user = orders[o].user /\ Refund(o).delta = orders[o].total
    BY DEF Refund
  <2>2. Wallet' = [Wallet EXCEPT ![orders[o].user] = accounts[orders[o].user].balance
                                                     + orders[o].total]
    BY <1>1, <1>2, <1>10, <2>1, WalletAfter
  <2>3. Wallet' = [Wallet EXCEPT ![InEscrows[o].user] = @ + InEscrows[o].amount]
    BY <1>1, <1>9, <2>2 DEF Wallet
  <2>4. e = [InEscrows[o] EXCEPT !.state = "returned"]
    BY <1>10, EscrowStates DEF e
  <2>5. InEscrows' = [InEscrows EXCEPT ![o].state = "returned"]
    BY <1>8, <2>4
  <2> QED
    BY <1>9, <2>3, <2>5 DEF Escrow!Return, Wallet, InEscrows, InEscrow
<1>11. CASE s \notin Refunded
  <2>1. Wallet' = Wallet
    BY <1>2, <1>11 DEF Wallet, ledgerVars
  <2>2. e = [InEscrows[o] EXCEPT !.state = "settled"]
    BY <1>11, EscrowStates DEF e, Ends
  <2>3. InEscrows' = [InEscrows EXCEPT ![o].state = "settled"]
    BY <1>8, <2>2
  <2> QED
    BY <1>9, <2>1, <2>3 DEF Escrow!Settle, Wallet, InEscrows, InEscrow
<1> QED
  BY <1>10, <1>11

LEMMA TopUpEarns ==
    ASSUME ShopIInv, NEW u \in Users, NEW n \in TopUps, TopUp(u, n)
    PROVE  Escrow!Earn(u)
<1> USE DEF ShopIInv
<1>1. /\ TopUpOf(u, n) \in Op /\ Apply(TopUpOf(u, n)) /\ LedgerTypeOK
      /\ orders' = orders
  BY TopUpTypes DEF LedgerInv
<1>2. TopUpOf(u, n).user = u /\ TopUpOf(u, n).delta = n /\ n \in Nat /\ n > 0
  BY ShopAssumption DEF TopUpOf
<1>3. /\ Wallet' = [Wallet EXCEPT ![u] = Wallet'[u]]
      /\ Wallet[u] = accounts[u].balance /\ Wallet'[u] = accounts[u].balance + n
      /\ accounts[u].balance \in Int
  BY <1>1, <1>2, WalletAfter
<1>4. Wallet'[u] > Wallet[u]
  BY <1>2, <1>3
<1>5. InEscrows' = InEscrows
  BY <1>1 DEF InEscrows, InEscrow
<1> QED
  BY <1>3, <1>4, <1>5 DEF Escrow!Earn, Wallet, InEscrows, InEscrow

\* "同一订单只退一次" (README.md:57): whatever happens to products, cards and
\* goroutines, the points of an order go into escrow once and leave it once,
\* to the shop or back to the buyer.
THEOREM ShopImplementsEscrow == Spec => EscrowSpec
<1>1. Init => Escrow!Init
  BY EscrowInit
<1>2. ShopIInv /\ [Next]_vars => [Escrow!Next]_(Escrow!evars)
  <2> SUFFICES ASSUME ShopIInv, [Next]_vars PROVE [Escrow!Next]_(Escrow!evars)
    OBVIOUS
  <2>1. ASSUME UNCHANGED <<accounts, orders>> PROVE UNCHANGED Escrow!evars
    BY <2>1 DEF Escrow!evars
  <2>2. CASE UNCHANGED vars
    BY <2>1, <2>2 DEF vars, shop
  <2>3. CASE Quiet
    BY <2>1, <2>3 DEF Quiet
  <2>4. ASSUME NEW o \in Orders, NEW u \in Users, NEW p \in Products,
               NEW q \in 1..MaxQty, PlaceOrder(o, u, p, q)
        PROVE  Escrow!Next
    BY <2>4, PlaceOrderBuys DEF Escrow!Next
  <2>5. ASSUME NEW o \in Orders, NEW s \in Ends, FinishOrder(o, s) PROVE Escrow!Next
    BY <2>5, FinishOrderEnds DEF Escrow!Next
  <2>6. ASSUME NEW u \in Users, NEW n \in TopUps, TopUp(u, n) PROVE Escrow!Next
    BY <2>6, TopUpEarns DEF Escrow!Next
  <2>7. CASE Next
    BY <2>3, <2>4, <2>5, <2>6, <2>7, StepKinds DEF Next, ShopIInv
  <2> QED
    BY <2>2, <2>7
<1> QED
  BY <1>1, <1>2, ShopInductive, PTL DEF Spec, EscrowSpec, Escrow!Spec


-----------------------------------------------------------------------------
(* Stock, sold and the limit per user. *)

\* The terms of the catalogue stay: no PUT sends stock, limit or delivery.
TermsStay == \A patch \in Patches : DOMAIN patch \cap {"stock", "limit", "delivery"} = {}

Qty == [o \in Orders |-> orders[o].qty]
Ordered == {o \in Orders : orders[o].status # "none"}
HasOrders(p) == \E o \in Orders : orders[o].product = p

\* Rows that say the same of stock and sold.
SameCount(row, other) == row.sold = other.sold /\ row.stock = other.stock
OnTerms(row, p) == row.delivery = Catalogue[p].delivery /\ row.limit = Catalogue[p].limit

\* What the row of a product counts.
Counts(p) ==
    /\ products[p].row.sold = SumUp(Qty, Kept(p))
    /\ Catalogue[p].stock >= 0 /\ Catalogue[p].delivery # "cdk"
         => /\ products[p].row.stock >= 0
            /\ products[p].row.stock + SumUp(Qty, Kept(p)) = Catalogue[p].stock

\* An edit of p that waits has read what the row still counts.
Fresh(p) == \A r \in Req : h[r].at = "edit" /\ h[r].product = p
                              => SameCount(h[r].row, products[p].row)

TermsOK ==
    /\ \A p \in Products : OnTerms(products[p].row, p)
    /\ \A r \in Req : h[r].at = "edit" => OnTerms(h[r].row, h[r].product)

StockOK(p) ==
    /\ Counts(p)
    /\ Fresh(p)
    /\ HasOrders(p) => products[p].state = "live"

Within(u, p) == Catalogue[p].limit > 0
                  => SumUp(Qty, {o \in Kept(p) : orders[o].user = u}) <= Catalogue[p].limit

StockIInv ==
    /\ IsFiniteSet(Ordered)
    /\ TermsOK
    /\ \A p \in Products \ overtaken : StockOK(p)
    /\ \A u \in Users, p \in Products : Within(u, p)

\* The sum of the runs (MapThenSumSet) is the sum of the lemmas.
LEMMA SumIsSumUp ==
    ASSUME NEW S \in SUBSET Orders, IsFiniteSet(S)
    PROVE  Sum(S) = SumUp(Qty, S)
<1> DEFINE Adds(i) == i = [s \in SUBSET S |->
                              IF s = {} THEN 0
                              ELSE orders[CHOOSE x \in s : TRUE].qty
                                     + i[s \ {CHOOSE x \in s : TRUE}]]
           k == CHOOSE i : Adds(i)
           j == CHOOSE i : AddsUp(i, Qty, S)
<1>1. Sum(S) = k[S]
  BY Zenon DEF Sum, MapThenSumSet, MapThenFoldSet
<1>2. \A x \in S : Qty[x] = orders[x].qty
  BY DEF Qty
<1>3. ASSUME NEW i PROVE Adds(i) <=> AddsUp(i, Qty, S)
  <2>1. \A s \in SUBSET S :
           (IF s = {} THEN 0 ELSE orders[CHOOSE x \in s : TRUE].qty
                                    + i[s \ {CHOOSE x \in s : TRUE}])
           = (IF s = {} THEN 0 ELSE Qty[Chosen(s)] + i[s \ {Chosen(s)}])
    <3> TAKE s \in SUBSET S
    <3>1. s # {} => Chosen(s) \in S
      BY ChosenIn
    <3>2. s # {} => Qty[Chosen(s)] = orders[Chosen(s)].qty
      BY <1>2, <3>1
    <3>3. Chosen(s) = CHOOSE x \in s : TRUE
      BY DEF Chosen
    <3> QED
      BY <3>2, <3>3
  <2>2. [s \in SUBSET S |-> IF s = {} THEN 0
                            ELSE orders[CHOOSE x \in s : TRUE].qty
                                   + i[s \ {CHOOSE x \in s : TRUE}]]
        = [s \in SUBSET S |-> IF s = {} THEN 0 ELSE Qty[Chosen(s)] + i[s \ {Chosen(s)}]]
    BY <2>1, Zenon
  <2> QED
    BY <2>2, Zenon DEF AddsUp
<1>4. \E i : AddsUp(i, Qty, S)
  BY AddsUpExists
<1>5. AddsUp(j, Qty, S)
  BY <1>4
<1>6. AddsUp(k, Qty, S)
  <2>1. \E i : Adds(i)
    <3>1. PICK i : AddsUp(i, Qty, S)
      BY <1>4
    <3>2. Adds(i)
      BY <1>3, <3>1
    <3> HIDE DEF Adds
    <3> QED
      BY <3>2
  <2>2. Adds(k)
    <3> HIDE DEF Adds
    <3> QED
      BY <2>1
  <2> HIDE DEF k, Adds
  <2> QED
    BY <1>3, <2>2
<1>7. k[S] = j[S]
  <2> HIDE DEF k, j, Adds
  <2> QED
    BY <1>5, <1>6, AddsUpOnce
<1> QED
  BY <1>1, <1>7 DEF SumUp


\* Kept orders were placed, so they are finitely many and add up to a natural.
LEMMA KeptFacts ==
    ASSUME RowsTypeOK, Placed, IsFiniteSet(Ordered), NEW p \in Products
    PROVE  /\ Kept(p) \in SUBSET Orders /\ IsFiniteSet(Kept(p))
           /\ \A o \in Orders : Qty[o] = orders[o].qty /\ Qty[o] \in Nat
           /\ SumUp(Qty, Kept(p)) \in Nat
           /\ \A u : LET own == {o \in Kept(p) : orders[o].user = u}
                     IN  IsFiniteSet(own) /\ SumUp(Qty, own) \in Nat /\ Sum(own) = SumUp(Qty, own)
           /\ Sum(Kept(p)) = SumUp(Qty, Kept(p))
<1>1. \A o \in Orders : Qty[o] = orders[o].qty /\ Qty[o] \in Nat
  BY DEF Qty, RowsTypeOK, Order
<1>2. Kept(p) \subseteq Ordered /\ Ordered \subseteq Orders
  BY ShopAssumption DEF Kept, Ordered, Placed, NoOrder
<1>3. ASSUME NEW S \in SUBSET Kept(p)
      PROVE  IsFiniteSet(S) /\ SumUp(Qty, S) \in Nat /\ Sum(S) = SumUp(Qty, S)
  <2>1. IsFiniteSet(S) /\ S \in SUBSET Orders
    BY <1>2, <1>3, FS_Subset
  <2>2. \A o \in S : Qty[o] \in Nat
    BY <1>1, <2>1
  <2> QED
    BY <2>1, <2>2, SumUpIsNat, SumIsSumUp
<1>4. IsFiniteSet(Kept(p)) /\ SumUp(Qty, Kept(p)) \in Nat /\ Sum(Kept(p)) = SumUp(Qty, Kept(p))
  BY <1>3
<1>5. ASSUME NEW u
      PROVE  LET own == {o \in Kept(p) : orders[o].user = u}
             IN  IsFiniteSet(own) /\ SumUp(Qty, own) \in Nat /\ Sum(own) = SumUp(Qty, own)
  <2>1. {o \in Kept(p) : orders[o].user = u} \in SUBSET Kept(p)
    OBVIOUS
  <2> QED
    BY <1>3, <2>1
<1> QED
  BY <1>1, <1>2, <1>4, <1>5

-----------------------------------------------------------------------------
\* What a step that leaves the orders alone may do to the row of a product.
Counted(p) == /\ products'[p].state = products[p].state
              /\ SameCount(products'[p].row, products[p].row)
              /\ products'[p].row.delivery = products[p].row.delivery
              /\ products'[p].row.limit = products[p].row.limit
Created(p) == products[p].state = "none" /\ products'[p] = [state |-> "live", row |-> Catalogue[p]]
Saved(p) == \E r \in Req : /\ h[r].at = "edit" /\ h[r].product = p
                           /\ products'[p] = [state |-> "live", row |-> h[r].row]
Dropped(p) == products'[p].state = "deleted" /\ products'[p].row = products[p].row
RowMove(p) == Counted(p) \/ Created(p) \/ Saved(p) \/ Dropped(p)

\* An edit that waits after a step waited before it or has just read the row.
JustRead(r) ==
    /\ UNCHANGED <<products, orders>>
    /\ \E p \in Products, patch \in Patches :
          /\ products[p].state = "live"
          /\ h'[r] = [at |-> "edit", product |-> p, row |-> Patched(products[p].row, patch)]
EditMove(r) == h'[r].at = "edit" => h'[r] = h[r] \/ JustRead(r)
EditsMove == \A r \in Req : EditMove(r)

LEMMA GotoEdits ==
    ASSUME RowsTypeOK, NEW j \in Orders \cup Req, NEW s, s.at # "edit", Goto(j, s)
    PROVE  EditsMove
BY DEF RowsTypeOK, Goto, EditsMove, EditMove

LEMMA SameEdits ==
    ASSUME UNCHANGED h
    PROVE  EditsMove
BY DEF EditsMove, EditMove

LEMMA SameRows ==
    ASSUME UNCHANGED products
    PROVE  \A p \in Products : RowMove(p)
BY DEF RowMove, Counted, SameCount

LEMMA AdminStock ==
    ASSUME RowsTypeOK, NEW r \in Req, AdminStep(r)
    PROVE  orders' = orders /\ EditsMove /\ \A p \in Products : RowMove(p)
<1>i. Idle.at # "edit"
  BY DEF Idle
<1>1. CASE SaveProduct(r)
  <2>1. h[r].product \in Products /\ Goto(r, Idle)
    BY <1>1, Held DEF SaveProduct
  <2>2. \A p \in Products : p # h[r].product => products'[p] = products[p]
    BY <1>1 DEF SaveProduct, RowsTypeOK
  <2>3. products'[h[r].product] = [state |-> "live", row |-> h[r].row]
    BY <1>1, <2>1 DEF SaveProduct, RowsTypeOK
  <2>4. \A p \in Products : RowMove(p)
    BY <1>1, <2>2, <2>3 DEF SaveProduct, RowMove, Counted, SameCount, Saved
  <2> QED
    BY <1>1, <1>i, <2>1, <2>4, GotoEdits DEF SaveProduct
<1>2. CASE DisableProduct(r)
  <2> DEFINE p == h[r].product
             row == [products[p].row EXCEPT !.enabled = FALSE]
             new == [products[p] EXCEPT !.row = row]
  <2>1. p \in Products /\ Goto(r, Idle) /\ orders' = orders
    BY <1>2, Held DEF DisableProduct
  <2>2. products[p] \in Product /\ products[p].row \in Columns
    BY <2>1 DEF RowsTypeOK, Product
  <2>3. /\ row.sold = products[p].row.sold /\ row.stock = products[p].row.stock
        /\ row.delivery = products[p].row.delivery /\ row.limit = products[p].row.limit
    BY <2>2 DEF Columns
  <2>4. new.state = products[p].state /\ new.row = row
    BY <2>2 DEF Product
  <2>5. products' = [products EXCEPT ![p] = new]
    BY <1>2 DEF DisableProduct
  <2> HIDE DEF new, row
  <2>6. products'[p] = new /\ \A q \in Products : q # p => products'[q] = products[q]
    BY <2>1, <2>5 DEF RowsTypeOK
  <2>7. \A q \in Products : RowMove(q)
    BY <2>3, <2>4, <2>6 DEF RowMove, Counted, SameCount
  <2> QED
    BY <1>i, <2>1, <2>7, GotoEdits
<1>3. CASE DropCards(r)
  <2>1. /\ Goto(r, [at |-> "dropRow", product |-> h[r].product])
        /\ UNCHANGED <<products, orders>>
    BY <1>3 DEF DropCards
  <2> QED
    BY <2>1, GotoEdits, SameRows
<1>4. CASE DropRow(r)
  <2> DEFINE p == h[r].product
             new == [products[p] EXCEPT !.state = "deleted"]
  <2>1. p \in Products /\ Goto(r, Idle) /\ orders' = orders
    BY <1>4, Held DEF DropRow
  <2>2. new.state = "deleted" /\ new.row = products[p].row
    BY <2>1 DEF RowsTypeOK, Product
  <2>3. products' = [products EXCEPT ![p] = new]
    BY <1>4 DEF DropRow
  <2> HIDE DEF new
  <2>4. products'[p] = new /\ \A q \in Products : q # p => products'[q] = products[q]
    BY <2>1, <2>3 DEF RowsTypeOK
  <2>5. \A q \in Products : RowMove(q)
    BY <2>2, <2>4 DEF RowMove, Counted, SameCount, Dropped
  <2> QED
    BY <1>i, <2>1, <2>5, GotoEdits
<1>5. CASE ImportCard(r)
  <2>1. Goto(r, Idle) /\ UNCHANGED <<products, orders>>
    BY <1>5 DEF ImportCard
  <2> QED
    BY <1>i, <2>1, GotoEdits, SameRows
<1>6. CASE \E o \in Orders : RetryOrder(r, o)
  <2>1. PICK o \in Orders : RetryOrder(r, o)
    BY <1>6
  <2>2. Goto(r, [at |-> "queued", order |-> o]) /\ UNCHANGED <<products, orders>>
    BY <2>1 DEF RetryOrder
  <2> QED
    BY <2>2, GotoEdits, SameRows
<1>7. ASSUME NEW p \in Products, StartDelete(r, p)
      PROVE  orders' = orders /\ EditsMove /\ \A q \in Products : RowMove(q)
  <2> DEFINE at == IF HasOrders(p) THEN "disable" ELSE "dropCards"
             s == [at |-> at, product |-> p]
  <2>1. Goto(r, s) /\ UNCHANGED <<products, orders>>
    BY <1>7 DEF StartDelete, HasOrders
  <2>2. s.at # "edit"
    OBVIOUS
  <2> HIDE DEF s
  <2> QED
    BY <2>1, <2>2, GotoEdits, SameRows
<1>8. ASSUME NEW p \in Products, StartImport(r, p)
      PROVE  orders' = orders /\ EditsMove /\ \A q \in Products : RowMove(q)
  <2>1. Goto(r, [at |-> "import", product |-> p]) /\ UNCHANGED <<products, orders>>
    BY <1>8 DEF StartImport
  <2> QED
    BY <2>1, GotoEdits, SameRows
<1>9. ASSUME NEW p \in Products, NEW patch \in Patches, StartEdit(r, p, patch)
      PROVE  orders' = orders /\ EditsMove /\ \A q \in Products : RowMove(q)
  <2> DEFINE s == [at |-> "edit", product |-> p, row |-> Patched(products[p].row, patch)]
  <2>1. h' = [h EXCEPT ![r] = s] /\ UNCHANGED <<products, orders>> /\ products[p].state = "live"
    BY <1>9 DEF StartEdit, Goto
  <2>2. h'[r] = s /\ \A q \in Req : q # r => h'[q] = h[q]
    <3> HIDE DEF s
    <3> QED BY <2>1 DEF RowsTypeOK
  <2>3. EditMove(r)
    BY <2>1, <2>2 DEF EditMove, JustRead
  <2>4. EditsMove
    BY <2>2, <2>3 DEF EditsMove, EditMove
  <2> QED
    BY <2>1, <2>4, SameRows
<1> QED
  BY <1>1, <1>2, <1>3, <1>4, <1>5, <1>6, <1>7, <1>8, <1>9 DEF AdminStep

\* For the count, a step of the shop leaves the orders alone, places one or ends one.
LEMMA StockSteps ==
    ASSUME RowsTypeOK, ShopStep
    PROVE  /\ EditsMove
           /\ \/ orders' = orders /\ \A p \in Products : RowMove(p)
              \/ \E o \in Orders, u \in Users, p \in Products, q \in 1..MaxQty :
                    PlaceOrder(o, u, p, q)
              \/ \E o \in Orders, s \in Ends : FinishOrder(o, s)
<1> DEFINE Calm == orders' = orders /\ \A p \in Products : RowMove(p)
           Placing == \E o \in Orders, u \in Users, p \in Products, q \in 1..MaxQty :
                         PlaceOrder(o, u, p, q)
           Ending == \E o \in Orders, s \in Ends : FinishOrder(o, s)
<1>i. Idle.at # "edit"
  BY DEF Idle
<1>1. ASSUME NEW p \in Products, CreateProduct(p) PROVE EditsMove /\ Calm
  <2>1. /\ products[p].state = "none" /\ UNCHANGED <<orders, h>>
        /\ products' = [products EXCEPT ![p] = [state |-> "live", row |-> Catalogue[p]]]
    BY <1>1 DEF CreateProduct
  <2>2. \A q \in Products : RowMove(q)
    BY <2>1 DEF RowsTypeOK, RowMove, Created, Counted, SameCount
  <2> QED
    BY <2>1, <2>2, SameEdits
<1>2. ASSUME NEW c \in Cards, DeleteCard(c) PROVE EditsMove /\ Calm
  BY <1>2, SameEdits, SameRows DEF DeleteCard
<1>3. ASSUME NEW r \in Req, AdminStep(r) PROVE EditsMove /\ Calm
  BY <1>3, AdminStock
<1>4. ASSUME NEW o \in Orders, OrderStep(o) PROVE EditsMove /\ (Placing \/ Ending)
  <2>1. CASE Deliver(o) \/ Fail(o) \/ Cancel(o)
    <3>1. UNCHANGED h
      BY <2>1 DEF Deliver, Fail, Cancel
    <3>2. Ending
      BY <2>1 DEF Deliver, Fail, Cancel, Ends, Refunded
    <3> QED
      BY <3>1, <3>2, SameEdits
  <2>2. ASSUME NEW u \in Users, NEW p \in Products, NEW q \in 1..MaxQty,
               PlaceOrder(o, u, p, q)
        PROVE  EditsMove /\ Placing
    <3>1. h' = h \/ Goto(o, [at |-> "queued", order |-> o])
      BY <2>2 DEF PlaceOrder, Goto
    <3>2. EditsMove
      BY <3>1, GotoEdits, SameEdits
    <3> QED
      BY <2>2, <3>2
  <2> QED
    BY <1>4, <2>1, <2>2 DEF OrderStep
<1>5. ASSUME NEW j \in Orders \cup Req, DispatchStep(j) PROVE EditsMove /\ (Calm \/ Ending)
  <2>1. CASE StartDispatch(j)
    <3> DEFINE o == h[j].order
               s == IF orders[o].status = "processing"
                       /\ products[orders[o].product].state = "live"
                    THEN [at |-> "posting", order |-> o] ELSE Idle
    <3>1. Goto(j, s) /\ UNCHANGED <<products, orders>>
      BY <2>1 DEF StartDispatch
    <3>2. s.at # "edit"
      BY <1>i
    <3> HIDE DEF s
    <3> QED
      BY <3>1, <3>2, GotoEdits, SameRows
  <2>2. ASSUME NEW reply \in Replies, DispatchReply(j, reply)
        PROVE  EditsMove /\ (Calm \/ Ending)
    <3>1. h[j].order \in Orders /\ Goto(j, Idle)
      BY <2>2, Held DEF DispatchReply
    <3>2. \/ FinishOrder(h[j].order, ReplyStatus(reply))
          \/ UNCHANGED <<products, orders>>
      BY <2>2 DEF DispatchReply
    <3>3. ReplyStatus(reply) \in Ends
      BY DEF ReplyStatus, Ends, Refunded
    <3>4. EditsMove
      BY <1>i, <3>1, GotoEdits
    <3>5. CASE FinishOrder(h[j].order, ReplyStatus(reply))
      BY <3>1, <3>3, <3>4, <3>5
    <3>6. CASE UNCHANGED <<products, orders>>
      BY <3>4, <3>6, SameRows
    <3> QED
      BY <3>2, <3>5, <3>6
  <2> QED
    BY <1>5, <2>1, <2>2 DEF DispatchStep
<1>6. ASSUME NEW u \in Users, NEW n \in TopUps, TopUp(u, n) PROVE EditsMove /\ Calm
  BY <1>6, SameEdits, SameRows DEF TopUp
<1>7. ASSUME Restart PROVE EditsMove /\ Calm
  <2>1. UNCHANGED <<products, orders>> /\ \A r \in Req : h'[r] = Idle
    BY <1>7 DEF Restart
  <2> QED
    BY <1>i, <2>1, SameRows DEF EditsMove, EditMove
<1> HIDE DEF Calm, Placing, Ending
<1>8. EditsMove /\ (Calm \/ Placing \/ Ending)
  BY <1>1, <1>2, <1>3, <1>4, <1>5, <1>6, <1>7 DEF ShopStep
<1> QED
  BY <1>8 DEF Calm, Placing, Ending


-----------------------------------------------------------------------------
\* productInput.apply keeps what was not sent.
LEMMA PatchedCounts ==
    ASSUME TermsStay, NEW p \in Products, NEW row \in Columns, NEW patch \in Patches,
           OnTerms(row, p)
    PROVE  SameCount(Patched(row, patch), row) /\ OnTerms(Patched(row, patch), p)
BY DEF TermsStay, Patched, SameCount, OnTerms

\* The terms stay those of the catalogue, and edits read them.
LEMMA TermsMove ==
    ASSUME RowsTypeOK, TermsStay, TermsOK, EditsMove,
           \A p \in Products : OnTerms(products'[p].row, p)
    PROVE  TermsOK'
<1> SUFFICES ASSUME NEW r \in Req, h'[r].at = "edit" PROVE OnTerms(h'[r].row, h'[r].product)
  BY DEF TermsOK
<1>1. CASE h'[r] = h[r]
  BY <1>1 DEF TermsOK
<1>2. CASE JustRead(r)
  <2>1. PICK p \in Products, patch \in Patches :
           h'[r] = [at |-> "edit", product |-> p, row |-> Patched(products[p].row, patch)]
    BY <1>2 DEF JustRead
  <2>2. products[p].row \in Columns /\ OnTerms(products[p].row, p)
    BY DEF RowsTypeOK, Product, TermsOK
  <2>3. OnTerms(Patched(products[p].row, patch), p)
    BY <2>2, PatchedCounts
  <2> QED
    BY <2>1, <2>3
<1> QED
  BY <1>1, <1>2 DEF EditsMove, EditMove

\* An edit of a product that was not overtaken has read what the row counts.
LEMMA FreshMove ==
    ASSUME RowsTypeOK, TermsStay, TermsOK, EditsMove, NEW p \in Products, Fresh(p),
           overtaken' = overtaken \cup Overtaken, p \notin overtaken'
    PROVE  Fresh(p)'
<1> SUFFICES ASSUME NEW r \in Req, h'[r].at = "edit", h'[r].product = p
             PROVE  SameCount(h'[r].row, products'[p].row)
  BY DEF Fresh
<1>1. CASE h'[r] = h[r]
  <2>1. products'[p].row = products[p].row
    BY <1>1 DEF Overtaken
  <2> QED
    BY <1>1, <2>1 DEF Fresh
<1>2. CASE JustRead(r)
  <2>1. PICK x \in Products, patch \in Patches :
           h'[r] = [at |-> "edit", product |-> x, row |-> Patched(products[x].row, patch)]
    BY <1>2 DEF JustRead
  <2>2. x = p /\ products' = products
    BY <1>2, <2>1 DEF JustRead
  <2>3. products[p].row \in Columns /\ OnTerms(products[p].row, p)
    BY DEF RowsTypeOK, Product, TermsOK
  <2>4. SameCount(Patched(products[p].row, patch), products[p].row)
    BY <2>3, PatchedCounts
  <2> QED
    BY <2>1, <2>2, <2>4
<1> QED
  BY <1>1, <1>2 DEF EditsMove, EditMove

\* Nothing was kept of a product that has no orders.
LEMMA NothingKept ==
    ASSUME NEW p \in Products, ~HasOrders(p)
    PROVE  Kept(p) = {} /\ SumUp(Qty, Kept(p)) = 0
BY SumUpNothing DEF HasOrders, Kept

LEMMA CalmStock ==
    ASSUME ShopIInv, StockIInv, TermsStay, EditsMove, orders' = orders,
           \A p \in Products : RowMove(p), overtaken' = overtaken \cup Overtaken
    PROVE  StockIInv'
<1>1. /\ RowsTypeOK /\ TermsOK /\ IsFiniteSet(Ordered)
      /\ \A p \in Products \ overtaken : StockOK(p)
      /\ \A u \in Users, p \in Products : Within(u, p)
  BY DEF ShopIInv, StockIInv
<1>2. /\ \A p : Kept(p)' = Kept(p) /\ (HasOrders(p)' <=> HasOrders(p))
      /\ Qty' = Qty /\ Ordered' = Ordered
  BY DEF Kept, HasOrders, Qty, Ordered
<1>3. ASSUME NEW p \in Products PROVE OnTerms(products'[p].row, p)
  <2>1. CASE Counted(p)
    BY <1>1, <2>1 DEF Counted, OnTerms, TermsOK
  <2>2. CASE Created(p)
    BY <2>2 DEF Created, OnTerms
  <2>3. CASE Saved(p)
    BY <1>1, <2>3 DEF Saved, TermsOK
  <2>4. CASE Dropped(p)
    BY <1>1, <2>4 DEF Dropped, TermsOK
  <2> QED
    BY <2>1, <2>2, <2>3, <2>4 DEF RowMove
<1>4. TermsOK'
  BY <1>1, <1>3, TermsMove
<1>5. ASSUME NEW p \in Products \ overtaken' PROVE StockOK(p)'
  <2>1. StockOK(p)
    BY <1>1, <1>5
  <2>2. Fresh(p)'
    BY <1>1, <2>1, <1>5, FreshMove DEF StockOK
  <2>3. HasOrders(p) => products'[p].state # "deleted"
    BY <1>5 DEF Overtaken, HasOrders
  <2>4. CASE Counted(p) \/ Dropped(p)
    <3>1. /\ products'[p].row.sold = products[p].row.sold
          /\ products'[p].row.stock = products[p].row.stock
      BY <2>4 DEF Counted, Dropped, SameCount
    <3>2. Counts(p)'
      BY <1>2, <2>1, <3>1 DEF StockOK, Counts
    <3>3. HasOrders(p) => products'[p].state = "live"
      BY <2>1, <2>3, <2>4 DEF StockOK, Counted, Dropped
    <3> QED
      BY <1>2, <2>2, <3>2, <3>3 DEF StockOK
  <2>5. CASE Created(p)
    <3>1. ~HasOrders(p) /\ products'[p].row = Catalogue[p] /\ products'[p].state = "live"
      BY <2>1, <2>5 DEF StockOK, Created
    <3>2. SumUp(Qty, Kept(p)) = 0
      BY <3>1, NothingKept
    <3>3. Catalogue[p].sold = 0 /\ Catalogue[p].stock \in Int
      BY ShopAssumption DEF Columns
    <3>4. Counts(p)'
      BY <1>2, <3>1, <3>2, <3>3 DEF Counts
    <3> QED
      BY <2>2, <3>1, <3>4 DEF StockOK
  <2>6. CASE Saved(p)
    <3>1. PICK r \in Req : /\ h[r].at = "edit" /\ h[r].product = p
                           /\ products'[p] = [state |-> "live", row |-> h[r].row]
      BY <2>6 DEF Saved
    <3>2. SameCount(h[r].row, products[p].row)
      BY <2>1, <3>1 DEF StockOK, Fresh
    <3>3. /\ products'[p].row.sold = products[p].row.sold
          /\ products'[p].row.stock = products[p].row.stock
          /\ products'[p].state = "live"
      BY <3>1, <3>2 DEF SameCount
    <3>4. Counts(p)'
      BY <1>2, <2>1, <3>3 DEF StockOK, Counts
    <3> QED
      BY <2>2, <3>3, <3>4 DEF StockOK
  <2> QED
    BY <2>4, <2>5, <2>6 DEF RowMove
<1>6. \A u \in Users, p \in Products : Within(u, p)'
  BY <1>1, <1>2 DEF Within
<1> QED
  BY <1>1, <1>2, <1>4, <1>5, <1>6 DEF StockIInv


\* What the pieces add up to when one order comes to be.
LEMMA SumGrows ==
    ASSUME RowsTypeOK, RowsTypeOK', NEW o \in Orders, NEW S \in SUBSET Orders, IsFiniteSet(S),
           o \notin S, \A x \in Orders : x # o => orders'[x].qty = orders[x].qty
    PROVE  /\ SumUp(Qty, S)' = SumUp(Qty, S)
           /\ (SumUp(Qty, S \cup {o}))' = SumUp(Qty, S) + orders'[o].qty
<1> DEFINE f == Qty
           g == Qty'
<1>1. \A x \in S : g[x] = f[x]
  BY DEF Qty
<1>2. \A x \in Orders : g[x] = orders'[x].qty /\ g[x] \in Int
  BY DEF Qty, RowsTypeOK, Order
<1>3. SumUp(Qty, S)' = SumUp(g, S) /\ (SumUp(Qty, S \cup {o}))' = SumUp(g, S \cup {o})
  BY DEF SumUp, AddsUp, Chosen
<1> HIDE DEF f, g
<1>4. SumUp(g, S) = SumUp(f, S)
  BY <1>1, SumUpSame
<1>5. SumUp(g, S \cup {o}) = SumUp(g, S) + g[o]
  BY <1>2, SumUpAdds
<1>6. f = Qty
  BY DEF f
<1> QED
  BY <1>2, <1>3, <1>4, <1>5, <1>6

LEMMA PlaceStock ==
    ASSUME ShopIInv, RowsTypeOK', StockIInv, TermsStay, EditsMove,
           overtaken' = overtaken \cup Overtaken,
           NEW o \in Orders, NEW u \in Users, NEW p \in Products,
           NEW q \in 1..MaxQty, PlaceOrder(o, u, p, q)
    PROVE  StockIInv'
<1> DEFINE row == products[p].row
           content == IF row.delivery = "cdk" THEN Picked(p, q) ELSE {}
           new == [status |-> InitialStatus(row.delivery), user |-> u, product |-> p,
                   qty |-> q, total |-> row.price * q, delivery |-> row.delivery,
                   content |-> content]
           stock == IF row.delivery # "cdk" /\ row.stock >= 0 THEN row.stock - q ELSE row.stock
           row2 == [row EXCEPT !.sold = row.sold + q, !.stock = stock]
           prod2 == [products[p] EXCEPT !.row = row2]
           Own(v, x) == {k \in Kept(x) : orders[k].user = v}
<1>1. /\ RowsTypeOK /\ Placed /\ TermsOK /\ IsFiniteSet(Ordered)
      /\ \A x \in Products \ overtaken : StockOK(x)
      /\ \A v \in Users, x \in Products : Within(v, x)
  BY DEF ShopIInv, StockIInv
<1>2. /\ orders' = [orders EXCEPT ![o] = new]
      /\ products' = [products EXCEPT ![p] = prod2]
      /\ \A x \in Orders : orders[x].status = "none" <=> x >= o
      /\ products[p].state = "live" /\ InStock(p, q)
      /\ row.limit > 0 => Bought(u, p) + q <= row.limit
  BY DEF PlaceOrder
<1>3. /\ products[p] \in Product /\ row \in Columns /\ q \in Nat
      /\ row.stock \in Int /\ row.sold \in Int /\ row.limit \in Nat
      /\ row.delivery \in {"cdk", "webhook", "manual"}
  <2>1. products[p] \in Product /\ row \in Columns
    BY <1>1 DEF RowsTypeOK, Product
  <2>2. q \in Nat
    BY ShopAssumption
  <2> HIDE DEF row
  <2> QED
    BY <2>1, <2>2 DEF Columns
<1>4. /\ row2.sold = row.sold + q /\ row2.stock = stock
      /\ row2.delivery = row.delivery /\ row2.limit = row.limit
  <2> HIDE DEF stock, row
  <2> QED BY <1>3 DEF row2, Columns
<1>5. prod2.row = row2 /\ prod2.state = "live"
  <2> HIDE DEF row2, row
  <2> QED BY <1>2, <1>3 DEF Product
<1>6. new.user = u /\ new.product = p /\ new.qty = q /\ new.status = InitialStatus(row.delivery)
  OBVIOUS
<1>7. new.status \notin Refunded \cup {"none"}
  BY <1>3, <1>6 DEF InitialStatus, Refunded
<1>8. orders[o] = NoOrder
  <2>1. o >= o
    BY ShopAssumption
  <2> QED
    BY <1>1, <1>2, <2>1 DEF Placed
<1> HIDE DEF new, row2, prod2, content
<1>9. /\ products'[p] = prod2 /\ \A x \in Products : x # p => products'[x] = products[x]
      /\ orders'[o] = new /\ \A x \in Orders : x # o => orders'[x] = orders[x]
  BY <1>1, <1>2 DEF RowsTypeOK
<1>10. /\ Kept(p)' = Kept(p) \cup {o}
       /\ \A x \in Products : x # p => Kept(x)' = Kept(x)
       /\ \A x \in Products : o \notin Kept(x)
  <2>1. \A x \in Products : orders[o].product # x
    BY <1>8, ShopAssumption DEF NoOrder
  <2>2. orders'[o].product = p /\ orders'[o].status \notin Refunded
    BY <1>6, <1>7, <1>9
  <2>3. \A x \in Products : o \notin Kept(x)
    BY <2>1 DEF Kept
  <2> QED
    BY <1>9, <2>2, <2>3 DEF Kept
<1>11. /\ \A v, x : Own(v, x) \in SUBSET Kept(x)
       /\ \A v, x : v # u \/ x # p => (x \in Products => Own(v, x)' = Own(v, x))
       /\ Own(u, p)' = Own(u, p) \cup {o}
  <2>1. \A x \in Products : \A k \in Kept(x) : k \in Orders /\ k # o /\ orders'[k] = orders[k]
    BY <1>9, <1>10 DEF Kept
  <2>2. orders'[o].user = u
    BY <1>6, <1>9
  <2> QED
    BY <1>10, <2>1, <2>2
<1>12. \A x \in Products : /\ Kept(x) \in SUBSET Orders /\ IsFiniteSet(Kept(x))
                           /\ SumUp(Qty, Kept(x)) \in Nat
  BY <1>1, KeptFacts
<1>13. \A x \in Products : \A S \in SUBSET Kept(x) :
          /\ SumUp(Qty, S)' = SumUp(Qty, S)
          /\ (SumUp(Qty, S \cup {o}))' = SumUp(Qty, S) + q
  <2>1. \A x \in Orders : x # o => orders'[x].qty = orders[x].qty
    BY <1>9
  <2>2. orders'[o].qty = q
    BY <1>6, <1>9
  <2>3. \A x \in Products : \A S \in SUBSET Kept(x) : S \in SUBSET Orders /\ IsFiniteSet(S) /\ o \notin S
    BY <1>10, <1>12, FS_Subset
  <2> QED
    BY <1>1, <2>1, <2>2, <2>3, SumGrows
<1>14. ASSUME NEW x \in Products PROVE OnTerms(products'[x].row, x)
  BY <1>1, <1>4, <1>5, <1>9 DEF OnTerms, TermsOK
<1>15. TermsOK'
  BY <1>1, <1>14, TermsMove
<1>16. ASSUME NEW x \in Products \ overtaken' PROVE StockOK(x)'
  <2>1. StockOK(x) /\ x \in Products
    BY <1>1, <1>16
  <2>2. Fresh(x)'
    BY <1>1, <1>16, <2>1, FreshMove DEF StockOK
  <2>3. CASE x # p
    <3>1. products'[x] = products[x] /\ Kept(x)' = Kept(x)
      BY <1>9, <1>10, <2>1, <2>3
    <3>2. SumUp(Qty, Kept(x))' = SumUp(Qty, Kept(x))
      <4> DEFINE S == Kept(x)
      <4>1. SumUp(Qty, S)' = SumUp(Qty', S')
        BY DEF SumUp, AddsUp, Chosen
      <4> QED
        BY <1>13, <2>1, <3>1
    <3>3. Counts(x)'
      BY <2>1, <3>1, <3>2 DEF StockOK, Counts
    <3>4. HasOrders(x)' => HasOrders(x)
      BY <1>6, <1>9, <2>3 DEF HasOrders
    <3> QED
      BY <2>1, <2>2, <3>1, <3>3, <3>4 DEF StockOK
  <2>4. CASE x = p
    <3>1. SumUp(Qty, Kept(p))' = SumUp(Qty, Kept(p)) + q
      BY <1>10, <1>13
    <3>2. products'[p].row.sold = SumUp(Qty, Kept(p)) + q
      BY <1>4, <1>5, <1>9, <2>1, <2>4 DEF StockOK, Counts
    <3>3. ASSUME Catalogue[p].stock >= 0, Catalogue[p].delivery # "cdk"
          PROVE  /\ products'[p].row.stock >= 0
                 /\ products'[p].row.stock + SumUp(Qty, Kept(p))' = Catalogue[p].stock
      <4>1. /\ row.stock >= 0 /\ row.stock + SumUp(Qty, Kept(p)) = Catalogue[p].stock
            /\ row.delivery # "cdk"
        BY <1>1, <2>1, <2>4, <3>3 DEF StockOK, Counts, TermsOK, OnTerms
      <4>2. row.stock >= q
        BY <1>2, <4>1 DEF InStock
      <4>3. products'[p].row.stock = row.stock - q
        BY <1>4, <1>5, <1>9, <4>1
      <4>4. SumUp(Qty, Kept(p)) \in Nat
        BY <1>12
      <4> HIDE DEF row
      <4> QED
        BY <1>3, <3>1, <4>1, <4>2, <4>3, <4>4
    <3>4. Counts(p)'
      BY <3>1, <3>2, <3>3 DEF Counts
    <3> QED
      BY <1>5, <1>9, <2>2, <2>4, <3>4 DEF StockOK
  <2> QED
    BY <2>3, <2>4
<1>17. ASSUME NEW v \in Users, NEW x \in Products PROVE Within(v, x)'
  <2>1. Within(v, x) /\ Own(v, x) \in SUBSET Kept(x)
    BY <1>1, <1>11
  <2>2. CASE v # u \/ x # p
    <3>1. SumUp(Qty, Own(v, x))' = SumUp(Qty, Own(v, x))
      BY <1>11, <1>13, <2>1, <2>2
    <3> QED
      BY <2>1, <3>1 DEF Within
  <2>3. CASE v = u /\ x = p
    <3>1. SumUp(Qty, Own(u, p))' = SumUp(Qty, Own(u, p)) + q
      BY <1>11, <1>13, <2>1, <2>3
    <3>2. Bought(u, p) = SumUp(Qty, Own(u, p))
      BY <1>1, KeptFacts DEF Bought
    <3>3. Catalogue[p].limit = row.limit
      BY <1>1 DEF TermsOK, OnTerms
    <3> QED
      BY <1>2, <2>3, <3>1, <3>2, <3>3 DEF Within
  <2> QED
    BY <2>2, <2>3
<1>18. IsFiniteSet(Ordered)'
  <2>1. Ordered' = Ordered \cup {o}
    BY <1>7, <1>9 DEF Ordered
  <2> QED
    BY <1>1, <2>1, FS_AddElement
<1> QED
  BY <1>15, <1>16, <1>17, <1>18 DEF StockIInv


LEMMA EndStock ==
    ASSUME ShopIInv, RowsTypeOK', StockIInv, TermsStay, EditsMove,
           overtaken' = overtaken \cup Overtaken,
           NEW o \in Orders, NEW s \in Ends, FinishOrder(o, s),
           NEW p, orders[o].product = p, NEW q, orders[o].qty = q
    PROVE  StockIInv'
<1> DEFINE row == products[p].row
           new == [orders[o] EXCEPT !.status = s]
           prod2 == [products[p] EXCEPT !.row = Restocked(o)]
           Own(v, x) == {k \in Kept(x) : orders[k].user = v}
           Back == s \in Refunded /\ products[p].state = "live"
<1>1. /\ RowsTypeOK /\ Placed /\ TermsOK /\ IsFiniteSet(Ordered)
      /\ \A x \in Products \ overtaken : StockOK(x)
      /\ \A v \in Users, x \in Products : Within(v, x)
  BY DEF ShopIInv, StockIInv
<1>2. /\ orders' = [orders EXCEPT ![o] = new]
      /\ Back => products' = [products EXCEPT ![p] = prod2]
      /\ ~Back => products' = products
      /\ orders[o].status \in Live
  BY DEF FinishOrder, CanEnd
<1>3. /\ orders[o] \in Order /\ q \in Nat /\ p \in Products
      /\ products[p] \in Product /\ row \in Columns
      /\ row.stock \in Int /\ row.sold \in Int
  <2>1. orders[o] \in Order /\ q \in Nat
    BY <1>1 DEF RowsTypeOK, Order
  <2>2. p \in Products
    BY <1>1, <1>2 DEF Placed, Live
  <2>3. products[p] \in Product /\ row \in Columns
    BY <1>1, <2>2 DEF RowsTypeOK, Product
  <2> HIDE DEF row
  <2> QED
    BY <2>1, <2>2, <2>3 DEF Columns
<1>4. /\ new.status = s /\ new.qty = q /\ new.product = p /\ new.user = orders[o].user
      /\ orders[o].status \notin Refunded /\ s # "none" /\ orders[o].status # "none"
  BY <1>2, <1>3 DEF Order, Live, Refunded, Ends
<1>5. /\ Restocked(o).delivery = row.delivery /\ Restocked(o).limit = row.limit
      /\ row.sold >= q => Restocked(o).sold = row.sold - q
      /\ row.delivery # "cdk" /\ row.stock >= 0 => Restocked(o).stock = row.stock + q
  BY <1>3 DEF Restocked, Columns
<1>6. prod2.row = Restocked(o) /\ prod2.state = products[p].state
  <2> HIDE DEF row
  <2> QED BY <1>3 DEF Product
<1> HIDE DEF new, prod2
<1>7. /\ orders'[o] = new /\ \A x \in Orders : x # o => orders'[x] = orders[x]
      /\ Back => products'[p] = prod2
      /\ \A x \in Products : x # p \/ ~Back => products'[x] = products[x]
      /\ \A x \in Products : products'[x].state = products[x].state
  BY <1>1, <1>2, <1>3, <1>6 DEF RowsTypeOK
<1>8. /\ \A x \in Orders : /\ orders'[x].qty = orders[x].qty
                           /\ orders'[x].user = orders[x].user
                           /\ orders'[x].product = orders[x].product
      /\ Qty' = Qty
  BY <1>4, <1>7 DEF Qty
<1>9. /\ s \notin Refunded => \A x : Kept(x)' = Kept(x)
      /\ \A x : x # p => Kept(x)' = Kept(x)
      /\ s \in Refunded => Kept(p)' = Kept(p) \ {o}
      /\ o \in Kept(p)
  BY <1>4, <1>7, <1>8 DEF Kept
<1>10. \A x \in Products : /\ Kept(x) \in SUBSET Orders /\ IsFiniteSet(Kept(x))
                           /\ SumUp(Qty, Kept(x)) \in Nat
  BY <1>1, KeptFacts
<1>11. \A x \in Orders : Qty[x] = orders[x].qty /\ Qty[x] \in Nat
  BY <1>1, <1>3, KeptFacts
<1>12. \A x \in Products : \A S \in SUBSET Kept(x) :
          /\ IsFiniteSet(S)
          /\ o \in S => /\ SumUp(Qty, S) = SumUp(Qty, S \ {o}) + q
                        /\ SumUp(Qty, S \ {o}) \in Nat
  <2> TAKE x \in Products
  <2> TAKE S \in SUBSET Kept(x)
  <2>1. /\ IsFiniteSet(S) /\ IsFiniteSet(S \ {o})
        /\ \A k \in S : Qty[k] \in Int /\ Qty[k] \in Nat
    BY <1>10, <1>11, FS_Subset
  <2>2. SumUp(Qty, S \ {o}) \in Nat
    BY <2>1, SumUpIsNat
  <2>3. o \in S => SumUp(Qty, S) = SumUp(Qty, S \ {o}) + Qty[o]
    BY <2>1, SumUpTakes
  <2> QED
    BY <1>11, <2>1, <2>2, <2>3
<1>13. \A S : SumUp(Qty, S)' = SumUp(Qty, S')
  BY <1>8 DEF SumUp, AddsUp, Chosen
<1>14. ASSUME NEW x \in Products PROVE OnTerms(products'[x].row, x)
  BY <1>1, <1>5, <1>6, <1>7 DEF OnTerms, TermsOK
<1>15. TermsOK'
  BY <1>1, <1>14, TermsMove
<1>16. ASSUME NEW x \in Products \ overtaken' PROVE StockOK(x)'
  <2>1. StockOK(x) /\ x \in Products
    BY <1>1, <1>16
  <2>2. Fresh(x)'
    BY <1>1, <1>16, <2>1, FreshMove DEF StockOK
  <2>3. HasOrders(x)' => products'[x].state = "live"
    BY <1>7, <1>8, <2>1 DEF StockOK, HasOrders
  <2>4. CASE x # p \/ s \notin Refunded
    <3>1. products'[x] = products[x] /\ Kept(x)' = Kept(x)
      BY <1>7, <1>9, <2>1, <2>4
    <3>2. SumUp(Qty, Kept(x))' = SumUp(Qty, Kept(x))
      BY <1>8, <3>1 DEF SumUp, AddsUp, Chosen
    <3>3. Counts(x)'
      BY <2>1, <3>1, <3>2 DEF StockOK, Counts
    <3> QED
      BY <2>2, <2>3, <3>3 DEF StockOK
  <2>5. CASE x = p /\ s \in Refunded
    <3>1. Back
      BY <2>1, <2>5 DEF StockOK, HasOrders
    <3> DEFINE before == SumUp(Qty, Kept(p))
               after == SumUp(Qty, Kept(p) \ {o})
    <3>2. SumUp(Qty, Kept(p))' = after
      <4>1. SumUp(Qty, Kept(p))' = SumUp(Qty', Kept(p)')
        BY DEF SumUp, AddsUp, Chosen
      <4> QED
        BY <1>8, <1>9, <2>5, <4>1
    <3>3. before = after + q /\ after \in Nat /\ before \in Nat
      BY <1>3, <1>9, <1>10, <1>12
    <3>4. products'[p].row = Restocked(o)
      BY <1>6, <1>7, <3>1
    <3>5. row.sold = before
      BY <2>1, <2>5 DEF StockOK, Counts
    <3> HIDE DEF before, after, row
    <3>6. products'[p].row.sold = after
      BY <1>3, <1>5, <3>3, <3>4, <3>5
    <3>7. ASSUME Catalogue[p].stock >= 0, Catalogue[p].delivery # "cdk"
          PROVE  /\ products'[p].row.stock >= 0
                 /\ products'[p].row.stock + after = Catalogue[p].stock
      <4>1. row.stock >= 0 /\ row.stock + before = Catalogue[p].stock /\ row.delivery # "cdk"
        BY <1>1, <1>3, <2>1, <2>5, <3>7 DEF StockOK, Counts, TermsOK, OnTerms, row, before
      <4>2. products'[p].row.stock = row.stock + q
        BY <1>5, <3>4, <4>1
      <4> QED
        BY <1>3, <3>3, <4>1, <4>2
    <3>8. Counts(p)'
      BY <3>2, <3>6, <3>7 DEF Counts
    <3> QED
      BY <2>2, <2>3, <2>5, <3>8 DEF StockOK
  <2> QED
    BY <2>4, <2>5
<1>17. ASSUME NEW v \in Users, NEW x \in Products PROVE Within(v, x)'
  <2>1. Within(v, x) /\ Own(v, x) \in SUBSET Kept(x)
    BY <1>1
  <2>2. \A k \in Kept(x) : k \in Orders
    BY DEF Kept
  <2>3. \/ Own(v, x)' = Own(v, x)
        \/ o \in Own(v, x) /\ Own(v, x)' = Own(v, x) \ {o}
    <3>1. Kept(x)' = Kept(x) \/ Kept(x)' = Kept(x) \ {o}
      BY <1>9
    <3> QED
      BY <1>8, <2>2, <3>1
  <2>4. SumUp(Qty, Own(v, x))' = SumUp(Qty, Own(v, x)')
    BY <1>8 DEF SumUp, AddsUp, Chosen
  <2>5. SumUp(Qty, Own(v, x)') <= SumUp(Qty, Own(v, x))
    <3> DEFINE own == Own(v, x)
               own2 == Own(v, x)'
    <3>1. IsFiniteSet(own) /\ own \in SUBSET Kept(x)
      BY <1>12, <2>1
    <3>2. \A k \in own : Qty[k] \in Nat
      BY <1>11, <2>2
    <3>3. SumUp(Qty, own) \in Nat
      BY <3>1, <3>2, SumUpIsNat
    <3>4. o \in own => /\ SumUp(Qty, own) = SumUp(Qty, own \ {o}) + q
                       /\ SumUp(Qty, own \ {o}) \in Nat
      BY <1>12, <2>1
    <3>5. own2 = own \/ (o \in own /\ own2 = own \ {o})
      BY <2>3
    <3>6. SumUp(Qty, own2) <= SumUp(Qty, own)
      <4>1. q \in Nat
        BY <1>3
      <4> HIDE DEF own, own2
      <4>2. CASE own2 = own
        BY <3>3, <4>2
      <4>3. CASE o \in own /\ own2 = own \ {o}
        <5> DEFINE less == SumUp(Qty, own \ {o})
        <5>1. SumUp(Qty, own2) = less
          BY <4>3
        <5>2. SumUp(Qty, own) = less + q /\ less \in Nat
          BY <3>4, <4>3
        <5> HIDE DEF less
        <5> QED
          BY <4>1, <5>1, <5>2
      <4> QED
        BY <3>5, <4>2, <4>3
    <3> QED
      BY <3>6
  <2>6. /\ SumUp(Qty, Own(v, x)) \in Int /\ SumUp(Qty, Own(v, x)') \in Int
        /\ Catalogue[x].limit \in Nat
    <3>1. IsFiniteSet(Own(v, x)) /\ IsFiniteSet(Own(v, x)')
      BY <1>12, <2>1, <2>3, FS_Subset
    <3>2. \A k \in Own(v, x) : Qty[k] \in Int
      BY <1>11, <2>2
    <3>3. \A k \in Own(v, x)' : Qty[k] \in Int
      BY <2>3, <3>2
    <3>4. Catalogue[x].limit \in Nat
      BY ShopAssumption DEF Columns
    <3> QED
      BY <3>1, <3>2, <3>3, <3>4, SumUpIsInt
  <2> QED
    BY <2>1, <2>4, <2>5, <2>6 DEF Within
<1>18. Ordered' = Ordered
  BY <1>4, <1>7 DEF Ordered
<1> QED
  BY <1>1, <1>15, <1>16, <1>17, <1>18 DEF StockIInv


LEMMA StockInit == Init => StockIInv
<1> SUFFICES ASSUME Init PROVE StockIInv
  OBVIOUS
<1>1. \A o \in Orders : orders[o] = NoOrder
  BY DEF Init
<1>2. \A p \in Products : products[p].state = "none" /\ products[p].row = Catalogue[p]
  BY DEF Init
<1>3. \A r \in Req : h[r].at # "edit"
  BY DEF Init, Idle
<1>4. Ordered = {}
  BY <1>1 DEF Ordered, NoOrder
<1>5. \A p \in Products : ~HasOrders(p)
  BY <1>1, ShopAssumption DEF HasOrders, NoOrder
<1>6. \A p \in Products : Kept(p) = {} /\ SumUp(Qty, Kept(p)) = 0
  BY <1>5, NothingKept
<1>7. TermsOK
  BY <1>2, <1>3 DEF TermsOK, OnTerms
<1>8. ASSUME NEW p \in Products PROVE StockOK(p)
  <2>1. Catalogue[p].sold = 0 /\ Catalogue[p].stock \in Int
    BY ShopAssumption DEF Columns
  <2>2. Counts(p)
    BY <1>2, <1>6, <2>1 DEF Counts
  <2>3. Fresh(p)
    BY <1>3 DEF Fresh
  <2> QED
    BY <1>5, <2>2, <2>3 DEF StockOK
<1>9. ASSUME NEW u \in Users, NEW p \in Products PROVE Within(u, p)
  <2>1. {o \in Kept(p) : orders[o].user = u} = {}
    BY <1>6
  <2>2. SumUp(Qty, {o \in Kept(p) : orders[o].user = u}) = 0
    BY <2>1, SumUpNothing
  <2>3. Catalogue[p].limit \in Nat
    BY ShopAssumption DEF Columns
  <2> QED
    BY <2>2, <2>3 DEF Within
<1> QED
  BY <1>4, <1>7, <1>8, <1>9, FS_EmptySet DEF StockIInv

LEMMA StockNext ==
    ASSUME TermsStay, ShopIInv, ShopIInv', StockIInv, [Next]_vars
    PROVE  StockIInv'
<1>1. RowsTypeOK /\ RowsTypeOK' /\ Placed
  BY DEF ShopIInv
<1>2. CASE UNCHANGED vars
  <2>1. UNCHANGED <<products, orders, h, overtaken>>
    BY <1>2 DEF vars, shop
  <2>2. \A p : Kept(p)' = Kept(p) /\ (HasOrders(p)' <=> HasOrders(p))
    BY <2>1 DEF Kept, HasOrders
  <2>3. Qty' = Qty /\ Ordered' = Ordered /\ TermsOK'
    BY <2>1 DEF Qty, Ordered, StockIInv, TermsOK
  <2>4. \A p \in Products \ overtaken' : StockOK(p)'
    BY <2>1, <2>2, <2>3 DEF StockIInv, StockOK, Counts, Fresh
  <2>5. \A u \in Users, p \in Products : Within(u, p)'
    BY <2>1, <2>2, <2>3 DEF StockIInv, Within
  <2> QED
    BY <2>3, <2>4, <2>5 DEF StockIInv
<1>3. CASE Next
  <2>1. ShopStep /\ overtaken' = overtaken \cup Overtaken
    BY <1>3 DEF Next
  <2>2. EditsMove
    BY <1>1, <2>1, StockSteps
  <2>3. CASE orders' = orders /\ \A p \in Products : RowMove(p)
    BY <2>1, <2>2, <2>3, CalmStock
  <2>4. ASSUME NEW o \in Orders, NEW u \in Users, NEW p \in Products, NEW q \in 1..MaxQty,
               PlaceOrder(o, u, p, q)
        PROVE  StockIInv'
    BY <1>1, <2>1, <2>2, <2>4, PlaceStock
  <2>5. ASSUME NEW o \in Orders, NEW s \in Ends, FinishOrder(o, s)
        PROVE  StockIInv'
    BY <1>1, <2>1, <2>2, <2>5, EndStock
  <2> QED
    BY <1>1, <2>1, <2>3, <2>4, <2>5, StockSteps
<1> QED
  BY <1>2, <1>3

\* "失败或取消的订单会退还积分并回补库存" (README.md:57), and the limit per user
\* (shop_core.go:269-276): as long as no edit sends another stock, limit or kind of
\* delivery, stock, sold and limits count exactly the orders that are kept, for any
\* number of them and whatever deletions and restarts, except for products that
\* changed between the two statements of an edit or a deletion.
THEOREM StockInvAlways == TermsStay => (Spec => []StockInv)
<1> SUFFICES ASSUME TermsStay PROVE Spec => []StockInv
  OBVIOUS
<1>1. Init => StockIInv
  BY StockInit
<1>2. ShopIInv /\ ShopIInv' /\ StockIInv /\ [Next]_vars => StockIInv'
  BY StockNext
<1>3. ASSUME ShopIInv, StockIInv PROVE StockInv
  <2>1. \A p \in Products : Sum(Kept(p)) = SumUp(Qty, Kept(p))
    BY <1>3, KeptFacts DEF ShopIInv, StockIInv
  <2>2. \A u \in Users, p \in Products :
           Bought(u, p) = SumUp(Qty, {o \in Kept(p) : orders[o].user = u})
    BY <1>3, KeptFacts DEF ShopIInv, StockIInv, Bought
  <2>3. StockConserved
    BY <1>3, <2>1 DEF StockIInv, StockOK, Counts, StockConserved
  <2>4. LimitRespected
    BY <1>3, <2>2 DEF StockIInv, Within, LimitRespected
  <2> QED
    BY <2>3, <2>4 DEF StockInv
<1>4. ShopIInv /\ StockIInv => StockInv
  BY <1>3
<1> QED
  BY <1>1, <1>2, <1>4, ShopInductive, PTL DEF Spec
=============================================================================

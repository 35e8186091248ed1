-------------------------------- MODULE Cart --------------------------------
(***************************************************************************)
(* The shopping cart sample: products with an inventory, a cart, thunks    *)
(* that look at the state when their message comes and reducers that       *)
(* change it when another message does.  The buttons are enabled by what   *)
(* is in the state when they are clicked.                                  *)
(***************************************************************************)
EXTENDS Store, Integers

CONSTANTS
    Product,
    Stock,      \* Stock[p]: inventory of p in the answer of the shop
    MaxClicks   \* bound

CartAssumption == Stock \in [Product -> Nat] /\ MaxClicks \in Nat

VARIABLES
    inventory,     \* products.byId: the inventory of the visible products
    addedIds,      \* cart.addedIds
    quantityById,  \* cart.quantityById, 0 when undefined
    shop,          \* timers of the shop, of one length: what they call back with
    clicks         \* how many buttons were clicked

cartVars == <<inventory, addedIds, quantityById, shop, clicks, storeVars>>
products == <<inventory>>
cart == <<addedIds, quantityById>>

Nothing == [p \in Product |-> 0]
getAllProducts == [run |-> "getAllProducts"]

CartInit ==
    /\ inventory = <<>>
    /\ addedIds = <<>>
    /\ quantityById = Nothing
    /\ shop = <<>>
    /\ clicks = 0

(* index.tsx dispatches getAllProducts. *)
CartStarts ==
    /\ bus = <<[type |-> "ABus.Thunk", thunkId |-> 1]>>
    /\ queue = [id \in {1} |-> getAllProducts]
    /\ guids = 1

-----------------------------------------------------------------------------
(* Clicks *)
Click(clicked) ==
    /\ clicks < MaxClicks
    /\ clicks' = clicks + 1
    /\ Dispatched(<<clicked>>)
    /\ UNCHANGED <<products, cart, shop>>

ClickAddToCart(p) ==
    /\ p \in DOMAIN inventory
    /\ inventory[p] > 0
    /\ Click([run |-> "addToCart", productId |-> p])

(* The products of the cart with their quantities, as CartContainer has    *)
(* them when its button is clicked.                                        *)
getCartProducts == [p \in Product |-> IF p \in ToSet(addedIds) THEN quantityById[p] ELSE 0]

(* What is on the bus: additions, as thunks and as messages, and whether a *)
(* checkout is, which is kept with a checkout as its history.              *)
Running(k, run) == bus[k].type = "ABus.Thunk" /\ queue[bus[k].thunkId].run = run
Adding(p) == {k \in DOMAIN bus : bus[k].type = "ADD_TO_CART" /\ bus[k].productId = p}
AboutToAdd(p) == {k \in DOMAIN bus :
                    Running(k, "addToCart") /\ queue[bus[k].thunkId].productId = p}
Coming(p) == Cardinality(Adding(p)) + Cardinality(AboutToAdd(p))
Alone == \A k \in DOMAIN bus : bus[k].type # "CHECKOUT_REQUEST" /\ ~Running(k, "checkout")

ClickCheckout ==
    /\ addedIds # <<>>
    /\ Click([run |-> "checkout", products |-> getCartProducts,
              coming |-> [p \in Product |-> Coming(p)], alone |-> Alone])

-----------------------------------------------------------------------------
(* The functions of the thunks.  ahead is a history: how many of the       *)
(* product are about to be added already.                                  *)
Ahead(p) == Cardinality(Adding(p))

addToCartUnsafe(p) == [type |-> "ADD_TO_CART", productId |-> p, ahead |-> Ahead(p)]

(* Mutant: one too many may be added. *)
NotNegative(p) == inventory[p] >= 0
InStock(p) == inventory[p] > 0

addToCart ==
    /\ thunk.run = "addToCart"
    /\ ThunkDispatches(IF InStock(thunk.productId) THEN <<addToCartUnsafe(thunk.productId)>> ELSE <<>>)
    /\ UNCHANGED shop

(* shop.getProducts and shop.buyProducts start a timer. *)
getProducts ==
    /\ thunk.run = "getAllProducts"
    /\ ThunkDispatches(<<>>)
    /\ shop' = Append(shop, [type |-> "RECEIVE_PRODUCTS"])

(* The request itself is empty, its fields are the history: the products   *)
(* are what shop.buyProducts is called with.                               *)
checkout ==
    /\ thunk.run = "checkout"
    /\ ThunkDispatches(<<[type |-> "CHECKOUT_REQUEST", products |-> thunk.products,
                          coming |-> thunk.coming, alone |-> thunk.alone]>>)
    /\ shop' = Append(shop, [type |-> "CHECKOUT_SUCCESS", cart |-> cart])

RunThunk ==
    /\ ReceivedThunk
    /\ addToCart \/ getProducts \/ checkout
    /\ UNCHANGED <<products, cart, clicks>>

ShopAnswers ==
    /\ shop # <<>>
    /\ shop' = Tail(shop)
    /\ Dispatched(<<Head(shop)>>)
    /\ UNCHANGED <<products, cart, clicks>>

-----------------------------------------------------------------------------
(* The reducers *)
reduceProducts ==
    inventory' = CASE action.type = "RECEIVE_PRODUCTS" -> Stock
                   [] action.type = "ADD_TO_CART" -> [inventory EXCEPT ![action.productId] = @ - 1]
                   [] OTHER -> inventory

(* Mutant: the quantities are not reset. *)
StillCounted == quantityById
initialQuantities == Nothing

reduceCart ==
    \/ /\ action.type = "ADD_TO_CART"
       /\ addedIds' = IF action.productId \in ToSet(addedIds) THEN addedIds
                      ELSE Append(addedIds, action.productId)
       /\ quantityById' = [quantityById EXCEPT ![action.productId] = @ + 1]
    \/ /\ action.type = "CHECKOUT_REQUEST"
       /\ addedIds' = <<>>
       /\ quantityById' = initialQuantities
    \/ /\ action.type \notin {"ADD_TO_CART", "CHECKOUT_REQUEST"}
       /\ UNCHANGED cart

Reduce ==
    /\ Received
    /\ reduceProducts
    /\ reduceCart
    /\ Dispatch(<<>>, Tail(bus), queue)
    /\ UNCHANGED <<shop, clicks>>

CartNext ==
    \/ \E p \in Product : ClickAddToCart(p)
    \/ ClickCheckout
    \/ RunThunk
    \/ ShopAnswers
    \/ Reduce

-----------------------------------------------------------------------------
(* actions/index.js 36-48, cart.js 46-47: what is bought is what the cart  *)
(* showed at the click, what is emptied is what it holds when the request  *)
(* has come round.  Emptied and not bought are no more than the additions  *)
(* that were clicked before the checkout and were still on their way;      *)
(* bought and no longer in the cart, to be paid twice, is something only   *)
(* if another checkout was on its way at the click.                        *)
EmptiedIsBought ==
    Received /\ action.type = "CHECKOUT_REQUEST" =>
        \A p \in Product :
            /\ quantityById[p] <= action.products[p] + action.coming[p]
            /\ action.alone => quantityById[p] >= action.products[p]

(* actions/index.js 25-34: the inventory was checked some messages before  *)
(* it is reduced, so it can become negative, but by no more than there     *)
(* were of the same product on their way at the check.                     *)
AddedBehind ==
    \A p \in DOMAIN inventory :
        inventory'[p] < inventory[p] => inventory'[p] >= 0 - action.ahead

OversoldByThoseAhead == [][AddedBehind]_cartVars
=============================================================================

------------------------- MODULE CartCheckoutProofs -------------------------
(***************************************************************************)
(* Machine-checked proofs about the cart and its conversion, for any carts,*)
(* orders, tabs, keys and bounds.                                          *)
(*                                                                         *)
(* A cart row changes its units only with its revision, so a tab whose     *)
(* revision is still the row's has seen its units (ViewOK); an order is    *)
(* live only while its cart is converted to it (OrderOK), a cart points    *)
(* only to an order of its own (CartOK), and an answer is an order of the  *)
(* tab's own cart (ClientOK).                                              *)
(*                                                                         *)
(* UnitsConserved is a sum over the carts.  It is proved as a count: the   *)
(* sum is the cardinality of the set of numbered units (SumIsCount, by a   *)
(* least counterexample among the subsets of the carts), and a write or a  *)
(* merge moves that cardinality by what it does to the carts it touches.   *)
(***************************************************************************)
EXTENDS CartCheckout, TLAPS, FiniteSetTheorems, WellFoundedInduction

CartRec == [status : Live \cup {None, "converted", "merged", "gone"}, rev : 0 .. MaxRev,
            units : 0 .. MaxUnits, order : Orders \cup {None}, owned : BOOLEAN]
OrderRec == [state : {None, "PendingPayment", "Paid", "Cancelled", "purged"},
             cart : Carts \cup {None}, key : Keys \cup {None}, units : 0 .. MaxUnits,
             shown : 0 .. MaxUnits, inflight : BOOLEAN, stale : BOOLEAN, deleted : BOOLEAN]
ClientRec == [pc : {"idle", "merge", "checkout", "reopen"}, cart : Carts \cup {None},
              rev : 0 .. MaxRev, units : 0 .. MaxUnits, key : Keys \cup {None},
              others : SUBSET Carts, order : Orders \cup {None}, answer : Orders \cup {None}]

\* An order knows its cart and what it was shown; it is live only as the order of its cart.
OrderOK(o) ==
    /\ order[o].state # None => order[o].cart \in Carts /\ order[o].units = order[o].shown
    /\ order[o].inflight => order[o].state = "PendingPayment"
    /\ order[o].state \in {"PendingPayment", "Paid"} =>
         cart[order[o].cart].status = "converted" /\ cart[order[o].cart].order = o

\* A cart points to an order of its own.
CartOK(x) ==
    cart[x].order # None => order[cart[x].order].state # None /\ order[cart[x].order].cart = x

\* A tab is never ahead of the row it saw, and with its revision it has its units.
ViewOK(c) ==
    LET row == cart[client[c].cart] IN
    /\ row.status # None
    /\ row.status # "gone" => client[c].rev <= row.rev
    /\ row.status # "gone" /\ client[c].rev = row.rev => client[c].units = row.units

ClientOK(c) ==
    /\ client[c].pc # "idle" => client[c].cart \in Carts
    /\ client[c].pc = "reopen" => client[c].order \in Orders
    /\ client[c].pc = "merge" => client[c].cart \notin client[c].others
    /\ client[c].cart # None /\ client[c].pc # "reopen" => ViewOK(c)
    /\ client[c].answer # None =>
         order[client[c].answer].state # None /\ order[client[c].answer].cart = client[c].cart

IInv ==
    /\ TypeOK
    /\ \A o \in Orders : OrderOK(o)
    /\ \A x \in Carts : CartOK(x)
    /\ \A c \in Clients : ClientOK(c)

LEMMA TypeParts ==
  /\ TypeOK <=> /\ cart \in [Carts -> CartRec] /\ order \in [Orders -> OrderRec]
                /\ client \in [Clients -> ClientRec] /\ net \in Int
  /\ TypeOK' <=> /\ cart' \in [Carts -> CartRec] /\ order' \in [Orders -> OrderRec]
                 /\ client' \in [Clients -> ClientRec] /\ net' \in Int
BY DEF TypeOK, CartRec, OrderRec, ClientRec

LEMMA InvParts ==
  ASSUME IInv
  PROVE  /\ cart \in [Carts -> CartRec] /\ order \in [Orders -> OrderRec]
         /\ client \in [Clients -> ClientRec] /\ net \in Int
BY TypeParts DEF IInv

-----------------------------------------------------------------------------
(* What a step leaves to the tabs that do not take it.                      *)

\* A row never loses its life or its revision, and its units change with its revision.
RowMoves(y) ==
    /\ cart[y].status # None => cart'[y].status # None
    /\ cart[y].status = "gone" => cart'[y].status = "gone"
    /\ cart'[y].status # "gone" =>
         /\ cart[y].rev <= cart'[y].rev
         /\ cart'[y].rev = cart[y].rev => cart'[y].units = cart[y].units

\* What an order is for never changes.
OrderKept(o) == order[o].state # None => order'[o].state # None /\ order'[o].cart = order[o].cart

LEMMA ClientKept ==
  ASSUME CartAssumption, IInv, NEW c \in Clients, client'[c] = client[c],
         cart' \in [Carts -> CartRec],
         \A y \in Carts : RowMoves(y), \A o \in Orders : OrderKept(o)
  PROVE  ClientOK(c)'
<1>1. ClientOK(c) /\ client[c] \in ClientRec
  BY InvParts DEF IInv
<1>2. client[c].cart \in Carts \cup {None} /\ client[c].answer \in Orders \cup {None}
      /\ client[c].rev \in 0 .. MaxRev
  BY <1>1 DEF ClientRec
<1>3. ASSUME client[c].cart # None, client[c].pc # "reopen" PROVE ViewOK(c)'
  <2>1. client[c].cart \in Carts /\ ViewOK(c) /\ RowMoves(client[c].cart)
    BY <1>1, <1>2, <1>3 DEF ClientOK
  <2>2. client[c].rev \in Nat /\ cart[client[c].cart].rev \in Nat /\ cart'[client[c].cart].rev \in Nat
    BY <2>1, <1>2, InvParts DEF CartRec, CartAssumption
  <2> QED BY <2>1, <2>2 DEF ViewOK, RowMoves
<1>4. client[c].answer # None =>
         order'[client[c].answer].state # None /\ order'[client[c].answer].cart = client[c].cart
  BY <1>1, <1>2 DEF ClientOK, OrderKept
<1> QED BY <1>1, <1>3, <1>4 DEF ClientOK

\* A tab that takes a snapshot of a row.
LEMMA SawFacts ==
  ASSUME IInv, CartAssumption, NEW c \in Clients, NEW x \in Carts, NEW row \in CartRec, client' = Saw(c, x, row)
  PROVE  /\ client' \in [Clients -> ClientRec]
         /\ client'[c].pc = "idle" /\ client'[c].cart = x /\ client'[c].answer = None
         /\ client'[c].rev = row.rev /\ client'[c].units = row.units
         /\ \A d \in Clients : d # c => client'[d] = client[d]
<1> DEFINE v == [NoView EXCEPT !.cart = x, !.rev = row.rev, !.units = row.units]
<1>1. NoView \in ClientRec /\ NoView.pc = "idle" /\ NoView.answer = None
  BY DEF NoView, ClientRec, CartAssumption
<1>2. v \in ClientRec
  BY <1>1 DEF ClientRec, CartRec
<1>3. client' = [client EXCEPT ![c] = v]
  BY DEF Saw
<1>4. /\ v.pc = "idle" /\ v.cart = x /\ v.answer = None /\ v.rev = row.rev /\ v.units = row.units
  BY <1>1 DEF ClientRec
<1> HIDE DEF v
<1> QED BY <1>2, <1>3, <1>4, InvParts

LEMMA SawOK ==
  ASSUME IInv, CartAssumption, NEW c \in Clients, NEW x \in Carts, cart'[x] \in CartRec,
         client' = Saw(c, x, cart'[x]), cart'[x].status # None
  PROVE  ClientOK(c)' /\ client' \in [Clients -> ClientRec] /\ \A d \in Clients : d # c => client'[d] = client[d]
<1>1. /\ client' \in [Clients -> ClientRec]
      /\ client'[c].pc = "idle" /\ client'[c].cart = x /\ client'[c].answer = None
      /\ client'[c].rev = cart'[x].rev /\ client'[c].units = cart'[x].units
      /\ \A d \in Clients : d # c => client'[d] = client[d]
  BY SawFacts
<1>2. cart'[x].rev \in Nat
  BY DEF CartRec, CartAssumption
<1> QED BY <1>1, <1>2 DEF ClientOK, ViewOK

\* A refused tab forgets what it saw.
LEMMA RefuseOK ==
  ASSUME IInv, CartAssumption, NEW c \in Clients, client' = [client EXCEPT ![c] = NoView]
  PROVE  ClientOK(c)' /\ client' \in [Clients -> ClientRec] /\ \A d \in Clients : d # c => client'[d] = client[d]
<1>1. NoView \in ClientRec /\ NoView.pc = "idle" /\ NoView.cart = None /\ NoView.answer = None
  BY DEF NoView, ClientRec, CartAssumption
<1>2. client' \in [Clients -> ClientRec] /\ client'[c] = NoView /\ \A d \in Clients : d # c => client'[d] = client[d]
  BY <1>1, InvParts
<1> QED BY <1>1, <1>2 DEF ClientOK

-----------------------------------------------------------------------------
(* Steps that write no order.                                               *)

LEMMA CartSteps ==
  ASSUME CartAssumption, IInv, order' = order, cart' \in [Carts -> CartRec],
         client' \in [Clients -> ClientRec], net' \in Int,
         \A y \in Carts : RowMoves(y),
         \A y \in Carts : cart'[y] # cart[y] =>
             cart[y].status # "converted" /\ cart'[y].order \in {cart[y].order, None},
         \A c \in Clients : client'[c] = client[c] \/ ClientOK(c)'
  PROVE  IInv'
<1>1. TypeOK'
  BY InvParts, TypeParts
<1>2. ASSUME NEW o \in Orders PROVE OrderOK(o)'
  <2>1. OrderOK(o) /\ order'[o] = order[o]
    BY DEF IInv
  <2> QED BY <2>1 DEF OrderOK, None
<1>3. ASSUME NEW x \in Carts PROVE CartOK(x)'
  BY DEF CartOK, IInv
<1>4. ASSUME NEW c \in Clients PROVE ClientOK(c)'
  BY ClientKept DEF OrderKept
<1> QED BY <1>1, <1>2, <1>3, <1>4 DEF IInv

\* Only a tab moves.
LEMMA ClientSteps ==
  ASSUME CartAssumption, IInv, UNCHANGED <<cart, order, net>>, NEW c \in Clients,
         client' \in [Clients -> ClientRec], ClientOK(c)',
         \A d \in Clients : d # c => client'[d] = client[d]
  PROVE  IInv'
<1>1. \A y \in Carts : cart[y].rev \in Nat
  BY InvParts DEF CartRec, CartAssumption
<1>2. \A y \in Carts : RowMoves(y)
  BY <1>1 DEF RowMoves
<1> QED BY <1>2, InvParts, CartSteps

\* One row is written.
LEMMA RowWrite ==
  ASSUME CartAssumption, IInv, order' = order, NEW x \in Carts,
         cart' \in [Carts -> CartRec], \A y \in Carts : y # x => cart'[y] = cart[y],
         net' \in Int, client' \in [Clients -> ClientRec],
         RowMoves(x), cart[x].status # "converted", cart'[x].order \in {cart[x].order, None},
         \A c \in Clients : client'[c] = client[c] \/ ClientOK(c)'
  PROVE  IInv'
<1>1. \A y \in Carts : cart[y].rev \in Nat
  BY InvParts DEF CartRec, CartAssumption
<1>2. \A y \in Carts : RowMoves(y)
  BY <1>1 DEF RowMoves
<1>3. \A y \in Carts : cart'[y] # cart[y] =>
             cart[y].status # "converted" /\ cart'[y].order \in {cart[y].order, None}
  BY <1>1
<1> QED BY <1>1, <1>2, <1>3, CartSteps

LEMMA CreateStep ==
  ASSUME CartAssumption, IInv, NEW x \in Carts, NEW units \in 0 .. 1, NEW owned \in BOOLEAN,
         createCart(x, units, owned)
  PROVE  IInv'
<1> DEFINE row == [NoCart EXCEPT !.status = "active", !.owned = owned]
           r == IF units > 0 THEN applyLines(row, units) ELSE row
<1>1. cart' = [cart EXCEPT ![x] = r] /\ cart[x] = NoCart /\ net' = net + units /\ order' = order /\ client' = client
  BY DEF createCart
<1>2. NoCart \in CartRec /\ NoCart.rev = 0 /\ NoCart.units = 0 /\ NoCart.order = None /\ NoCart.status = None
  BY DEF NoCart, CartRec, CartAssumption
<1>3. row \in CartRec /\ row.status = "active" /\ row.rev = 0 /\ row.units = 0 /\ row.order = None
  BY <1>2 DEF CartRec, Live
<1> HIDE DEF row
<1>4. units > 0 => r \in CartRec /\ r.status = "active" /\ r.rev = 1 /\ r.order = None
  <2> SUFFICES ASSUME units > 0 PROVE r \in CartRec /\ r.status = "active" /\ r.rev = 1 /\ r.order = None
    OBVIOUS
  <2>1. r = [row EXCEPT !.units = units, !.status = "active", !.rev = 1]
    BY <1>3 DEF applyLines
  <2>2. units \in 0 .. MaxUnits /\ 1 \in 0 .. MaxRev
    BY DEF CartAssumption
  <2> HIDE DEF r
  <2> QED BY <1>3, <2>1, <2>2 DEF CartRec, Live
<1>5. r \in CartRec /\ r.status = "active" /\ r.rev \in Nat /\ r.order = None
      /\ (r.rev = 0 => r.units = 0)
  BY <1>3, <1>4
<1> HIDE DEF r
<1>6. cart'[x] = r /\ cart' \in [Carts -> CartRec] /\ \A y \in Carts : y # x => cart'[y] = cart[y]
  BY <1>1, <1>5, InvParts
<1>7. RowMoves(x) /\ cart[x].status # "converted" /\ cart'[x].order \in {cart[x].order, None}
  BY <1>1, <1>2, <1>5, <1>6 DEF RowMoves, None
<1>8. net' \in Int /\ client' \in [Clients -> ClientRec]
  BY <1>1, InvParts
<1> QED BY <1>1, <1>6, <1>7, <1>8, RowWrite

\* A live row with new units, or a new status, and the next revision.
LEMMA NextRevision ==
  ASSUME CartAssumption, IInv, NEW x \in Carts, cart[x].rev < MaxRev, cart[x].status \in Live,
         NEW u \in 0 .. MaxUnits, NEW st \in Live, NEW ow \in BOOLEAN,
         cart' = [cart EXCEPT ![x] = [cart[x] EXCEPT !.units = u, !.status = st, !.owned = ow,
                                                     !.rev = cart[x].rev + 1]]
  PROVE  /\ cart' \in [Carts -> CartRec] /\ \A y \in Carts : y # x => cart'[y] = cart[y]
         /\ cart'[x].status = st /\ cart'[x].order \in {cart[x].order, None}
         /\ RowMoves(x) /\ cart[x].status # "converted"
<1>1. cart[x] \in CartRec
  BY InvParts
<1> DEFINE n == cart[x].rev + 1
           r == [cart[x] EXCEPT !.units = u, !.status = st, !.owned = ow, !.rev = n]
<1>2. n \in 0 .. MaxRev /\ n > cart[x].rev /\ n \in Nat /\ cart[x].rev \in Nat
  BY <1>1 DEF CartRec, CartAssumption
<1>3. cart' = [cart EXCEPT ![x] = r]
  OBVIOUS
<1> HIDE DEF n
<1>4. r \in CartRec /\ r.status = st /\ r.units = u /\ r.order = cart[x].order /\ r.rev = n
  BY <1>1, <1>2 DEF CartRec
<1> HIDE DEF r
<1>5. cart'[x] = r /\ cart' \in [Carts -> CartRec] /\ \A y \in Carts : y # x => cart'[y] = cart[y]
  BY <1>3, <1>4, InvParts
<1>6. Live = {"active", "abandoned"} /\ None = "none"
  BY DEF Live, None
<1> QED BY <1>2, <1>4, <1>5, <1>6 DEF RowMoves

LEMMA LiveFacts == "active" \in Live /\ "abandoned" \in Live /\ None \notin Live /\ "gone" \notin Live
                   /\ "converted" \notin Live /\ "merged" \notin Live
BY DEF Live, None

LEMMA AppendStep ==
  ASSUME CartAssumption, IInv, NEW x \in Carts, appendLine(x)
  PROVE  IInv'
<1>1. cart[x] \in CartRec /\ cart[x].units \in Nat /\ cart[x].owned \in BOOLEAN
  BY InvParts DEF CartRec, CartAssumption
<1> DEFINE u == cart[x].units + 1
<1>2. /\ cart[x].rev < MaxRev /\ cart[x].status \in Live /\ u \in 0 .. MaxUnits
      /\ net' = net + 1 /\ order' = order /\ client' = client
  BY <1>1 DEF appendLine, mutationBlocker, CartAssumption
<1>3. cart' = [cart EXCEPT ![x] = [cart[x] EXCEPT !.units = u, !.status = "active",
                                                  !.owned = cart[x].owned, !.rev = cart[x].rev + 1]]
  <2>1. applyLines(cart[x], u) = [cart[x] EXCEPT !.units = u, !.status = "active",
                                                 !.owned = cart[x].owned, !.rev = cart[x].rev + 1]
    BY <1>1 DEF applyLines, CartRec
  <2>2. cart' = [cart EXCEPT ![x] = applyLines(cart[x], u)]
    BY DEF appendLine
  <2> QED BY <2>1, <2>2
<1> HIDE DEF u
<1>5. /\ cart' \in [Carts -> CartRec] /\ \A y \in Carts : y # x => cart'[y] = cart[y]
      /\ cart'[x].order \in {cart[x].order, None} /\ RowMoves(x) /\ cart[x].status # "converted"
  BY <1>1, <1>2, <1>3, LiveFacts, NextRevision
<1>6. net' \in Int /\ client' \in [Clients -> ClientRec]
  BY <1>2, InvParts
<1> QED BY <1>2, <1>5, <1>6, RowWrite

LEMMA AbandonStep ==
  ASSUME CartAssumption, IInv, NEW x \in Carts, abandonStaleCarts(x)
  PROVE  IInv'
<1>1. cart[x] \in CartRec /\ cart[x].units \in 0 .. MaxUnits /\ cart[x].owned \in BOOLEAN
  BY InvParts DEF CartRec
<1>2. /\ cart[x].rev < MaxRev /\ cart[x].status \in Live /\ net' = net /\ order' = order /\ client' = client
  BY LiveFacts DEF abandonStaleCarts
<1>3. cart' = [cart EXCEPT ![x] = [cart[x] EXCEPT !.units = cart[x].units, !.status = "abandoned",
                                                  !.owned = cart[x].owned, !.rev = cart[x].rev + 1]]
  <2>1. [cart[x] EXCEPT !.status = "abandoned", !.rev = cart[x].rev + 1]
          = [cart[x] EXCEPT !.units = cart[x].units, !.status = "abandoned",
                            !.owned = cart[x].owned, !.rev = cart[x].rev + 1]
    BY <1>1 DEF CartRec
  <2>2. cart' = [cart EXCEPT ![x] = [cart[x] EXCEPT !.status = "abandoned", !.rev = cart[x].rev + 1]]
    BY <1>1, InvParts DEF abandonStaleCarts
  <2> QED BY <2>1, <2>2
<1>5. /\ cart' \in [Carts -> CartRec] /\ \A y \in Carts : y # x => cart'[y] = cart[y]
      /\ cart'[x].order \in {cart[x].order, None} /\ RowMoves(x) /\ cart[x].status # "converted"
  BY <1>1, <1>2, <1>3, LiveFacts, NextRevision
<1>6. net' \in Int /\ client' \in [Clients -> ClientRec]
  BY <1>2, InvParts
<1> QED BY <1>2, <1>5, <1>6, RowWrite

LEMMA CleanupStep ==
  ASSUME CartAssumption, IInv, NEW x \in Carts, cleanupExpiredCarts(x)
  PROVE  IInv'
<1> DEFINE r == [NoCart EXCEPT !.status = "gone"]
<1>1. cart[x] \in CartRec /\ cart[x].units \in Int
  BY InvParts DEF CartRec
<1>2. /\ cart' = [cart EXCEPT ![x] = r] /\ cart[x].status \in {"active", "merged", "abandoned"}
      /\ net' = net - cart[x].units /\ order' = order /\ client' = client
  BY DEF cleanupExpiredCarts
<1>3. r \in CartRec /\ r.status = "gone" /\ r.order = None
  <2>1. NoCart \in CartRec /\ NoCart.order = None
    BY DEF NoCart, CartRec, CartAssumption
  <2> QED BY <2>1 DEF CartRec
<1> HIDE DEF r
<1>4. cart'[x] = r /\ cart' \in [Carts -> CartRec] /\ \A y \in Carts : y # x => cart'[y] = cart[y]
  BY <1>2, <1>3, InvParts
<1>5. RowMoves(x)
  BY <1>2, <1>3, <1>4 DEF RowMoves, None
<1>6. net' \in Int /\ client' \in [Clients -> ClientRec]
  BY <1>1, <1>2, InvParts
<1> QED BY <1>2, <1>3, <1>4, <1>5, <1>6, RowWrite

-----------------------------------------------------------------------------
(* What a tab does with the carts.                                          *)

\* What a tab keeps of its view while it goes on.
LEMMA ViewKept ==
  ASSUME CartAssumption, IInv, NEW c \in Clients, client[c].cart # None, client[c].pc # "reopen",
         client'[c].cart = client[c].cart, client'[c].rev = client[c].rev,
         client'[c].units = client[c].units,
         cart' \in [Carts -> CartRec], RowMoves(client[c].cart)
  PROVE  ViewOK(c)'
<1>1. client[c] \in ClientRec /\ ClientOK(c)
  BY InvParts DEF IInv
<1>2. client[c].cart \in Carts /\ ViewOK(c)
  BY <1>1 DEF ClientRec, ClientOK
<1>3. client[c].rev \in Nat /\ cart[client[c].cart].rev \in Nat /\ cart'[client[c].cart].rev \in Nat
  BY <1>1, <1>2, InvParts DEF CartRec, ClientRec, CartAssumption
<1> QED BY <1>2, <1>3 DEF ViewOK, RowMoves

LEMMA ViewStays ==
  ASSUME CartAssumption, IInv, NEW c \in Clients, client[c].cart # None, client[c].pc # "reopen",
         client'[c].cart = client[c].cart, client'[c].rev = client[c].rev,
         client'[c].units = client[c].units, cart' = cart
  PROVE  ViewOK(c)'
BY DEF IInv, ClientOK, ViewOK

LEMMA ReadStep ==
  ASSUME CartAssumption, IInv, NEW c \in Clients, NEW x \in Carts, readCart(c, x)
  PROVE  IInv'
<1>1. cart'[x] \in CartRec /\ client' = Saw(c, x, cart'[x]) /\ cart'[x].status # None
      /\ UNCHANGED <<cart, order, net>>
  BY InvParts DEF readCart
<1> QED BY <1>1, SawOK, ClientSteps

LEMMA SetLinesStep ==
  ASSUME CartAssumption, IInv, NEW c \in Clients, NEW units \in 0 .. MaxUnits, setLines(c, units)
  PROVE  IInv'
<1>1. PICK x \in Carts : x = client[c].cart
  BY InvParts DEF setLines, ClientRec
<1>2. cart[x] \in CartRec /\ cart[x].units \in Int /\ cart[x].owned \in BOOLEAN
  BY InvParts DEF CartRec
<1>3. /\ cart[x].rev < MaxRev /\ cart[x].status \in Live /\ order' = order
      /\ net' = net + units - cart[x].units /\ client' = Saw(c, x, cart'[x])
  BY <1>1 DEF setLines, mutationBlocker
<1>4. cart' = [cart EXCEPT ![x] = [cart[x] EXCEPT !.units = units, !.status = "active",
                                                  !.owned = cart[x].owned, !.rev = cart[x].rev + 1]]
  <2>1. applyLines(cart[x], units) = [cart[x] EXCEPT !.units = units, !.status = "active",
                                                     !.owned = cart[x].owned, !.rev = cart[x].rev + 1]
    BY <1>2 DEF applyLines, CartRec
  <2>2. cart' = [cart EXCEPT ![x] = applyLines(cart[x], units)]
    BY <1>1 DEF setLines
  <2> QED BY <2>1, <2>2
<1>5. /\ cart' \in [Carts -> CartRec] /\ \A y \in Carts : y # x => cart'[y] = cart[y]
      /\ cart'[x].order \in {cart[x].order, None} /\ RowMoves(x) /\ cart[x].status # "converted"
      /\ cart'[x].status = "active"
  BY <1>2, <1>3, <1>4, LiveFacts, NextRevision
<1>6. ClientOK(c)' /\ client' \in [Clients -> ClientRec] /\ \A d \in Clients : d # c => client'[d] = client[d]
  BY <1>3, <1>5, LiveFacts, SawOK
<1>7. net' \in Int
  BY <1>2, <1>3, InvParts
<1> QED BY <1>3, <1>5, <1>6, <1>7, RowWrite

LEMMA IdentityStep ==
  ASSUME CartAssumption, IInv, NEW c \in Clients, NEW account \in BOOLEAN, captureIdentity(c, account)
  PROVE  IInv'
<1>1. PICK x \in Carts : x = client[c].cart
  BY InvParts DEF captureIdentity, ClientRec
<1>2. cart[x] \in CartRec /\ cart[x].units \in 0 .. MaxUnits /\ cart[x].owned \in BOOLEAN
  BY InvParts DEF CartRec
<1> DEFINE ow == cart[x].owned \/ account
<1>3. /\ cart[x].rev < MaxRev /\ cart[x].status \in Live /\ order' = order /\ ow \in BOOLEAN
      /\ net' = net /\ client' = Saw(c, x, cart'[x])
  BY <1>1, <1>2 DEF captureIdentity, mutationBlocker
<1>4. cart' = [cart EXCEPT ![x] = [cart[x] EXCEPT !.units = cart[x].units, !.status = cart[x].status,
                                                  !.owned = ow, !.rev = cart[x].rev + 1]]
  <2>1. cart' = [cart EXCEPT ![x].owned = ow, ![x].rev = cart[x].rev + 1]
    BY <1>1, <1>2, InvParts DEF captureIdentity
  <2> HIDE DEF ow
  <2>2. cart' = [cart EXCEPT ![x] = [cart[x] EXCEPT !.owned = ow, !.rev = cart[x].rev + 1]]
    BY <2>1, InvParts
  <2>3. [cart[x] EXCEPT !.owned = ow, !.rev = cart[x].rev + 1]
          = [cart[x] EXCEPT !.units = cart[x].units, !.status = cart[x].status,
                            !.owned = ow, !.rev = cart[x].rev + 1]
    BY <1>2 DEF CartRec
  <2> QED BY <2>2, <2>3
<1> HIDE DEF ow
<1>5. /\ cart' \in [Carts -> CartRec] /\ \A y \in Carts : y # x => cart'[y] = cart[y]
      /\ cart'[x].order \in {cart[x].order, None} /\ RowMoves(x) /\ cart[x].status # "converted"
      /\ cart'[x].status \in Live
  BY <1>2, <1>3, <1>4, LiveFacts, NextRevision
<1>6. ClientOK(c)' /\ client' \in [Clients -> ClientRec] /\ \A d \in Clients : d # c => client'[d] = client[d]
  BY <1>3, <1>5, LiveFacts, SawOK
<1>7. net' \in Int
  BY <1>3, InvParts
<1> QED BY <1>3, <1>5, <1>6, <1>7, RowWrite

LEMMA MergeReadStep ==
  ASSUME CartAssumption, IInv, NEW c \in Clients, mergeRead(c)
  PROVE  IInv'
<1> DEFINE S == {y \in Carts \ {client[c].cart} : Foldable(y)}
           v == [client[c] EXCEPT !.pc = "merge", !.others = S]
<1>1. client[c] \in ClientRec /\ client[c].cart # None /\ client[c].pc = "idle" /\ S \in SUBSET Carts
      /\ ClientOK(c) /\ client[c].cart \notin S
  BY InvParts DEF mergeRead, IInv
<1>2. UNCHANGED <<cart, order, net>> /\ client' = [client EXCEPT ![c] = v]
  BY DEF mergeRead
<1> HIDE DEF S
<1>3. /\ v \in ClientRec /\ v.pc = "merge" /\ v.cart = client[c].cart /\ v.rev = client[c].rev
      /\ v.units = client[c].units /\ v.answer = client[c].answer /\ v.others = S
  BY <1>1 DEF ClientRec
<1> HIDE DEF v
<1>4. /\ client' \in [Clients -> ClientRec] /\ client'[c] = v
      /\ \A d \in Clients : d # c => client'[d] = client[d]
  BY <1>2, <1>3, InvParts
<1>5. ViewOK(c)'
  BY <1>1, <1>2, <1>3, <1>4, ViewStays
<1>6. ClientOK(c)'
  BY <1>1, <1>2, <1>3, <1>4, <1>5 DEF ClientOK, ClientRec
<1> QED BY <1>2, <1>4, <1>6, ClientSteps

LEMMA MergeCommitStep ==
  ASSUME CartAssumption, IInv, NEW c \in Clients, mergeCommit(c)
  PROVE  IInv'
<1>1. PICK x \in Carts : x = client[c].cart
  BY InvParts DEF mergeCommit, IInv, ClientOK
<1> DEFINE donors == mergeDonors(c)
           accepted == /\ ~mutationBlocker(x) /\ ~staleRevision(x, client[c].rev)
                       /\ mergeCarts(x, donors)[x].units \in 0 .. MaxUnits
                       /\ \A y \in {x} \cup donors : cart[y].rev < MaxRev
<1>2. /\ cart' = IF accepted THEN mergeCarts(x, donors) ELSE cart
      /\ client' = IF accepted THEN Saw(c, x, cart'[x]) ELSE [client EXCEPT ![c] = NoView]
      /\ order' = order /\ net' = net
  BY <1>1 DEF mergeCommit
<1>3. CASE accepted
  <2>1. /\ cart[x].status \in Live /\ mergeCarts(x, donors)[x].units \in 0 .. MaxUnits
        /\ \A y \in {x} \cup donors : cart[y].rev < MaxRev
    BY <1>3 DEF mutationBlocker
  <2>2. donors \subseteq Carts /\ \A y \in donors : cart[y].status = "active"
    BY InvParts DEF mergeDonors, Foldable, ClientRec
  <2>3. cart' = mergeCarts(x, donors) /\ client' = Saw(c, x, cart'[x])
    BY <1>2, <1>3
  <2> HIDE DEF accepted, donors
  <2> DEFINE u == cart[x].units + UnitsIn(cart, donors)
             r == [cart[x] EXCEPT !.units = u, !.owned = TRUE, !.rev = cart[x].rev + 1]
  <2>4. mergeCarts(x, donors) = [y \in Carts |->
          CASE y = x -> r
            [] y \in donors -> [cart[y] EXCEPT !.units = 0, !.status = "merged", !.rev = cart[y].rev + 1]
            [] OTHER -> cart[y]]
    BY DEF mergeCarts
  <2> HIDE DEF u
  <2>5. mergeCarts(x, donors)[x] = r
    <3> HIDE DEF r
    <3>1. x \notin donors
      BY <1>1 DEF donors, mergeDonors, mergeCommit, IInv, ClientOK
    <3> QED BY <2>4, <3>1
  <2>6. cart[x] \in CartRec /\ cart[x].rev \in Nat /\ cart[x].rev + 1 \in 0 .. MaxRev
    BY <2>1, InvParts DEF CartRec, CartAssumption
  <2>7. r.units = u
    BY <2>6 DEF CartRec
  <2>8. /\ r \in CartRec /\ r.status = cart[x].status /\ r.order = cart[x].order
        /\ r.rev = cart[x].rev + 1
    BY <2>1, <2>5, <2>6, <2>7 DEF CartRec
  <2> HIDE DEF r
  <2>9. ASSUME NEW y \in Carts, y # x, y \in donors
        PROVE  /\ cart'[y] \in CartRec /\ cart'[y].status = "merged" /\ cart'[y].order = cart[y].order
               /\ cart'[y].rev = cart[y].rev + 1 /\ cart[y].rev \in Nat
    <3>1. cart'[y] = [cart[y] EXCEPT !.units = 0, !.status = "merged", !.rev = cart[y].rev + 1]
      BY <2>3, <2>4, <2>9
    <3>2. cart[y] \in CartRec /\ cart[y].rev \in Nat /\ cart[y].rev + 1 \in 0 .. MaxRev
      BY <2>1, <2>9, InvParts DEF CartRec, CartAssumption
    <3>3. 0 \in 0 .. MaxUnits
      BY DEF CartAssumption
    <3> QED BY <3>1, <3>2, <3>3 DEF CartRec
  <2>10. ASSUME NEW y \in Carts, y # x, y \notin donors PROVE cart'[y] = cart[y] /\ cart[y].rev \in Nat
    <3>1. cart'[y] = cart[y]
      BY <2>3, <2>4, <2>10
    <3>2. cart[y].rev \in Nat
      BY InvParts DEF CartRec, CartAssumption
    <3> QED BY <3>1, <3>2
  <2>11. cart'[x] = r
    BY <2>3, <2>5
  <2>12. cart' \in [Carts -> CartRec]
    <3>1. \A y \in Carts : cart'[y] \in CartRec
      BY <2>8, <2>9, <2>10, <2>11, InvParts
    <3> QED BY <2>3, <2>4, <3>1
  <2>13. \A y \in Carts : RowMoves(y)
    BY <2>1, <2>2, <2>6, <2>8, <2>9, <2>10, <2>11 DEF RowMoves, Live, None
  <2>14. \A y \in Carts : cart'[y] # cart[y] =>
             cart[y].status # "converted" /\ cart'[y].order \in {cart[y].order, None}
    BY <2>1, <2>2, <2>8, <2>9, <2>10, <2>11, LiveFacts
  <2>15. ClientOK(c)' /\ client' \in [Clients -> ClientRec] /\ \A d \in Clients : d # c => client'[d] = client[d]
    BY <2>1, <2>3, <2>8, <2>11, LiveFacts, SawOK
  <2>16. net' \in Int
    BY <1>2, InvParts
  <2> QED BY <1>2, <2>12, <2>13, <2>14, <2>15, <2>16, CartSteps
<1>4. CASE ~ accepted
  <2>1. cart' = cart /\ client' = [client EXCEPT ![c] = NoView]
    BY <1>2, <1>4
  <2> QED BY <1>2, <2>1, RefuseOK, ClientSteps
<1> QED BY <1>3, <1>4

-----------------------------------------------------------------------------
(* Checkout.                                                                *)

LEMMA AnswerFacts ==
  ASSUME CartAssumption, IInv, NEW c \in Clients, NEW o \in Orders, client' = Answer(c, o)
  PROVE  /\ client' \in [Clients -> ClientRec]
         /\ client'[c].pc = "idle" /\ client'[c].answer = o /\ client'[c].cart = client[c].cart
         /\ client'[c].rev = client[c].rev /\ client'[c].units = client[c].units
         /\ \A d \in Clients : d # c => client'[d] = client[d]
<1> DEFINE v == [client[c] EXCEPT !.pc = "idle", !.answer = o, !.order = None]
<1>1. client[c] \in ClientRec
  BY InvParts
<1>2. /\ v \in ClientRec /\ v.pc = "idle" /\ v.answer = o /\ v.cart = client[c].cart
      /\ v.rev = client[c].rev /\ v.units = client[c].units
  BY <1>1 DEF ClientRec
<1>3. client' = [client EXCEPT ![c] = v]
  BY DEF Answer
<1> HIDE DEF v
<1> QED BY <1>2, <1>3, InvParts

\* An order of the tab's own cart is a good answer.
LEMMA AnswerStep ==
  ASSUME CartAssumption, IInv, NEW c \in Clients, NEW o \in Orders, client' = Answer(c, o),
         UNCHANGED <<cart, order, net>>, client[c].pc = "checkout",
         order[o].state # None, order[o].cart = client[c].cart
  PROVE  IInv'
<1>1. /\ client' \in [Clients -> ClientRec]
      /\ client'[c].pc = "idle" /\ client'[c].answer = o /\ client'[c].cart = client[c].cart
      /\ client'[c].rev = client[c].rev /\ client'[c].units = client[c].units
      /\ \A d \in Clients : d # c => client'[d] = client[d]
  BY AnswerFacts
<1>2. client[c].cart # None
  BY DEF IInv, ClientOK, CartAssumption
<1>3. ViewOK(c)'
  BY <1>1, <1>2, ViewStays
<1>4. ClientOK(c)'
  BY <1>1, <1>3 DEF ClientOK
<1> QED BY <1>1, <1>4, ClientSteps

LEMMA RefuseStep ==
  ASSUME CartAssumption, IInv, NEW c \in Clients, client' = Refuse(c), UNCHANGED <<cart, order, net>>
  PROVE  IInv'
BY RefuseOK, ClientSteps DEF Refuse

\* The order found under a key exists.
LEMMA KeyFacts ==
  ASSUME NEW k, WithKey(k) # {}
  PROVE  /\ (CHOOSE o \in WithKey(k) : TRUE) \in Orders
         /\ order[CHOOSE o \in WithKey(k) : TRUE].state # None
<1>1. (CHOOSE o \in WithKey(k) : TRUE) \in WithKey(k)
  OBVIOUS
<1> QED BY <1>1 DEF WithKey, Exists

LEMMA LookupStep ==
  ASSUME CartAssumption, IInv, NEW c \in Clients, NEW k \in Keys, checkoutLookup(c, k)
  PROVE  IInv'
<1> DEFINE asked == [client[c] EXCEPT !.key = k, !.answer = None]
           w == CHOOSE o \in WithKey(k) : TRUE
<1>1. client[c] \in ClientRec /\ client[c].cart # None /\ client[c].pc = "idle" /\ client[c].cart \in Carts
  BY InvParts DEF checkoutLookup, ClientRec
<1>2. UNCHANGED <<cart, order, net>>
  BY DEF checkoutLookup
<1>3. /\ asked \in ClientRec /\ asked.pc = "idle" /\ asked.cart = client[c].cart
      /\ asked.rev = client[c].rev /\ asked.units = client[c].units /\ asked.answer = None
  BY <1>1 DEF ClientRec
<1>4. ASSUME NEW v \in ClientRec, client' = [client EXCEPT ![c] = v], v.pc \in {"idle", "checkout"},
             v.cart = client[c].cart, v.rev = client[c].rev, v.units = client[c].units,
             v.answer # None => order[v.answer].state # None /\ order[v.answer].cart = client[c].cart
      PROVE  IInv'
  <2>1. /\ client' \in [Clients -> ClientRec] /\ client'[c] = v
        /\ \A d \in Clients : d # c => client'[d] = client[d]
    BY <1>4, InvParts
  <2>2. ViewOK(c)'
    BY <1>1, <1>2, <1>4, <2>1, ViewStays
  <2>3. ClientOK(c)'
    BY <1>1, <1>2, <1>4, <2>1, <2>2 DEF ClientOK
  <2> QED BY <1>2, <2>1, <2>3, ClientSteps
<1>5. CASE WithKey(k) # {} /\ ~ fingerprintMatches(c, w)
  <2>1. client' = [client EXCEPT ![c] = NoView]
    BY <1>5 DEF checkoutLookup
  <2> QED BY <1>2, <2>1, RefuseOK, ClientSteps
<1>6. CASE WithKey(k) # {} /\ fingerprintMatches(c, w)
  <2> DEFINE v == [asked EXCEPT !.answer = w]
  <2>1. client' = [client EXCEPT ![c] = v]
    BY <1>6 DEF checkoutLookup
  <2>2. w \in Orders /\ order[w].state # None /\ order[w].cart = client[c].cart
    BY <1>6, KeyFacts DEF fingerprintMatches
  <2> HIDE DEF asked, w
  <2>3. /\ v \in ClientRec /\ v.pc = "idle" /\ v.cart = client[c].cart
        /\ v.rev = client[c].rev /\ v.units = client[c].units /\ v.answer = w
    BY <1>3, <2>2 DEF ClientRec
  <2> HIDE DEF v
  <2> QED BY <1>4, <2>1, <2>2, <2>3
<1>7. CASE WithKey(k) = {}
  <2> DEFINE v == [asked EXCEPT !.pc = "checkout"]
  <2>1. client' = [client EXCEPT ![c] = v]
    BY <1>7 DEF checkoutLookup
  <2> HIDE DEF asked
  <2>2. /\ v \in ClientRec /\ v.pc = "checkout" /\ v.cart = client[c].cart
        /\ v.rev = client[c].rev /\ v.units = client[c].units /\ v.answer = None
    BY <1>3 DEF ClientRec
  <2> HIDE DEF v
  <2> QED BY <1>4, <2>1, <2>2
<1> QED BY <1>5, <1>6, <1>7

LEMMA ResumeStep ==
  ASSUME CartAssumption, IInv, NEW c \in Clients, checkoutResume(c)
  PROVE  IInv'
<1>1. PICK x \in Carts : x = client[c].cart
  BY DEF checkoutResume, IInv, ClientOK
<1>2. UNCHANGED <<cart, order, net>> /\ client[c].pc = "checkout" /\ CartOK(x)
  BY DEF checkoutResume, IInv
<1>3. cart[x].order \in Orders \cup {None}
  BY InvParts DEF CartRec
<1>4. \/ client' = Refuse(c)
      \/ cart[x].order # None /\ client' = Answer(c, cart[x].order)
  BY <1>1 DEF checkoutResume
<1>5. cart[x].order # None => order[cart[x].order].state # None /\ order[cart[x].order].cart = client[c].cart
  BY <1>1, <1>2 DEF CartOK
<1> QED BY <1>2, <1>3, <1>4, <1>5, AnswerStep, RefuseStep

LEMMA ConvertStep ==
  ASSUME CartAssumption, IInv, NEW c \in Clients, NEW o \in Orders, NEW paid \in BOOLEAN,
         checkoutConvert(c, o, paid)
  PROVE  IInv'
<1>1. PICK x \in Carts : x = client[c].cart
  BY DEF checkoutConvert, IInv, ClientOK
<1> DEFINE k == client[c].key
           w == CHOOSE p \in WithKey(k) : TRUE
<1>2. /\ net' = net /\ client[c].pc = "checkout" /\ cart[x].status \in Live
      /\ cart[x].rev = client[c].rev /\ cart[x].rev < MaxRev
  BY <1>1 DEF checkoutConvert, staleRevision
<1>3. CASE WithKey(k) # {}
  <2>1. client' = Replay(c, w) /\ UNCHANGED <<cart, order>>
    BY <1>3 DEF checkoutConvert
  <2>2. w \in Orders /\ order[w].state # None
    BY <1>3, KeyFacts
  <2> HIDE DEF w
  <2>3. \/ client' = Refuse(c)
        \/ client' = Answer(c, w) /\ order[w].cart = client[c].cart
    BY <2>1 DEF Replay, fingerprintMatches
  <2> QED BY <1>2, <2>1, <2>2, <2>3, AnswerStep, RefuseStep
<1>4. CASE WithKey(k) = {}
  <2> DEFINE st == IF paid THEN "Paid" ELSE "PendingPayment"
             n == [NoOrder EXCEPT !.state = st, !.cart = x, !.key = k, !.units = cart[x].units,
                                  !.shown = client[c].units]
             r == [cart[x] EXCEPT !.status = "converted", !.order = o, !.rev = cart[x].rev + 1]
  <2>1. /\ order[o] = NoOrder /\ order' = [order EXCEPT ![o] = n] /\ client' = Answer(c, o)
        /\ cart' = [cart EXCEPT ![x].status = "converted", ![x].order = o, ![x].rev = cart[x].rev + 1]
    BY <1>1, <1>4 DEF checkoutConvert
  <2>2. cart[x] \in CartRec /\ client[c] \in ClientRec
    BY InvParts
  <2>3. cart' = [cart EXCEPT ![x] = r]
    BY <2>1, <2>2, InvParts
  <2>4. cart[x].rev \in Nat /\ cart[x].rev + 1 \in 0 .. MaxRev /\ cart[x].units \in 0 .. MaxUnits
        /\ k \in Keys \cup {None} /\ client[c].units \in 0 .. MaxUnits
    BY <1>2, <2>2 DEF CartRec, ClientRec, CartAssumption
  <2>5. /\ r \in CartRec /\ r.status = "converted" /\ r.order = o /\ r.rev = cart[x].rev + 1
    BY <2>2, <2>4 DEF CartRec
  <2>6. NoOrder \in OrderRec /\ NoOrder.state = None /\ NoOrder.inflight = FALSE
    BY DEF NoOrder, OrderRec, CartAssumption
  <2>7. st \in {"Paid", "PendingPayment"}
    OBVIOUS
  <2> HIDE DEF st, k
  <2>8. /\ n \in OrderRec /\ n.state = st /\ n.cart = x /\ n.units = cart[x].units
        /\ n.shown = client[c].units /\ n.inflight = FALSE
    BY <2>4, <2>6, <2>7 DEF OrderRec
  <2> HIDE DEF n, r
  <2>9. /\ cart' \in [Carts -> CartRec] /\ cart'[x] = r /\ \A y \in Carts : y # x => cart'[y] = cart[y]
        /\ order' \in [Orders -> OrderRec] /\ order'[o] = n /\ \A p \in Orders : p # o => order'[p] = order[p]
    <3>1. cart' \in [Carts -> CartRec] /\ cart'[x] = r /\ \A y \in Carts : y # x => cart'[y] = cart[y]
      BY <2>3, <2>5, InvParts
    <3>2. order' = [order EXCEPT ![o] = n]
      BY <2>1
    <3>3. order' \in [Orders -> OrderRec] /\ order'[o] = n /\ \A p \in Orders : p # o => order'[p] = order[p]
      BY <2>8, <3>2, InvParts
    <3> QED BY <3>1, <3>3
  <2>10. \A y \in Carts : cart[y].rev \in Nat
    BY InvParts DEF CartRec, CartAssumption
  <2>11. \A y \in Carts : RowMoves(y)
    BY <1>2, <2>4, <2>5, <2>9, <2>10, LiveFacts DEF RowMoves, None
  <2>12. \A p \in Orders : OrderKept(p)
    BY <2>1, <2>6, <2>9 DEF OrderKept
  <2>13. client[c].cart # None /\ client[c].pc # "reopen" /\ ViewOK(c)
    BY <1>1, <1>2 DEF IInv, ClientOK, CartAssumption
  <2>14. client[c].units = cart[x].units
    BY <1>1, <1>2, <2>13, LiveFacts DEF ViewOK
  <2>15. /\ client' \in [Clients -> ClientRec]
         /\ client'[c].pc = "idle" /\ client'[c].answer = o /\ client'[c].cart = x
         /\ client'[c].rev = client[c].rev /\ client'[c].units = client[c].units
         /\ \A d \in Clients : d # c => client'[d] = client[d]
    BY <1>1, <2>1, AnswerFacts
  <2>16. TypeOK'
    BY <1>2, <2>9, <2>15, InvParts, TypeParts
  <2>17. ASSUME NEW p \in Orders PROVE OrderOK(p)'
    <3>1. CASE p = o
      BY <2>5, <2>7, <2>8, <2>9, <2>14, <3>1 DEF OrderOK, None
    <3>2. CASE p # o
      <4>1. OrderOK(p) /\ order'[p] = order[p]
        BY <2>9, <3>2 DEF IInv
      <4>2. order[p].state \in {"PendingPayment", "Paid"} => order[p].cart # x /\ order[p].cart \in Carts
        BY <1>2, <4>1, LiveFacts DEF OrderOK, None
      <4> QED BY <2>9, <4>1, <4>2 DEF OrderOK
    <3> QED BY <3>1, <3>2
  <2>18. ASSUME NEW y \in Carts PROVE CartOK(y)'
    <3>1. CASE y = x
      BY <2>5, <2>7, <2>8, <2>9, <3>1 DEF CartOK, None
    <3>2. CASE y # x
      <4>1. CartOK(y) /\ cart'[y] = cart[y] /\ cart[y].order \in Orders \cup {None}
        BY <2>9, <3>2, InvParts DEF IInv, CartRec
      <4> QED BY <2>12, <4>1 DEF CartOK, OrderKept
    <3> QED BY <3>1, <3>2
  <2>19. ViewOK(c)'
    BY <1>1, <2>9, <2>11, <2>13, <2>15, ViewKept
  <2>20. ClientOK(c)'
    BY <2>7, <2>8, <2>9, <2>15, <2>19 DEF ClientOK, None
  <2>21. ASSUME NEW d \in Clients PROVE ClientOK(d)'
    BY <2>9, <2>11, <2>12, <2>15, <2>20, ClientKept
  <2> QED BY <2>16, <2>17, <2>18, <2>21 DEF IInv
<1> QED BY <1>3, <1>4

-----------------------------------------------------------------------------
(* Reopening.                                                               *)

LEMMA ReopenReadStep ==
  ASSUME CartAssumption, IInv, NEW c \in Clients, NEW x \in Carts, reopenRead(c, x)
  PROVE  IInv'
<1> DEFINE v == [NoView EXCEPT !.pc = "reopen", !.cart = x, !.order = cart[x].order]
<1>1. UNCHANGED <<cart, order, net>> /\ client' = [client EXCEPT ![c] = v] /\ cart[x].order # None
  BY DEF reopenRead
<1>2. cart[x].order \in Orders
  BY <1>1, InvParts DEF CartRec
<1>3. NoView \in ClientRec /\ NoView.answer = None
  BY DEF NoView, ClientRec, CartAssumption
<1>4. v \in ClientRec /\ v.pc = "reopen" /\ v.cart = x /\ v.order = cart[x].order /\ v.answer = None
  BY <1>2, <1>3 DEF ClientRec
<1> HIDE DEF v
<1>5. /\ client' \in [Clients -> ClientRec] /\ client'[c] = v
      /\ \A d \in Clients : d # c => client'[d] = client[d]
  BY <1>1, <1>4, InvParts
<1>6. ClientOK(c)'
  BY <1>2, <1>4, <1>5 DEF ClientOK
<1> QED BY <1>1, <1>5, <1>6, ClientSteps

LEMMA ReopenFacts ==
  ASSUME CartAssumption, IInv, NEW c \in Clients, NEW x \in Carts, NEW o \in Orders,
         x = client[c].cart, o = client[c].order, client[c].pc = "reopen", ~ UNCHANGED <<cart, order>>,
         reopenCommit(c)
  PROVE  /\ cart[x].status = "converted" /\ cart[x].order = o
         /\ cart' \in [Carts -> CartRec] /\ \A y \in Carts : y # x => cart'[y] = cart[y]
         /\ cart'[x].status = "active" /\ cart'[x].order = None /\ cart'[x].units = cart[x].units
         /\ cart'[x].rev > cart[x].rev
         /\ order' \in [Orders -> OrderRec] /\ \A p \in Orders : p # o => order'[p] = order[p]
         /\ order'[o].state = "Cancelled" /\ order'[o].cart = order[o].cart
         /\ order'[o].units = order[o].units /\ order'[o].shown = order[o].shown
         /\ order'[o].inflight = order[o].inflight /\ order[o].state # None
         /\ order[o].inflight => order[o].state = "Cancelled"
<1>1. /\ order[o].state = "Cancelled" \/ unpaidCancellable(o)
      /\ reopenable(c) /\ cart[x].rev < MaxRev
      /\ order' = IF order[o].state = "Cancelled" THEN order ELSE CancelUnpaid(o, FALSE)
      /\ cart' = [cart EXCEPT ![x].status = "active", ![x].order = None, ![x].rev = cart[x].rev + 1]
  BY DEF reopenCommit
<1>2. cart[x].status = "converted" /\ cart[x].order = o
  BY <1>1 DEF reopenable
<1> DEFINE r == [cart[x] EXCEPT !.status = "active", !.order = None, !.rev = cart[x].rev + 1]
           n == [order[o] EXCEPT !.state = "Cancelled", !.stale = FALSE]
<1>3. cart[x] \in CartRec /\ order[o] \in OrderRec
  BY InvParts
<1>4. cart[x].rev \in Nat /\ cart[x].rev + 1 \in 0 .. MaxRev
  BY <1>1, <1>3 DEF CartRec, CartAssumption
<1>5. cart' = [cart EXCEPT ![x] = r]
  BY <1>1, <1>3, InvParts
<1>6. r \in CartRec /\ r.status = "active" /\ r.order = None /\ r.units = cart[x].units /\ r.rev = cart[x].rev + 1
  BY <1>3, <1>4, LiveFacts DEF CartRec
<1>7. CancelUnpaid(o, FALSE) = [order EXCEPT ![o] = n]
  BY DEF CancelUnpaid
<1>8. /\ n \in OrderRec /\ n.state = "Cancelled" /\ n.cart = order[o].cart /\ n.units = order[o].units
      /\ n.shown = order[o].shown /\ n.inflight = order[o].inflight
  BY <1>3 DEF OrderRec
<1> HIDE DEF r, n
<1>9. /\ cart' \in [Carts -> CartRec] /\ cart'[x] = r /\ \A y \in Carts : y # x => cart'[y] = cart[y]
      /\ r.rev > cart[x].rev
  BY <1>4, <1>5, <1>6, InvParts
<1>10. CASE order[o].state = "Cancelled"
  <2>1. order' = order
    BY <1>1, <1>10
  <2> QED BY <1>2, <1>6, <1>9, <1>10, <2>1, InvParts DEF None
<1>11. CASE order[o].state # "Cancelled"
  <2>1. order' = [order EXCEPT ![o] = n] /\ order[o].state = "PendingPayment" /\ ~ order[o].inflight
    BY <1>1, <1>7, <1>11 DEF unpaidCancellable
  <2>2. order' \in [Orders -> OrderRec] /\ order'[o] = n /\ \A p \in Orders : p # o => order'[p] = order[p]
    BY <1>8, <2>1, InvParts
  <2> QED BY <1>2, <1>6, <1>8, <1>9, <2>1, <2>2 DEF None
<1> QED BY <1>10, <1>11

LEMMA ReopenStep ==
  ASSUME CartAssumption, IInv, NEW c \in Clients, reopenCommit(c)
  PROVE  IInv'
<1>1. client[c].pc = "reopen" /\ net' = net
  BY DEF reopenCommit
<1>2. PICK x \in Carts, o \in Orders : x = client[c].cart /\ o = client[c].order
  BY <1>1 DEF IInv, ClientOK
<1>3. \/ client' = [client EXCEPT ![c] = NoView]
      \/ client' = Saw(c, x, cart'[x]) /\ cart'[x].status # None
  BY <1>2 DEF reopenCommit, Refuse
<1>4. CASE UNCHANGED <<cart, order>>
  <2>1. cart'[x] \in CartRec
    BY <1>4, InvParts
  <2>2. ClientOK(c)' /\ client' \in [Clients -> ClientRec] /\ \A d \in Clients : d # c => client'[d] = client[d]
    BY <1>3, <2>1, RefuseOK, SawOK
  <2> QED BY <1>1, <1>4, <2>2, ClientSteps
<1>5. CASE ~ UNCHANGED <<cart, order>>
  <2>1. /\ cart[x].status = "converted" /\ cart[x].order = o
        /\ cart' \in [Carts -> CartRec] /\ \A y \in Carts : y # x => cart'[y] = cart[y]
        /\ cart'[x].status = "active" /\ cart'[x].order = None /\ cart'[x].units = cart[x].units
        /\ cart'[x].rev > cart[x].rev
        /\ order' \in [Orders -> OrderRec] /\ \A p \in Orders : p # o => order'[p] = order[p]
        /\ order'[o].state = "Cancelled" /\ order'[o].cart = order[o].cart
        /\ order'[o].units = order[o].units /\ order'[o].shown = order[o].shown
        /\ order'[o].inflight = order[o].inflight /\ order[o].state # None
        /\ order[o].inflight => order[o].state = "Cancelled"
    BY <1>1, <1>2, <1>5, ReopenFacts
  <2>2. \A y \in Carts : cart[y].rev \in Nat /\ cart'[y].rev \in Nat
    BY <2>1, InvParts DEF CartRec, CartAssumption
  <2>3. \A y \in Carts : RowMoves(y)
    BY <2>1, <2>2 DEF RowMoves, None
  <2>4. \A p \in Orders : OrderKept(p)
    BY <2>1 DEF OrderKept, None
  <2>5. ClientOK(c)' /\ client' \in [Clients -> ClientRec] /\ \A d \in Clients : d # c => client'[d] = client[d]
    BY <1>3, <2>1, RefuseOK, SawOK
  <2>6. TypeOK'
    BY <1>1, <2>1, <2>5, InvParts, TypeParts
  <2>7. ASSUME NEW p \in Orders PROVE OrderOK(p)'
    <3>1. OrderOK(p)
      BY DEF IInv
    <3>2. CASE p = o
      BY <2>1, <3>1, <3>2 DEF OrderOK
    <3>3. CASE p # o
      <4>1. order'[p] = order[p]
        BY <2>1, <3>3
      <4>2. order[p].state \in {"PendingPayment", "Paid"} => order[p].cart # x /\ order[p].cart \in Carts
        BY <2>1, <3>1, <3>3 DEF OrderOK, None
      <4> QED BY <2>1, <3>1, <4>1, <4>2 DEF OrderOK
    <3> QED BY <3>2, <3>3
  <2>8. ASSUME NEW y \in Carts PROVE CartOK(y)'
    <3>1. CASE y = x
      BY <2>1, <3>1 DEF CartOK
    <3>2. CASE y # x
      <4>1. CartOK(y) /\ cart'[y] = cart[y] /\ cart[y].order \in Orders \cup {None}
        BY <2>1, <3>2, InvParts DEF IInv, CartRec
      <4> QED BY <2>4, <4>1 DEF CartOK, OrderKept
    <3> QED BY <3>1, <3>2
  <2>9. ASSUME NEW d \in Clients PROVE ClientOK(d)'
    BY <2>1, <2>3, <2>4, <2>5, ClientKept
  <2> QED BY <2>6, <2>7, <2>8, <2>9 DEF IInv
<1> QED BY <1>4, <1>5

-----------------------------------------------------------------------------
(* The payment of an order, and the jobs.                                   *)

LEMMA OrderWrite ==
  ASSUME CartAssumption, IInv, UNCHANGED <<cart, client, net>>, NEW o \in Orders, NEW n \in OrderRec,
         order' = [order EXCEPT ![o] = n], order[o].state # None, n.state # None,
         n.cart = order[o].cart, n.units = order[o].units, n.shown = order[o].shown,
         n.inflight => n.state = "PendingPayment",
         n.state \in {"PendingPayment", "Paid"} => order[o].state = "PendingPayment"
  PROVE  IInv'
<1>1. order' \in [Orders -> OrderRec] /\ order'[o] = n /\ \A p \in Orders : p # o => order'[p] = order[p]
  BY InvParts
<1>2. \A p \in Orders : OrderKept(p)
  BY <1>1 DEF OrderKept
<1>3. \A y \in Carts : cart[y].rev \in Nat /\ cart[y].order \in Orders \cup {None}
  BY InvParts DEF CartRec, CartAssumption
<1>4. \A y \in Carts : RowMoves(y)
  BY <1>3 DEF RowMoves
<1>5. TypeOK'
  BY <1>1, InvParts, TypeParts
<1>6. ASSUME NEW p \in Orders PROVE OrderOK(p)'
  BY <1>1 DEF OrderOK, IInv
<1>7. ASSUME NEW y \in Carts PROVE CartOK(y)'
  BY <1>2, <1>3 DEF CartOK, IInv, OrderKept
<1>8. ASSUME NEW d \in Clients PROVE ClientOK(d)'
  BY <1>2, <1>4, InvParts, ClientKept
<1> QED BY <1>5, <1>6, <1>7, <1>8 DEF IInv

LEMMA PaymentSteps ==
  ASSUME CartAssumption, IInv, NEW o \in Orders,
         \/ startPayment(o) \/ (\E settled \in BOOLEAN : endPayment(o, settled))
         \/ releaseStale(o) \/ trashAbandonedOrders(o)
  PROVE  IInv'
<1>1. order[o] \in OrderRec /\ OrderOK(o) /\ order \in [Orders -> OrderRec]
  BY InvParts DEF IInv
<1>2. UNCHANGED <<cart, client, net>>
  BY DEF startPayment, endPayment, releaseStale, trashAbandonedOrders
<1>3. CASE startPayment(o)
  <2> DEFINE n == [order[o] EXCEPT !.inflight = TRUE]
  <2>1. order' = [order EXCEPT ![o] = n] /\ order[o].state = "PendingPayment"
    BY <1>1, <1>3 DEF startPayment, unpaidCancellable
  <2>2. /\ n \in OrderRec /\ n.state = order[o].state /\ n.cart = order[o].cart
        /\ n.units = order[o].units /\ n.shown = order[o].shown
    BY <1>1 DEF OrderRec
  <2> HIDE DEF n
  <2> QED BY <1>2, <2>1, <2>2, OrderWrite DEF None
<1>4. ASSUME NEW settled \in BOOLEAN, endPayment(o, settled) PROVE IInv'
  <2> DEFINE st == IF settled THEN "Paid" ELSE order[o].state
             n == [order[o] EXCEPT !.inflight = FALSE, !.state = st]
  <2>1. order' = [order EXCEPT ![o] = n] /\ order[o].state = "PendingPayment"
    <3>1. order' = [order EXCEPT ![o].inflight = FALSE, ![o].state = st]
      BY <1>1, <1>4 DEF endPayment
    <3>2. order[o].state = "PendingPayment"
      BY <1>1, <1>4 DEF endPayment, OrderOK
    <3> HIDE DEF st
    <3> QED BY <1>1, <3>1, <3>2
  <2>2. st \in {"Paid", "PendingPayment"}
    BY <2>1
  <2> HIDE DEF st
  <2>3. /\ n \in OrderRec /\ n.state = st /\ n.cart = order[o].cart /\ ~ n.inflight
        /\ n.units = order[o].units /\ n.shown = order[o].shown
    BY <1>1, <2>2 DEF OrderRec
  <2> HIDE DEF n
  <2> QED BY <1>2, <2>1, <2>2, <2>3, OrderWrite DEF None
<1>5. CASE releaseStale(o)
  <2> DEFINE n == [order[o] EXCEPT !.state = "Cancelled", !.stale = TRUE]
  <2>1. order' = [order EXCEPT ![o] = n] /\ order[o].state = "PendingPayment" /\ ~ order[o].inflight
    BY <1>5 DEF releaseStale, CancelUnpaid, unpaidCancellable
  <2>2. /\ n \in OrderRec /\ n.state = "Cancelled" /\ n.cart = order[o].cart
        /\ n.inflight = order[o].inflight /\ n.units = order[o].units /\ n.shown = order[o].shown
    BY <1>1 DEF OrderRec
  <2> HIDE DEF n
  <2> QED BY <1>2, <2>1, <2>2, OrderWrite DEF None
<1>6. CASE trashAbandonedOrders(o)
  <2> DEFINE n == [order[o] EXCEPT !.deleted = TRUE]
  <2>1. order' = [order EXCEPT ![o] = n] /\ order[o].state = "Cancelled"
    BY <1>1, <1>6 DEF trashAbandonedOrders
  <2>2. /\ n \in OrderRec /\ n.state = "Cancelled" /\ n.cart = order[o].cart
        /\ n.inflight = order[o].inflight /\ n.units = order[o].units /\ n.shown = order[o].shown
    BY <1>1, <2>1 DEF OrderRec
  <2>3. ~ order[o].inflight
    BY <1>1, <2>1 DEF OrderOK
  <2> HIDE DEF n
  <2> QED BY <1>2, <2>1, <2>2, <2>3, OrderWrite DEF None
<1> QED BY <1>3, <1>4, <1>5, <1>6

LEMMA PurgeStep ==
  ASSUME CartAssumption, IInv, NEW o \in Orders, purgeOrder(o)
  PROVE  IInv'
<1> DEFINE n == [order[o] EXCEPT !.state = "purged", !.deleted = TRUE]
<1>1. order[o] \in OrderRec /\ OrderOK(o)
  BY InvParts DEF IInv
<1>2. /\ order' = [order EXCEPT ![o] = n] /\ order[o].state = "Cancelled" /\ client' = client /\ net' = net
      /\ cart' = [x \in Carts |-> IF cart[x].order = o THEN [cart[x] EXCEPT !.order = None] ELSE cart[x]]
  BY DEF purgeOrder
<1>3. /\ n \in OrderRec /\ n.state = "purged" /\ n.cart = order[o].cart
      /\ n.inflight = order[o].inflight /\ n.units = order[o].units /\ n.shown = order[o].shown
  BY <1>1 DEF OrderRec
<1>4. ~ order[o].inflight
  BY <1>1, <1>2 DEF OrderOK
<1> HIDE DEF n
<1>5. order' \in [Orders -> OrderRec] /\ order'[o] = n /\ \A p \in Orders : p # o => order'[p] = order[p]
  BY <1>2, <1>3, InvParts
<1>6. ASSUME NEW y \in Carts
      PROVE  /\ cart'[y] \in CartRec /\ cart'[y].status = cart[y].status /\ cart'[y].rev = cart[y].rev
             /\ cart'[y].units = cart[y].units /\ cart[y].rev \in Nat
             /\ cart'[y].order = IF cart[y].order = o THEN None ELSE cart[y].order
             /\ cart[y].order \in Orders \cup {None}
  <2>1. cart[y] \in CartRec
    BY InvParts
  <2>2. cart'[y] = IF cart[y].order = o THEN [cart[y] EXCEPT !.order = None] ELSE cart[y]
    BY <1>2
  <2>3. cart[y].rev \in Nat /\ cart[y].order \in Orders \cup {None}
    BY <2>1 DEF CartRec, CartAssumption
  <2> QED BY <2>1, <2>2, <2>3 DEF CartRec
<1>7. cart' \in [Carts -> CartRec]
  BY <1>2, <1>6
<1>8. \A y \in Carts : RowMoves(y)
  BY <1>6 DEF RowMoves
<1>9. \A p \in Orders : OrderKept(p)
  BY <1>3, <1>5 DEF OrderKept, None
<1>10. TypeOK'
  BY <1>2, <1>5, <1>7, InvParts, TypeParts
<1>11. ASSUME NEW p \in Orders PROVE OrderOK(p)'
  <2>1. OrderOK(p)
    BY DEF IInv
  <2>2. CASE p = o
    BY <1>2, <1>3, <1>4, <1>5, <2>1, <2>2 DEF OrderOK, None
  <2>3. CASE p # o
    BY <1>5, <1>6, <2>1, <2>3 DEF OrderOK, None
  <2> QED BY <2>2, <2>3
<1>12. ASSUME NEW y \in Carts PROVE CartOK(y)'
  BY <1>5, <1>6, <1>9 DEF CartOK, OrderKept, IInv
<1>13. ASSUME NEW d \in Clients PROVE ClientOK(d)'
  BY <1>2, <1>7, <1>8, <1>9, ClientKept
<1> QED BY <1>10, <1>11, <1>12, <1>13 DEF IInv

-----------------------------------------------------------------------------
(* The inductive invariant.                                                 *)

LEMMA InitInv ==
  ASSUME CartAssumption, Init
  PROVE  IInv
<1>1. NoCart \in CartRec /\ NoCart.order = None
  BY DEF NoCart, CartRec, CartAssumption
<1>2. NoOrder \in OrderRec /\ NoOrder.state = None /\ NoOrder.inflight = FALSE
  BY DEF NoOrder, OrderRec, CartAssumption
<1>3. NoView \in ClientRec /\ NoView.pc = "idle" /\ NoView.cart = None /\ NoView.answer = None
  BY DEF NoView, ClientRec, CartAssumption
<1>4. /\ \A x \in Carts : cart[x] = NoCart
      /\ \A o \in Orders : order[o] = NoOrder
      /\ \A c \in Clients : client[c] = NoView
  BY DEF Init
<1>5. TypeOK
  BY <1>1, <1>2, <1>3, TypeParts DEF Init
<1>6. ASSUME NEW o \in Orders PROVE OrderOK(o)
  BY <1>2, <1>4 DEF OrderOK, None
<1>7. ASSUME NEW x \in Carts PROVE CartOK(x)
  BY <1>1, <1>4 DEF CartOK
<1>8. ASSUME NEW c \in Clients PROVE ClientOK(c)
  BY <1>3, <1>4 DEF ClientOK
<1> QED BY <1>5, <1>6, <1>7, <1>8 DEF IInv

LEMMA StutterStep ==
  ASSUME CartAssumption, IInv, UNCHANGED vars
  PROVE  IInv'
BY DEF vars, IInv, TypeOK, OrderOK, CartOK, ClientOK, ViewOK

LEMMA NextInv ==
  ASSUME CartAssumption, IInv, [Next]_vars
  PROVE  IInv'
<1>1. CASE UNCHANGED vars
  BY <1>1, StutterStep
<1>2. CASE CartStep
  <2>1. PICK x \in Carts :
          \/ \E units \in 0 .. 1, owned \in BOOLEAN : createCart(x, units, owned)
          \/ appendLine(x) \/ abandonStaleCarts(x) \/ cleanupExpiredCarts(x)
    BY <1>2 DEF CartStep
  <2> QED BY <2>1, CreateStep, AppendStep, AbandonStep, CleanupStep
<1>3. CASE ClientStep
  <2>1. PICK c \in Clients :
        \/ \E x \in Carts : readCart(c, x) \/ reopenRead(c, x)
        \/ \E units \in 0 .. MaxUnits : setLines(c, units)
        \/ \E account \in BOOLEAN : captureIdentity(c, account)
        \/ mergeRead(c) \/ mergeCommit(c)
        \/ \E k \in Keys : checkoutLookup(c, k)
        \/ checkoutResume(c) \/ checkoutRefuse(c)
        \/ \E o \in Orders, paid \in BOOLEAN : checkoutConvert(c, o, paid)
        \/ reopenCommit(c)
    BY <1>3 DEF ClientStep
  <2>2. ASSUME checkoutRefuse(c) PROVE IInv'
    BY <2>2, RefuseStep DEF checkoutRefuse
  <2> QED BY <2>1, <2>2, ReadStep, ReopenReadStep, SetLinesStep, IdentityStep, MergeReadStep,
             MergeCommitStep, LookupStep, ResumeStep, ConvertStep, ReopenStep
<1>4. CASE OrderStep
  BY <1>4, PaymentSteps, PurgeStep DEF OrderStep
<1> QED BY <1>1, <1>2, <1>3, <1>4 DEF Next

\* Every behaviour keeps the inductive invariant.
THEOREM Invariance ==
  ASSUME CartAssumption
  PROVE  Spec => []IInv
<1>1. Init => IInv
  BY InitInv
<1>2. IInv /\ [Next]_vars => IInv'
  BY NextInv
<1> QED BY <1>1, <1>2, PTL DEF Spec

-----------------------------------------------------------------------------
(* The units of the carts.                                                  *)

\* A unit of a cart, by its number.
Cells(rows, some) == {c \in some \X (1 .. MaxUnits) : c[2] <= rows[c[1]].units}
Count(rows, some) == Cardinality(Cells(rows, some))

LEMMA CellsFinite ==
  ASSUME CartAssumption, NEW rows \in [Carts -> CartRec], NEW some \in SUBSET Carts
  PROVE  IsFiniteSet(Cells(rows, some)) /\ Count(rows, some) \in Nat
<1>1. IsFiniteSet(some) /\ IsFiniteSet(1 .. MaxUnits)
  BY FS_Subset, FS_Interval DEF CartAssumption
<1>2. IsFiniteSet(some \X (1 .. MaxUnits))
  BY <1>1, FS_Product
<1>3. IsFiniteSet(Cells(rows, some))
  BY <1>2, FS_Subset DEF Cells
<1> QED BY <1>3, FS_CardinalityType DEF Count

LEMMA CountOne ==
  ASSUME CartAssumption, NEW rows \in [Carts -> CartRec], NEW x \in Carts
  PROVE  Count(rows, {x}) = rows[x].units
<1> DEFINE n == rows[x].units
           f == [i \in 1 .. n |-> <<x, i>>]
<1>1. n \in 0 .. MaxUnits /\ n \in Nat
  BY DEF CartRec, CartAssumption
<1> HIDE DEF n
<1>2. f \in Bijection(1 .. n, Cells(rows, {x}))
  <2>1. \A i \in 1 .. n : f[i] \in Cells(rows, {x})
    BY <1>1 DEF Cells, n, CartAssumption
  <2>2. \A c \in Cells(rows, {x}) : \E i \in 1 .. n : f[i] = c
    BY <1>1 DEF Cells, n
  <2>3. \A i, j \in 1 .. n : f[i] = f[j] => i = j
    OBVIOUS
  <2> QED BY <2>1, <2>2, <2>3 DEF Bijection, Injection, Surjection, IsInjective
<1>3. ExistsBijection(1 .. n, Cells(rows, {x}))
  BY <1>2 DEF ExistsBijection
<1> QED BY <1>1, <1>3, FS_CountingElements DEF Count, n

LEMMA CountSplit ==
  ASSUME CartAssumption, NEW rows \in [Carts -> CartRec], NEW S \in SUBSET Carts, NEW T \in SUBSET Carts,
         S \cap T = {}, NEW U, U = S \cup T
  PROVE  Count(rows, U) = Count(rows, S) + Count(rows, T)
<1>1. Cells(rows, U) = Cells(rows, S) \cup Cells(rows, T)
  BY DEF Cells
<1>2. Cells(rows, S) \cap Cells(rows, T) = {}
  BY DEF Cells
<1>3. IsFiniteSet(Cells(rows, S)) /\ IsFiniteSet(Cells(rows, T))
  BY CellsFinite
<1>4. Cardinality(Cells(rows, S) \cup Cells(rows, T)) =
        Cardinality(Cells(rows, S)) + Cardinality(Cells(rows, T)) - Cardinality({})
  BY <1>2, <1>3, FS_Union
<1>5. Count(rows, S) \in Nat /\ Count(rows, T) \in Nat
  BY CellsFinite
<1>6. Cardinality({}) = 0
  BY FS_EmptySet
<1>7. Count(rows, U) = Count(rows, S) + Count(rows, T) - 0
  BY <1>1, <1>4, <1>6 DEF Count
<1> QED BY <1>5, <1>7

LEMMA CountRest ==
  ASSUME CartAssumption, NEW rows \in [Carts -> CartRec], NEW S \in SUBSET Carts
  PROVE  Count(rows, Carts) = Count(rows, S) + Count(rows, Carts \ S)
<1>1. PICK T : T = Carts \ S
  OBVIOUS
<1>2. PICK U : U = S \cup T
  OBVIOUS
<1>3. T \in SUBSET Carts /\ S \cap T = {} /\ U = Carts
  BY <1>1, <1>2
<1>4. Count(rows, U) = Count(rows, S) + Count(rows, T)
  BY <1>2, <1>3, CountSplit
<1> QED BY <1>1, <1>3, <1>4

LEMMA CountSame ==
  ASSUME NEW rows, NEW after, NEW some,
         \A y \in some : after[y].units = rows[y].units
  PROVE  Count(after, some) = Count(rows, some)
BY DEF Count, Cells

LEMMA SumIsCount ==
  ASSUME CartAssumption, NEW rows \in [Carts -> CartRec], NEW some \in SUBSET Carts
  PROVE  UnitsIn(rows, some) = Count(rows, some)
<1> DEFINE Pick(s) == CHOOSE x \in s : TRUE
           iter[s \in SUBSET some] == IF s = {} THEN 0
              ELSE LET x == CHOOSE x \in s : TRUE IN rows[x].units + iter[s \ {x}]
           D(g) == g = [s \in SUBSET some |-> IF s = {} THEN 0
              ELSE LET x == CHOOSE x \in s : TRUE IN rows[x].units + g[s \ {x}]]
           count == [s \in SUBSET some |-> Count(rows, s)]
<1>1. Count(rows, {}) = 0
  <2>1. Cells(rows, {}) = {}
    BY DEF Cells
  <2> QED BY <2>1, FS_EmptySet DEF Count
<1>2. ASSUME NEW s \in SUBSET some, s # {}
      PROVE  /\ Pick(s) \in s /\ Pick(s) \in Carts
             /\ Count(rows, s) = rows[Pick(s)].units + Count(rows, s \ {Pick(s)})
  <2>1. PICK x : x = Pick(s)
    OBVIOUS
  <2>2. x \in s /\ x \in Carts
    BY <2>1, <1>2
  <2>3. s = {x} \cup (s \ {x}) /\ {x} \cap (s \ {x}) = {} /\ {x} \in SUBSET Carts /\ s \ {x} \in SUBSET Carts
    BY <2>2
  <2>4. Count(rows, s) = Count(rows, {x}) + Count(rows, s \ {x})
    BY <2>3, CountSplit
  <2> QED BY <2>1, <2>2, <2>4, CountOne
<1>3. D(count)
  <2>1. ASSUME NEW s \in SUBSET some, s # {}
        PROVE  count[s] = rows[Pick(s)].units + count[s \ {Pick(s)}]
    BY <1>2, <2>1
  <2>2. count[{}] = 0
    BY <1>1
  <2>3. count = [s \in SUBSET some |-> count[s]]
    OBVIOUS
  <2> HIDE DEF count
  <2> QED BY <2>1, <2>2, <2>3
<1>4. iter = CHOOSE g : D(g)
  OBVIOUS
<1>5. D(iter)
  <2> HIDE DEF D, iter
  <2> QED BY <1>3, <1>4
<1>6. UnitsIn(rows, some) = iter[some]
  BY DEF UnitsIn, MapThenSumSet, MapThenFoldSet
<1> HIDE DEF iter
<1>7. /\ iter[{}] = 0
      /\ \A s \in SUBSET some : s # {} => iter[s] = rows[Pick(s)].units + iter[s \ {Pick(s)}]
  BY <1>5
<1> DEFINE Bad == {s \in SUBSET some : iter[s] # Count(rows, s)}
<1>8. Bad = {}
  <2> SUFFICES ASSUME Bad # {} PROVE FALSE
    OBVIOUS
  <2>1. IsWellFoundedOn(StrictSubsetOrdering(some), SUBSET some)
    <3>1. IsFiniteSet(some)
      BY FS_Subset DEF CartAssumption
    <3>2. FiniteSubsetsOf(some) = SUBSET some
      BY <3>1, FS_FiniteSubsetsOfFinite
    <3> QED BY <3>2, FS_StrictSubsetOrderingWellFounded
  <2>2. \E s \in Bad : \A t \in Bad : ~(<<t, s>> \in StrictSubsetOrdering(some))
    BY <2>1, WFMin
  <2>3. PICK s \in Bad : \A t \in Bad : ~(<<t, s>> \in StrictSubsetOrdering(some))
    BY <2>2
  <2>4. s # {}
    BY <1>1, <1>7
  <2>5. s \ {Pick(s)} \notin Bad
    <3>1. Pick(s) \in s
      BY <1>2, <2>4
    <3>2. <<s \ {Pick(s)}, s>> \in StrictSubsetOrdering(some)
      BY <3>1 DEF StrictSubsetOrdering
    <3> QED BY <2>3, <3>2
  <2>6. iter[s \ {Pick(s)}] = Count(rows, s \ {Pick(s)})
    BY <2>5
  <2>7. s \in SUBSET some /\ iter[s] # Count(rows, s)
    OBVIOUS
  <2>8. Count(rows, s) = rows[Pick(s)].units + Count(rows, s \ {Pick(s)})
    BY <1>2, <2>4, <2>7
  <2>9. iter[s] = rows[Pick(s)].units + iter[s \ {Pick(s)}]
    BY <1>7, <2>4, <2>7
  <2> QED BY <2>6, <2>7, <2>8, <2>9
<1> QED BY <1>6, <1>8

\* A write of one cart moves the sum by what it does to that cart.
LEMMA SumWrite ==
  ASSUME CartAssumption, NEW rows \in [Carts -> CartRec], NEW after \in [Carts -> CartRec],
         NEW x \in Carts, \A y \in Carts : y # x => after[y].units = rows[y].units
  PROVE  UnitsIn(after, Carts) = UnitsIn(rows, Carts) - rows[x].units + after[x].units
<1> DEFINE rest == Carts \ {x}
<1>1. rest \in SUBSET Carts /\ Carts \in SUBSET Carts
  OBVIOUS
<1>2. Count(after, rest) = Count(rows, rest)
  BY CountSame
<1>3. /\ Count(rows, Carts) = rows[x].units + Count(rows, rest)
      /\ Count(after, Carts) = after[x].units + Count(after, rest)
  BY CountRest, CountOne
<1> HIDE DEF rest
<1>4. rows[x].units \in Nat /\ after[x].units \in Nat /\ Count(rows, rest) \in Nat
  BY <1>1, CellsFinite DEF CartRec, CartAssumption
<1>5. UnitsIn(rows, Carts) = Count(rows, Carts) /\ UnitsIn(after, Carts) = Count(after, Carts)
  BY <1>1, SumIsCount
<1> QED BY <1>2, <1>3, <1>4, <1>5

LEMMA SumSame ==
  ASSUME CartAssumption, NEW rows \in [Carts -> CartRec], NEW after \in [Carts -> CartRec],
         \A y \in Carts : after[y].units = rows[y].units
  PROVE  UnitsIn(after, Carts) = UnitsIn(rows, Carts)
BY SumIsCount, CountSame

\* What a merge moves from the donors, the target gets.
LEMMA SumMerge ==
  ASSUME CartAssumption, NEW rows \in [Carts -> CartRec], NEW after \in [Carts -> CartRec],
         NEW x \in Carts, NEW donors \in SUBSET (Carts \ {x}),
         after[x].units = rows[x].units + UnitsIn(rows, donors),
         \A y \in donors : after[y].units = 0,
         \A y \in Carts \ donors : y # x => after[y].units = rows[y].units
  PROVE  UnitsIn(after, Carts) = UnitsIn(rows, Carts)
<1> DEFINE both == donors \cup {x}
           rest == Carts \ both
<1>1. /\ donors \cap {x} = {}
      /\ both \in SUBSET Carts /\ rest \in SUBSET Carts /\ donors \in SUBSET Carts
      /\ {x} \in SUBSET Carts /\ Carts \in SUBSET Carts
  OBVIOUS
<1>2. Count(after, rest) = Count(rows, rest)
  BY CountSame
<1>3. Count(after, donors) = 0
  <2>1. Cells(after, donors) = {}
    BY DEF Cells
  <2> QED BY <2>1, FS_EmptySet DEF Count
<1>4. /\ Count(rows, both) = Count(rows, donors) + rows[x].units
      /\ Count(after, both) = Count(after, donors) + after[x].units
  <2>1. Count(rows, both) = Count(rows, donors) + Count(rows, {x})
    BY <1>1, CountSplit
  <2>2. Count(after, both) = Count(after, donors) + Count(after, {x})
    BY <1>1, CountSplit
  <2> HIDE DEF both
  <2> QED BY <2>1, <2>2, CountOne
<1> HIDE DEF both
<1>5. /\ Count(rows, Carts) = Count(rows, both) + Count(rows, rest)
      /\ Count(after, Carts) = Count(after, both) + Count(after, rest)
  BY <1>1, CountRest
<1> HIDE DEF rest
<1>6. /\ UnitsIn(rows, Carts) = Count(rows, Carts) /\ UnitsIn(after, Carts) = Count(after, Carts)
      /\ UnitsIn(rows, donors) = Count(rows, donors)
  BY <1>1, SumIsCount
<1>7. rows[x].units \in Nat /\ Count(rows, donors) \in Nat /\ Count(rows, rest) \in Nat
  <2>1. rows[x].units \in Nat
    BY DEF CartRec, CartAssumption
  <2>2. Count(rows, donors) \in Nat /\ Count(rows, rest) \in Nat
    BY <1>1, CellsFinite
  <2> QED BY <2>1, <2>2
<1> QED BY <1>2, <1>3, <1>4, <1>5, <1>6, <1>7

\* The writes that count units.
LEMMA CreateUnits ==
  ASSUME CartAssumption, IInv, IInv', UnitsConserved,
         NEW x \in Carts, NEW units \in 0 .. 1, NEW owned \in BOOLEAN, createCart(x, units, owned)
  PROVE  UnitsConserved'
<1> DEFINE row == [NoCart EXCEPT !.status = "active", !.owned = owned]
           r == IF units > 0 THEN applyLines(row, units) ELSE row
<1>1. cart' = [cart EXCEPT ![x] = r] /\ cart[x] = NoCart /\ net' = net + units
  BY DEF createCart
<1>2. r.units = units /\ NoCart.units = 0
  BY DEF applyLines, NoCart
<1> HIDE DEF r
<1>3. cart \in [Carts -> CartRec] /\ cart' \in [Carts -> CartRec] /\ net \in Int
  BY TypeParts DEF IInv
<1>4. cart'[x].units = units /\ cart[x].units = 0 /\ \A y \in Carts : y # x => cart'[y].units = cart[y].units
  BY <1>1, <1>2, <1>3
<1>5. UnitsIn(cart', Carts) = UnitsIn(cart, Carts) - 0 + units
  BY <1>3, <1>4, SumWrite
<1> QED BY <1>1, <1>3, <1>5 DEF UnitsConserved

LEMMA WriteUnits ==
  ASSUME CartAssumption, IInv, IInv', UnitsConserved, NEW x \in Carts, NEW r,
         cart' = [cart EXCEPT ![x] = r], net' = net + r.units - cart[x].units
  PROVE  UnitsConserved'
<1>1. cart \in [Carts -> CartRec] /\ cart' \in [Carts -> CartRec] /\ net \in Int
  BY TypeParts DEF IInv
<1>2. cart'[x] = r /\ \A y \in Carts : y # x => cart'[y].units = cart[y].units
  BY <1>1
<1>3. UnitsIn(cart', Carts) = UnitsIn(cart, Carts) - cart[x].units + r.units
  BY <1>1, <1>2, SumWrite
<1>4. cart[x].units \in Int /\ r.units \in Int
  BY <1>1, <1>2 DEF CartRec, CartAssumption
<1> QED BY <1>1, <1>3, <1>4 DEF UnitsConserved

LEMMA KeepUnits ==
  ASSUME CartAssumption, IInv, IInv', UnitsConserved, net' = net,
         \A y \in Carts : cart'[y].units = cart[y].units
  PROVE  UnitsConserved'
<1>1. cart \in [Carts -> CartRec] /\ cart' \in [Carts -> CartRec]
  BY TypeParts DEF IInv
<1> QED BY <1>1, SumSame DEF UnitsConserved

LEMMA MergeUnits ==
  ASSUME CartAssumption, IInv, IInv', UnitsConserved, NEW c \in Clients, mergeCommit(c)
  PROVE  UnitsConserved'
<1>1. PICK x \in Carts : x = client[c].cart
  BY InvParts DEF mergeCommit, IInv, ClientOK
<1>2. PICK donors : donors = mergeDonors(c)
  OBVIOUS
<1>3. donors \subseteq Carts \ {x}
  BY <1>1, <1>2, InvParts DEF mergeDonors, mergeCommit, IInv, ClientOK, ClientRec
<1>4. net' = net /\ (cart' = cart \/ cart' = mergeCarts(x, donors))
  BY <1>1, <1>2 DEF mergeCommit
<1>5. cart \in [Carts -> CartRec] /\ cart' \in [Carts -> CartRec]
  BY TypeParts DEF IInv
<1>6. CASE cart' = mergeCarts(x, donors)
  <2>1. ASSUME NEW y \in Carts
        PROVE  cart'[y] =
          CASE y = x -> [cart[x] EXCEPT !.units = @ + UnitsIn(cart, donors), !.owned = TRUE, !.rev = @ + 1]
            [] y \in donors -> [cart[y] EXCEPT !.units = 0, !.status = "merged", !.rev = @ + 1]
            [] OTHER -> cart[y]
    BY <1>6 DEF mergeCarts
  <2>2. cart'[x].units = cart[x].units + UnitsIn(cart, donors)
    <3>1. cart'[x] = [cart[x] EXCEPT !.units = @ + UnitsIn(cart, donors), !.owned = TRUE, !.rev = @ + 1]
      BY <1>3, <2>1
    <3>2. cart[x] \in CartRec
      BY <1>5
    <3> QED BY <3>1, <3>2 DEF CartRec
  <2>3. ASSUME NEW y \in donors PROVE cart'[y].units = 0
    <3>1. y \in Carts /\ y # x
      BY <1>3
    <3>2. cart'[y] = [cart[y] EXCEPT !.units = 0, !.status = "merged", !.rev = @ + 1]
      BY <2>1, <3>1
    <3>3. cart[y] \in CartRec
      BY <1>5, <3>1
    <3> QED BY <3>2, <3>3 DEF CartRec
  <2>4. \A y \in Carts \ donors : y # x => cart'[y].units = cart[y].units
    BY <2>1
  <2>5. UnitsIn(cart', Carts) = UnitsIn(cart, Carts)
    BY <1>3, <1>5, <2>2, <2>3, <2>4, SumMerge
  <2> QED BY <1>4, <2>5 DEF UnitsConserved
<1>7. CASE cart' = cart
  BY <1>4, <1>7, KeepUnits
<1> QED BY <1>4, <1>6, <1>7

\* No step loses or doubles a unit (applyLines, mergeCarts, the clean-up).
LEMMA UnitsStep ==
  ASSUME CartAssumption, IInv, IInv', UnitsConserved, [Next]_vars
  PROVE  UnitsConserved'
<1>1. cart \in [Carts -> CartRec] /\ net \in Int /\ \A x \in Carts : cart[x].units \in Nat
  BY TypeParts DEF IInv, CartRec, CartAssumption
<1>2. ASSUME NEW x \in Carts, appendLine(x) PROVE UnitsConserved'
  <2>1. applyLines(cart[x], cart[x].units + 1).units = cart[x].units + 1
    BY <1>1 DEF applyLines, CartRec
  <2>2. cart' = [cart EXCEPT ![x] = applyLines(cart[x], cart[x].units + 1)] /\ net' = net + 1
    BY <1>2 DEF appendLine
  <2>3. net' = net + (cart[x].units + 1) - cart[x].units
    BY <1>1, <2>2
  <2> QED BY <2>1, <2>2, <2>3, WriteUnits
<1>3. ASSUME NEW x \in Carts, cleanupExpiredCarts(x) PROVE UnitsConserved'
  <2>1. cart' = [cart EXCEPT ![x] = [NoCart EXCEPT !.status = "gone"]] /\ net' = net - cart[x].units
    BY <1>3 DEF cleanupExpiredCarts
  <2>2. [NoCart EXCEPT !.status = "gone"].units = 0
    BY DEF NoCart
  <2>3. net' = net + 0 - cart[x].units
    BY <1>1, <2>1
  <2> QED BY <2>1, <2>2, <2>3, WriteUnits
<1>4. ASSUME NEW c \in Clients, NEW units \in 0 .. MaxUnits, setLines(c, units) PROVE UnitsConserved'
  <2>1. PICK x \in Carts : x = client[c].cart
    BY <1>4, InvParts DEF setLines, ClientRec
  <2>2. cart' = [cart EXCEPT ![x] = applyLines(cart[x], units)] /\ net' = net + units - cart[x].units
    BY <1>4, <2>1 DEF setLines
  <2>3. applyLines(cart[x], units).units = units
    BY <1>1 DEF applyLines, CartRec
  <2> QED BY <2>2, <2>3, WriteUnits
<1>5. ASSUME net' = net, \A y \in Carts : cart'[y].units = cart[y].units PROVE UnitsConserved'
  BY <1>5, KeepUnits
<1>6. ASSUME NEW x \in Carts, abandonStaleCarts(x) PROVE UnitsConserved'
  <2>1. net' = net /\ \A y \in Carts : cart'[y].units = cart[y].units
    BY <1>1, <1>6 DEF abandonStaleCarts, CartRec
  <2> QED BY <2>1, <1>5
<1>7. ASSUME NEW c \in Clients, NEW account \in BOOLEAN, captureIdentity(c, account) PROVE UnitsConserved'
  <2>1. net' = net /\ \A y \in Carts : cart'[y].units = cart[y].units
    BY <1>1, <1>7 DEF captureIdentity, CartRec
  <2> QED BY <2>1, <1>5
<1>8. ASSUME NEW c \in Clients, NEW o \in Orders, NEW paid \in BOOLEAN, checkoutConvert(c, o, paid)
      PROVE  UnitsConserved'
  <2>1. net' = net /\ \A y \in Carts : cart'[y].units = cart[y].units
    BY <1>1, <1>8 DEF checkoutConvert, CartRec
  <2> QED BY <2>1, <1>5
<1>9. ASSUME NEW c \in Clients, reopenCommit(c) PROVE UnitsConserved'
  <2>1. net' = net /\ \A y \in Carts : cart'[y].units = cart[y].units
    <3>1. PICK x : x = client[c].cart
      OBVIOUS
    <3>2. net' = net /\ (cart' = cart \/
            cart' = [cart EXCEPT ![x].status = "active", ![x].order = None, ![x].rev = @ + 1])
      BY <1>9, <3>1 DEF reopenCommit
    <3>3. \A y \in Carts : cart[y] \in CartRec
      BY <1>1
    <3> QED BY <1>1, <3>2, <3>3 DEF CartRec
  <2> QED BY <2>1, <1>5
<1>10. ASSUME NEW o \in Orders, purgeOrder(o) PROVE UnitsConserved'
  <2>1. net' = net /\ \A y \in Carts : cart'[y].units = cart[y].units
    <3>1. \A y \in Carts : cart'[y] = cart[y] \/ cart'[y] = [cart[y] EXCEPT !.order = None]
      BY <1>10 DEF purgeOrder
    <3>2. \A y \in Carts : [cart[y] EXCEPT !.order = None].units = cart[y].units
      BY <1>1 DEF CartRec
    <3> QED BY <1>10, <3>1, <3>2 DEF purgeOrder
  <2> QED BY <2>1, <1>5
<1>11. ASSUME UNCHANGED <<cart, net>> PROVE UnitsConserved'
  BY <1>11, <1>5
<1>12. CASE CartStep
  BY <1>2, <1>3, <1>6, <1>12, CreateUnits DEF CartStep
<1>13. CASE ClientStep
  <2>1. PICK c \in Clients :
        \/ \E x \in Carts : readCart(c, x) \/ reopenRead(c, x)
        \/ \E units \in 0 .. MaxUnits : setLines(c, units)
        \/ \E account \in BOOLEAN : captureIdentity(c, account)
        \/ mergeRead(c) \/ mergeCommit(c)
        \/ \E k \in Keys : checkoutLookup(c, k)
        \/ checkoutResume(c) \/ checkoutRefuse(c)
        \/ \E o \in Orders, paid \in BOOLEAN : checkoutConvert(c, o, paid)
        \/ reopenCommit(c)
    BY <1>13 DEF ClientStep
  <2>2. ASSUME \/ \E x \in Carts : readCart(c, x) \/ reopenRead(c, x)
               \/ mergeRead(c) \/ (\E k \in Keys : checkoutLookup(c, k))
               \/ checkoutResume(c) \/ checkoutRefuse(c)
        PROVE  UNCHANGED <<cart, net>>
    BY <2>2 DEF readCart, reopenRead, mergeRead, checkoutLookup, checkoutResume, checkoutRefuse
  <2> QED BY <1>4, <1>7, <1>8, <1>9, <1>11, <2>1, <2>2, MergeUnits
<1>14. CASE OrderStep
  <2>1. PICK o \in Orders : startPayment(o) \/ (\E settled \in BOOLEAN : endPayment(o, settled))
                            \/ releaseStale(o) \/ trashAbandonedOrders(o) \/ purgeOrder(o)
    BY <1>14 DEF OrderStep
  <2>2. ASSUME ~purgeOrder(o) PROVE UNCHANGED <<cart, net>>
    BY <2>1, <2>2 DEF startPayment, endPayment, releaseStale, trashAbandonedOrders
  <2> QED BY <1>10, <1>11, <2>2
<1> QED BY <1>11, <1>12, <1>13, <1>14 DEF Next, vars

\* No cart has a unit at first.
LEMMA UnitsInit ==
  ASSUME CartAssumption, Init PROVE UnitsConserved
<1>1. cart \in [Carts -> CartRec]
  BY InitInv, TypeParts DEF IInv
<1>2. Cells(cart, Carts) = {}
  BY DEF Cells, Init, NoCart
<1>3. UnitsIn(cart, Carts) = 0
  BY <1>1, <1>2, SumIsCount, FS_EmptySet DEF Count
<1> QED BY <1>3 DEF UnitsConserved, Init

\* A cart has at most one live order and is converted to it, an order holds the
\* units its client was shown, no append, merge, conversion, reopen or clean-up
\* loses or doubles a unit, and an answered order is of the client's own cart
\* (checkout.ts, reopen): the revision a checkout sends and the status guards of
\* the conversion and the reopen are what the induction rests on.
THEOREM CheckoutAgrees ==
  ASSUME CartAssumption
  PROVE  Spec => [](TypeOK /\ CartsAndOrdersAgree)
<1>1. IInv /\ UnitsConserved => TypeOK /\ CartsAndOrdersAgree
  <2> SUFFICES ASSUME IInv, UnitsConserved PROVE TypeOK /\ CartsAndOrdersAgree
    OBVIOUS
  <2>1. OneLiveOrderPerCart
    BY DEF IInv, OrderOK, OneLiveOrderPerCart
  <2>2. OrderAsShown
    BY DEF IInv, OrderOK, OrderAsShown
  <2>3. AnswersFromOwnCart
    BY DEF IInv, ClientOK, AnswersFromOwnCart
  <2> QED BY <2>1, <2>2, <2>3 DEF IInv, CartsAndOrdersAgree
<1>2. Init => UnitsConserved
  BY UnitsInit
<1>3. IInv /\ IInv' /\ UnitsConserved /\ [Next]_vars => UnitsConserved'
  BY UnitsStep
<1> QED BY <1>1, <1>2, <1>3, Invariance, PTL DEF Spec

-----------------------------------------------------------------------------
(* What may happen to a converted cart.                                     *)

LEMMA CartStepsLeaveConverted ==
  ASSUME IInv, NEW x \in Carts, NEW y \in Carts, cart[y].status = "converted",
         \/ \E units \in 0 .. 1, owned \in BOOLEAN : createCart(x, units, owned)
         \/ appendLine(x) \/ abandonStaleCarts(x) \/ cleanupExpiredCarts(x)
  PROVE  cart'[y] = cart[y]
<1>1. cart[x].status # "converted"
  <2>1. cart[x] = NoCart \/ cart[x].status \in Live \cup {"merged"}
    BY DEF createCart, appendLine, abandonStaleCarts, cleanupExpiredCarts, mutationBlocker, Live
  <2>2. NoCart.status = "none"
    BY DEF NoCart, None
  <2> QED BY <2>1, <2>2 DEF Live
<1>2. cart \in [Carts -> CartRec] /\ y # x
  BY <1>1, InvParts
<1> QED BY <1>2 DEF createCart, appendLine, abandonStaleCarts, cleanupExpiredCarts

LEMMA TabsLeaveConverted ==
  ASSUME IInv, NEW c \in Clients, NEW y \in Carts, cart[y].status = "converted",
         \/ \E units \in 0 .. MaxUnits : setLines(c, units)
         \/ \E account \in BOOLEAN : captureIdentity(c, account)
         \/ \E o \in Orders, paid \in BOOLEAN : checkoutConvert(c, o, paid)
  PROVE  cart'[y] = cart[y]
<1>1. cart[client[c].cart].status # "converted"
  BY DEF setLines, captureIdentity, checkoutConvert, mutationBlocker, Live
<1>2. cart \in [Carts -> CartRec] /\ y # client[c].cart
  BY <1>1, InvParts
<1> QED BY <1>2 DEF setLines, captureIdentity, checkoutConvert

LEMMA MergeLeavesConverted ==
  ASSUME IInv, NEW c \in Clients, NEW y \in Carts, cart[y].status = "converted", mergeCommit(c)
  PROVE  cart'[y] = cart[y]
<1> DEFINE x == client[c].cart
           donors == mergeDonors(c)
<1>1. y \notin donors
  BY DEF mergeDonors, Foldable
<1>2. cart' = cart \/ (cart' = mergeCarts(x, donors) /\ cart[x].status \in Live)
  BY DEF mergeCommit, mutationBlocker
<1> HIDE DEF donors
<1>3. ASSUME cart' = mergeCarts(x, donors), cart[x].status \in Live PROVE cart'[y] = cart[y]
  <2>1. y # x
    BY <1>3 DEF Live
  <2> HIDE DEF x
  <2> QED BY <1>1, <1>3, <2>1 DEF mergeCarts
<1> QED BY <1>2, <1>3

LEMMA FrozenStep ==
  ASSUME CartAssumption, IInv, [Next]_vars
  PROVE  OnlyGivenBack
<1> SUFFICES ASSUME NEW y \in Carts, cart[y].status = "converted", cart'[y] # cart[y]
             PROVE  /\ cart'[y].units = cart[y].units /\ cart'[y].order = None
                    /\ order'[cart[y].order].state \in {"Cancelled", "purged"}
  BY DEF OnlyGivenBack
<1>1. ~ UNCHANGED cart
  OBVIOUS
<1>2. CASE CartStep
  BY <1>2, CartStepsLeaveConverted DEF CartStep
<1>3. CASE ClientStep
  <2>1. PICK c \in Clients : reopenCommit(c)
    BY <1>1, <1>3, TabsLeaveConverted, MergeLeavesConverted
       DEF ClientStep, readCart, reopenRead, mergeRead, checkoutLookup, checkoutResume, checkoutRefuse
  <2>2. client[c].pc = "reopen"
    BY <2>1 DEF reopenCommit
  <2>3. PICK x \in Carts, o \in Orders : x = client[c].cart /\ o = client[c].order
    BY <2>2 DEF IInv, ClientOK
  <2>4. /\ cart[x].order = o /\ \A z \in Carts : z # x => cart'[z] = cart[z]
        /\ cart'[x].order = None /\ cart'[x].units = cart[x].units /\ order'[o].state = "Cancelled"
    BY <1>1, <2>1, <2>2, <2>3, ReopenFacts
  <2> QED BY <2>4
<1>4. CASE OrderStep
  <2>1. PICK o \in Orders : purgeOrder(o)
    BY <1>1, <1>4 DEF OrderStep, startPayment, endPayment, releaseStale, trashAbandonedOrders
  <2>2. /\ cart[y] \in CartRec /\ order[o] \in OrderRec
        /\ order \in [Orders -> OrderRec]
    BY InvParts
  <2>3. cart[y].order = o /\ cart'[y] = [cart[y] EXCEPT !.order = None]
    BY <2>1 DEF purgeOrder
  <2>4. order'[o].state = "purged"
    BY <2>1, <2>2 DEF purgeOrder, OrderRec
  <2> QED BY <2>2, <2>3, <2>4 DEF CartRec
<1> QED BY <1>1, <1>2, <1>3, <1>4 DEF Next, vars

\* A converted cart is touched only by the reopen that finds or makes its order
\* cancelled and by the purge of that order, and neither changes its lines: every
\* other writer is turned away by mutationBlocker, by a merge's second look at
\* its donors, or by the status tests of the jobs.
THEOREM ConvertedIsFrozen ==
  ASSUME CartAssumption
  PROVE  Spec => ConvertedCartIsFrozen
<1>1. IInv /\ [Next]_vars => [OnlyGivenBack]_vars
  BY FrozenStep
<1> QED BY <1>1, Invariance, PTL DEF Spec, ConvertedCartIsFrozen
=============================================================================

----------------------------- MODULE ItemReports -----------------------------
(***************************************************************************)
(* FinanceService's reports of items, categories and stock.                *)
(***************************************************************************)
EXTENDS Statements

Category(c) == {i \in Item : CategoryOf[i] = c}

Abs(n) == Larger(n, -n)

\* Moves of the items I on the days D.
During(I, D) == {k \in DOMAIN moves : ItemOf(moves[k]) \in I /\ moves[k].day \in D}

\* What a set K of moves comes to, counted by `way`.
Total(K, way(_)) == MapThenSumSet(LAMBDA k : way(moves[k]), K)

Base(m) == m.base

-----------------------------------------------------------------------------
(* Stock. *)

\* getInventory as of the end of the day d.
StockAt(i, d) == Total(During({i}, 1..d), Base)

getStockSummaryData(d) ==
  [i \in Item |-> [qty |-> StockAt(i, d), value |-> UnitCost * Larger(0, StockAt(i, d))]]

\* Items below their least stock; the catalogue's is one unit.
getLowStockSummaryData ==
  {[item |-> i, shortfall |-> 1 - OnHand(i),
    status |-> IF OnHand(i) <= 0 THEN "OUT_OF_STOCK" ELSE "LOW"] : i \in {j \in Item : OnHand(j) < 1}}

\* By the items' rows, as the categories' are.
getStockSummaryByItemData ==
  [i \in Item |-> [qty |-> currentStock[i], value |-> UnitCost * currentStock[i], margin |-> (Price - UnitCost) * currentStock[i],
                   status |-> IF currentStock[i] <= 1 THEN "LOW_STOCK" ELSE "ADEQUATE"]]

getStockByCategoryData(c) ==
  LET qty == MapThenSumSet(LAMBDA i : currentStock[i], Category(c))
  IN [count |-> Cardinality(Category(c)), qty |-> qty, value |-> UnitCost * qty]

\* getStockMovementDirection: by the type of the move, an adjustment by its sign.
InTypes == {"PURCHASE_IN", "PRODUCTION_IN", "TRANSFER_IN", "RECALL_RETURN_IN", "RETURN_QUARANTINE_IN", "SALES_RETURN_IN"}

getStockMovementDirection(m) ==
  IF m.type \in InTypes \/ (m.type = "ADJUSTMENT" /\ m.qty >= 0) THEN "IN" ELSE "OUT"

\* Quantities in the unit of the transaction; the range stops at midnight.
getStockDetailData(i, D) ==
  LET Inward(m)  == IF getStockMovementDirection(m) = "IN" THEN Abs(m.qty) ELSE 0
      Outward(m) == IF getStockMovementDirection(m) = "OUT" THEN Abs(m.qty) ELSE 0
      opening    == Total(During({i}, Earlier(D)), Inward) - Total(During({i}, Earlier(D)), Outward)
      in         == Total(During({i}, ToMidnight(D)), Inward)
      out        == Total(During({i}, ToMidnight(D)), Outward)
  IN [opening |-> opening, in |-> in, out |-> out, closing |-> opening + in - out]

\* What a move before the range adds to the opening: every type has its sign, and goods
\* returned into quarantine a negative one.
Opens(m) ==
  CASE m.type \in {"PURCHASE_IN", "PRODUCTION_IN", "TRANSFER_IN", "RECALL_RETURN_IN"} -> Abs(m.qty)
    [] m.type \in {"SALES_OUT", "PRODUCTION_OUT", "WASTE_OUT", "TRANSFER_OUT", "RETURN_OUT",
                   "RETURN_QUARANTINE_IN"} -> -Abs(m.qty)
    [] OTHER -> m.qty

\* What a move in the range adds: only purchases and sales have a sign of their own.
Adds(m) ==
  CASE m.type = "SALES_OUT" -> -Abs(m.qty) [] m.type = "PURCHASE_IN" -> Abs(m.qty) [] OTHER -> m.qty

getItemDetailData(i, D) ==
  LET opening == Total(During({i}, Earlier(D)), Opens)
  IN [opening |-> opening, closing |-> opening + Total(During({i}, D), Adds)]

\* By the sign of the quantity, whatever the type; the range stops at midnight.
getInventoryLedgerReportData(i, D) ==
  [in  |-> Total(During({i}, ToMidnight(D)), LAMBDA m : Larger(0, m.qty)),
   out |-> Total(During({i}, ToMidnight(D)), LAMBDA m : Larger(0, -m.qty))]

\* InventoryService.getInventoryLedger: every movement, by what it counts as stock, with
\* the balance after it.
getInventoryLedger(i) ==
  FoldLeft(LAMBDA rows, m :
             IF ItemOf(m) # i THEN rows
             ELSE Append(rows, [in |-> Larger(0, m.base), out |-> Larger(0, -m.base),
                                balance |-> m.base + IF rows = <<>> THEN 0 ELSE Last(rows).balance]),
           <<>>, moves)

\* getRawMaterialConsumption: what was used, wasted or found missing.
getRawMaterialConsumption(i, D) ==
  Total({k \in During({i}, D) : moves[k].type \in {"PRODUCTION_OUT", "WASTE_OUT", "ADJUSTMENT"} /\ moves[k].qty < 0},
        LAMBDA m : Abs(m.base))

-----------------------------------------------------------------------------
(* Sales and purchases of an item and of a category. *)

\* OrderItem.totalAmount: createInvoice adds the tax, the counter does not.
LineTotal(o) == IF order[o].type = "TAX_INVOICE" THEN Price * lines[o] ELSE WithTax(order[o].net)

Lines(o)   == lines[o]
Sells(I)   == {o \in Order : Sold[o].item \in I}
SellsIn(c) == {o \in Order : Sold[o].category = c}

\* Accepted receipts, of orders not cancelled, by the day of the order.
Accepted(I, D) ==
  {b \in Bill : bill[b].st \in {"received", "billed"} /\ ~bill[b].void /\ bill[b].po \in D /\ bill[b].item \in I}
Units(b) == bill[b].units

\* The sales of the orders S in D beside the receipts of the items I.
SalePurchase(S, I, D) ==
  [saleQty |-> MapThenSumSet(Lines, FinalSales(D) \cap S), sale |-> MapThenSumSet(LineTotal, FinalSales(D) \cap S),
   purchaseQty |-> MapThenSumSet(Units, Accepted(I, D)), purchase |-> MapThenSumSet(Billed, Accepted(I, D))]

getSalePurchaseByItemData(i, D) == SalePurchase(Sells({i}), {i}, D)

\* A sale has its product's category, a receipt the stocked item's.
getSalePurchaseByCategoryData(c, D) == SalePurchase(SellsIn(c), Category(c), D)

\* By party: charged less the line's own discount, and bills of any order.
getPartyReportByItem(i, D) ==
  LET billed == {b \in Bill : bill[b].st = "billed" /\ bill[b].date \in D /\ bill[b].item = i}
  IN [saleQty |-> MapThenSumSet(Lines, FinalSales(D) \cap Sells({i})),
      sale |-> MapThenSumSet(LAMBDA o : Price * lines[o], FinalSales(D) \cap Sells({i})),
      purchaseQty |-> MapThenSumSet(Units, billed), purchase |-> MapThenSumSet(Billed, billed)]

getDiscountReportData(D) ==
  LET cut == {o \in Completed(D) : order[o].disc > 0}
  IN [original |-> MapThenSumSet(LAMBDA o : Gross(o) + order[o].disc, cut),
      discount |-> MapThenSumSet(LAMBDA o : order[o].disc, cut), final |-> MapThenSumSet(Gross, cut)]

\* An order's discount, spread over its lines; only completed returns are taken off.
getItemDiscountReportData(i, D) ==
  LET sold == FinalSales(D) \cap Sells({i})
      back == {r \in Return : ret[r].st = "COMPLETED" /\ ret[r].day \in D /\ Sold[ret[r].of].item = i}
      Gone(r) == IF sold = {} THEN 0 ELSE Noted(r)
  IN [sales |-> Larger(0, After(sold, LAMBDA o : Price * lines[o], back, Gone)),
      discount |-> MapThenSumSet(LAMBDA o : order[o].disc, sold)]

-----------------------------------------------------------------------------
(* Profit of an item and of a category. *)

\* What an item was worth by the moves of the days D.
WorthOf(i, D) == UnitCost * Larger(0, Total(During({i}, D), Base))

\* Lines of orders not cancelled, those still open among them, less returns not rejected.
NetRevenue(i, D) ==
  After(Ordered(D) \cap Sells({i}), LineTotal,
        {r \in Return : ret[r].st # "REJECTED" /\ ret[r].day \in D /\ Sold[ret[r].of].item = i},
        LAMBDA r : WithTax(Noted(r)))

\* Goods received in D, less what was sent back.
Kept(i, D) ==
  After(Accepted({i}, D), Billed, {b \in Bill : bill[b].back > 0 /\ bill[b].backDay \in D /\ bill[b].item = i}, SentBack)

\* What was had or bought, and is not had any more; what was bought, if nothing is missing.
CostOfItem(i, D) ==
  LET used == WorthOf(i, Earlier(D)) + Kept(i, D) - WorthOf(i, Earlier(D) \cup D)
  IN IF Accepted({i}, D) = {} /\ WorthOf(i, Earlier(D)) = 0 THEN 0
     ELSE IF used > 0 THEN used ELSE Larger(0, Kept(i, D))

getItemWiseProfitLoss(i, D) ==
  [revenue |-> MapThenSumSet(LineTotal, Ordered(D) \cap Sells({i})), opening |-> WorthOf(i, Earlier(D)), closing |-> WorthOf(i, Earlier(D) \cup D),
   cost |-> CostOfItem(i, D), netProfitLoss |-> NetRevenue(i, D) - CostOfItem(i, D)]

getItemCategoryWiseProfitLoss(c, D) ==
  LET sold == Completed(D) \cap SellsIn(c)
  IN [quantity |-> MapThenSumSet(Lines, sold), revenue |-> MapThenSumSet(LAMBDA o : Price * lines[o], sold),
      profit |-> MapThenSumSet(LAMBDA o : Price * lines[o] - Cost(o), sold)]
=============================================================================

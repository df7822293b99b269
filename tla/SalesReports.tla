---------------------------- MODULE SalesReports ----------------------------
(***************************************************************************)
(* FinanceService's two reports of sales orders, what they count: one      *)
(* reads the orders, the other their lines.  Money is left out: an order's *)
(* total is not the sum of its lines.  And how far a sale invoice is       *)
(* fulfilled, in the list and on its page.                                 *)
(***************************************************************************)
EXTENDS SalesChain, Dispatch

\* How many orders are in one of the statuses S.
OrdersIn(S) == Cardinality({so \in SO : status[so] \in S})

Live == OrderStatus \ {"CANCELLED"}
Open == {"CONFIRMED", "PROCESSING", "SHIPPED", "PENDING"}

getSaleOrdersReportData ==
  [orders |-> OrdersIn(OrderStatus), draft |-> OrdersIn({"DRAFT"}), delivered |-> OrdersIn({"DELIVERED"}),
   cancelled |-> OrdersIn({"CANCELLED"}), open |-> OrdersIn(Open)]

\* How many lines the orders in one of the statuses S have: each version of an order's
\* lines is one line.
LinesIn(S) == SumOf([so \in SO |-> Cardinality(lines[so])], {so \in SO : status[so] \in S})

\* Quantities are those of the orders that are not cancelled; lines are of all.
getSaleOrderItemsReportData == [quantity |-> Units * LinesIn(Live), lines |-> LinesIn(OrderStatus)]

\* The list: what the invoice is marked as, else whether any challan of it has posted.
getInvoices(i) ==
  IF inventory_deducted(i) THEN "FULFILLED"
  ELSE IF \E c \in Active(i) : Posted(c) THEN "PARTIALLY_FULFILLED" ELSE "PENDING"

\* The page: what is left of the lines, after what challans have posted.
getInvoiceById(i) ==
  LET left == Pending(i, None)
  IN IF left <= 0 THEN "FULFILLED" ELSE IF left < Units THEN "PARTIALLY_FULFILLED" ELSE "PENDING"

=============================================================================

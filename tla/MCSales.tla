------------------------------ MODULE MCSales -------------------------------
(***************************************************************************)
(* A small instance of Sales: two documents of each kind, invoices of two  *)
(* units, two requests in flight.  Each mix is a family of requests that   *)
(* contend for the same rows; the last one crosses the modules.            *)
(***************************************************************************)
EXTENDS Sales, TLC

CONSTANTS q1, s1, s2, p1, p2, i1, i2, c1, c2, d1, d2, r1, r2

OneOrTwo == {1, 2}

Mix(invoice, returns, ops) == [invoice |-> invoice, returns |-> returns, ops |-> ops]

\* Estimates and what they become; orders; proformas.
Chain ==
  {Mix(None, {}, {"createQuotation", "updateQuotation", "deleteQuotation", "quotationToOrder",
                  "quotationToSale", "updateOrder", "orderToSale"}),
   Mix(None, {}, {"createOrder", "updateOrder", "orderToSale", "orderToProforma", "updateProforma",
                  "proformaStatus", "proformaToInvoice"}),
   Mix(None, {}, {"createProforma", "updateProforma", "proformaStatus", "proformaToInvoice",
                  "proformaToOrder"}),
   Mix(None, {}, {"createProforma", "proformaToOrder", "updateOrder", "orderToProforma"})}

\* Challans of a deferred invoice that was there, and direct ones.
Challans ==
  {Mix(i1, {}, {"createChallan", "editChallan", "challanStatus", "reconcile"}),
   Mix(i1, {}, {"createChallan", "challanStatus", "deleteChallan", "cancelInvoice"}),
   Mix(i1, {}, {"createChallan", "challanStatus", "deliver"}),
   Mix(i1, {}, {"createChallan", "deliver", "raiseReturn", "receive"}),
   Mix(None, {}, {"createChallan", "deliver", "raiseReturn", "convertChallan"})}

\* Returns of an invoice that was there.
Returns ==
  {Mix(i1, {r1, r2}, {"createReturn", "updateReturn"}),
   Mix(i1, {r1, r2}, {"collect", "createReturn", "refund"}),
   Mix(i1, {r1}, {"collect", "createReturn", "updateReturn", "refund"})}

\* An estimate's sale, issued when it was made, with challans.
Across ==
  {Mix(None, {}, {"createQuotation", "quotationToSale", "createChallan", "challanStatus"})}

AllMixes == Chain \cup Challans \cup Returns \cup Across

Perms == Permutations(Worker)
=============================================================================

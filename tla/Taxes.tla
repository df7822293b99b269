-------------------------------- MODULE Taxes --------------------------------
(***************************************************************************)
(* FinanceService's GST reports: sums over rows that the counter and the   *)
(* cash book write.  A report is asked for a range D of days; a row counts  *)
(* on the day of the column that the report filters on.                    *)
(***************************************************************************)
EXTENDS Counter, CashBook

Larger(m, n) == IF m >= n THEN m ELSE n
Lesser(m, n) == IF m <= n THEN m ELSE n

\* finalSaleWhere: a tax invoice is final when issued, any other order when completed.
FinalSale(o) ==
  \/ order[o].type = "TAX_INVOICE" /\ order[o].st \notin {"none", "CANCELLED"}
  \/ order[o].type # "TAX_INVOICE" /\ order[o].st \in {"COMPLETED", "REFUNDED"}

FinalSales(D) == {o \in Order : FinalSale(o) /\ order[o].day \in D}
Ordered(D)    == {o \in Order : order[o].st \notin {"none", "CANCELLED"} /\ order[o].day \in D}

\* Returns' credit notes, on the day the return was raised.
CreditNotes(D) == {r \in Return : ret[r].st \in {"APPROVED", "COMPLETED"} /\ ret[r].day \in D}

\* buildBillDateFilter: bills on the date they carry, of orders not cancelled.
Bills(D) == {b \in Bill : bill[b].st = "billed" /\ ~bill[b].void /\ bill[b].date \in D}

\* Completed purchase returns, on the day they were made.
DebitNotes(D) == {b \in Bill : bill[b].back > 0 /\ bill[b].backDay \in D}

Net(o)     == order[o].net
TaxOf(o)   == Tax(order[o].net)
Noted(r)   == ret[r].net
Billed(b)  == bill[b].amt
SentBack(b) == bill[b].back

\* What is left of a sum over rows S after the notes N are taken off.
After(S, val(_), N, note(_)) == MapThenSumSet(val, S) - MapThenSumSet(note, N)

-----------------------------------------------------------------------------
(* The tax, split between the state and the union. *)

TaxHead == {"cgst", "sgst", "igst"}

\* splitGstAmount: between states the tax is IGST, within one half CGST, the rest SGST.
splitGstAmount(tax, inter) ==
  [cgst |-> IF inter THEN 0 ELSE tax \div 2,
   sgst |-> IF inter THEN 0 ELSE tax - tax \div 2,
   igst |-> IF inter THEN tax ELSE 0]

OrderTax(h, o) == splitGstAmount(TaxOf(o), order[o].inter)[h]
LinesTax(h, o) == splitGstAmount(lineTax[o], order[o].inter)[h]
NoteTax(h, r)  == splitGstAmount(Tax(Noted(r)), order[ret[r].of].inter)[h]
BillTax(h, b)  == splitGstAmount(Tax(Billed(b)), bill[b].inter)[h]
BackTax(h, b)  == splitGstAmount(Tax(SentBack(b)), bill[b].inter)[h]

Output(D) == [h \in TaxHead |-> After(FinalSales(D), LAMBDA o : OrderTax(h, o), CreditNotes(D), LAMBDA r : NoteTax(h, r))]
Input(D)  == [h \in TaxHead |-> After(Bills(D), LAMBDA b : BillTax(h, b), DebitNotes(D), LAMBDA b : BackTax(h, b))]

Heads(f) == f["cgst"] + f["sgst"] + f["igst"]

\* Mutant of Offset: CGST credit also pays SGST.
OffsetCrossed == << <<"igst", "igst">>, <<"igst", "cgst">>, <<"igst", "sgst">>,
                    <<"cgst", "cgst">>, <<"cgst", "sgst">>, <<"sgst", "sgst">>, <<"sgst", "igst">> >>

\* The order in which the credit of one head pays the liability of another.
Offset == << <<"igst", "igst">>, <<"igst", "cgst">>, <<"igst", "sgst">>,
             <<"cgst", "cgst">>, <<"cgst", "igst">>, <<"sgst", "sgst">>, <<"sgst", "igst">> >>

\* computeGstUtilization: what is left of each liability and of each credit.
computeGstUtilization(out, in) ==
  LET Use(s, p) == LET used == Lesser(s.itc[p[1]], s.liab[p[2]])
                   IN [liab |-> [s.liab EXCEPT ![p[2]] = @ - used], itc |-> [s.itc EXCEPT ![p[1]] = @ - used]]
      Floored(f) == [h \in TaxHead |-> Larger(0, f[h])]
  IN FoldLeft(Use, [liab |-> Floored(out), itc |-> Floored(in)], Offset)

-----------------------------------------------------------------------------
(* The returns that are filed. *)

\* Mutant of getGSTR1Data: a refunded sale stays in the total.
getGSTR1Refunded(D) ==
  [taxable |-> After(FinalSales(D), Net, CreditNotes(D), Noted),
   tax     |-> After(FinalSales(D), TaxOf, CreditNotes(D), LAMBDA r : Tax(Noted(r)))]

\* A refunded sale is listed, and not in the total.
getGSTR1Data(D) ==
  LET sale == {o \in FinalSales(D) : order[o].st # "REFUNDED"}
  IN [taxable |-> After(sale, Net, CreditNotes(D), Noted),
      tax     |-> After(sale, TaxOf, CreditNotes(D), LAMBDA r : Tax(Noted(r)))]

getGSTR2Data(D) ==
  [taxable |-> After(Bills(D), Billed, DebitNotes(D), SentBack),
   tax     |-> After(Bills(D), LAMBDA b : Tax(Billed(b)), DebitNotes(D), LAMBDA b : Tax(SentBack(b)))]

getGSTR3BData(D) ==
  [taxable |-> After(FinalSales(D), Net, CreditNotes(D), Noted),
   tax     |-> After(FinalSales(D), TaxOf, CreditNotes(D), LAMBDA r : Tax(Noted(r))),
   input   |-> Heads(Input(D)),
   payable |-> Heads(computeGstUtilization(Output(D), Input(D)).liab)]

\* Sales to registered parties and the others' apart, then the notes; the year is
\* the whole of Day.
getGSTR9Data ==
  LET b2b   == {o \in FinalSales(Day) : order[o].party = "CUSTOMER"}
      b2c   == FinalSales(Day) \ b2b
      total == [h \in TaxHead |-> MapThenSumSet(LAMBDA o : OrderTax(h, o), b2b)
                               + After(b2c, LAMBDA o : OrderTax(h, o), CreditNotes(Day), LAMBDA r : NoteTax(h, r))]
  IN [taxable |-> MapThenSumSet(Net, b2b) + After(b2c, Net, CreditNotes(Day), Noted),
      tax     |-> Heads(total),
      itc     |-> After(Bills(Day), Billed, DebitNotes(Day), SentBack),
      input   |-> Heads(Input(Day)),
      payable |-> Heads(computeGstUtilization(total, Input(Day)).liab)]

-----------------------------------------------------------------------------
(* Summaries. *)

\* By rate, the goods having one: sales and bills before any note.
getGstRateReportData(D) ==
  LET taxed == {o \in FinalSales(D) : Net(o) > 0}
      bills == {b \in Bills(D) : Billed(b) > 0}
  IN [sale |-> MapThenSumSet(Net, taxed), in |-> MapThenSumSet(TaxOf, taxed),
      purchase |-> MapThenSumSet(Billed, bills), out |-> MapThenSumSet(LAMBDA b : Tax(Billed(b)), bills)]

Completed(D) == {o \in Order : order[o].st = "COMPLETED" /\ order[o].day \in D}

\* By party: the tax of completed sales, and of purchase orders by the day they were made.
getGstReportData(D) ==
  [in |-> MapThenSumSet(TaxOf, Completed(D)),
   out |-> MapThenSumSet(LAMBDA b : Tax(Billed(b)), {b \in Bill : bill[b].st # "none" /\ ~bill[b].void /\ bill[b].po \in D})]

\* One per cent of what completed sales total; as paid it shows the total.
TcsBase(D) == MapThenSumSet(Gross, Completed(D))
getTcsReceivableData(D) == [value |-> TcsBase(D), paid |-> TcsBase(D), tcs |-> TcsBase(D) \div 100]
getForm27eqData(D)      == [value |-> TcsBase(D), received |-> TcsBase(D), tcs |-> TcsBase(D) \div 100]

\* Goods by HSN: what was charged, less the order's discount, the tax on its lines, and
\* the units.
getHsnSummaryData(D) ==
  LET goods == {o \in FinalSales(D) : ~Sold[o].service}
  IN [taxable |-> MapThenSumSet(LAMBDA o : Larger(0, Price * lines[o] - order[o].disc), goods),
      tax     |-> [h \in TaxHead |-> MapThenSumSet(LAMBDA o : LinesTax(h, o), goods)],
      units   |-> MapThenSumSet(LAMBDA o : lines[o], goods)]

\* Services by SAC: the discount is not looked at.
getSacReportData(D) ==
  LET services == {o \in FinalSales(D) : Sold[o].service}
  IN [taxable |-> MapThenSumSet(LAMBDA o : Price * lines[o], services),
      tax     |-> [h \in TaxHead |-> MapThenSumSet(LAMBDA o : LinesTax(h, o), services)]]
=============================================================================

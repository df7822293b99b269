------------------------- MODULE VendorLedgerProofs -------------------------
(***************************************************************************)
(* Proofs about VendorLedger and VendorViews, for any orders, keys, ledger *)
(* rows and requests in flight.                                            *)
(*                                                                         *)
(* The ledger is a sequence into which entries are put at its end, in the  *)
(* middle or at its beginning, and from which one may be taken.  The first *)
(* part says how the rows, their uniqueness and their sums move with one   *)
(* entry, whatever its place; the second, what a request may rely on.      *)
(***************************************************************************)
EXTENDS VendorViews, SumLemmas, SequenceTheorems

USE VendorAssumption

-----------------------------------------------------------------------------
(* Sequences with one entry more. *)

RowType == [type : LedgerType, amount : Nat, bal : Int, kind : Kind, ref : Po \cup Key \cup {None}]

\* The sequence ts is rs with e put in at place i.
Inserted(ts, rs, i, e) ==
  /\ ts \in Seq(RowType) /\ rs \in Seq(RowType) /\ e \in RowType
  /\ i \in 1..(Len(rs) + 1) /\ Len(ts) = Len(rs) + 1 /\ ts[i] = e
  /\ \A j \in 1..Len(rs) : ts[IF j < i THEN j ELSE j + 1] = rs[j]

\* Append.
LEMMA AppendInserts ==
  ASSUME NEW s \in Seq(RowType), NEW e \in RowType
  PROVE  Inserted(Append(s, e), s, Len(s) + 1, e)
<1>1. Len(s) \in Nat /\ Append(s, e) \in Seq(RowType) /\ Len(Append(s, e)) = Len(s) + 1
  BY LenProperties, AppendProperties
<1>2. Append(s, e)[Len(s) + 1] = e /\ \A j \in 1..Len(s) : Append(s, e)[j] = s[j]
  BY AppendProperties
<1> QED
  BY <1>1, <1>2 DEF Inserted

\* InsertAt, of a sequence of entries.
LEMMA InsertAtInserts ==
  ASSUME NEW s \in Seq(RowType), NEW e \in RowType, NEW i \in 1..(Len(s) + 1)
  PROVE  Inserted(InsertAt(s, i, e), s, i, e)
<1> DEFINE a == SubSeq(s, 1, i - 1)
           b == SubSeq(s, i, Len(s))
           n == Len(s)
<1>1. n \in Nat /\ i \in Int /\ \A j \in 1..n : s[j] \in RowType
  BY LenProperties, ElementOfSeq
<1>2. a \in Seq(RowType) /\ Len(a) = i - 1 /\ \A j \in 1..(i - 1) : a[j] = s[j]
  <2>1. 1 \in Int /\ i - 1 \in Int /\ \A j \in 1..(i - 1) : s[j] \in RowType
    BY <1>1
  <2> QED
    BY <2>1, <1>1, SubSeqProperties
<1>3. b \in Seq(RowType) /\ Len(b) = n - i + 1 /\ \A j \in 1..(n - i + 1) : b[j] = s[i + j - 1]
  <2>1. n \in Int /\ i \in Int /\ \A j \in i..n : s[j] \in RowType
    BY <1>1
  <2>2. i <= n + 1
    OBVIOUS
  <2> HIDE DEF n
  <2>3. /\ SubSeq(s, i, n) \in Seq(RowType) /\ Len(SubSeq(s, i, n)) = IF i <= n THEN n - i + 1 ELSE 0
        /\ \A j \in 1..(n - i + 1) : SubSeq(s, i, n)[j] = s[i + j - 1]
    BY ONLY <2>1, SubSeqProperties
  <2>4. b = SubSeq(s, i, n)
    BY DEF n
  <2> HIDE DEF b
  <2> QED
    BY ONLY <2>1, <2>2, <2>3, <2>4
<1>4. <<e>> \in Seq(RowType) /\ Len(<<e>>) = 1 /\ <<e>>[1] = e
  OBVIOUS
<1> HIDE DEF a, b
<1>5. /\ a \o <<e>> \in Seq(RowType) /\ Len(a \o <<e>>) = i
      /\ (a \o <<e>>)[i] = e /\ \A j \in 1..(i - 1) : (a \o <<e>>)[j] = s[j]
  <2>1. /\ a \o <<e>> \in Seq(RowType) /\ Len(a \o <<e>>) = Len(a) + Len(<<e>>)
        /\ \A j \in 1..(Len(a) + Len(<<e>>)) :
             (a \o <<e>>)[j] = IF j <= Len(a) THEN a[j] ELSE <<e>>[j - Len(a)]
    <3>1. a \in Seq(RowType) /\ <<e>> \in Seq(RowType)
      BY <1>2, <1>4
    <3> QED
      BY ONLY <3>1, ConcatProperties
  <2> DEFINE d == a \o <<e>>
             u == <<e>>
  <2> HIDE DEF d, u
  <2>2. /\ d \in Seq(RowType) /\ Len(d) = i
        /\ \A j \in 1..i : d[j] = IF j <= i - 1 THEN a[j] ELSE u[j - (i - 1)]
    BY <1>1, <1>2, <1>4, <2>1 DEF d, u
  <2>3. d[i] = e /\ \A j \in 1..(i - 1) : d[j] = s[j]
    <3>1. d[i] = u[i - (i - 1)] /\ i - (i - 1) = 1 /\ u[1] = e
      BY <1>1, <1>4, <2>2 DEF u
    <3>2. \A j \in 1..(i - 1) : d[j] = a[j]
      BY <1>1, <2>2
    <3> QED
      BY <1>2, <3>1, <3>2
  <2> QED
    BY <2>2, <2>3 DEF d
<1> DEFINE c == a \o <<e>>
<1> HIDE DEF c
<1>6. /\ c \o b \in Seq(RowType) /\ Len(c \o b) = n + 1
      /\ \A j \in 1..(n + 1) : (c \o b)[j] = IF j <= i THEN c[j] ELSE b[j - i]
  <2>1. c \in Seq(RowType) /\ Len(c) = i
    BY <1>5 DEF c
  <2>3. b \in Seq(RowType)
    BY <1>3
  <2>2. /\ c \o b \in Seq(RowType) /\ Len(c \o b) = Len(c) + Len(b)
        /\ \A j \in 1..(Len(c) + Len(b)) : (c \o b)[j] = IF j <= Len(c) THEN c[j] ELSE b[j - Len(c)]
    BY ONLY <2>1, <2>3, ConcatProperties
  <2> QED
    BY <1>1, <1>3, <2>1, <2>2
<1>7. InsertAt(s, i, e) = c \o b
  BY DEF InsertAt, a, b, c
<1>8. ASSUME NEW j \in 1..n PROVE (c \o b)[IF j < i THEN j ELSE j + 1] = s[j]
  <2>1. CASE j < i
    BY <1>1, <1>5, <1>6, <2>1 DEF c
  <2>2. CASE ~ (j < i)
    <3>1. (c \o b)[j + 1] = b[j + 1 - i]
      BY <1>1, <1>6, <2>2
    <3>2. b[j + 1 - i] = s[j]
      <4>1. j + 1 - i \in 1..(n - i + 1) /\ i + (j + 1 - i) - 1 = j
        BY <1>1, <2>2
      <4> QED
        BY <1>3, <4>1
    <3> QED
      BY <2>2, <3>1, <3>2
  <2> QED
    BY <2>1, <2>2
<1>9. (c \o b)[i] = e
  BY <1>1, <1>5, <1>6 DEF c
<1> QED
  BY <1>1, <1>6, <1>7, <1>8, <1>9 DEF Inserted

\* RemoveAt: the sequence is what is left with the entry put back.
LEMMA RemoveAtInserts ==
  ASSUME NEW s \in Seq(RowType), NEW i \in 1..Len(s)
  PROVE  Inserted(s, RemoveAt(s, i), i, s[i])
<1> DEFINE a == SubSeq(s, 1, i - 1)
           b == SubSeq(s, i + 1, Len(s))
           n == Len(s)
<1>1. n \in Nat /\ i \in Int /\ \A j \in 1..n : s[j] \in RowType
  BY LenProperties, ElementOfSeq
<1>2. a \in Seq(RowType) /\ Len(a) = i - 1 /\ \A j \in 1..(i - 1) : a[j] = s[j]
  <2>1. 1 \in Int /\ i - 1 \in Int /\ \A j \in 1..(i - 1) : s[j] \in RowType
    BY <1>1
  <2> QED
    BY <2>1, <1>1, SubSeqProperties
<1>3. b \in Seq(RowType) /\ Len(b) = n - i /\ \A j \in 1..(n - i) : b[j] = s[i + j]
  <2>1. n \in Int /\ i + 1 \in Int /\ \A j \in (i + 1)..n : s[j] \in RowType
    BY <1>1
  <2> QED
    BY <2>1, <1>1, SubSeqProperties
<1> HIDE DEF a, b
<1>4. /\ a \o b \in Seq(RowType) /\ Len(a \o b) = n - 1
      /\ \A j \in 1..(n - 1) : (a \o b)[j] = IF j < i THEN s[j] ELSE s[j + 1]
  <2>1. /\ a \o b \in Seq(RowType) /\ Len(a \o b) = n - 1
        /\ \A j \in 1..(n - 1) : (a \o b)[j] = IF j <= i - 1 THEN a[j] ELSE b[j - (i - 1)]
    <3>1. /\ a \o b \in Seq(RowType) /\ Len(a \o b) = Len(a) + Len(b)
          /\ \A j \in 1..(Len(a) + Len(b)) : (a \o b)[j] = IF j <= Len(a) THEN a[j] ELSE b[j - Len(a)]
      <4>1. a \in Seq(RowType) /\ b \in Seq(RowType)
        BY <1>2, <1>3
      <4> QED
        BY ONLY <4>1, ConcatProperties
    <3> QED
      BY <1>1, <1>2, <1>3, <3>1
  <2>2. ASSUME NEW j \in 1..(n - 1), ~ (j < i) PROVE b[j - (i - 1)] = s[j + 1]
    <3>1. j - (i - 1) \in 1..(n - i) /\ i + (j - (i - 1)) = j + 1
      BY <1>1, <2>2
    <3> QED
      BY <1>3, <3>1
  <2> QED
    BY <1>1, <1>2, <2>1, <2>2
<1>5. RemoveAt(s, i) = a \o b
  BY DEF RemoveAt, a, b
<1> HIDE DEF n
<1>6. s[i] \in RowType /\ i \in 1..(Len(a \o b) + 1) /\ n = Len(a \o b) + 1
  BY <1>1, <1>4 DEF n
<1>7. \A j \in 1..Len(a \o b) : s[IF j < i THEN j ELSE j + 1] = (a \o b)[j]
  BY <1>1, <1>4
<1> QED
  BY <1>4, <1>5, <1>6, <1>7 DEF Inserted, n

-----------------------------------------------------------------------------
(* What one entry more does to the rows and to their sums. *)

\* Each row of the longer sequence is the new entry or a row there was.
LEMMA InsertedRows ==
  ASSUME NEW ts, NEW rs, NEW i, NEW e, Inserted(ts, rs, i, e)
  PROVE  /\ DOMAIN ts = 1..Len(ts) /\ DOMAIN rs = 1..Len(rs) /\ Len(rs) \in Nat
         /\ i \in DOMAIN ts /\ ts[i] = e
         /\ \A j \in DOMAIN rs : (IF j < i THEN j ELSE j + 1) \in DOMAIN ts \ {i}
         /\ \A j \in DOMAIN ts \ {i} : \E k \in DOMAIN rs : j = IF k < i THEN k ELSE k + 1
         /\ \A j \in DOMAIN rs : ts[IF j < i THEN j ELSE j + 1] = rs[j]
<1>1. DOMAIN ts = 1..Len(ts) /\ DOMAIN rs = 1..Len(rs) /\ Len(rs) \in Nat
  BY LenProperties DEF Inserted
<1>2. i \in 1..(Len(rs) + 1) /\ Len(ts) = Len(rs) + 1
  BY DEF Inserted
<1>3. ASSUME NEW j \in 1..(Len(rs) + 1), j # i
      PROVE  \E k \in 1..Len(rs) : j = IF k < i THEN k ELSE k + 1
  <2> DEFINE k == IF j < i THEN j ELSE j - 1
  <2>1. k \in 1..Len(rs) /\ j = IF k < i THEN k ELSE k + 1
    BY <1>1, <1>2, <1>3
  <2> QED
    BY <2>1
<1>4. i \in DOMAIN ts /\ ts[i] = e
  BY <1>1, <1>2 DEF Inserted
<1>5. \A j \in DOMAIN rs : (IF j < i THEN j ELSE j + 1) \in DOMAIN ts \ {i}
  BY <1>1, <1>2
<1>6. \A j \in DOMAIN ts \ {i} : \E k \in DOMAIN rs : j = IF k < i THEN k ELSE k + 1
  BY <1>1, <1>2, <1>3
<1>7. \A j \in DOMAIN rs : ts[IF j < i THEN j ELSE j + 1] = rs[j]
  BY <1>1 DEF Inserted
<1> QED
  BY <1>1, <1>4, <1>5, <1>6, <1>7

\* The terms of the sums.
Terms(rs, type, K) == [i \in DOMAIN rs |-> IF rs[i].type = type /\ rs[i].kind \in K THEN rs[i].amount ELSE 0]

SignedTerms(rs) == [i \in DOMAIN rs |-> Signed(rs[i])]

\* They are numbers, and so are the sums.
LEMMA TotalsAreNumbers ==
  ASSUME NEW rs \in Seq(RowType)
  PROVE  /\ DOMAIN rs = 1..Len(rs) /\ Len(rs) \in Nat /\ IsFiniteSet(DOMAIN rs)
         /\ Ints(SignedTerms(rs), DOMAIN rs) /\ BalanceOf(rs) \in Int
         /\ \A type, K : Nats(Terms(rs, type, K), DOMAIN rs) /\ TotalOf(rs, type, K) \in Nat
<1>1. DOMAIN rs = 1..Len(rs) /\ Len(rs) \in Nat
  BY LenProperties
<1>2. IsFiniteSet(DOMAIN rs)
  BY <1>1, FS_Interval
<1>3. \A j \in DOMAIN rs : rs[j] \in RowType
  BY ElementOfSeq, <1>1
<1>4. Ints(SignedTerms(rs), DOMAIN rs)
  BY <1>3 DEF Ints, SignedTerms, Signed, RowType
<1>5. ASSUME NEW type, NEW K PROVE Nats(Terms(rs, type, K), DOMAIN rs)
  BY <1>3 DEF Nats, Terms, RowType
<1>6. BalanceOf(rs) \in Int
  BY <1>2, <1>4, SumInt DEF BalanceOf, SignedTerms
<1>7. ASSUME NEW type, NEW K PROVE TotalOf(rs, type, K) \in Nat
  <2> DEFINE f == Terms(rs, type, K)
  <2>1. Nats(f, DOMAIN rs)
    BY <1>5
  <2>2. TotalOf(rs, type, K) = SumOf(f, DOMAIN rs)
    BY DEF TotalOf, Terms
  <2> HIDE DEF f
  <2> QED
    BY <1>2, <2>1, <2>2, SumNat
<1> QED
  BY <1>1, <1>2, <1>4, <1>5, <1>6, <1>7

\* One entry more adds itself to the sums, wherever it is put.
LEMMA InsertedTotals ==
  ASSUME NEW ts, NEW rs, NEW i, NEW e, Inserted(ts, rs, i, e)
  PROVE  /\ BalanceOf(ts) = BalanceOf(rs) + Signed(e)
         /\ \A type, K : TotalOf(ts, type, K) =
                           TotalOf(rs, type, K) + IF e.type = type /\ e.kind \in K THEN e.amount ELSE 0
<1>1. ts \in Seq(RowType) /\ rs \in Seq(RowType) /\ e \in RowType
  BY DEF Inserted
<1>2. /\ DOMAIN rs = 1..Len(rs) /\ DOMAIN ts = 1..(Len(rs) + 1)
      /\ Len(rs) \in Nat /\ i \in 1..(Len(rs) + 1) /\ ts[i] = e
      /\ \A j \in 1..Len(rs) : /\ (IF j < i THEN j ELSE j + 1) \in DOMAIN ts
                               /\ ts[IF j < i THEN j ELSE j + 1] = rs[j]
  BY InsertedRows DEF Inserted
<1>3. BalanceOf(ts) = BalanceOf(rs) + Signed(e)
  <2> DEFINE f == SignedTerms(rs)
             g == SignedTerms(ts)
  <2>1. Ints(f, 1..Len(rs)) /\ Ints(g, 1..(Len(rs) + 1))
    BY <1>1, <1>2, TotalsAreNumbers
  <2>2. g[i] = Signed(e) /\ \A j \in 1..Len(rs) : g[IF j < i THEN j ELSE j + 1] = f[j]
    BY <1>2 DEF SignedTerms
  <2>3. BalanceOf(ts) = SumOf(g, 1..(Len(rs) + 1)) /\ BalanceOf(rs) = SumOf(f, 1..Len(rs))
    BY <1>2 DEF BalanceOf, SignedTerms
  <2>4. g[i] \in Int
    BY <1>2, <2>1 DEF Ints
  <2> HIDE DEF f, g
  <2>5. SumOf(g, 1..(Len(rs) + 1)) = SumOf(f, 1..Len(rs)) + g[i]
    <3> DEFINE n == Len(rs)
    <3>1. /\ n \in Nat /\ i \in 1..(n + 1) /\ Ints(f, 1..n) /\ g[i] \in Int
          /\ \A j \in 1..n : g[IF j < i THEN j ELSE j + 1] = f[j]
      BY <1>2, <2>1, <2>2, <2>4
    <3> HIDE DEF n
    <3>2. SumOf(g, 1..(n + 1)) = SumOf(f, 1..n) + g[i]
      BY ONLY <3>1, SumInserted
    <3> QED
      BY <3>2 DEF n
  <2> QED
    BY <2>2, <2>3, <2>5
<1>4. ASSUME NEW type, NEW K
      PROVE  TotalOf(ts, type, K) =
               TotalOf(rs, type, K) + IF e.type = type /\ e.kind \in K THEN e.amount ELSE 0
  <2> DEFINE f == Terms(rs, type, K)
             g == Terms(ts, type, K)
  <2>1. Ints(f, 1..Len(rs)) /\ Ints(g, 1..(Len(rs) + 1))
    BY <1>1, <1>2, TotalsAreNumbers DEF Nats, Ints
  <2>2. /\ g[i] = IF e.type = type /\ e.kind \in K THEN e.amount ELSE 0
        /\ \A j \in 1..Len(rs) : g[IF j < i THEN j ELSE j + 1] = f[j]
    BY <1>2 DEF Terms
  <2>3. TotalOf(ts, type, K) = SumOf(g, 1..(Len(rs) + 1)) /\ TotalOf(rs, type, K) = SumOf(f, 1..Len(rs))
    BY <1>2 DEF TotalOf, Terms
  <2>4. g[i] \in Int
    BY <1>2, <2>1 DEF Ints
  <2> HIDE DEF f, g
  <2>5. SumOf(g, 1..(Len(rs) + 1)) = SumOf(f, 1..Len(rs)) + g[i]
    <3> DEFINE n == Len(rs)
    <3>1. /\ n \in Nat /\ i \in 1..(n + 1) /\ Ints(f, 1..n) /\ g[i] \in Int
          /\ \A j \in 1..n : g[IF j < i THEN j ELSE j + 1] = f[j]
      BY <1>2, <2>1, <2>2, <2>4
    <3> HIDE DEF n
    <3>2. SumOf(g, 1..(n + 1)) = SumOf(f, 1..n) + g[i]
      BY ONLY <3>1, SumInserted
    <3> QED
      BY <3>2 DEF n
  <2> QED
    BY <2>2, <2>3, <2>5
<1> QED
  BY <1>3, <1>4

\* Of the entries of a kind and a reference: there is none, or at most one.
Absent(rs, kind, ref) == \A j \in DOMAIN rs : ~ (rs[j].kind = kind /\ rs[j].ref = ref)

Unique(rs, kind, ref) ==
  \A j, k \in DOMAIN rs :
    rs[j].kind = kind /\ rs[j].ref = ref /\ rs[k].kind = kind /\ rs[k].ref = ref => j = k

\* An entry of another kind or reference changes neither.
LEMMA InsertedOther ==
  ASSUME NEW ts, NEW rs, NEW i, NEW e, Inserted(ts, rs, i, e),
         NEW kind, NEW ref, ~ (e.kind = kind /\ e.ref = ref)
  PROVE  /\ Absent(ts, kind, ref) <=> Absent(rs, kind, ref)
         /\ Unique(ts, kind, ref) <=> Unique(rs, kind, ref)
<1> DEFINE m(j) == IF j < i THEN j ELSE j + 1
           Is(r) == r.kind = kind /\ r.ref = ref
<1>1. /\ \A j \in DOMAIN rs : m(j) \in DOMAIN ts /\ ts[m(j)] = rs[j]
      /\ \A j \in DOMAIN ts \ {i} : \E k \in DOMAIN rs : j = m(k)
      /\ ~ Is(ts[i])
  BY InsertedRows
<1>2. \A j, k \in DOMAIN rs : m(j) = m(k) <=> j = k
  <2>1. DOMAIN rs = 1..Len(rs) /\ Len(rs) \in Nat /\ i \in Int
    BY InsertedRows DEF Inserted
  <2> QED
    BY <2>1
<1> HIDE DEF m
<1>3. \A j \in DOMAIN ts : Is(ts[j]) => \E k \in DOMAIN rs : j = m(k) /\ Is(rs[k])
  BY <1>1
<1>4. \A k \in DOMAIN rs : Is(rs[k]) => m(k) \in DOMAIN ts /\ Is(ts[m(k)])
  BY <1>1
<1> HIDE DEF Is
<1>5. (\A j \in DOMAIN ts : ~ Is(ts[j])) <=> (\A k \in DOMAIN rs : ~ Is(rs[k]))
  BY <1>3, <1>4
<1>6. (\A j, k \in DOMAIN ts : Is(ts[j]) /\ Is(ts[k]) => j = k) <=>
      (\A j, k \in DOMAIN rs : Is(rs[j]) /\ Is(rs[k]) => j = k)
  <2>1. ASSUME \A j, k \in DOMAIN ts : Is(ts[j]) /\ Is(ts[k]) => j = k, NEW j \in DOMAIN rs,
               NEW k \in DOMAIN rs, Is(rs[j]), Is(rs[k])
        PROVE  j = k
    BY <1>2, <1>4, <2>1
  <2>2. ASSUME \A j, k \in DOMAIN rs : Is(rs[j]) /\ Is(rs[k]) => j = k, NEW j \in DOMAIN ts,
               NEW k \in DOMAIN ts, Is(ts[j]), Is(ts[k])
        PROVE  j = k
    BY <1>3, <2>2
  <2> QED
    BY <2>1, <2>2
<1> QED
  BY <1>5, <1>6 DEF Absent, Unique, Is

\* An entry there was none of is there once.
LEMMA InsertedFirst ==
  ASSUME NEW ts, NEW rs, NEW i, NEW e, Inserted(ts, rs, i, e), Absent(rs, e.kind, e.ref)
  PROVE  ~ Absent(ts, e.kind, e.ref) /\ Unique(ts, e.kind, e.ref)
<1>1. i \in DOMAIN ts /\ ts[i] = e
  BY InsertedRows
<1>2. ASSUME NEW j \in DOMAIN ts \ {i} PROVE ~ (ts[j].kind = e.kind /\ ts[j].ref = e.ref)
  BY InsertedRows DEF Absent
<1> QED
  BY <1>1, <1>2 DEF Absent, Unique

-----------------------------------------------------------------------------
(* The inductive invariant. *)

\* The kinds of entries on each side of the ledger.
SoundRow(r) ==
  /\ r.type = "CREDIT" => r.kind \in {"PURCHASE", "ADJUSTMENT", "OPENING_BALANCE"}
  /\ r.type = "DEBIT" => r.kind \in {"PAYMENT", "RETURN", "ADJUSTMENT", "ADVANCE", "OPENING_BALANCE"}

\* The rows say what was paid and billed: a payment at most once and not before it is
\* recorded, an order's purchase exactly as long as it has a bill, and the purchases are
\* worth the billed orders.
RowsFit(rs, py, bl) ==
  /\ \A j \in DOMAIN rs : SoundRow(rs[j])
  /\ \A k \in Key : Unique(rs, "PAYMENT", k) /\ (py[k] = 0 => Absent(rs, "PAYMENT", k))
  /\ \A p \in Po : Unique(rs, "PURCHASE", p) /\ (Absent(rs, "PURCHASE", p) <=> bl[p] = "none")
  /\ TotalOf(rs, "CREDIT", {"PURCHASE"}) = SumOf(Total, {p \in Po : bl[p] # "none"})

\* The return's date lies within the ledger, after every opening entry.
ReturnPlaced(rs, st, at) ==
  /\ at \in Nat /\ at <= Len(rs) /\ (st = "none" => at = 0)
  /\ st # "none" => \A j \in DOMAIN rs : rs[j].kind = "OPENING_BALANCE" => j <= at

\* A bill that is PAID is covered by its advance and the payments linked to it.
Linked(py, link, p) == SumOf(py, {k \in Key : link[k] = p})

Covered(bl, advance, py, link) ==
  \A p \in Po : bl[p] = "PAID" => Total[p] <= advance[p] + Linked(py, link, p)

DataTypes ==
  /\ rows \in Seq(RowType) /\ opening \in Int
  /\ poStatus \in [Po -> OrderStatus] /\ paid \in [Po -> Nat] /\ applied \in [Po -> Nat]
  /\ bill \in [Po -> BillStatus] /\ billAdvance \in [Po -> Nat]
  /\ pay \in [Key -> Nat] /\ payBill \in [Key -> Po \cup {None}]
  /\ retStatus \in {"none", "PENDING", "COMPLETED"} /\ retAt \in Nat

ControlTypes ==
  /\ seqLock \in [Sequence -> Worker \cup {None}] /\ poLock \in [Po -> Worker \cup {None}]
  /\ pc \in [Worker -> PC] /\ on \in [Worker -> Po \cup {None}] /\ seen \in [Worker -> Seen]

\* The vendor's data between transactions.
Sound ==
  /\ DataTypes
  /\ RowsFit(rows, pay, bill) /\ ReturnPlaced(rows, retStatus, retAt)
  /\ Covered(bill, billAdvance, pay, payBill)

\* What a request that has read may rely on when it writes.
InBill == {"billTotals", "billDue", "bill"}
Numbered == {"payPO", "payTotals", "payDue", "payWrite"}
OnAnOrder == {"advance", "applyAvailable", "apply", "newLock", "newWrite", "approveBill", "cancel"} \cup InBill
InPayment == {"payLock"} \cup Numbered

ReliedOrder(w) ==
  /\ pc[w] \in OnAnOrder => on[w] \in Po
  /\ pc[w] = "apply" => seen[w].amt > 0 /\ seen[w].paid + seen[w].amt <= Total[on[w]]
  /\ pc[w] \in {"newLock", "newWrite"} =>
       seen[w].amt > 0 /\ seen[w].applied <= seen[w].amt
  /\ pc[w] \in InBill => poLock[on[w]] = w /\ bill[on[w]] = "none"
  /\ pc[w] = "bill" => \A q \in Po : seen[w].due[q] <= Total[q]
  /\ pc[w] = "approveBill" => bill[on[w]] # "none"

ReliedPayment(w) ==
  /\ pc[w] \in InPayment =>
       /\ seen[w].key \in Key /\ seen[w].amt > 0
       /\ seen[w].billed => on[w] \in Po /\ bill[on[w]] # "none"
  /\ pc[w] \in Numbered => seqLock["VPAY"] = w /\ pay[seen[w].key] = 0
  /\ pc[w] = "payWrite" => \A q \in Po : seen[w].due[q] <= Total[q]

ReliedReturn(w) == pc[w] \in {"return", "sync"} => retStatus # "none"

Relied(w) == ReliedOrder(w) /\ ReliedPayment(w) /\ ReliedReturn(w)

Inv == ops \in Families /\ Sound /\ ControlTypes /\ \A w \in Worker : Relied(w)

\* What a step of v leaves to the others.
KeepsData(v) ==
  /\ \A p \in Po : bill[p] # "none" => bill'[p] # "none"
  /\ \A p \in Po : bill[p] = "none" /\ poLock[p] # v => bill'[p] = "none"
  /\ \A k \in Key : pay[k] = 0 /\ seqLock["VPAY"] # v => pay'[k] = 0
  /\ retStatus # "none" => retStatus' # "none"

KeepsControl(v) ==
  \A w \in Worker \ {v} :
    /\ pc'[w] = pc[w] /\ on'[w] = on[w] /\ seen'[w] = seen[w]
    /\ seqLock["VPAY"] = w => seqLock'["VPAY"] = w
    /\ \A p \in Po : poLock[p] = w => poLock'[p] = w

\* What a request relies on, the others' steps leave.
LEMMA OthersRely ==
  ASSUME Inv, NEW v \in Worker, KeepsData(v), KeepsControl(v), Relied(v)'
  PROVE  \A w \in Worker : Relied(w)'
<1> SUFFICES ASSUME NEW w \in Worker, w # v PROVE Relied(w)'
  OBVIOUS
<1>1. /\ pc'[w] = pc[w] /\ on'[w] = on[w] /\ seen'[w] = seen[w]
      /\ seqLock["VPAY"] = w => seqLock'["VPAY"] = w
      /\ \A p \in Po : poLock[p] = w => poLock'[p] = w
  BY DEF KeepsControl
<1>2. ReliedOrder(w) /\ ReliedPayment(w) /\ ReliedReturn(w)
  BY DEF Inv, Relied
<1>3. ReliedOrder(w)'
  <2> DEFINE p == on[w]
  <2>1. CASE pc[w] \in OnAnOrder
    <3>1. on[w] \in Po
      BY <1>2, <2>1 DEF ReliedOrder
    <3>2. PICK q \in Po : q = on[w] /\ q = on'[w]
      BY <1>1, <3>1
    <3>3. bill[q] # "none" => bill'[q] # "none"
      BY DEF KeepsData
    <3>4. bill[q] = "none" /\ poLock[q] = w => bill'[q] = "none" /\ poLock'[q] = w
      BY <1>1 DEF KeepsData
    <3> QED
      BY <1>1, <1>2, <3>2, <3>3, <3>4 DEF ReliedOrder
  <2>2. CASE pc[w] \notin OnAnOrder
    BY <1>1, <2>2 DEF ReliedOrder, OnAnOrder, InBill
  <2> QED
    BY <2>1, <2>2
<1>4. ReliedPayment(w)'
  <2>1. CASE pc[w] \in InPayment
    <3>1. PICK k \in Key : k = seen[w].key /\ k = seen'[w].key
      BY <1>1, <1>2, <2>1 DEF ReliedPayment
    <3>2. pay[k] = 0 /\ seqLock["VPAY"] = w => pay'[k] = 0 /\ seqLock'["VPAY"] = w
      BY <1>1 DEF KeepsData
    <3>3. on[w] \in Po /\ bill[on[w]] # "none" => bill'[on'[w]] # "none"
      BY <1>1 DEF KeepsData
    <3> QED
      BY <1>1, <1>2, <3>1, <3>2, <3>3 DEF ReliedPayment
  <2>2. CASE pc[w] \notin InPayment
    BY <1>1, <2>2 DEF ReliedPayment, InPayment, Numbered
  <2> QED
    BY <2>1, <2>2
<1>5. ReliedReturn(w)'
  BY <1>1, <1>2 DEF ReliedReturn, KeepsData
<1> QED
  BY <1>3, <1>4, <1>5 DEF Relied

\* A step that leaves the vendor's data keeps the invariant if its request may rely on
\* what it has read.
LEMMA MoveStep ==
  ASSUME Inv, NEW v \in Worker, NEW p \in PC, NEW d \in Po \cup {None}, NEW r \in Seen,
         UNCHANGED <<ops, data>>, seqLock' \in [Sequence -> Worker \cup {None}],
         poLock' \in [Po -> Worker \cup {None}],
         pc' = [pc EXCEPT ![v] = p], on' = [on EXCEPT ![v] = d], seen' = [seen EXCEPT ![v] = r],
         \A w \in Worker \ {v} : /\ seqLock["VPAY"] = w => seqLock'["VPAY"] = w
                                 /\ \A q \in Po : poLock[q] = w => poLock'[q] = w,
         Relied(v)'
  PROVE  Inv'
<1>1. Sound'
  <2>1. Sound
    BY DEF Inv
  <2>2. UNCHANGED <<rows, opening, retStatus, retAt, poStatus, paid, applied, bill, billAdvance, pay, payBill>>
    BY DEF data, ledgerVars, returnVars, orderVars, billVars, payVars
  <2> QED
    BY ONLY <2>1, <2>2 DEF Sound, DataTypes, RowsFit, ReturnPlaced, Covered
<1>2. ControlTypes'
  BY DEF Inv, ControlTypes
<1>3. KeepsData(v)
  BY DEF KeepsData, data, ledgerVars, returnVars, billVars, payVars
<1>4. KeepsControl(v)
  BY DEF KeepsControl, Inv, ControlTypes
<1>5. \A w \in Worker : Relied(w)'
  BY <1>3, <1>4, OthersRely
<1> QED
  BY <1>1, <1>2, <1>5 DEF Inv

\* The end of a request frees its locks and leaves nothing to rely on.
LEMMA EndStep ==
  ASSUME Inv, NEW v \in Worker, End(v)
  PROVE  ControlTypes' /\ KeepsControl(v) /\ Relied(v)'
<1>1. /\ seqLock \in [Sequence -> Worker \cup {None}] /\ poLock \in [Po -> Worker \cup {None}]
      /\ pc \in [Worker -> PC] /\ on \in [Worker -> Po \cup {None}] /\ seen \in [Worker -> Seen]
  BY DEF Inv, ControlTypes
<1>2. /\ seqLock' = [s \in Sequence |-> IF seqLock[s] = v THEN None ELSE seqLock[s]]
      /\ poLock' = [q \in Po |-> IF poLock[q] = v THEN None ELSE poLock[q]]
  BY <1>1 DEF End, Freed
<1>3. /\ pc' = [pc EXCEPT ![v] = "idle"] /\ on' = [on EXCEPT ![v] = None]
      /\ seen' = [seen EXCEPT ![v] = NothingSeen]
  BY DEF End, See
<1>4. "idle" \in PC /\ NothingSeen \in Seen
  BY DEF PC, NothingSeen, Seen, OrderStatus, LedgerType
<1>5. ControlTypes'
  <2>1. seqLock' \in [Sequence -> Worker \cup {None}] /\ poLock' \in [Po -> Worker \cup {None}]
    BY <1>1, <1>2
  <2>2. pc' \in [Worker -> PC] /\ on' \in [Worker -> Po \cup {None}] /\ seen' \in [Worker -> Seen]
    BY <1>1, <1>3, <1>4
  <2> QED
    BY <2>1, <2>2 DEF ControlTypes
<1>6. KeepsControl(v)
  BY <1>1, <1>2, <1>3 DEF KeepsControl, Sequence
<1>7. pc'[v] = "idle"
  BY <1>1, <1>3
<1>8. Relied(v)'
  BY <1>7 DEF Relied, ReliedOrder, ReliedPayment, ReliedReturn, OnAnOrder, InBill, InPayment,
              Numbered
<1> QED
  BY <1>5, <1>6, <1>8

\* A write keeps the invariant if it leaves the data sound, and what others rely on.
LEMMA WriteStep ==
  ASSUME Inv, NEW v \in Worker, End(v), UNCHANGED ops, Sound', KeepsData(v)
  PROVE  Inv'
<1>1. ControlTypes' /\ KeepsControl(v) /\ Relied(v)'
  BY EndStep
<1>2. \A w \in Worker : Relied(w)'
  BY <1>1, OthersRely
<1> QED
  BY <1>1, <1>2 DEF Inv

-----------------------------------------------------------------------------
(* What an entry leaves of the facts about the rows. *)

\* The vendor has finitely many orders, in a sequence without repetition.
LEMMA OrdersFinite ==
  /\ Len(PoOrder) \in Nat /\ DOMAIN PoOrder = 1..Len(PoOrder) /\ Po = Range(PoOrder) /\ IsFiniteSet(Po)
  /\ \A i, j \in 1..Len(PoOrder) : PoOrder[i] = PoOrder[j] => i = j
<1>1. Len(PoOrder) \in Nat /\ DOMAIN PoOrder = 1..Len(PoOrder)
  BY LenProperties
<1>2. \A i, j \in DOMAIN PoOrder : PoOrder[i] = PoOrder[j] => i = j
  BY DEF IsInjective
<1>3. Po = Range(PoOrder)
  BY DEF Po
<1>4. IsFiniteSet(Range(PoOrder))
  <2> DEFINE has == [p \in Range(PoOrder) |-> 0]
  <2>1. Nats(has, Range(PoOrder))
    BY DEF Nats
  <2>2. \A i, j \in 1..Len(PoOrder) : PoOrder[i] = PoOrder[j] => i = j
    BY <1>1, <1>2
  <2> HIDE DEF has
  <2>3. 0 \in Nat
    OBVIOUS
  <2> QED
    BY ONLY <1>1, <2>1, <2>2, <2>3, InTurnSum
<1> QED
  BY <1>1, <1>2, <1>3, <1>4

\* An entry that is neither a payment nor a purchase may be added or taken away.
LEMMA FitOther ==
  ASSUME NEW ts, NEW rs, NEW i, NEW e, Inserted(ts, rs, i, e), SoundRow(e),
         e.kind \notin {"PAYMENT", "PURCHASE"}, NEW py, NEW bl
  PROVE  RowsFit(ts, py, bl) <=> RowsFit(rs, py, bl)
<1>1. (\A j \in DOMAIN ts : SoundRow(ts[j])) <=> \A j \in DOMAIN rs : SoundRow(rs[j])
  BY InsertedRows
<1>2. ASSUME NEW k PROVE /\ Unique(ts, "PAYMENT", k) <=> Unique(rs, "PAYMENT", k)
                         /\ Absent(ts, "PAYMENT", k) <=> Absent(rs, "PAYMENT", k)
  BY InsertedOther
<1>3. ASSUME NEW p PROVE /\ Unique(ts, "PURCHASE", p) <=> Unique(rs, "PURCHASE", p)
                         /\ Absent(ts, "PURCHASE", p) <=> Absent(rs, "PURCHASE", p)
  BY InsertedOther
<1>4. TotalOf(ts, "CREDIT", {"PURCHASE"}) = TotalOf(rs, "CREDIT", {"PURCHASE"})
  <2>1. TotalOf(ts, "CREDIT", {"PURCHASE"}) = TotalOf(rs, "CREDIT", {"PURCHASE"}) + 0
    BY InsertedTotals
  <2>2. TotalOf(rs, "CREDIT", {"PURCHASE"}) \in Nat
    BY TotalsAreNumbers DEF Inserted
  <2> QED
    BY <2>1, <2>2
<1> QED
  BY <1>1, <1>2, <1>3, <1>4 DEF RowsFit

\* A payment that was not recorded yet is added and recorded.
LEMMA FitPayment ==
  ASSUME NEW ts, NEW rs, NEW i, NEW e, Inserted(ts, rs, i, e), SoundRow(e), NEW k \in Key,
         e.kind = "PAYMENT", e.ref = k, NEW py, NEW bl, RowsFit(rs, py, bl), py[k] = 0,
         NEW qy, qy[k] # 0, \A l \in Key \ {k} : qy[l] = py[l],
         NEW cl, \A p \in Po : cl[p] = "none" <=> bl[p] = "none"
  PROVE  RowsFit(ts, qy, cl)
<1>1. \A j \in DOMAIN ts : SoundRow(ts[j])
  <2>1. \A j \in DOMAIN rs : SoundRow(rs[j])
    BY DEF RowsFit
  <2> QED
    BY ONLY <2>1, Inserted(ts, rs, i, e), SoundRow(e), InsertedRows
<1>2. ASSUME NEW l \in Key PROVE Unique(ts, "PAYMENT", l) /\ (qy[l] = 0 => Absent(ts, "PAYMENT", l))
  <2>1. CASE l = k
    BY <2>1, InsertedFirst DEF RowsFit
  <2>2. CASE l # k
    BY <2>2, InsertedOther DEF RowsFit
  <2> QED
    BY <2>1, <2>2
<1>3. ASSUME NEW p \in Po
      PROVE  Unique(ts, "PURCHASE", p) /\ (Absent(ts, "PURCHASE", p) <=> cl[p] = "none")
  <2>1. /\ Unique(ts, "PURCHASE", p) <=> Unique(rs, "PURCHASE", p)
        /\ Absent(ts, "PURCHASE", p) <=> Absent(rs, "PURCHASE", p)
    BY InsertedOther
  <2> QED
    BY <2>1 DEF RowsFit
<1>4. TotalOf(ts, "CREDIT", {"PURCHASE"}) = TotalOf(rs, "CREDIT", {"PURCHASE"})
  <2>1. TotalOf(ts, "CREDIT", {"PURCHASE"}) = TotalOf(rs, "CREDIT", {"PURCHASE"}) + 0
    BY InsertedTotals
  <2>2. TotalOf(rs, "CREDIT", {"PURCHASE"}) \in Nat
    BY TotalsAreNumbers DEF Inserted
  <2> QED
    BY <2>1, <2>2
<1>5. {p \in Po : cl[p] # "none"} = {p \in Po : bl[p] # "none"}
  OBVIOUS
<1> QED
  BY <1>1, <1>2, <1>3, <1>4, <1>5 DEF RowsFit

\* The purchase of an order without a bill is added with the bill.
LEMMA FitPurchase ==
  ASSUME NEW ts, NEW rs, NEW i, NEW e, Inserted(ts, rs, i, e), SoundRow(e), NEW p \in Po,
         e.kind = "PURCHASE", e.ref = p, e.type = "CREDIT", e.amount = Total[p],
         NEW py, NEW bl, RowsFit(rs, py, bl), bl[p] = "none",
         NEW cl, cl[p] # "none", \A q \in Po \ {p} : cl[q] = bl[q]
  PROVE  RowsFit(ts, py, cl)
<1>1. \A j \in DOMAIN ts : SoundRow(ts[j])
  <2>1. \A j \in DOMAIN rs : SoundRow(rs[j])
    BY DEF RowsFit
  <2> QED
    BY ONLY <2>1, Inserted(ts, rs, i, e), SoundRow(e), InsertedRows
<1>2. ASSUME NEW l \in Key PROVE Unique(ts, "PAYMENT", l) /\ (py[l] = 0 => Absent(ts, "PAYMENT", l))
  BY InsertedOther DEF RowsFit
<1>3. ASSUME NEW q \in Po
      PROVE  Unique(ts, "PURCHASE", q) /\ (Absent(ts, "PURCHASE", q) <=> cl[q] = "none")
  <2>1. CASE q = p
    <3>1. Absent(rs, "PURCHASE", p)
      BY DEF RowsFit
    <3>2. ~ Absent(ts, "PURCHASE", p) /\ Unique(ts, "PURCHASE", p)
      BY <3>1, InsertedFirst
    <3> QED
      BY <2>1, <3>2
  <2>2. CASE q # p
    <3>1. /\ Unique(ts, "PURCHASE", q) <=> Unique(rs, "PURCHASE", q)
          /\ Absent(ts, "PURCHASE", q) <=> Absent(rs, "PURCHASE", q)
      BY <2>2, InsertedOther
    <3> QED
      BY <2>2, <3>1 DEF RowsFit
  <2> QED
    BY <2>1, <2>2
<1>4. TotalOf(ts, "CREDIT", {"PURCHASE"}) = SumOf(Total, {q \in Po : cl[q] # "none"})
  <2> DEFINE S == {q \in Po : bl[q] # "none"}
  <2>1. TotalOf(ts, "CREDIT", {"PURCHASE"}) = TotalOf(rs, "CREDIT", {"PURCHASE"}) + Total[p]
    BY InsertedTotals
  <2>2. TotalOf(rs, "CREDIT", {"PURCHASE"}) = SumOf(Total, S)
    BY DEF RowsFit
  <2>3. {q \in Po : cl[q] # "none"} = S \cup {p} /\ p \notin S /\ S \subseteq Po
    OBVIOUS
  <2> HIDE DEF S
  <2>4. IsFiniteSet(S) /\ Ints(Total, S \cup {p})
    BY <2>3, OrdersFinite, FS_Subset DEF Ints
  <2>5. SumOf(Total, S \cup {p}) = Total[p] + SumOf(Total, S)
    BY <2>3, <2>4, SumAdd
  <2>6. TotalOf(rs, "CREDIT", {"PURCHASE"}) \in Nat /\ Total[p] \in Nat
    BY TotalsAreNumbers DEF Inserted
  <2>7. TotalOf(ts, "CREDIT", {"PURCHASE"}) = SumOf(Total, S \cup {p})
    BY ONLY <2>1, <2>2, <2>5, <2>6
  <2> QED
    BY ONLY <2>3, <2>7
<1> QED
  BY <1>1, <1>2, <1>3, <1>4 DEF RowsFit

\* An entry after the return's date that is not an opening one.
LEMMA PlacedOther ==
  ASSUME NEW ts, NEW rs, NEW i, NEW e, Inserted(ts, rs, i, e), e.kind # "OPENING_BALANCE",
         NEW st, NEW at, ReturnPlaced(rs, st, at), i > at
  PROVE  ReturnPlaced(ts, st, at)
<1>1. Len(rs) \in Nat /\ Len(ts) = Len(rs) + 1 /\ i \in Nat /\ at \in Nat /\ DOMAIN rs \subseteq Nat
  BY InsertedRows DEF Inserted, ReturnPlaced
<1>2. ASSUME NEW j \in DOMAIN ts, ts[j].kind = "OPENING_BALANCE", st # "none" PROVE j <= at
  <2>1. j # i
    BY <1>2, InsertedRows
  <2>2. PICK k \in DOMAIN rs : (j = IF k < i THEN k ELSE k + 1) /\ ts[j] = rs[k]
    BY <2>1, InsertedRows
  <2>3. k <= at
    BY <1>2, <2>2 DEF ReturnPlaced
  <2> QED
    BY <1>1, <2>2, <2>3
<1> QED
  BY <1>1, <1>2 DEF ReturnPlaced

\* An entry before all others moves the return's date.
LEMMA PlacedFirst ==
  ASSUME NEW ts, NEW rs, NEW e, Inserted(ts, rs, 1, e), NEW st, NEW at, ReturnPlaced(rs, st, at)
  PROVE  ReturnPlaced(ts, st, IF st = "none" THEN at ELSE at + 1)
<1>1. Len(rs) \in Nat /\ Len(ts) = Len(rs) + 1 /\ at \in Nat /\ DOMAIN rs \subseteq Nat \ {0}
  BY InsertedRows DEF Inserted, ReturnPlaced
<1>2. ASSUME NEW j \in DOMAIN ts, ts[j].kind = "OPENING_BALANCE", st # "none" PROVE j <= at + 1
  <2>1. CASE j = 1
    BY <1>1, <2>1
  <2>2. CASE j # 1
    <3>1. PICK k \in DOMAIN rs : j = (IF k < 1 THEN k ELSE k + 1) /\ ts[j] = rs[k]
      BY <2>2, InsertedRows
    <3>2. k <= at
      BY <1>2, <3>1 DEF ReturnPlaced
    <3> QED
      BY <1>1, <3>1, <3>2
  <2> QED
    BY <2>1, <2>2
<1> QED
  BY <1>1, <1>2 DEF ReturnPlaced

\* So does the removal of an opening entry, which lies before it.
LEMMA PlacedRemoved ==
  ASSUME NEW ts, NEW rs, NEW i, NEW e, Inserted(ts, rs, i, e), e.kind = "OPENING_BALANCE",
         NEW st, NEW at, ReturnPlaced(ts, st, at)
  PROVE  ReturnPlaced(rs, st, IF st = "none" THEN at ELSE at - 1)
<1>1. Len(rs) \in Nat /\ Len(ts) = Len(rs) + 1 /\ at \in Nat /\ DOMAIN rs \subseteq Nat \ {0}
      /\ i \in Nat \ {0} /\ i \in DOMAIN ts /\ ts[i] = e
  BY InsertedRows DEF Inserted, ReturnPlaced
<1>2. st # "none" => i <= at
  BY <1>1 DEF ReturnPlaced
<1>3. ASSUME NEW k \in DOMAIN rs, rs[k].kind = "OPENING_BALANCE", st # "none" PROVE k <= at - 1
  <2> DEFINE j == IF k < i THEN k ELSE k + 1
  <2>1. j \in DOMAIN ts /\ ts[j].kind = "OPENING_BALANCE"
    BY <1>3, InsertedRows
  <2>2. j <= at
    BY <1>3, <2>1 DEF ReturnPlaced
  <2> QED
    BY <1>1, <1>2, <1>3, <2>2
<1>4. at <= Len(ts) /\ (st = "none" => at = 0)
  BY DEF ReturnPlaced
<1> QED
  BY <1>1, <1>2, <1>3, <1>4 DEF ReturnPlaced

-----------------------------------------------------------------------------
(* Requests read. *)

\* A request that takes no lock.
LEMMA ReadStep ==
  ASSUME Inv, NEW v \in Worker, NEW p \in PC, NEW d \in Po \cup {None}, NEW r \in Seen,
         UNCHANGED <<ops, data, locks>>,
         pc' = [pc EXCEPT ![v] = p], on' = [on EXCEPT ![v] = d], seen' = [seen EXCEPT ![v] = r],
         Relied(v)'
  PROVE  Inv'
<1>1. seqLock' = seqLock /\ poLock' = poLock /\ UNCHANGED <<ops, data>>
  BY DEF locks
<1>2. seqLock \in [Sequence -> Worker \cup {None}] /\ poLock \in [Po -> Worker \cup {None}]
  BY DEF Inv, ControlTypes
<1> QED
  BY <1>1, <1>2, MoveStep

\* What has been read of an order is of its type.
LEMMA ReadTypes ==
  ASSUME Inv
  PROVE  /\ NothingSeen \in Seen /\ LastBalance \in Int
         /\ \A p \in Po : /\ paid[p] \in Nat /\ applied[p] \in Nat /\ poStatus[p] \in OrderStatus
                          /\ Total[p] \in Nat \ {0}
         /\ \A w \in Worker : seen[w] \in Seen /\ on[w] \in Po \cup {None} /\ pc[w] \in PC
<1>1. NothingSeen \in Seen
  BY DEF NothingSeen, Seen, OrderStatus, LedgerType
<1>2. LastBalance \in Int
  <2>1. CASE rows = << >>
    BY <2>1 DEF LastBalance
  <2>2. CASE rows # << >>
    <3>1. rows \in Seq(RowType) /\ Len(rows) \in 1..Len(rows)
      <4>1. rows \in Seq(RowType)
        BY DEF Inv, Sound, DataTypes
      <4>2. Len(rows) \in Nat /\ Len(rows) # 0
        BY <2>2, <4>1, LenProperties, EmptySeq
      <4> QED
        BY <4>1, <4>2
    <3>2. rows[Len(rows)] \in RowType
      BY <3>1, ElementOfSeq
    <3> QED
      BY <2>2, <3>2 DEF LastBalance, Last, RowType
  <2> QED
    BY <2>1, <2>2
<1>3. ASSUME NEW p \in Po
      PROVE  /\ paid[p] \in Nat /\ applied[p] \in Nat /\ poStatus[p] \in OrderStatus
             /\ Total[p] \in Nat \ {0}
  BY DEF Inv, Sound, DataTypes
<1>4. ASSUME NEW w \in Worker PROVE seen[w] \in Seen /\ on[w] \in Po \cup {None} /\ pc[w] \in PC
  BY DEF Inv, ControlTypes
<1> QED
  BY <1>1, <1>2, <1>3, <1>4

\* The available advance is a number.
LEMMA AvailableIsNat == ASSUME Inv PROVE AvailableAdvance \in Nat
<1>1. VendorBalance \in Int
  BY TotalsAreNumbers DEF VendorBalance, Inv, Sound, DataTypes
<1>2. SumOf(applied, Reserving) \in Nat
  <2>1. IsFiniteSet(Reserving) /\ Nats(applied, Reserving)
    BY OrdersFinite, FS_Subset DEF Reserving, Nats, Inv, Sound, DataTypes
  <2> QED
    BY <2>1, SumNat
<1> DEFINE a == VendorBalance
           b == SumOf(applied, Reserving)
<1>3. a \in Int /\ b \in Nat
  BY <1>1, <1>2
<1>4. AvailableAdvance = Positive(Positive(-a) - b)
  BY DEF AvailableAdvance
<1> HIDE DEF a, b
<1> QED
  BY <1>3, <1>4 DEF Positive

\* The pc and the request read are what a new request was given.
LEMMA StartedAs ==
  ASSUME Inv, NEW v \in Worker, NEW p, NEW d, NEW r,
         pc' = [pc EXCEPT ![v] = p], on' = [on EXCEPT ![v] = d], seen' = [seen EXCEPT ![v] = r]
  PROVE  pc'[v] = p /\ on'[v] = d /\ seen'[v] = r
BY DEF Inv, ControlTypes

LEMMA AdvanceReadStep ==
  ASSUME Inv, UNCHANGED ops, NEW v \in Worker, NEW p \in Po, NEW a \in Amounts, AdvanceRead(v, p, a)
  PROVE  Inv'
<1> DEFINE r == [NothingSeen EXCEPT !.bal = LastBalance, !.paid = paid[p], !.status = poStatus[p],
                                    !.amt = a]
<1>1. r \in Seen
  BY ReadTypes DEF Seen
<1>2. /\ pc' = [pc EXCEPT ![v] = "advance"] /\ on' = [on EXCEPT ![v] = p]
      /\ seen' = [seen EXCEPT ![v] = r] /\ UNCHANGED <<data, locks>>
  BY DEF AdvanceRead, Start, See
<1> HIDE DEF r
<1>3. pc'[v] = "advance" /\ on'[v] = p /\ seen'[v] = r
  BY <1>2, StartedAs
<1>4. Relied(v)'
  BY <1>3 DEF Relied, ReliedOrder, ReliedPayment, ReliedReturn, OnAnOrder, InBill, InPayment,
              Numbered
<1>5. "advance" \in PC
  BY DEF PC
<1> QED
  BY <1>1, <1>2, <1>4, <1>5, ReadStep

LEMMA ApplyReadStep ==
  ASSUME Inv, UNCHANGED ops, NEW v \in Worker, NEW p \in Po, ApplyRead(v, p)
  PROVE  Inv'
<1> DEFINE r == [NothingSeen EXCEPT !.paid = paid[p], !.applied = applied[p], !.status = poStatus[p]]
<1>1. r \in Seen
  BY ReadTypes DEF Seen
<1>2. /\ pc' = [pc EXCEPT ![v] = "applyAvailable"] /\ on' = [on EXCEPT ![v] = p]
      /\ seen' = [seen EXCEPT ![v] = r] /\ UNCHANGED <<data, locks>>
  BY DEF ApplyRead, Start, See
<1> HIDE DEF r
<1>3. pc'[v] = "applyAvailable" /\ on'[v] = p /\ seen'[v] = r
  BY <1>2, StartedAs
<1>4. Relied(v)'
  BY <1>3 DEF Relied, ReliedOrder, ReliedPayment, ReliedReturn, OnAnOrder, InBill, InPayment,
              Numbered
<1>5. "applyAvailable" \in PC
  BY DEF PC
<1> QED
  BY <1>1, <1>2, <1>4, <1>5, ReadStep

LEMMA PayCheckStep ==
  ASSUME Inv, UNCHANGED ops, NEW v \in Worker, NEW k \in Key, NEW p \in Po \cup {None}, NEW a \in Amounts,
         NEW billed \in BOOLEAN, PayCheck(v, k, p, a, billed)
  PROVE  Inv'
<1> DEFINE r == [NothingSeen EXCEPT !.amt = a, !.key = k, !.billed = billed]
<1>1. r \in Seen /\ r.key = k /\ r.amt = a /\ r.billed = billed
  BY ReadTypes DEF Seen, NothingSeen
<1>2. /\ pc' = [pc EXCEPT ![v] = "payLock"] /\ on' = [on EXCEPT ![v] = p]
      /\ seen' = [seen EXCEPT ![v] = r] /\ UNCHANGED <<data, locks>>
  BY DEF PayCheck, Start, See
<1> HIDE DEF r
<1>3. pc'[v] = "payLock" /\ on'[v] = p /\ seen'[v] = r
  BY <1>2, StartedAs
<1>4. billed => p \in Po /\ bill[p] # "none"
  BY DEF PayCheck
<1>5. bill' = bill
  BY <1>2 DEF data, billVars
<1>6. a > 0
  OBVIOUS
<1>7. Relied(v)'
  <2>1. ReliedOrder(v)' /\ ReliedReturn(v)'
    BY <1>3 DEF ReliedOrder, ReliedReturn, OnAnOrder, InBill
  <2>2. ReliedPayment(v)'
    BY <1>1, <1>3, <1>4, <1>5, <1>6 DEF ReliedPayment, Numbered
  <2> QED
    BY <2>1, <2>2 DEF Relied
<1>8. "payLock" \in PC
  BY DEF PC
<1> QED
  BY <1>1, <1>2, <1>7, <1>8, ReadStep

LEMMA NewReadStep ==
  ASSUME Inv, UNCHANGED ops, NEW v \in Worker, NEW p \in Po, NEW a \in Amounts, NewRead(v, p, a)
  PROVE  Inv'
<1> DEFINE r == [NothingSeen EXCEPT !.applied = Lesser(a, AvailableAdvance), !.amt = a]
<1>0. a \in Nat /\ a > 0
  BY VendorAssumption
<1>1. r \in Seen /\ r.applied <= r.amt /\ r.amt = a
  <2>1. Lesser(a, AvailableAdvance) \in Nat /\ Lesser(a, AvailableAdvance) <= a
    BY <1>0, AvailableIsNat DEF Lesser
  <2> QED
    BY <1>0, <2>1, ReadTypes DEF Seen, NothingSeen
<1>2. /\ pc' = [pc EXCEPT ![v] = "newLock"] /\ on' = [on EXCEPT ![v] = p]
      /\ seen' = [seen EXCEPT ![v] = r] /\ UNCHANGED <<data, locks>>
  BY DEF NewRead, Start, See
<1> HIDE DEF r
<1>3. pc'[v] = "newLock" /\ on'[v] = p /\ seen'[v] = r
  BY <1>2, StartedAs
<1>4. Relied(v)'
  BY <1>0, <1>1, <1>2, <1>3 DEF Relied, ReliedOrder, ReliedPayment, ReliedReturn, OnAnOrder, InBill, InPayment,
                                Numbered
<1>5. "newLock" \in PC
  BY DEF PC
<1> QED
  BY <1>1, <1>2, <1>4, <1>5, ReadStep

LEMMA ApproveBillReadStep ==
  ASSUME Inv, UNCHANGED ops, NEW v \in Worker, NEW p \in Po, ApproveBillRead(v, p)
  PROVE  Inv'
<1> DEFINE r == seen[v]
<1>1. r \in Seen /\ seen' = [seen EXCEPT ![v] = r]
  BY ReadTypes DEF ApproveBillRead, Inv, ControlTypes
<1>2. /\ pc' = [pc EXCEPT ![v] = "approveBill"] /\ on' = [on EXCEPT ![v] = p]
      /\ UNCHANGED <<data, locks>> /\ bill[p] # "none"
  BY DEF ApproveBillRead, Start
<1> HIDE DEF r
<1>3. pc'[v] = "approveBill" /\ on'[v] = p /\ seen'[v] = r
  BY <1>1, <1>2, StartedAs
<1>4. bill' = bill
  BY <1>2 DEF data, billVars
<1>5. Relied(v)'
  BY <1>2, <1>3, <1>4 DEF Relied, ReliedOrder, ReliedPayment, ReliedReturn, OnAnOrder, InBill, InPayment,
                          Numbered
<1>6. "approveBill" \in PC
  BY DEF PC
<1> QED
  BY <1>1, <1>2, <1>5, <1>6, ReadStep

LEMMA CancelReadStep ==
  ASSUME Inv, UNCHANGED ops, NEW v \in Worker, NEW p \in Po, CancelRead(v, p)
  PROVE  Inv'
<1> DEFINE r == seen[v]
<1>1. r \in Seen /\ seen' = [seen EXCEPT ![v] = r]
  BY ReadTypes DEF CancelRead, Inv, ControlTypes
<1>2. /\ pc' = [pc EXCEPT ![v] = "cancel"] /\ on' = [on EXCEPT ![v] = p] /\ UNCHANGED <<data, locks>>
  BY DEF CancelRead, Start
<1> HIDE DEF r
<1>3. pc'[v] = "cancel" /\ on'[v] = p /\ seen'[v] = r
  BY <1>1, <1>2, StartedAs
<1>4. Relied(v)'
  BY <1>3 DEF Relied, ReliedOrder, ReliedPayment, ReliedReturn, OnAnOrder, InBill, InPayment,
              Numbered
<1>5. "cancel" \in PC
  BY DEF PC
<1> QED
  BY <1>1, <1>2, <1>4, <1>5, ReadStep

LEMMA BillLockStep ==
  ASSUME Inv, UNCHANGED ops, NEW v \in Worker, NEW p \in Po, BillLock(v, p)
  PROVE  Inv'
<1> DEFINE r == [NothingSeen EXCEPT !.bal = LastBalance]
<1>1. r \in Seen
  BY ReadTypes DEF Seen
<1>2. /\ pc' = [pc EXCEPT ![v] = "billTotals"] /\ on' = [on EXCEPT ![v] = p]
      /\ seen' = [seen EXCEPT ![v] = r] /\ UNCHANGED <<ops, data>>
      /\ seqLock' = [seqLock EXCEPT !["GRN_BILL"] = v] /\ bill[p] = "none" /\ poLock[p] = None /\ poLock' = [poLock EXCEPT ![p] = v]
  BY DEF BillLock, LockOrder, Increment, Start, See
<1> HIDE DEF r
<1>3. pc'[v] = "billTotals" /\ on'[v] = p /\ seen'[v] = r
  <2>1. /\ pc' = [pc EXCEPT ![v] = "billTotals"] /\ on' = [on EXCEPT ![v] = p]
        /\ seen' = [seen EXCEPT ![v] = r]
    BY <1>2
  <2> QED
    BY ONLY <2>1, Inv, v \in Worker, StartedAs
<1>4. bill' = bill
  BY <1>2 DEF data, billVars
<1>5. /\ seqLock' \in [Sequence -> Worker \cup {None}] /\ seqLock'["VPAY"] = seqLock["VPAY"]
      /\ poLock \in [Po -> Worker \cup {None}] /\ poLock' \in [Po -> Worker \cup {None}]
  BY <1>2 DEF Inv, ControlTypes, Sequence
<1>6. poLock'[p] = v
  BY <1>2, <1>5
<1>7. Relied(v)'
  BY <1>2, <1>3, <1>4, <1>6 DEF Relied, ReliedOrder, ReliedPayment, ReliedReturn, OnAnOrder, InBill, InPayment,
                                Numbered
<1>8. "billTotals" \in PC
  BY DEF PC
<1>9. \A w \in Worker \ {v} : /\ seqLock["VPAY"] = w => seqLock'["VPAY"] = w
                              /\ \A q \in Po : poLock[q] = w => poLock'[q] = w
  BY <1>2, <1>5
<1> QED
  BY <1>1, <1>2, <1>5, <1>7, <1>8, <1>9, MoveStep

\* Requests on no order: an adjustment, a return, and the repairs of pages.
LEMMA OffOrderStep ==
  ASSUME Inv, NEW v \in Worker, NEW r \in Seen, NEW p \in PC \ (OnAnOrder \cup InPayment),
         UNCHANGED <<ops, data, locks>>,
         pc' = [pc EXCEPT ![v] = p], on' = [on EXCEPT ![v] = None], seen' = [seen EXCEPT ![v] = r],
         p \in {"return", "sync"} => retStatus # "none"
  PROVE  Inv'
<1>1. pc'[v] = p /\ retStatus' = retStatus
  BY StartedAs DEF data, ledgerVars, returnVars
<1>2. p \notin OnAnOrder /\ p \notin InPayment
  OBVIOUS
<1>3. Relied(v)'
  BY <1>1, <1>2 DEF Relied, ReliedOrder, ReliedPayment, ReliedReturn, OnAnOrder, InBill, InPayment,
                    Numbered
<1> QED
  BY <1>3, ReadStep

LEMMA OffOrderReads ==
  ASSUME Inv, UNCHANGED ops, NEW v \in Worker,
         \/ \E t \in LedgerType, a \in Amounts : AdjustRead(v, t, a)
         \/ ReturnRead(v) \/ SyncRead(v) \/ InjectRead(v)
         \/ \E b \in Openings : EditOpening(v, b)
  PROVE  Inv'
<1>1. {"adjust", "return", "sync", "inject", "editOpening"} \subseteq PC \ (OnAnOrder \cup InPayment)
  BY DEF PC, OnAnOrder, InBill, InPayment, Numbered
<1>2. ASSUME NEW t \in LedgerType, NEW a \in Amounts, AdjustRead(v, t, a) PROVE Inv'
  <2> DEFINE r == [NothingSeen EXCEPT !.amt = a, !.type = t,
                                      !.bal = LastBalance + IF t = "CREDIT" THEN a ELSE -a]
  <2>1. r \in Seen
    <3>1. LastBalance + (IF t = "CREDIT" THEN a ELSE -a) \in Int
      BY ReadTypes
    <3> QED
      BY <3>1, ReadTypes DEF Seen
  <2>2. /\ pc' = [pc EXCEPT ![v] = "adjust"] /\ on' = [on EXCEPT ![v] = None]
        /\ seen' = [seen EXCEPT ![v] = r] /\ UNCHANGED <<data, locks>>
    BY <1>2 DEF AdjustRead, Start, See
  <2> HIDE DEF r
  <2> QED
    BY <1>1, <2>1, <2>2, OffOrderStep
<1>3. ASSUME ReturnRead(v) \/ SyncRead(v) PROVE Inv'
  <2> DEFINE r == [NothingSeen EXCEPT !.bal = LastBalance, !.amt = ReturnAmount]
  <2>1. r \in Seen
    BY ReadTypes DEF Seen
  <2>2. PICK p \in {"return", "sync"} :
          /\ pc' = [pc EXCEPT ![v] = p] /\ on' = [on EXCEPT ![v] = None]
          /\ seen' = [seen EXCEPT ![v] = r] /\ UNCHANGED <<data, locks>> /\ retStatus # "none"
    BY <1>3 DEF ReturnRead, SyncRead, Start, See
  <2> HIDE DEF r
  <2> QED
    BY <1>1, <2>1, <2>2, OffOrderStep
<1>4. ASSUME InjectRead(v) PROVE Inv'
  <2> DEFINE r == [NothingSeen EXCEPT !.bal = opening]
  <2>1. r \in Seen
    BY ReadTypes DEF Seen, Inv, Sound, DataTypes
  <2>2. /\ pc' = [pc EXCEPT ![v] = "inject"] /\ on' = [on EXCEPT ![v] = None]
        /\ seen' = [seen EXCEPT ![v] = r] /\ UNCHANGED <<data, locks>>
    BY <1>4 DEF InjectRead, Start, See
  <2> HIDE DEF r
  <2> QED
    BY <1>1, <2>1, <2>2, OffOrderStep
<1>5. ASSUME NEW b \in Openings, EditOpening(v, b) PROVE Inv'
  <2> DEFINE r == [NothingSeen EXCEPT !.bal = b, !.billed = HasRow("OPENING_BALANCE")]
  <2>1. r \in Seen
    BY ReadTypes DEF Seen, HasRow
  <2>2. /\ pc' = [pc EXCEPT ![v] = "editOpening"] /\ on' = [on EXCEPT ![v] = None]
        /\ seen' = [seen EXCEPT ![v] = r] /\ UNCHANGED <<data, locks>>
    BY <1>5 DEF EditOpening, Start, See
  <2> HIDE DEF r
  <2> QED
    BY <1>1, <2>1, <2>2, OffOrderStep
<1> QED
  BY <1>2, <1>3, <1>4, <1>5

-----------------------------------------------------------------------------
(* Requests read again, and take their locks. *)

\* A request that ends without a write.
LEMMA EndOnly ==
  ASSUME Inv, UNCHANGED ops, NEW v \in Worker, End(v), UNCHANGED data
  PROVE  Inv'
<1>1. Sound
  BY DEF Inv
<1>2. UNCHANGED <<rows, opening, retStatus, retAt, poStatus, paid, applied, bill, billAdvance, pay, payBill>>
  BY DEF data, ledgerVars, returnVars, orderVars, billVars, payVars
<1>3. Sound' /\ KeepsData(v)
  BY ONLY <1>1, <1>2 DEF Sound, DataTypes, RowsFit, ReturnPlaced, Covered, KeepsData
<1> QED
  BY <1>3, WriteStep

LEMMA ApplyReadAvailableStep ==
  ASSUME Inv, UNCHANGED ops, NEW v \in Worker, ApplyReadAvailable(v)
  PROVE  Inv'
<1> DEFINE p == on[v]
           due == Total[p] - seen[v].paid
           amt == Lesser(due, AvailableAdvance)
           r == [seen[v] EXCEPT !.amt = amt]
<1>1. pc[v] = "applyAvailable" /\ p \in Po /\ UNCHANGED data
  BY DEF ApplyReadAvailable, Inv, Relied, ReliedOrder, OnAnOrder, InBill
<1>2. seen[v] \in Seen /\ Total[p] \in Nat /\ AvailableAdvance \in Nat
  BY <1>1, ReadTypes, AvailableIsNat
<1>3. CASE AvailableAdvance > 0 /\ due > 0
  <2>1. amt \in Nat /\ amt > 0 /\ seen[v].paid + amt <= Total[p]
    <3> DEFINE x == seen[v].paid
               n == Total[p]
               available == AvailableAdvance
    <3>1. x \in Nat /\ n \in Nat /\ available \in Nat /\ available > 0 /\ n - x > 0
      BY <1>2, <1>3 DEF Seen
    <3>2. amt = Lesser(n - x, available)
      OBVIOUS
    <3> HIDE DEF x, n, available, amt
    <3>3. amt \in Nat /\ amt > 0 /\ x + amt <= n
      BY ONLY <3>1, <3>2 DEF Lesser
    <3> QED
      BY <3>3 DEF x, n
  <2>2. r \in Seen /\ r.paid = seen[v].paid /\ r.amt = amt
    BY <1>2, <2>1 DEF Seen
  <2>3. /\ pc' = [pc EXCEPT ![v] = "apply"] /\ on' = on /\ seen' = [seen EXCEPT ![v] = r]
        /\ UNCHANGED locks
    BY <1>3 DEF ApplyReadAvailable, Goto, See
  <2> HIDE DEF amt, r
  <2>4. on' = [on EXCEPT ![v] = p] /\ p \in Po \cup {None}
    BY <1>1, <2>3 DEF Inv, ControlTypes
  <2>5. pc'[v] = "apply" /\ on'[v] = p /\ seen'[v] = r
    BY <2>3, <2>4, StartedAs
  <2> HIDE DEF p
  <2>6. Relied(v)'
    BY <1>1, <2>1, <2>2, <2>5 DEF Relied, ReliedOrder, ReliedPayment, ReliedReturn, OnAnOrder, InBill, InPayment,
                                  Numbered
  <2>7. "apply" \in PC
    BY DEF PC
  <2> QED
    BY <1>1, <2>2, <2>3, <2>4, <2>6, <2>7, ReadStep
<1>4. CASE ~ (AvailableAdvance > 0 /\ due > 0)
  <2>1. End(v)
    BY <1>4 DEF ApplyReadAvailable
  <2> QED
    BY <1>1, <2>1, EndOnly
<1> QED
  BY <1>3, <1>4

LEMMA PayLockStep ==
  ASSUME Inv, UNCHANGED ops, NEW v \in Worker, PayLock(v)
  PROVE  Inv'
<1> DEFINE r == [seen[v] EXCEPT !.bal = LastBalance]
           p == on[v]
<1>1. /\ pc[v] = "payLock" /\ pay[seen[v].key] = 0 /\ UNCHANGED data /\ poLock' = poLock
      /\ seqLock["VPAY"] = None /\ seqLock' = [seqLock EXCEPT !["VPAY"] = v]
      /\ pc' = [pc EXCEPT ![v] = "payPO"] /\ on' = on /\ seen' = [seen EXCEPT ![v] = r]
  BY DEF PayLock, KeyFree, Increment, Goto, See
<1>2. seen[v] \in Seen
  BY ReadTypes
<1>3. r \in Seen /\ r.key = seen[v].key /\ r.amt = seen[v].amt /\ r.billed = seen[v].billed
  <2> DEFINE x == seen[v]
             b == LastBalance
  <2>1. x \in Seen /\ b \in Int /\ r = [x EXCEPT !.bal = b]
    BY <1>2, ReadTypes
  <2> HIDE DEF x, b, r
  <2>2. r \in Seen /\ r.key = x.key /\ r.amt = x.amt /\ r.billed = x.billed
    BY ONLY <2>1 DEF Seen
  <2> QED
    BY <2>2 DEF x
<1> HIDE DEF r
<1>4. p \in Po \cup {None} /\ on' = [on EXCEPT ![v] = p]
  BY <1>1 DEF Inv, ControlTypes
<1>5. pc'[v] = "payPO" /\ on'[v] = p /\ seen'[v] = r
  <2>1. /\ pc' = [pc EXCEPT ![v] = "payPO"] /\ on' = [on EXCEPT ![v] = p]
        /\ seen' = [seen EXCEPT ![v] = r]
    BY <1>1, <1>4
  <2> HIDE DEF p
  <2> QED
    BY ONLY Inv, v \in Worker, <2>1, StartedAs
<1>6. /\ seen[v].key \in Key /\ seen[v].amt > 0
      /\ seen[v].billed => p \in Po /\ bill[p] # "none"
  BY <1>1 DEF Inv, Relied, ReliedPayment, InPayment, Numbered
<1>7. /\ seqLock \in [Sequence -> Worker \cup {None}] /\ "VPAY" \in Sequence
      /\ poLock \in [Po -> Worker \cup {None}]
  BY DEF Inv, ControlTypes, Sequence
<1>8. seqLock' \in [Sequence -> Worker \cup {None}] /\ seqLock'["VPAY"] = v
  BY <1>1, <1>7
<1>9. bill' = bill /\ pay' = pay
  BY <1>1 DEF data, billVars, payVars
<1> HIDE DEF p
<1>10. Relied(v)'
  <2>1. ReliedOrder(v)' /\ ReliedReturn(v)'
    BY <1>5 DEF ReliedOrder, ReliedReturn, OnAnOrder, InBill
  <2>2. ReliedPayment(v)'
    BY <1>1, <1>3, <1>5, <1>6, <1>8, <1>9 DEF ReliedPayment
  <2> QED
    BY <2>1, <2>2 DEF Relied
<1>11. "payPO" \in PC
  BY DEF PC
<1>12. \A w \in Worker \ {v} : /\ seqLock["VPAY"] = w => seqLock'["VPAY"] = w
                               /\ \A q \in Po : poLock[q] = w => poLock'[q] = w
  BY <1>1
<1>13. poLock' \in [Po -> Worker \cup {None}]
  BY <1>1, <1>7
<1> QED
  BY <1>1, <1>3, <1>4, <1>8, <1>10, <1>11, <1>12, <1>13, MoveStep

LEMMA PayReadPOStep ==
  ASSUME Inv, UNCHANGED ops, NEW v \in Worker, PayReadPO(v)
  PROVE  Inv'
<1> DEFINE r == IF on[v] = None THEN seen[v]
                ELSE [seen[v] EXCEPT !.paid = paid[on[v]], !.status = poStatus[on[v]]]
           p == on[v]
<1>1. /\ pc[v] = "payPO" /\ UNCHANGED <<data, locks>>
      /\ pc' = [pc EXCEPT ![v] = "payTotals"] /\ on' = on
  BY DEF PayReadPO, Goto
<1>2. seen' = [seen EXCEPT ![v] = r]
  BY DEF PayReadPO, See, Inv, ControlTypes
<1>3. seen[v] \in Seen /\ p \in Po \cup {None}
  BY ReadTypes
<1>4. /\ r \in Seen /\ r.key = seen[v].key /\ r.amt = seen[v].amt /\ r.billed = seen[v].billed
  BY <1>3, ReadTypes DEF Seen
<1> HIDE DEF r
<1>5. on' = [on EXCEPT ![v] = p]
  BY <1>1 DEF Inv, ControlTypes
<1>6. pc'[v] = "payTotals" /\ on'[v] = p /\ seen'[v] = r
  BY <1>1, <1>2, <1>5, StartedAs
<1>7. /\ seen[v].key \in Key /\ seen[v].amt > 0 /\ seqLock["VPAY"] = v /\ pay[seen[v].key] = 0
      /\ seen[v].billed => p \in Po /\ bill[p] # "none"
  BY <1>1 DEF Inv, Relied, ReliedPayment, InPayment, Numbered
<1>8. bill' = bill /\ pay' = pay /\ seqLock' = seqLock
  BY <1>1 DEF data, billVars, payVars, locks
<1> HIDE DEF p
<1>9. Relied(v)'
  <2>1. ReliedOrder(v)' /\ ReliedReturn(v)'
    BY <1>6 DEF ReliedOrder, ReliedReturn, OnAnOrder, InBill
  <2>2. ReliedPayment(v)'
    BY <1>4, <1>6, <1>7, <1>8 DEF ReliedPayment
  <2> QED
    BY <2>1, <2>2 DEF Relied
<1>10. "payTotals" \in PC
  BY DEF PC
<1> QED
  BY <1>1, <1>2, <1>3, <1>4, <1>5, <1>9, <1>10, ReadStep

LEMMA NewLockStep ==
  ASSUME Inv, UNCHANGED ops, NEW v \in Worker, NewLock(v)
  PROVE  Inv'
<1> DEFINE r == [seen[v] EXCEPT !.bal = LastBalance]
           p == on[v]
<1>1. /\ pc[v] = "newLock" /\ seqLock["PO"] = None
      /\ seen[v].amt > seen[v].applied => seqLock["VPAY"] = None
      /\ seqLock' = [s \in Sequence |->
                       IF s = "PO" \/ seen[v].amt > seen[v].applied THEN v ELSE seqLock[s]]
      /\ UNCHANGED data /\ poLock' = poLock
      /\ pc' = [pc EXCEPT ![v] = "newWrite"] /\ on' = on /\ seen' = [seen EXCEPT ![v] = r]
  BY DEF NewLock, Goto, See
<1>2. seen[v] \in Seen
  BY ReadTypes
<1>3. r \in Seen /\ r.applied = seen[v].applied /\ r.amt = seen[v].amt
  BY <1>2, ReadTypes DEF Seen
<1> HIDE DEF r
<1>4. p \in Po \cup {None} /\ on' = [on EXCEPT ![v] = p]
  BY <1>1 DEF Inv, ControlTypes
<1>5. pc'[v] = "newWrite" /\ on'[v] = p /\ seen'[v] = r
  <2>1. /\ pc' = [pc EXCEPT ![v] = "newWrite"] /\ on' = [on EXCEPT ![v] = p]
        /\ seen' = [seen EXCEPT ![v] = r]
    BY <1>1, <1>4
  <2> QED
    BY ONLY <2>1, Inv, v \in Worker, StartedAs
<1>6. p \in Po /\ seen[v].amt > 0 /\ seen[v].applied <= seen[v].amt
  BY <1>1 DEF Inv, Relied, ReliedOrder, OnAnOrder, InBill
<1>7. /\ seqLock \in [Sequence -> Worker \cup {None}] /\ "VPAY" \in Sequence
      /\ poLock \in [Po -> Worker \cup {None}]
  BY DEF Inv, ControlTypes, Sequence
<1>8. /\ seqLock' \in [Sequence -> Worker \cup {None}]
      /\ \A w \in Worker \ {v} : seqLock["VPAY"] = w => seqLock'["VPAY"] = w
  BY <1>1, <1>7
<1> HIDE DEF p
<1>9. Relied(v)'
  BY <1>3, <1>5, <1>6 DEF Relied, ReliedOrder, ReliedPayment, ReliedReturn, OnAnOrder, InBill, InPayment,
                          Numbered
<1>10. "newWrite" \in PC
  BY DEF PC
<1>11. poLock' \in [Po -> Worker \cup {None}]
       /\ \A w \in Worker \ {v} : /\ seqLock["VPAY"] = w => seqLock'["VPAY"] = w
                                  /\ \A q \in Po : poLock[q] = w => poLock'[q] = w
  BY <1>1, <1>7, <1>8
<1> QED
  BY <1>1, <1>3, <1>4, <1>8, <1>9, <1>10, <1>11, MoveStep

\* A return is created: its date is behind all entries.
LEMMA ReturnCreateStep ==
  ASSUME Inv, UNCHANGED ops, NEW v \in Worker, ReturnCreate(v)
  PROVE  Inv'
<1>1. /\ retStatus = "none" /\ retStatus' = "PENDING" /\ retAt' = Len(rows)
      /\ UNCHANGED <<rows, opening, poStatus, paid, applied, bill, billAdvance, pay, payBill, seqLock, poLock,
                     pc, on, seen>>
  BY DEF ReturnCreate, orderVars, billVars, payVars, locks
<1>2. Sound /\ rows \in Seq(RowType)
  BY DEF Inv, Sound, DataTypes
<1>3. Len(rows) \in Nat /\ DOMAIN rows = 1..Len(rows)
  BY <1>2, LenProperties
<1>4. ReturnPlaced(rows, retStatus', retAt')
  BY <1>1, <1>3 DEF ReturnPlaced
<1>5. Sound'
  <2>1. DataTypes'
    BY <1>1, <1>2, <1>3 DEF Sound, DataTypes
  <2>3. RowsFit(rows, pay, bill)' /\ Covered(bill, billAdvance, pay, payBill)'
    BY <1>1, <1>2 DEF Sound, RowsFit, Covered
  <2>4. ReturnPlaced(rows, retStatus, retAt)'
    BY <1>1, <1>4
  <2> QED
    BY <2>1, <2>3, <2>4 DEF Sound
<1>6. ControlTypes' /\ \A w \in Worker : Relied(w)'
  BY <1>1 DEF Inv, ControlTypes, Relied, ReliedOrder, ReliedPayment, ReliedReturn
<1> QED
  BY <1>5, <1>6 DEF Inv

-----------------------------------------------------------------------------
(* Settling. *)

\* What settlement reads: the money free, and what is due on each received order.
LEMMA SettlingReads ==
  ASSUME NEW rs \in Seq(RowType), NEW pd \in [Po -> Nat], NEW st
  PROVE  /\ Unapplied(rs, pd, st) \in Nat
         /\ DueOf(pd, st) \in [Po -> Nat] /\ \A q \in Po : DueOf(pd, st)[q] <= Total[q]
<1>1. \A q \in Po : pd[q] \in Nat /\ Total[q] \in Nat \ {0}
  OBVIOUS
<1>2. Debits(rs) \in Nat
  BY TotalsAreNumbers DEF Debits
<1> DEFINE n == Unapplied(rs, pd, st)
           S == {p \in Po : st[p] \notin {"none", "CANCELLED"}}
<1>3. SumOf(pd, S) \in Nat
  <2>1. IsFiniteSet(S) /\ Nats(pd, S)
    BY <1>1, OrdersFinite, FS_Subset DEF Nats
  <2> QED
    BY <2>1, SumNat
<1>4. n = Positive(Debits(rs) - SumOf(pd, S))
  BY DEF Unapplied
<1>5. n \in Nat
  <2> HIDE DEF n, S
  <2> QED
    BY <1>2, <1>3, <1>4 DEF Positive
<1>6. DueOf(pd, st) \in [Po -> Nat] /\ \A q \in Po : DueOf(pd, st)[q] <= Total[q]
  BY <1>1 DEF DueOf, Positive
<1> QED
  BY <1>5, <1>6

\* An order is given at most what was due on it; only one that is given something changes.
LEMMA Settling ==
  ASSUME NEW r \in Seen, \A p \in Po : r.due[p] <= Total[p], NEW st \in [Po -> OrderStatus],
         NEW pd \in [Po -> Nat]
  PROVE  LET s == Settle(r, pd, st) share == Share(r) IN
         /\ share \in [Po -> Nat] /\ \A p \in Po : share[p] <= r.due[p]
         /\ s.paid \in [Po -> Nat] /\ s.status \in [Po -> OrderStatus]
         /\ \A p \in Po : /\ s.paid[p] <= Total[p] \/ s.paid[p] = pd[p]
                          /\ share[p] = 0 => s.paid[p] = pd[p] /\ s.status[p] = st[p]
<1> DEFINE due == r.due
           q == r.free
           share == Share(r)
           n == Len(PoOrder)
           s == Settle(r, pd, st)
<1>1. \A p \in Po : Total[p] \in Nat /\ due[p] \in Nat /\ due[p] <= Total[p]
  BY DEF Seen
<1>2. Range(PoOrder) = Po /\ Nats(due, Range(PoOrder)) /\ q \in Nat
  BY <1>1, OrdersFinite DEF Nats, Seen
<1>3. share \in [Po -> Nat] /\ \A p \in Po : share[p] <= due[p]
  <2>1. n \in Nat /\ DOMAIN PoOrder = 1..n /\ \A i, j \in 1..n : PoOrder[i] = PoOrder[j] => i = j
    BY OrdersFinite
  <2>2. share = InTurn(PoOrder, due, q)
    BY DEF Share
  <2> HIDE DEF n, due, q, share
  <2>3. /\ InTurn(PoOrder, due, q) \in [Range(PoOrder) -> Nat]
        /\ \A x \in Range(PoOrder) : InTurn(PoOrder, due, q)[x] <= due[x]
    BY ONLY <1>2, <2>1, InTurnSum
  <2> QED
    BY <1>2, <2>2, <2>3
<1>4. /\ s.paid = [p \in Po |-> IF share[p] > 0 THEN (Total[p] - due[p]) + share[p] ELSE pd[p]]
      /\ s.status = [p \in Po |-> IF share[p] > 0
                                  THEN Settled("RECEIVED", p, (Total[p] - due[p]) + share[p]) ELSE st[p]]
  BY DEF Settle
<1> HIDE DEF due, q, share, s
<1>5. /\ s.paid \in [Po -> Nat]
      /\ \A p \in Po : (s.paid[p] <= Total[p] \/ s.paid[p] = pd[p]) /\ (share[p] = 0 => s.paid[p] = pd[p])
  <2>1. ASSUME NEW p \in Po
        PROVE  (Total[p] - due[p]) + share[p] \in Nat /\ (Total[p] - due[p]) + share[p] <= Total[p]
    <3>1. /\ Total[p] \in Nat /\ due[p] \in Nat /\ due[p] <= Total[p]
          /\ share[p] \in Nat /\ share[p] <= due[p]
      BY <1>1, <1>3
    <3> QED
      BY ONLY <3>1
  <2> QED
    BY <1>4, <2>1
<1>6. s.status \in [Po -> OrderStatus] /\ \A p \in Po : share[p] = 0 => s.status[p] = st[p]
  BY <1>4 DEF Settled, OrderStatus
<1> QED
  BY <1>3, <1>5, <1>6 DEF s, share, due

\* A payment's bill is paid by one payment more, the other bills as before.
LEMMA PaymentCovers ==
  ASSUME NEW py \in [Key -> Nat], NEW link \in [Key -> Po \cup {None}], NEW k \in Key, py[k] = 0,
         NEW a \in Nat, NEW d \in Po \cup {None},
         NEW qy, qy[k] = a, \A l \in Key \ {k} : qy[l] = py[l],
         NEW qlink, qlink[k] = d, \A l \in Key \ {k} : qlink[l] = link[l],
         NEW p \in Po
  PROVE  /\ Linked(py, link, p) \in Nat
         /\ Linked(qy, qlink, p) = Linked(py, link, p) + IF p = d THEN a ELSE 0
<1> DEFINE S == {l \in Key : link[l] = p}
           T == {l \in Key : qlink[l] = p}
           C == S \ {k}
<1>1. IsFiniteSet(S) /\ IsFiniteSet(T) /\ IsFiniteSet(C)
  BY FS_Subset
<1>2. Ints(py, S) /\ Nats(py, S) /\ Ints(py, C)
  BY DEF Ints, Nats
<1>3. SumOf(py, S) = SumOf(py, C)
  <2>1. C \in SUBSET S /\ \A x \in S \ C : py[x] = 0
    OBVIOUS
  <2> HIDE DEF C, S
  <2> QED
    BY <1>1, <1>2, <2>1, SumWithout
<1>4. SumOf(qy, C) = SumOf(py, C)
  <2>1. \A x \in C : qy[x] = py[x]
    OBVIOUS
  <2> HIDE DEF C
  <2> QED
    BY <1>1, <1>2, <2>1, SumSame
<1>5. SumOf(py, S) \in Nat
  BY <1>1, <1>2, SumNat
<1>6. CASE p = d
  <2>1. T = C \cup {k} /\ k \notin C /\ Ints(qy, C \cup {k}) /\ qy[k] = a
    BY <1>6 DEF Ints
  <2> HIDE DEF T, C
  <2>2. SumOf(qy, C \cup {k}) = qy[k] + SumOf(qy, C)
    BY <1>1, <2>1, SumAdd
  <2>3. SumOf(qy, T) = a + SumOf(py, S)
    BY ONLY <1>3, <1>4, <2>1, <2>2
  <2> HIDE DEF S
  <2> QED
    BY <1>5, <1>6, <2>3 DEF T, S, Linked
<1>7. CASE p # d
  <2>1. T = C
    BY <1>7
  <2> HIDE DEF T, C, S
  <2>2. SumOf(qy, T) = SumOf(py, S)
    BY ONLY <1>3, <1>4, <2>1
  <2> QED
    BY <1>5, <1>7, <2>2 DEF T, S, Linked
<1> QED
  BY <1>6, <1>7

-----------------------------------------------------------------------------
(* Requests write. *)

\* A write that leaves bills and payments alone.
LEMMA EntryStep ==
  ASSUME Inv, UNCHANGED ops, NEW v \in Worker, End(v), UNCHANGED <<billVars, payVars>>,
         rows' \in Seq(RowType), RowsFit(rows', pay, bill), ReturnPlaced(rows', retStatus', retAt'),
         opening' \in Int, retStatus' \in {"none", "PENDING", "COMPLETED"},
         retStatus # "none" => retStatus' # "none",
         poStatus' \in [Po -> OrderStatus], paid' \in [Po -> Nat], applied' \in [Po -> Nat]
  PROVE  Inv'
<1>1. UNCHANGED <<bill, billAdvance, pay, payBill>> /\ Sound
  BY DEF billVars, payVars, Inv
<1>2. KeepsData(v)
  BY <1>1 DEF KeepsData
<1>3. DataTypes'
  BY <1>1 DEF Sound, DataTypes, ReturnPlaced
<1>5. Covered(bill, billAdvance, pay, payBill)'
  BY <1>1 DEF Sound, Covered
<1>6. RowsFit(rows, pay, bill)'
  BY <1>1
<1>7. Sound'
  BY <1>3, <1>5, <1>6 DEF Sound
<1> QED
  BY <1>2, <1>7, WriteStep

\* What Inv says of the data.
LEMMA DataFacts ==
  ASSUME Inv
  PROVE  /\ rows \in Seq(RowType) /\ Len(rows) \in Nat /\ DOMAIN rows = 1..Len(rows) /\ opening \in Int
         /\ poStatus \in [Po -> OrderStatus] /\ paid \in [Po -> Nat] /\ applied \in [Po -> Nat]
         /\ bill \in [Po -> BillStatus] /\ billAdvance \in [Po -> Nat]
         /\ pay \in [Key -> Nat] /\ payBill \in [Key -> Po \cup {None}]
         /\ retStatus \in {"none", "PENDING", "COMPLETED"} /\ retAt \in Nat /\ retAt <= Len(rows)
         /\ RowsFit(rows, pay, bill) /\ ReturnPlaced(rows, retStatus, retAt)
         /\ Covered(bill, billAdvance, pay, payBill)
<1>1. Sound
  BY DEF Inv
<1>2. rows \in Seq(RowType) /\ Len(rows) \in Nat /\ DOMAIN rows = 1..Len(rows)
  BY <1>1, LenProperties DEF Sound, DataTypes
<1> QED
  BY <1>1, <1>2 DEF Sound, DataTypes, ReturnPlaced

\* What a payment makes of its order, before it settles the others.
LEMMA PaymentColumns ==
  ASSUME Inv, NEW r \in Seen, NEW p \in Po \cup {None}
  PROVE  /\ PaidBy(p, r) \in [Po -> Nat] /\ \A q \in Po : PaidBy(p, r)[q] <= Total[q] \/ PaidBy(p, r)[q] = paid[q]
         /\ StatusBy(p, r) \in [Po -> OrderStatus]
<1>1. CASE p = None
  BY <1>1, DataFacts DEF PaidBy, StatusBy
<1>2. CASE p # None
  <2> DEFINE new == PaidAfter(p, r.paid, r.amt)
  <2>1. p \in Po /\ Total[p] \in Nat /\ r.paid \in Nat /\ r.amt \in Nat
    BY <1>2 DEF Seen
  <2>2. new \in Nat /\ new <= Total[p]
    BY <2>1 DEF PaidAfter, Lesser
  <2>3. Settled(r.status, p, new) \in OrderStatus
    BY DEF Settled, Seen, OrderStatus
  <2>4. /\ PaidBy(p, r) = [paid EXCEPT ![p] = new]
        /\ StatusBy(p, r) = [poStatus EXCEPT ![p] = Settled(r.status, p, new)]
    BY <1>2 DEF PaidBy, StatusBy
  <2> HIDE DEF new
  <2> QED
    BY <2>1, <2>2, <2>3, <2>4, DataFacts
<1> QED
  BY <1>1, <1>2

\* A payment's entry.
LEMMA PaymentEntry ==
  ASSUME NEW r \in Seen, r.key \in Key
  PROVE  /\ PaymentRow(r) \in RowType /\ SoundRow(PaymentRow(r))
         /\ PaymentRow(r).kind = "PAYMENT" /\ PaymentRow(r).ref = r.key
         /\ PaymentRow(r).bal = r.bal + Signed(PaymentRow(r))
<1>1. r.amt \in Nat /\ r.bal \in Int /\ r.bal - r.amt \in Int
  BY DEF Seen
<1> QED
  BY <1>1 DEF PaymentRow, Row, RowType, LedgerType, Kind, SoundRow, Signed

\* An entry appended that is neither a payment nor a purchase nor the opening.
LEMMA AppendOther ==
  ASSUME Inv, NEW e \in RowType, SoundRow(e), e.kind \notin {"PAYMENT", "PURCHASE", "OPENING_BALANCE"}
  PROVE  /\ Append(rows, e) \in Seq(RowType) /\ RowsFit(Append(rows, e), pay, bill)
         /\ ReturnPlaced(Append(rows, e), retStatus, retAt)
<1> DEFINE rs == Append(rows, e)
<1>1. Inserted(rs, rows, Len(rows) + 1, e)
  BY DataFacts, AppendInserts
<1> HIDE DEF rs
<1>2. rs \in Seq(RowType)
  BY <1>1 DEF Inserted
<1>3. RowsFit(rs, pay, bill)
  BY <1>1, DataFacts, FitOther
<1>4. Len(rows) + 1 > retAt
  BY DataFacts
<1>5. ReturnPlaced(rs, retStatus, retAt)
  BY <1>1, <1>4, DataFacts, PlacedOther
<1> QED
  BY <1>2, <1>3, <1>5 DEF rs

LEMMA AdvanceWriteStep ==
  ASSUME Inv, UNCHANGED ops, NEW v \in Worker, AdvanceWrite(v)
  PROVE  Inv'
<1> DEFINE p == on[v]
           r == seen[v]
           newPaid == Lesser(Total[p], r.paid + r.amt)
           e == AdvanceRow(r, p)
<1>1. /\ pc[v] = "advance" /\ rows' = Append(rows, e) /\ paid' = [paid EXCEPT ![p] = newPaid]
      /\ poStatus' = [poStatus EXCEPT ![p] = Settled(r.status, p, newPaid)]
      /\ End(v) /\ UNCHANGED <<opening, retStatus, retAt, applied, billVars, payVars>>
  BY DEF AdvanceWrite, returnVars
<1>2. p \in Po
  BY <1>1 DEF Inv, Relied, ReliedOrder, OnAnOrder, InBill
<1>3. r \in Seen /\ Total[p] \in Nat
  BY <1>2, ReadTypes
<1>4. newPaid \in Nat /\ newPaid <= Total[p] /\ Settled(r.status, p, newPaid) \in OrderStatus
  BY <1>3 DEF Lesser, Settled, Seen, OrderStatus
<1>5. e \in RowType /\ SoundRow(e) /\ e.kind = "ADVANCE"
  BY <1>2, <1>3 DEF AdvanceRow, Row, RowType, Seen, LedgerType, Kind, SoundRow
<1> HIDE DEF e, newPaid, r, p
<1>6. /\ rows' \in Seq(RowType) /\ RowsFit(rows', pay, bill) /\ ReturnPlaced(rows', retStatus', retAt')
  BY <1>1, <1>5, AppendOther
<1>7. /\ paid' \in [Po -> Nat] /\ poStatus' \in [Po -> OrderStatus] /\ applied' \in [Po -> Nat]
  BY <1>1, <1>2, <1>4, DataFacts
<1> QED
  BY <1>1, <1>6, <1>7, DataFacts, EntryStep

LEMMA ApplyWriteStep ==
  ASSUME Inv, UNCHANGED ops, NEW v \in Worker, ApplyWrite(v)
  PROVE  Inv'
<1> DEFINE p == on[v]
           r == seen[v]
<1>1. /\ pc[v] = "apply" /\ End(v) /\ UNCHANGED <<rows, opening, retStatus, retAt, billVars, payVars>>
      /\ \/ /\ paid' = [paid EXCEPT ![p] = r.paid + r.amt]
            /\ applied' = [applied EXCEPT ![p] = r.applied + r.amt]
            /\ poStatus' = [poStatus EXCEPT ![p] = Settled(r.status, p, r.paid + r.amt)]
         \/ UNCHANGED <<poStatus, paid, applied>>
  BY DEF ApplyWrite, ledgerVars, returnVars, orderVars
<1>2. p \in Po
  BY <1>1 DEF Inv, Relied, ReliedOrder, OnAnOrder, InBill
<1>3. r \in Seen
  BY <1>2, ReadTypes
<1>4. r.paid + r.amt \in Nat /\ r.applied + r.amt \in Nat /\ Settled(r.status, p, r.paid + r.amt) \in OrderStatus
  BY <1>3 DEF Settled, Seen, OrderStatus
<1> HIDE DEF r, p
<1>5. /\ paid' \in [Po -> Nat] /\ poStatus' \in [Po -> OrderStatus] /\ applied' \in [Po -> Nat]
  <2>1. CASE UNCHANGED <<poStatus, paid, applied>>
    BY <2>1, DataFacts
  <2>2. CASE paid' # paid \/ applied' # applied \/ poStatus' # poStatus
    <3> DEFINE x == r.paid + r.amt
               y == r.applied + r.amt
               z == Settled(r.status, p, r.paid + r.amt)
    <3>1. /\ paid' = [paid EXCEPT ![p] = x] /\ applied' = [applied EXCEPT ![p] = y]
          /\ poStatus' = [poStatus EXCEPT ![p] = z]
          /\ x \in Nat /\ y \in Nat /\ z \in OrderStatus
      BY <1>1, <1>4, <2>2
    <3> HIDE DEF x, y, z
    <3>2. paid' \in [Po -> Nat] /\ applied' \in [Po -> Nat] /\ poStatus' \in [Po -> OrderStatus]
      BY <1>2, <3>1, DataFacts
    <3> QED
      BY <3>2
  <2> QED
    BY <2>1, <2>2
<1> QED
  BY <1>1, <1>5, DataFacts, EntryStep

LEMMA NewWriteStep ==
  ASSUME Inv, UNCHANGED ops, NEW v \in Worker, NewWrite(v)
  PROVE  Inv'
<1> DEFINE p == on[v]
           r == seen[v]
           fresh == r.amt - r.applied
           e == Row("DEBIT", fresh, r.bal - fresh, "ADVANCE", p)
<1>1. /\ pc[v] = "newWrite" /\ rows' = IF fresh > 0 THEN Append(rows, e) ELSE rows
      /\ poStatus' = [poStatus EXCEPT ![p] = "APPROVED"]
      /\ paid' = [paid EXCEPT ![p] = r.amt] /\ applied' = [applied EXCEPT ![p] = r.applied]
      /\ End(v) /\ UNCHANGED <<opening, retStatus, retAt, billVars, payVars>>
  BY DEF NewWrite, returnVars
<1>2. p \in Po /\ r.applied <= r.amt
  BY <1>1 DEF Inv, Relied, ReliedOrder, OnAnOrder, InBill
<1>3. r \in Seen
  BY ReadTypes
<1>4. r.amt \in Nat /\ r.applied \in Nat /\ "APPROVED" \in OrderStatus
  BY <1>3 DEF Seen, OrderStatus
<1>5. e \in RowType /\ SoundRow(e) /\ e.kind = "ADVANCE"
  <2>1. fresh \in Nat /\ r.bal - fresh \in Int
    BY <1>2, <1>3 DEF Seen
  <2> HIDE DEF fresh
  <2> QED
    BY <1>2, <2>1 DEF Row, RowType, LedgerType, Kind, SoundRow
<1> HIDE DEF e, fresh, r, p
<1>6. /\ rows' \in Seq(RowType) /\ RowsFit(rows', pay, bill) /\ ReturnPlaced(rows', retStatus', retAt')
  BY <1>1, <1>5, AppendOther, DataFacts
<1>7. /\ paid' \in [Po -> Nat] /\ poStatus' \in [Po -> OrderStatus] /\ applied' \in [Po -> Nat]
  <2> DEFINE x == r.amt
             y == r.applied
  <2>1. /\ paid' = [paid EXCEPT ![p] = x] /\ applied' = [applied EXCEPT ![p] = y]
        /\ poStatus' = [poStatus EXCEPT ![p] = "APPROVED"]
        /\ x \in Nat /\ y \in Nat
    BY <1>1, <1>4
  <2> HIDE DEF x, y
  <2>2. paid' \in [Po -> Nat] /\ applied' \in [Po -> Nat] /\ poStatus' \in [Po -> OrderStatus]
    BY <1>2, <1>4, <2>1, DataFacts
  <2> QED
    BY <2>2
<1> QED
  BY <1>1, <1>6, <1>7, DataFacts, EntryStep

LEMMA CancelWriteStep ==
  ASSUME Inv, UNCHANGED ops, NEW v \in Worker, CancelWrite(v)
  PROVE  Inv'
<1> DEFINE p == on[v]
           e == Row("CREDIT", Total[p], 0, "ADJUSTMENT", p)
<1>1. /\ pc[v] = "cancel" /\ rows' = Append(rows, e) /\ poStatus' = [poStatus EXCEPT ![p] = "CANCELLED"]
      /\ End(v) /\ UNCHANGED <<opening, retStatus, retAt, paid, applied, billVars, payVars>>
  BY DEF CancelWrite, returnVars
<1>2. p \in Po
  BY <1>1 DEF Inv, Relied, ReliedOrder, OnAnOrder, InBill
<1>3. Total[p] \in Nat
  BY <1>2, ReadTypes
<1>4. e \in RowType /\ SoundRow(e) /\ e.kind = "ADJUSTMENT"
  BY <1>2, <1>3 DEF Row, RowType, LedgerType, Kind, SoundRow
<1> HIDE DEF e, p
<1>5. /\ rows' \in Seq(RowType) /\ RowsFit(rows', pay, bill) /\ ReturnPlaced(rows', retStatus', retAt')
  BY <1>1, <1>4, AppendOther
<1>6. poStatus' \in [Po -> OrderStatus]
  BY <1>1, DataFacts DEF OrderStatus
<1> QED
  BY <1>1, <1>5, <1>6, DataFacts, EntryStep

LEMMA AdjustWriteStep ==
  ASSUME Inv, UNCHANGED ops, NEW v \in Worker, AdjustWrite(v)
  PROVE  Inv'
<1> DEFINE r == seen[v]
           e == Row(r.type, r.amt, r.bal, "ADJUSTMENT", None)
<1>1. /\ rows' = Append(rows, e) /\ End(v)
      /\ UNCHANGED <<opening, retStatus, retAt, poStatus, paid, applied, billVars, payVars>>
  BY DEF AdjustWrite, returnVars, orderVars
<1>2. r \in Seen
  BY ReadTypes
<1>3. e \in RowType /\ SoundRow(e) /\ e.kind = "ADJUSTMENT"
  BY <1>2 DEF Row, RowType, LedgerType, Kind, SoundRow, Seen
<1> HIDE DEF e
<1>4. /\ rows' \in Seq(RowType) /\ RowsFit(rows', pay, bill) /\ ReturnPlaced(rows', retStatus', retAt')
  BY <1>1, <1>3, AppendOther
<1> QED
  BY <1>1, <1>4, DataFacts, EntryStep

\* The return's entry, placed after its date.
LEMMA PostReturnFits ==
  ASSUME Inv, NEW v \in Worker, PostReturn(v)
  PROVE  /\ rows' \in Seq(RowType) /\ RowsFit(rows', pay, bill)
         /\ ReturnPlaced(rows', retStatus, retAt)
<1> DEFINE e == Row("DEBIT", seen[v].amt, seen[v].bal - seen[v].amt, "RETURN", None)
<1>1. seen[v] \in Seen
  BY ReadTypes
<1>2. e \in RowType /\ SoundRow(e) /\ e.kind = "RETURN"
  BY <1>1 DEF Row, RowType, LedgerType, Kind, SoundRow, Seen
<1>3. rows' = InsertAt(rows, retAt + 1, e)
  BY DEF PostReturn
<1> HIDE DEF e
<1>4. retAt + 1 \in 1..(Len(rows) + 1)
  BY DataFacts
<1>5. Inserted(rows', rows, retAt + 1, e)
  BY <1>2, <1>3, <1>4, DataFacts, InsertAtInserts
<1>6. rows' \in Seq(RowType) /\ RowsFit(rows', pay, bill)
  BY <1>2, <1>5, DataFacts, FitOther DEF Inserted
<1>7. retAt + 1 > retAt
  BY DataFacts
<1>8. ReturnPlaced(rows', retStatus, retAt)
  BY <1>2, <1>5, <1>7, DataFacts, PlacedOther
<1> QED
  BY <1>6, <1>8

LEMMA ReturnWriteStep ==
  ASSUME Inv, UNCHANGED ops, NEW v \in Worker, ReturnWrite(v) \/ SyncWrite(v)
  PROVE  Inv'
<1>1. /\ pc[v] \in {"return", "sync"} /\ PostReturn(v) /\ End(v) /\ retAt' = retAt
      /\ retStatus' \in {retStatus, "COMPLETED"}
      /\ UNCHANGED <<opening, poStatus, paid, applied, billVars, payVars>>
  BY DEF ReturnWrite, SyncWrite, returnVars, orderVars
<1>2. retStatus # "none"
  BY <1>1 DEF Inv, Relied, ReliedReturn
<1>3. rows' \in Seq(RowType) /\ RowsFit(rows', pay, bill) /\ ReturnPlaced(rows', retStatus, retAt)
  BY <1>1, PostReturnFits
<1>4. ReturnPlaced(rows', retStatus', retAt')
  BY <1>1, <1>2, <1>3 DEF ReturnPlaced
<1>5. retStatus' \in {"none", "PENDING", "COMPLETED"} /\ retStatus' # "none"
  BY <1>1, <1>2, DataFacts
<1> QED
  BY <1>1, <1>3, <1>4, <1>5, DataFacts, EntryStep

\* The opening entry, before all others.
LEMMA OpeningIsRow ==
  ASSUME NEW b \in Int
  PROVE  OpeningRow(b) \in RowType /\ SoundRow(OpeningRow(b)) /\ OpeningRow(b).kind = "OPENING_BALANCE"
BY DEF OpeningRow, Row, RowType, LedgerType, Kind, SoundRow

LEMMA AddOpeningFits ==
  ASSUME Inv, NEW b \in Int, AddOpening(b)
  PROVE  /\ rows' \in Seq(RowType) /\ RowsFit(rows', pay, bill)
         /\ ReturnPlaced(rows', retStatus, retAt')
<1> DEFINE e == OpeningRow(b)
<1>1. e \in RowType /\ SoundRow(e) /\ e.kind = "OPENING_BALANCE"
  BY OpeningIsRow
<1>2. rows' = InsertAt(rows, 1, e) /\ retAt' = IF retStatus = "none" THEN retAt ELSE retAt + 1
  BY DEF AddOpening
<1> HIDE DEF e
<1>3. 1 \in 1..(Len(rows) + 1)
  BY DataFacts
<1>4. Inserted(rows', rows, 1, e)
  BY <1>1, <1>2, <1>3, DataFacts, InsertAtInserts
<1>5. rows' \in Seq(RowType) /\ RowsFit(rows', pay, bill)
  BY <1>1, <1>4, DataFacts, FitOther DEF Inserted
<1>6. ReturnPlaced(rows', retStatus, retAt')
  BY <1>2, <1>4, DataFacts, PlacedFirst
<1> QED
  BY <1>5, <1>6

LEMMA InjectWriteStep ==
  ASSUME Inv, UNCHANGED ops, NEW v \in Worker, InjectWrite(v)
  PROVE  Inv'
<1>1. /\ AddOpening(seen[v].bal) /\ End(v)
      /\ UNCHANGED <<opening, retStatus, poStatus, paid, applied, billVars, payVars>>
  BY DEF InjectWrite, orderVars
<1>2. seen[v].bal \in Int
  BY ReadTypes DEF Seen
<1>3. rows' \in Seq(RowType) /\ RowsFit(rows', pay, bill) /\ ReturnPlaced(rows', retStatus', retAt')
  BY <1>1, <1>2, AddOpeningFits
<1> QED
  BY <1>1, <1>3, DataFacts, EntryStep

\* An opening entry is rewritten in its place, or removed.
LEMMA RewriteOpeningFits ==
  ASSUME Inv, NEW b \in Int, NEW i \in DOMAIN rows, rows[i].kind = "OPENING_BALANCE", RewriteOpening(i, b)
  PROVE  /\ rows' \in Seq(RowType) /\ RowsFit(rows', pay, bill)
         /\ ReturnPlaced(rows', retStatus, retAt')
<1> DEFINE rest == RemoveAt(rows, i)
           e == OpeningRow(b)
           old == rows[i]
<1>1. rows \in Seq(RowType) /\ i \in 1..Len(rows) /\ DOMAIN rows = 1..Len(rows)
  BY DataFacts
<1>2. Inserted(rows, rest, i, old)
  BY <1>1, RemoveAtInserts
<1>3. e \in RowType /\ SoundRow(e) /\ e.kind = "OPENING_BALANCE"
  BY OpeningIsRow
<1>4. /\ b # 0 => rows' = [rows EXCEPT ![i] = e] /\ retAt' = retAt
      /\ b = 0 => rows' = rest /\ retAt' = IF retStatus = "none" THEN retAt ELSE retAt - 1
  BY DEF RewriteOpening
<1>5. SoundRow(old) /\ old.kind = "OPENING_BALANCE"
  BY DataFacts DEF RowsFit
<1> HIDE DEF rest, e, old
<1>6. rest \in Seq(RowType) /\ RowsFit(rest, pay, bill)
  BY <1>2, <1>5, DataFacts, FitOther DEF Inserted
<1>7. CASE b = 0
  <2>1. ReturnPlaced(rest, retStatus, IF retStatus = "none" THEN retAt ELSE retAt - 1)
    BY <1>2, <1>5, DataFacts, PlacedRemoved
  <2> QED
    BY <1>4, <1>6, <1>7, <2>1
<1>8. CASE b # 0
  <2>1. rows' = [rows EXCEPT ![i] = e]
    BY <1>4, <1>8
  <2>2. rows' \in Seq(RowType) /\ Len(rows') = Len(rows) /\ rows'[i] = e
        /\ \A j \in 1..Len(rows) : j # i => rows'[j] = rows[j]
    BY <1>1, <1>3, <2>1, ExceptSeq
  <2>3. Inserted(rows', rest, i, e)
    <3>1. /\ Len(rest) \in Nat /\ i \in 1..(Len(rest) + 1) /\ Len(rows) = Len(rest) + 1
          /\ \A j \in 1..Len(rest) : rows[IF j < i THEN j ELSE j + 1] = rest[j]
      BY <1>2, <1>6, LenProperties DEF Inserted
    <3>2. ASSUME NEW j \in 1..Len(rest) PROVE rows'[IF j < i THEN j ELSE j + 1] = rest[j]
      <4> DEFINE k == IF j < i THEN j ELSE j + 1
      <4>1. k \in 1..Len(rows) /\ k # i
        BY <3>1
      <4> HIDE DEF k
      <4>2. rows'[k] = rows[k]
        BY <2>2, <4>1
      <4> QED
        BY <3>1, <4>2 DEF k
    <3> QED
      BY <1>3, <1>6, <2>2, <3>1, <3>2 DEF Inserted
  <2>4. RowsFit(rows', pay, bill)
    BY <1>3, <1>6, <2>3, FitOther
  <2>5. ReturnPlaced(rows', retStatus, retAt')
    <3>1. DOMAIN rows' = 1..Len(rows)
      BY <2>2, LenProperties
    <3>2. \A j \in DOMAIN rows : rows'[j].kind = "OPENING_BALANCE" => rows[j].kind = "OPENING_BALANCE"
      BY <1>1, <1>5, <2>2 DEF old
    <3> QED
      BY <1>1, <1>4, <1>8, <2>2, <3>1, <3>2, DataFacts DEF ReturnPlaced
  <2> QED
    BY <2>2, <2>4, <2>5
<1> QED
  BY <1>7, <1>8

LEMMA EditOpeningWriteStep ==
  ASSUME Inv, UNCHANGED ops, NEW v \in Worker, EditOpeningWrite(v)
  PROVE  Inv'
<1> DEFINE b == seen[v].bal
<1>1. /\ opening' = b /\ End(v) /\ UNCHANGED <<retStatus, poStatus, paid, applied, billVars, payVars>>
      /\ \/ \E i \in DOMAIN rows : rows[i].kind = "OPENING_BALANCE" /\ RewriteOpening(i, b)
         \/ UNCHANGED <<rows, retAt>>
         \/ AddOpening(b)
  BY DEF EditOpeningWrite, orderVars
<1>2. b \in Int
  BY ReadTypes DEF Seen
<1> HIDE DEF b
<1>3. rows' \in Seq(RowType) /\ RowsFit(rows', pay, bill) /\ ReturnPlaced(rows', retStatus', retAt')
  <2>1. CASE \E i \in DOMAIN rows : rows[i].kind = "OPENING_BALANCE" /\ RewriteOpening(i, b)
    BY <1>1, <1>2, <2>1, RewriteOpeningFits
  <2>2. CASE UNCHANGED <<rows, retAt>>
    BY <1>1, <2>2, DataFacts
  <2>3. CASE AddOpening(b)
    BY <1>1, <1>2, <2>3, AddOpeningFits
  <2> QED
    BY <1>1, <2>1, <2>2, <2>3
<1> QED
  BY <1>1, <1>2, <1>3, DataFacts, EntryStep

\* A payment writes its order and reads what settlement is to share.
LEMMA PayTotalsStep ==
  ASSUME Inv, UNCHANGED ops, NEW v \in Worker, PayTotals(v)
  PROVE  Inv'
<1> DEFINE p == on[v]
           n == Unapplied(Append(rows, PaymentRow(seen[v])), PaidBy(p, seen[v]), StatusBy(p, seen[v]))
           r == [seen[v] EXCEPT !.free = n]
<1>1. /\ pc[v] = "payTotals" /\ UNCHANGED data /\ seqLock' = seqLock
      /\ IF p = None THEN poLock' = poLock
         ELSE poLock[p] \in {None, v} /\ poLock' = [poLock EXCEPT ![p] = v]
      /\ pc' = [pc EXCEPT ![v] = "payDue"] /\ on' = on /\ seen' = [seen EXCEPT ![v] = r]
  BY DEF PayTotals, Goto, See, Writable
<1>2. /\ seen[v].key \in Key /\ seen[v].amt > 0 /\ seqLock["VPAY"] = v /\ pay[seen[v].key] = 0
      /\ seen[v].billed => p \in Po /\ bill[p] # "none"
  BY <1>1 DEF Inv, Relied, ReliedPayment, InPayment, Numbered
<1>3. seen[v] \in Seen /\ p \in Po \cup {None}
  BY ReadTypes
<1>4. n \in Nat
  <2>1. PaidBy(p, seen[v]) \in [Po -> Nat]
    BY <1>2, <1>3, PaymentColumns
  <2>2. Append(rows, PaymentRow(seen[v])) \in Seq(RowType)
    <3>1. PaymentRow(seen[v]) \in RowType
      BY <1>2, <1>3, PaymentEntry
    <3> QED
      BY <3>1, DataFacts, AppendProperties
  <2> QED
    BY <2>1, <2>2, SettlingReads
<1> HIDE DEF n
<1>5. r \in Seen /\ r.key = seen[v].key /\ r.amt = seen[v].amt /\ r.billed = seen[v].billed /\ r.paid = seen[v].paid
  BY <1>3, <1>4 DEF Seen
<1> HIDE DEF r
<1>6. on' = [on EXCEPT ![v] = p]
  BY <1>1 DEF Inv, ControlTypes
<1>7. pc'[v] = "payDue" /\ on'[v] = p /\ seen'[v] = r
  <2>1. /\ pc' = [pc EXCEPT ![v] = "payDue"] /\ on' = [on EXCEPT ![v] = p]
        /\ seen' = [seen EXCEPT ![v] = r]
    BY <1>1, <1>6
  <2> HIDE DEF p
  <2> QED
    BY ONLY <2>1, Inv, v \in Worker, StartedAs
<1>8. bill' = bill /\ pay' = pay
  BY <1>1 DEF data, billVars, payVars
<1> HIDE DEF p
<1>9. Relied(v)'
  <2>1. ReliedOrder(v)' /\ ReliedReturn(v)'
    BY <1>7 DEF ReliedOrder, ReliedReturn, OnAnOrder, InBill
  <2>2. ReliedPayment(v)'
    BY <1>1, <1>2, <1>5, <1>7, <1>8 DEF ReliedPayment
  <2> QED
    BY <2>1, <2>2 DEF Relied
<1>10. "payDue" \in PC
  BY DEF PC
<1>11. seqLock \in [Sequence -> Worker \cup {None}] /\ poLock \in [Po -> Worker \cup {None}]
  BY DEF Inv, ControlTypes
<1>12. poLock' \in [Po -> Worker \cup {None}] /\ seqLock' \in [Sequence -> Worker \cup {None}]
  BY <1>1, <1>3, <1>11
<1>13. \A w \in Worker \ {v} : /\ seqLock["VPAY"] = w => seqLock'["VPAY"] = w
                               /\ \A q \in Po : poLock[q] = w => poLock'[q] = w
  BY <1>1, <1>3, <1>11
<1> QED
  BY <1>1, <1>3, <1>5, <1>6, <1>9, <1>10, <1>12, <1>13, MoveStep

\* It reads what is due on each order.
LEMMA PayDueStep ==
  ASSUME Inv, UNCHANGED ops, NEW v \in Worker, PayDue(v)
  PROVE  Inv'
<1> DEFINE p == on[v]
           due == DueOf(PaidBy(p, seen[v]), StatusBy(p, seen[v]))
           r == [seen[v] EXCEPT !.due = due]
<1>1. /\ pc[v] = "payDue" /\ UNCHANGED <<data, locks>>
      /\ pc' = [pc EXCEPT ![v] = "payWrite"] /\ on' = on /\ seen' = [seen EXCEPT ![v] = r]
  BY DEF PayDue, Goto, See
<1>2. /\ seen[v].key \in Key /\ seen[v].amt > 0 /\ seqLock["VPAY"] = v /\ pay[seen[v].key] = 0
      /\ seen[v].billed => p \in Po /\ bill[p] # "none"
  BY <1>1 DEF Inv, Relied, ReliedPayment, InPayment, Numbered
<1>3. seen[v] \in Seen /\ p \in Po \cup {None}
  BY ReadTypes
<1>4. due \in [Po -> Nat] /\ \A q \in Po : due[q] <= Total[q]
  <2>1. PaidBy(p, seen[v]) \in [Po -> Nat]
    BY <1>2, <1>3, PaymentColumns
  <2> QED
    BY <2>1, DataFacts, SettlingReads
<1> HIDE DEF due
<1>5. /\ r \in Seen /\ r.key = seen[v].key /\ r.amt = seen[v].amt /\ r.billed = seen[v].billed
      /\ r.paid = seen[v].paid /\ r.due = due
  BY <1>3, <1>4 DEF Seen
<1> HIDE DEF r
<1>6. on' = [on EXCEPT ![v] = p]
  BY <1>1 DEF Inv, ControlTypes
<1>7. pc'[v] = "payWrite" /\ on'[v] = p /\ seen'[v] = r
  <2>1. /\ pc' = [pc EXCEPT ![v] = "payWrite"] /\ on' = [on EXCEPT ![v] = p]
        /\ seen' = [seen EXCEPT ![v] = r]
    BY <1>1, <1>6
  <2> HIDE DEF p
  <2> QED
    BY ONLY <2>1, Inv, v \in Worker, StartedAs
<1>8. bill' = bill /\ pay' = pay /\ seqLock' = seqLock
  BY <1>1 DEF data, billVars, payVars, locks
<1> HIDE DEF p
<1>9. Relied(v)'
  <2>1. ReliedOrder(v)' /\ ReliedReturn(v)'
    BY <1>7 DEF ReliedOrder, ReliedReturn, OnAnOrder, InBill
  <2>2. ReliedPayment(v)'
    BY <1>2, <1>4, <1>5, <1>7, <1>8 DEF ReliedPayment
  <2> QED
    BY <2>1, <2>2 DEF Relied
<1>10. "payWrite" \in PC
  BY DEF PC
<1> QED
  BY <1>1, <1>3, <1>5, <1>6, <1>9, <1>10, ReadStep

\* A bill reads what settlement is to share, and then what is due on each order.
LEMMA BillReadsStep ==
  ASSUME Inv, UNCHANGED ops, NEW v \in Worker, BillTotals(v) \/ BillDue(v)
  PROVE  Inv'
<1> DEFINE p == on[v]
           n == Unapplied(rows, paid, Received(p))
           due == DueOf(paid, Received(p))
<1>1. pc[v] \in {"billTotals", "billDue"} /\ UNCHANGED <<data, locks>> /\ on' = on
  BY DEF BillTotals, BillDue, Goto
<1>2. p \in Po /\ poLock[p] = v /\ bill[p] = "none"
  BY <1>1 DEF Inv, Relied, ReliedOrder, OnAnOrder, InBill
<1>3. seen[v] \in Seen /\ p \in Po \cup {None}
  BY ReadTypes
<1>4. n \in Nat /\ due \in [Po -> Nat] /\ \A q \in Po : due[q] <= Total[q]
  BY DataFacts, SettlingReads
<1> HIDE DEF n, due
<1>5. PICK c \in {"billDue", "bill"}, r \in Seen :
        /\ pc' = [pc EXCEPT ![v] = c] /\ seen' = [seen EXCEPT ![v] = r]
        /\ c = "bill" => \A q \in Po : r.due[q] <= Total[q]
  <2>1. CASE BillTotals(v)
    <3> DEFINE r == [seen[v] EXCEPT !.free = n]
    <3>1. r \in Seen
      BY <1>3, <1>4 DEF Seen
    <3>2. pc' = [pc EXCEPT ![v] = "billDue"] /\ seen' = [seen EXCEPT ![v] = r]
      BY <2>1 DEF BillTotals, Goto, See, n
    <3> QED
      BY <3>1, <3>2
  <2>2. CASE BillDue(v)
    <3> DEFINE r == [seen[v] EXCEPT !.due = due]
    <3>1. r \in Seen /\ r.due = due
      BY <1>3, <1>4 DEF Seen
    <3>2. pc' = [pc EXCEPT ![v] = "bill"] /\ seen' = [seen EXCEPT ![v] = r]
      BY <2>2 DEF BillDue, Goto, See, due
    <3> QED
      BY <1>4, <3>1, <3>2
  <2> QED
    BY <2>1, <2>2
<1>6. on' = [on EXCEPT ![v] = p]
  BY <1>1 DEF Inv, ControlTypes
<1>7. pc'[v] = c /\ on'[v] = p /\ seen'[v] = r
  <2>1. pc' = [pc EXCEPT ![v] = c] /\ on' = [on EXCEPT ![v] = p] /\ seen' = [seen EXCEPT ![v] = r]
    BY <1>5, <1>6
  <2> HIDE DEF p
  <2> QED
    BY ONLY <2>1, Inv, v \in Worker, StartedAs
<1>8. bill' = bill /\ poLock' = poLock
  BY <1>1 DEF data, billVars, locks
<1> HIDE DEF p
<1>9. Relied(v)'
  <2>1. ReliedPayment(v)' /\ ReliedReturn(v)'
    BY <1>7 DEF ReliedPayment, ReliedReturn, InPayment, Numbered
  <2>2. ReliedOrder(v)'
    BY <1>2, <1>5, <1>7, <1>8 DEF ReliedOrder
  <2> QED
    BY <2>1, <2>2 DEF Relied
<1>10. c \in PC
  BY DEF PC
<1> QED
  BY <1>1, <1>3, <1>5, <1>6, <1>9, <1>10, ReadStep

\* A payment: its entry, its record, its bill, and the orders.
LEMMA PayWriteStep ==
  ASSUME Inv, UNCHANGED ops, NEW v \in Worker, PayWrite(v)
  PROVE  Inv'
<1> DEFINE p == on[v]
           r == seen[v]
           k == r.key
           a == r.amt
           d == IF r.billed THEN p ELSE None
           e == PaymentRow(r)
           pd == PaidBy(p, r)
           st == StatusBy(p, r)
           rs == Append(rows, e)
           s == Settle(r, pd, st)
<1>1. /\ pc[v] = "payWrite" /\ rows' = rs /\ pay' = [pay EXCEPT ![k] = a]
      /\ payBill' = [payBill EXCEPT ![k] = d]
      /\ paid' = s.paid /\ poStatus' = s.status /\ End(v)
      /\ UNCHANGED <<opening, retStatus, retAt, applied, billAdvance>>
      /\ bill' = IF r.billed THEN BillAfterPayment(p, a) ELSE bill
  BY DEF PayWrite, returnVars
<1>2. a > 0
  BY <1>1 DEF Inv, Relied, ReliedPayment, InPayment, Numbered
<1>3. seqLock["VPAY"] = v /\ pay[k] = 0 /\ \A q \in Po : r.due[q] <= Total[q]
  BY <1>1 DEF Inv, Relied, ReliedPayment, Numbered
<1>4. k \in Key /\ (r.billed => p \in Po /\ bill[p] # "none")
  BY <1>1 DEF Inv, Relied, ReliedPayment, InPayment, Numbered
<1>5. r \in Seen /\ p \in Po \cup {None} /\ a \in Nat /\ d \in Po \cup {None} /\ a # 0
  BY <1>2, <1>4, ReadTypes DEF Seen
<1>6. e \in RowType /\ SoundRow(e) /\ e.kind = "PAYMENT" /\ e.ref = k
  BY <1>4, <1>5, PaymentEntry
<1>7. pd \in [Po -> Nat] /\ st \in [Po -> OrderStatus]
  BY <1>3, <1>5, PaymentColumns
<1>8. Inserted(rs, rows, Len(rows) + 1, e)
  BY <1>6, DataFacts, AppendInserts
<1>9. bill' \in [Po -> BillStatus] /\ \A q \in Po : bill'[q] = "none" <=> bill[q] = "none"
  <2>1. CASE r.billed
    BY <1>1, <1>4, <2>1, DataFacts DEF BillAfterPayment, BillStatus
  <2>2. CASE ~ r.billed
    BY <1>1, <2>2, DataFacts
  <2> QED
    BY <2>1, <2>2
<1> HIDE DEF e, pd, st
<1>10. RowsFit(rs, pay', bill')
  <2>1. pay'[k] # 0 /\ \A l \in Key \ {k} : pay'[l] = pay[l]
    BY <1>1, <1>4, <1>5, DataFacts
  <2>2. RowsFit(rows, pay, bill)
    BY DataFacts
  <2> HIDE DEF rs, k
  <2> QED
    BY ONLY <1>3, <1>4, <1>6, <1>8, <1>9, <2>1, <2>2, FitPayment
<1>11. rs \in Seq(RowType) /\ ReturnPlaced(rs, retStatus, retAt)
  <2>1. Len(rows) + 1 > retAt
    BY DataFacts
  <2> HIDE DEF rs
  <2> QED
    BY <1>6, <1>8, <2>1, DataFacts, PlacedOther DEF Inserted
<1>12. /\ s.paid \in [Po -> Nat] /\ s.status \in [Po -> OrderStatus]
  BY <1>3, <1>5, <1>7, Settling
<1>13. Covered(bill', billAdvance', pay', payBill')
  <2> DEFINE Before(q) == Linked(pay, payBill, q)
             After(q) == Linked(pay', payBill', q)
  <2>1. \A q \in Po : Before(q) \in Nat /\ After(q) = Before(q) + IF q = d THEN a ELSE 0
    <3>1. /\ pay \in [Key -> Nat] /\ payBill \in [Key -> Po \cup {None}] /\ k \in Key /\ pay[k] = 0
          /\ a \in Nat /\ d \in Po \cup {None}
      BY <1>3, <1>4, <1>5, DataFacts
    <3>2. /\ pay'[k] = a /\ \A l \in Key \ {k} : pay'[l] = pay[l]
          /\ payBill'[k] = d /\ \A l \in Key \ {k} : payBill'[l] = payBill[l]
      BY <1>1, <1>4, DataFacts
    <3> HIDE DEF k, a, d
    <3> QED
      BY ONLY <3>1, <3>2, PaymentCovers DEF Before, After
  <2>2. billAdvance' = billAdvance /\ billAdvance \in [Po -> Nat]
    BY <1>1, DataFacts
  <2>3. \A q \in Po : bill[q] = "PAID" => Total[q] <= billAdvance[q] + Before(q)
    BY DataFacts DEF Covered
  <2>4. \A q \in Po : bill'[q] = "PAID" /\ bill[q] # "PAID" =>
                        r.billed /\ q = p /\ Before(q) + a + billAdvance[q] >= Total[q]
    BY <1>1, DataFacts DEF BillAfterPayment, BillPayments, Linked
  <2> HIDE DEF Before, After
  <2>5. ASSUME NEW q \in Po, bill'[q] = "PAID" PROVE Total[q] <= billAdvance'[q] + After(q)
    <3>1. Total[q] \in Nat /\ billAdvance[q] \in Nat /\ Before(q) \in Nat /\ a \in Nat
      BY <1>5, <2>1, <2>2
    <3>2. CASE bill[q] = "PAID"
      <4>1. Total[q] <= billAdvance[q] + Before(q) /\ After(q) >= Before(q)
        <5> HIDE DEF a, d
        <5>1. After(q) = Before(q) + IF q = d THEN a ELSE 0
          BY <2>1
        <5> QED
          BY <2>3, <3>1, <3>2, <5>1
      <4>2. After(q) \in Nat
        <5> HIDE DEF a, d
        <5>1. After(q) = Before(q) + IF q = d THEN a ELSE 0
          BY <2>1
        <5> QED
          BY <3>1, <5>1
      <4> HIDE DEF a
      <4> QED
        BY <2>2, <3>1, <4>1, <4>2
    <3>3. CASE bill[q] # "PAID"
      <4>1. q = d /\ Before(q) + a + billAdvance[q] >= Total[q]
        BY <2>4, <2>5, <3>3
      <4>2. After(q) = Before(q) + a
        BY <2>1, <4>1
      <4> HIDE DEF a, d
      <4> QED
        BY <2>2, <3>1, <4>1, <4>2
    <3> QED
      BY <3>2, <3>3
  <2> QED
    BY <2>5 DEF Covered, After
<1>14. DataTypes'
  <2> HIDE DEF rs, k, a, d, s
  <2>1. pay' \in [Key -> Nat] /\ payBill' \in [Key -> Po \cup {None}]
    BY <1>1, <1>5, DataFacts
  <2> QED
    BY <1>1, <1>9, <1>11, <1>12, <2>1, DataFacts DEF DataTypes
<1>16. Sound'
  <2> HIDE DEF rs
  <2> QED
    BY <1>1, <1>10, <1>11, <1>13, <1>14 DEF Sound
<1>17. KeepsData(v)
  <2> HIDE DEF k
  <2> QED
    BY <1>1, <1>3, <1>9 DEF KeepsData
<1> QED
  BY <1>1, <1>16, <1>17, WriteStep

\* A bill: its entry, its advance, and the orders.
LEMMA BillPostStep ==
  ASSUME Inv, UNCHANGED ops, NEW v \in Worker, BillPost(v)
  PROVE  Inv'
<1> DEFINE p == on[v]
           e == Row("CREDIT", Total[p], seen[v].bal + Total[p], "PURCHASE", p)
           advance == Lesser(Total[p], applied[p])
           st == Received(p)
           rs == Append(rows, e)
           s == Settle(seen[v], paid, st)
<1>1. /\ pc[v] = "bill" /\ rows' = rs
      /\ bill' = [bill EXCEPT ![p] = IF advance >= Total[p] THEN "PAID" ELSE "PENDING"]
      /\ billAdvance' = [billAdvance EXCEPT ![p] = advance]
      /\ paid' = s.paid /\ poStatus' = s.status /\ End(v)
      /\ UNCHANGED <<opening, retStatus, retAt, applied, pay, payBill>>
  BY DEF BillPost, returnVars, payVars
<1>2. p \in Po /\ poLock[p] = v /\ bill[p] = "none" /\ \A q \in Po : seen[v].due[q] <= Total[q]
  BY <1>1 DEF Inv, Relied, ReliedOrder, OnAnOrder, InBill
<1>3. Total[p] \in Nat /\ applied[p] \in Nat /\ seen[v] \in Seen
  BY <1>2, ReadTypes
<1>4. e \in RowType /\ SoundRow(e) /\ e.kind = "PURCHASE" /\ e.ref = p /\ e.type = "CREDIT" /\ e.amount = Total[p]
  <2>1. seen[v].bal + Total[p] \in Int
    BY <1>3 DEF Seen
  <2> HIDE DEF p
  <2> QED
    BY <1>2, <1>3, <2>1 DEF Row, RowType, LedgerType, Kind, SoundRow
<1>5. advance \in Nat
  BY <1>3 DEF Lesser
<1>6. st \in [Po -> OrderStatus]
  BY DataFacts DEF OrderStatus, Received
<1>7. Inserted(rs, rows, Len(rows) + 1, e)
  BY <1>4, DataFacts, AppendInserts
<1>8. /\ bill' \in [Po -> BillStatus] /\ bill'[p] # "none" /\ \A q \in Po \ {p} : bill'[q] = bill[q]
      /\ bill'[p] = "PAID" => advance >= Total[p]
  BY <1>1, <1>2, DataFacts DEF BillStatus
<1> HIDE DEF e, st, p, advance
<1>9. RowsFit(rs, pay, bill')
  <2>1. RowsFit(rows, pay, bill)
    BY DataFacts
  <2> HIDE DEF rs
  <2> QED
    BY ONLY <1>2, <1>4, <1>7, <1>8, <2>1, FitPurchase
<1>10. rs \in Seq(RowType) /\ ReturnPlaced(rs, retStatus, retAt)
  <2>1. Len(rows) + 1 > retAt
    BY DataFacts
  <2> HIDE DEF rs
  <2> QED
    BY <1>4, <1>7, <2>1, DataFacts, PlacedOther DEF Inserted
<1>11. /\ s.paid \in [Po -> Nat] /\ s.status \in [Po -> OrderStatus]
  BY <1>2, <1>3, <1>6, DataFacts, Settling
<1>12. Covered(bill', billAdvance', pay', payBill')
  <2> DEFINE Before(q) == Linked(pay, payBill, q)
  <2>1. \A q \in Po : Before(q) \in Nat
    <3> SUFFICES ASSUME NEW q \in Po PROVE Before(q) \in Nat
      OBVIOUS
    <3> DEFINE S == {l \in Key : payBill[l] = q}
    <3>1. IsFiniteSet(S) /\ Nats(pay, S)
      BY FS_Subset, DataFacts DEF Nats
    <3> HIDE DEF S
    <3>2. SumOf(pay, S) \in Nat
      BY <3>1, SumNat
    <3> QED
      BY <3>2 DEF S, Linked
  <2>2. ASSUME NEW q \in Po, bill'[q] = "PAID" PROVE Total[q] <= billAdvance'[q] + Before(q)
    <3> HIDE DEF Before
    <3>1. CASE q = p
      <4>1. billAdvance'[q] = advance /\ advance >= Total[q]
        BY <1>1, <1>2, <1>8, <2>2, <3>1, DataFacts
      <4> QED
        BY <1>3, <1>5, <2>1, <3>1, <4>1
    <3>2. CASE q # p
      <4>1. billAdvance'[q] = billAdvance[q] /\ bill[q] = "PAID"
        BY <1>1, <1>8, <2>2, <3>2, DataFacts
      <4> QED
        BY <4>1, DataFacts DEF Covered, Before
    <3> QED
      BY <3>1, <3>2
  <2> QED
    BY <1>1, <2>2 DEF Covered
<1>13. DataTypes'
  <2> HIDE DEF rs, s
  <2>1. billAdvance' \in [Po -> Nat]
    BY <1>1, <1>5, DataFacts
  <2> QED
    BY <1>1, <1>8, <1>10, <1>11, <2>1, DataFacts DEF DataTypes
<1>15. Sound'
  <2> HIDE DEF rs
  <2> QED
    BY <1>1, <1>9, <1>10, <1>12, <1>13 DEF Sound
<1>16. KeepsData(v)
  BY <1>1, <1>2, <1>8 DEF KeepsData
<1> QED
  BY <1>1, <1>15, <1>16, WriteStep

\* An approval of a bill changes its status alone.
LEMMA ApproveBillWriteStep ==
  ASSUME Inv, UNCHANGED ops, NEW v \in Worker, ApproveBillWrite(v)
  PROVE  Inv'
<1> DEFINE p == on[v]
<1>1. /\ pc[v] = "approveBill" /\ bill' = [bill EXCEPT ![p] = "APPROVED"] /\ End(v)
      /\ UNCHANGED <<rows, opening, retStatus, retAt, poStatus, paid, applied, billAdvance, pay, payBill>>
  BY DEF ApproveBillWrite, ledgerVars, returnVars, orderVars, payVars
<1>2. p \in Po /\ bill[p] # "none"
  BY <1>1 DEF Inv, Relied, ReliedOrder, OnAnOrder, InBill
<1> HIDE DEF p
<1>3. /\ bill' \in [Po -> BillStatus] /\ \A q \in Po : bill'[q] = "none" <=> bill[q] = "none"
      /\ \A q \in Po : bill'[q] = "PAID" => bill[q] = "PAID"
  BY <1>1, <1>2, DataFacts DEF BillStatus
<1>4. RowsFit(rows', pay', bill')
  <2>1. {q \in Po : bill'[q] # "none"} = {q \in Po : bill[q] # "none"}
    BY <1>3
  <2> QED
    BY <1>1, <1>3, <2>1, DataFacts DEF RowsFit
<1>5. Covered(bill', billAdvance', pay', payBill') /\ ReturnPlaced(rows', retStatus', retAt')
  BY <1>1, <1>3, DataFacts DEF Covered
<1>6. DataTypes'
  BY <1>1, <1>3, DataFacts DEF DataTypes
<1>7. Sound' /\ KeepsData(v)
  BY <1>1, <1>3, <1>4, <1>5, <1>6 DEF Sound, KeepsData
<1> QED
  BY <1>1, <1>7, WriteStep

-----------------------------------------------------------------------------
(* The invariant holds throughout. *)

LEMMA InitInv == Init => Inv
<1> SUFFICES ASSUME Init PROVE Inv
  OBVIOUS
<1>1. ops \in Families /\ rows = << >> /\ retAt = 0 /\ retStatus \in {"none", "COMPLETED"} /\ opening \in Int
  BY DEF Init
<1>2. /\ poStatus \in [Po -> OrderStatus] /\ paid \in [Po -> Nat] /\ applied \in [Po -> Nat]
      /\ bill \in [Po -> BillStatus] /\ billAdvance \in [Po -> Nat]
      /\ pay \in [Key -> Nat] /\ payBill \in [Key -> Po \cup {None}]
      /\ \A p \in Po : paid[p] = 0 /\ bill[p] = "none"
  BY DEF Init, OrderStatus, BillStatus
<1>3. ControlTypes
  BY DEF Init, ControlTypes, PC, NothingSeen, Seen, OrderStatus, LedgerType
<1>4. \A w \in Worker : Relied(w)
  BY DEF Init, Relied, ReliedOrder, ReliedPayment, ReliedReturn, OnAnOrder, InBill, InPayment,
         Numbered
<1>5. rows \in Seq(RowType) /\ Len(rows) = 0 /\ DOMAIN rows = {}
  BY <1>1
<1>6. DataTypes
  BY <1>1, <1>2, <1>5 DEF DataTypes
<1>8. RowsFit(rows, pay, bill)
  <2>1. {p \in Po : bill[p] # "none"} = {}
    BY <1>2
  <2>2. TotalOf(rows, "CREDIT", {"PURCHASE"}) = 0
    BY <1>5, SumEmpty DEF TotalOf
  <2>3. SumOf(Total, {p \in Po : bill[p] # "none"}) = 0
    BY <2>1, SumEmpty
  <2> QED
    BY <1>2, <1>5, <2>2, <2>3 DEF RowsFit, Unique, Absent
<1>9. ReturnPlaced(rows, retStatus, retAt)
  BY <1>1, <1>5 DEF ReturnPlaced
<1>10. Covered(bill, billAdvance, pay, payBill)
  BY <1>2 DEF Covered
<1>11. Sound
  BY <1>6, <1>8, <1>9, <1>10 DEF Sound
<1> QED
  BY <1>1, <1>3, <1>4, <1>11 DEF Inv

LEMMA ArriveStep ==
  ASSUME Inv, UNCHANGED ops, NEW v \in Worker, Arrive(v)
  PROVE  Inv'
<1>1. CASE \E p \in Po : ApplyRead(v, p) \/ BillLock(v, p) \/ ApproveBillRead(v, p) \/ CancelRead(v, p)
  BY <1>1, ApplyReadStep, BillLockStep, ApproveBillReadStep, CancelReadStep
<1>2. CASE \E p \in Po, a \in Amounts : AdvanceRead(v, p, a) \/ NewRead(v, p, a)
  BY <1>2, AdvanceReadStep, NewReadStep
<1>3. CASE \E k \in Key, p \in Po \cup {None}, a \in Amounts, billed \in BOOLEAN : PayCheck(v, k, p, a, billed)
  BY <1>3, PayCheckStep
<1>4. CASE ReturnCreate(v)
  BY <1>4, ReturnCreateStep
<1>5. CASE \/ \E t \in LedgerType, a \in Amounts : AdjustRead(v, t, a)
           \/ ReturnRead(v) \/ SyncRead(v) \/ InjectRead(v)
           \/ \E b \in Openings : EditOpening(v, b)
  BY <1>5, OffOrderReads
<1> QED
  BY <1>1, <1>2, <1>3, <1>4, <1>5 DEF Arrive

LEMMA InvStep == Inv /\ [Next]_vars => Inv'
<1> SUFFICES ASSUME Inv, [Next]_vars PROVE Inv'
  OBVIOUS
<1>1. CASE UNCHANGED vars
  <2>1. UNCHANGED <<ops, rows, opening, retStatus, retAt, poStatus, paid, applied, bill, billAdvance, pay, payBill,
                    seqLock, poLock, pc, on, seen>>
    BY <1>1 DEF vars, data, locks, ledgerVars, returnVars, orderVars, billVars, payVars
  <2> QED
    BY ONLY <2>1, Inv
       DEF Inv, Sound, DataTypes, ControlTypes, RowsFit, ReturnPlaced, Covered,
           Relied, ReliedOrder, ReliedPayment, ReliedReturn
<1>2. ASSUME NEW v \in Worker, UNCHANGED ops, Arrive(v) \/ Step(v) \/ Timeout(v) PROVE Inv'
  <2>1. CASE Arrive(v)
    BY <1>2, <2>1, ArriveStep
  <2>2. CASE Timeout(v) \/ PayRefused(v)
    BY <1>2, <2>2, EndOnly DEF Timeout, PayRefused
  <2>3. CASE AdvanceWrite(v)
    BY <1>2, <2>3, AdvanceWriteStep
  <2>4. CASE ApplyReadAvailable(v)
    BY <1>2, <2>4, ApplyReadAvailableStep
  <2>5. CASE ApplyWrite(v)
    BY <1>2, <2>5, ApplyWriteStep
  <2>6. CASE PayLock(v)
    BY <1>2, <2>6, PayLockStep
  <2>7. CASE PayReadPO(v)
    BY <1>2, <2>7, PayReadPOStep
  <2>18. CASE PayTotals(v) \/ PayDue(v)
    BY <1>2, <2>18, PayTotalsStep, PayDueStep
  <2>19. CASE BillTotals(v) \/ BillDue(v)
    BY <1>2, <2>19, BillReadsStep
  <2>8. CASE PayWrite(v)
    BY <1>2, <2>8, PayWriteStep
  <2>9. CASE NewLock(v)
    BY <1>2, <2>9, NewLockStep
  <2>10. CASE NewWrite(v)
    BY <1>2, <2>10, NewWriteStep
  <2>11. CASE BillPost(v)
    BY <1>2, <2>11, BillPostStep
  <2>12. CASE ApproveBillWrite(v)
    BY <1>2, <2>12, ApproveBillWriteStep
  <2>13. CASE CancelWrite(v)
    BY <1>2, <2>13, CancelWriteStep
  <2>14. CASE AdjustWrite(v)
    BY <1>2, <2>14, AdjustWriteStep
  <2>15. CASE ReturnWrite(v) \/ SyncWrite(v)
    BY <1>2, <2>15, ReturnWriteStep
  <2>16. CASE InjectWrite(v)
    BY <1>2, <2>16, InjectWriteStep
  <2>17. CASE EditOpeningWrite(v)
    BY <1>2, <2>17, EditOpeningWriteStep
  <2> QED
    BY <1>2, <2>1, <2>2, <2>3, <2>4, <2>5, <2>6, <2>7, <2>8, <2>9, <2>10, <2>11, <2>12, <2>13, <2>14,
       <2>15, <2>16, <2>17, <2>18, <2>19 DEF Step
<1> QED
  BY <1>1, <1>2 DEF Next

\* The facts above hold in every state.
THEOREM Invariance == Spec => []Inv
<1> QED
  BY InitInv, InvStep, PTL DEF Spec

\* Every amount is a natural, every balance an integer, every status of its enum; the
\* return's entry always finds its place in the ledger.
THEOREM TypeCorrect == Spec => []TypeOK
<1>1. Inv => TypeOK
  BY DEF Inv, Sound, DataTypes, ControlTypes, TypeOK, RowType
<1> QED
  BY <1>1, Invariance, PTL

-----------------------------------------------------------------------------
(* What is promised. *)

\* As a count: none, or one.
LEMMA UniqueCount ==
  ASSUME NEW rs \in Seq(RowType), NEW kind, NEW ref, Unique(rs, kind, ref)
  PROVE  Cardinality({i \in DOMAIN rs : rs[i].kind = kind /\ rs[i].ref = ref}) =
           IF Absent(rs, kind, ref) THEN 0 ELSE 1
<1> DEFINE S == {i \in DOMAIN rs : rs[i].kind = kind /\ rs[i].ref = ref}
<1>1. CASE Absent(rs, kind, ref)
  <2>1. S = {}
    BY <1>1 DEF Absent
  <2>2. Cardinality(S) = 0
    BY <2>1, FS_EmptySet
  <2> QED
    BY <1>1, <2>2
<1>2. CASE ~ Absent(rs, kind, ref)
  <2>1. PICK i \in DOMAIN rs : rs[i].kind = kind /\ rs[i].ref = ref
    BY <1>2 DEF Absent
  <2>2. S = {i}
    BY <2>1 DEF Unique
  <2>3. Cardinality(S) = 1
    BY <2>2, FS_Singleton
  <2> QED
    BY <1>2, <2>3
<1> QED
  BY <1>1, <1>2

\* A payment retried under its key reaches the ledger at most once: with any number of
\* requests, orders and keys.
THEOREM PaymentsSafe == Spec => []OnePaymentPerKey
<1>1. ASSUME Inv PROVE OnePaymentPerKey
  <2> SUFFICES ASSUME NEW k \in Key
               PROVE  Cardinality({i \in DOMAIN rows : rows[i].kind = "PAYMENT" /\ rows[i].ref = k}) <= 1
    BY DEF OnePaymentPerKey
  <2>1. rows \in Seq(RowType) /\ Unique(rows, "PAYMENT", k)
    BY <1>1, DataFacts DEF RowsFit
  <2> DEFINE n == Cardinality({i \in DOMAIN rows : rows[i].kind = "PAYMENT" /\ rows[i].ref = k})
  <2>2. n = IF Absent(rows, "PAYMENT", k) THEN 0 ELSE 1
    BY <2>1, UniqueCount
  <2> HIDE DEF n
  <2>3. n <= 1
    BY <2>2
  <2> QED
    BY <2>3 DEF n
<1> QED
  BY <1>1, Invariance, PTL

\* What a step of the ledger's requests may do to what the orders show as paid.
Raised == \A p \in Po : paid'[p] > paid[p] => paid'[p] <= Total[p] \/ Created(p)

\* A payment is added to its order as far as the order's total, and then shared out of
\* what was due on the orders.
LEMMA PayWriteRaises == ASSUME Inv, NEW v \in Worker, PayWrite(v) PROVE Raised
<1> DEFINE p == on[v]
           r == seen[v]
           pd == PaidBy(p, r)
           st == StatusBy(p, r)
           s == Settle(r, pd, st)
<1>1. pc[v] = "payWrite" /\ paid' = s.paid
  BY DEF PayWrite
<1>2. r \in Seen /\ p \in Po \cup {None} /\ \A q \in Po : r.due[q] <= Total[q]
  BY <1>1, ReadTypes DEF Inv, Relied, ReliedPayment
<1>3. /\ pd \in [Po -> Nat] /\ st \in [Po -> OrderStatus]
      /\ \A q \in Po : pd[q] <= Total[q] \/ pd[q] = paid[q]
  BY <1>2, PaymentColumns
<1> HIDE DEF pd, st, r
<1>4. \A q \in Po : s.paid[q] <= Total[q] \/ s.paid[q] = pd[q]
  BY ONLY SMTT(30), <1>2, <1>3, Settling
<1> HIDE DEF s
<1>5. paid \in [Po -> Nat]
  BY DataFacts
<1> QED
  BY <1>1, <1>3, <1>4, <1>5 DEF Raised

\* A bill shares out what was due, too.
LEMMA BillPostRaises == ASSUME Inv, NEW v \in Worker, BillPost(v) PROVE Raised
<1> DEFINE r == seen[v]
           st == Received(on[v])
           s == Settle(r, paid, st)
<1>1. pc[v] = "bill" /\ paid' = s.paid
  BY DEF BillPost
<1>2. r \in Seen /\ \A q \in Po : r.due[q] <= Total[q]
  BY <1>1, ReadTypes DEF Inv, Relied, ReliedOrder
<1>3. paid \in [Po -> Nat] /\ st \in [Po -> OrderStatus]
  BY DataFacts DEF OrderStatus, Received
<1> HIDE DEF st, r
<1>4. \A q \in Po : s.paid[q] <= Total[q] \/ s.paid[q] = paid[q]
  BY ONLY SMTT(30), <1>2, <1>3, Settling
<1> HIDE DEF s
<1> QED
  BY <1>1, <1>3, <1>4 DEF Raised

\* One order's column is written with what does not exceed its total.
LEMMA ColumnRaises ==
  ASSUME Inv, NEW p \in Po, NEW n, n <= Total[p], paid' = [paid EXCEPT ![p] = n]
  PROVE  Raised
<1>1. paid \in [Po -> Nat]
  BY DataFacts
<1>2. \A q \in Po : paid'[q] = IF q = p THEN n ELSE paid[q]
  BY <1>1
<1> QED
  BY <1>1, <1>2 DEF Raised

\* The other writes of the column: an advance, credit that is applied, a new order.
LEMMA OrderWriteRaises ==
  ASSUME Inv, NEW v \in Worker, AdvanceWrite(v) \/ ApplyWrite(v) \/ NewWrite(v)
  PROVE  Raised
<1> DEFINE p == on[v]
           r == seen[v]
<1>1. p \in Po /\ r \in Seen /\ Total[p] \in Nat
  <2>1. pc[v] \in OnAnOrder
    BY DEF AdvanceWrite, ApplyWrite, NewWrite, OnAnOrder
  <2> QED
    BY <2>1, ReadTypes DEF Inv, Relied, ReliedOrder
<1>2. CASE AdvanceWrite(v)
  <2> DEFINE n == Lesser(Total[p], r.paid + r.amt)
  <2>1. paid' = [paid EXCEPT ![p] = n]
    BY <1>2 DEF AdvanceWrite
  <2>2. n <= Total[p]
    BY <1>1 DEF Lesser, Seen
  <2> HIDE DEF n, p
  <2> QED
    BY <1>1, <2>1, <2>2, ColumnRaises
<1>3. CASE ApplyWrite(v)
  <2>1. pc[v] = "apply" /\ (paid' = [paid EXCEPT ![p] = r.paid + r.amt] \/ paid' = paid)
    BY <1>3 DEF ApplyWrite, orderVars
  <2> DEFINE n == r.paid + r.amt
  <2>2. n <= Total[p]
    BY <2>1 DEF Inv, Relied, ReliedOrder
  <2>3. CASE paid' = [paid EXCEPT ![p] = n]
    <3> HIDE DEF n, p
    <3> QED
      BY <1>1, <2>2, <2>3, ColumnRaises
  <2>4. CASE paid' = paid
    BY <2>4, DataFacts DEF Raised
  <2> QED
    BY <2>1, <2>3, <2>4
<1>4. CASE NewWrite(v)
  <2>1. pc[v] = "newWrite" /\ pc'[v] = "idle" /\ paid' = [paid EXCEPT ![p] = r.amt]
    BY <1>4 DEF NewWrite, End, Inv, ControlTypes
  <2>2. Created(p)
    BY <2>1 DEF Created
  <2>3. \A q \in Po \ {p} : paid'[q] = paid[q] /\ paid[q] \in Nat
    BY <1>1, <2>1, DataFacts
  <2> HIDE DEF p
  <2> QED
    BY <2>2, <2>3 DEF Raised
<1> QED
  BY <1>2, <1>3, <1>4

\* Once an order exists, nothing raises what it shows as paid above its total: however
\* long before the write the outstanding amount, the columns and what was due were read,
\* and whatever requests come in between.
THEOREM RaisedSafe == Spec => PaidRaisedWithinTotal
<1>1. ASSUME Inv, [Next]_vars PROVE [Raised]_vars
  <2>1. CASE paid' = paid
    BY <1>1, <2>1, DataFacts DEF Raised
  <2>2. CASE paid' # paid
    <3>1. PICK v \in Worker : Arrive(v) \/ Step(v) \/ Timeout(v)
      BY <1>1, <2>2 DEF Next, vars, data, orderVars
    <3>2. ~ Arrive(v) /\ ~ Timeout(v)
      BY <2>2 DEF Arrive, Timeout, ApplyRead, BillLock, ApproveBillRead, CancelRead, AdvanceRead, NewRead,
                  PayCheck, AdjustRead, ReturnCreate, ReturnRead, SyncRead, InjectRead, EditOpening,
                  data, orderVars
    <3>3. AdvanceWrite(v) \/ ApplyWrite(v) \/ NewWrite(v) \/ PayWrite(v) \/ BillPost(v)
      BY <2>2, <3>1, <3>2
         DEF Step, ApplyReadAvailable, PayLock, PayRefused, PayReadPO, PayTotals, PayDue, NewLock, BillTotals,
             BillDue, ApproveBillWrite, CancelWrite, AdjustWrite, ReturnWrite, SyncWrite, InjectWrite,
             EditOpeningWrite, data, orderVars
    <3> QED
      BY <1>1, <3>3, PayWriteRaises, BillPostRaises, OrderWriteRaises
  <2> QED
    BY <2>1, <2>2
<1> QED
  BY <1>1, Invariance, PTL DEF Spec, PaidRaisedWithinTotal, Raised

\* A billed order's liability is in the ledger exactly once, and one without a bill is
\* not there at all: two receipts of an order never post it twice.
THEOREM LiabilitySafe == Spec => []LiabilityOnce
<1>1. ASSUME Inv PROVE LiabilityOnce
  <2> SUFFICES ASSUME NEW p \in Po
               PROVE  Cardinality({i \in DOMAIN rows : rows[i].kind = "PURCHASE" /\ rows[i].ref = p}) =
                        IF bill[p] = "none" THEN 0 ELSE 1
    BY DEF LiabilityOnce
  <2>1. /\ rows \in Seq(RowType) /\ Unique(rows, "PURCHASE", p)
        /\ Absent(rows, "PURCHASE", p) <=> bill[p] = "none"
    BY <1>1, DataFacts DEF RowsFit
  <2> QED
    BY <2>1, UniqueCount
<1> QED
  BY <1>1, Invariance, PTL

-----------------------------------------------------------------------------
(* The figures of the pages. *)

\* The balance is what is on one side of the ledger less what is on the other.
LEMMA BalanceIsDifference ==
  ASSUME NEW rs \in Seq(RowType)
  PROVE  TotalOf(rs, "CREDIT", Kind) = BalanceOf(rs) + TotalOf(rs, "DEBIT", Kind)
<1> DEFINE f == SignedTerms(rs)
           g == Terms(rs, "DEBIT", Kind)
           h == Terms(rs, "CREDIT", Kind)
           S == DOMAIN rs
<1>1. IsFiniteSet(S) /\ Ints(f, S) /\ Ints(g, S)
  BY TotalsAreNumbers DEF Nats, Ints
<1>2. \A i \in S : h[i] = f[i] + g[i]
  <2> SUFFICES ASSUME NEW i \in S PROVE h[i] = f[i] + g[i]
    OBVIOUS
  <2>1. rs[i] \in RowType
    BY TotalsAreNumbers, ElementOfSeq
  <2> QED
    BY <2>1 DEF Terms, SignedTerms, Signed, RowType, LedgerType
<1>3. /\ TotalOf(rs, "CREDIT", Kind) = SumOf(h, S) /\ BalanceOf(rs) = SumOf(f, S)
      /\ TotalOf(rs, "DEBIT", Kind) = SumOf(g, S)
  BY DEF TotalOf, BalanceOf, Terms, SignedTerms
<1> HIDE DEF f, g, h, S
<1>4. SumOf(h, S) = SumOf(f, S) + SumOf(g, S)
  BY ONLY <1>1, <1>2, SumPlus
<1> QED
  BY <1>3, <1>4

\* Totals over kinds that cover the entries of a side are its totals.
LEMMA TotalsOfAllKinds ==
  ASSUME NEW rs \in Seq(RowType), NEW type, NEW K, NEW L,
         \A j \in DOMAIN rs : rs[j].type = type => rs[j].kind \in K /\ rs[j].kind \in L
  PROVE  TotalOf(rs, type, K) = TotalOf(rs, type, L)
<1> DEFINE f == Terms(rs, type, L)
           g == Terms(rs, type, K)
           S == DOMAIN rs
<1>1. IsFiniteSet(S) /\ Ints(f, S)
  BY TotalsAreNumbers DEF Nats, Ints
<1>2. \A i \in S : g[i] = f[i]
  BY DEF Terms
<1>3. TotalOf(rs, type, K) = SumOf(g, S) /\ TotalOf(rs, type, L) = SumOf(f, S)
  BY DEF TotalOf, Terms
<1> HIDE DEF f, g, S
<1>4. SumOf(g, S) = SumOf(f, S)
  BY ONLY <1>1, <1>2, SumSame
<1> QED
  BY <1>3, <1>4

\* What the ageing leaves of the credits is what they exceed the debits by.
LEMMA AgingIsExcess ==
  ASSUME Inv
  PROVE  getVendorAging = Positive(TotalOf(rows, "CREDIT", Kind) - Debits(rows))
<1> DEFINE S == DOMAIN rows
           n == Len(rows)
           order == [i \in S |-> i]
           q == Debits(rows)
           taken == InTurn(order, Credits, q)
           left == [i \in S |-> Credits[i] - taken[i]]
<1>1. n \in Nat /\ S = 1..n /\ rows \in Seq(RowType)
  BY DataFacts
<1>2. q \in Nat /\ IsFiniteSet(S)
  BY <1>1, TotalsAreNumbers DEF Debits
<1>3. Range(order) = S /\ DOMAIN order = 1..n /\ \A i, j \in 1..n : order[i] = order[j] => i = j
  BY <1>1 DEF Range
<1>4. Nats(Credits, S) /\ SumOf(Credits, S) = TotalOf(rows, "CREDIT", Kind)
  <2>1. \A i \in S : rows[i] \in RowType
    BY <1>1, ElementOfSeq
  <2>2. Nats(Credits, S)
    BY <2>1 DEF Nats, Credits, RowType
  <2>3. Credits = Terms(rows, "CREDIT", Kind)
    BY <2>1 DEF Credits, Terms, RowType
  <2>4. TotalOf(rows, "CREDIT", Kind) = SumOf(Terms(rows, "CREDIT", Kind), S)
    BY DEF TotalOf, Terms
  <2> QED
    BY <2>2, <2>3, <2>4
<1>5. getVendorAging = SumOf(left, S)
  BY DEF getVendorAging
<1> HIDE DEF order, q, taken, S, n
<1>6. /\ taken \in [S -> Nat]
      /\ SumOf(taken, S) = IF SumOf(Credits, S) < q THEN SumOf(Credits, S) ELSE q
  <2>1. Nats(Credits, Range(order))
    BY <1>3, <1>4
  <2>2. /\ InTurn(order, Credits, q) \in [Range(order) -> Nat]
        /\ SumOf(InTurn(order, Credits, q), Range(order)) =
             IF SumOf(Credits, Range(order)) < q THEN SumOf(Credits, Range(order)) ELSE q
    BY ONLY <1>1, <1>2, <1>3, <2>1, InTurnSum
  <2> QED
    BY <1>3, <2>2 DEF taken
<1>7. Ints(left, S) /\ Ints(taken, S) /\ \A i \in S : Credits[i] = left[i] + taken[i]
  BY <1>4, <1>6 DEF Ints, Nats
<1> HIDE DEF left
<1>8. SumOf(Credits, S) = SumOf(left, S) + SumOf(taken, S)
  BY ONLY <1>2, <1>7, SumPlus
<1>9. SumOf(left, S) \in Int /\ SumOf(Credits, S) \in Nat
  BY <1>2, <1>4, <1>7, SumInt, SumNat
<1> DEFINE a == SumOf(left, S)
           b == SumOf(Credits, S)
           c == SumOf(taken, S)
<1> HIDE DEF a, b, c
<1>10. a = Positive(b - q)
  <2>1. a \in Int /\ b \in Nat /\ b = a + c /\ c = IF b < q THEN b ELSE q
    BY <1>6, <1>8, <1>9 DEF a, b, c
  <2> QED
    BY ONLY <1>2, <2>1 DEF Positive
<1> QED
  BY <1>4, <1>5, <1>10 DEF a, b, q

\* Among the parties, the vendor stands with the opposite of the ledger's balance.
LEMMA PartyIsOpposite == ASSUME Inv PROVE PartyBalance = -BalanceOf(rows)
<1> DEFINE f == SignedTerms(rows)
           g == [i \in DOMAIN rows |-> -Signed(rows[i])]
           h == [i \in DOMAIN rows |-> 0]
           S == DOMAIN rows
<1>1. IsFiniteSet(S) /\ Ints(f, S) /\ BalanceOf(rows) \in Int
  BY DataFacts, TotalsAreNumbers
<1>2. Ints(g, S) /\ \A i \in S : h[i] = f[i] + g[i]
  BY <1>1 DEF Ints, SignedTerms
<1>3. \A i \in S : h[i] = 0
  OBVIOUS
<1>4. BalanceOf(rows) = SumOf(f, S) /\ PartyBalance = SumOf(g, S)
  BY DEF BalanceOf, PartyBalance, SignedTerms
<1> HIDE DEF f, g, h, S
<1>5. SumOf(h, S) = SumOf(f, S) + SumOf(g, S) /\ SumOf(h, S) = 0
  BY ONLY <1>1, <1>2, <1>3, SumPlus, SumZero
<1>6. SumOf(f, S) \in Int /\ SumOf(g, S) \in Int
  BY <1>1, <1>2, SumInt
<1> QED
  BY <1>4, <1>5, <1>6

\* The pages agree on the vendor, whatever the requests in flight have paid, billed,
\* settled, cancelled, returned or adjusted: the totals leave the balance, the ageing adds
\* up to what is due, a paid bill has nothing left to pay.
THEOREM ViewsSafe == Spec => []ViewsAgree
<1>1. ASSUME Inv PROVE PaidIsSettled
  <2> SUFFICES ASSUME NEW p \in Po, bill[p] = "PAID" PROVE withActualCommercials(p).actualBalanceDue = 0
    BY DEF PaidIsSettled
  <2>1. /\ Total[p] <= billAdvance[p] + BillPayments(p)
        /\ Total[p] \in Nat /\ billAdvance[p] \in Nat
    BY <1>1, DataFacts DEF Covered, Linked, BillPayments
  <2>2. BillPayments(p) \in Nat
    <3> DEFINE S == {k \in Key : payBill[k] = p}
    <3>1. IsFiniteSet(S) /\ Nats(pay, S)
      BY <1>1, DataFacts, FS_Subset DEF Nats
    <3> HIDE DEF S
    <3>2. SumOf(pay, S) \in Nat
      BY <3>1, SumNat
    <3> QED
      BY <3>2 DEF S, BillPayments
  <2>3. withActualCommercials(p).actualBalanceDue = Positive(Total[p] - billAdvance[p] - BillPayments(p))
    BY DEF withActualCommercials
  <2> DEFINE x == BillPayments(p)
  <2> HIDE DEF x
  <2>4. Positive(Total[p] - billAdvance[p] - x) = 0
    BY <2>1, <2>2 DEF Positive, x
  <2> QED
    BY <2>3, <2>4 DEF x
<1>2. ASSUME Inv, Entries = rows
      PROVE  /\ getVendorById.list.totalPurchased - getVendorById.list.totalPaid = getVendorById.list.balance
             /\ getVendorFinancials.totalLiability - getVendorFinancials.totalPaid = getVendorById.list.balance
             /\ getVendorAging = getVendorById.list.due
             /\ getVendorById.list.advance = AvailableAdvance
             /\ getVendorById.advanceCredit - getVendorById.totalReturns <= getVendorFinancials.totalPaid
             /\ getVendorById.list.supplied = TotalOf(rows, "CREDIT", {"PURCHASE"})
             /\ PartyBalance = getVendorById.advanceCredit - getVendorsSummary(getVendorById.list).totalOwed
  <2> DEFINE B == BalanceOf(rows)
             C == TotalOf(rows, "CREDIT", Kind)
             D == TotalOf(rows, "DEBIT", Kind)
             R == TotalOf(rows, "DEBIT", {"RETURN"})
  <2>1. rows \in Seq(RowType) /\ \A j \in DOMAIN rows : SoundRow(rows[j]) /\ rows[j].kind \in Kind
    <3>1. rows \in Seq(RowType) /\ \A j \in DOMAIN rows : SoundRow(rows[j])
      BY <1>2, DataFacts DEF RowsFit
    <3>2. \A j \in DOMAIN rows : rows[j] \in RowType
      BY <3>1, TotalsAreNumbers, ElementOfSeq
    <3> QED
      BY <3>1, <3>2 DEF RowType
  <2>2. B \in Int /\ C \in Nat /\ D \in Nat /\ R \in Nat /\ C = B + D
    BY <2>1, TotalsAreNumbers, BalanceIsDifference
  <2>3. Owed(rows) = C
    <3> DEFINE K == {"PURCHASE", "ADJUSTMENT", "OPENING_BALANCE"}
    <3>1. \A j \in DOMAIN rows : rows[j].type = "CREDIT" => rows[j].kind \in K /\ rows[j].kind \in Kind
      BY <2>1 DEF SoundRow
    <3>2. Owed(rows) = TotalOf(rows, "CREDIT", K)
      BY DEF Owed
    <3> HIDE DEF K
    <3> QED
      BY <2>1, <3>1, <3>2, TotalsOfAllKinds
  <2>4. PaidTo(rows) = D
    <3> DEFINE K == {"PAYMENT", "RETURN", "ADJUSTMENT", "ADVANCE", "OPENING_BALANCE"}
    <3>1. \A j \in DOMAIN rows : rows[j].type = "DEBIT" => rows[j].kind \in K /\ rows[j].kind \in Kind
      BY <2>1 DEF SoundRow
    <3>2. PaidTo(rows) = TotalOf(rows, "DEBIT", K)
      BY DEF PaidTo
    <3> HIDE DEF K
    <3> QED
      BY <2>1, <3>1, <3>2, TotalsOfAllKinds
  <2>5. /\ getVendorById.list.totalPurchased = C /\ getVendorById.list.totalPaid = D
        /\ getVendorById.list.balance = B /\ getVendorById.list.due = Positive(B)
        /\ getVendorById.advanceCredit = Positive(-B) /\ getVendorById.totalReturns = R
        /\ getVendorsSummary(getVendorById.list).totalOwed = Positive(B)
        /\ getVendorById.list.supplied = aggregateMaterialHistory
    BY <1>2, <2>3, <2>4 DEF getVendorById, getVendors, getVendorsSummary
  <2>6. getVendorById.list.advance = AvailableAdvance
    BY <1>2 DEF getVendorById, getVendors, AvailableAdvance, VendorBalance
  <2>7. getVendorFinancials.totalLiability = C /\ getVendorFinancials.totalPaid = D
    BY DEF getVendorFinancials
  <2>8. getVendorAging = Positive(C - D)
    BY <1>2, AgingIsExcess DEF Debits
  <2>9. PartyBalance = -B
    BY <1>2, PartyIsOpposite
  <2>10. aggregateMaterialHistory = TotalOf(rows, "CREDIT", {"PURCHASE"})
    BY <1>2, DataFacts DEF RowsFit, aggregateMaterialHistory
  <2> HIDE DEF B, C, D, R
  <2>11. C - D = B /\ Positive(C - D) = Positive(B) /\ Positive(-B) - R <= D /\ -B = Positive(-B) - Positive(B)
    BY <2>2 DEF Positive
  <2> QED
    BY <2>5, <2>6, <2>7, <2>8, <2>9, <2>10, <2>11
<1>3. Inv => ViewsAgree
  BY <1>1, <1>2 DEF ViewsAgree
<1> QED
  BY <1>3, Invariance, PTL

-----------------------------------------------------------------------------
(* The running balance.  Payments and new orders' advances take the number *)
(* sequence's lock before they read the newest balance, and hold it until  *)
(* they append; advances paid to an order (recordAdvancePayment) do not,   *)
(* and an edited opening balance may leave nothing but payments behind, so *)
(* behaviours without those two are spoken of.                             *)

\* The ledger holds payments and advances alone.
AllPaying(rs) == \A i \in DOMAIN rs : rs[i].kind \in {"PAYMENT", "ADVANCE"}

Prefix(rs, i) == SumOf(SignedTerms(rs), 1..i)

\* Then every row says the sum of the rows up to it.
Prefixed(rs) == AllPaying(rs) => \A i \in DOMAIN rs : rs[i].bal = Prefix(rs, i)

LastOf(rs) == IF rs = << >> THEN 0 ELSE rs[Len(rs)].bal

\* A request about to append has read the balance that is still the newest.
Appending(w) == pc[w] \in Numbered \/ (pc[w] = "newWrite" /\ seen[w].amt > seen[w].applied)

Current(w) == Appending(w) => seqLock["VPAY"] = w /\ (AllPaying(rows) => seen[w].bal = LastOf(rows))

Ordered ==
  /\ \A w \in Worker : pc[w] \notin {"advance", "editOpening"} /\ Current(w)
  /\ Prefixed(rows)

\* The families without the requests that break it.
Serial == ops \cap {"advance", "editOpening"} = {}

\* The sums up to a row, and how an appended row continues them.
LEMMA PrefixSteps ==
  ASSUME NEW rs \in Seq(RowType)
  PROVE  /\ Prefix(rs, 0) = 0 /\ BalanceOf(rs) = Prefix(rs, Len(rs))
         /\ \A i \in 1..Len(rs) : /\ Prefix(rs, i) \in Int /\ Prefix(rs, i - 1) \in Int
                                  /\ Prefix(rs, i) = Prefix(rs, i - 1) + Signed(rs[i])
<1> DEFINE f == SignedTerms(rs)
<1>1. DOMAIN rs = 1..Len(rs) /\ Len(rs) \in Nat /\ Ints(f, DOMAIN rs)
  BY TotalsAreNumbers
<1>2. Prefix(rs, 0) = 0
  <2>1. 1..0 = {}
    OBVIOUS
  <2> QED
    BY <2>1, SumEmpty DEF Prefix
<1>3. BalanceOf(rs) = Prefix(rs, Len(rs))
  BY <1>1 DEF BalanceOf, Prefix, SignedTerms
<1>4. ASSUME NEW i \in 1..Len(rs)
      PROVE  /\ Prefix(rs, i) \in Int /\ Prefix(rs, i - 1) \in Int
             /\ Prefix(rs, i) = Prefix(rs, i - 1) + Signed(rs[i])
  <2> DEFINE S == 1..(i - 1)
  <2>1. 1..i = S \cup {i} /\ i \notin S /\ S \subseteq DOMAIN rs /\ i \in DOMAIN rs
    BY <1>1
  <2>2. IsFiniteSet(S)
    BY <1>1, FS_Interval
  <2>3. f[i] = Signed(rs[i]) /\ f[i] \in Int
    BY <1>1, <2>1 DEF SignedTerms, Ints
  <2>4. Prefix(rs, i) = SumOf(f, 1..i) /\ Prefix(rs, i - 1) = SumOf(f, S)
    BY DEF Prefix
  <2> HIDE DEF f, S
  <2>5. Ints(f, S \cup {i}) /\ Ints(f, S)
    BY <1>1, <2>1 DEF Ints
  <2>6. SumOf(f, S \cup {i}) = f[i] + SumOf(f, S) /\ SumOf(f, S) \in Int
    BY <2>1, <2>2, <2>5, SumAdd, SumInt
  <2>7. SumOf(f, 1..i) = f[i] + SumOf(f, S)
    BY ONLY <2>1, <2>6
  <2> QED
    BY <2>3, <2>4, <2>6, <2>7
<1> QED
  BY <1>2, <1>3, <1>4

LEMMA PrefixAppend ==
  ASSUME NEW rs \in Seq(RowType), NEW e \in RowType, Prefixed(rs),
         AllPaying(rs) => e.bal = LastOf(rs) + Signed(e)
  PROVE  Prefixed(Append(rs, e))
<1> DEFINE ts == Append(rs, e)
           n == Len(rs)
<1>1. /\ ts \in Seq(RowType) /\ Len(ts) = n + 1 /\ ts[n + 1] = e /\ DOMAIN ts = 1..(n + 1)
      /\ n \in Nat /\ DOMAIN rs = 1..n /\ \A j \in 1..n : ts[j] = rs[j]
  BY LenProperties, AppendProperties
<1> HIDE DEF ts, n
<1> SUFFICES ASSUME AllPaying(ts), NEW i \in 1..(n + 1) PROVE ts[i].bal = Prefix(ts, i)
  BY <1>1 DEF Prefixed, ts
<1>2. AllPaying(rs)
  <2>1. ASSUME NEW j \in 1..n PROVE rs[j].kind \in {"PAYMENT", "ADVANCE"}
    <3>1. j \in DOMAIN ts /\ ts[j] = rs[j]
      BY <1>1
    <3>2. ts[j].kind \in {"PAYMENT", "ADVANCE"}
      BY <3>1 DEF AllPaying
    <3> QED
      BY <3>1, <3>2
  <2> QED
    BY <1>1, <2>1 DEF AllPaying
<1>3. ASSUME NEW j \in 0..n PROVE Prefix(ts, j) = Prefix(rs, j)
  <2> DEFINE f == SignedTerms(rs)
             g == SignedTerms(ts)
  <2>1. IsFiniteSet(1..j) /\ 1..j \subseteq 1..n
    <3>1. j \in Int /\ 1 \in Int /\ n \in Nat /\ j <= n
      BY <1>1
    <3> QED
      BY ONLY <3>1, FS_Interval
  <2>2. Ints(f, 1..n)
    BY <1>1, TotalsAreNumbers
  <2>3. \A x \in 1..j : g[x] = f[x]
    BY <1>1, <2>1 DEF SignedTerms
  <2> HIDE DEF f, g
  <2>4. Ints(f, 1..j)
    BY <2>1, <2>2 DEF Ints
  <2>5. SumOf(g, 1..j) = SumOf(f, 1..j)
    BY ONLY <2>1, <2>3, <2>4, SumSame
  <2> QED
    BY <2>5 DEF Prefix, f, g
<1>4. \A j \in 1..n : rs[j].bal = Prefix(rs, j)
  BY <1>1, <1>2 DEF Prefixed
<1>5. CASE i <= n
  BY <1>1, <1>3, <1>4, <1>5
<1>6. CASE i = n + 1
  <2>1. Prefix(ts, n + 1) = Prefix(ts, n) + Signed(e)
    <3>1. n + 1 \in 1..Len(ts) /\ (n + 1) - 1 = n
      BY <1>1
    <3> QED
      BY <1>1, <3>1, PrefixSteps
  <2>2. LastOf(rs) = Prefix(rs, n)
    <3>1. CASE n = 0
      <4>1. rs = << >>
        BY <3>1, EmptySeq DEF n
      <4> QED
        BY <3>1, <4>1, PrefixSteps DEF LastOf
    <3>2. CASE n # 0
      <4>1. rs # << >> /\ n \in 1..n
        BY <1>1, <3>2 DEF n
      <4> QED
        BY <1>4, <4>1 DEF LastOf, n
    <3> QED
      BY <3>1, <3>2
  <2>3. Prefix(ts, n) = Prefix(rs, n)
    BY <1>1, <1>3
  <2> QED
    BY <1>1, <1>2, <1>6, <2>1, <2>2, <2>3
<1> QED
  BY <1>1, <1>5, <1>6

\* The running balance shown for a row is the sum up to it wherever the stored ones are.
LEMMA RunningIsPrefix ==
  ASSUME NEW n \in Nat, n = Len(rows), rows \in Seq(RowType),
         \A i \in 1..n : rows[i].bal = Prefix(rows, i)
  PROVE  Running[n] = Prefix(rows, n)
<1> DEFINE Body(g) == [i \in 0..Len(rows) |->
                         IF i = 0 THEN 0
                         ELSE IF rows[i].bal # 0 THEN rows[i].bal ELSE g[i - 1] + Signed(rows[i])]
           P == [i \in 0..n |-> Prefix(rows, i)]
<1>1. P = Body(P)
  <2>1. ASSUME NEW i \in 0..n
        PROVE  P[i] = IF i = 0 THEN 0
                      ELSE IF rows[i].bal # 0 THEN rows[i].bal ELSE P[i - 1] + Signed(rows[i])
    <3>1. CASE i = 0
      BY <3>1, PrefixSteps
    <3>2. CASE i # 0
      <4>1. i \in 1..n /\ i - 1 \in 0..n
        BY <3>2
      <4>2. rows[i].bal = Prefix(rows, i) /\ Prefix(rows, i) = Prefix(rows, i - 1) + Signed(rows[i])
        BY <4>1, PrefixSteps
      <4> QED
        BY <3>2, <4>1, <4>2
    <3> QED
      BY <3>1, <3>2
  <2> QED
    BY <2>1
<1>2. Running = CHOOSE g : g = Body(g)
  BY DEF Running
<1> HIDE DEF P
<1>3. Running = Body(Running)
  <2> HIDE DEF Body
  <2> QED
    BY <1>1, <1>2
<1>4. \A i \in 0..n : Running[i] = IF i = 0 THEN 0
                      ELSE IF rows[i].bal # 0 THEN rows[i].bal ELSE Running[i - 1] + Signed(rows[i])
  BY <1>3
<1> DEFINE X == {k \in 0..n : Running[k] = Prefix(rows, k)}
<1>5. 0 \in X
  BY <1>4, PrefixSteps
<1>6. ASSUME NEW k \in 0..(n - 1), k \in X PROVE k + 1 \in X
  <2>1. k + 1 \in 1..n /\ (k + 1) - 1 = k /\ k + 1 \in 0..n /\ k + 1 # 0
    OBVIOUS
  <2>2. rows[k + 1].bal = Prefix(rows, k + 1) /\ Prefix(rows, k + 1) = Prefix(rows, k) + Signed(rows[k + 1])
    BY <2>1, PrefixSteps
  <2>3. Running[k + 1] = IF rows[k + 1].bal # 0 THEN rows[k + 1].bal ELSE Running[k] + Signed(rows[k + 1])
    BY <1>4, <2>1
  <2> QED
    BY <1>6, <2>1, <2>2, <2>3
<1> HIDE DEF X
<1>7. \A k \in 0..n : k \in X
  BY <1>5, <1>6, CountInduction
<1>8. n \in X
  BY <1>7
<1> QED
  BY <1>8 DEF X

\* No step touches the control of another request.
LEMMA StepKeepsControl ==
  ASSUME Inv, NEW v \in Worker, Arrive(v) \/ Step(v) \/ Timeout(v)
  PROVE  KeepsControl(v)
<1>1. /\ seqLock \in [Sequence -> Worker \cup {None}] /\ poLock \in [Po -> Worker \cup {None}]
      /\ pc \in [Worker -> PC] /\ on \in [Worker -> Po \cup {None}] /\ seen \in [Worker -> Seen]
  BY DEF Inv, ControlTypes
<1> DEFINE Mine == /\ \E p : pc' = [pc EXCEPT ![v] = p]
                   /\ \E d : on' = [on EXCEPT ![v] = d]
                   /\ \E r : seen' = [seen EXCEPT ![v] = r]
           Grows == /\ \A w \in Worker \ {v} : seqLock["VPAY"] = w => seqLock'["VPAY"] = w
                    /\ \A w \in Worker \ {v}, q \in Po : poLock[q] = w => poLock'[q] = w
<1>2. (\E p, d : pc' = [pc EXCEPT ![v] = p] /\ on' = [on EXCEPT ![v] = d]) /\ seen' = seen => Mine
  <2>1. seen' = seen => seen' = [seen EXCEPT ![v] = seen[v]]
    BY <1>1
  <2> QED
    BY <2>1
<1>3. (\E p, r : pc' = [pc EXCEPT ![v] = p] /\ seen' = [seen EXCEPT ![v] = r]) /\ on' = on => Mine
  <2>1. on' = on => on' = [on EXCEPT ![v] = on[v]]
    BY <1>1
  <2> QED
    BY <2>1
<1>4. UNCHANGED locks => Grows
  BY DEF locks
<1>5. Mine /\ Grows => KeepsControl(v)
  BY <1>1 DEF KeepsControl
<1>6. ASSUME End(v) PROVE KeepsControl(v)
  BY <1>6, EndStep
<1> HIDE DEF Mine, Grows
<1>7. CASE Timeout(v) \/ PayRefused(v)
  BY <1>6, <1>7 DEF Timeout, PayRefused
<1>8. CASE \/ AdvanceWrite(v) \/ ApplyWrite(v) \/ PayWrite(v) \/ NewWrite(v) \/ BillPost(v)
           \/ ApproveBillWrite(v) \/ CancelWrite(v) \/ AdjustWrite(v) \/ ReturnWrite(v)
           \/ SyncWrite(v) \/ InjectWrite(v) \/ EditOpeningWrite(v)
  <2>1. End(v)
    BY <1>8 DEF AdvanceWrite, ApplyWrite, PayWrite, NewWrite, BillPost, ApproveBillWrite, CancelWrite,
                AdjustWrite, ReturnWrite, SyncWrite, InjectWrite, EditOpeningWrite
  <2> QED
    BY <1>6, <2>1
<1>9. CASE ApplyReadAvailable(v)
  <2>1. End(v) \/ (Goto(v, "apply") /\ UNCHANGED locks /\ \E r : See(v, r))
    BY <1>9 DEF ApplyReadAvailable
  <2> QED
    BY <1>3, <1>4, <1>5, <1>6, <2>1 DEF Goto, See
<1>10. CASE PayReadPO(v)
  <2>1. /\ pc' = [pc EXCEPT ![v] = "payTotals"] /\ on' = on /\ UNCHANGED locks
        /\ seen' = seen \/ \E r : seen' = [seen EXCEPT ![v] = r]
    BY <1>10 DEF PayReadPO, Goto, See
  <2>2. \E r : seen' = [seen EXCEPT ![v] = r]
    <3>1. seen' = seen => seen' = [seen EXCEPT ![v] = seen[v]]
      BY <1>1
    <3> QED
      BY <2>1, <3>1
  <2> QED
    BY <1>3, <1>4, <1>5, <2>1, <2>2
<1>11. CASE PayLock(v)
  <2>1. /\ pc' = [pc EXCEPT ![v] = "payPO"] /\ on' = on /\ \E r : seen' = [seen EXCEPT ![v] = r]
    BY <1>11 DEF PayLock, Goto, See
  <2>2. seqLock["VPAY"] = None /\ poLock' = poLock
    BY <1>11 DEF PayLock, Increment
  <2>3. Grows
    BY <2>2 DEF Grows
  <2> QED
    BY <1>3, <1>5, <2>1, <2>3
<1>12. CASE NewLock(v)
  <2>1. /\ pc' = [pc EXCEPT ![v] = "newWrite"] /\ on' = on /\ \E r : seen' = [seen EXCEPT ![v] = r]
    BY <1>12 DEF NewLock, Goto, See
  <2>2. /\ seqLock' = [s \in Sequence |->
                        IF s = "PO" \/ seen[v].amt > seen[v].applied THEN v ELSE seqLock[s]]
        /\ seen[v].amt > seen[v].applied => seqLock["VPAY"] = None
        /\ poLock' = poLock
    BY <1>12 DEF NewLock
  <2>3. seqLock'["VPAY"] = seqLock["VPAY"] \/ seqLock["VPAY"] = None
    BY <2>2 DEF Sequence
  <2>4. Grows
    BY <2>2, <2>3 DEF Grows
  <2> QED
    BY <1>3, <1>5, <2>1, <2>4
<1>13. CASE ReturnCreate(v)
  BY <1>13 DEF ReturnCreate, KeepsControl, locks
<1>14. CASE \E p \in Po : BillLock(v, p)
  <2>1. PICK p \in Po : BillLock(v, p)
    BY <1>14
  <2>2. /\ \E c, d, r : /\ pc' = [pc EXCEPT ![v] = c] /\ on' = [on EXCEPT ![v] = d]
                        /\ seen' = [seen EXCEPT ![v] = r]
        /\ poLock[p] = None /\ poLock' = [poLock EXCEPT ![p] = v]
        /\ seqLock' = [seqLock EXCEPT !["GRN_BILL"] = v]
    BY <2>1 DEF BillLock, Start, See, LockOrder, Increment
  <2>3. Mine
    BY <2>2 DEF Mine
  <2>4. Grows
    BY <1>1, <2>2 DEF Grows, Sequence
  <2> QED
    BY <1>5, <2>3, <2>4
<1>19. CASE PayTotals(v)
  <2>1. /\ pc' = [pc EXCEPT ![v] = "payDue"] /\ on' = on /\ \E r : seen' = [seen EXCEPT ![v] = r]
    BY <1>19 DEF PayTotals, Goto, See
  <2>2. /\ seqLock' = seqLock
        /\ poLock' = poLock \/ (poLock[on[v]] \in {None, v} /\ poLock' = [poLock EXCEPT ![on[v]] = v])
    BY <1>19 DEF PayTotals, Writable
  <2>3. Grows
    BY <1>1, <2>2 DEF Grows
  <2> QED
    BY <1>3, <1>5, <2>1, <2>3
<1>20. CASE PayDue(v) \/ BillTotals(v) \/ BillDue(v)
  <2>1. UNCHANGED locks /\ on' = on /\ \E c, r : pc' = [pc EXCEPT ![v] = c] /\ seen' = [seen EXCEPT ![v] = r]
    BY <1>20 DEF PayDue, BillTotals, BillDue, Goto, See
  <2> QED
    BY <1>3, <1>4, <1>5, <2>1
<1>15. CASE \E p \in Po : ApproveBillRead(v, p) \/ CancelRead(v, p)
  <2>1. (\E c, d : pc' = [pc EXCEPT ![v] = c] /\ on' = [on EXCEPT ![v] = d]) /\ seen' = seen /\ UNCHANGED locks
    BY <1>15 DEF ApproveBillRead, CancelRead, Start
  <2> QED
    BY <1>2, <1>4, <1>5, <2>1
<1>16. CASE \/ \E p \in Po : ApplyRead(v, p)
            \/ \E p \in Po, a \in Amounts : AdvanceRead(v, p, a) \/ NewRead(v, p, a)
            \/ \E k \in Key, p \in Po \cup {None}, a \in Amounts, billed \in BOOLEAN : PayCheck(v, k, p, a, billed)
            \/ \E t \in LedgerType, a \in Amounts : AdjustRead(v, t, a)
            \/ ReturnRead(v) \/ SyncRead(v) \/ InjectRead(v)
            \/ \E b \in Openings : EditOpening(v, b)
  <2>1. UNCHANGED locks /\ \E c, d, r : /\ pc' = [pc EXCEPT ![v] = c] /\ on' = [on EXCEPT ![v] = d]
                                        /\ seen' = [seen EXCEPT ![v] = r]
    BY <1>16 DEF ApplyRead, AdvanceRead, NewRead, PayCheck, AdjustRead, ReturnRead, SyncRead, InjectRead,
                 EditOpening, Start, See
  <2>2. Mine
    BY <2>1 DEF Mine
  <2> QED
    BY <1>4, <1>5, <2>1, <2>2
<1>17. Arrive(v) => \/ ReturnCreate(v) \/ \E p \in Po : BillLock(v, p)
                    \/ \E p \in Po : ApproveBillRead(v, p) \/ CancelRead(v, p)
                    \/ \E p \in Po : ApplyRead(v, p)
                    \/ \E p \in Po, a \in Amounts : AdvanceRead(v, p, a) \/ NewRead(v, p, a)
                    \/ \E k \in Key, p \in Po \cup {None}, a \in Amounts, billed \in BOOLEAN : PayCheck(v, k, p, a, billed)
                    \/ \E t \in LedgerType, a \in Amounts : AdjustRead(v, t, a)
                    \/ ReturnRead(v) \/ SyncRead(v) \/ InjectRead(v)
                    \/ \E b \in Openings : EditOpening(v, b)
  BY DEF Arrive
<1>18. Step(v) => \/ PayRefused(v) \/ ApplyReadAvailable(v) \/ PayReadPO(v) \/ PayLock(v) \/ NewLock(v)
                  \/ PayTotals(v) \/ PayDue(v) \/ BillTotals(v) \/ BillDue(v)
                  \/ AdvanceWrite(v) \/ ApplyWrite(v) \/ PayWrite(v) \/ NewWrite(v) \/ BillPost(v)
                  \/ ApproveBillWrite(v) \/ CancelWrite(v) \/ AdjustWrite(v) \/ ReturnWrite(v)
                  \/ SyncWrite(v) \/ InjectWrite(v) \/ EditOpeningWrite(v)
  BY DEF Step
<1> QED
  BY <1>7, <1>8, <1>9, <1>10, <1>11, <1>12, <1>13, <1>14, <1>15, <1>16, <1>17, <1>18, <1>19,
     <1>20

\* An entry that is neither a payment nor an advance; an order's cancellation credits its total.
LEMMA ForeignEntry ==
  ASSUME Inv, NEW v \in Worker,
         \/ BillPost(v) \/ CancelWrite(v) \/ AdjustWrite(v) \/ ReturnWrite(v) \/ SyncWrite(v) \/ InjectWrite(v)
  PROVE  \E i, e : /\ Inserted(rows', rows, i, e) /\ e.kind \notin {"PAYMENT", "ADVANCE"}
                   /\ pc[v] = "cancel" => e.type = "CREDIT" /\ e.amount = Total[on[v]]
<1>1. seen[v] \in Seen /\ on[v] \in Po \cup {None} /\ rows \in Seq(RowType)
  BY ReadTypes, DataFacts
<1>2. ASSUME NEW e \in RowType, rows' = Append(rows, e)
      PROVE  \E i : Inserted(rows', rows, i, e)
  BY <1>1, <1>2, AppendInserts
<1>3. CASE BillPost(v)
  <2> DEFINE p == on[v]
             e == Row("CREDIT", Total[p], seen[v].bal + Total[p], "PURCHASE", p)
  <2>1. p \in Po /\ pc[v] = "bill"
    BY <1>3 DEF BillPost, Inv, Relied, ReliedOrder, OnAnOrder, InBill
  <2>2. e \in RowType /\ e.kind = "PURCHASE"
    <3>1. Total[p] \in Nat /\ seen[v].bal + Total[p] \in Int
      BY SMTT(30), <1>1, <2>1, ReadTypes DEF Seen
    <3> HIDE DEF p
    <3> QED
      BY <2>1, <3>1 DEF Row, RowType, LedgerType, Kind
  <2>3. rows' = Append(rows, e)
    BY <1>3 DEF BillPost
  <2> HIDE DEF e
  <2> QED
    BY <1>2, <2>1, <2>2, <2>3
<1>4. CASE CancelWrite(v)
  <2> DEFINE p == on[v]
             e == Row("CREDIT", Total[p], 0, "ADJUSTMENT", p)
  <2>1. p \in Po
    BY <1>4 DEF CancelWrite, Inv, Relied, ReliedOrder, OnAnOrder, InBill
  <2>2. e \in RowType /\ e.kind = "ADJUSTMENT" /\ e.type = "CREDIT" /\ e.amount = Total[p]
    BY <2>1, ReadTypes DEF Row, RowType, LedgerType, Kind
  <2>3. rows' = Append(rows, e)
    BY <1>4 DEF CancelWrite
  <2> HIDE DEF e
  <2> QED
    BY <1>2, <2>2, <2>3
<1>5. CASE AdjustWrite(v)
  <2> DEFINE e == Row(seen[v].type, seen[v].amt, seen[v].bal, "ADJUSTMENT", None)
  <2>1. e \in RowType /\ e.kind = "ADJUSTMENT"
    BY <1>1 DEF Row, RowType, LedgerType, Kind, Seen
  <2>2. rows' = Append(rows, e) /\ pc[v] = "adjust"
    BY <1>5 DEF AdjustWrite
  <2> HIDE DEF e
  <2> QED
    BY <1>2, <2>1, <2>2
<1>6. CASE ReturnWrite(v) \/ SyncWrite(v)
  <2> DEFINE e == Row("DEBIT", seen[v].amt, seen[v].bal - seen[v].amt, "RETURN", None)
  <2>1. e \in RowType /\ e.kind = "RETURN"
    BY <1>1 DEF Row, RowType, LedgerType, Kind, Seen
  <2>2. rows' = InsertAt(rows, retAt + 1, e) /\ pc[v] \in {"return", "sync"}
    BY <1>6 DEF ReturnWrite, SyncWrite, PostReturn
  <2>3. retAt + 1 \in 1..(Len(rows) + 1)
    BY DataFacts
  <2> HIDE DEF e
  <2>4. Inserted(InsertAt(rows, retAt + 1, e), rows, retAt + 1, e)
    BY <1>1, <2>1, <2>3, InsertAtInserts
  <2> QED
    BY <2>1, <2>2, <2>4
<1>7. CASE InjectWrite(v)
  <2> DEFINE e == OpeningRow(seen[v].bal)
  <2>1. e \in RowType /\ e.kind = "OPENING_BALANCE"
    BY <1>1, OpeningIsRow DEF Seen
  <2>2. rows' = InsertAt(rows, 1, e) /\ 1 \in 1..(Len(rows) + 1) /\ pc[v] = "inject"
    BY <1>7, DataFacts DEF InjectWrite, AddOpening
  <2> HIDE DEF e
  <2>3. Inserted(InsertAt(rows, 1, e), rows, 1, e)
    BY <1>1, <2>1, <2>2, InsertAtInserts
  <2> QED
    BY <2>1, <2>2, <2>3
<1> QED
  BY <1>3, <1>4, <1>5, <1>6, <1>7

\* A request that appends nothing.
LEMMA OrderedQuiet ==
  ASSUME Ordered, NEW v \in Worker, KeepsControl(v), rows' = rows \/ ~ AllPaying(rows'),
         pc'[v] \notin {"advance", "editOpening"}, Current(v)'
  PROVE  Ordered'
<1>1. Prefixed(rows')
  BY DEF Ordered, Prefixed
<1>2. ASSUME NEW w \in Worker, w # v PROVE pc'[w] \notin {"advance", "editOpening"} /\ Current(w)'
  <2>1. /\ pc'[w] = pc[w] /\ seen'[w] = seen[w] /\ (seqLock["VPAY"] = w => seqLock'["VPAY"] = w)
        /\ pc[w] \notin {"advance", "editOpening"} /\ Current(w)
    BY <1>2 DEF KeepsControl, Ordered
  <2> QED
    BY <2>1 DEF Current, Appending, Numbered
<1>3. \A w \in Worker : pc'[w] \notin {"advance", "editOpening"} /\ Current(w)'
  BY <1>2
<1> QED
  BY <1>1, <1>3 DEF Ordered

\* One that appends its payment or advance.
LEMMA OrderedAppend ==
  ASSUME Inv, Ordered, NEW v \in Worker, KeepsControl(v), Appending(v), pc'[v] = "idle",
         NEW e \in RowType, e.bal = seen[v].bal + Signed(e), rows' = Append(rows, e)
  PROVE  Ordered'
<1>1. seqLock["VPAY"] = v /\ (AllPaying(rows) => seen[v].bal = LastOf(rows)) /\ Prefixed(rows)
  BY DEF Ordered, Current
<1>2. Prefixed(rows')
  <2>1. AllPaying(rows) => e.bal = LastOf(rows) + Signed(e)
    BY <1>1
  <2> QED
    BY <1>1, <2>1, DataFacts, PrefixAppend
<1>3. ASSUME NEW w \in Worker PROVE pc'[w] \notin {"advance", "editOpening"} /\ Current(w)'
  <2>1. CASE w = v
    BY <2>1 DEF Current, Appending, Numbered
  <2>2. CASE w # v
    <3>1. /\ pc'[w] = pc[w] /\ seen'[w] = seen[w] /\ pc[w] \notin {"advance", "editOpening"} /\ Current(w)
      BY <2>2 DEF KeepsControl, Ordered
    <3>2. ~ Appending(w)
      BY <1>1, <2>2, <3>1 DEF Current
    <3> QED
      BY <3>1, <3>2 DEF Current, Appending, Numbered
  <2> QED
    BY <2>1, <2>2
<1> QED
  BY <1>2, <1>3 DEF Ordered

LEMMA OrderedStep == Inv /\ Serial /\ Ordered /\ [Next]_vars => Ordered'
<1> SUFFICES ASSUME Inv, Serial, Ordered, [Next]_vars PROVE Ordered'
  OBVIOUS
<1>1. CASE UNCHANGED vars
  <2>1. UNCHANGED <<rows, seqLock, pc, seen>>
    BY <1>1 DEF vars, data, locks, ledgerVars
  <2> QED
    BY ONLY <2>1, Ordered DEF Ordered, Current, Appending, Numbered, Prefixed, AllPaying
<1>2. ASSUME NEW v \in Worker, Arrive(v) \/ Step(v) \/ Timeout(v) PROVE Ordered'
  <2>1. KeepsControl(v)
    BY <1>2, StepKeepsControl
  <2>2. seen[v] \in Seen /\ on[v] \in Po \cup {None} /\ pc[v] \notin {"advance", "editOpening"}
    BY ReadTypes DEF Ordered
  <2>3. ASSUME End(v) PROVE pc'[v] = "idle" /\ Current(v)'
    <3>1. pc'[v] = "idle"
      BY <2>3 DEF End, Inv, ControlTypes
    <3> QED
      BY <3>1 DEF Current, Appending, Numbered
  <2>4. CASE Timeout(v) \/ PayRefused(v) \/ ApplyWrite(v) \/ ApproveBillWrite(v)
    <3>1. End(v) /\ rows' = rows
      BY <2>4 DEF Timeout, PayRefused, ApplyWrite, ApproveBillWrite, data, ledgerVars
    <3> QED
      BY <2>1, <2>3, <3>1, OrderedQuiet
  <2>5. CASE \/ BillPost(v) \/ CancelWrite(v) \/ AdjustWrite(v) \/ ReturnWrite(v) \/ SyncWrite(v) \/ InjectWrite(v)
    <3>1. End(v)
      BY <2>5 DEF BillPost, CancelWrite, AdjustWrite, ReturnWrite, SyncWrite, InjectWrite
    <3>2. ~ AllPaying(rows')
      <4>1. PICK i, e : Inserted(rows', rows, i, e) /\ e.kind \notin {"PAYMENT", "ADVANCE"}
        BY <2>5, ForeignEntry
      <4>2. i \in DOMAIN rows' /\ rows'[i] = e
        BY <4>1, InsertedRows
      <4> QED
        BY <4>1, <4>2 DEF AllPaying
    <3> QED
      BY <2>1, <2>3, <3>1, <3>2, OrderedQuiet
  <2>6. CASE AdvanceWrite(v) \/ EditOpeningWrite(v)
    BY <2>2, <2>6 DEF AdvanceWrite, EditOpeningWrite
  <2>7. CASE PayWrite(v)
    <3> DEFINE r == seen[v]
               e == PaymentRow(r)
    <3>1. pc[v] = "payWrite" /\ End(v) /\ rows' = Append(rows, e)
      BY <2>7 DEF PayWrite
    <3>2. r.key \in Key
      BY <3>1 DEF Inv, Relied, ReliedPayment, InPayment, Numbered
    <3>3. e \in RowType /\ e.bal = r.bal + Signed(e)
      BY <2>2, <3>2, PaymentEntry
    <3> HIDE DEF e
    <3>4. Appending(v)
      BY <3>1 DEF Appending, Numbered
    <3> QED
      BY <2>1, <2>3, <3>1, <3>3, <3>4, OrderedAppend
  <2>8. CASE NewWrite(v)
    <3> DEFINE r == seen[v]
               p == on[v]
               fresh == r.amt - r.applied
               e == Row("DEBIT", fresh, r.bal - fresh, "ADVANCE", p)
    <3>1. pc[v] = "newWrite" /\ End(v) /\ rows' = IF fresh > 0 THEN Append(rows, e) ELSE rows
      BY <2>8 DEF NewWrite
    <3>2. p \in Po /\ r.applied <= r.amt
      BY <3>1 DEF Inv, Relied, ReliedOrder, OnAnOrder, InBill
    <3>3. r.amt \in Nat /\ r.applied \in Nat /\ r.bal \in Int
      BY <2>2 DEF Seen
    <3>4. CASE fresh > 0
      <4>1. Appending(v)
        BY <3>1, <3>3, <3>4 DEF Appending
      <4>2. fresh \in Nat /\ r.bal - fresh \in Int /\ r.bal - fresh = r.bal + (-fresh)
        <5> DEFINE x == r.amt
                   y == r.applied
                   z == r.bal
        <5>1. x \in Nat /\ y \in Nat /\ z \in Int /\ y <= x
          BY <3>2, <3>3
        <5> HIDE DEF x, y, z
        <5>2. x - y \in Nat /\ z - (x - y) \in Int /\ z - (x - y) = z + (-(x - y))
          BY ONLY <5>1
        <5> QED
          BY <5>2 DEF x, y, z
      <4>3. e \in RowType /\ e.bal = r.bal + Signed(e)
        <5> DEFINE b == r.bal - fresh
                   c == r.bal
        <5>1. /\ e = Row("DEBIT", fresh, b, "ADVANCE", p) /\ fresh \in Nat /\ b \in Int /\ p \in Po
              /\ b = c + (-fresh)
          BY <3>2, <4>2
        <5> HIDE DEF fresh, p, r, b, c, e
        <5>2. e \in RowType /\ e.bal = b /\ Signed(e) = -fresh
          BY ONLY <5>1 DEF Row, RowType, LedgerType, Kind, Signed
        <5> QED
          BY <5>1, <5>2 DEF c
      <4>4. rows' = Append(rows, e)
        BY <3>1, <3>4
      <4> HIDE DEF e
      <4> QED
        BY <2>1, <2>3, <3>1, <4>1, <4>3, <4>4, OrderedAppend
    <3>5. CASE ~ (fresh > 0)
      <4>1. rows' = rows
        BY <3>1, <3>5
      <4> QED
        BY <2>1, <2>3, <3>1, <4>1, OrderedQuiet
    <3> QED
      BY <3>4, <3>5
  <2>9. CASE ApplyReadAvailable(v)
    <3>1. rows' = rows /\ (End(v) \/ pc' = [pc EXCEPT ![v] = "apply"])
      BY <2>9 DEF ApplyReadAvailable, data, ledgerVars, Goto
    <3>2. pc'[v] \in {"idle", "apply"} /\ Current(v)'
      BY <2>3, <3>1 DEF Inv, ControlTypes, Current, Appending, Numbered
    <3> QED
      BY <2>1, <3>1, <3>2, OrderedQuiet
  <2>10. CASE PayLock(v) \/ NewLock(v)
    <3>1. rows' = rows /\ seen' = [seen EXCEPT ![v] = [seen[v] EXCEPT !.bal = LastBalance]]
      BY <2>10 DEF PayLock, NewLock, See, data, ledgerVars
    <3>2. LastBalance = LastOf(rows)
      BY DEF LastBalance, LastOf, Last
    <3>3. /\ seen'[v].bal = LastOf(rows) /\ seen'[v].amt = seen[v].amt /\ seen'[v].applied = seen[v].applied
      BY <2>2, <3>1, <3>2 DEF Inv, ControlTypes, Seen
    <3>4. CASE PayLock(v)
      <4>1. pc'[v] = "payPO" /\ seqLock'["VPAY"] = v
        BY <3>4 DEF PayLock, Goto, Increment, Inv, ControlTypes, Sequence, Numbered
      <4>2. Current(v)'
        BY <3>1, <3>3, <4>1 DEF Current
      <4> QED
        BY <2>1, <3>1, <4>1, <4>2, OrderedQuiet
    <3>5. CASE NewLock(v)
      <4>1. /\ pc'[v] = "newWrite"
            /\ seen[v].amt > seen[v].applied => seqLock'["VPAY"] = v
        BY <3>5 DEF NewLock, Goto, Inv, ControlTypes, Sequence
      <4>2. Current(v)'
        BY <3>1, <3>3, <4>1 DEF Current, Appending, Numbered
      <4> QED
        BY <2>1, <3>1, <4>1, <4>2, OrderedQuiet
    <3> QED
      BY <2>10, <3>4, <3>5
  <2>11. CASE PayReadPO(v)
    <3>1. /\ pc[v] = "payPO" /\ rows' = rows /\ UNCHANGED locks /\ pc' = [pc EXCEPT ![v] = "payTotals"]
          /\ \/ seen' = seen
             \/ seen' = [seen EXCEPT ![v] = [seen[v] EXCEPT !.paid = paid[on[v]], !.status = poStatus[on[v]]]]
      BY <2>11 DEF PayReadPO, Goto, See, data, ledgerVars
    <3>2. pc'[v] = "payTotals" /\ seen'[v].bal = seen[v].bal /\ seqLock' = seqLock
      <4>1. pc'[v] = "payTotals" /\ seqLock' = seqLock
        BY <3>1 DEF Inv, ControlTypes, locks
      <4>2. CASE seen' = seen
        BY <4>1, <4>2
      <4>3. CASE seen' = [seen EXCEPT ![v] = [seen[v] EXCEPT !.paid = paid[on[v]], !.status = poStatus[on[v]]]]
        <5>1. seen'[v] = [seen[v] EXCEPT !.paid = paid[on[v]], !.status = poStatus[on[v]]]
          BY <4>3 DEF Inv, ControlTypes
        <5>2. seen'[v].bal = seen[v].bal
          BY <2>2, <5>1 DEF Seen
        <5> QED
          BY <4>1, <5>2
      <4> QED
        BY <3>1, <4>1, <4>2, <4>3
    <3>3. seqLock["VPAY"] = v /\ (AllPaying(rows) => seen[v].bal = LastOf(rows))
      BY <3>1 DEF Ordered, Current, Appending, Numbered
    <3>4. Current(v)'
      BY <3>1, <3>2, <3>3 DEF Current
    <3> QED
      BY <2>1, <3>1, <3>2, <3>4, OrderedQuiet
  <2>13. CASE PayTotals(v) \/ PayDue(v)
    <3>1. /\ pc[v] \in {"payTotals", "payDue"} /\ rows' = rows /\ seqLock' = seqLock
          /\ \E c \in {"payDue", "payWrite"} : pc' = [pc EXCEPT ![v] = c]
      BY <2>13 DEF PayTotals, PayDue, Goto, data, ledgerVars, locks
    <3>2. /\ \/ \E n : seen' = [seen EXCEPT ![v] = [seen[v] EXCEPT !.free = n]]
             \/ \E d : seen' = [seen EXCEPT ![v] = [seen[v] EXCEPT !.due = d]]
      BY <2>13 DEF PayTotals, PayDue, See
    <3>3. pc'[v] \in {"payDue", "payWrite"} /\ seen'[v].bal = seen[v].bal
      BY <2>2, <3>1, <3>2 DEF Inv, ControlTypes, Seen
    <3>4. seqLock["VPAY"] = v /\ (AllPaying(rows) => seen[v].bal = LastOf(rows))
      BY <3>1 DEF Ordered, Current, Appending, Numbered
    <3>5. Current(v)'
      BY <3>1, <3>3, <3>4 DEF Current
    <3> QED
      BY <2>1, <3>1, <3>3, <3>5, OrderedQuiet
  <2>14. CASE BillTotals(v) \/ BillDue(v)
    <3>1. rows' = rows /\ \E c \in {"billDue", "bill"} : pc' = [pc EXCEPT ![v] = c]
      BY <2>14 DEF BillTotals, BillDue, Goto, data, ledgerVars
    <3>2. pc'[v] \in {"billDue", "bill"}
      BY <3>1 DEF Inv, ControlTypes
    <3>3. Current(v)'
      BY <3>2 DEF Current, Appending, Numbered
    <3> QED
      BY <2>1, <3>1, <3>2, <3>3, OrderedQuiet
  <2>12. CASE Arrive(v)
    <3>1. rows' = rows
      BY <2>12 DEF Arrive, ApplyRead, BillLock, ApproveBillRead, CancelRead, AdvanceRead, NewRead, PayCheck,
                   AdjustRead, ReturnCreate, ReturnRead, SyncRead, InjectRead, EditOpening, data, ledgerVars
    <3>2. \/ pc' = pc /\ pc[v] = "idle"
          \/ \E c \in {"applyAvailable", "billTotals", "approveBill", "cancel", "newLock", "payLock", "adjust",
                       "return", "sync", "inject"} : pc' = [pc EXCEPT ![v] = c]
      <4>1. "advance" \notin ops /\ "editOpening" \notin ops
        BY DEF Serial
      <4>2. (\A p \in Po, a \in Amounts : ~ AdvanceRead(v, p, a)) /\ \A b \in Openings : ~ EditOpening(v, b)
        BY <4>1 DEF AdvanceRead, EditOpening, Start
      <4> QED
        BY <2>12, <4>2 DEF Arrive, ApplyRead, BillLock, ApproveBillRead, CancelRead, NewRead, PayCheck,
                           AdjustRead, ReturnCreate, ReturnRead, SyncRead, InjectRead, Start
    <3>3. pc'[v] \notin {"advance", "editOpening", "newWrite"} \cup Numbered
      BY <3>2 DEF Inv, ControlTypes, Numbered
    <3>4. Current(v)'
      BY <3>3 DEF Current, Appending, Numbered
    <3> QED
      BY <2>1, <3>1, <3>3, <3>4, OrderedQuiet
  <2> QED
    BY <1>2, <2>4, <2>5, <2>6, <2>7, <2>8, <2>9, <2>10, <2>11, <2>12, <2>13, <2>14
       DEF Step
<1> QED
  BY <1>1, <1>2 DEF Next

LEMMA OpsConstant == [Next]_vars => ops' = ops
BY DEF Next, vars

\* Without the two requests that break it, the newest balance stored is the ledger's sum,
\* and so is the newest running balance shown, as long as the ledger holds payments and
\* advances; and every bill is in the ledger once.
THEOREM LedgerSafe == Spec => [](Serial => LedgerSound)
<1> DEFINE I == Inv /\ (Serial => Ordered)
<1>1. Init => I
  <2>1. Init => Ordered
    <3> SUFFICES ASSUME Init PROVE Ordered
      OBVIOUS
    <3>1. rows = << >> /\ \A w \in Worker : pc[w] = "idle"
      BY DEF Init
    <3> QED
      BY <3>1 DEF Ordered, Current, Appending, Numbered, Prefixed
  <2> QED
    BY <2>1, InitInv
<1>2. I /\ [Next]_vars => I'
  <2>1. [Next]_vars => (Serial' <=> Serial)
    BY OpsConstant DEF Serial
  <2> QED
    BY <2>1, InvStep, OrderedStep
<1>3. I => (Serial => RunningBalance /\ RunningShown)
  <2> SUFFICES ASSUME Inv, Ordered, AllPaying(rows)
               PROVE  LastBalance = VendorBalance /\ getVendorLedger = VendorBalance
    BY DEF RunningBalance, RunningShown, AllPaying
  <2> DEFINE n == Len(rows)
  <2>1. rows \in Seq(RowType) /\ n \in Nat /\ DOMAIN rows = 1..n
    BY DataFacts
  <2>2. \A i \in 1..n : rows[i].bal = Prefix(rows, i)
    BY <2>1 DEF Ordered, Prefixed
  <2>3. VendorBalance = Prefix(rows, n)
    BY <2>1, PrefixSteps DEF VendorBalance
  <2>4. getVendorLedger = Running[n]
    BY DEF getVendorLedger
  <2>5. LastBalance = Prefix(rows, n)
    <3>1. CASE n = 0
      <4>1. rows = << >>
        BY <2>1, <3>1, EmptySeq
      <4> QED
        BY <2>1, <3>1, <4>1, PrefixSteps DEF LastBalance
    <3>2. CASE n # 0
      <4>1. rows # << >> /\ n \in 1..n
        BY <2>1, <3>2
      <4> QED
        BY <2>2, <4>1 DEF LastBalance, Last
    <3> QED
      BY <3>1, <3>2
  <2>6. n = Len(rows)
    OBVIOUS
  <2> HIDE DEF n
  <2>7. Running[n] = Prefix(rows, n)
    BY ONLY <2>1, <2>2, <2>6, RunningIsPrefix
  <2> QED
    BY <2>3, <2>4, <2>5, <2>7
<1> HIDE DEF I
<1>4. Spec => [](Serial => RunningBalance /\ RunningShown)
  BY <1>1, <1>2, <1>3, PTL DEF Spec
<1> QED
  BY <1>4, LiabilitySafe, PTL DEF LedgerSound

-----------------------------------------------------------------------------
(* The credit that orders reserve.  The write that reserves it is          *)
(* conditional on the order's paid alone.  Where no request sets paid back *)
(* to a value it had - only reservations and new orders write it - an      *)
(* unchanged paid is an unchanged order, and a ledger that only grows      *)
(* still covers what was read of it.                                       *)

\* The families without the requests that set paid back, and the one that takes entries.
Unreset == ops \cap {"pay", "advance", "bill", "editOpening"} = {}

CreditTotal(rs) == TotalOf(rs, "CREDIT", Kind)

Creating(w) == pc[w] \in {"newLock", "newWrite"}

\* What a request knows of its order: while paid is as it was read, so is what is
\* reserved, and the debits cover that and the credit read as available.
Backing(w) ==
  /\ pc[w] \notin {"advance", "editOpening"} \cup InBill
  /\ pc[w] \in InPayment => on[w] = None
  /\ pc[w] = "payWrite" => \A q \in Po : seen[w].due[q] = 0
  /\ pc[w] \in {"applyAvailable", "apply", "cancel"} => poStatus[on[w]] # "none"
  /\ pc[w] \in {"applyAvailable", "apply"} =>
       /\ seen[w].paid <= paid[on[w]] /\ seen[w].status \in {"APPROVED", "CANCELLED"}
       /\ seen[w].status = "CANCELLED" => Total[on[w]] <= CreditTotal(rows)
       /\ paid[on[w]] = seen[w].paid => applied[on[w]] = seen[w].applied
  /\ pc[w] = "apply" /\ paid[on[w]] = seen[w].paid => seen[w].applied + seen[w].amt <= Debits(rows)
  /\ Creating(w) => poStatus[on[w]] = "none" /\ seen[w].applied <= Debits(rows)

\* A cancelled order's reversal is in the ledger.
BackedOrders ==
  \A p \in Po : /\ poStatus[p] \in {"none", "APPROVED", "CANCELLED"}
                /\ poStatus[p] = "CANCELLED" => Total[p] <= CreditTotal(rows)
                /\ applied[p] <= paid[p] /\ applied[p] <= Debits(rows)

Backed ==
  /\ \A w \in Worker : Backing(w)
  /\ \A v, w \in Worker : v # w /\ Creating(v) /\ Creating(w) => on[v] # on[w]
  /\ BackedOrders

Grown == Debits(rows) <= Debits(rows') /\ CreditTotal(rows) <= CreditTotal(rows')

LEMMA TotalsAreNat ==
  ASSUME Inv
  PROVE  Debits(rows) \in Nat /\ CreditTotal(rows) \in Nat /\ CreditTotal(rows) = VendorBalance + Debits(rows)
BY DataFacts, TotalsAreNumbers, BalanceIsDifference DEF Debits, CreditTotal, VendorBalance

\* Before and after a step that takes no entry.
LEMMA GrownNumbers ==
  ASSUME Inv, Inv', Grown
  PROVE  /\ Debits(rows) \in Nat /\ CreditTotal(rows) \in Nat /\ Debits(rows') \in Nat /\ CreditTotal(rows') \in Nat
         /\ Debits(rows) <= Debits(rows') /\ CreditTotal(rows) <= CreditTotal(rows')
         /\ \A p \in Po : paid'[p] \in Nat /\ applied'[p] \in Nat
<1>1. rows' \in Seq(RowType) /\ paid' \in [Po -> Nat] /\ applied' \in [Po -> Nat]
  BY DEF Inv, Sound, DataTypes
<1>2. Debits(rows') \in Nat /\ CreditTotal(rows') \in Nat
  BY <1>1, TotalsAreNumbers DEF Debits, CreditTotal
<1> QED
  BY <1>1, <1>2, TotalsAreNat DEF Grown

\* An entry more, whatever it is.
LEMMA EntryGrows ==
  ASSUME NEW i, NEW e, Inserted(rows', rows, i, e)
  PROVE  /\ Grown /\ e.amount \in Nat
         /\ e.type = "CREDIT" => e.amount <= CreditTotal(rows')
<1>1. /\ TotalOf(rows', "DEBIT", Kind) =
           TotalOf(rows, "DEBIT", Kind) + IF e.type = "DEBIT" /\ e.kind \in Kind THEN e.amount ELSE 0
      /\ TotalOf(rows', "CREDIT", Kind) =
           TotalOf(rows, "CREDIT", Kind) + IF e.type = "CREDIT" /\ e.kind \in Kind THEN e.amount ELSE 0
  BY InsertedTotals
<1>2. e.amount \in Nat /\ e.kind \in Kind /\ rows \in Seq(RowType)
  BY DEF Inserted, RowType
<1>3. TotalOf(rows, "DEBIT", Kind) \in Nat /\ TotalOf(rows, "CREDIT", Kind) \in Nat
  BY <1>2, TotalsAreNumbers
<1> DEFINE d == TotalOf(rows, "DEBIT", Kind)
           c == TotalOf(rows, "CREDIT", Kind)
           x == TotalOf(rows', "DEBIT", Kind)
           y == TotalOf(rows', "CREDIT", Kind)
<1>4. d <= x /\ c <= y /\ (e.type = "CREDIT" => e.amount <= y)
  <2>1. /\ d \in Nat /\ c \in Nat /\ e.amount \in Nat
        /\ x = d + (IF e.type = "DEBIT" THEN e.amount ELSE 0)
        /\ y = c + (IF e.type = "CREDIT" THEN e.amount ELSE 0)
    BY <1>1, <1>2, <1>3
  <2> HIDE DEF d, c, x, y
  <2> QED
    BY ONLY <2>1
<1> QED
  BY <1>2, <1>4 DEF Grown, Debits, CreditTotal

\* The available advance is covered by the debits, also beside what an open order has
\* reserved, and beside all credits.
LEMMA AvailableIsCovered ==
  ASSUME Inv
  PROVE  /\ AvailableAdvance \in Nat /\ AvailableAdvance <= Debits(rows)
         /\ AvailableAdvance > 0 =>
              /\ CreditTotal(rows) + AvailableAdvance <= Debits(rows)
              /\ \A p \in Reserving : applied[p] + AvailableAdvance <= Debits(rows)
<1> DEFINE a == VendorBalance
           b == SumOf(applied, Reserving)
           c == CreditTotal(rows)
           d == Debits(rows)
           n == AvailableAdvance
<1>1. c \in Nat /\ d \in Nat /\ c = a + d /\ a \in Int
  BY TotalsAreNat, DataFacts, TotalsAreNumbers DEF VendorBalance
<1>2. IsFiniteSet(Reserving) /\ Nats(applied, Reserving)
  BY OrdersFinite, FS_Subset, ReadTypes DEF Reserving, Nats
<1>3. b \in Nat /\ \A p \in Reserving : applied[p] <= b /\ applied[p] \in Nat
  BY <1>2, SumNat, SumTerm DEF Nats
<1>4. n = Positive(Positive(-a) - b)
  BY DEF AvailableAdvance
<1> HIDE DEF a, b, c, d, n
<1>5. n \in Nat /\ n <= d /\ (n > 0 => c + n <= d /\ b + n <= d)
  BY ONLY <1>1, <1>3, <1>4 DEF Positive
<1>6. n > 0 => \A p \in Reserving : applied[p] + n <= d
  BY ONLY <1>1, <1>3, <1>5
<1> QED
  BY <1>5, <1>6 DEF c, d, n

\* What the others know survives a step that takes no entry, reserves nothing of their
\* orders without paying, and creates no order of theirs.
LEMMA OthersBacked ==
  ASSUME Inv, Inv', Backed, NEW v \in Worker, KeepsControl(v), Grown,
         \A p \in Po : /\ poStatus[p] # "none" => poStatus'[p] # "none"
                       /\ poStatus[p] = "none" /\ ~ (Creating(v) /\ on[v] = p) => poStatus'[p] = "none"
                       /\ \/ poStatus[p] = "none"
                          \/ paid'[p] = paid[p] /\ applied'[p] = applied[p]
                          \/ paid[p] < paid'[p],
         NEW w \in Worker \ {v}
  PROVE  Backing(w)'
<1>1. /\ pc'[w] = pc[w] /\ on'[w] = on[w] /\ seen'[w] = seen[w]
      /\ seen[w] \in Seen /\ on[w] \in Po \cup {None} /\ Backing(w)
  BY ReadTypes DEF KeepsControl, Backed
<1>2. /\ Debits(rows) \in Nat /\ CreditTotal(rows) \in Nat /\ Debits(rows') \in Nat /\ CreditTotal(rows') \in Nat
      /\ Debits(rows) <= Debits(rows') /\ CreditTotal(rows) <= CreditTotal(rows')
  BY GrownNumbers
<1>3. CASE pc[w] \in {"applyAvailable", "apply", "cancel"} \/ Creating(w)
  <2>1. PICK p \in Po : p = on[w]
    BY <1>3 DEF Inv, Relied, ReliedOrder, OnAnOrder, Creating
  <2>2. /\ paid[p] \in Nat /\ paid'[p] \in Nat /\ Total[p] \in Nat
        /\ seen[w].paid \in Nat /\ seen[w].applied \in Nat /\ seen[w].amt \in Nat
    BY <1>1, DataFacts, GrownNumbers DEF Seen
  <2>3. CASE Creating(w)
    <3>1. poStatus[p] = "none" /\ seen[w].applied <= Debits(rows) /\ ~ (Creating(v) /\ on[v] = p)
      BY <1>1, <2>1, <2>3 DEF Backing, Backed
    <3>2. poStatus'[p] = "none" /\ seen[w].applied <= Debits(rows')
      BY <1>2, <2>2, <3>1
    <3> QED
      BY <1>1, <2>1, <2>3, <3>2 DEF Backing, Creating, InBill, InPayment, Numbered
  <2>4. CASE pc[w] \in {"applyAvailable", "apply", "cancel"}
    <3>1. poStatus[p] # "none" /\ poStatus'[p] # "none"
      BY <1>1, <2>1, <2>4 DEF Backing
    <3>2. (paid'[p] = paid[p] /\ applied'[p] = applied[p]) \/ paid[p] < paid'[p]
      BY <3>1
    <3>3. CASE pc[w] = "cancel"
      BY <1>1, <2>1, <3>1, <3>3 DEF Backing, Creating, InBill, InPayment, Numbered
    <3>4. CASE pc[w] \in {"applyAvailable", "apply"}
      <4>1. /\ seen[w].paid <= paid[p] /\ seen[w].status \in {"APPROVED", "CANCELLED"}
            /\ seen[w].status = "CANCELLED" => Total[p] <= CreditTotal(rows)
            /\ paid[p] = seen[w].paid => applied[p] = seen[w].applied
            /\ pc[w] = "apply" /\ paid[p] = seen[w].paid => seen[w].applied + seen[w].amt <= Debits(rows)
        BY <1>1, <2>1, <3>4 DEF Backing
      <4>2. paid'[p] = seen[w].paid => paid[p] = seen[w].paid /\ applied'[p] = applied[p]
        BY <2>2, <3>2, <4>1
      <4>3. /\ seen[w].paid <= paid'[p]
            /\ seen[w].status = "CANCELLED" => Total[p] <= CreditTotal(rows')
            /\ paid'[p] = seen[w].paid => applied'[p] = seen[w].applied
            /\ pc[w] = "apply" /\ paid'[p] = seen[w].paid => seen[w].applied + seen[w].amt <= Debits(rows')
        BY SMTT(30), <1>2, <2>2, <3>2, <4>1, <4>2
      <4> QED
        BY <1>1, <2>1, <3>1, <3>4, <4>1, <4>3 DEF Backing, Creating, InBill, InPayment, Numbered
    <3> QED
      BY <2>4, <3>3, <3>4
  <2> QED
    BY <1>3, <2>3, <2>4
<1>4. CASE pc[w] \notin {"applyAvailable", "apply", "cancel"} /\ ~ Creating(w)
  BY <1>1, <1>4 DEF Backing, Creating
<1> QED
  BY <1>3, <1>4

\* A step that leaves the orders alone.
LEMMA BackedQuiet ==
  ASSUME Inv, Inv', Backed, NEW v \in Worker, KeepsControl(v), Grown, UNCHANGED <<poStatus, paid, applied>>,
         Backing(v)', Creating(v)' => (Creating(v) /\ on'[v] = on[v]) \/ \A w \in Worker : on[w] # on'[v]
  PROVE  Backed'
<1>1. ASSUME NEW w \in Worker PROVE Backing(w)'
  BY <1>1, OthersBacked
<1>2. ASSUME NEW u \in Worker, NEW w \in Worker, u # w, Creating(u)', Creating(w)' PROVE on'[u] # on'[w]
  <2>1. \A x \in Worker \ {v} : on'[x] = on[x] /\ (Creating(x)' <=> Creating(x))
    BY DEF KeepsControl, Creating
  <2>2. \A x, y \in Worker : x # y /\ Creating(x) /\ Creating(y) => on[x] # on[y]
    BY DEF Backed
  <2> QED
    BY <1>2, <2>1, <2>2
<1>3. BackedOrders'
  <2>1. /\ Debits(rows) \in Nat /\ CreditTotal(rows) \in Nat /\ Debits(rows') \in Nat /\ CreditTotal(rows') \in Nat
        /\ Debits(rows) <= Debits(rows') /\ CreditTotal(rows) <= CreditTotal(rows')
    BY GrownNumbers
  <2> SUFFICES ASSUME NEW p \in Po
               PROVE  /\ poStatus[p] \in {"none", "APPROVED", "CANCELLED"}
                      /\ poStatus[p] = "CANCELLED" => Total[p] <= CreditTotal(rows')
                      /\ applied[p] <= paid[p] /\ applied[p] <= Debits(rows')
    BY DEF BackedOrders
  <2>2. /\ poStatus[p] \in {"none", "APPROVED", "CANCELLED"}
        /\ poStatus[p] = "CANCELLED" => Total[p] <= CreditTotal(rows)
        /\ applied[p] <= paid[p] /\ applied[p] <= Debits(rows)
    BY DEF Backed, BackedOrders
  <2>3. applied[p] \in Nat /\ Total[p] \in Nat
    BY DataFacts
  <2> QED
    BY <2>1, <2>2, <2>3
<1> QED
  BY <1>1, <1>2, <1>3 DEF Backed

\* The end of a request leaves it nothing to know.
LEMMA BackedEnd ==
  ASSUME Inv, NEW v \in Worker, End(v)
  PROVE  Backing(v)' /\ ~ Creating(v)'
<1>1. pc'[v] = "idle"
  BY DEF End, Inv, ControlTypes
<1> QED
  BY <1>1 DEF Backing, Creating, InBill, InPayment, Numbered

\* A request that writes its order, and ends.
LEMMA BackedWrite ==
  ASSUME Inv, Inv', Backed, NEW v \in Worker, KeepsControl(v), Grown, End(v), NEW p \in Po,
         \A q \in Po \ {p} : poStatus'[q] = poStatus[q] /\ paid'[q] = paid[q] /\ applied'[q] = applied[q],
         poStatus'[p] \in {"APPROVED", "CANCELLED"}, applied'[p] <= paid'[p], applied'[p] <= Debits(rows'),
         poStatus'[p] = "CANCELLED" => Total[p] <= CreditTotal(rows'),
         poStatus[p] = "none" => Creating(v) /\ on[v] = p,
         \/ poStatus[p] = "none"
         \/ paid'[p] = paid[p] /\ applied'[p] = applied[p]
         \/ paid[p] < paid'[p]
  PROVE  Backed'
<1>1. Backing(v)' /\ ~ Creating(v)'
  BY BackedEnd
<1>2. ASSUME NEW q \in Po
      PROVE  /\ poStatus[q] # "none" => poStatus'[q] # "none"
             /\ poStatus[q] = "none" /\ ~ (Creating(v) /\ on[v] = q) => poStatus'[q] = "none"
             /\ \/ poStatus[q] = "none"
                \/ paid'[q] = paid[q] /\ applied'[q] = applied[q]
                \/ paid[q] < paid'[q]
  OBVIOUS
<1>3. ASSUME NEW w \in Worker PROVE Backing(w)'
  BY <1>1, <1>2, OthersBacked
<1>4. ASSUME NEW u \in Worker, NEW w \in Worker, u # w, Creating(u)', Creating(w)' PROVE on'[u] # on'[w]
  <2>1. \A x \in Worker \ {v} : on'[x] = on[x] /\ (Creating(x)' <=> Creating(x))
    BY DEF KeepsControl, Creating
  <2>2. \A x, y \in Worker : x # y /\ Creating(x) /\ Creating(y) => on[x] # on[y]
    BY DEF Backed
  <2> QED
    BY <1>1, <1>4, <2>1, <2>2
<1>5. BackedOrders'
  <2> SUFFICES ASSUME NEW q \in Po, q # p
               PROVE  /\ poStatus[q] \in {"none", "APPROVED", "CANCELLED"}
                      /\ poStatus[q] = "CANCELLED" => Total[q] <= CreditTotal(rows')
                      /\ applied[q] <= paid[q] /\ applied[q] <= Debits(rows')
    BY DEF BackedOrders
  <2>1. /\ poStatus[q] \in {"none", "APPROVED", "CANCELLED"}
        /\ poStatus[q] = "CANCELLED" => Total[q] <= CreditTotal(rows)
        /\ applied[q] <= paid[q] /\ applied[q] <= Debits(rows)
    BY DEF Backed, BackedOrders
  <2>2. applied[q] \in Nat /\ Total[q] \in Nat
    BY DataFacts
  <2> QED
    BY <2>1, <2>2, GrownNumbers
<1> QED
  BY <1>3, <1>4, <1>5 DEF Backed

LEMMA ApplyBacked ==
  ASSUME Inv, Inv', Backed, NEW v \in Worker, KeepsControl(v), ApplyWrite(v)
  PROVE  Backed'
<1> DEFINE p == on[v]
           r == seen[v]
<1>1. pc[v] = "apply" /\ End(v) /\ rows' = rows
  BY DEF ApplyWrite, ledgerVars
<1>2. p \in Po /\ r.amt > 0 /\ r.amt \in Nat /\ r.paid \in Nat /\ r.applied \in Nat
  BY <1>1, ReadTypes DEF Inv, Relied, ReliedOrder, OnAnOrder, Seen
<1>3. Grown
  BY <1>1, TotalsAreNat DEF Grown
<1>4. CASE PaidUnchanged(v)
  <2>1. paid[p] = r.paid
    BY <1>4 DEF PaidUnchanged
  <2>2. /\ poStatus[p] # "none" /\ r.status \in {"APPROVED", "CANCELLED"}
        /\ r.status = "CANCELLED" => Total[p] <= CreditTotal(rows)
        /\ applied[p] = r.applied /\ r.applied + r.amt <= Debits(rows) /\ applied[p] <= paid[p]
    BY <1>1, <1>2, <2>1 DEF Backed, Backing, BackedOrders
  <2>3. /\ paid' = [paid EXCEPT ![p] = r.paid + r.amt]
        /\ applied' = [applied EXCEPT ![p] = r.applied + r.amt]
        /\ poStatus' = [poStatus EXCEPT ![p] = Settled(r.status, p, r.paid + r.amt)]
    BY <1>4 DEF ApplyWrite
  <2>4. Settled(r.status, p, r.paid + r.amt) = r.status
    BY <2>2 DEF Settled
  <2> HIDE DEF p, r
  <2>5. /\ \A q \in Po \ {p} : poStatus'[q] = poStatus[q] /\ paid'[q] = paid[q] /\ applied'[q] = applied[q]
        /\ poStatus'[p] = r.status /\ paid'[p] = r.paid + r.amt /\ applied'[p] = r.applied + r.amt
    BY <1>2, <2>3, <2>4, DataFacts
  <2>6. applied'[p] <= paid'[p] /\ applied'[p] <= Debits(rows') /\ paid[p] < paid'[p]
    BY <1>1, <1>2, <2>1, <2>2, <2>5
  <2> QED
    BY <1>1, <1>2, <1>3, <2>2, <2>5, <2>6, BackedWrite
<1>5. CASE ~ PaidUnchanged(v)
  <2>1. UNCHANGED <<poStatus, paid, applied>>
    BY <1>5 DEF ApplyWrite, orderVars
  <2> QED
    BY <1>1, <1>3, <2>1, BackedEnd, BackedQuiet
<1> QED
  BY <1>4, <1>5

LEMMA NewBacked ==
  ASSUME Inv, Inv', Backed, NEW v \in Worker, KeepsControl(v), NewWrite(v)
  PROVE  Backed'
<1> DEFINE p == on[v]
           r == seen[v]
           fresh == r.amt - r.applied
           e == Row("DEBIT", fresh, r.bal - fresh, "ADVANCE", p)
<1>1. /\ pc[v] = "newWrite" /\ End(v) /\ rows' = IF fresh > 0 THEN Append(rows, e) ELSE rows
      /\ poStatus' = [poStatus EXCEPT ![p] = "APPROVED"]
      /\ paid' = [paid EXCEPT ![p] = r.amt] /\ applied' = [applied EXCEPT ![p] = r.applied]
  BY DEF NewWrite
<1>2. p \in Po /\ r.applied <= r.amt
  BY <1>1 DEF Inv, Relied, ReliedOrder, OnAnOrder
<1>3. r.amt \in Nat /\ r.applied \in Nat /\ r.bal \in Int
  BY ReadTypes DEF Seen
<1>4. Grown
  <2>1. CASE fresh > 0
    <3>1. fresh \in Nat /\ r.bal - fresh \in Int
      <4> DEFINE x == r.amt
                 y == r.applied
                 z == r.bal
      <4>1. x \in Nat /\ y \in Nat /\ z \in Int /\ y <= x
        BY <1>2, <1>3
      <4> HIDE DEF x, y, z
      <4>2. x - y \in Nat /\ z - (x - y) \in Int
        BY ONLY <4>1
      <4> QED
        BY <4>2 DEF x, y, z
    <3>2. e \in RowType
      <4> DEFINE b == r.bal - fresh
      <4>1. e = Row("DEBIT", fresh, b, "ADVANCE", p) /\ fresh \in Nat /\ b \in Int /\ p \in Po
        BY <1>2, <3>1
      <4> HIDE DEF fresh, p, b, e
      <4> QED
        BY ONLY <4>1 DEF Row, RowType, LedgerType, Kind
    <3>3. rows' = Append(rows, e)
      BY <1>1, <2>1
    <3> HIDE DEF e
    <3>4. Inserted(rows', rows, Len(rows) + 1, e)
      BY <3>2, <3>3, DataFacts, AppendInserts
    <3> QED
      BY <3>4, EntryGrows
  <2>2. CASE ~ (fresh > 0)
    BY <1>1, <2>2, TotalsAreNat DEF Grown
  <2> QED
    BY <2>1, <2>2
<1>5. Creating(v) /\ poStatus[p] = "none" /\ r.applied <= Debits(rows)
  BY <1>1 DEF Backed, Backing, Creating
<1>6. on[v] = p
  OBVIOUS
<1> HIDE DEF p, r
<1>7. /\ \A q \in Po \ {p} : poStatus'[q] = poStatus[q] /\ paid'[q] = paid[q] /\ applied'[q] = applied[q]
      /\ poStatus'[p] = "APPROVED" /\ paid'[p] = r.amt /\ applied'[p] = r.applied
  BY <1>1, <1>2, DataFacts
<1>8. applied'[p] <= paid'[p] /\ applied'[p] <= Debits(rows')
  BY <1>2, <1>3, <1>4, <1>5, <1>7, GrownNumbers
<1> QED
  BY SMTT(30), <1>1, <1>2, <1>4, <1>5, <1>6, <1>7, <1>8, BackedWrite

LEMMA CancelBacked ==
  ASSUME Inv, Inv', Backed, NEW v \in Worker, KeepsControl(v), CancelWrite(v)
  PROVE  Backed'
<1> DEFINE p == on[v]
<1>1. /\ pc[v] = "cancel" /\ End(v) /\ poStatus' = [poStatus EXCEPT ![p] = "CANCELLED"]
      /\ UNCHANGED <<paid, applied>>
  BY DEF CancelWrite
<1>2. p \in Po /\ poStatus[p] # "none"
  BY <1>1 DEF Inv, Relied, ReliedOrder, OnAnOrder, Backed, Backing
<1>3. Grown /\ Total[p] <= CreditTotal(rows')
  <2>1. PICK i, e : Inserted(rows', rows, i, e) /\ e.type = "CREDIT" /\ e.amount = Total[p]
    BY <1>1, ForeignEntry
  <2> QED
    BY <2>1, EntryGrows
<1> HIDE DEF p
<1>4. \A q \in Po \ {p} : poStatus'[q] = poStatus[q] /\ paid'[q] = paid[q] /\ applied'[q] = applied[q]
  BY <1>1, DataFacts
<1>5. poStatus'[p] = "CANCELLED" /\ paid'[p] = paid[p] /\ applied'[p] = applied[p]
  BY <1>1, <1>2, DataFacts
<1>6. applied[p] <= paid[p] /\ applied[p] <= Debits(rows) /\ applied[p] \in Nat
  BY <1>2, DataFacts DEF Backed, BackedOrders
<1>7. applied'[p] <= paid'[p] /\ applied'[p] <= Debits(rows')
  BY <1>3, <1>5, <1>6, GrownNumbers
<1> QED
  BY <1>1, <1>2, <1>3, <1>4, <1>5, <1>7, BackedWrite

\* A payment on account leaves the orders alone: none is received, so nothing is due.
LEMMA PaymentBacked ==
  ASSUME Inv, Inv', Backed, NEW v \in Worker, KeepsControl(v), PayWrite(v)
  PROVE  Backed'
<1> DEFINE r == seen[v]
           s == Settle(r, paid, poStatus)
<1>1. pc[v] = "payWrite" /\ End(v) /\ rows' = Append(rows, PaymentRow(r)) /\ applied' = applied
  BY DEF PayWrite
<1>2. on[v] = None /\ r \in Seen /\ \A q \in Po : r.due[q] = 0
  BY <1>1, ReadTypes DEF Backed, Backing, InPayment, Numbered
<1>3. PaidBy(on[v], r) = paid /\ StatusBy(on[v], r) = poStatus
  BY <1>2 DEF PaidBy, StatusBy
<1>4. paid' = s.paid /\ poStatus' = s.status
  BY <1>3 DEF PayWrite
<1>5. /\ paid \in [Po -> Nat] /\ poStatus \in [Po -> OrderStatus]
      /\ \A q \in Po : r.due[q] <= Total[q]
  BY <1>2, DataFacts
<1>6. /\ Share(r) \in [Po -> Nat] /\ \A q \in Po : Share(r)[q] <= r.due[q]
      /\ s.paid \in [Po -> Nat] /\ s.status \in [Po -> OrderStatus]
      /\ \A q \in Po : Share(r)[q] = 0 => s.paid[q] = paid[q] /\ s.status[q] = poStatus[q]
  <2> HIDE DEF r
  <2>1. /\ Share(r) \in [Po -> Nat] /\ \A q \in Po : Share(r)[q] <= r.due[q]
        /\ s.paid \in [Po -> Nat] /\ s.status \in [Po -> OrderStatus]
        /\ \A q \in Po : /\ s.paid[q] <= Total[q] \/ s.paid[q] = paid[q]
                         /\ Share(r)[q] = 0 => s.paid[q] = paid[q] /\ s.status[q] = poStatus[q]
    BY ONLY SMTT(30), <1>2, <1>5, Settling DEF s
  <2> QED
    BY <2>1
<1> HIDE DEF s
<1>7. \A q \in Po : Share(r)[q] = 0
  <2> SUFFICES ASSUME NEW q \in Po PROVE Share(r)[q] = 0
    OBVIOUS
  <2> DEFINE x == Share(r)[q]
  <2>1. x \in Nat /\ x <= 0
    BY <1>2, <1>6
  <2> HIDE DEF x
  <2> QED
    BY <2>1 DEF x
<1>8. UNCHANGED <<poStatus, paid, applied>>
  BY <1>1, <1>4, <1>5, <1>6, <1>7
<1>9. Grown
  <2>1. r.key \in Key
    BY <1>1 DEF Inv, Relied, ReliedPayment, InPayment, Numbered
  <2>2. Inserted(rows', rows, Len(rows) + 1, PaymentRow(r))
    BY <1>1, <1>2, <2>1, DataFacts, PaymentEntry, AppendInserts
  <2> QED
    BY <2>2, EntryGrows
<1> QED
  BY <1>1, <1>8, <1>9, BackedEnd, BackedQuiet

\* A request that reads, or waits no longer: it touches neither orders nor entries.
LEMMA ReadBacked ==
  ASSUME Inv, Inv', Backed, NEW v \in Worker, KeepsControl(v), UNCHANGED data,
         Backing(v)', Creating(v)' => (Creating(v) /\ on'[v] = on[v]) \/ \A w \in Worker : on[w] # on'[v]
  PROVE  Backed'
<1>1. UNCHANGED <<rows, poStatus, paid, applied>>
  BY DEF data, ledgerVars, orderVars
<1>2. Grown
  BY <1>1, TotalsAreNat DEF Grown
<1> QED
  BY <1>1, <1>2, BackedQuiet

LEMMA ArriveBacked ==
  ASSUME Inv, Inv', Unreset, Backed, NEW v \in Worker, KeepsControl(v), Arrive(v)
  PROVE  Backed'
<1>1. \A op \in {"pay", "advance", "bill", "editOpening"} : op \notin ops
  BY DEF Unreset
<1>2. ASSUME NEW c, NEW d, NEW r, pc' = [pc EXCEPT ![v] = c], on' = [on EXCEPT ![v] = d],
             seen' = [seen EXCEPT ![v] = r]
      PROVE  pc'[v] = c /\ on'[v] = d /\ seen'[v] = r
  BY <1>2, StartedAs
<1>3. CASE \E p \in Po : ApplyRead(v, p)
  <2>1. PICK p \in Po : ApplyRead(v, p)
    BY <1>3
  <2> DEFINE r == [NothingSeen EXCEPT !.paid = paid[p], !.applied = applied[p], !.status = poStatus[p]]
  <2>2. r.paid = paid[p] /\ r.applied = applied[p] /\ r.status = poStatus[p]
    BY DEF NothingSeen
  <2>3. /\ poStatus[p] # "none" /\ UNCHANGED data /\ pc' = [pc EXCEPT ![v] = "applyAvailable"]
        /\ on' = [on EXCEPT ![v] = p] /\ seen' = [seen EXCEPT ![v] = r]
    BY <2>1 DEF ApplyRead, Start, See
  <2> HIDE DEF r
  <2>4. pc'[v] = "applyAvailable" /\ on'[v] = p /\ seen'[v] = r
    BY <1>2, <2>3
  <2>5. UNCHANGED <<rows, poStatus, paid, applied>>
    BY <2>3 DEF data, ledgerVars, orderVars
  <2>6. /\ poStatus[p] \in {"APPROVED", "CANCELLED"} /\ paid[p] \in Nat
        /\ poStatus[p] = "CANCELLED" => Total[p] <= CreditTotal(rows)
    BY <2>3, DataFacts DEF Backed, BackedOrders
  <2>7. Backing(v)' /\ ~ Creating(v)'
    BY <2>2, <2>3, <2>4, <2>5, <2>6 DEF Backing, Creating, InBill, InPayment, Numbered
  <2> QED
    BY <2>3, <2>7, ReadBacked
<1>4. CASE \E p \in Po : BillLock(v, p)
  BY <1>1, <1>4 DEF BillLock, Start
<1>5. CASE \E p \in Po : ApproveBillRead(v, p) \/ CancelRead(v, p)
  <2>1. PICK p \in Po : ApproveBillRead(v, p) \/ CancelRead(v, p)
    BY <1>5
  <2>2. PICK c \in {"approveBill", "cancel"} :
          /\ UNCHANGED data /\ pc' = [pc EXCEPT ![v] = c] /\ on' = [on EXCEPT ![v] = p]
          /\ c = "cancel" => poStatus[p] # "none"
    BY <2>1 DEF ApproveBillRead, CancelRead, Start
  <2>3. pc'[v] = c /\ on'[v] = p /\ poStatus' = poStatus
    BY <2>2 DEF Inv, ControlTypes, data, orderVars
  <2>4. Backing(v)' /\ ~ Creating(v)'
    BY <2>2, <2>3 DEF Backing, Creating, InBill, InPayment, Numbered
  <2> QED
    BY <2>2, <2>4, ReadBacked
<1>6. CASE \E p \in Po, a \in Amounts : AdvanceRead(v, p, a)
  BY <1>1, <1>6 DEF AdvanceRead, Start
<1>7. CASE \E p \in Po, a \in Amounts : NewRead(v, p, a)
  <2>1. PICK p \in Po, a \in Amounts : NewRead(v, p, a)
    BY <1>7
  <2> DEFINE n == Lesser(a, AvailableAdvance)
             r == [NothingSeen EXCEPT !.applied = n, !.amt = a]
  <2>2. r.applied = n
    BY DEF NothingSeen
  <2>3. n <= Debits(rows)
    <3>1. a \in Nat /\ AvailableAdvance \in Nat /\ AvailableAdvance <= Debits(rows) /\ Debits(rows) \in Nat
      BY VendorAssumption, AvailableIsCovered, TotalsAreNat
    <3> QED
      BY <3>1 DEF Lesser
  <2>4. /\ poStatus[p] = "none" /\ UNCHANGED data /\ pc' = [pc EXCEPT ![v] = "newLock"]
        /\ on' = [on EXCEPT ![v] = p] /\ seen' = [seen EXCEPT ![v] = r] /\ \A w \in Worker : on[w] # p
    BY <2>1 DEF NewRead, Start, See
  <2> HIDE DEF r, n
  <2>5. pc'[v] = "newLock" /\ on'[v] = p /\ seen'[v] = r
    BY <1>2, <2>4
  <2>6. UNCHANGED <<rows, poStatus>>
    BY <2>4 DEF data, ledgerVars, orderVars
  <2>7. Backing(v)'
    BY <2>2, <2>3, <2>4, <2>5, <2>6 DEF Backing, Creating, InBill, InPayment, Numbered
  <2> QED
    BY <2>4, <2>5, <2>7, ReadBacked
<1>8. CASE \E k \in Key, p \in Po \cup {None}, a \in Amounts, billed \in BOOLEAN : PayCheck(v, k, p, a, billed)
  <2>1. PICK p \in Po \cup {None} : \E k \in Key, a \in Amounts, billed \in BOOLEAN : PayCheck(v, k, p, a, billed)
    BY <1>8
  <2>2. p = None /\ UNCHANGED data /\ pc' = [pc EXCEPT ![v] = "payLock"] /\ on' = [on EXCEPT ![v] = p]
    BY <1>1, <2>1 DEF PayCheck, Start
  <2>3. pc'[v] = "payLock" /\ on'[v] = None
    BY <2>2 DEF Inv, ControlTypes
  <2>4. Backing(v)' /\ ~ Creating(v)'
    BY <2>3 DEF Backing, Creating, InBill, InPayment, Numbered
  <2> QED
    BY <2>2, <2>4, ReadBacked
<1>9. CASE \/ \E t \in LedgerType, a \in Amounts : AdjustRead(v, t, a)
           \/ ReturnRead(v) \/ SyncRead(v) \/ InjectRead(v)
  <2>1. PICK c \in {"adjust", "return", "sync", "inject"} : UNCHANGED data /\ pc' = [pc EXCEPT ![v] = c]
    BY <1>9 DEF AdjustRead, ReturnRead, SyncRead, InjectRead, Start
  <2>2. pc'[v] = c
    BY <2>1 DEF Inv, ControlTypes
  <2>3. Backing(v)' /\ ~ Creating(v)'
    BY <2>2 DEF Backing, Creating, InBill, InPayment, Numbered
  <2> QED
    BY <2>1, <2>3, ReadBacked
<1>10. CASE \E b \in Openings : EditOpening(v, b)
  BY <1>1, <1>10 DEF EditOpening, Start
<1>11. CASE ReturnCreate(v)
  <2>1. UNCHANGED <<rows, poStatus, paid, applied, pc, on, seen>>
    BY <1>11 DEF ReturnCreate, orderVars
  <2>2. Backed'
    BY ONLY <2>1, Backed DEF Backed, Backing, BackedOrders, Creating
  <2> QED
    BY <2>2
<1> QED
  BY <1>3, <1>4, <1>5, <1>6, <1>7, <1>8, <1>9, <1>10, <1>11 DEF Arrive

\* The credit is read: it is beside what the order has reserved, or, if the order was
\* cancelled, beside its reversal.
LEMMA AvailableBacked ==
  ASSUME Inv, Inv', Backed, NEW v \in Worker, KeepsControl(v), ApplyReadAvailable(v)
  PROVE  Backed'
<1> DEFINE p == on[v]
           n == AvailableAdvance
           amt == Lesser(Total[p] - seen[v].paid, n)
           r == [seen[v] EXCEPT !.amt = amt]
<1>1. pc[v] = "applyAvailable" /\ UNCHANGED data
  BY DEF ApplyReadAvailable
<1>2. p \in Po /\ seen[v] \in Seen
  BY <1>1, ReadTypes DEF Inv, Relied, ReliedOrder, OnAnOrder
<1>3. CASE End(v)
  BY <1>1, <1>3, BackedEnd, ReadBacked
<1>4. CASE ~ End(v)
  <2>1. /\ n > 0 /\ Total[p] - seen[v].paid > 0
        /\ pc' = [pc EXCEPT ![v] = "apply"] /\ on' = on /\ seen' = [seen EXCEPT ![v] = r]
    BY <1>4 DEF ApplyReadAvailable, Goto, See
  <2>2. /\ poStatus[p] # "none" /\ seen[v].paid <= paid[p] /\ seen[v].status \in {"APPROVED", "CANCELLED"}
        /\ seen[v].status = "CANCELLED" => Total[p] <= CreditTotal(rows)
        /\ paid[p] = seen[v].paid => applied[p] = seen[v].applied
        /\ poStatus[p] \in {"none", "APPROVED", "CANCELLED"} /\ applied[p] <= paid[p]
        /\ poStatus[p] = "CANCELLED" => Total[p] <= CreditTotal(rows)
    BY <1>1, <1>2 DEF Backed, Backing, BackedOrders
  <2>3. /\ paid[p] \in Nat /\ applied[p] \in Nat /\ Total[p] \in Nat
        /\ n \in Nat /\ Debits(rows) \in Nat /\ CreditTotal(rows) \in Nat
        /\ seen[v].paid \in Nat
    BY <1>2, ReadTypes, AvailableIsCovered, TotalsAreNat DEF Seen
  <2>4. ASSUME paid[p] = seen[v].paid PROVE applied[p] + n <= Debits(rows)
    <3>1. CASE poStatus[p] = "APPROVED"
      <4>1. p \in Reserving
        BY <1>2, <3>1 DEF Reserving
      <4> QED
        BY <2>1, <4>1, AvailableIsCovered
    <3>2. CASE poStatus[p] = "CANCELLED"
      <4>1. CreditTotal(rows) + n <= Debits(rows) /\ Total[p] <= CreditTotal(rows)
        BY <2>1, <2>2, <3>2, AvailableIsCovered
      <4>2. paid[p] < Total[p]
        BY <2>1, <2>3, <2>4
      <4> HIDE DEF n, p
      <4> QED
        BY <2>2, <2>3, <4>1, <4>2
    <3> QED
      BY <2>2, <3>1, <3>2
  <2>5. amt \in Nat /\ amt <= n
    <3> DEFINE x == Total[p] - seen[v].paid
    <3>1. x \in Int /\ x > 0 /\ amt = Lesser(x, n) /\ n \in Nat
      BY <2>1, <2>3
    <3> HIDE DEF x, n, amt
    <3> QED
      BY ONLY <3>1 DEF Lesser
  <2> HIDE DEF amt, n
  <2>6. r \in Seen /\ r.amt = amt /\ r.paid = seen[v].paid /\ r.applied = seen[v].applied /\ r.status = seen[v].status
    BY <1>2, <2>5 DEF Seen
  <2> HIDE DEF r
  <2>7. pc'[v] = "apply" /\ on'[v] = p /\ seen'[v] = r
    BY <2>1 DEF Inv, ControlTypes
  <2>8. UNCHANGED <<rows, poStatus, paid, applied>>
    BY <1>1 DEF data, ledgerVars, orderVars
  <2> HIDE DEF p
  <2>9. paid[p] = r.paid => r.applied + r.amt <= Debits(rows)
    BY <2>2, <2>3, <2>4, <2>5, <2>6
  <2>10. Backing(v)' /\ ~ Creating(v)'
    BY <2>2, <2>6, <2>7, <2>8, <2>9 DEF Backing, Creating, InBill, InPayment, Numbered
  <2> QED
    BY <1>1, <2>10, ReadBacked
<1> QED
  BY <1>3, <1>4

\* The steps of a payment and of a new order before they write.
LEMMA LockBacked ==
  ASSUME Inv, Inv', Backed, NEW v \in Worker, KeepsControl(v),
         PayLock(v) \/ PayReadPO(v) \/ PayTotals(v) \/ NewLock(v)
  PROVE  Backed'
<1>1. seen[v] \in Seen /\ on[v] \in Po \cup {None} /\ UNCHANGED data /\ on' = on
  BY ReadTypes DEF PayLock, PayReadPO, PayTotals, NewLock, Goto
<1>2. CASE PayLock(v) \/ PayReadPO(v) \/ PayTotals(v)
  <2>1. /\ pc[v] \in {"payLock", "payPO", "payTotals"}
        /\ \E c \in {"payPO", "payTotals", "payDue"} : pc' = [pc EXCEPT ![v] = c]
    BY <1>2 DEF PayLock, PayReadPO, PayTotals, Goto
  <2>2. pc'[v] \in {"payPO", "payTotals", "payDue"}
    BY <2>1 DEF Inv, ControlTypes
  <2>3. on[v] = None
    BY <2>1 DEF Backed, Backing, InPayment, Numbered
  <2>4. Backing(v)' /\ ~ Creating(v)'
    BY <1>1, <2>2, <2>3 DEF Backing, Creating, InBill, InPayment, Numbered
  <2> QED
    BY <1>1, <2>4, ReadBacked
<1>3. CASE NewLock(v)
  <2>1. /\ pc[v] = "newLock" /\ pc' = [pc EXCEPT ![v] = "newWrite"]
        /\ seen' = [seen EXCEPT ![v] = [seen[v] EXCEPT !.bal = LastBalance]]
    BY <1>3 DEF NewLock, Goto, See
  <2>2. pc'[v] = "newWrite" /\ seen'[v].applied = seen[v].applied
    BY <1>1, <2>1 DEF Inv, ControlTypes, Seen
  <2>3. Creating(v) /\ poStatus[on[v]] = "none" /\ seen[v].applied <= Debits(rows)
    BY <2>1 DEF Backed, Backing, Creating
  <2>4. UNCHANGED <<rows, poStatus>>
    BY <1>1 DEF data, ledgerVars, orderVars
  <2>5. Backing(v)'
    BY <1>1, <2>2, <2>3, <2>4 DEF Backing, Creating, InBill, InPayment, Numbered
  <2> QED
    BY <1>1, <2>3, <2>5, ReadBacked
<1> QED
  BY <1>2, <1>3

\* No order is received, so nothing is due.
LEMMA DueBacked ==
  ASSUME Inv, Inv', Backed, NEW v \in Worker, KeepsControl(v), PayDue(v)
  PROVE  Backed'
<1> DEFINE due == DueOf(PaidBy(on[v], seen[v]), StatusBy(on[v], seen[v]))
           r == [seen[v] EXCEPT !.due = due]
<1>1. /\ pc[v] = "payDue" /\ UNCHANGED data /\ on' = on
      /\ pc' = [pc EXCEPT ![v] = "payWrite"] /\ seen' = [seen EXCEPT ![v] = r]
  BY DEF PayDue, Goto, See
<1>2. on[v] = None /\ seen[v] \in Seen
  BY <1>1, ReadTypes DEF Backed, Backing, InPayment, Numbered
<1>3. \A q \in Po : due[q] = 0
  BY <1>2 DEF DueOf, StatusBy, Backed, BackedOrders
<1> HIDE DEF due
<1>4. r.due = due
  BY <1>2 DEF Seen
<1> HIDE DEF r
<1>5. pc'[v] = "payWrite" /\ seen'[v] = r
  BY <1>1 DEF Inv, ControlTypes
<1>6. Backing(v)' /\ ~ Creating(v)'
  BY <1>1, <1>2, <1>3, <1>4, <1>5 DEF Backing, Creating, InBill, InPayment, Numbered
<1> QED
  BY <1>1, <1>6, ReadBacked

LEMMA BackedStep == Inv /\ Inv' /\ Unreset /\ Backed /\ [Next]_vars => Backed'
<1> SUFFICES ASSUME Inv, Inv', Unreset, Backed, [Next]_vars PROVE Backed'
  OBVIOUS
<1>1. CASE UNCHANGED vars
  <2>1. UNCHANGED <<rows, poStatus, paid, applied, pc, on, seen>>
    BY <1>1 DEF vars, data, ledgerVars, orderVars
  <2> QED
    BY ONLY <2>1, Backed DEF Backed, Backing, BackedOrders, Creating
<1>2. ASSUME NEW v \in Worker, Arrive(v) \/ Step(v) \/ Timeout(v) PROVE Backed'
  <2>1. KeepsControl(v)
    BY <1>2, StepKeepsControl
  <2>2. pc[v] \notin {"advance", "editOpening", "billTotals", "billDue", "bill"}
    BY DEF Backed, Backing, InBill
  <2>3. CASE Timeout(v) \/ PayRefused(v)
    <3>1. End(v) /\ UNCHANGED data
      BY <2>3 DEF Timeout, PayRefused
    <3> QED
      BY <2>1, <3>1, BackedEnd, ReadBacked
  <2>4. CASE ApproveBillWrite(v)
    <3>1. End(v) /\ UNCHANGED <<rows, poStatus, paid, applied>>
      BY <2>4 DEF ApproveBillWrite, ledgerVars, orderVars
    <3>2. Grown
      BY <3>1, TotalsAreNat DEF Grown
    <3> QED
      BY <2>1, <3>1, <3>2, BackedEnd, BackedQuiet
  <2>5. CASE AdjustWrite(v) \/ ReturnWrite(v) \/ SyncWrite(v) \/ InjectWrite(v)
    <3>1. End(v) /\ UNCHANGED <<poStatus, paid, applied>>
      BY <2>5 DEF AdjustWrite, ReturnWrite, SyncWrite, InjectWrite, orderVars
    <3>2. PICK i, e : Inserted(rows', rows, i, e)
      BY <2>5, ForeignEntry
    <3>3. Grown
      BY <3>2, EntryGrows
    <3> QED
      BY <2>1, <3>1, <3>3, BackedEnd, BackedQuiet
  <2>6. CASE AdvanceWrite(v) \/ EditOpeningWrite(v) \/ BillTotals(v) \/ BillDue(v) \/ BillPost(v)
    BY <2>2, <2>6 DEF AdvanceWrite, EditOpeningWrite, BillTotals, BillDue, BillPost
  <2>7. CASE ApplyReadAvailable(v) \/ ApplyWrite(v) \/ NewWrite(v) \/ CancelWrite(v)
    BY <2>1, <2>7, AvailableBacked, ApplyBacked, NewBacked, CancelBacked
  <2>8. CASE PayLock(v) \/ PayReadPO(v) \/ PayTotals(v) \/ NewLock(v)
    BY <2>1, <2>8, LockBacked
  <2>9. CASE PayDue(v) \/ PayWrite(v)
    BY <2>1, <2>9, DueBacked, PaymentBacked
  <2>10. CASE Arrive(v)
    BY <2>1, <2>10, ArriveBacked
  <2> QED
    BY <1>2, <2>3, <2>4, <2>5, <2>6, <2>7, <2>8, <2>9, <2>10 DEF Step
<1> QED
  BY <1>1, <1>2 DEF Next

\* Beside payments on account, new orders, cancellations, adjustments, returns and the
\* repairs of pages, no order reserves more than the vendor was ever paid, and a
\* reservation that finds the order's paid as it read it finds its advance so too.
THEOREM CreditSafe == Spec => [](AppliedWithinCredit /\ (Unreset => AppliedOnFreshNumbers))
<1> DEFINE I == Inv /\ (Unreset => Backed)
<1>1. Init => I
  <2>1. Init => Backed
    <3> SUFFICES ASSUME Init PROVE Backed
      OBVIOUS
    <3>1. Inv /\ \A w \in Worker : pc[w] = "idle"
      BY InitInv DEF Init
    <3>2. \A p \in Po : applied[p] = 0 /\ paid[p] = 0 /\ poStatus[p] \in {"none", "APPROVED"}
      BY DEF Init
    <3>3. BackedOrders
      BY <3>1, <3>2, TotalsAreNat DEF BackedOrders
    <3> QED
      BY <3>1, <3>3 DEF Backed, Backing, Creating, InBill, InPayment, Numbered
  <2> QED
    BY <2>1, InitInv
<1>2. I /\ [Next]_vars => I'
  <2>1. [Next]_vars => (Unreset' <=> Unreset)
    BY OpsConstant DEF Unreset
  <2> QED
    BY <2>1, InvStep, BackedStep
<1>3. I => AppliedWithinCredit /\ (Unreset => AppliedOnFreshNumbers)
  BY DEF AppliedWithinCredit, Unreset, Backed, BackedOrders, Backing, AppliedOnFreshNumbers, PaidUnchanged
<1> HIDE DEF I
<1> QED
  BY <1>1, <1>2, <1>3, PTL DEF Spec
=============================================================================

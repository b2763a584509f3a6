---------------------------- MODULE LedgerProofs ----------------------------
(***************************************************************************)
(* Theorems about the money: what SumTo computes, for every length; what   *)
(* holds of the figures for every document and every collection (the form  *)
(* shows the totals the server stores, shares stay between 0 and 100 and   *)
(* make up the whole but for rounding); and what holds of Ledger, for      *)
(* every number of invoices, payments, requests in flight and requests in  *)
(* all, and for all amounts and totals.                                    *)
(***************************************************************************)
EXTENDS Dashboard, WellFoundedInduction, FiniteSetTheorems, TLAPS

-----------------------------------------------------------------------------
(***************************************************************************)
(* Sums.  The arguments by induction are made with the smallest            *)
(* counterexample.                                                         *)
(***************************************************************************)

\* A nonempty set of natural numbers has a smallest element.
LEMMA SmallestNat ==
    ASSUME NEW T \in SUBSET Nat, T # {}
    PROVE  \E x \in T : \A y \in T : x <= y
<1> DEFINE R == {ss \in Nat \X Nat : ss[1] < ss[2]}
<1>1. IsWellFoundedOn(OpToRel(<, Nat), Nat)
  BY NatLessThanWellFounded
<1>2. OpToRel(<, Nat) = R
  BY DEF OpToRel
<1>3. IsWellFoundedOn(R, Nat)
  BY <1>1, <1>2
<1>4. \A x, y \in Nat : <<y, x>> \in R <=> y < x
  OBVIOUS
<1> HIDE DEF R
<1>5. PICK x \in T : \A y \in T : ~ (<<y, x>> \in R)
  BY <1>3, WFMin
<1>6. ASSUME NEW y \in T PROVE x <= y
  <2>1. x \in Nat /\ y \in Nat
    OBVIOUS
  <2>2. ~ (y < x)
    BY <1>4, <1>5, <2>1
  <2> QED
    BY <2>1, <2>2
<1> QED
  BY <1>6

\* A set of natural numbers that holds 0, and n + 1 with n up to a bound, holds
\* every number up to the bound.
LEMMA UpTo ==
    ASSUME NEW n \in Nat, NEW S,
           0 \in S, \A m \in 1..n : m - 1 \in S => m \in S
    PROVE  \A m \in 0..n : m \in S
<1> DEFINE T == {m \in 0..n : m \notin S}
<1>1. SUFFICES ASSUME T # {} PROVE FALSE
  OBVIOUS
<1>2. T \in SUBSET Nat
  OBVIOUS
<1>3. PICK m \in T : \A y \in T : m <= y
  BY <1>1, <1>2, SmallestNat
<1>4. m \in 1..n
  BY <1>3
<1>5. m - 1 \in 0..n /\ m - 1 \notin T
  BY <1>3, <1>4
<1> QED
  BY <1>3, <1>4, <1>5

-----------------------------------------------------------------------------

\* s holds the sums of the first 0, ..., n values of f.
Accumulates(s, f, n) ==
    /\ s \in [0..n -> Int]
    /\ s[0] = 0
    /\ \A k \in 1..n : s[k] = s[k - 1] + f[k]

\* The recursive definition of PartialSums has a solution.
LEMMA SumsExist ==
    ASSUME NEW n \in Nat, NEW f \in [1..n -> Int]
    PROVE  \E s : Accumulates(s, f, n)
<1> DEFINE S == {m \in 0..n : \E s : Accumulates(s, f, m)}
<1>1. 0 \in S
  <2>1. Accumulates([k \in 0..0 |-> 0], f, 0)
    BY DEF Accumulates
  <2> QED
    BY <2>1
<1>2. ASSUME NEW m \in 1..n, m - 1 \in S
      PROVE  m \in S
  <2>1. PICK s : Accumulates(s, f, m - 1)
    BY <1>2
  <2> DEFINE t == [k \in 0..m |-> IF k = m THEN s[m - 1] + f[m] ELSE s[k]]
  <2>2. t \in [0..m -> Int]
    BY <2>1 DEF Accumulates
  <2>3. t[0] = 0
    BY <2>1 DEF Accumulates
  <2>4. ASSUME NEW k \in 1..m PROVE t[k] = t[k - 1] + f[k]
    <3>1. CASE k = m
      BY <3>1
    <3>2. CASE k # m
      BY <2>1, <3>2 DEF Accumulates
    <3> QED
      BY <3>1, <3>2
  <2>5. Accumulates(t, f, m)
    BY <2>2, <2>3, <2>4 DEF Accumulates
  <2> QED
    BY <2>5
<1>3. \A m \in 0..n : m \in S
  BY <1>1, <1>2, UpTo
<1> QED
  BY <1>3

\* PartialSums is a solution.
LEMMA PartialSumsAccumulate ==
    ASSUME NEW n \in Nat, NEW f \in [1..n -> Int]
    PROVE  Accumulates(PartialSums(f, n), f, n)
<1> DEFINE Unfolded(s) == [k \in 0..n |-> IF k = 0 THEN 0 ELSE s[k - 1] + f[k]]
           s == PartialSums(f, n)
           S == {m \in 0..n : s[m] \in Int}
<1>1. PICK t : Accumulates(t, f, n)
  BY SumsExist
<1>2. t = Unfolded(t)
  BY <1>1 DEF Accumulates
<1>3. s = CHOOSE r : r = Unfolded(r)
  BY DEF PartialSums
<1>4. s = Unfolded(s)
  BY <1>2, <1>3
<1> HIDE DEF s
<1>5. s[0] = 0 /\ \A k \in 1..n : s[k] = s[k - 1] + f[k]
  BY <1>4
<1>6. 0 \in S /\ \A m \in 1..n : m - 1 \in S => m \in S
  BY <1>5
<1>7. \A m \in 0..n : m \in S
  BY <1>6, UpTo
<1>8. s \in [0..n -> Int]
  BY <1>4, <1>7
<1> QED
  BY <1>5, <1>8 DEF Accumulates, s

\* A sum of integers is an integer.
LEMMA SumType ==
    ASSUME NEW n \in Nat, NEW f \in [1..n -> Int]
    PROVE  SumTo(f, n) \in Int
BY PartialSumsAccumulate DEF SumTo, Accumulates

\* A sum of zeros is zero.
LEMMA SumOfZeros ==
    ASSUME NEW n \in Nat, NEW f \in [1..n -> Int], \A k \in 1..n : f[k] = 0
    PROVE  SumTo(f, n) = 0
<1> DEFINE s == PartialSums(f, n)
           S == {m \in 0..n : s[m] = 0}
<1>1. Accumulates(s, f, n)
  BY PartialSumsAccumulate
<1> HIDE DEF s
<1>2. 0 \in S /\ \A m \in 1..n : m - 1 \in S => m \in S
  BY <1>1 DEF Accumulates
<1>3. \A m \in 0..n : m \in S
  BY <1>2, UpTo
<1> QED
  BY <1>3 DEF SumTo, s

\* Changing one value changes the sum by as much.
LEMMA SumOfChange ==
    ASSUME NEW n \in Nat, NEW f \in [1..n -> Int], NEW g \in [1..n -> Int],
           NEW p \in 1..n, \A k \in 1..n : k # p => g[k] = f[k]
    PROVE  SumTo(g, n) = SumTo(f, n) + (g[p] - f[p])
<1> DEFINE s == PartialSums(f, n)
           t == PartialSums(g, n)
           S == {m \in 0..n : t[m] = IF m < p THEN s[m] ELSE s[m] + (g[p] - f[p])}
<1>1. Accumulates(s, f, n) /\ Accumulates(t, g, n)
  BY PartialSumsAccumulate
<1> HIDE DEF s, t
<1>2. 0 \in S
  BY <1>1 DEF Accumulates
<1>3. ASSUME NEW m \in 1..n, m - 1 \in S
      PROVE  m \in S
  <2>1. s[m] = s[m - 1] + f[m] /\ t[m] = t[m - 1] + g[m]
    BY <1>1 DEF Accumulates
  <2>2. s[m - 1] \in Int /\ t[m - 1] \in Int /\ s[m] \in Int /\ t[m] \in Int
    BY <1>1 DEF Accumulates
  <2>3. f[m] \in Int /\ g[m] \in Int /\ f[p] \in Int /\ g[p] \in Int
    OBVIOUS
  <2>4. m # p => g[m] = f[m]
    OBVIOUS
  <2>5. t[m - 1] = IF m - 1 < p THEN s[m - 1] ELSE s[m - 1] + (g[p] - f[p])
    BY <1>3
  <2>6. CASE m < p
    <3>1. m - 1 < p /\ m # p
      BY <2>6
    <3> QED
      BY <2>1, <2>4, <2>5, <2>6, <3>1
  <2>7. CASE m = p
    <3>1. t[m - 1] = s[m - 1]
      BY <2>5, <2>7
    <3>2. t[m] = s[m] + (g[p] - f[p])
      BY <2>1, <2>2, <2>3, <2>7, <3>1
    <3> QED
      BY <2>7, <3>2
  <2>8. CASE m > p
    <3>1. ~ (m - 1 < p) /\ m # p /\ ~ (m < p)
      BY <2>8
    <3>2. t[m] = s[m] + (g[p] - f[p])
      BY <2>1, <2>2, <2>3, <2>4, <2>5, <3>1
    <3> QED
      BY <3>1, <3>2
  <2> QED
    BY <2>6, <2>7, <2>8
<1>4. \A m \in 0..n : m \in S
  BY <1>2, <1>3, UpTo
<1>5. t[n] = s[n] + (g[p] - f[p])
  BY <1>4
<1> QED
  BY <1>5 DEF SumTo, s, t

-----------------------------------------------------------------------------
(***************************************************************************)
(* Figures.                                                                *)
(***************************************************************************)

\* Division by a positive number rounds down.
LEMMA Division ==
    ASSUME NEW a \in Int, NEW b \in Nat, b > 0
    PROVE  /\ a \div b \in Int
           /\ b * (a \div b) <= a
           /\ a < b * (a \div b) + b
BY Z3

\* Rounding is off by at most a half.
LEMMA RoundNear ==
    ASSUME NEW n \in Nat, NEW d \in Nat, d > 0
    PROVE  /\ Round(n, d) \in Nat
           /\ (2 * d) * Round(n, d) <= 2 * n + d
           /\ 2 * n + d < (2 * d) * Round(n, d) + 2 * d
<1> DEFINE q == (2 * n + d) \div (2 * d)
<1>1. /\ q \in Int
      /\ (2 * d) * q <= 2 * n + d
      /\ 2 * n + d < (2 * d) * q + 2 * d
  <2> SUFFICES 2 * n + d \in Int /\ 2 * d \in Nat /\ 2 * d > 0
    BY Division
  <2> QED OBVIOUS
<1>2. q >= 0
  <2>1. (2 * d) * (q + 1) > 0
    BY <1>1
  <2> QED BY <1>1, <2>1, Z3
<1> QED BY <1>1, <1>2 DEF Round

LEMMA RoundOfZero == ASSUME NEW d \in Nat, d > 0 PROVE Round(0, d) = 0
<1>1. /\ Round(0, d) \in Nat /\ (2 * d) * Round(0, d) <= d
  BY RoundNear
<1>2. ASSUME Round(0, d) > 0 PROVE FALSE
  <2>1. (2 * d) * Round(0, d) >= 2 * d
    BY <1>1, <1>2, Z3
  <2> QED BY <1>1, <2>1
<1> QED BY <1>1, <1>2

LEMMA MultiplyType == ASSUME NEW x \in Nat, NEW y \in Nat PROVE Multiply(x, y) \in Nat
<1>1. Round(x, PerCent) \in Nat
  BY RoundNear DEF PerCent
<1>2. Round(x, PerCent) * y \in Nat
  BY <1>1
<1> QED BY <1>2, RoundNear DEF Multiply, Unit

\* A row without quantity or without price is worth nothing.
LEMMA NothingCounts ==
    ASSUME NEW x \in Nat, NEW y \in Nat, x = 0 \/ y = 0
    PROVE  Multiply(x, y) = 0
<1>1. Round(x, PerCent) \in Nat
  BY RoundNear DEF PerCent
<1>2. Round(0, PerCent) = 0 /\ Round(0, Unit) = 0
  BY RoundOfZero DEF PerCent, Unit
<1>3. CASE x = 0
  BY <1>2, <1>3 DEF Multiply
<1>4. CASE y = 0
  BY <1>1, <1>2, <1>4 DEF Multiply
<1> QED BY <1>3, <1>4

Item == [quantity : Nat, price : Nat]

LEMMA SumOfNats ==
    ASSUME NEW n \in Nat, NEW f \in [1..n -> Nat]
    PROVE  SumTo(f, n) \in Nat
<1> DEFINE s == PartialSums(f, n)
           S == {m \in 0..n : s[m] \in Nat}
<1>1. Accumulates(s, f, n)
  BY PartialSumsAccumulate
<1> HIDE DEF s
<1>2. 0 \in S /\ \A m \in 1..n : m - 1 \in S => m \in S
  BY <1>1 DEF Accumulates
<1>3. \A m \in 0..n : m \in S
  BY <1>2, UpTo
<1> QED BY <1>3 DEF SumTo, s

LEMMA TotalTypes ==
    ASSUME NEW items \in Seq(Item), NEW rate \in Nat
    PROVE  SubTotal(items) \in Nat /\ TaxTotal(SubTotal(items), rate) \in Nat
<1> DEFINE stored == [k \in 1..Len(items) |-> ItemTotal(items[k])]
<1>1. stored \in [1..Len(items) -> Nat]
  <2>1. ASSUME NEW k \in 1..Len(items) PROVE ItemTotal(items[k]) \in Nat
    <3>1. items[k] \in Item
      OBVIOUS
    <3>2. items[k].quantity \in Nat /\ items[k].price \in Nat
      BY <3>1 DEF Item
    <3> QED BY <3>2, MultiplyType DEF ItemTotal
  <2> QED BY <2>1
<1>2. Len(items) \in Nat
  OBVIOUS
<1>3. SubTotal(items) \in Nat
  BY <1>1, <1>2, SumOfNats DEF SubTotal
<1>4. SubTotal(items) * rate \in Nat
  BY <1>3
<1>5. 100 * Unit \in Nat /\ 100 * Unit > 0
  BY DEF Unit
<1>6. TaxTotal(SubTotal(items), rate) \in Nat
  BY <1>4, <1>5, RoundNear DEF TaxTotal
<1> QED BY <1>3, <1>6

\* The totals the form shows under the rows are the ones the server stores for
\* them: the browser skips the rows without quantity or price, adds the tax
\* first and works from what was typed, the server from what was sent.
\* (CreateItem.jsx:54-76, UpdateItem.jsx:65-83 and InvoiceForm.jsx:54-58 against
\* invoiceController/create.js:28-46, update.js:28-53)
THEOREM ShownIsStored ==
    ASSUME NEW items \in Seq(Item), NEW rate \in Nat
    PROVE  FormTotals(items, rate) = DocumentTotals(items, rate)
<1> DEFINE shown == [k \in 1..Len(items) |-> IF Counts(items[k]) THEN ItemTotal(items[k]) ELSE 0]
           stored == [k \in 1..Len(items) |-> ItemTotal(items[k])]
<1>1. ASSUME NEW k \in 1..Len(items) PROVE shown[k] = stored[k]
  <2>1. items[k] \in Item
    OBVIOUS
  <2>2. CASE Counts(items[k])
    BY <2>2
  <2>3. CASE ~Counts(items[k])
    <3>1. items[k].quantity = 0 \/ items[k].price = 0
      BY <2>3 DEF Counts
    <3>2. ItemTotal(items[k]) = 0
      BY <2>1, <3>1, NothingCounts DEF ItemTotal, Item
    <3> QED BY <2>3, <3>2
  <2> QED BY <2>2, <2>3
<1>2. shown = stored
  BY <1>1
<1>3. FormSubTotal(items) = SubTotal(items)
  BY <1>2 DEF FormSubTotal, SubTotal
<1>4. SubTotal(items) \in Nat /\ TaxTotal(SubTotal(items), rate) \in Nat
  BY TotalTypes
<1> QED BY <1>3, <1>4 DEF FormTotals, DocumentTotals

\* A total is at least its items, and exactly them without tax: rounding never
\* makes a document cheaper than what is on it.
\* (invoiceController/create.js:35-37, update.js:44-46)
THEOREM TotalCoversItems ==
    ASSUME NEW items \in Seq(Item), NEW rate \in Nat
    PROVE  LET t == DocumentTotals(items, rate)
           IN  /\ t.subTotal >= 0 /\ t.total >= t.subTotal
               /\ rate = 0 => t.total = t.subTotal
<1>1. SubTotal(items) \in Nat /\ TaxTotal(SubTotal(items), rate) \in Nat
  BY TotalTypes
<1>2. rate = 0 => TaxTotal(SubTotal(items), rate) = 0
  BY <1>1, RoundOfZero DEF TaxTotal, Unit
<1> QED BY <1>1, <1>2 DEF DocumentTotals

\* The page of a saved document shows the totals that the form showed before it
\* was saved, however many decimals are shown.  (QuoteForm.jsx:225-284 and
\* ReadItem.jsx:282-319)
THEOREM ReadAsShown ==
    ASSUME NEW items \in Seq(Item), NEW rate \in Nat, NEW digit \in Nat
    PROVE  ReadTotals(DocumentTotals(items, rate), digit) = ShownTotals(items, rate, digit)
BY ShownIsStored DEF ReadTotals, ShownTotals

\* The totals shown of the parts make up the total shown but for one of its last
\* digit: each of the three is rounded by itself.  (useMoney.jsx:15-30)
THEOREM PartsMakeTotal ==
    ASSUME NEW items \in Seq(Item), NEW rate \in Nat, NEW digit \in Nat, digit > 0
    PROVE  LET shown == ReadTotals(DocumentTotals(items, rate), digit)
           IN  shown["subTotal"] + shown["taxTotal"] - shown["total"] \in {-1, 0, 1}
<1> DEFINE a == SubTotal(items)
           b == TaxTotal(SubTotal(items), rate)
           x == Round(a, digit)
           y == Round(b, digit)
           z == Round(a + b, digit)
<1>1. a \in Nat /\ b \in Nat
  BY TotalTypes
<1>2. LET shown == ReadTotals(DocumentTotals(items, rate), digit)
      IN  shown["subTotal"] = x /\ shown["taxTotal"] = y /\ shown["total"] = z
  BY DEF ReadTotals, DocumentTotals, CurrencyFormat
<1> HIDE DEF a, b
<1>3. /\ x \in Nat /\ (2 * digit) * x <= 2 * a + digit /\ 2 * a + digit < (2 * digit) * x + 2 * digit
      /\ y \in Nat /\ (2 * digit) * y <= 2 * b + digit /\ 2 * b + digit < (2 * digit) * y + 2 * digit
  BY <1>1, RoundNear
<1>4. /\ z \in Nat /\ (2 * digit) * z <= 2 * (a + b) + digit
      /\ 2 * (a + b) + digit < (2 * digit) * z + 2 * digit
  <2>1. a + b \in Nat
    BY <1>1
  <2> QED BY <2>1, RoundNear
<1> HIDE DEF x, y, z
<1>5. (2 * digit) * (x + y - z) = (2 * digit) * x + (2 * digit) * y - (2 * digit) * z
  BY <1>3, <1>4, Z3
<1>6. /\ (2 * digit) * (x + y - z) < 4 * digit
      /\ -4 * digit < (2 * digit) * (x + y - z)
  <2> DEFINE u == (2 * digit) * x
             v == (2 * digit) * y
             w == (2 * digit) * z
  <2>1. u \in Int /\ v \in Int /\ w \in Int
    BY <1>3, <1>4
  <2>2. u + v - w < 4 * digit /\ -4 * digit < u + v - w
    <3>1. u <= 2 * a + digit /\ v <= 2 * b + digit /\ w <= 2 * (a + b) + digit
      BY <1>3, <1>4
    <3>2. /\ 2 * a + digit < u + 2 * digit /\ 2 * b + digit < v + 2 * digit
          /\ 2 * (a + b) + digit < w + 2 * digit
      BY <1>3, <1>4
    <3> HIDE DEF u, v, w
    <3> QED BY <3>1, <3>2, <2>1, <1>1
  <2> QED BY <2>2, <1>5
<1>7. x + y - z \in Int
  BY <1>3, <1>4
<1>8. ASSUME x + y - z >= 2 PROVE FALSE
  <2>1. (2 * digit) * (x + y - z) >= (2 * digit) * 2
    BY <1>7, <1>8, Z3
  <2> QED BY <2>1, <1>6, <1>7
<1>9. ASSUME x + y - z <= -2 PROVE FALSE
  <2>1. (2 * digit) * (x + y - z) <= (2 * digit) * (-2)
    BY <1>7, <1>9, Z3
  <2> QED BY <2>1, <1>6, <1>7
<1>10. x + y - z \in {-1, 0, 1}
  BY <1>7, <1>8, <1>9
<1> QED BY <1>2, <1>10

\* With two decimals the page adds up to the cent: the totals of the items are
\* the sub total, and sub total and tax the total.  (ReadItem.jsx:27-68 and
\* 282-319; the totals are added as they were rounded, item by item.)
THEOREM PageAddsUp ==
    ASSUME NEW items \in Seq(Item), NEW rate \in Nat
    PROVE  LET shown == ReadTotals(DocumentTotals(items, rate), 1)
           IN  /\ SumTo([k \in 1..Len(items) |-> ReadItem(items[k], 1).total], Len(items))
                     = shown["subTotal"]
               /\ shown["subTotal"] + shown["taxTotal"] = shown["total"]
<1>1. ASSUME NEW n \in Nat PROVE CurrencyFormat(n, 1) = n
  <2> DEFINE r == Round(n, 1)
  <2>1. r \in Nat /\ (2 * 1) * r <= 2 * n + 1 /\ 2 * n + 1 < (2 * 1) * r + 2 * 1
    <3>1. 1 \in Nat /\ 1 > 0
      OBVIOUS
    <3> QED BY <3>1, RoundNear
  <2> HIDE DEF r
  <2>2. r = n
    BY <2>1
  <2> QED BY <2>2 DEF CurrencyFormat, r
<1>2. ASSUME NEW k \in 1..Len(items)
      PROVE  ReadItem(items[k], 1).total = ItemTotal(items[k])
  <2>1. items[k] \in Item
    OBVIOUS
  <2>2. ItemTotal(items[k]) \in Nat
    BY <2>1, MultiplyType DEF ItemTotal, Item
  <2> QED BY <2>2, <1>1 DEF ReadItem
<1>3. [k \in 1..Len(items) |-> ReadItem(items[k], 1).total]
        = [k \in 1..Len(items) |-> ItemTotal(items[k])]
  BY <1>2
<1>4. SubTotal(items) \in Nat /\ TaxTotal(SubTotal(items), rate) \in Nat
  BY TotalTypes
<1>5. LET shown == ReadTotals(DocumentTotals(items, rate), 1)
      IN  /\ shown["subTotal"] = SubTotal(items)
          /\ shown["taxTotal"] = TaxTotal(SubTotal(items), rate)
          /\ shown["total"] = SubTotal(items) + TaxTotal(SubTotal(items), rate)
  <2>1. SubTotal(items) + TaxTotal(SubTotal(items), rate) \in Nat
    BY <1>4
  <2> QED BY <1>4, <2>1, <1>1 DEF ReadTotals, DocumentTotals
<1> QED BY <1>3, <1>5 DEF SubTotal

\* The row of an item shows the total that the server stores for it, if neither
\* quantity nor price is finer than a cent.  (ItemRow.jsx:48-52 multiplies the
\* price by the quantity, create.js:30 the quantity by the price, and only the
\* first factor is rounded.)
THEOREM RowShowsItem ==
    ASSUME NEW q \in Nat, NEW p \in Nat, NEW item,
           item = [quantity |-> PerCent * q, price |-> PerCent * p]
    PROVE  RowTotal(item) = ItemTotal(item)
<1>1. ASSUME NEW n \in Nat PROVE Round(PerCent * n, PerCent) = n
  <2> DEFINE r == Round(PerCent * n, PerCent)
  <2>1. /\ r \in Nat
        /\ 20 * r <= 20 * n + 10
        /\ 20 * n + 10 < 20 * r + 20
    <3>1. PerCent * n \in Nat /\ PerCent \in Nat /\ PerCent > 0
      BY DEF PerCent
    <3>2. /\ r \in Nat
          /\ (2 * PerCent) * r <= 2 * (PerCent * n) + PerCent
          /\ 2 * (PerCent * n) + PerCent < (2 * PerCent) * r + 2 * PerCent
      BY <3>1, RoundNear
    <3> HIDE DEF r
    <3> QED BY <3>2 DEF PerCent
  <2> HIDE DEF r
  <2>2. r = n
    BY <2>1
  <2> QED BY <2>2 DEF r
<1>2. RowTotal(item) = Round(p * (PerCent * q), Unit)
  BY <1>1 DEF RowTotal, Multiply
<1>3. ItemTotal(item) = Round(q * (PerCent * p), Unit)
  BY <1>1 DEF ItemTotal, Multiply
<1>4. p * (PerCent * q) = q * (PerCent * p)
  BY DEF PerCent
<1> QED BY <1>2, <1>3, <1>4

-----------------------------------------------------------------------------
(***************************************************************************)
(* Shares.                                                                 *)
(***************************************************************************)

\* A share of a part is between 0 and 100.
LEMMA ShareOfPart ==
    ASSUME NEW n \in Nat, NEW t \in Nat, t > 0, n <= t
    PROVE  Percentage(n, t) \in 0..100
<1> DEFINE r == Round(100 * n, t)
<1>1. /\ r \in Nat
      /\ (2 * t) * r <= 2 * (100 * n) + t
  BY RoundNear
<1>2. ASSUME r > 100 PROVE FALSE
  <2>1. (2 * t) * r >= (2 * t) * 101
    BY <1>1, <1>2, Z3
  <2> HIDE DEF r
  <2> QED BY <1>1, <2>1
<1> QED BY <1>1, <1>2 DEF Percentage

\* The shares of the three payment statuses on the dashboard make up the whole
\* but for one per cent, however many invoices there are: each is rounded by
\* itself.  (invoiceController/summary.js:141-146)
THEOREM SharesAddUp ==
    ASSUME NEW a \in Nat, NEW b \in Nat, NEW c \in Nat, a + b + c > 0
    PROVE  LET t == a + b + c
           IN  Percentage(a, t) + Percentage(b, t) + Percentage(c, t) \in 99..101
<1> DEFINE t == a + b + c
           x == Percentage(a, t)
           y == Percentage(b, t)
           z == Percentage(c, t)
<1>1. ASSUME NEW n \in Nat
      PROVE  /\ Percentage(n, t) \in Nat
             /\ (2 * t) * Percentage(n, t) <= 200 * n + t
             /\ 200 * n + t < (2 * t) * Percentage(n, t) + 2 * t
  <2>1. 100 * n \in Nat /\ t \in Nat /\ t > 0 /\ 2 * (100 * n) = 200 * n
    OBVIOUS
  <2> HIDE DEF t
  <2> QED BY <2>1, RoundNear DEF Percentage
<1>2. /\ x \in Nat /\ (2 * t) * x <= 200 * a + t /\ 200 * a + t < (2 * t) * x + 2 * t
      /\ y \in Nat /\ (2 * t) * y <= 200 * b + t /\ 200 * b + t < (2 * t) * y + 2 * t
      /\ z \in Nat /\ (2 * t) * z <= 200 * c + t /\ 200 * c + t < (2 * t) * z + 2 * t
  BY <1>1
<1>3. t \in Nat /\ t > 0 /\ 200 * a + 200 * b + 200 * c = 200 * t
  OBVIOUS
<1> HIDE DEF t, x, y, z
<1>4. (2 * t) * x + (2 * t) * y + (2 * t) * z = (2 * t) * (x + y + z)
  BY <1>2, <1>3, Z3
<1>5. /\ (2 * t) * (x + y + z) <= 203 * t
      /\ 197 * t < (2 * t) * (x + y + z)
  <2> DEFINE u == (2 * t) * x
             v == (2 * t) * y
             w == (2 * t) * z
  <2>1. u \in Int /\ v \in Int /\ w \in Int
    BY <1>2, <1>3
  <2>2. u + v + w <= 203 * t /\ 197 * t < u + v + w
    <3> HIDE DEF u, v, w
    <3>1. u <= 200 * a + t /\ v <= 200 * b + t /\ w <= 200 * c + t
      BY <1>2 DEF u, v, w
    <3>2. 200 * a + t < u + 2 * t /\ 200 * b + t < v + 2 * t /\ 200 * c + t < w + 2 * t
      BY <1>2 DEF u, v, w
    <3> QED BY <3>1, <3>2, <2>1, <1>3
  <2> QED BY <2>2, <1>4
<1>6. x + y + z \in Nat
  BY <1>2
<1>7. ASSUME x + y + z >= 102 PROVE FALSE
  <2>1. (2 * t) * (x + y + z) >= (2 * t) * 102
    BY <1>3, <1>6, <1>7, Z3
  <2> QED BY <2>1, <1>5, <1>3, <1>6
<1>8. ASSUME x + y + z <= 98 PROVE FALSE
  <2>1. (2 * t) * (x + y + z) <= (2 * t) * 98
    BY <1>3, <1>6, <1>8, Z3
  <2> QED BY <2>1, <1>5, <1>3, <1>6
<1>9. x + y + z \in 99..101
  BY <1>6, <1>7, <1>8
<1> QED BY <1>9 DEF t, x, y, z

\* The share of new customers is between 0 and 100, and the ring of their card shows
\* it whole: they are counted among the customers that make up the total.
\* (clientController/summary.js:29-49, CustomerPreviewCard.jsx:34; the active ones
\* are not, and their share may exceed 100.)
THEOREM NewCustomersInRange ==
    ASSUME NEW clients, IsFiniteSet(DOMAIN clients)
    PROVE  /\ ClientSummary(clients).new \in 0..100
           /\ CustomerPreviewCard(clients).ring = ClientSummary(clients).new
<1> DEFINE present == {c \in DOMAIN clients : clients[c].enabled /\ ~clients[c].removed}
           new == {c \in present : clients[c].createdThisMonth}
<1>1. IsFiniteSet(present) /\ IsFiniteSet(new)
  BY FS_Subset
<1>2. Cardinality(present) \in Nat /\ Cardinality(new) \in Nat
  BY <1>1, FS_CardinalityType
<1>3. Cardinality(new) <= Cardinality(present)
  BY <1>1, FS_Subset
<1>4. present # {} => Cardinality(present) > 0
  BY <1>1, <1>2, FS_EmptySet
<1>5. present # {} => Percentage(Cardinality(new), Cardinality(present)) \in 0..100
  BY <1>2, <1>3, <1>4, ShareOfPart
<1>6. ClientSummary(clients).new \in 0..100
  BY <1>5 DEF ClientSummary
<1> QED BY <1>6 DEF CustomerPreviewCard

-----------------------------------------------------------------------------
(***************************************************************************)
(* The ledger, under the assumptions on its constants.                     *)
(***************************************************************************)

USE LedgerAssumption

-----------------------------------------------------------------------------
(***************************************************************************)
(* Type correctness.                                                       *)
(***************************************************************************)

LEMMA DeltaCases ==
    ASSUME NEW r \in Request
    PROVE  /\ r.at = "bookPayment" => Delta(r) = r.amount
           /\ r.at = "bookAmendment" => Delta(r) = r.amount - r.prev
           /\ r.at = "bookRemoval" => Delta(r) = 0 - r.prev
           /\ r.at \notin Booking => Delta(r) = 0
           /\ Delta(r) \in Int
BY DEF Delta, Booking, Request

LEMMA NoRequestType == NoRequest \in Request
BY DEF NoRequest, Request, Steps

LEMMA StatusTypes ==
    ASSUME NEW total \in Int, NEW credit \in Int
    PROVE  PaymentStatus(total, credit) \in Statuses /\ InitialStatus(total) \in Statuses
BY DEF PaymentStatus, InitialStatus, Statuses

\* The fields of an invoice document that a payment handler has written.
LEMMA BookedOnFields ==
    ASSUME NEW doc \in InvoiceDoc, NEW r \in Request, NEW entries \in SUBSET Payments
    PROVE  /\ BookedOn(doc, r, entries) \in InvoiceDoc
           /\ BookedOn(doc, r, entries).state = doc.state
           /\ BookedOn(doc, r, entries).total = doc.total
           /\ BookedOn(doc, r, entries).credit = doc.credit + Delta(r)
           /\ BookedOn(doc, r, entries).payment = entries
           /\ BookedOn(doc, r, entries).paymentStatus
                = PaymentStatus(r.total, r.credit + Delta(r))
<1> DEFINE status == PaymentStatus(r.total, r.credit + Delta(r))
           credit == doc.credit + Delta(r)
           new == [doc EXCEPT !.payment = entries, !.credit = credit,
                              !.paymentStatus = status]
<1>1. r.total \in Int /\ r.credit \in Int /\ doc.credit \in Int /\ Delta(r) \in Int
  BY DeltaCases DEF Request, InvoiceDoc
<1>2. status \in Statuses /\ credit \in Int
  BY <1>1, StatusTypes
<1> HIDE DEF status, credit
<1>3. new \in InvoiceDoc
  BY <1>2 DEF InvoiceDoc
<1>4. /\ new.state = doc.state /\ new.total = doc.total /\ new.credit = credit
      /\ new.payment = entries /\ new.paymentStatus = status
  BY DEF InvoiceDoc
<1> QED
  BY <1>3, <1>4 DEF BookedOn, status, credit

\* The last step of a payment handler keeps the types.
LEMMA BookType ==
    ASSUME TypeOK, NEW h \in Slots, NEW entries \in SUBSET Payments,
           request[h].inv \in Invoices, Book(h, entries)
    PROVE  TypeOK'
<1> DEFINE r == request[h]
           i == r.inv
<1>1. r \in Request /\ i \in Invoices /\ invoice[i] \in InvoiceDoc
  BY DEF TypeOK
<1>2. invoice' \in [Invoices -> InvoiceDoc]
  BY <1>1, BookedOnFields DEF Book, TypeOK
<1>3. request' \in [Slots -> Request] /\ accepted' \in Nat
  BY NoRequestType DEF Book, Answer, TypeOK
<1>4. fresh' \in [Invoices -> BOOLEAN] /\ payment' = payment /\ flaws' = flaws
  BY DEF Book, TypeOK
<1> QED
  BY <1>2, <1>3, <1>4 DEF TypeOK

\* A flaw recorded is one of Flaws.
LEMMA FlawType ==
    ASSUME NEW c, NEW flaw \in Flaws
    PROVE  FlawIf(c, flaw) \in SUBSET Flaws
BY DEF FlawIf

-----------------------------------------------------------------------------
(***************************************************************************)
(* References: what the documents and the requests in flight point to.     *)
(***************************************************************************)

\* The steps of a request that has read or inserted a payment.
OnPayment == {"populateAmendment", "writeAmendment", "populateRemoval", "writeRemoval"}
               \cup Booking

\* A request in flight is about an invoice that exists, and about a payment of it.
RequestRefs ==
    \A h \in Slots :
        /\ request[h].at # "idle" =>
             /\ request[h].inv \in Invoices
             /\ invoice[request[h].inv].state # "absent"
        /\ request[h].at \in OnPayment =>
             /\ request[h].pay \in Payments
             /\ payment[request[h].pay].state # "absent"
             /\ payment[request[h].pay].invoice = request[h].inv
        /\ request[h].at = "cascade" => invoice[request[h].inv].state = "removed"

\* A payment that exists belongs to an invoice that exists.
PaymentRefs ==
    \A p \in Payments :
        IF payment[p].state = "absent"
        THEN payment[p].invoice = NoInvoice
        ELSE /\ payment[p].invoice \in Invoices
             /\ invoice[payment[p].invoice].state # "absent"

\* An invoice that does not exist has no credit.
NoCreditYet == \A i \in Invoices : invoice[i].state = "absent" => invoice[i].credit = 0

Refs == RequestRefs /\ PaymentRefs /\ NoCreditYet

LEMMA InitRefs == Init => TypeOK /\ Refs
<1> SUFFICES ASSUME Init PROVE TypeOK /\ Refs
  OBVIOUS
<1>1. TypeOK
  BY NoRequestType DEF Init, TypeOK, InvoiceDoc, PaymentDoc, DocStates, Statuses
<1>2. Refs
  BY DEF Init, Refs, RequestRefs, PaymentRefs, NoCreditYet, NoRequest, OnPayment, Booking
<1> QED
  BY <1>1, <1>2

LEMMA CreateInvoiceRefs ==
    ASSUME TypeOK, Refs, NEW i \in Invoices, NEW total \in Totals, CreateInvoice(i, total)
    PROVE  TypeOK' /\ Refs'
<1>1. TypeOK'
  BY StatusTypes DEF TypeOK, CreateInvoice, Admits, InvoiceDoc, DocStates
<1>2. Refs'
  BY DEF TypeOK, Refs, RequestRefs, PaymentRefs, NoCreditYet, CreateInvoice, InvoiceDoc,
         PaymentDoc, Request
<1> QED
  BY <1>1, <1>2

LEMMA ReadInvoiceToUpdateRefs ==
    ASSUME TypeOK, Refs, NEW h \in Slots, NEW i \in Invoices, NEW total \in Totals,
           ReadInvoiceToUpdate(h, i, total)
    PROVE  TypeOK' /\ Refs'
<1>1. TypeOK'
  <2>1. [NoRequest EXCEPT !.at = "writeInvoice", !.inv = i, !.total = total,
                          !.credit = invoice[i].credit] \in Request
    BY NoRequestType DEF Request, Steps, TypeOK, InvoiceDoc
  <2> QED
    BY <2>1 DEF TypeOK, ReadInvoiceToUpdate, Accept, Admits
<1>2. Refs'
  BY DEF TypeOK, Refs, RequestRefs, PaymentRefs, NoCreditYet, ReadInvoiceToUpdate, Accept,
         NoRequest, OnPayment, Booking
<1> QED
  BY <1>1, <1>2

LEMMA WriteInvoiceRefs ==
    ASSUME TypeOK, Refs, NEW h \in Slots, WriteInvoice(h)
    PROVE  TypeOK' /\ Refs'
<1> DEFINE r == request[h]
           i == r.inv
<1>1. r \in Request /\ i \in Invoices /\ invoice[i] \in InvoiceDoc
  BY DEF TypeOK, Refs, RequestRefs, WriteInvoice
<1>2. PaymentStatus(r.total, r.credit) \in Statuses
  BY <1>1, StatusTypes DEF Request
<1>3. TypeOK'
  <2> DEFINE doc == [invoice[i] EXCEPT !.total = r.total,
                                       !.paymentStatus = PaymentStatus(r.total, r.credit)]
  <2>1. doc \in InvoiceDoc
    BY <1>1, <1>2 DEF InvoiceDoc, Request
  <2>2. invoice' = [invoice EXCEPT ![i] = doc] \/ invoice' = invoice
    BY DEF WriteInvoice
  <2>3. invoice' \in [Invoices -> InvoiceDoc]
    BY <1>1, <2>1, <2>2 DEF TypeOK
  <2>4. fresh' \in [Invoices -> BOOLEAN]
    BY <1>1 DEF TypeOK, WriteInvoice
  <2> QED
    BY <2>3, <2>4, NoRequestType DEF TypeOK, WriteInvoice, Answer
<1>4. \A j \in Invoices : invoice'[j].state = invoice[j].state
                          /\ invoice'[j].credit = invoice[j].credit
  BY <1>1 DEF TypeOK, WriteInvoice, InvoiceDoc
<1>5. Refs'
  BY <1>4 DEF TypeOK, Refs, RequestRefs, PaymentRefs, NoCreditYet, WriteInvoice, Answer,
         NoRequest, OnPayment, Booking
<1> QED
  BY <1>3, <1>5

LEMMA RemoveInvoiceRefs ==
    ASSUME TypeOK, Refs, NEW h \in Slots, NEW i \in Invoices, RemoveInvoice(h, i)
    PROVE  TypeOK' /\ Refs'
<1>1. TypeOK'
  <2>1. [NoRequest EXCEPT !.at = "cascade", !.inv = i] \in Request
    BY NoRequestType DEF Request, Steps
  <2>2. [invoice[i] EXCEPT !.state = "removed"] \in InvoiceDoc
    BY DEF TypeOK, InvoiceDoc, DocStates
  <2> QED
    BY <2>1, <2>2 DEF TypeOK, RemoveInvoice, Accept, Admits
<1>2. Refs'
  BY DEF TypeOK, Refs, RequestRefs, PaymentRefs, NoCreditYet, RemoveInvoice, Accept,
         NoRequest, OnPayment, Booking, InvoiceDoc
<1> QED
  BY <1>1, <1>2

LEMMA CascadeRefs ==
    ASSUME TypeOK, Refs, NEW h \in Slots, Cascade(h)
    PROVE  TypeOK' /\ Refs'
<1> DEFINE i == request[h].inv
<1>1. i \in Invoices
  BY DEF Cascade, Refs, RequestRefs
<1>2. ASSUME NEW p \in Payments
      PROVE  /\ payment'[p] \in PaymentDoc
             /\ payment'[p].invoice = payment[p].invoice
             /\ payment[p].state = "absent" <=> payment'[p].state = "absent"
  BY <1>1 DEF Cascade, PaymentsRemovedWith, TypeOK, PaymentDoc, DocStates, Refs, PaymentRefs
<1>3. TypeOK'
  BY <1>2, NoRequestType DEF TypeOK, Cascade, PaymentsRemovedWith, Answer
<1>4. Refs'
  BY <1>2 DEF TypeOK, Refs, RequestRefs, PaymentRefs, NoCreditYet, Cascade, Answer,
         NoRequest, OnPayment, Booking
<1> QED
  BY <1>3, <1>4

LEMMA ReadInvoiceToPayRefs ==
    ASSUME TypeOK, Refs, NEW h \in Slots, NEW i \in Invoices, NEW amount \in Amounts,
           ReadInvoiceToPay(h, i, amount)
    PROVE  TypeOK' /\ Refs'
<1>1. TypeOK'
  <2>1. [NoRequest EXCEPT !.at = "insertPayment", !.inv = i, !.amount = amount,
                          !.total = invoice[i].total, !.credit = invoice[i].credit] \in Request
    BY NoRequestType DEF Request, Steps, TypeOK, InvoiceDoc
  <2> QED
    BY <2>1 DEF TypeOK, ReadInvoiceToPay, Accept, Admits
<1>2. Refs'
  BY DEF TypeOK, Refs, RequestRefs, PaymentRefs, NoCreditYet, ReadInvoiceToPay, Accept,
         NoRequest, OnPayment, Booking
<1> QED
  BY <1>1, <1>2

LEMMA InsertPaymentRefs ==
    ASSUME TypeOK, Refs, NEW h \in Slots, NEW p \in Payments, InsertPayment(h, p)
    PROVE  TypeOK' /\ Refs'
<1> DEFINE r == request[h]
           new == [state |-> "live", amount |-> r.amount, invoice |-> r.inv]
<1>1. r \in Request /\ r.inv \in Invoices
  BY DEF TypeOK, InsertPayment, Refs, RequestRefs
<1>2. new \in PaymentDoc
  BY <1>1 DEF PaymentDoc, DocStates, Request
<1>3. payment' = [payment EXCEPT ![p] = new] /\ payment[p].state = "absent"
  BY DEF InsertPayment, IsFresh
<1>4. request' = [request EXCEPT ![h] = [r EXCEPT !.at = "bookPayment", !.pay = p]]
  BY DEF InsertPayment
<1>5. [r EXCEPT !.at = "bookPayment", !.pay = p] \in Request
  BY <1>1 DEF Request, Steps, Booking
<1>6. flaws' \in [Invoices -> SUBSET Flaws]
  BY <1>1 DEF TypeOK, InsertPayment, Blame, FlawIf, Flaws
<1>7. TypeOK'
  BY <1>2, <1>3, <1>4, <1>5, <1>6 DEF TypeOK, InsertPayment
<1>8. Refs'
  BY <1>1, <1>3, <1>4 DEF TypeOK, Refs, RequestRefs, PaymentRefs, NoCreditYet, InsertPayment,
         Request, OnPayment, Booking
<1> QED
  BY <1>7, <1>8

\* The last step of the three payment handlers.
LEMMA BookRefs ==
    ASSUME TypeOK, Refs, NEW h \in Slots, NEW entries \in SUBSET Payments,
           request[h].at # "idle", Book(h, entries)
    PROVE  TypeOK' /\ Refs'
<1> DEFINE r == request[h]
<1>1. r \in Request /\ r.inv \in Invoices
  BY DEF TypeOK, Refs, RequestRefs
<1>2. TypeOK'
  BY <1>1, BookType
<1>3. \A j \in Invoices :
        /\ invoice'[j].state = invoice[j].state
        /\ invoice[j].state = "absent" => invoice'[j] = invoice[j]
  <2>1. BookedOn(invoice[r.inv], r, entries).state = invoice[r.inv].state
    BY <1>1, BookedOnFields DEF TypeOK
  <2> QED
    BY <1>1, <2>1 DEF TypeOK, Book, Refs, RequestRefs
<1>4. Refs'
  BY <1>3 DEF TypeOK, Refs, RequestRefs, PaymentRefs, NoCreditYet, Book, Answer,
         NoRequest, OnPayment, Booking
<1> QED
  BY <1>2, <1>4

LEMMA ReadPaymentToUpdateRefs ==
    ASSUME TypeOK, Refs, NEW h \in Slots, NEW p \in Payments, NEW amount \in Amounts,
           ReadPaymentToUpdate(h, p, amount)
    PROVE  TypeOK' /\ Refs'
<1>1. payment[p].invoice \in Invoices /\ payment[p].state = "live" /\ payment[p] \in PaymentDoc
  BY DEF ReadPaymentToUpdate, Refs, PaymentRefs, TypeOK
<1>2. TypeOK'
  <2>1. [NoRequest EXCEPT !.at = "populateAmendment", !.inv = payment[p].invoice,
                          !.pay = p, !.amount = amount, !.prev = payment[p].amount] \in Request
    BY <1>1, NoRequestType DEF Request, Steps, PaymentDoc
  <2> QED
    BY <2>1 DEF TypeOK, ReadPaymentToUpdate, Accept, Admits
<1>3. Refs'
  BY <1>1 DEF TypeOK, Refs, RequestRefs, PaymentRefs, NoCreditYet, ReadPaymentToUpdate, Accept,
         NoRequest, OnPayment, Booking
<1> QED
  BY <1>2, <1>3

\* What reading the invoice of the payment leaves in a request.
LEMMA PopulatedFields ==
    ASSUME TypeOK, NEW h \in Slots, request[h].inv \in Invoices
    PROVE  LET r == Populated(request[h])
           IN  /\ r \in Request
               /\ r.at = request[h].at /\ r.inv = request[h].inv /\ r.pay = request[h].pay
               /\ r.amount = request[h].amount /\ r.prev = request[h].prev
               /\ r.total = invoice[request[h].inv].total
               /\ r.credit = invoice[request[h].inv].credit
<1>1. /\ request[h] \in Request
      /\ invoice[request[h].inv].total \in Int /\ invoice[request[h].inv].credit \in Int
  BY DEF TypeOK, InvoiceDoc
<1> QED
  BY <1>1 DEF Populated, Request

LEMMA PopulateToUpdateRefs ==
    ASSUME TypeOK, Refs, NEW h \in Slots, PopulateToUpdate(h)
    PROVE  TypeOK' /\ Refs'
<1> DEFINE r == Populated(request[h])
           s == [r EXCEPT !.at = "writeAmendment"]
<1>1. /\ request[h].at = "populateAmendment"
      /\ request[h].inv \in Invoices
  BY DEF PopulateToUpdate, Refs, RequestRefs
<1>2. /\ r \in Request /\ r.inv = request[h].inv /\ r.pay = request[h].pay
  BY <1>1, PopulatedFields
<1>3. /\ request' = [request EXCEPT ![h] = s] \/ request' = [request EXCEPT ![h] = NoRequest]
      /\ UNCHANGED <<invoice, payment, accepted, flaws, fresh>>
  BY DEF PopulateToUpdate
<1> HIDE DEF r
<1>4. s \in Request /\ s.at = "writeAmendment" /\ s.inv = request[h].inv /\ s.pay = request[h].pay
  BY <1>2 DEF Request, Steps
<1>5. TypeOK'
  BY <1>3, <1>4, NoRequestType DEF TypeOK
<1> HIDE DEF s
<1>6. Refs'
  <2>1. CASE request' = [request EXCEPT ![h] = s]
    BY <1>1, <1>3, <1>4, <2>1 DEF TypeOK, Refs, RequestRefs, PaymentRefs, NoCreditYet, OnPayment, Booking
  <2>2. CASE request' = [request EXCEPT ![h] = NoRequest]
    BY <1>3, <2>2 DEF TypeOK, Refs, RequestRefs, PaymentRefs, NoCreditYet, NoRequest, OnPayment, Booking
  <2> QED
    BY <1>3, <2>1, <2>2
<1> QED
  BY <1>5, <1>6

LEMMA WritePaymentRefs ==
    ASSUME TypeOK, Refs, NEW h \in Slots, WritePayment(h)
    PROVE  TypeOK' /\ Refs'
<1> DEFINE r == request[h]
           p == r.pay
<1>1. r \in Request /\ r.at = "writeAmendment" /\ p \in Payments /\ r.inv \in Invoices
  BY DEF WritePayment, TypeOK, Refs, RequestRefs, OnPayment
<1>2. CASE Amends(p)
  <2>1. [payment[p] EXCEPT !.amount = r.amount] \in PaymentDoc
    BY <1>1 DEF TypeOK, PaymentDoc, Request
  <2>2. [r EXCEPT !.at = "bookAmendment"] \in Request
    BY <1>1 DEF Request, Steps, Booking
  <2>3. flaws' \in [Invoices -> SUBSET Flaws]
    BY <1>1, <1>2 DEF TypeOK, WritePayment, Blame, FlawIf, Flaws
  <2>4. TypeOK'
    BY <1>1, <1>2, <2>1, <2>2, <2>3 DEF TypeOK, WritePayment, Proceed
  <2>5. \A q \in Payments : /\ payment'[q].state = payment[q].state
                            /\ payment'[q].invoice = payment[q].invoice
    BY <1>1, <1>2 DEF TypeOK, WritePayment, PaymentDoc
  <2>6. /\ request'[h].at = "bookAmendment" /\ request'[h].inv = r.inv
        /\ request'[h].pay = p /\ \A g \in Slots : g # h => request'[g] = request[g]
    BY <1>1, <1>2 DEF TypeOK, WritePayment, Proceed, Request
  <2>7. invoice' = invoice
    BY DEF WritePayment
  <2>8. Refs'
    BY <1>1, <2>5, <2>6, <2>7
       DEF Refs, RequestRefs, PaymentRefs, NoCreditYet, OnPayment, Booking
  <2> QED
    BY <2>4, <2>8
<1>3. CASE ~ Amends(p)
  <2>1. TypeOK'
    BY <1>3, NoRequestType DEF TypeOK, WritePayment, Answer
  <2>2. Refs'
    BY <1>3 DEF TypeOK, Refs, RequestRefs, PaymentRefs, NoCreditYet, WritePayment, Answer,
           NoRequest, OnPayment, Booking
  <2> QED
    BY <2>1, <2>2
<1> QED
  BY <1>2, <1>3

LEMMA ReadPaymentToRemoveRefs ==
    ASSUME TypeOK, Refs, NEW h \in Slots, NEW p \in Payments, ReadPaymentToRemove(h, p)
    PROVE  TypeOK' /\ Refs'
<1>1. payment[p].invoice \in Invoices /\ payment[p].state = "live" /\ payment[p] \in PaymentDoc
  BY DEF ReadPaymentToRemove, Refs, PaymentRefs, TypeOK
<1>2. TypeOK'
  <2>1. [NoRequest EXCEPT !.at = "populateRemoval", !.inv = payment[p].invoice,
                          !.pay = p, !.prev = payment[p].amount] \in Request
    BY <1>1, NoRequestType DEF Request, Steps, PaymentDoc
  <2> QED
    BY <2>1 DEF TypeOK, ReadPaymentToRemove, Accept, Admits
<1>3. Refs'
  BY <1>1 DEF TypeOK, Refs, RequestRefs, PaymentRefs, NoCreditYet, ReadPaymentToRemove, Accept,
         NoRequest, OnPayment, Booking
<1> QED
  BY <1>2, <1>3

LEMMA PopulateToRemoveRefs ==
    ASSUME TypeOK, Refs, NEW h \in Slots, PopulateToRemove(h)
    PROVE  TypeOK' /\ Refs'
<1> DEFINE r == Populated(request[h])
           s == [r EXCEPT !.at = "writeRemoval"]
<1>1. /\ request[h].at = "populateRemoval"
      /\ request[h].inv \in Invoices
  BY DEF PopulateToRemove, Refs, RequestRefs
<1>2. /\ r \in Request /\ r.inv = request[h].inv /\ r.pay = request[h].pay
  BY <1>1, PopulatedFields
<1>3. /\ request' = [request EXCEPT ![h] = s]
      /\ UNCHANGED <<invoice, payment, accepted, flaws, fresh>>
  BY DEF PopulateToRemove
<1> HIDE DEF r
<1>4. s \in Request /\ s.at = "writeRemoval" /\ s.inv = request[h].inv /\ s.pay = request[h].pay
  BY <1>2 DEF Request, Steps
<1> HIDE DEF s
<1>5. TypeOK'
  BY <1>3, <1>4 DEF TypeOK
<1>6. Refs'
  BY <1>1, <1>3, <1>4 DEF TypeOK, Refs, RequestRefs, PaymentRefs, NoCreditYet, OnPayment, Booking
<1> QED
  BY <1>5, <1>6

LEMMA RemovePaymentRefs ==
    ASSUME TypeOK, Refs, NEW h \in Slots, RemovePayment(h)
    PROVE  TypeOK' /\ Refs'
<1> DEFINE r == request[h]
           p == r.pay
<1>1. r \in Request /\ r.at = "writeRemoval" /\ p \in Payments /\ r.inv \in Invoices
  BY DEF RemovePayment, TypeOK, Refs, RequestRefs, OnPayment
<1>2. [payment[p] EXCEPT !.state = "removed"] \in PaymentDoc
  BY <1>1 DEF TypeOK, PaymentDoc, DocStates
<1>3. [r EXCEPT !.at = "bookRemoval"] \in Request
  BY <1>1 DEF Request, Steps, Booking
<1>4. flaws' \in [Invoices -> SUBSET Flaws]
  BY <1>1 DEF TypeOK, RemovePayment, Blame, FlawIf, Flaws
<1>5. TypeOK'
  BY <1>1, <1>2, <1>3, <1>4 DEF TypeOK, RemovePayment, Proceed
<1>6. Refs'
  BY <1>1 DEF TypeOK, Refs, RequestRefs, PaymentRefs, NoCreditYet, RemovePayment,
         Proceed, Request, PaymentDoc, OnPayment, Booking
<1> QED
  BY <1>5, <1>6

LEMMA FailRefs ==
    ASSUME TypeOK, Refs, NEW h \in Slots, Fail(h)
    PROVE  TypeOK' /\ Refs'
<1>1. flaws' \in [Invoices -> SUBSET Flaws]
  BY DEF TypeOK, Refs, RequestRefs, Fail, Flaws
<1>2. TypeOK'
  BY <1>1, NoRequestType DEF TypeOK, Fail, Answer
<1>3. Refs'
  BY DEF TypeOK, Refs, RequestRefs, PaymentRefs, NoCreditYet, Fail, Answer,
         NoRequest, OnPayment, Booking
<1> QED
  BY <1>2, <1>3

LEMMA NextRefs == TypeOK /\ Refs /\ [Next]_vars => TypeOK' /\ Refs'
<1> SUFFICES ASSUME TypeOK, Refs, [Next]_vars PROVE TypeOK' /\ Refs'
  OBVIOUS
<1>1. CASE Arrival
  BY <1>1, CreateInvoiceRefs, ReadInvoiceToUpdateRefs, RemoveInvoiceRefs, ReadInvoiceToPayRefs,
     ReadPaymentToUpdateRefs, ReadPaymentToRemoveRefs DEF Arrival
<1>2. ASSUME NEW h \in Slots, Step(h) \/ Fail(h)
      PROVE  TypeOK' /\ Refs'
  <2>1. ASSUME NEW entries, request[h].at \in Booking, Book(h, entries),
               request[h].inv \in Invoices => entries \in SUBSET Payments
        PROVE  TypeOK' /\ Refs'
    <3>1. request[h].at # "idle" /\ request[h].inv \in Invoices
      BY <2>1 DEF Booking, Refs, RequestRefs
    <3> QED
      BY <2>1, <3>1, BookRefs
  <2>2. request[h].inv \in Invoices /\ request[h].at \in Booking =>
          /\ invoice[request[h].inv].payment \in SUBSET Payments
          /\ request[h].pay \in Payments
    BY DEF TypeOK, InvoiceDoc, Refs, RequestRefs, OnPayment
  <2>3. CASE BookPayment(h) \/ BookAmendment(h) \/ BookRemoval(h)
    BY <2>1, <2>2, <2>3 DEF BookPayment, BookAmendment, BookRemoval, Booking
  <2> QED
    BY <1>2, <2>3, WriteInvoiceRefs, CascadeRefs, InsertPaymentRefs, PopulateToUpdateRefs,
       WritePaymentRefs, PopulateToRemoveRefs, RemovePaymentRefs, FailRefs DEF Step
<1>3. CASE UNCHANGED vars
  BY <1>3 DEF vars, TypeOK, Refs, RequestRefs, PaymentRefs, NoCreditYet
<1> QED
  BY <1>1, <1>2, <1>3 DEF Next

\* The collections and the requests in flight keep their types, in every
\* interleaving of the handlers and with every failure.
THEOREM TypeCorrect == Spec => []TypeOK
<1>1. Init => TypeOK /\ Refs
  BY InitRefs
<1>2. (TypeOK /\ Refs) /\ [Next]_vars => (TypeOK /\ Refs)'
  BY NextRefs
<1> QED
  BY <1>1, <1>2, PTL DEF Spec

-----------------------------------------------------------------------------
(***************************************************************************)
(* Conservation: BooksBalance.  A step disturbs the equation of an invoice *)
(* at one request and one payment at most.                                 *)
(***************************************************************************)

Summands ==
    \A i \in Invoices : /\ Owed(i) \in [1..NSlots -> Int]
                        /\ Paid(i) \in [1..NPayments -> Int]

LEMMA SummandTypes == TypeOK => Summands
<1> SUFFICES ASSUME TypeOK, NEW i \in Invoices
             PROVE  Owed(i) \in [1..NSlots -> Int] /\ Paid(i) \in [1..NPayments -> Int]
  BY DEF Summands
<1>1. \A h \in Slots : Delta(request[h]) \in Int
  BY DeltaCases DEF TypeOK
<1>2. \A p \in Payments : payment[p].amount \in Int
  BY DEF TypeOK, PaymentDoc
<1> QED
  BY <1>1, <1>2 DEF Owed, Paid, Slots, Payments

LEMMA SummandTypesNext == TypeOK' => Summands'
BY SummandTypes, PTL

\* A step that changes neither the summands nor the credit of an invoice.
LEMMA QuietBalance ==
    ASSUME NEW i \in Invoices, BalancedAt(i),
           invoice[i].state = "removed" => invoice'[i].state = "removed",
           flaws[i] \subseteq flaws'[i],
           invoice'[i].credit = invoice[i].credit,
           Owed(i)' = Owed(i), Paid(i)' = Paid(i)
    PROVE  BalancedAt(i)'
BY DEF BalancedAt

\* A request that has nothing to book, before and after the step, owes nothing.
LEMMA NothingOwed ==
    ASSUME TypeOK, TypeOK', NEW i \in Invoices, NEW h \in Slots,
           \A g \in Slots : g # h => request'[g] = request[g],
           request[h].at \notin Booking, request'[h].at \notin Booking
    PROVE  Owed(i)' = Owed(i)
<1>1. Delta(request[h]) = 0 /\ Delta(request'[h]) = 0
  BY DeltaCases DEF TypeOK
<1> QED
  BY <1>1 DEF Owed

\* A step that changes the credit of an invoice and what one request owes to it.
LEMMA CreditBalance ==
    ASSUME TypeOK, TypeOK', NEW i \in Invoices, NEW h \in Slots, BalancedAt(i),
           invoice[i].state = "removed" => invoice'[i].state = "removed",
           flaws[i] \subseteq flaws'[i],
           \A g \in Slots : g # h => Owed(i)'[g] = Owed(i)[g],
           invoice'[i].credit + Owed(i)'[h] = invoice[i].credit + Owed(i)[h],
           Paid(i)' = Paid(i)
    PROVE  BalancedAt(i)'
<1> DEFINE o == Owed(i)
           n == Owed(i)'
<1>1. o \in [1..NSlots -> Int] /\ n \in [1..NSlots -> Int] /\ NSlots \in Nat
  BY SummandTypes, SummandTypesNext DEF Summands
<1>2. h \in 1..NSlots
  BY DEF Slots
<1>3. \A g \in 1..NSlots : g # h => n[g] = o[g]
  BY DEF Slots
<1>4. invoice[i].credit \in Int /\ invoice'[i].credit \in Int
  BY DEF TypeOK, InvoiceDoc
<1>5. invoice'[i].credit + n[h] = invoice[i].credit + o[h]
  OBVIOUS
<1> HIDE DEF o, n
<1>6. SumTo(n, NSlots) = SumTo(o, NSlots) + (n[h] - o[h])
  BY <1>1, <1>2, <1>3, SumOfChange
<1>7. SumTo(o, NSlots) \in Int /\ SumTo(n, NSlots) \in Int /\ o[h] \in Int /\ n[h] \in Int
  BY <1>1, <1>2, SumType
<1>8. invoice'[i].credit + SumTo(n, NSlots) = invoice[i].credit + SumTo(o, NSlots)
  BY <1>4, <1>5, <1>6, <1>7
<1> QED
  BY <1>8 DEF BalancedAt, o, n

\* A step that changes a payment and, by as much, what one request owes for it.
LEMMA PaymentBalance ==
    ASSUME TypeOK, TypeOK', NEW i \in Invoices, NEW h \in Slots, NEW p \in Payments,
           BalancedAt(i),
           invoice[i].state = "removed" => invoice'[i].state = "removed",
           flaws[i] \subseteq flaws'[i],
           invoice'[i].credit = invoice[i].credit,
           \A g \in Slots : g # h => Owed(i)'[g] = Owed(i)[g],
           \A q \in Payments : q # p => Paid(i)'[q] = Paid(i)[q],
           Owed(i)'[h] - Owed(i)[h] = Paid(i)'[p] - Paid(i)[p]
    PROVE  BalancedAt(i)'
<1> DEFINE o == Owed(i)
           n == Owed(i)'
           a == Paid(i)
           b == Paid(i)'
<1>1. /\ o \in [1..NSlots -> Int] /\ n \in [1..NSlots -> Int] /\ NSlots \in Nat
      /\ a \in [1..NPayments -> Int] /\ b \in [1..NPayments -> Int] /\ NPayments \in Nat
  BY SummandTypes, SummandTypesNext DEF Summands
<1>2. h \in 1..NSlots /\ p \in 1..NPayments
  BY DEF Slots, Payments
<1>3. /\ \A g \in 1..NSlots : g # h => n[g] = o[g]
      /\ \A q \in 1..NPayments : q # p => b[q] = a[q]
  BY DEF Slots, Payments
<1>4. invoice[i].credit \in Int
  BY DEF TypeOK, InvoiceDoc
<1>5. n[h] - o[h] = b[p] - a[p]
  OBVIOUS
<1> HIDE DEF o, n, a, b
<1>6. SumTo(n, NSlots) = SumTo(o, NSlots) + (n[h] - o[h])
  BY <1>1, <1>2, <1>3, SumOfChange
<1>7. SumTo(b, NPayments) = SumTo(a, NPayments) + (b[p] - a[p])
  BY <1>1, <1>2, <1>3, SumOfChange
<1>8. /\ SumTo(o, NSlots) \in Int /\ SumTo(n, NSlots) \in Int
      /\ SumTo(a, NPayments) \in Int /\ SumTo(b, NPayments) \in Int
  BY <1>1, SumType
<1>9. SumTo(n, NSlots) - SumTo(o, NSlots) = SumTo(b, NPayments) - SumTo(a, NPayments)
  <2>1. n[h] \in Int /\ o[h] \in Int /\ b[p] \in Int /\ a[p] \in Int
    BY <1>1, <1>2
  <2> QED
    BY <1>5, <1>6, <1>7, <1>8, <2>1
<1>10. invoice[i].credit + SumTo(o, NSlots) = SumTo(a, NPayments) =>
         invoice[i].credit + SumTo(n, NSlots) = SumTo(b, NPayments)
  BY <1>4, <1>8, <1>9
<1> QED
  BY <1>10 DEF BalancedAt, o, n, a, b

-----------------------------------------------------------------------------
\* The steps of the users: nothing is paid or owed yet.
LEMMA ArrivalBalance ==
    ASSUME TypeOK, TypeOK', Refs, NEW i \in Invoices, BalancedAt(i), Arrival
    PROVE  BalancedAt(i)'
<1>1. ASSUME NEW j \in Invoices, NEW total \in Totals, CreateInvoice(j, total)
      PROVE  BalancedAt(i)'
  <2>1. Owed(i)' = Owed(i) /\ Paid(i)' = Paid(i) /\ flaws' = flaws
    BY <1>1 DEF CreateInvoice, Owed, Paid
  <2>2. /\ invoice[i].state = "removed" => invoice'[i].state = "removed"
        /\ invoice'[i].credit = invoice[i].credit
    BY <1>1 DEF CreateInvoice, TypeOK, Refs, NoCreditYet
  <2> QED
    BY <2>1, <2>2, QuietBalance
<1>2. ASSUME NEW h \in Slots, request[h].at = "idle", request'[h].at \notin Booking,
             \A g \in Slots : g # h => request'[g] = request[g],
             payment' = payment, flaws' = flaws,
             invoice[i].state = "removed" => invoice'[i].state = "removed",
             invoice'[i].credit = invoice[i].credit
      PROVE  BalancedAt(i)'
  <2>1. Owed(i)' = Owed(i)
    BY <1>2, NothingOwed DEF Booking
  <2>2. Paid(i)' = Paid(i)
    BY <1>2 DEF Paid
  <2> QED
    BY <1>2, <2>1, <2>2, QuietBalance
<1>3. ASSUME NEW h \in Slots, NEW j \in Invoices, NEW total \in Totals,
             ReadInvoiceToUpdate(h, j, total)
      PROVE  BalancedAt(i)'
  BY <1>2, <1>3 DEF ReadInvoiceToUpdate, Accept, TypeOK, NoRequest, Booking
<1>4. ASSUME NEW h \in Slots, NEW j \in Invoices, RemoveInvoice(h, j)
      PROVE  BalancedAt(i)'
  <2>1. /\ invoice[i].state = "removed" => invoice'[i].state = "removed"
        /\ invoice'[i].credit = invoice[i].credit
    BY <1>4 DEF RemoveInvoice, TypeOK, InvoiceDoc
  <2> QED
    BY <1>2, <1>4, <2>1 DEF RemoveInvoice, Accept, TypeOK, NoRequest, Booking
<1>5. ASSUME NEW h \in Slots, NEW j \in Invoices, NEW amount \in Amounts,
             ReadInvoiceToPay(h, j, amount)
      PROVE  BalancedAt(i)'
  BY <1>2, <1>5 DEF ReadInvoiceToPay, Accept, TypeOK, NoRequest, Booking
<1>6. ASSUME NEW h \in Slots, NEW p \in Payments, NEW amount \in Amounts,
             ReadPaymentToUpdate(h, p, amount)
      PROVE  BalancedAt(i)'
  BY <1>2, <1>6 DEF ReadPaymentToUpdate, Accept, TypeOK, NoRequest, Booking
<1>7. ASSUME NEW h \in Slots, NEW p \in Payments, ReadPaymentToRemove(h, p)
      PROVE  BalancedAt(i)'
  BY <1>2, <1>7 DEF ReadPaymentToRemove, Accept, TypeOK, NoRequest, Booking
<1> QED
  BY <1>1, <1>3, <1>4, <1>5, <1>6, <1>7 DEF Arrival

LEMMA WriteInvoiceBalance ==
    ASSUME TypeOK, TypeOK', Refs, NEW i \in Invoices, BalancedAt(i),
           NEW h \in Slots, WriteInvoice(h)
    PROVE  BalancedAt(i)'
<1>1. /\ invoice'[i].credit = invoice[i].credit /\ invoice'[i].state = invoice[i].state
  <2>1. request[h].inv \in Invoices
    BY DEF WriteInvoice, Refs, RequestRefs
  <2> QED
    BY <2>1 DEF WriteInvoice, TypeOK, InvoiceDoc
<1>2. Owed(i)' = Owed(i)
  BY NothingOwed DEF WriteInvoice, Answer, NoRequest, Booking, TypeOK
<1>3. Paid(i)' = Paid(i) /\ flaws' = flaws
  BY DEF WriteInvoice, Paid
<1> QED
  BY <1>1, <1>2, <1>3, QuietBalance

\* The cascade changes the payments of a removed invoice only.
LEMMA CascadeBalance ==
    ASSUME TypeOK, TypeOK', Refs, NEW i \in Invoices, BalancedAt(i),
           NEW h \in Slots, Cascade(h)
    PROVE  BalancedAt(i)'
<1>1. CASE request[h].inv = i
  <2>1. invoice'[i].state = "removed"
    BY <1>1 DEF Cascade, Refs, RequestRefs
  <2> QED
    BY <2>1 DEF BalancedAt
<1>2. CASE request[h].inv # i
  <2>1. Owed(i)' = Owed(i)
    BY NothingOwed DEF Cascade, Answer, NoRequest, Booking, TypeOK
  <2>2. Paid(i)' = Paid(i)
    BY <1>2 DEF Cascade, PaymentsRemovedWith, Paid
  <2>3. invoice' = invoice /\ flaws' = flaws
    BY DEF Cascade
  <2> QED
    BY <2>1, <2>2, <2>3, QuietBalance
<1> QED
  BY <1>1, <1>2

LEMMA InsertPaymentBalance ==
    ASSUME TypeOK, TypeOK', Refs, NEW i \in Invoices, BalancedAt(i),
           NEW h \in Slots, NEW p \in Payments, InsertPayment(h, p)
    PROVE  BalancedAt(i)'
<1> DEFINE r == request[h]
<1>1. /\ r \in Request /\ r.inv \in Invoices /\ r.at = "insertPayment"
      /\ payment[p].state = "absent"
  BY DEF TypeOK, InsertPayment, IsFresh, Refs, RequestRefs
<1>2. /\ request'[h].at = "bookPayment" /\ request'[h].inv = r.inv
      /\ request'[h].amount = r.amount
      /\ \A g \in Slots : g # h => request'[g] = request[g]
  BY <1>1 DEF InsertPayment, TypeOK, Request
<1>3. /\ payment'[p] = [state |-> "live", amount |-> r.amount, invoice |-> r.inv]
      /\ \A q \in Payments : q # p => payment'[q] = payment[q]
  BY DEF InsertPayment, TypeOK
<1>4. invoice' = invoice /\ flaws[i] \subseteq flaws'[i]
  BY DEF InsertPayment, Blame, TypeOK
<1>5. Delta(r) = 0 /\ Delta(request'[h]) = r.amount
  <2>1. request'[h] \in Request
    BY DEF TypeOK
  <2> QED
    BY <1>1, <1>2, <2>1, DeltaCases DEF Booking
<1>6. /\ Owed(i)[h] = 0 /\ Owed(i)'[h] = IF r.inv = i THEN r.amount ELSE 0
      /\ \A g \in Slots : g # h => Owed(i)'[g] = Owed(i)[g]
  BY <1>2, <1>5 DEF Owed
<1>7. /\ Paid(i)[p] = 0 /\ Paid(i)'[p] = IF r.inv = i THEN r.amount ELSE 0
      /\ \A q \in Payments : q # p => Paid(i)'[q] = Paid(i)[q]
  BY <1>1, <1>3 DEF Paid
<1>8. Owed(i)'[h] - Owed(i)[h] = Paid(i)'[p] - Paid(i)[p]
  BY <1>6, <1>7
<1> QED
  BY <1>4, <1>6, <1>7, <1>8, PaymentBalance

LEMMA PopulateBalance ==
    ASSUME TypeOK, TypeOK', Refs, NEW i \in Invoices, BalancedAt(i),
           NEW h \in Slots, PopulateToUpdate(h) \/ PopulateToRemove(h)
    PROVE  BalancedAt(i)'
<1>1. request[h].at \notin Booking /\ request[h].inv \in Invoices
  BY DEF PopulateToUpdate, PopulateToRemove, Booking, Refs, RequestRefs
<1>2. Populated(request[h]) \in Request
  BY <1>1, PopulatedFields
<1>3. /\ request'[h].at \notin Booking
      /\ \A g \in Slots : g # h => request'[g] = request[g]
      /\ invoice' = invoice /\ payment' = payment /\ flaws' = flaws
  BY <1>2 DEF PopulateToUpdate, PopulateToRemove, NoRequest, Booking, TypeOK, Request
<1>4. Owed(i)' = Owed(i)
  BY <1>1, <1>3, NothingOwed
<1>5. Paid(i)' = Paid(i)
  BY <1>3 DEF Paid
<1> QED
  BY <1>3, <1>4, <1>5, QuietBalance

\* An amendment moves the payment by what it owes, or the invoice is flawed.
LEMMA WritePaymentBalance ==
    ASSUME TypeOK, TypeOK', Refs, NEW i \in Invoices, BalancedAt(i),
           NEW h \in Slots, WritePayment(h)
    PROVE  BalancedAt(i)'
<1> DEFINE r == request[h]
           p == r.pay
<1>1. /\ r \in Request /\ r.at = "writeAmendment" /\ p \in Payments /\ r.inv \in Invoices
      /\ payment[p].invoice = r.inv
  BY DEF WritePayment, TypeOK, Refs, RequestRefs, OnPayment
<1>2. CASE Amends(p)
  <2>1. /\ request'[h].at = "bookAmendment" /\ request'[h].inv = r.inv
        /\ request'[h].amount = r.amount /\ request'[h].prev = r.prev
        /\ \A g \in Slots : g # h => request'[g] = request[g]
    BY <1>1, <1>2 DEF WritePayment, Proceed, TypeOK, Request
  <2>2. /\ payment'[p].state = "live" /\ payment'[p].invoice = r.inv
        /\ payment'[p].amount = r.amount /\ payment[p].state = "live"
        /\ \A q \in Payments : q # p => payment'[q] = payment[q]
    BY <1>1, <1>2 DEF WritePayment, Amends, TypeOK, PaymentDoc
  <2>3. invoice' = invoice /\ flaws[i] \subseteq flaws'[i]
    BY <1>1, <1>2 DEF WritePayment, Blame, TypeOK
  <2>4. Delta(r) = 0 /\ Delta(request'[h]) = r.amount - r.prev
    <3>1. request'[h] \in Request
      BY DEF TypeOK
    <3> QED
      BY <1>1, <2>1, <3>1, DeltaCases DEF Booking
  <2>5. /\ Owed(i)[h] = 0 /\ Owed(i)'[h] = IF r.inv = i THEN r.amount - r.prev ELSE 0
        /\ \A g \in Slots : g # h => Owed(i)'[g] = Owed(i)[g]
    BY <2>1, <2>4 DEF Owed
  <2>6. /\ Paid(i)[p] = IF r.inv = i THEN payment[p].amount ELSE 0
        /\ Paid(i)'[p] = IF r.inv = i THEN r.amount ELSE 0
        /\ \A q \in Payments : q # p => Paid(i)'[q] = Paid(i)[q]
    BY <1>1, <2>2 DEF Paid
  <2>7. CASE r.inv = i /\ payment[p].amount # r.prev
    <3>1. "stale" \in flaws'[i]
      BY <1>1, <1>2, <2>7 DEF WritePayment, Blame, FlawIf, TypeOK
    <3> QED
      BY <3>1 DEF BalancedAt
  <2>8. CASE r.inv # i \/ payment[p].amount = r.prev
    <3>1. Owed(i)'[h] - Owed(i)[h] = Paid(i)'[p] - Paid(i)[p]
      <4>1. r.amount \in Int /\ r.prev \in Int
        BY <1>1 DEF Request
      <4> QED
        BY <2>5, <2>6, <2>8, <4>1
    <3> QED
      BY <1>1, <2>3, <2>5, <2>6, <3>1, PaymentBalance
  <2> QED
    BY <2>7, <2>8
<1>3. CASE ~ Amends(p)
  <2>1. /\ request'[h].at \notin Booking
        /\ \A g \in Slots : g # h => request'[g] = request[g]
        /\ invoice' = invoice /\ payment' = payment /\ flaws' = flaws
    BY <1>3 DEF WritePayment, Answer, NoRequest, Booking, TypeOK
  <2>2. Owed(i)' = Owed(i)
    BY <1>1, <2>1, NothingOwed DEF Booking
  <2>3. Paid(i)' = Paid(i)
    BY <2>1 DEF Paid
  <2> QED
    BY <2>1, <2>2, <2>3, QuietBalance
<1> QED
  BY <1>2, <1>3

\* So does a removal.
LEMMA RemovePaymentBalance ==
    ASSUME TypeOK, TypeOK', Refs, NEW i \in Invoices, BalancedAt(i),
           NEW h \in Slots, RemovePayment(h)
    PROVE  BalancedAt(i)'
<1> DEFINE r == request[h]
           p == r.pay
           stale == payment[p].state # "live" \/ payment[p].amount # r.prev
<1>1. /\ r \in Request /\ r.at = "writeRemoval" /\ p \in Payments /\ r.inv \in Invoices
      /\ payment[p].invoice = r.inv
  BY DEF RemovePayment, TypeOK, Refs, RequestRefs, OnPayment
<1>2. /\ request'[h].at = "bookRemoval" /\ request'[h].inv = r.inv
      /\ request'[h].prev = r.prev
      /\ \A g \in Slots : g # h => request'[g] = request[g]
  BY <1>1 DEF RemovePayment, Proceed, TypeOK, Request
<1>3. /\ payment'[p].state = "removed" /\ payment'[p].invoice = r.inv
      /\ \A q \in Payments : q # p => payment'[q] = payment[q]
  BY <1>1 DEF RemovePayment, TypeOK, PaymentDoc
<1>4. invoice' = invoice /\ flaws[i] \subseteq flaws'[i]
  BY <1>1 DEF RemovePayment, Blame, TypeOK
<1>5. Delta(r) = 0 /\ Delta(request'[h]) = 0 - r.prev
  <2>1. request'[h] \in Request
    BY DEF TypeOK
  <2> QED
    BY <1>1, <1>2, <2>1, DeltaCases DEF Booking
<1>6. /\ Owed(i)[h] = 0 /\ Owed(i)'[h] = IF r.inv = i THEN 0 - r.prev ELSE 0
      /\ \A g \in Slots : g # h => Owed(i)'[g] = Owed(i)[g]
  BY <1>2, <1>5 DEF Owed
<1>7. CASE r.inv = i /\ stale
  <2>1. "stale" \in flaws'[i]
    BY <1>1, <1>7 DEF RemovePayment, Blame, FlawIf, TypeOK
  <2> QED
    BY <2>1 DEF BalancedAt
<1>8. CASE r.inv # i \/ ~ stale
  <2>1. /\ Paid(i)[p] = IF r.inv = i THEN r.prev ELSE 0
        /\ Paid(i)'[p] = 0
        /\ \A q \in Payments : q # p => Paid(i)'[q] = Paid(i)[q]
    BY <1>1, <1>3, <1>8 DEF Paid
  <2>2. Owed(i)'[h] - Owed(i)[h] = Paid(i)'[p] - Paid(i)[p]
    <3>1. r.prev \in Int
      BY <1>1 DEF Request
    <3> QED
      BY <1>6, <2>1, <3>1
  <2> QED
    BY <1>1, <1>4, <1>6, <2>1, <2>2, PaymentBalance
<1> QED
  BY <1>7, <1>8

\* Booking moves what is owed to the credit.
LEMMA BookBalance ==
    ASSUME TypeOK, TypeOK', Refs, NEW i \in Invoices, BalancedAt(i),
           NEW h \in Slots, request[h].at \in Booking, NEW entries \in SUBSET Payments,
           Book(h, entries)
    PROVE  BalancedAt(i)'
<1> DEFINE r == request[h]
<1>1. r \in Request /\ r.inv \in Invoices /\ Delta(r) \in Int
  BY DeltaCases DEF TypeOK, Refs, RequestRefs, Booking
<1>2. /\ request'[h].at = "idle"
      /\ \A g \in Slots : g # h => request'[g] = request[g]
      /\ payment' = payment /\ flaws' = flaws
  BY DEF Book, Answer, NoRequest, TypeOK
<1>3. Delta(request'[h]) = 0
  BY <1>2, DeltaCases DEF TypeOK, Booking
<1>4. /\ Owed(i)[h] = IF r.inv = i THEN Delta(r) ELSE 0
      /\ Owed(i)'[h] = 0
      /\ \A g \in Slots : g # h => Owed(i)'[g] = Owed(i)[g]
  BY <1>2, <1>3 DEF Owed
<1>5. /\ invoice'[i].state = invoice[i].state
      /\ invoice'[i].credit = IF r.inv = i THEN invoice[i].credit + Delta(r)
                                           ELSE invoice[i].credit
  <2>1. invoice[r.inv] \in InvoiceDoc
    BY <1>1 DEF TypeOK
  <2>2. invoice' = [invoice EXCEPT ![r.inv] = BookedOn(invoice[r.inv], r, entries)]
    BY DEF Book
  <2> QED
    BY <1>1, <2>1, <2>2, BookedOnFields DEF TypeOK
<1>6. invoice'[i].credit + Owed(i)'[h] = invoice[i].credit + Owed(i)[h]
  <2>1. invoice[i].credit \in Int
    BY DEF TypeOK, InvoiceDoc
  <2> QED
    BY <1>1, <1>4, <1>5, <2>1
<1>7. Paid(i)' = Paid(i)
  BY <1>2 DEF Paid
<1> QED
  BY <1>2, <1>4, <1>5, <1>6, <1>7, CreditBalance

\* What a failed handler still owed is lost, and recorded as a flaw.
LEMMA FailBalance ==
    ASSUME TypeOK, TypeOK', Refs, NEW i \in Invoices, BalancedAt(i),
           NEW h \in Slots, Fail(h)
    PROVE  BalancedAt(i)'
<1>1. /\ request'[h].at = "idle"
      /\ \A g \in Slots : g # h => request'[g] = request[g]
      /\ invoice' = invoice /\ payment' = payment /\ flaws[i] \subseteq flaws'[i]
      /\ request[h].inv \in Invoices
  BY DEF Fail, Answer, NoRequest, TypeOK, Refs, RequestRefs
<1>2. CASE request[h].at \in Booking /\ request[h].inv = i
  <2>1. "lost" \in flaws'[i]
    BY <1>2 DEF Fail, TypeOK
  <2> QED
    BY <2>1 DEF BalancedAt
<1>3. CASE ~(request[h].at \in Booking /\ request[h].inv = i)
  <2>1. Delta(request'[h]) = 0
    BY <1>1, DeltaCases DEF TypeOK, Booking
  <2>2. request[h].at \in Booking \/ Delta(request[h]) = 0
    BY DeltaCases DEF TypeOK
  <2>3. Owed(i)' = Owed(i)
    BY <1>1, <1>3, <2>1, <2>2 DEF Owed
  <2>4. Paid(i)' = Paid(i)
    BY <1>1 DEF Paid
  <2> QED
    BY <1>1, <2>3, <2>4, QuietBalance
<1> QED
  BY <1>2, <1>3

LEMMA InitBalance == Init => BooksBalance
<1> SUFFICES ASSUME Init, NEW i \in Invoices PROVE BalancedAt(i)
  BY DEF BooksBalance
<1>1. TypeOK /\ Refs
  BY InitRefs
<1>2. Owed(i) \in [1..NSlots -> Int] /\ Paid(i) \in [1..NPayments -> Int]
  BY <1>1, SummandTypes DEF Summands
<1>3. \A h \in 1..NSlots : Owed(i)[h] = 0
  BY <1>1, DeltaCases DEF Init, NoRequest, Owed, Slots, Booking, TypeOK
<1>4. \A p \in 1..NPayments : Paid(i)[p] = 0
  BY DEF Init, Paid, Payments
<1>5. SumTo(Owed(i), NSlots) = 0 /\ SumTo(Paid(i), NPayments) = 0
  BY <1>2, <1>3, <1>4, SumOfZeros
<1> QED
  BY <1>5 DEF BalancedAt, Init

LEMMA NextBalance == TypeOK /\ Refs /\ BooksBalance /\ [Next]_vars => BooksBalance'
<1> SUFFICES ASSUME TypeOK, Refs, BooksBalance, [Next]_vars, NEW i \in Invoices
             PROVE  BalancedAt(i)'
  BY DEF BooksBalance
<1>1. TypeOK' /\ BalancedAt(i)
  BY NextRefs DEF BooksBalance
<1>2. CASE Arrival
  BY <1>1, <1>2, ArrivalBalance
<1>3. ASSUME NEW h \in Slots, Step(h) \/ Fail(h)
      PROVE  BalancedAt(i)'
  <2>1. CASE BookPayment(h) \/ BookAmendment(h) \/ BookRemoval(h)
    <3>1. request[h].at \in Booking
      BY <2>1 DEF BookPayment, BookAmendment, BookRemoval, Booking
    <3>2. invoice[request[h].inv].payment \in SUBSET Payments /\ request[h].pay \in Payments
      BY <3>1 DEF TypeOK, InvoiceDoc, Refs, RequestRefs, OnPayment, Booking
    <3> QED
      BY <1>1, <2>1, <3>1, <3>2, BookBalance DEF BookPayment, BookAmendment, BookRemoval
  <2> QED
    BY <1>1, <1>3, <2>1, WriteInvoiceBalance, CascadeBalance, InsertPaymentBalance,
       PopulateBalance, WritePaymentBalance, RemovePaymentBalance, FailBalance DEF Step
<1>4. CASE UNCHANGED vars
  <2>1. Owed(i)' = Owed(i) /\ Paid(i)' = Paid(i)
    BY <1>4 DEF vars, Owed, Paid
  <2> QED
    BY <1>1, <1>4, <2>1, QuietBalance DEF vars
<1> QED
  BY <1>2, <1>3, <1>4 DEF Next

\* The books balance, whatever the number of payments and of requests in flight:
\* an invoice on which no handler wrote a payment changed since it was read, and
\* none stopped between its two writes, has as its credit the sum of its live
\* payments, but for what the requests in flight still owe.
THEOREM Conservation == Spec => []BooksBalance
<1>1. Init => TypeOK /\ Refs /\ BooksBalance
  BY InitRefs, InitBalance
<1>2. (TypeOK /\ Refs /\ BooksBalance) /\ [Next]_vars => (TypeOK /\ Refs /\ BooksBalance)'
  BY NextRefs, NextBalance
<1> QED
  BY <1>1, <1>2, PTL DEF Spec

-----------------------------------------------------------------------------
(***************************************************************************)
(* The status of an invoice.                                               *)
(***************************************************************************)

CurrentAt(i) ==
    invoice[i].state # "absent" /\ fresh[i] =>
        invoice[i].paymentStatus = PaymentStatus(invoice[i].total, invoice[i].credit)

\* A new invoice has the status of its total and no credit.
LEMMA CreatedIsCurrent ==
    ASSUME TypeOK, NEW i \in Invoices, CurrentAt(i),
           NEW j \in Invoices, NEW total \in Totals, CreateInvoice(j, total)
    PROVE  CurrentAt(i)'
<1>1. CASE i = j
  <2>1. /\ invoice'[i].total = total /\ invoice'[i].credit = 0
        /\ invoice'[i].paymentStatus = InitialStatus(total)
    BY <1>1 DEF CreateInvoice, TypeOK
  <2>2. InitialStatus(total) = PaymentStatus(total, 0)
    BY DEF InitialStatus, PaymentStatus
  <2> QED
    BY <2>1, <2>2 DEF CurrentAt
<1>2. CASE i # j
  BY <1>2 DEF CreateInvoice, TypeOK, CurrentAt
<1> QED
  BY <1>1, <1>2

\* A removal keeps the total, the credit and the status.
LEMMA RemovedIsCurrent ==
    ASSUME TypeOK, NEW i \in Invoices, CurrentAt(i),
           NEW h \in Slots, NEW j \in Invoices, RemoveInvoice(h, j)
    PROVE  CurrentAt(i)'
<1>1. /\ invoice'[i].total = invoice[i].total /\ invoice'[i].credit = invoice[i].credit
      /\ invoice'[i].paymentStatus = invoice[i].paymentStatus /\ fresh' = fresh
      /\ invoice'[i].state # "absent" => invoice[i].state # "absent"
  BY DEF RemoveInvoice, TypeOK, InvoiceDoc
<1> QED
  BY <1>1 DEF CurrentAt

\* An update computes the status from the credit it has read: if that is still the
\* credit, the status is current.
LEMMA WrittenIsCurrent ==
    ASSUME TypeOK, Refs, NEW i \in Invoices, CurrentAt(i), NEW h \in Slots, WriteInvoice(h)
    PROVE  CurrentAt(i)'
<1> DEFINE r == request[h]
<1>1. r.inv \in Invoices /\ invoice[r.inv] \in InvoiceDoc
  BY DEF WriteInvoice, Refs, RequestRefs, TypeOK
<1>2. CASE r.inv = i /\ invoice[i].state = "live"
  <2>1. /\ invoice'[i].total = r.total /\ invoice'[i].credit = invoice[i].credit
        /\ invoice'[i].paymentStatus = PaymentStatus(r.total, r.credit)
        /\ fresh'[i] = (invoice[i].credit = r.credit)
    BY <1>1, <1>2 DEF WriteInvoice, TypeOK, InvoiceDoc
  <2> QED
    BY <2>1 DEF CurrentAt
<1>3. CASE ~(r.inv = i /\ invoice[i].state = "live")
  <2>1. invoice'[i] = invoice[i] /\ fresh'[i] = fresh[i]
    BY <1>1, <1>3 DEF WriteInvoice, TypeOK
  <2> QED
    BY <2>1 DEF CurrentAt
<1> QED
  BY <1>2, <1>3

\* The same for the last step of a payment handler.
LEMMA BookedIsCurrent ==
    ASSUME TypeOK, Refs, NEW i \in Invoices, CurrentAt(i), NEW h \in Slots,
           request[h].at \in Booking, NEW entries \in SUBSET Payments, Book(h, entries)
    PROVE  CurrentAt(i)'
<1> DEFINE r == request[h]
<1>1. r \in Request /\ r.inv \in Invoices /\ invoice[r.inv] \in InvoiceDoc
  BY DEF Refs, RequestRefs, TypeOK, Booking
<1>2. CASE r.inv = i
  <2>1. /\ invoice'[i] = BookedOn(invoice[i], r, entries)
        /\ fresh'[i] = (invoice[i].total = r.total /\ invoice[i].credit = r.credit)
    BY <1>1, <1>2 DEF Book, TypeOK
  <2>2. /\ invoice'[i].total = invoice[i].total
        /\ invoice'[i].credit = invoice[i].credit + Delta(r)
        /\ invoice'[i].paymentStatus = PaymentStatus(r.total, r.credit + Delta(r))
    <3> HIDE DEF r
    <3> QED
      BY <1>1, <1>2, <2>1, BookedOnFields
  <2> QED
    BY <2>1, <2>2 DEF CurrentAt
<1>3. CASE r.inv # i
  <2>1. invoice'[i] = invoice[i] /\ fresh'[i] = fresh[i]
    BY <1>1, <1>3 DEF Book, TypeOK
  <2> QED
    BY <2>1 DEF CurrentAt
<1> QED
  BY <1>2, <1>3

\* The steps that leave the invoices alone.
LEMMA NoInvoiceWritten ==
    ASSUME UNCHANGED <<invoice, fresh>>, NEW i \in Invoices, CurrentAt(i)
    PROVE  CurrentAt(i)'
BY DEF CurrentAt

\* The three last steps of the payment handlers as one.
LEMMA BookingSteps ==
    ASSUME TypeOK, Refs, NEW h \in Slots,
           BookPayment(h) \/ BookAmendment(h) \/ BookRemoval(h)
    PROVE  /\ request[h].at \in Booking
           /\ request[h] \in Request /\ request[h].inv \in Invoices
           /\ request[h].pay \in Payments
           /\ \E entries \in SUBSET Payments : Book(h, entries)
<1>1. request[h].at \in Booking
  BY DEF BookPayment, BookAmendment, BookRemoval, Booking
<1>2. /\ request[h] \in Request /\ request[h].inv \in Invoices /\ request[h].pay \in Payments
      /\ invoice[request[h].inv].payment \in SUBSET Payments
  BY <1>1 DEF TypeOK, InvoiceDoc, Refs, RequestRefs, OnPayment, Booking
<1>3. \E entries \in SUBSET Payments : Book(h, entries)
  BY <1>2 DEF BookPayment, BookAmendment, BookRemoval
<1> QED
  BY <1>1, <1>2, <1>3

LEMMA NextIsCurrent ==
    TypeOK /\ Refs /\ StatusIsCurrent /\ [Next]_vars => StatusIsCurrent'
<1> SUFFICES ASSUME TypeOK, Refs, StatusIsCurrent, [Next]_vars, NEW i \in Invoices
             PROVE  CurrentAt(i)'
  BY DEF StatusIsCurrent, CurrentAt
<1>1. CurrentAt(i)
  BY DEF StatusIsCurrent, CurrentAt
<1>2. CASE Arrival
  <2>1. CASE UNCHANGED <<invoice, fresh>>
    BY <1>1, <2>1, NoInvoiceWritten
  <2> QED
    BY <1>1, <1>2, <2>1, CreatedIsCurrent, RemovedIsCurrent
       DEF Arrival, ReadInvoiceToUpdate, ReadInvoiceToPay, ReadPaymentToUpdate,
           ReadPaymentToRemove
<1>3. ASSUME NEW h \in Slots, Step(h) \/ Fail(h)
      PROVE  CurrentAt(i)'
  <2>1. CASE UNCHANGED <<invoice, fresh>>
    BY <1>1, <2>1, NoInvoiceWritten
  <2>2. CASE WriteInvoice(h)
    BY <1>1, <2>2, WrittenIsCurrent
  <2>3. CASE BookPayment(h) \/ BookAmendment(h) \/ BookRemoval(h)
    BY <1>1, <2>3, BookingSteps, BookedIsCurrent
  <2> QED
    BY <1>3, <2>1, <2>2, <2>3
       DEF Step, Fail, Cascade, InsertPayment, PopulateToUpdate, WritePayment,
           PopulateToRemove, RemovePayment
<1>4. CASE UNCHANGED vars
  BY <1>1, <1>4, NoInvoiceWritten DEF vars
<1> QED
  BY <1>2, <1>3, <1>4 DEF Next

\* The paymentStatus of an invoice is that of its total and credit whenever the last
\* handler to write it had read the values it replaced, for any number of requests
\* in flight and any failures: a single undisturbed request repairs the status.
THEOREM StatusCorrect == Spec => []StatusIsCurrent
<1>1. Init => TypeOK /\ Refs /\ StatusIsCurrent
  BY InitRefs DEF Init, StatusIsCurrent
<1>2. (TypeOK /\ Refs /\ StatusIsCurrent) /\ [Next]_vars
        => (TypeOK /\ Refs /\ StatusIsCurrent)'
  BY NextRefs, NextIsCurrent
<1> QED
  BY <1>1, <1>2, PTL DEF Spec

-----------------------------------------------------------------------------
(***************************************************************************)
(* The payments of a removed invoice.                                      *)
(***************************************************************************)

CascadeAhead(i) == \E h \in Slots : request[h].at = "cascade" /\ request[h].inv = i

NoOrphanAt(i) ==
    /\ invoice[i].state = "removed"
    /\ flaws[i] \cap {"lost", "orphan"} = {}
    /\ ~CascadeAhead(i)
    => \A p \in Payments : payment[p].invoice = i => payment[p].state # "live"

\* A step keeps NoOrphanAt if it neither removes the invoice nor ends a cascade, and
\* no payment of the invoice comes to life.
LEMMA OrphanFrame ==
    ASSUME NEW i \in Invoices, NoOrphanAt(i),
           invoice'[i].state = "removed" => invoice[i].state = "removed",
           flaws[i] \subseteq flaws'[i],
           \A h \in Slots : request[h].at = "cascade" => request'[h] = request[h],
           \A p \in Payments : payment'[p].invoice = i /\ payment'[p].state = "live" =>
                                payment[p].invoice = i /\ payment[p].state = "live"
    PROVE  NoOrphanAt(i)'
<1>1. CascadeAhead(i) => CascadeAhead(i)'
  BY DEF CascadeAhead
<1> QED
  BY <1>1 DEF NoOrphanAt

LEMMA ArrivalOrphan ==
    ASSUME TypeOK, NEW i \in Invoices, NoOrphanAt(i), Arrival
    PROVE  NoOrphanAt(i)'
<1>1. ASSUME NEW j \in Invoices, NEW total \in Totals, CreateInvoice(j, total)
      PROVE  NoOrphanAt(i)'
  BY <1>1, OrphanFrame DEF CreateInvoice, TypeOK
<1>2. ASSUME NEW h \in Slots, NEW j \in Invoices, RemoveInvoice(h, j)
      PROVE  NoOrphanAt(i)'
  <2>1. request'[h].at = "cascade" /\ request'[h].inv = j
    BY <1>2 DEF RemoveInvoice, Accept, TypeOK, NoRequest
  <2>2. CASE i = j
    BY <2>1, <2>2 DEF NoOrphanAt, CascadeAhead
  <2>3. CASE i # j
    BY <1>2, <2>3, OrphanFrame DEF RemoveInvoice, Accept, TypeOK
  <2> QED
    BY <2>2, <2>3
<1>3. ASSUME NEW h \in Slots, NEW r, Accept(h, r), UNCHANGED <<invoice, payment, flaws>>
      PROVE  NoOrphanAt(i)'
  BY <1>3, OrphanFrame DEF Accept, TypeOK
<1> QED
  BY <1>1, <1>2, <1>3 DEF Arrival, ReadInvoiceToUpdate, ReadInvoiceToPay,
                          ReadPaymentToUpdate, ReadPaymentToRemove

\* The cascade removes every payment of its invoice.
LEMMA CascadeOrphan ==
    ASSUME TypeOK, NEW i \in Invoices, NoOrphanAt(i), NEW h \in Slots, Cascade(h)
    PROVE  NoOrphanAt(i)'
<1>1. \A p \in Payments :
        /\ payment'[p].invoice = payment[p].invoice
        /\ payment'[p].state = IF payment[p].invoice = request[h].inv THEN "removed"
                                                                     ELSE payment[p].state
  BY DEF Cascade, PaymentsRemovedWith, TypeOK, PaymentDoc
<1>2. CASE request[h].inv = i
  BY <1>1, <1>2 DEF NoOrphanAt
<1>3. CASE request[h].inv # i
  <2>1. CascadeAhead(i) => CascadeAhead(i)'
    BY <1>3 DEF CascadeAhead, Cascade, Answer, TypeOK
  <2> QED
    BY <1>1, <2>1 DEF NoOrphanAt, Cascade
<1> QED
  BY <1>2, <1>3

\* A payment inserted for a removed invoice finds the cascade ahead, or is an orphan.
LEMMA InsertOrphan ==
    ASSUME TypeOK, Refs, NEW i \in Invoices, NoOrphanAt(i),
           NEW h \in Slots, NEW p \in Payments, InsertPayment(h, p)
    PROVE  NoOrphanAt(i)'
<1> DEFINE r == request[h]
<1>1. r.inv \in Invoices /\ r.at = "insertPayment"
  BY DEF InsertPayment, Refs, RequestRefs
<1>2. \A g \in Slots : request[g].at = "cascade" => request'[g] = request[g]
  BY <1>1 DEF InsertPayment, TypeOK
<1>3. /\ payment'[p].invoice = r.inv
      /\ \A q \in Payments : q # p => payment'[q] = payment[q]
      /\ invoice' = invoice /\ flaws[i] \subseteq flaws'[i]
  BY <1>1 DEF InsertPayment, Blame, TypeOK
<1>4. CASE r.inv = i
  <2>1. CascadeAhead(i) => CascadeAhead(i)'
    BY <1>2 DEF CascadeAhead
  <2>2. invoice[i].state = "removed" /\ ~CascadeAhead(i) => "orphan" \in flaws'[i]
    BY <1>1, <1>4 DEF InsertPayment, Blame, FlawIf, CascadeAhead, TypeOK
  <2> QED
    BY <1>3, <2>1, <2>2 DEF NoOrphanAt
<1>5. CASE r.inv # i
  BY <1>2, <1>3, <1>5, OrphanFrame
<1> QED
  BY <1>4, <1>5

\* Neither an amendment nor a removal brings a payment to life.
LEMMA PaymentWrittenOrphan ==
    ASSUME TypeOK, Refs, NEW i \in Invoices, NoOrphanAt(i),
           NEW h \in Slots, WritePayment(h) \/ RemovePayment(h)
    PROVE  NoOrphanAt(i)'
<1>1. /\ request[h].at # "cascade"
      /\ request[h].inv \in Invoices /\ request[h].pay \in Payments
  BY DEF WritePayment, RemovePayment, Refs, RequestRefs, OnPayment
<1>2. \A g \in Slots : request[g].at = "cascade" => request'[g] = request[g]
  BY <1>1 DEF WritePayment, RemovePayment, Proceed, Answer, TypeOK
<1>3. invoice' = invoice /\ flaws[i] \subseteq flaws'[i]
  BY <1>1 DEF WritePayment, RemovePayment, Blame, TypeOK
<1>4. \A p \in Payments : /\ payment'[p].invoice = payment[p].invoice
                          /\ payment'[p].state = "live" => payment[p].state = "live"
  BY <1>1 DEF WritePayment, RemovePayment, TypeOK, PaymentDoc
<1> QED
  BY <1>2, <1>3, <1>4, OrphanFrame

\* The other steps change neither payments nor cascades, but for a failed cascade.
LEMMA OtherOrphan ==
    ASSUME TypeOK, TypeOK', Refs, NEW i \in Invoices, NoOrphanAt(i), NEW h \in Slots,
           \/ WriteInvoice(h) \/ PopulateToUpdate(h) \/ PopulateToRemove(h) \/ Fail(h)
           \/ BookPayment(h) \/ BookAmendment(h) \/ BookRemoval(h)
    PROVE  NoOrphanAt(i)'
<1>1. CASE Fail(h)
  <2>1. CASE request[h].at = "cascade" /\ request[h].inv = i
    <3>1. "lost" \in flaws'[i]
      BY <1>1, <2>1 DEF Fail, TypeOK
    <3> QED
      BY <3>1 DEF NoOrphanAt
  <2>2. CASE ~(request[h].at = "cascade" /\ request[h].inv = i)
    <3>1. CascadeAhead(i) => CascadeAhead(i)'
      BY <1>1, <2>2 DEF Fail, Answer, CascadeAhead, TypeOK
    <3>2. flaws[i] \subseteq flaws'[i] /\ invoice' = invoice /\ payment' = payment
      BY <1>1 DEF Fail, TypeOK
    <3> QED
      BY <3>1, <3>2 DEF NoOrphanAt
  <2> QED
    BY <2>1, <2>2
<1>2. CASE \/ WriteInvoice(h) \/ PopulateToUpdate(h) \/ PopulateToRemove(h)
           \/ BookPayment(h) \/ BookAmendment(h) \/ BookRemoval(h)
  <2>1. /\ request[h].at # "cascade" /\ payment' = payment /\ flaws' = flaws
        /\ \A g \in Slots : g # h => request'[g] = request[g]
    BY <1>2 DEF WriteInvoice, PopulateToUpdate, PopulateToRemove, BookPayment, BookAmendment,
                BookRemoval, Book, Answer, TypeOK
  <2>2. invoice'[i].state = invoice[i].state
    <3>1. CASE WriteInvoice(h)
      <4>1. request[h].inv \in Invoices
        BY <3>1 DEF WriteInvoice, Refs, RequestRefs
      <4> QED
        BY <3>1, <4>1 DEF WriteInvoice, TypeOK, InvoiceDoc
    <3>2. CASE PopulateToUpdate(h) \/ PopulateToRemove(h)
      BY <3>2 DEF PopulateToUpdate, PopulateToRemove
    <3>3. CASE BookPayment(h) \/ BookAmendment(h) \/ BookRemoval(h)
      <4>1. PICK entries \in SUBSET Payments : Book(h, entries)
        BY <3>3, BookingSteps
      <4> QED
        BY <3>3, <4>1, BookingSteps, BookedOnFields DEF Book, TypeOK
    <3> QED
      BY <1>2, <3>1, <3>2, <3>3
  <2> QED
    BY <2>1, <2>2, OrphanFrame
<1> QED
  BY <1>1, <1>2

LEMMA NextOrphan ==
    TypeOK /\ Refs /\ NoOrphanPayments /\ [Next]_vars => NoOrphanPayments'
<1> SUFFICES ASSUME TypeOK, Refs, NoOrphanPayments, [Next]_vars, NEW i \in Invoices
             PROVE  NoOrphanAt(i)'
  BY DEF NoOrphanPayments, NoOrphanAt, CascadeAhead
<1>1. NoOrphanAt(i) /\ TypeOK'
  BY NextRefs DEF NoOrphanPayments, NoOrphanAt, CascadeAhead
<1>2. CASE Arrival
  BY <1>1, <1>2, ArrivalOrphan
<1>3. ASSUME NEW h \in Slots, Step(h) \/ Fail(h)
      PROVE  NoOrphanAt(i)'
  BY <1>1, <1>3, CascadeOrphan, InsertOrphan, PaymentWrittenOrphan, OtherOrphan DEF Step
<1>4. CASE UNCHANGED vars
  BY <1>1, <1>4, OrphanFrame DEF vars
<1> QED
  BY <1>2, <1>3, <1>4 DEF Next

\* Once its removal is done a removed invoice has no live payment, unless the removal
\* stopped half-way or a payment was inserted after it.
THEOREM NoOrphans == Spec => []NoOrphanPayments
<1>1. Init => TypeOK /\ Refs /\ NoOrphanPayments
  BY InitRefs DEF Init, NoOrphanPayments
<1>2. (TypeOK /\ Refs /\ NoOrphanPayments) /\ [Next]_vars
        => (TypeOK /\ Refs /\ NoOrphanPayments)'
  BY NextRefs, NextOrphan
<1> QED
  BY <1>1, <1>2, PTL DEF Spec

-----------------------------------------------------------------------------
(***************************************************************************)
(* What is never done to a removed document.                               *)
(***************************************************************************)

RemovedKept ==
    /\ \A p \in Payments : payment[p].state = "removed" => payment'[p] = payment[p]
    /\ \A i \in Invoices : invoice[i].state = "removed" =>
         /\ invoice'[i].state = "removed"
         /\ invoice'[i].total = invoice[i].total

\* Marking a removed payment as removed changes nothing.
LEMMA RemovedTwice ==
    ASSUME NEW doc \in PaymentDoc, doc.state = "removed"
    PROVE  [doc EXCEPT !.state = "removed"] = doc
BY DEF PaymentDoc

LEMMA PaymentsKept ==
    ASSUME TypeOK, Refs, [Next]_vars, NEW p \in Payments, payment[p].state = "removed"
    PROVE  payment'[p] = payment[p]
<1>1. CASE Arrival
  BY <1>1 DEF Arrival, CreateInvoice, RemoveInvoice, ReadInvoiceToUpdate, ReadInvoiceToPay,
              ReadPaymentToUpdate, ReadPaymentToRemove
<1>2. ASSUME NEW h \in Slots, Step(h) \/ Fail(h)
      PROVE  payment'[p] = payment[p]
  <2>1. CASE Cascade(h)
    BY <2>1, RemovedTwice DEF Cascade, PaymentsRemovedWith, TypeOK
  <2>2. CASE \E q \in Payments : InsertPayment(h, q)
    BY <2>2 DEF InsertPayment, IsFresh, TypeOK
  <2>3. CASE WritePayment(h)
    BY <2>3 DEF WritePayment, Amends, TypeOK
  <2>4. CASE RemovePayment(h)
    <3>1. request[h].pay \in Payments
      BY <2>4 DEF RemovePayment, Refs, RequestRefs, OnPayment
    <3> QED
      BY <2>4, <3>1, RemovedTwice DEF RemovePayment, TypeOK
  <2> QED
    BY <1>2, <2>1, <2>2, <2>3, <2>4
       DEF Step, Fail, WriteInvoice, PopulateToUpdate, PopulateToRemove, BookPayment,
           BookAmendment, BookRemoval, Book
<1>3. CASE UNCHANGED vars
  BY <1>3 DEF vars
<1> QED
  BY <1>1, <1>2, <1>3 DEF Next

LEMMA InvoicesKept ==
    ASSUME TypeOK, Refs, [Next]_vars, NEW i \in Invoices, invoice[i].state = "removed"
    PROVE  invoice'[i].state = "removed" /\ invoice'[i].total = invoice[i].total
<1>1. CASE Arrival
  BY <1>1 DEF Arrival, CreateInvoice, RemoveInvoice, ReadInvoiceToUpdate, ReadInvoiceToPay,
              ReadPaymentToUpdate, ReadPaymentToRemove, TypeOK, InvoiceDoc
<1>2. ASSUME NEW h \in Slots, Step(h) \/ Fail(h)
      PROVE  invoice'[i].state = "removed" /\ invoice'[i].total = invoice[i].total
  <2>1. CASE WriteInvoice(h)
    BY <2>1 DEF WriteInvoice, TypeOK
  <2>2. CASE BookPayment(h) \/ BookAmendment(h) \/ BookRemoval(h)
    <3>1. PICK entries \in SUBSET Payments : Book(h, entries)
      BY <2>2, BookingSteps
    <3> QED
      BY <2>2, <3>1, BookingSteps, BookedOnFields DEF Book, TypeOK
  <2> QED
    BY <1>2, <2>1, <2>2
       DEF Step, Fail, Cascade, InsertPayment, PopulateToUpdate, WritePayment,
           PopulateToRemove, RemovePayment
<1>3. CASE UNCHANGED vars
  BY <1>3 DEF vars
<1> QED
  BY <1>1, <1>2, <1>3 DEF Next

\* No step changes a removed payment, revives a removed invoice or gives it another
\* total, whatever the requests in flight had read before the removal.
THEOREM RemovedIsFinal == Spec => RemovedStaysAsItWas
<1>1. TypeOK /\ Refs /\ [Next]_vars => [RemovedKept]_vars
  BY PaymentsKept, InvoicesKept DEF RemovedKept
<1>2. Init => TypeOK /\ Refs
  BY InitRefs
<1>3. (TypeOK /\ Refs) /\ [Next]_vars => (TypeOK /\ Refs)'
  BY NextRefs
<1>4. Spec => [][RemovedKept]_vars
  BY <1>1, <1>2, <1>3, PTL DEF Spec
<1> QED
  BY <1>4 DEF RemovedStaysAsItWas, RemovedKept

-----------------------------------------------------------------------------
(***************************************************************************)
(* The payment list of an invoice.                                         *)
(***************************************************************************)

Sound(i) == invoice[i].state = "live" /\ flaws[i] = {}

LiveOn(i, q) == payment[q].state = "live" /\ payment[q].invoice = i

\* The requests that have written payment q of i and not booked it yet.
Unbooked(h, i, q) ==
    request[h].at \in {"bookPayment", "bookRemoval"} /\ request[h].inv = i /\ request[h].pay = q

Waiting(i, q, step) == \E h \in Slots : Unbooked(h, i, q) /\ request[h].at = step

\* The list of a sound invoice, payment by payment.
ListedAt(i) ==
    Sound(i) => \A q \in Payments :
        q \in invoice[i].payment <=>
            \/ LiveOn(i, q) /\ ~Waiting(i, q, "bookPayment")
            \/ Waiting(i, q, "bookRemoval")

\* On a sound invoice a payment waits to be booked by one request at most: a live one
\* for its creation, a removed one for its removal.
BookedOnceAt(i) ==
    Sound(i) => \A q \in Payments, h \in Slots : Unbooked(h, i, q) =>
        /\ request[h].at = "bookPayment" => payment[q].state = "live"
        /\ request[h].at = "bookRemoval" => payment[q].state = "removed"
        /\ \A g \in Slots : Unbooked(g, i, q) => g = h

ListInv(i) == ListedAt(i) /\ BookedOnceAt(i)

LEMMA ListInvNames ==
    ASSUME TypeOK, Refs, \A i \in Invoices : ListedAt(i)
    PROVE  ListNamesLivePayments
<1> DEFINE at(i, step) == {request[h].pay : h \in {g \in Slots : request[g].at = step
                                                                /\ request[g].inv = i}}
           live(i) == {p \in Payments : payment[p].state = "live" /\ payment[p].invoice = i}
<1> SUFFICES ASSUME NEW i \in Invoices, Sound(i)
             PROVE  invoice[i].payment = (live(i) \ at(i, "bookPayment")) \cup at(i, "bookRemoval")
  BY DEF ListNamesLivePayments, Sound
<1>1. \A q \in Payments : /\ q \in live(i) <=> LiveOn(i, q)
                          /\ q \in at(i, "bookPayment") <=> Waiting(i, q, "bookPayment")
                          /\ q \in at(i, "bookRemoval") <=> Waiting(i, q, "bookRemoval")
  BY DEF LiveOn, Waiting, Unbooked
<1>2. at(i, "bookRemoval") \subseteq Payments
  BY DEF Refs, RequestRefs, OnPayment, Booking
<1>3. invoice[i].payment \subseteq Payments /\ live(i) \subseteq Payments
  BY DEF TypeOK, InvoiceDoc
<1>4. \A q \in Payments : q \in invoice[i].payment <=>
                             q \in (live(i) \ at(i, "bookPayment")) \cup at(i, "bookRemoval")
  BY <1>1 DEF ListedAt
<1> HIDE DEF at, live
<1> QED
  BY <1>2, <1>3, <1>4

\* A step that touches neither the invoice's list, nor the life of its payments, nor
\* the requests that are about to book one of them.
LEMMA ListFrame ==
    ASSUME NEW i \in Invoices, ListInv(i),
           Sound(i)' => Sound(i),
           invoice'[i].payment = invoice[i].payment,
           \A q \in Payments : payment[q].invoice = i \/ payment'[q].invoice = i =>
               payment'[q].state = payment[q].state /\ payment'[q].invoice = payment[q].invoice,
           \A h \in Slots, q \in Payments : Unbooked(h, i, q) \/ Unbooked(h, i, q)' =>
               /\ payment[q].invoice = i
               /\ request'[h].at = request[h].at /\ request'[h].inv = request[h].inv
               /\ request'[h].pay = request[h].pay
    PROVE  ListInv(i)'
<1>1. \A q \in Payments : LiveOn(i, q)' <=> LiveOn(i, q)
  BY DEF LiveOn
<1>2. \A h \in Slots, q \in Payments :
        /\ Unbooked(h, i, q)' <=> Unbooked(h, i, q)
        /\ Unbooked(h, i, q) => request'[h].at = request[h].at
                               /\ payment'[q].state = payment[q].state
  BY DEF Unbooked
<1>3. \A q \in Payments, step \in {"bookPayment", "bookRemoval"} :
        Waiting(i, q, step)' <=> Waiting(i, q, step)
  BY <1>2 DEF Waiting
<1>4. ListedAt(i)'
  BY <1>1, <1>3 DEF ListInv, ListedAt
<1>5. BookedOnceAt(i)'
  BY <1>2 DEF ListInv, BookedOnceAt
<1> QED
  BY <1>4, <1>5 DEF ListInv

\* The same, when the requests that change are not about to book anything.
LEMMA QuietList ==
    ASSUME TypeOK, TypeOK', Refs, NEW i \in Invoices, ListInv(i), NEW h \in Slots,
           \A g \in Slots : g # h => request'[g] = request[g],
           request[h].at \notin {"bookPayment", "bookRemoval"} \/ request[h].inv # i,
           request'[h].at \notin {"bookPayment", "bookRemoval"} \/ request'[h].inv # i,
           Sound(i)' => Sound(i),
           invoice'[i].payment = invoice[i].payment,
           \A q \in Payments : payment[q].invoice = i \/ payment'[q].invoice = i =>
               payment'[q].state = payment[q].state /\ payment'[q].invoice = payment[q].invoice
    PROVE  ListInv(i)'
<1>1. ASSUME NEW g \in Slots, NEW q \in Payments, Unbooked(g, i, q) \/ Unbooked(g, i, q)'
      PROVE  g # h /\ payment[q].invoice = i
  BY <1>1 DEF Unbooked, Refs, RequestRefs, OnPayment, Booking
<1> QED
  BY <1>1, ListFrame

LEMMA ArrivalList ==
    ASSUME TypeOK, TypeOK', Refs, NEW i \in Invoices, ListInv(i), Arrival
    PROVE  ListInv(i)'
<1>1. ASSUME NEW j \in Invoices, NEW total \in Totals, CreateInvoice(j, total)
      PROVE  ListInv(i)'
  <2>1. request' = request /\ payment' = payment /\ flaws' = flaws
    BY <1>1 DEF CreateInvoice
  <2>2. CASE i = j
    <3>1. invoice[i].state = "absent" /\ invoice'[i].payment = {}
      BY <1>1, <2>2 DEF CreateInvoice, TypeOK
    <3>2. \A q \in Payments : ~LiveOn(i, q)'
      BY <2>1, <3>1 DEF LiveOn, Refs, PaymentRefs
    <3>3. \A h \in Slots, q \in Payments : ~Unbooked(h, i, q)'
      BY <2>1, <3>1 DEF Unbooked, Refs, RequestRefs
    <3> QED
      BY <3>1, <3>2, <3>3 DEF ListInv, ListedAt, BookedOnceAt, Waiting
  <2>3. CASE i # j
    <3>1. invoice'[i] = invoice[i]
      BY <1>1, <2>3 DEF CreateInvoice, TypeOK
    <3>2. \A h \in Slots, q \in Payments : Unbooked(h, i, q) => payment[q].invoice = i
      BY DEF Unbooked, Refs, RequestRefs, OnPayment, Booking
    <3>3. \A h \in Slots, q \in Payments : Unbooked(h, i, q)' <=> Unbooked(h, i, q)
      BY <2>1 DEF Unbooked
    <3> QED
      BY <2>1, <3>1, <3>2, <3>3, ListFrame DEF Sound
  <2> QED
    BY <2>2, <2>3
<1>2. ASSUME NEW h \in Slots, NEW j \in Invoices, RemoveInvoice(h, j)
      PROVE  ListInv(i)'
  <2>1. /\ request[h].at = "idle" /\ request'[h].at = "cascade"
        /\ \A g \in Slots : g # h => request'[g] = request[g]
        /\ payment' = payment /\ flaws' = flaws
    BY <1>2 DEF RemoveInvoice, Accept, NoRequest, TypeOK
  <2>2. invoice'[i].payment = invoice[i].payment /\ (Sound(i)' => Sound(i))
    BY <1>2 DEF RemoveInvoice, Sound, TypeOK, InvoiceDoc
  <2> QED
    BY <2>1, <2>2, QuietList
<1>3. ASSUME NEW h \in Slots, NEW r, Accept(h, r), r.at \notin {"bookPayment", "bookRemoval"},
             UNCHANGED <<invoice, payment, flaws>>
      PROVE  ListInv(i)'
  <2>1. /\ request[h].at = "idle" /\ request'[h].at = r.at
        /\ \A g \in Slots : g # h => request'[g] = request[g]
    BY <1>3 DEF Accept, TypeOK
  <2> QED
    BY <1>3, <2>1, QuietList DEF Sound
<1>4. ASSUME NEW h \in Slots, NEW j \in Invoices, NEW total \in Totals,
             ReadInvoiceToUpdate(h, j, total)
      PROVE  ListInv(i)'
  BY <1>3, <1>4 DEF ReadInvoiceToUpdate, NoRequest
<1>5. ASSUME NEW h \in Slots, NEW j \in Invoices, NEW amount \in Amounts,
             ReadInvoiceToPay(h, j, amount)
      PROVE  ListInv(i)'
  BY <1>3, <1>5 DEF ReadInvoiceToPay, NoRequest
<1>6. ASSUME NEW h \in Slots, NEW p \in Payments, NEW amount \in Amounts,
             ReadPaymentToUpdate(h, p, amount)
      PROVE  ListInv(i)'
  BY <1>3, <1>6 DEF ReadPaymentToUpdate, NoRequest
<1>7. ASSUME NEW h \in Slots, NEW p \in Payments, ReadPaymentToRemove(h, p)
      PROVE  ListInv(i)'
  BY <1>3, <1>7 DEF ReadPaymentToRemove, NoRequest
<1> QED
  BY <1>1, <1>2, <1>4, <1>5, <1>6, <1>7 DEF Arrival

\* The steps that write neither a list nor the life of a payment, the cascade, which
\* removes payments of a removed invoice only, and a failure.
LEMMA QuietStepList ==
    ASSUME TypeOK, TypeOK', Refs, NEW i \in Invoices, ListInv(i), NEW h \in Slots,
           \/ WriteInvoice(h) \/ Cascade(h) \/ PopulateToUpdate(h) \/ WritePayment(h)
           \/ PopulateToRemove(h)
    PROVE  ListInv(i)'
<1>1. /\ request[h] \in Request /\ request[h].inv \in Invoices
      /\ request[h].at \notin {"bookPayment", "bookRemoval"}
  BY DEF WriteInvoice, Cascade, PopulateToUpdate, WritePayment, PopulateToRemove,
         TypeOK, Refs, RequestRefs
<1>2. \A g \in Slots : g # h => request'[g] = request[g]
  BY DEF WriteInvoice, Cascade, PopulateToUpdate, WritePayment, PopulateToRemove,
         Answer, Proceed, TypeOK
<1>3. request'[h].at \notin {"bookPayment", "bookRemoval"}
  <2>1. Populated(request[h]) \in Request
    BY <1>1, PopulatedFields
  <2>2. CASE PopulateToUpdate(h) \/ PopulateToRemove(h)
    BY <2>1, <2>2 DEF PopulateToUpdate, PopulateToRemove, NoRequest, TypeOK, Request
  <2>3. CASE WriteInvoice(h) \/ Cascade(h) \/ WritePayment(h)
    BY <1>1, <2>3 DEF WriteInvoice, Cascade, WritePayment, Answer, Proceed, NoRequest, TypeOK, Request
  <2> QED
    BY <2>2, <2>3
<1>4. invoice'[i].payment = invoice[i].payment /\ invoice'[i].state = invoice[i].state
  BY <1>1 DEF WriteInvoice, Cascade, PopulateToUpdate, WritePayment, PopulateToRemove,
              TypeOK, InvoiceDoc
<1>5. flaws[i] \subseteq flaws'[i]
  BY <1>1 DEF WriteInvoice, Cascade, PopulateToUpdate, WritePayment, PopulateToRemove,
              Blame, TypeOK
<1>6. CASE Cascade(h) /\ request[h].inv = i
  <2>1. ~Sound(i)'
    BY <1>4, <1>6 DEF Cascade, Sound, Refs, RequestRefs
  <2> QED
    BY <2>1 DEF ListInv, ListedAt, BookedOnceAt
<1>7. CASE ~(Cascade(h) /\ request[h].inv = i)
  <2>1. \A q \in Payments : payment[q].invoice = i \/ payment'[q].invoice = i =>
          payment'[q].state = payment[q].state /\ payment'[q].invoice = payment[q].invoice
    <3>1. CASE Cascade(h)
      BY <1>7, <3>1 DEF Cascade, PaymentsRemovedWith, TypeOK, PaymentDoc
    <3>2. CASE WritePayment(h)
      BY <3>2 DEF WritePayment, TypeOK, PaymentDoc
    <3> QED
      BY <3>1, <3>2 DEF WriteInvoice, PopulateToUpdate, PopulateToRemove
  <2>2. Sound(i)' => Sound(i)
    BY <1>4, <1>5 DEF Sound
  <2> QED
    BY <1>1, <1>2, <1>3, <1>4, <2>1, <2>2, QuietList
<1> QED
  BY <1>6, <1>7

LEMMA FailList ==
    ASSUME TypeOK, TypeOK', Refs, NEW i \in Invoices, ListInv(i), NEW h \in Slots, Fail(h)
    PROVE  ListInv(i)'
<1>1. /\ request'[h].at = "idle" /\ \A g \in Slots : g # h => request'[g] = request[g]
      /\ invoice' = invoice /\ payment' = payment /\ flaws[i] \subseteq flaws'[i]
  BY DEF Fail, Answer, NoRequest, TypeOK
<1>2. CASE request[h].at \in {"bookPayment", "bookRemoval"} /\ request[h].inv = i
  <2>1. "lost" \in flaws'[i]
    BY <1>2 DEF Fail, Booking, TypeOK
  <2> QED
    BY <2>1 DEF Sound, ListInv, ListedAt, BookedOnceAt
<1>3. CASE ~(request[h].at \in {"bookPayment", "bookRemoval"} /\ request[h].inv = i)
  <2>1. Sound(i)' => Sound(i)
    BY <1>1 DEF Sound
  <2> QED
    BY <1>1, <1>3, <2>1, QuietList
<1> QED
  BY <1>2, <1>3

\* An inserted payment is live, and not in the list until it is booked.
LEMMA InsertList ==
    ASSUME TypeOK, TypeOK', Refs, NEW i \in Invoices, ListInv(i),
           NEW h \in Slots, NEW p \in Payments, InsertPayment(h, p)
    PROVE  ListInv(i)'
<1> DEFINE r == request[h]
<1>1. /\ r \in Request /\ r.inv \in Invoices /\ r.at = "insertPayment"
      /\ payment[p].state = "absent" /\ payment[p].invoice = NoInvoice
  BY DEF TypeOK, InsertPayment, IsFresh, Refs, RequestRefs, PaymentRefs
<1>2. /\ request'[h].at = "bookPayment" /\ request'[h].inv = r.inv /\ request'[h].pay = p
      /\ \A g \in Slots : g # h => request'[g] = request[g]
  BY <1>1 DEF InsertPayment, TypeOK, Request
<1>3. /\ payment'[p].state = "live" /\ payment'[p].invoice = r.inv
      /\ \A q \in Payments : q # p => payment'[q] = payment[q]
  BY DEF InsertPayment, TypeOK
<1>4. invoice' = invoice /\ flaws[i] \subseteq flaws'[i]
  BY DEF InsertPayment, Blame, TypeOK
<1>5. Sound(i)' => Sound(i)
  BY <1>4 DEF Sound
<1> HIDE DEF r
<1>6. CASE r.inv # i
  <2>1. \A q \in Payments : payment[q].invoice = i \/ payment'[q].invoice = i =>
          payment'[q].state = payment[q].state /\ payment'[q].invoice = payment[q].invoice
    BY <1>1, <1>3, <1>6, LedgerAssumption
  <2>2. request[h].inv # i /\ request'[h].inv # i
    BY <1>2, <1>6 DEF r
  <2> QED
    BY <1>2, <1>4, <1>5, <2>1, <2>2, QuietList
<1>7. CASE r.inv = i /\ Sound(i)'
  <2>1. \A g \in Slots : ~Unbooked(g, i, p)
    BY <1>1 DEF Unbooked, Refs, RequestRefs, OnPayment, Booking
  <2>2. \A g \in Slots, q \in Payments :
          Unbooked(g, i, q)' <=> IF g = h THEN q = p ELSE Unbooked(g, i, q)
    BY <1>2, <1>7 DEF Unbooked
  <2>3. \A q \in Payments : Unbooked(h, i, q) => FALSE
    BY <1>1 DEF Unbooked, r
  <2>4. ASSUME NEW q \in Payments, q # p
        PROVE  /\ LiveOn(i, q)' <=> LiveOn(i, q)
               /\ \A step \in {"bookPayment", "bookRemoval"} :
                    Waiting(i, q, step)' <=> Waiting(i, q, step)
    BY <1>2, <1>3, <2>2, <2>3, <2>4 DEF LiveOn, Waiting
  <2>5. /\ ~LiveOn(i, p) /\ LiveOn(i, p)' /\ Waiting(i, p, "bookPayment")'
        /\ ~Waiting(i, p, "bookRemoval") /\ ~Waiting(i, p, "bookRemoval")'
    BY <1>1, <1>2, <1>3, <1>7, <2>1, <2>2 DEF LiveOn, Waiting
  <2>6. ListedAt(i)'
    BY <1>4, <1>5, <1>7, <2>4, <2>5 DEF ListInv, ListedAt
  <2>7. BookedOnceAt(i)'
    BY <1>2, <1>3, <1>5, <1>7, <2>1, <2>2, <2>3 DEF ListInv, BookedOnceAt
  <2> QED
    BY <2>6, <2>7 DEF ListInv
<1>8. CASE ~Sound(i)'
  BY <1>8 DEF ListInv, ListedAt, BookedOnceAt
<1> QED
  BY <1>6, <1>7, <1>8

\* A removed payment stays in the list until its removal is booked.
LEMMA RemoveList ==
    ASSUME TypeOK, TypeOK', Refs, NEW i \in Invoices, ListInv(i),
           NEW h \in Slots, RemovePayment(h)
    PROVE  ListInv(i)'
<1>0. PICK p \in Payments : p = request[h].pay
  BY DEF RemovePayment, Refs, RequestRefs, OnPayment
<1> DEFINE r == request[h]
<1>1. /\ r \in Request /\ r.inv \in Invoices /\ r.at = "writeRemoval" /\ p = r.pay
      /\ payment[p].invoice = r.inv
  BY <1>0 DEF TypeOK, RemovePayment, Refs, RequestRefs, OnPayment
<1>2. /\ request'[h].at = "bookRemoval" /\ request'[h].inv = r.inv /\ request'[h].pay = p
      /\ \A g \in Slots : g # h => request'[g] = request[g]
  BY <1>1 DEF RemovePayment, Proceed, TypeOK, Request
<1>3. /\ payment'[p].state = "removed" /\ payment'[p].invoice = r.inv
      /\ \A q \in Payments : q # p => payment'[q] = payment[q]
  BY <1>1 DEF RemovePayment, TypeOK, PaymentDoc
<1>4. invoice' = invoice /\ flaws[i] \subseteq flaws'[i]
  BY <1>1 DEF RemovePayment, Blame, TypeOK
<1>5. Sound(i)' => Sound(i)
  BY <1>4 DEF Sound
<1>6. r.inv = i /\ Sound(i)' => payment[p].state = "live" /\ p \in invoice[i].payment
  BY <1>1 DEF RemovePayment, Blame, FlawIf, Sound, TypeOK
<1> HIDE DEF r
<1>7. CASE r.inv # i
  BY <1>1, <1>2, <1>3, <1>4, <1>5, <1>7, QuietList DEF r
<1>8. CASE r.inv = i /\ Sound(i)'
  <2>1. /\ LiveOn(i, p) /\ p \in invoice[i].payment /\ Sound(i)
    BY <1>1, <1>5, <1>6, <1>8 DEF LiveOn
  <2>2. ~Waiting(i, p, "bookRemoval")
    BY <1>1, <2>1 DEF ListInv, BookedOnceAt, Waiting, LiveOn
  <2>3. ~Waiting(i, p, "bookPayment")
    BY <1>1, <2>1, <2>2 DEF ListInv, ListedAt
  <2>4. \A g \in Slots : ~Unbooked(g, i, p)
    BY <2>2, <2>3 DEF Waiting, Unbooked
  <2>5. \A g \in Slots, q \in Payments :
          Unbooked(g, i, q)' <=> IF g = h THEN q = p ELSE Unbooked(g, i, q)
    BY <1>2, <1>8 DEF Unbooked
  <2>6. \A q \in Payments : ~Unbooked(h, i, q)
    BY <1>1 DEF Unbooked, r
  <2>7. ASSUME NEW q \in Payments, q # p
        PROVE  /\ LiveOn(i, q)' <=> LiveOn(i, q)
               /\ \A step \in {"bookPayment", "bookRemoval"} :
                    Waiting(i, q, step)' <=> Waiting(i, q, step)
    BY <1>2, <1>3, <2>5, <2>6, <2>7 DEF LiveOn, Waiting
  <2>8. ~LiveOn(i, p)' /\ Waiting(i, p, "bookRemoval")'
    BY <1>1, <1>2, <1>3, <2>5 DEF LiveOn, Waiting
  <2>9. ListedAt(i)'
    BY <1>4, <2>1, <2>7, <2>8 DEF ListInv, ListedAt
  <2>10. BookedOnceAt(i)'
    BY <1>2, <1>3, <2>1, <2>4, <2>5, <2>6 DEF ListInv, BookedOnceAt
  <2> QED
    BY <2>9, <2>10 DEF ListInv
<1>9. CASE ~Sound(i)'
  BY <1>9 DEF ListInv, ListedAt, BookedOnceAt
<1> QED
  BY <1>7, <1>8, <1>9

\* Booking ends the wait of the payment that the request is for.
LEMMA BookList ==
    ASSUME TypeOK, TypeOK', Refs, NEW i \in Invoices, ListInv(i), NEW h \in Slots,
           BookPayment(h) \/ BookAmendment(h) \/ BookRemoval(h)
    PROVE  ListInv(i)'
<1>0. PICK p \in Payments : p = request[h].pay
  BY BookingSteps
<1> DEFINE r == request[h]
           list == invoice[r.inv].payment
           entries == IF BookPayment(h) THEN list \cup {p}
                      ELSE IF BookRemoval(h) THEN list \ {p} ELSE list
<1>1. /\ r \in Request /\ r.inv \in Invoices /\ p = r.pay /\ r.at \in Booking
      /\ payment[p].invoice = r.inv /\ invoice[r.inv] \in InvoiceDoc
      /\ list \in SUBSET Payments
  BY <1>0, BookingSteps DEF Refs, RequestRefs, OnPayment, Booking, TypeOK, InvoiceDoc
<1>2. Book(h, entries) /\ entries \in SUBSET Payments
  <2>1. CASE BookPayment(h)
    BY <1>1, <2>1 DEF BookPayment, BookRemoval
  <2>2. CASE BookRemoval(h)
    BY <1>1, <2>2 DEF BookPayment, BookRemoval
  <2>3. CASE BookAmendment(h)
    BY <1>1, <2>3 DEF BookPayment, BookRemoval, BookAmendment
  <2> QED
    BY <2>1, <2>2, <2>3
<1> HIDE DEF entries
<1>3. /\ request'[h].at = "idle" /\ \A g \in Slots : g # h => request'[g] = request[g]
      /\ payment' = payment /\ flaws' = flaws
  BY <1>2 DEF Book, Answer, NoRequest, TypeOK
<1>4. /\ invoice'[i].state = invoice[i].state
      /\ invoice'[i].payment = IF r.inv = i THEN entries ELSE invoice[i].payment
  <2>1. invoice' = [invoice EXCEPT ![r.inv] = BookedOn(invoice[r.inv], r, entries)]
    BY <1>2 DEF Book
  <2>2. /\ BookedOn(invoice[r.inv], r, entries).state = invoice[r.inv].state
        /\ BookedOn(invoice[r.inv], r, entries).payment = entries
    <3> HIDE DEF r
    <3> QED
      BY <1>1, <1>2, BookedOnFields
  <2> QED
    BY <1>1, <2>1, <2>2 DEF TypeOK
<1>5. Sound(i)' <=> Sound(i)
  BY <1>3, <1>4 DEF Sound
<1>6. CASE r.inv # i
  BY <1>1, <1>3, <1>4, <1>5, <1>6, QuietList
<1>7. CASE r.inv = i /\ Sound(i)
  <2>1. \A g \in Slots, q \in Payments : Unbooked(g, i, q)' <=> (g # h /\ Unbooked(g, i, q))
    BY <1>3 DEF Unbooked
  <2>2. ASSUME NEW q \in Payments
        PROVE  LiveOn(i, q)' <=> LiveOn(i, q)
    BY <1>3 DEF LiveOn
  <2>3. ASSUME NEW q \in Payments, q # p, NEW step \in {"bookPayment", "bookRemoval"}
        PROVE  Waiting(i, q, step)' <=> Waiting(i, q, step)
    <3>1. ~Unbooked(h, i, q)
      BY <1>1, <2>3 DEF Unbooked
    <3> QED
      BY <1>3, <2>1, <3>1 DEF Waiting
  <2>4. \A q \in Payments : q # p => (q \in entries <=> q \in invoice[i].payment)
    BY <1>1, <1>7 DEF entries
  <2>5. p \in entries <=> \/ LiveOn(i, p)' /\ ~Waiting(i, p, "bookPayment")'
                         \/ Waiting(i, p, "bookRemoval")'
    <3>1. CASE BookPayment(h)
      <4>1. Unbooked(h, i, p) /\ r.at = "bookPayment"
        BY <1>1, <1>7, <3>1 DEF Unbooked, BookPayment
      <4>2. LiveOn(i, p)
        BY <1>1, <1>7, <4>1 DEF ListInv, BookedOnceAt, LiveOn
      <4>3. \A g \in Slots : ~Unbooked(g, i, p)'
        BY <1>1, <1>7, <2>1, <4>1 DEF ListInv, BookedOnceAt
      <4>4. p \in entries
        BY <3>1 DEF entries, BookPayment, BookRemoval
      <4> QED
        BY <1>1, <2>2, <4>2, <4>3, <4>4 DEF Waiting
    <3>2. CASE BookRemoval(h)
      <4>1. Unbooked(h, i, p) /\ r.at = "bookRemoval"
        BY <1>1, <1>7, <3>2 DEF Unbooked, BookRemoval
      <4>2. ~LiveOn(i, p)
        BY <1>1, <1>7, <4>1 DEF ListInv, BookedOnceAt, LiveOn
      <4>3. \A g \in Slots : ~Unbooked(g, i, p)'
        BY <1>1, <1>7, <2>1, <4>1 DEF ListInv, BookedOnceAt
      <4>4. p \notin entries
        BY <3>2 DEF entries, BookPayment, BookRemoval
      <4> QED
        BY <1>1, <2>2, <4>2, <4>3, <4>4 DEF Waiting
    <3>3. CASE BookAmendment(h)
      <4>1. ~Unbooked(h, i, p)
        BY <1>1, <1>7, <3>3 DEF Unbooked, BookAmendment
      <4>2. \A step \in {"bookPayment", "bookRemoval"} :
              Waiting(i, p, step)' <=> Waiting(i, p, step)
        BY <1>3, <2>1, <4>1 DEF Waiting
      <4>3. p \in entries <=> p \in invoice[i].payment
        BY <1>7, <3>3 DEF entries, BookPayment, BookRemoval, BookAmendment
      <4> QED
        BY <1>1, <1>7, <2>2, <4>2, <4>3 DEF ListInv, ListedAt
    <3> QED
      BY <3>1, <3>2, <3>3
  <2>6. ListedAt(i)'
    <3> SUFFICES ASSUME NEW q \in Payments
                 PROVE  (q \in invoice[i].payment <=>
                           \/ LiveOn(i, q) /\ ~Waiting(i, q, "bookPayment")
                           \/ Waiting(i, q, "bookRemoval"))'
      BY DEF ListedAt
    <3>1. invoice'[i].payment = entries
      BY <1>4, <1>7
    <3>2. CASE q = p
      BY <2>5, <3>1, <3>2
    <3>3. CASE q # p
      BY <1>7, <2>2, <2>3, <2>4, <3>1, <3>3 DEF ListInv, ListedAt
    <3> QED
      BY <3>2, <3>3
  <2>7. BookedOnceAt(i)'
    BY <1>3, <1>7, <2>1 DEF ListInv, BookedOnceAt
  <2> QED
    BY <2>6, <2>7 DEF ListInv
<1>8. CASE ~Sound(i)
  BY <1>5, <1>8 DEF ListInv, ListedAt, BookedOnceAt
<1> QED
  BY <1>6, <1>7, <1>8

ListsInv == \A i \in Invoices : ListInv(i)

LEMMA NextList == TypeOK /\ Refs /\ ListsInv /\ [Next]_vars => ListsInv'
<1> SUFFICES ASSUME TypeOK, Refs, ListsInv, [Next]_vars, NEW i \in Invoices
             PROVE  ListInv(i)'
  BY DEF ListsInv
<1>1. ListInv(i) /\ TypeOK'
  BY NextRefs DEF ListsInv
<1>2. CASE Arrival
  BY <1>1, <1>2, ArrivalList
<1>3. ASSUME NEW h \in Slots, Step(h) \/ Fail(h)
      PROVE  ListInv(i)'
  BY <1>1, <1>3, QuietStepList, FailList, InsertList, RemoveList, BookList DEF Step
<1>4. CASE UNCHANGED vars
  BY <1>1, <1>4 DEF vars, ListInv, ListedAt, BookedOnceAt, Sound, LiveOn, Waiting, Unbooked
<1> QED
  BY <1>2, <1>3, <1>4 DEF Next

\* The payment list of an invoice on which nothing went wrong names its live payments,
\* but for the ones whose creation or removal is still to be booked.
THEOREM ListCorrect == Spec => []ListNamesLivePayments
<1>1. Init => TypeOK /\ Refs /\ ListsInv
  BY InitRefs DEF Init, ListsInv, ListInv, ListedAt, BookedOnceAt, Sound
<1>2. (TypeOK /\ Refs /\ ListsInv) /\ [Next]_vars => (TypeOK /\ Refs /\ ListsInv)'
  BY NextRefs, NextList
<1>3. TypeOK /\ Refs /\ ListsInv => ListNamesLivePayments
  BY ListInvNames DEF ListsInv, ListInv
<1> QED
  BY <1>1, <1>2, <1>3, PTL DEF Spec

-----------------------------------------------------------------------------
(***************************************************************************)
(* The dashboard.                                                          *)
(***************************************************************************)

\* A sum of sums.
LEMMA SumsAdd ==
    ASSUME NEW n \in Nat, NEW f \in [1..n -> Int], NEW g \in [1..n -> Int],
           NEW h \in [1..n -> Int], \A k \in 1..n : h[k] = f[k] + g[k]
    PROVE  SumTo(h, n) = SumTo(f, n) + SumTo(g, n)
<1> DEFINE s == PartialSums(f, n)
           t == PartialSums(g, n)
           u == PartialSums(h, n)
           S == {m \in 0..n : u[m] = s[m] + t[m]}
<1>1. Accumulates(s, f, n) /\ Accumulates(t, g, n) /\ Accumulates(u, h, n)
  BY PartialSumsAccumulate
<1> HIDE DEF s, t, u
<1>2. 0 \in S
  BY <1>1 DEF Accumulates
<1>3. ASSUME NEW m \in 1..n, m - 1 \in S
      PROVE  m \in S
  <2>1. s[m] = s[m - 1] + f[m] /\ t[m] = t[m - 1] + g[m] /\ u[m] = u[m - 1] + h[m]
    BY <1>1 DEF Accumulates
  <2>2. s[m - 1] \in Int /\ t[m - 1] \in Int /\ f[m] \in Int /\ g[m] \in Int
    <3>1. m - 1 \in 0..n
      OBVIOUS
    <3>2. s \in [0..n -> Int] /\ t \in [0..n -> Int]
      BY <1>1 DEF Accumulates
    <3> QED
      BY <3>1, <3>2
  <2>3. h[m] = f[m] + g[m] /\ u[m - 1] = s[m - 1] + t[m - 1]
    BY <1>3
  <2> QED
    BY <2>1, <2>2, <2>3
<1>4. \A m \in 0..n : m \in S
  BY <1>2, <1>3, UpTo
<1> QED
  BY <1>4 DEF SumTo, s, t, u

\* What belongs to the owner i.
Share(f, owner, i, m) == [p \in 1..m |-> IF owner[p] = i THEN f[p] ELSE 0]

\* What each of the first n owners in the order of scan gets.
ShareSums(f, owner, scan, n, m) == [k \in 1..n |-> SumTo(Share(f, owner, scan[k], m), m)]

\* The shares of all owners make up the sum: the order of summation does not
\* matter.
LEMMA SumByOwner ==
    ASSUME NEW n \in Nat, NEW m \in Nat, NEW scan, NEW owner, NEW f \in [1..m -> Int],
           \A j, k \in 1..n : scan[j] = scan[k] => j = k,
           \A p \in 1..m : f[p] = 0 \/ \E k \in 1..n : owner[p] = scan[k]
    PROVE  SumTo(ShareSums(f, owner, scan, n, m), n) = SumTo(f, m)
<1> DEFINE share(k) == Share(f, owner, scan[k], m)
           sums == [k \in 1..n |-> SumTo(share(k), m)]
           first(j) == [p \in 1..m |-> IF \E k \in 1..j : owner[p] = scan[k] THEN f[p] ELSE 0]
           s == PartialSums(sums, n)
           S == {j \in 0..n : s[j] = SumTo(first(j), m)}
<1>1. \A k \in 1..n : share(k) \in [1..m -> Int]
  BY DEF Share
<1>2. \A j \in 0..n : first(j) \in [1..m -> Int]
  OBVIOUS
<1>3. sums \in [1..n -> Int]
  BY <1>1, SumType
<1>4. Accumulates(s, sums, n)
  BY <1>3, PartialSumsAccumulate
<1> HIDE DEF s
<1>5. 0 \in S
  <2>1. \A p \in 1..m : first(0)[p] = 0
    OBVIOUS
  <2>2. 0 \in 0..n
    OBVIOUS
  <2>3. SumTo(first(0), m) = 0
    BY <1>2, <2>1, <2>2, SumOfZeros
  <2> QED
    BY <1>4, <2>2, <2>3 DEF Accumulates
<1>6. ASSUME NEW j \in 1..n, j - 1 \in S
      PROVE  j \in S
  <2>1. s[j] = s[j - 1] + SumTo(share(j), m)
    BY <1>4 DEF Accumulates
  <2>2. s[j - 1] = SumTo(first(j - 1), m) /\ j - 1 \in 0..n /\ j \in 0..n
    BY <1>6
  <2>3. ASSUME NEW p \in 1..m
        PROVE  first(j)[p] = first(j - 1)[p] + share(j)[p]
    <3>1. f[p] \in Int
      OBVIOUS
    <3>2. 1..j = (1..(j - 1)) \cup {j} /\ j \notin 1..(j - 1) /\ 1..(j - 1) \subseteq 1..n
      OBVIOUS
    <3>3. owner[p] = scan[j] => ~ \E k \in 1..(j - 1) : owner[p] = scan[k]
      BY <3>2
    <3>4. CASE owner[p] = scan[j]
      BY <3>1, <3>2, <3>3, <3>4 DEF Share
    <3>5. CASE owner[p] # scan[j]
      <4>1. (\E k \in 1..j : owner[p] = scan[k]) <=> \E k \in 1..(j - 1) : owner[p] = scan[k]
        BY <3>2, <3>5
      <4> QED
        BY <3>1, <3>5, <4>1 DEF Share
    <3> QED
      BY <3>4, <3>5
  <2>4. /\ first(j) \in [1..m -> Int] /\ first(j - 1) \in [1..m -> Int]
        /\ share(j) \in [1..m -> Int]
    BY <1>1, <1>2, <2>2
  <2> HIDE DEF first, share
  <2>5. SumTo(first(j), m) = SumTo(first(j - 1), m) + SumTo(share(j), m)
    BY <2>3, <2>4, SumsAdd
  <2> QED
    BY <2>1, <2>2, <2>5
<1>7. \A j \in 0..n : j \in S
  BY <1>5, <1>6, UpTo
<1>8. first(n) = f
  OBVIOUS
<1>9. s[n] = SumTo(f, m)
  BY <1>7, <1>8
<1> QED
  BY <1>9 DEF SumTo, ShareSums, s

\* A card shows the sum of the amounts, whatever the scan finds.
LEMMA CardIs ==
    ASSUME NEW n \in Nat, NEW scan, NEW amount, \A d \in DOMAIN amount : amount[d] \in Int
    PROVE  /\ Matched(scan, n, amount) \in [1..n -> Int]
           /\ CardAmount(Grouped(scan, n, amount)) = SumTo(Matched(scan, n, amount), n)
<1>1. Matched(scan, n, amount) \in [1..n -> Int]
  BY DEF Matched
<1>2. CASE DOMAIN amount = {}
  <2>1. \A k \in 1..n : Matched(scan, n, amount)[k] = 0
    BY <1>2 DEF Matched
  <2>2. SumTo(Matched(scan, n, amount), n) = 0
    BY <1>1, <2>1, SumOfZeros
  <2> QED
    BY <1>1, <1>2, <2>2 DEF Grouped, CardAmount
<1>3. CASE DOMAIN amount # {}
  BY <1>1, <1>3 DEF Grouped, CardAmount
<1> QED
  BY <1>2, <1>3

\* The scan of the invoices meets each of them once.
LEMMA InvoicesScanned ==
    /\ NInvoices \in Nat
    /\ \A k \in 1..NInvoices : InvoiceScan[k] \in Invoices
    /\ \A j, k \in 1..NInvoices : InvoiceScan[j] = InvoiceScan[k] => j = k
    /\ \A i \in Invoices : \E k \in 1..NInvoices : i = InvoiceScan[k]
<1>1. NInvoices \in Nat /\ ExistsBijection(1..NInvoices, Invoices)
  BY DashboardAssumption, FS_CardinalityType DEF NInvoices
<1>2. InvoiceScan \in Bijection(1..NInvoices, Invoices)
  BY <1>1 DEF ExistsBijection, InvoiceScan
<1> QED
  BY <1>1, <1>2 DEF Bijection, Injection, Surjection, IsInjective

\* While nothing is written and nothing went wrong, a live invoice has the status
\* of its amounts, and the credit of every invoice on the cards is what its live
\* payments make up.
LEMMA InvoiceInOrder ==
    ASSUME TypeOK, Refs, BooksBalance, StatusIsCurrent, NoOrphanPayments, InOrder,
           NEW i \in Invoices
    PROVE  /\ i \in LiveInvoices /\ invoice[i].paymentStatus \notin OpenStatuses
                => invoice[i].total = invoice[i].credit
           /\ IF i \in LiveInvoices THEN SumTo(Paid(i), NPayments) = invoice[i].credit
              ELSE SumTo(Paid(i), NPayments) = 0
<1>1. /\ invoice[i] \in InvoiceDoc /\ invoice[i].state \in DocStates
      /\ invoice[i].paymentStatus \in Statuses
      /\ invoice[i].total \in Int /\ invoice[i].credit \in Int
  BY DEF TypeOK, InvoiceDoc
<1>2. flaws[i] = {} /\ fresh[i]
  BY DEF InOrder
<1>3. \A h \in Slots : request[h].at = "idle"
  BY DEF InOrder, InFlight
<1>4. Paid(i) \in [Payments -> Int]
  BY DEF TypeOK, PaymentDoc, Paid
<1>5. CASE i \in LiveInvoices
  <2>1. invoice[i].state = "live"
    BY <1>5 DEF LiveInvoices
  <2>2. invoice[i].paymentStatus = PaymentStatus(invoice[i].total, invoice[i].credit)
    BY <1>2, <2>1 DEF StatusIsCurrent
  <2>3. invoice[i].paymentStatus \notin OpenStatuses => invoice[i].total = invoice[i].credit
    BY <2>2 DEF PaymentStatus, OpenStatuses
  <2>4. invoice[i].credit + SumTo(Owed(i), NSlots) = SumTo(Paid(i), NPayments)
    BY <1>2, <2>1 DEF BooksBalance, BalancedAt
  <2>5. SumTo(Owed(i), NSlots) = 0
    <3>1. \A h \in 1..NSlots : Owed(i)[h] = 0
      BY <1>3 DEF Owed, Slots, Delta
    <3>2. Owed(i) \in [1..NSlots -> Int]
      BY <3>1 DEF Owed, Slots
    <3> QED
      BY <3>1, <3>2, SumOfZeros
  <2> QED
    BY <1>1, <1>5, <2>3, <2>4, <2>5
<1>6. CASE i \notin LiveInvoices
  <2>1. invoice[i].state \in {"absent", "removed"}
    BY <1>1, <1>6 DEF LiveInvoices, DocStates
  <2>2. ASSUME NEW p \in Payments, payment[p].state = "live", payment[p].invoice = i
        PROVE  FALSE
    <3>1. invoice[i].state # "absent"
      BY <2>2 DEF Refs, PaymentRefs
    <3>2. invoice[i].state # "removed"
      BY <1>2, <1>3, <2>2 DEF NoOrphanPayments
    <3> QED
      BY <2>1, <3>1, <3>2
  <2>3. \A p \in 1..NPayments : Paid(i)[p] = 0
    BY <2>2 DEF Paid, Payments
  <2>4. SumTo(Paid(i), NPayments) = 0
    BY <1>4, <2>3, SumOfZeros DEF Payments
  <2> QED
    BY <1>6, <2>4
<1> QED
  BY <1>5, <1>6

\* A live payment belongs to an invoice.
LEMMA PaymentInOrder ==
    ASSUME Refs, NEW p \in Payments, payment[p].state = "live"
    PROVE  payment[p].invoice \in Invoices
<1> QED
  BY DEF Refs, PaymentRefs

LEMMA CardsAddUp ==
    ASSUME TypeOK, Refs, BooksBalance, StatusIsCurrent, NoOrphanPayments, InOrder
    PROVE  Cards.Invoices - Cards.paid = Cards.Unpaid
<1> DEFINE n == NInvoices
           m == NPayments
           open == {i \in LiveInvoices : invoice[i].paymentStatus \in OpenStatuses}
           totals == Matched(InvoiceScan, n, [i \in LiveInvoices |-> invoice[i].total])
           dues == Matched(InvoiceScan, n, [i \in open |-> invoice[i].total - invoice[i].credit])
           amounts == Matched(PaymentScan, m, [p \in LivePayments |-> payment[p].amount])
           owner == [p \in 1..m |-> payment[p].invoice]
           credits == ShareSums(amounts, owner, InvoiceScan, n, m)
<1>1. n \in Nat /\ m \in Nat
  BY InvoicesScanned
<1>2. \A i \in Invoices : invoice[i].total \in Int /\ invoice[i].credit \in Int
  BY DEF TypeOK, InvoiceDoc
<1>3. \A p \in Payments : payment[p].amount \in Int
  BY DEF TypeOK, PaymentDoc
<1>4. totals \in [1..n -> Int] /\ Cards.Invoices = SumTo(totals, n)
  <2>1. \A i \in LiveInvoices : invoice[i].total \in Int
    BY <1>2 DEF LiveInvoices
  <2> QED
    BY <1>1, <2>1, CardIs DEF Cards, InvoiceTotal
<1>5. dues \in [1..n -> Int] /\ Cards.Unpaid = SumTo(dues, n)
  <2>1. \A i \in open : invoice[i].total - invoice[i].credit \in Int
    BY <1>2 DEF LiveInvoices
  <2> QED
    BY <1>1, <2>1, CardIs DEF Cards, TotalUndue
<1>6. amounts \in [1..m -> Int] /\ Cards.paid = SumTo(amounts, m)
  <2>1. \A p \in LivePayments : payment[p].amount \in Int
    BY <1>3 DEF LivePayments
  <2> QED
    BY <1>1, <2>1, CardIs DEF Cards, PaymentTotal
<1>7. \A p \in 1..m : amounts[p] = IF payment[p].state = "live" THEN payment[p].amount ELSE 0
  BY DEF Matched, PaymentScan, LivePayments, Payments
<1>8. \A i \in Invoices : Share(amounts, owner, i, m) = Paid(i)
  BY <1>7 DEF Share, Paid, Payments
<1>9. SumTo(credits, n) = SumTo(amounts, m)
  <2>1. ASSUME NEW p \in 1..m
        PROVE  amounts[p] = 0 \/ \E k \in 1..n : owner[p] = InvoiceScan[k]
    <3>1. CASE payment[p].state = "live"
      <4>1. payment[p].invoice \in Invoices
        BY <3>1, PaymentInOrder DEF Payments
      <4> QED
        BY <4>1, InvoicesScanned
    <3>2. CASE payment[p].state # "live"
      BY <1>7, <3>2
    <3> QED
      BY <3>1, <3>2
  <2>2. \A j, k \in 1..n : InvoiceScan[j] = InvoiceScan[k] => j = k
    BY InvoicesScanned
  <2>3. amounts \in [1..m -> Int] /\ n \in Nat /\ m \in Nat
    BY <1>1, <1>6
  <2> HIDE DEF amounts, owner, n, m
  <2> QED
    BY <2>1, <2>2, <2>3, SumByOwner
<1>10. ASSUME NEW k \in 1..n
       PROVE  credits[k] \in Int /\ totals[k] = dues[k] + credits[k]
  <2> DEFINE i == InvoiceScan[k]
  <2>1. i \in Invoices
    BY InvoicesScanned
  <2>2. credits[k] = SumTo(Paid(i), NPayments)
    BY <1>8, <2>1 DEF ShareSums
  <2>3. /\ totals[k] = IF i \in LiveInvoices THEN invoice[i].total ELSE 0
        /\ dues[k] = IF i \in open THEN invoice[i].total - invoice[i].credit ELSE 0
    BY DEF Matched
  <2>4. /\ i \in LiveInvoices /\ invoice[i].paymentStatus \notin OpenStatuses
             => invoice[i].total = invoice[i].credit
        /\ IF i \in LiveInvoices THEN credits[k] = invoice[i].credit ELSE credits[k] = 0
    BY <2>1, <2>2, InvoiceInOrder
  <2>5. invoice[i].total \in Int /\ invoice[i].credit \in Int
    BY <1>2, <2>1
  <2> HIDE DEF i, credits, totals, dues
  <2> QED
    BY <2>3, <2>4, <2>5
<1> HIDE DEF credits, totals, dues, amounts, n, m, owner
<1>11. credits \in [1..n -> Int]
  BY <1>10 DEF credits, ShareSums
<1>12. SumTo(totals, n) = SumTo(dues, n) + SumTo(credits, n)
  <2>1. \A k \in 1..n : totals[k] = dues[k] + credits[k]
    BY <1>10
  <2>2. /\ totals \in [1..n -> Int] /\ dues \in [1..n -> Int]
        /\ credits \in [1..n -> Int] /\ n \in Nat
    BY <1>1, <1>4, <1>5, <1>11
  <2> QED
    BY ONLY <2>1, <2>2, SumsAdd
<1>13. SumTo(dues, n) \in Int /\ SumTo(credits, n) \in Int
  BY <1>1, <1>5, <1>11, SumType
<1> QED
  BY <1>4, <1>5, <1>6, <1>9, <1>12, <1>13

\* Whatever happened before, once no request runs and the history shows no flaw the
\* three amounts that the dashboard gets from three scans add up: what was invoiced
\* less what was paid is what is unpaid.
THEOREM DashboardCorrect == Spec => []DashboardAddsUp
<1>1. TypeOK /\ Refs /\ BooksBalance /\ StatusIsCurrent /\ NoOrphanPayments => DashboardAddsUp
  BY CardsAddUp DEF DashboardAddsUp
<1>2. Init => TypeOK /\ Refs
  BY InitRefs
<1>3. (TypeOK /\ Refs) /\ [Next]_vars => (TypeOK /\ Refs)'
  BY NextRefs
<1> QED
  BY <1>1, <1>2, <1>3, Conservation, StatusCorrect, NoOrphans, PTL DEF Spec
=============================================================================
